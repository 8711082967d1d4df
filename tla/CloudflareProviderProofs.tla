----------------------- MODULE CloudflareProviderProofs -----------------------
(***************************************************************************)
(* The safety properties of CloudflareProvider for any number of calls and *)
(* browsers, any timeouts and any cache size.                              *)
(***************************************************************************)
EXTENDS CloudflareProvider, TLAPS

\* Each call has the request that its position says, and none before it.
Position(c) ==
  /\ op[c].verb = "none" => op[c] = NoOp
  /\ pc[c] = "idle" => target[c] = Nobody
  /\ pc[c] \in {"idle", "joining", "rejoin"} => op[c].verb = "none"
  /\ pc[c] = "posting" <=> op[c].verb = "POST"
  /\ pc[c] \in {"leading", "retrying", "cleaning"} => op[c].verb = "DELETE"
  /\ pc[c] \in {"joining", "rejoin"} => target[c] \in Session
  /\ pc[c] # "done" => answer[c] = "none"
  /\ answer[c] \in Gone => target[c] \in Session

PositionInv == \A c \in Caller : Position(c)

\* A DELETE is tracked from the moment it is sent until it is settled.
TrackedInv ==
  \A c \in Caller : op[c].verb = "DELETE" => target[c] \in Session /\ inFlight[target[c]] = c

\* A browser is known to nobody until its POST is answered and consumed: until
\* it is created no call is about it, and after that only the call that made it.
Unborn(s) == upstream[s] = "absent" => s \notin known /\ \A c \in Caller : target[c] # s

Newborn(c) ==
  op[c].verb = "POST" =>
    /\ op[c].phase = "sent" => target[c] = Nobody
    /\ op[c].response \in {"ok", "identity"} => target[c] \in Session
    /\ target[c] # Nobody =>
         target[c] \notin known /\ \A d \in Caller \ {c} : target[d] # target[c]

FreshInv == (\A s \in Session : Unborn(s)) /\ (\A c \in Caller : Newborn(c))

\* What the cache and the responses on their way say of a browser is true.
OpTrue(c) ==
  /\ op[c].verb = "DELETE" /\ op[c].response \in {"ok", "missing"} => upstream[target[c]] = "gone"
  /\ op[c].phase = "sent" => op[c].response = "none"

AnswerTrue(c) == answer[c] \in Gone => upstream[target[c]] = "gone"

GoneInv ==
  /\ \A s \in Session : recent[s] > 0 => upstream[s] = "gone"
  /\ \A c \in Caller : OpTrue(c) /\ AnswerTrue(c)

\* The timer of a request runs with the time its caller has left, or less; and
\* nobody is told of an interruption that was not its own.
TimeKept(c) ==
  /\ Outstanding(c) => op[c].left <= left[c]
  /\ pc[c] \in {"posting", "leading", "retrying"} => op[c].left = left[c]
  /\ c \in timedOut => left[c] = 0 /\ pc[c] # "idle"
  /\ answer[c] = Aborted => c \in aborted
  /\ answer[c] = TimedOut => left[c] = 0

TimeInv == \A c \in Caller : TimeKept(c)

Core == TypeOK /\ PositionInv /\ TrackedInv /\ FreshInv

IInv == Core /\ GoneInv /\ TimeInv

-----------------------------------------------------------------------------
(* The building blocks of the actions, one lemma each                      *)

\* No request.
LEMMA NoOpFields ==
  /\ NoOp \in OpRecord
  /\ NoOp.verb = "none" /\ NoOp.phase = "none" /\ NoOp.response = "none" /\ NoOp.left = 0
BY CloudflareAssumption DEF NoOp, OpRecord, Response

\* A request that has just been sent.
LEMMA RequestFields ==
  ASSUME NEW v \in {"POST", "DELETE"}, NEW t \in 0..MaxTimeout
  PROVE  /\ Request(v, t) \in OpRecord /\ Request(v, t).verb = v
         /\ Request(v, t).phase = "sent" /\ Request(v, t).response = "none"
         /\ Request(v, t).left = t
BY Zenon DEF Request, OpRecord, Response

\* The end of a DELETE: nothing is tracked for its browser, and its joiners are
\* answered or start over.
LEMMA SettleDeleteCore ==
  ASSUME Core, NEW c \in Caller, NEW outcome, op[c].verb = "DELETE", SettleDelete(c, outcome),
         UNCHANGED <<upstream, known, target, left, timedOut>>,
         recent' \in [Session -> 0..CacheTTL], aborted' \subseteq Caller
  PROVE  Core'
<1> DEFINE s == target[c]
<1>1. s \in Session /\ inFlight[s] = c
  BY Zenon DEF Core, TrackedInv
<1>2. /\ inFlight' = [inFlight EXCEPT ![s] = Nobody]
      /\ op' = [op EXCEPT ![c] = NoOp]
  BY Zenon, <1>1 DEF SettleDelete, Untracked
<1>3. \A d \in Caller \ {c} : op[d].verb = "DELETE" => target[d] # s
  BY Zenon, <1>1 DEF Core, TrackedInv
<1>4. pc[c] # "joining"
  BY Zenon DEF Core, PositionInv, Position
<1>5. /\ pc' \in [Caller -> Label] /\ pc'[c] = "done"
      /\ \A d \in Caller \ {c} :
            \/ pc'[d] = pc[d] /\ answer'[d] = answer[d]
            \/ pc[d] = "joining" /\ pc'[d] = "rejoin" /\ answer'[d] = answer[d]
            \/ pc[d] = "joining" /\ pc'[d] = "done" /\ answer'[d] = JoinedAnswer(outcome)
  <2> DEFINE retry == IF RetriesAfter(outcome) THEN Joiners(s) ELSE {}
  <2>1. pc' = [d \in Caller |-> IF d \in retry THEN "rejoin"
                               ELSE IF d = c \/ d \in Joiners(s) THEN "done" ELSE pc[d]]
    BY Zenon DEF SettleDelete
  <2>2. ASSUME NEW d \in Caller \ {c}
        PROVE  answer'[d] = IF d \in Joiners(s) \ retry THEN JoinedAnswer(outcome) ELSE answer[d]
    BY Zenon DEF SettleDelete
  <2>3. pc \in [Caller -> Label]
    BY Zenon DEF Core, TypeOK
  <2>4. \A d \in Joiners(s) : pc[d] = "joining"
    BY Zenon DEF Joiners
  <2>5. retry \subseteq Joiners(s)
    BY Zenon
  <2> HIDE DEF retry
  <2> QED
    BY Zenon, <1>4, <2>1, <2>2, <2>3, <2>4, <2>5 DEF Label
<1>6. TypeOK'
  <2>1. op' \in [Caller -> OpRecord] /\ inFlight' \in [Session -> Caller \cup {Nobody}]
    BY Zenon, <1>1, <1>2, NoOpFields DEF Core, TypeOK
  <2>2. ASSUME NEW x \in Session, inFlight'[x] # Nobody
        PROVE  op'[inFlight'[x]].verb = "DELETE" /\ target'[inFlight'[x]] = x
    <3>1. x # s /\ inFlight[x] = inFlight'[x] /\ inFlight[x] \in Caller
      BY <1>1, <1>2, <2>2 DEF Core, TypeOK
    <3>2. op[inFlight[x]].verb = "DELETE" /\ target[inFlight[x]] = x
      BY Zenon, <2>2, <3>1 DEF Core, TypeOK
    <3> QED
      BY Zenon, <1>2, <3>1, <3>2 DEF Core, TypeOK
  <2> QED
    BY Zenon, <1>5, <2>1, <2>2 DEF Core, TypeOK, SettleDelete
<1>7. PositionInv'
  BY <1>1, <1>2, <1>5, NoOpFields DEF Core, TypeOK, PositionInv, Position
<1>8. TrackedInv'
  BY Zenon, <1>1, <1>2, <1>3, NoOpFields DEF Core, TypeOK, TrackedInv
<1>9. FreshInv'
  BY <1>2, NoOpFields DEF Core, TypeOK, FreshInv, Unborn, Newborn
<1> QED
  BY Zenon, <1>6, <1>7, <1>8, <1>9 DEF Core
\* A call moves on without a request of its own: it is answered, or it joins.
LEMMA MoveCore ==
  ASSUME Core, NEW c \in Caller, NEW l \in Label, pc' = [pc EXCEPT ![c] = l],
         answer' = answer \/ \E a : answer' = [answer EXCEPT ![c] = a],
         \/ target' = target
         \/ op[c].verb = "none" /\ \E s \in known : target' = [target EXCEPT ![c] = s],
         UNCHANGED <<op, inFlight, upstream, known>>,
         recent' \in [Session -> 0..CacheTTL], left' \in [Caller -> 0..MaxTimeout],
         aborted' \subseteq Caller, timedOut' \subseteq Caller, Position(c)'
  PROVE  Core'
<1>1. TypeOK'
  <2>1. /\ target' \in [Caller -> Session \cup {Nobody}]
        /\ \A d \in Caller : op[d].verb = "DELETE" => target'[d] = target[d]
    BY DEF Core, TypeOK
  <2>2. \A s \in Session : inFlight[s] # Nobody =>
           inFlight[s] \in Caller /\ op[inFlight[s]].verb = "DELETE" /\ target[inFlight[s]] = s
    BY DEF Core, TypeOK
  <2>3. pc' \in [Caller -> Label] /\ DOMAIN answer' = Caller
    BY Zenon DEF Core, TypeOK
  <2> QED
    BY Zenon, <2>1, <2>2, <2>3 DEF Core, TypeOK
<1>2. PositionInv'
  <2>1. ASSUME NEW d \in Caller \ {c} PROVE Position(d)'
    <3>1. Position(d) /\ pc'[d] = pc[d] /\ answer'[d] = answer[d] /\ target'[d] = target[d]
      BY Zenon DEF Core, TypeOK, PositionInv
    <3> QED
      BY Zenon, <3>1 DEF Position
  <2> QED
    BY Zenon, <2>1 DEF PositionInv
<1>3. TrackedInv'
  BY DEF Core, TypeOK, TrackedInv
<1>4. FreshInv'
  <2>1. ASSUME NEW s \in Session PROVE Unborn(s)'
    BY DEF Core, TypeOK, FreshInv, Unborn
  <2>2. ASSUME NEW d \in Caller PROVE Newborn(d)'
    BY DEF Core, TypeOK, FreshInv, Newborn
  <2> QED
    BY Zenon, <2>1, <2>2 DEF FreshInv
<1> QED
  BY Zenon, <1>1, <1>2, <1>3, <1>4 DEF Core

\* A DELETE is sent for a browser that no other request is about to delete.
LEMMA StartCore ==
  ASSUME Core, NEW c \in Caller, NEW s \in Session, NEW t \in 0..MaxTimeout,
         NEW l \in {"leading", "retrying", "cleaning"}, StartTermination(c, s, t, l),
         op[c].verb # "DELETE", pc[c] # "done", inFlight[s] = Nobody,
         \/ target' = target /\ target[c] = s
         \/ op[c].verb = "none" /\ s \in known /\ target' = [target EXCEPT ![c] = s],
         UNCHANGED <<upstream, known, recent>>,
         left' \in [Caller -> 0..MaxTimeout], UNCHANGED <<aborted, timedOut>>
  PROVE  Core'
<1>1. /\ op' = [op EXCEPT ![c] = Request("DELETE", t)]
      /\ inFlight' = [inFlight EXCEPT ![s] = c]
      /\ pc' = [pc EXCEPT ![c] = l] /\ answer' = answer
  BY Zenon DEF StartTermination
<1>2. /\ Request("DELETE", t) \in OpRecord /\ Request("DELETE", t).verb = "DELETE"
  BY Zenon, RequestFields
<1>3. /\ target' \in [Caller -> Session \cup {Nobody}] /\ target'[c] = s
      /\ \A d \in Caller \ {c} : target'[d] = target[d]
  BY DEF Core, TypeOK
<1>4. TypeOK'
  <2>1. \A x \in Session : inFlight[x] # Nobody =>
           inFlight[x] \in Caller \ {c} /\ op[inFlight[x]].verb = "DELETE" /\ target[inFlight[x]] = x
    BY DEF Core, TypeOK
  <2>2. /\ pc' \in [Caller -> Label] /\ op' \in [Caller -> OpRecord]
        /\ inFlight' \in [Session -> Caller \cup {Nobody}]
    BY Zenon, <1>1, <1>2 DEF Core, TypeOK, Label
  <2> QED
    BY <1>1, <1>2, <1>3, <2>1, <2>2 DEF Core, TypeOK
<1>5. PositionInv'
  <2>1. ASSUME NEW d \in Caller \ {c} PROVE Position(d)'
    BY <1>1, <1>3 DEF Core, TypeOK, PositionInv, Position
  <2>2. Position(c)'
    BY Zenon, <1>1, <1>2, <1>3 DEF Core, TypeOK, PositionInv, Position, Gone
  <2> QED
    BY Zenon, <2>1, <2>2 DEF PositionInv
<1>6. TrackedInv'
  BY <1>1, <1>2, <1>3, CloudflareAssumption DEF Core, TypeOK, TrackedInv
<1>7. FreshInv'
  <2>1. ASSUME NEW x \in Session PROVE Unborn(x)'
    BY <1>3 DEF Core, TypeOK, FreshInv, Unborn
  <2>2. ASSUME NEW d \in Caller PROVE Newborn(d)'
    BY <1>1, <1>2, <1>3 DEF Core, TypeOK, FreshInv, Newborn
  <2> QED
    BY Zenon, <2>1, <2>2 DEF FreshInv
<1> QED
  BY Zenon, <1>4, <1>5, <1>6, <1>7 DEF Core

\* The end of a POST: the browser, if any, becomes known to the control plane.
LEMMA SettlePostCore ==
  ASSUME Core, NEW c \in Caller, NEW outcome, op[c].verb = "POST", SettlePost(c, outcome),
         outcome \notin Gone, UNCHANGED <<upstream, target, left, timedOut, recent>>,
         known' = known \/ (target[c] \in Session /\ known' = known \cup {target[c]}),
         aborted' \subseteq Caller
  PROVE  Core'
<1>1. /\ op' = [op EXCEPT ![c] = NoOp] /\ inFlight' = inFlight
      /\ pc' = [pc EXCEPT ![c] = "done"] /\ answer' = [answer EXCEPT ![c] = outcome]
  BY Zenon DEF SettlePost, Finish
<1>2. TypeOK'
  <2>1. /\ pc' \in [Caller -> Label] /\ op' \in [Caller -> OpRecord] /\ known' \subseteq Session
    BY Zenon, <1>1, NoOpFields DEF Core, TypeOK, Label
  <2>2. \A x \in Session : inFlight[x] # Nobody =>
           inFlight[x] \in Caller \ {c} /\ op[inFlight[x]].verb = "DELETE" /\ target[inFlight[x]] = x
    BY DEF Core, TypeOK
  <2> QED
    BY Zenon, <1>1, <2>1, <2>2 DEF Core, TypeOK
<1>3. PositionInv'
  <2>1. ASSUME NEW d \in Caller \ {c} PROVE Position(d)'
    BY Zenon, <1>1 DEF Core, TypeOK, PositionInv, Position
  <2>2. Position(c)'
    BY Zenon, <1>1, NoOpFields DEF Core, TypeOK, PositionInv, Position
  <2> QED
    BY Zenon, <2>1, <2>2 DEF PositionInv
<1>4. TrackedInv'
  BY Zenon, <1>1, NoOpFields DEF Core, TypeOK, TrackedInv
<1>5. FreshInv'
  <2>1. ASSUME NEW x \in Session PROVE Unborn(x)'
    BY DEF Core, TypeOK, FreshInv, Unborn
  <2>2. ASSUME NEW d \in Caller PROVE Newborn(d)'
    BY <1>1, NoOpFields DEF Core, TypeOK, FreshInv, Newborn
  <2> QED
    BY Zenon, <2>1, <2>2 DEF FreshInv
<1> QED
  BY Zenon, <1>2, <1>3, <1>4, <1>5 DEF Core
-----------------------------------------------------------------------------
(* Requests, references and what is tracked: the steps                     *)

\* allocate and terminate, up to the request they send.
LEMMA CallCore ==
  ASSUME Core, NEW c \in Caller, NEW ticks \in 1..MaxTimeout,
         Allocate(c, ticks) \/ \E s \in Session : Terminate(c, s, ticks)
  PROVE  Core'
<1>1. /\ pc[c] = "idle" /\ left' \in [Caller -> 0..MaxTimeout] /\ op[c].verb = "none"
      /\ answer[c] = "none" /\ target[c] = Nobody /\ ticks \in 0..MaxTimeout
      /\ UNCHANGED <<upstream, known, recent, aborted, timedOut>>
  BY CloudflareAssumption DEF Allocate, Terminate, Core, TypeOK, PositionInv, Position
<1>2. CASE \E s \in known : \E l \in {"done", "joining"} :
             /\ target' = [target EXCEPT ![c] = s] /\ pc' = [pc EXCEPT ![c] = l]
             /\ UNCHANGED <<op, inFlight>>
             /\ \/ l = "joining" /\ UNCHANGED answer
                \/ l = "done" /\ \E a : answer' = [answer EXCEPT ![c] = a]
  <2>1. Position(c)'
    BY <1>1, <1>2 DEF Core, TypeOK, PositionInv, Position, Gone
  <2> QED
    BY Zenon, <1>1, <1>2, <2>1, MoveCore DEF Core, TypeOK, Label
<1>3. CASE Allocate(c, ticks) /\ c \in aborted
  <2>1. /\ pc' = [pc EXCEPT ![c] = "done"] /\ answer' = [answer EXCEPT ![c] = Aborted]
        /\ UNCHANGED <<op, inFlight, target>>
    BY Zenon, <1>3 DEF Allocate, Finish
  <2>2. Position(c)'
    BY Zenon, <1>1, <2>1 DEF Core, TypeOK, PositionInv, Position, Gone, Aborted
  <2> QED
    BY Zenon, <1>1, <2>1, <2>2, MoveCore DEF Core, TypeOK, Label
<1>4. CASE Allocate(c, ticks) /\ c \notin aborted
  <2>1. /\ op' = [op EXCEPT ![c] = Request("POST", ticks)]
        /\ pc' = [pc EXCEPT ![c] = "posting"] /\ UNCHANGED <<answer, inFlight, target>>
    BY Zenon, <1>4 DEF Allocate
  <2>2. /\ Request("POST", ticks) \in OpRecord /\ Request("POST", ticks).verb = "POST"
        /\ Request("POST", ticks).response = "none"
    BY Zenon, <1>1, RequestFields
  <2>3. TypeOK'
    <3>1. pc' \in [Caller -> Label] /\ op' \in [Caller -> OpRecord]
      BY Zenon, <2>1, <2>2 DEF Core, TypeOK, Label
    <3>2. \A x \in Session : inFlight[x] # Nobody =>
             inFlight[x] \in Caller \ {c} /\ op[inFlight[x]].verb = "DELETE" /\ target[inFlight[x]] = x
      BY <1>1 DEF Core, TypeOK
    <3> QED
      BY Zenon, <1>1, <2>1, <3>1, <3>2 DEF Core, TypeOK
  <2>4. PositionInv'
    BY Zenon, <1>1, <2>1, <2>2 DEF Core, TypeOK, PositionInv, Position, Gone
  <2>5. TrackedInv' /\ FreshInv'
    BY <1>1, <2>1, <2>2 DEF Core, TypeOK, TrackedInv, FreshInv, Unborn, Newborn
  <2> QED
    BY Zenon, <2>3, <2>4, <2>5 DEF Core
<1>5. ASSUME NEW s \in Session, Terminate(c, s, ticks), StartTermination(c, s, ticks, "leading"),
             inFlight[s] = Nobody
      PROVE  Core'
  BY Zenon, <1>1, <1>5, StartCore DEF Terminate
<1>6. ASSUME NEW s \in Session, Terminate(c, s, ticks)
      PROVE  Core'
  <2>1. CASE c \in aborted \/ IsRecentlyTerminated(s) \/ inFlight[s] # Nobody
    BY Zenon, <1>2, <1>6, <2>1 DEF Terminate, Arbitrate, Finish
  <2>2. CASE ~(c \in aborted \/ IsRecentlyTerminated(s) \/ inFlight[s] # Nobody)
    BY Zenon, <1>5, <1>6, <2>2 DEF Terminate, Arbitrate
  <2> QED
    BY Zenon, <2>1, <2>2
<1> QED
  BY Zenon, <1>3, <1>4, <1>6

\* A terminate whose joined deletion failed sends its own, or joins the next.
LEMMA RejoinCore ==
  ASSUME Core, NEW c \in Caller, Rejoin(c)
  PROVE  Core'
<1>1. /\ pc[c] = "rejoin" /\ op[c].verb = "none" /\ target[c] \in Session
      /\ answer[c] = "none" /\ left[c] \in 0..MaxTimeout
      /\ UNCHANGED <<upstream, known, recent, target, left, aborted, timedOut>>
  BY Zenon DEF Rejoin, Core, TypeOK, PositionInv, Position
<1>2. CASE \E l \in {"done", "joining"} :
             /\ pc' = [pc EXCEPT ![c] = l] /\ UNCHANGED <<op, inFlight>>
             /\ \/ l = "joining" /\ UNCHANGED answer
                \/ l = "done" /\ \E a : answer' = [answer EXCEPT ![c] = a]
  <2>1. Position(c)'
    BY <1>1, <1>2 DEF Core, TypeOK, PositionInv, Position, Gone
  <2> QED
    BY Zenon, <1>1, <1>2, <2>1, MoveCore DEF Core, TypeOK, Label
<1>3. CASE StartTermination(c, target[c], left[c], "retrying") /\ inFlight[target[c]] = Nobody
  BY Zenon, <1>1, <1>3, StartCore DEF Core, TypeOK
<1>4. CASE left[c] = 0 \/ IsRecentlyTerminated(target[c]) \/ inFlight[target[c]] # Nobody
  BY Zenon, <1>2, <1>4 DEF Rejoin, RetryTermination, Arbitrate, Finish
<1>5. CASE ~(left[c] = 0 \/ IsRecentlyTerminated(target[c]) \/ inFlight[target[c]] # Nobody)
  BY Zenon, <1>3, <1>5 DEF Rejoin, RetryTermination, Arbitrate
<1> QED
  BY Zenon, <1>4, <1>5
\* The upstream answers a request.
LEMMA AnsweredFields ==
  ASSUME Core, NEW c \in Caller, NEW r \in Response, Answered(c, r)
  PROVE  /\ op' \in [Caller -> OpRecord]
         /\ op'[c].verb = op[c].verb /\ op'[c].left = op[c].left
         /\ op'[c].phase = "answered" /\ op'[c].response = r
         /\ \A d \in Caller \ {c} : op'[d] = op[d]
<1> DEFINE o == [op[c] EXCEPT !.phase = "answered", !.response = r]
<1>0. op[c] \in OpRecord
  BY Zenon DEF Core, TypeOK
<1>1. /\ o \in OpRecord /\ o.verb = op[c].verb /\ o.left = op[c].left
      /\ o.phase = "answered" /\ o.response = r
  BY Zenon, <1>0 DEF OpRecord
<1>2. op' = [op EXCEPT ![c] = o]
  BY Zenon DEF Answered
<1> HIDE DEF o
<1> QED
  BY Zenon, <1>1, <1>2 DEF Core, TypeOK

\* Cloudflare answers a DELETE.
LEMMA UpstreamDeletesCore ==
  ASSUME Core, NEW c \in Caller, UpstreamDeletes(c)
  PROVE  Core'
<1>1. PICK r \in Response : Answered(c, r)
  BY Zenon DEF UpstreamDeletes, Response
<1>2. /\ op[c].verb = "DELETE" /\ target[c] \in Session
      /\ UNCHANGED <<known, inFlight, recent, pc, target, left, aborted, timedOut, answer>>
      /\ upstream' = upstream \/ (upstream[target[c]] = "running"
                                  /\ upstream' = [upstream EXCEPT ![target[c]] = "gone"])
  BY Zenon DEF UpstreamDeletes, calls, Core, TrackedInv
<1>3. /\ op' \in [Caller -> OpRecord] /\ op'[c].verb = "DELETE"
      /\ \A d \in Caller \ {c} : op'[d] = op[d]
  BY Zenon, <1>1, <1>2, AnsweredFields
<1>4. upstream' \in [Session -> {"absent", "running", "gone"}]
  BY Zenon, <1>2 DEF Core, TypeOK
<1>5. TypeOK'
  BY <1>2, <1>3, <1>4 DEF Core, TypeOK
<1>6. PositionInv'
  BY <1>2, <1>3 DEF Core, PositionInv, Position
<1>7. TrackedInv'
  BY Zenon, <1>2, <1>3 DEF Core, TrackedInv
<1>8. FreshInv'
  BY <1>2, <1>3 DEF Core, TypeOK, FreshInv, Unborn, Newborn
<1> QED
  BY Zenon, <1>5, <1>6, <1>7, <1>8 DEF Core

\* Cloudflare answers a POST, with a browser nobody knows of yet or without one.
LEMMA UpstreamCreatesCore ==
  ASSUME Core, NEW c \in Caller, UpstreamCreates(c)
  PROVE  Core'
<1>1. PICK r \in Response : Answered(c, r) /\
         \/ \E s \in Session : /\ upstream[s] = "absent"
                               /\ upstream' = [upstream EXCEPT ![s] = "running"]
                               /\ target' = [target EXCEPT ![c] = s]
         \/ r \notin {"ok", "identity"} /\ UNCHANGED <<upstream, target>>
  BY Zenon, CloudflareAssumption DEF UpstreamCreates, Response
<1>2. /\ op[c].verb = "POST" /\ op[c].phase = "sent" /\ target[c] = Nobody
      /\ pc[c] = "posting" /\ answer[c] = "none"
      /\ UNCHANGED <<known, inFlight, recent, pc, left, aborted, timedOut, answer>>
  BY Zenon DEF UpstreamCreates, Core, FreshInv, Newborn, PositionInv, Position
<1>3. /\ op' \in [Caller -> OpRecord] /\ op'[c].verb = "POST" /\ op'[c].phase = "answered"
      /\ op'[c].response = r /\ \A d \in Caller \ {c} : op'[d] = op[d]
  BY Zenon, <1>1, <1>2, AnsweredFields
<1>4. /\ upstream' \in [Session -> {"absent", "running", "gone"}]
      /\ target' \in [Caller -> Session \cup {Nobody}]
      /\ \A d \in Caller \ {c} : target'[d] = target[d]
      /\ \A s \in Session : upstream'[s] = "absent" => upstream[s] = "absent" /\ target'[c] # s
      /\ \/ target'[c] = Nobody /\ r \notin {"ok", "identity"}
         \/ target'[c] \in Session /\ upstream[target'[c]] = "absent"
  BY <1>1, <1>2, CloudflareAssumption DEF Core, TypeOK
<1>5. TypeOK'
  <2>1. \A x \in Session : inFlight[x] # Nobody =>
           inFlight[x] \in Caller \ {c} /\ op[inFlight[x]].verb = "DELETE" /\ target[inFlight[x]] = x
    BY <1>2 DEF Core, TypeOK
  <2> QED
    BY <1>2, <1>3, <1>4, <2>1 DEF Core, TypeOK
<1>6. PositionInv'
  BY <1>2, <1>3, <1>4 DEF Core, PositionInv, Position, Gone
<1>7. TrackedInv'
  BY <1>2, <1>3, <1>4 DEF Core, TrackedInv
<1>8. FreshInv'
  <2>1. ASSUME NEW s \in Session PROVE Unborn(s)'
    BY <1>2, <1>4 DEF Core, TypeOK, FreshInv, Unborn
  <2>2. Newborn(c)'
    BY <1>2, <1>3, <1>4 DEF Core, TypeOK, FreshInv, Unborn, Newborn
  <2>3. ASSUME NEW d \in Caller \ {c} PROVE Newborn(d)'
    BY <1>2, <1>3, <1>4 DEF Core, TypeOK, FreshInv, Unborn, Newborn
  <2> QED
    BY Zenon, <2>1, <2>2, <2>3 DEF FreshInv
<1> QED
  BY <1>5, <1>6, <1>7, <1>8 DEF Core

\* An answer is one of the codes of ErrorForResponse, or says what happened.
LEMMA ErrorCodes ==
  ASSUME NEW r, NEW v
  PROVE  ErrorForResponse(r, v) \notin Gone \cup {Aborted, TimedOut}
BY Zenon DEF ErrorForResponse, Gone, Aborted, TimedOut

\* What a failed fetch is mapped to: an interruption only if it happened, and never
\* the news that a browser is gone.
LEMMA FailureCodes ==
  ASSUME NEW c
  PROVE  /\ MapFetchFailure(c, Invalid) \notin Gone
         /\ MapFetchFailure(c, Invalid) = Aborted => c \in aborted
         /\ MapFetchFailure(c, Invalid) = TimedOut => c \in timedOut
BY Zenon DEF MapFetchFailure, Invalid, Gone, Aborted, TimedOut

\* The insertion forgets other entries, and changes none of them.
LEMMA MarkKeeps ==
  ASSUME Core, NEW s \in Session, MarkRecentlyTerminated(s)
  PROVE  /\ recent' \in [Session -> 0..CacheTTL]
         /\ \A x \in Session \ {s} : recent'[x] \in {0, recent[x]}
BY CloudflareAssumption DEF Core, TypeOK, MarkRecentlyTerminated

\* The caller reads the response of its request.
LEMMA ConsumeCore ==
  ASSUME Core, NEW c \in Caller, Consume(c)
  PROVE  Core'
<1>1. UNCHANGED <<upstream, target, left, aborted, timedOut>> /\ aborted' \subseteq Caller
      /\ op[c].verb \in {"POST", "DELETE"}
  <2>1. op[c] # NoOp
    BY Zenon, NoOpFields DEF Consume
  <2> QED
    BY <2>1 DEF Consume, Core, TypeOK, PositionInv, Position, OpRecord
<1>2. CASE op[c].verb = "DELETE"
  <2>1. PICK o : SettleDelete(c, o)
    BY Zenon, <1>2 DEF Consume, ConsumeDelete
  <2>2. known' = known /\ target[c] \in Session
    BY Zenon, <1>2 DEF Consume, Core, TrackedInv
  <2>3. recent' \in [Session -> 0..CacheTTL]
    BY Zenon, <1>2, <2>2, MarkKeeps DEF Consume, ConsumeDelete, Core, TypeOK
  <2> QED
    BY Zenon, <1>1, <1>2, <2>1, <2>2, <2>3, SettleDeleteCore
<1>3. CASE op[c].verb = "POST" /\ op[c].response = "identity" /\ left[c] # 0
  <2>1. /\ StartTermination(c, target[c], CleanupBudget(c), "cleaning") /\ recent' = recent
        /\ known' = known
    BY Zenon, <1>3 DEF Consume, ConsumePost, CleanupInvalidAllocation
  <2>2. target[c] \in Session /\ inFlight[target[c]] = Nobody /\ pc[c] # "done"
    BY <1>3, CloudflareAssumption DEF Core, TypeOK, FreshInv, Newborn, PositionInv, Position
  <2>3. CleanupBudget(c) \in 0..MaxTimeout
    BY CloudflareAssumption DEF CleanupBudget, Core, TypeOK
  <2> QED
    BY Zenon, <1>1, <1>3, <2>1, <2>2, <2>3, StartCore DEF Core, TypeOK
<1>4. CASE op[c].verb = "POST" /\ ~(op[c].response = "identity" /\ left[c] # 0)
  <2>1. recent' = recent /\ \E o : o \notin Gone /\ SettlePost(c, o)
    BY Zenon, <1>4, ErrorCodes, FailureCodes DEF Consume, ConsumePost, CleanupInvalidAllocation, Gone, Invalid
  <2>2. known' = known \/ (target[c] \in Session /\ known' = known \cup {target[c]})
    BY Zenon, <1>4 DEF Consume, Core, FreshInv, Newborn
  <2> QED
    BY Zenon, <1>1, <1>4, <2>1, <2>2, SettlePostCore
<1> QED
  BY Zenon, <1>1, <1>2, <1>3, <1>4
\* A request that fails, is aborted or times out.
LEMMA FailCore ==
  ASSUME Core, NEW c \in Caller, Outstanding(c), NEW o, o \notin Gone, Fail(c, o),
         aborted' \subseteq Caller
  PROVE  Core'
<1>1. op[c].verb \in {"POST", "DELETE"}
  BY DEF Outstanding, Core, TypeOK, PositionInv, Position, OpRecord
<1>2. UNCHANGED <<upstream, known, recent, target, left, timedOut>>
  BY Zenon DEF Fail
<1>3. CASE op[c].verb = "DELETE"
  BY Zenon, <1>2, <1>3, SettleDeleteCore DEF Fail, Core, TypeOK
<1>4. CASE op[c].verb = "POST"
  BY Zenon, <1>2, <1>4, SettlePostCore DEF Fail
<1> QED
  BY Zenon, <1>1, <1>3, <1>4

\* The caller's signal fires.
LEMMA AbortCore ==
  ASSUME Core, NEW c \in Caller, Abort(c)
  PROVE  Core'
<1>1. aborted' \subseteq Caller /\ pc[c] # "done"
  BY Zenon DEF Abort, Core, TypeOK
<1>2. CASE Outstanding(c) /\ pc[c] = "cleaning"
  <2>1. op[c].verb = "DELETE" /\ target[c] \in Session /\ inFlight[target[c]] = c
    BY Zenon, <1>2 DEF Core, PositionInv, Position, TrackedInv
  <2>2. /\ op' = [op EXCEPT ![c] = NoOp] /\ inFlight' = [inFlight EXCEPT ![target[c]] = Nobody]
        /\ pc' = [pc EXCEPT ![c] = "done"] /\ answer' = [answer EXCEPT ![c] = Aborted]
        /\ UNCHANGED <<upstream, known, recent, target, left, timedOut>>
    BY Zenon, <1>2, <2>1 DEF Abort, Untracked, Finish
  <2>3. TypeOK'
    <3>1. \A x \in Session : inFlight[x] # Nobody =>
             inFlight[x] \in Caller /\ op[inFlight[x]].verb = "DELETE" /\ target[inFlight[x]] = x
      BY DEF Core, TypeOK
    <3>2. /\ pc' \in [Caller -> Label] /\ op' \in [Caller -> OpRecord]
          /\ inFlight' \in [Session -> Caller \cup {Nobody}] /\ DOMAIN answer' = Caller
      BY Zenon, <2>1, <2>2, NoOpFields DEF Core, TypeOK, Label
    <3>3. ASSUME NEW x \in Session, inFlight'[x] # Nobody
          PROVE  inFlight'[x] = inFlight[x] /\ inFlight[x] # c
      BY Zenon, <2>1, <2>2, <3>1, <3>3 DEF Core, TypeOK
    <3> QED
      BY Zenon, <1>1, <2>2, <3>1, <3>2, <3>3 DEF Core, TypeOK
  <2>4. PositionInv'
    BY Zenon, <2>1, <2>2, NoOpFields DEF Core, TypeOK, PositionInv, Position
  <2>5. TrackedInv' /\ FreshInv'
    BY <2>1, <2>2, NoOpFields DEF Core, TypeOK, TrackedInv, FreshInv, Unborn, Newborn
  <2> QED
    BY Zenon, <2>3, <2>4, <2>5 DEF Core
<1>3. CASE Outstanding(c) /\ pc[c] # "cleaning"
  BY Zenon, <1>1, <1>3, FailCore DEF Abort, Gone, Aborted
<1>4. CASE ~Outstanding(c)
  <2>1. PICK l \in {pc[c], "done"} : pc' = [pc EXCEPT ![c] = l] /\
           \/ l = pc[c] /\ answer' = answer
           \/ l = "done" /\ answer' = [answer EXCEPT ![c] = Aborted] /\ pc[c] # "idle"
    BY Zenon, <1>4 DEF Abort, AbortWaiting, Finish, Core, TypeOK
  <2>2. UNCHANGED <<upstream, known, inFlight, recent, target, left, timedOut, op>>
    BY Zenon, <1>4 DEF Abort, AbortWaiting
  <2>3. op[c].verb = "none"
    BY Zenon, <1>4, NoOpFields DEF Outstanding
  <2>4. Position(c)'
    BY <2>1, <2>2, <2>3 DEF Core, TypeOK, PositionInv, Position, Gone, Aborted
  <2>5. l \in Label
    BY DEF Core, TypeOK, Label
  <2> QED
    BY Zenon, <1>1, <2>1, <2>2, <2>4, <2>5, MoveCore DEF Core, TypeOK
<1> QED
  BY Zenon, <1>2, <1>3, <1>4

\* The timer of a joiner, or of an allocation that cleans up, fires.
LEMMA TimerCore ==
  ASSUME Core, NEW c \in Caller, JoinTimer(c) \/ AllocationTimer(c)
  PROVE  Core'
<1>1. CASE JoinTimer(c)
  <2>1. /\ pc' = [pc EXCEPT ![c] = "done"] /\ answer' = [answer EXCEPT ![c] = TimedOut]
        /\ UNCHANGED <<upstream, known, inFlight, recent, target, left, aborted, timedOut, op>>
        /\ pc[c] \in {"joining", "rejoin", "retrying"}
    BY Zenon, <1>1 DEF JoinTimer, Finish
  <2>2. Position(c)'
    BY Zenon, <2>1 DEF Core, TypeOK, PositionInv, Position, Gone, TimedOut
  <2> QED
    BY Zenon, <2>1, <2>2, MoveCore DEF Core, TypeOK, Label
<1>2. CASE AllocationTimer(c)
  BY <1>2 DEF AllocationTimer, Core, TypeOK, PositionInv, Position, TrackedInv, FreshInv, Unborn,
              Newborn
<1> QED
  BY Zenon, <1>1, <1>2

\* A browser ends by itself.
LEMMA ClosesCore ==
  ASSUME Core, NEW s \in Session, UpstreamCloses(s)
  PROVE  Core'
<1>1. UNCHANGED <<known, inFlight, recent, pc, target, left, aborted, timedOut, op, answer>>
      /\ upstream[s] = "running" /\ upstream' = [upstream EXCEPT ![s] = "gone"]
  BY Zenon DEF UpstreamCloses, calls
<1> QED
  BY <1>1 DEF Core, TypeOK, PositionInv, Position, TrackedInv, FreshInv, Unborn, Newborn

\* Time passes: only the timers of the requests, the calls and the cache move.
LEMMA TickFrame ==
  ASSUME Core, Tick
  PROVE  /\ op' \in [Caller -> OpRecord]
         /\ \A c \in Caller : /\ op'[c].verb = op[c].verb /\ op'[c].phase = op[c].phase
                              /\ op'[c].response = op[c].response
                              /\ op'[c].left = IF op[c].left > 0 THEN op[c].left - 1 ELSE 0
                              /\ op[c] = NoOp <=> op'[c] = NoOp
<1>1. ASSUME NEW c \in Caller
      PROVE  /\ op'[c] \in OpRecord
             /\ op'[c].verb = op[c].verb /\ op'[c].phase = op[c].phase
             /\ op'[c].response = op[c].response
             /\ op'[c].left = IF op[c].left > 0 THEN op[c].left - 1 ELSE 0
  <2>1. op[c] \in OpRecord /\ op[c].left \in 0..MaxTimeout /\ MaxTimeout \in Nat
    BY Zenon, CloudflareAssumption DEF Core, TypeOK, OpRecord
  <2>2. op'[c] = IF op[c].left > 0 THEN [op[c] EXCEPT !.left = op[c].left - 1] ELSE op[c]
    BY Zenon DEF Tick
  <2> QED
    BY <2>1, <2>2 DEF OpRecord
<1>2. ASSUME NEW c \in Caller
      PROVE  op[c] = NoOp <=> op'[c] = NoOp
  <2>1. (op[c] = NoOp <=> op[c].verb = "none") /\ NoOp.left = 0
    BY Zenon, NoOpFields DEF Core, PositionInv, Position
  <2>2. op[c] = NoOp => op'[c] = op[c]
    BY <2>1 DEF Tick
  <2> QED
    BY Zenon, <1>1, <2>1, <2>2, NoOpFields
<1>3. op' = [c \in Caller |-> op'[c]]
  BY Zenon DEF Tick
<1> QED
  BY Zenon, <1>1, <1>2, <1>3

\* Time passes, no further than the next timer.
LEMMA TickCore ==
  ASSUME Core, Tick
  PROVE  Core'
<1>1. UNCHANGED <<upstream, known, inFlight, pc, target, aborted, timedOut, answer>>
  BY Zenon DEF Tick
<1>2. left' \in [Caller -> 0..MaxTimeout] /\ recent' \in [Session -> 0..CacheTTL]
  BY CloudflareAssumption DEF Tick, Core, TypeOK
<1>3. TypeOK'
  BY <1>1, <1>2, TickFrame DEF Core, TypeOK
<1>4. PositionInv'
  BY <1>1, TickFrame DEF Core, PositionInv, Position
<1>5. TrackedInv' /\ FreshInv'
  BY Zenon, <1>1, TickFrame DEF Core, TrackedInv, FreshInv, Unborn, Newborn
<1> QED
  BY Zenon, <1>3, <1>4, <1>5 DEF Core
\* The caller of a DELETE hears its outcome, unless it has been answered
\* already or cleans up after an allocation.
LEMMA SettleOwn ==
  ASSUME Core, NEW c \in Caller, op[c].verb = "DELETE", NEW o, SettleDelete(c, o)
  PROVE  answer'[c] = IF pc[c] = "done" THEN answer[c]
                      ELSE IF pc[c] = "cleaning" THEN MapFetchFailure(c, Invalid) ELSE o
<1>1. pc[c] # "joining"
  BY Zenon DEF Core, PositionInv, Position
<1>2. c \notin Joiners(target[c])
  BY Zenon, <1>1 DEF Joiners
<1> QED
  BY Zenon, <1>2 DEF SettleDelete

-----------------------------------------------------------------------------
(* A browser that is reported terminated is gone                           *)

\* The joiners of a DELETE hear of the browser what its response said.
LEMMA SettleGone ==
  ASSUME Core, GoneInv, NEW c \in Caller, op[c].verb = "DELETE", NEW o, SettleDelete(c, o),
         o \in Gone => upstream[target[c]] = "gone", UNCHANGED <<upstream, target>>
  PROVE  \A d \in Caller : OpTrue(d)' /\ AnswerTrue(d)'
<1>1. op' = [op EXCEPT ![c] = NoOp]
  BY Zenon DEF SettleDelete
<1>2. ASSUME NEW d \in Caller
      PROVE  \/ answer'[d] = answer[d]
             \/ answer'[d] \notin Gone
             \/ target[d] = target[c] /\ o \in Gone
  <2>1. CASE d = c
    BY Zenon, <2>1, SettleOwn, FailureCodes
  <2>2. CASE d # c
    <3>1. answer'[d] = answer[d] \/ (d \in Joiners(target[c]) /\ answer'[d] = JoinedAnswer(o))
      BY Zenon, <2>2 DEF SettleDelete
    <3> QED
      BY Zenon, <3>1 DEF Joiners, JoinedAnswer
  <2> QED
    BY Zenon, <2>1, <2>2
<1>3. ASSUME NEW d \in Caller PROVE OpTrue(d)'
  BY Zenon, <1>1, NoOpFields DEF Core, TypeOK, GoneInv, OpTrue
<1>4. ASSUME NEW d \in Caller PROVE AnswerTrue(d)'
  BY Zenon, <1>2 DEF GoneInv, AnswerTrue
<1> QED
  BY Zenon, <1>3, <1>4

\* A call that leaves the response and the answer of every other call alone.
LEMMA OneGone ==
  ASSUME Core, GoneInv, NEW c \in Caller,
         \A s \in Session : upstream[s] = "gone" => upstream'[s] = "gone",
         \A d \in Caller \ {c} : op'[d] = op[d] /\ target'[d] = target[d] /\ answer'[d] = answer[d],
         OpTrue(c)', AnswerTrue(c)', recent' = recent
  PROVE  GoneInv'
<1>1. ASSUME NEW d \in Caller \ {c} PROVE OpTrue(d)' /\ AnswerTrue(d)'
  <2>1. /\ op[d].verb = "DELETE" => target[d] \in Session
        /\ answer[d] \in Gone => target[d] \in Session
    BY Zenon DEF Core, TrackedInv, PositionInv, Position
  <2> QED
    BY <2>1 DEF GoneInv, OpTrue, AnswerTrue
<1> QED
  BY Zenon, <1>1 DEF GoneInv

\* A request is sent: nothing has been answered to it.
LEMMA StartGone ==
  ASSUME Core, GoneInv, NEW c \in Caller, NEW s, NEW t \in 0..MaxTimeout, NEW l,
         StartTermination(c, s, t, l), pc[c] # "done",
         \A d \in Caller \ {c} : target'[d] = target[d], UNCHANGED <<upstream, recent>>
  PROVE  GoneInv'
<1>1. op' = [op EXCEPT ![c] = Request("DELETE", t)] /\ answer' = answer
  BY Zenon DEF StartTermination
<1>2. answer[c] = "none"
  BY Zenon DEF Core, PositionInv, Position
<1>3. OpTrue(c)' /\ AnswerTrue(c)'
  BY Zenon, <1>1, <1>2, RequestFields DEF Core, TypeOK, OpTrue, AnswerTrue, Gone
<1> QED
  BY Zenon, <1>1, <1>3, OneGone DEF Core, TypeOK

\* A call without a request is answered or joins.
LEMMA MoveGone ==
  ASSUME Core, GoneInv, NEW c \in Caller, op[c].verb = "none", op' = op,
         answer' = answer \/ \E a : answer' = [answer EXCEPT ![c] = a],
         AnswerTrue(c)', \A d \in Caller \ {c} : target'[d] = target[d],
         UNCHANGED <<upstream, recent>>
  PROVE  GoneInv'
<1>1. OpTrue(c)'
  BY Zenon, NoOpFields DEF Core, PositionInv, Position, OpTrue
<1> QED
  BY Zenon, <1>1, OneGone DEF Core, TypeOK

\* New calls: a cached deletion is answered from the cache, which is true.
LEMMA CallGone ==
  ASSUME Core, GoneInv, NEW c \in Caller,
         \/ Rejoin(c)
         \/ \E ticks \in 1..MaxTimeout :
              Allocate(c, ticks) \/ \E s \in Session : Terminate(c, s, ticks)
  PROVE  GoneInv'
<1>1. /\ op[c].verb = "none" /\ answer[c] = "none" /\ pc[c] \in {"idle", "rejoin"}
      /\ UNCHANGED <<upstream, recent>> /\ left[c] \in 0..MaxTimeout
      /\ \A d \in Caller \ {c} : target'[d] = target[d]
  BY DEF Rejoin, Allocate, Terminate, Core, TypeOK, PositionInv, Position
<1>2. ASSUME NEW s \in Session, target'[c] = s, NEW t \in 0..MaxTimeout, NEW l, Arbitrate(c, s, t, l)
      PROVE  GoneInv'
  <2>1. CASE IsRecentlyTerminated(s)
    <3>1. answer' = [answer EXCEPT ![c] = "already_terminated"] /\ op' = op
      BY Zenon, <1>2, <2>1 DEF Arbitrate, Finish
    <3>2. AnswerTrue(c)'
      BY Zenon, <1>1, <1>2, <2>1 DEF GoneInv, AnswerTrue, IsRecentlyTerminated
    <3> QED
      BY Zenon, <1>1, <3>1, <3>2, MoveGone
  <2>2. CASE ~IsRecentlyTerminated(s) /\ inFlight[s] # Nobody
    <3>1. answer' = answer /\ op' = op
      BY Zenon, <1>2, <2>2 DEF Arbitrate
    <3>2. AnswerTrue(c)'
      BY Zenon, <1>1, <3>1 DEF AnswerTrue, Gone
    <3> QED
      BY Zenon, <1>1, <3>1, <3>2, MoveGone
  <2>3. CASE ~IsRecentlyTerminated(s) /\ inFlight[s] = Nobody
    BY Zenon, <1>1, <1>2, <2>3, StartGone DEF Arbitrate
  <2> QED
    BY Zenon, <2>1, <2>2, <2>3
<1>3. ASSUME NEW a \in {Aborted, TimedOut}, Finish(c, a), op' = op
      PROVE  GoneInv'
  <2>1. AnswerTrue(c)'
    BY Zenon, <1>3 DEF Finish, AnswerTrue, Gone, Aborted, TimedOut, Core, TypeOK
  <2> QED
    BY Zenon, <1>1, <1>3, <2>1, MoveGone DEF Finish
<1>4. CASE Rejoin(c)
  <2>1. target'[c] = target[c] /\ target[c] \in Session
    BY Zenon, <1>4 DEF Rejoin, Core, PositionInv, Position
  <2> QED
    BY Zenon, <1>1, <1>2, <1>3, <1>4, <2>1 DEF Rejoin, RetryTermination
<1>5. ASSUME NEW ticks \in 1..MaxTimeout, NEW s \in Session, Terminate(c, s, ticks)
      PROVE  GoneInv'
  <2>1. target'[c] = s /\ ticks \in 0..MaxTimeout
    BY <1>5, CloudflareAssumption DEF Terminate, Core, TypeOK
  <2> QED
    BY Zenon, <1>2, <1>3, <1>5, <2>1 DEF Terminate
<1>6. ASSUME NEW ticks \in 1..MaxTimeout, Allocate(c, ticks)
      PROVE  GoneInv'
  <2>1. CASE c \in aborted
    BY Zenon, <1>3, <1>6, <2>1 DEF Allocate
  <2>2. CASE c \notin aborted
    <3>1. op' = [op EXCEPT ![c] = Request("POST", ticks)] /\ answer' = answer
      BY Zenon, <1>6, <2>2 DEF Allocate
    <3>2. ticks \in 0..MaxTimeout
      BY CloudflareAssumption
    <3>3. OpTrue(c)' /\ AnswerTrue(c)'
      BY <1>1, <3>1, <3>2, RequestFields DEF Core, TypeOK, OpTrue, AnswerTrue, Gone
    <3> QED
      BY Zenon, <1>1, <3>1, <3>3, OneGone DEF Core, TypeOK
  <2> QED
    BY Zenon, <2>1, <2>2
<1> QED
  BY Zenon, <1>4, <1>5, <1>6

\* A response that says the browser is gone is written when it is.
LEMMA UpstreamGone ==
  ASSUME Core, GoneInv, NEW c \in Caller, UpstreamDeletes(c) \/ UpstreamCreates(c)
  PROVE  GoneInv'
<1>1. CASE UpstreamDeletes(c)
  <2>1. /\ target[c] \in Session /\ UNCHANGED <<target, answer, recent>> /\ op[c].verb = "DELETE"
        /\ \A s \in Session : upstream[s] = "gone" => upstream'[s] = "gone"
    BY <1>1 DEF UpstreamDeletes, calls, Core, TypeOK, TrackedInv
  <2>2. PICK r \in Response : /\ Answered(c, r)
                              /\ r \in {"ok", "missing"} => upstream'[target[c]] = "gone"
    <3>1. ErrorResponse \cap {"ok", "missing"} = {}
      BY Zenon, CloudflareAssumption
    <3> QED
      <4>1. DOMAIN upstream = Session /\ ErrorResponse \subseteq Response
            /\ {"ok", "garbled", "server", "missing"} \subseteq Response
        BY Zenon DEF Core, TypeOK, Response
      <4>2. CASE upstream[target[c]] = "gone" /\ Answered(c, "missing") /\ UNCHANGED upstream
        BY Zenon, <4>1, <4>2
      <4>3. CASE /\ upstream' = [upstream EXCEPT ![target[c]] = "gone"]
                 /\ \E r \in {"ok", "garbled", "server"} : Answered(c, r)
        BY Zenon, <2>1, <4>1, <4>3
      <4>4. CASE \E r \in ErrorResponse : Answered(c, r) /\ UNCHANGED upstream
        BY Zenon, <3>1, <4>1, <4>4
      <4> QED
        BY Zenon, <1>1, <4>2, <4>3, <4>4 DEF UpstreamDeletes
  <2>3. OpTrue(c)' /\ AnswerTrue(c)'
    BY Zenon, <2>1, <2>2, AnsweredFields DEF OpTrue, AnswerTrue, GoneInv
  <2> QED
    BY Zenon, <2>1, <2>2, <2>3, AnsweredFields, OneGone
<1>2. CASE UpstreamCreates(c)
  <2>1. /\ UNCHANGED <<answer, recent>> /\ op[c].verb = "POST" /\ answer[c] = "none"
        /\ \A s \in Session : upstream[s] = "gone" => upstream'[s] = "gone"
        /\ \A d \in Caller \ {c} : target'[d] = target[d]
    BY <1>2 DEF UpstreamCreates, Core, TypeOK, PositionInv, Position
  <2>2. PICK r \in Response : Answered(c, r)
    BY Zenon, <1>2 DEF UpstreamCreates, Response
  <2>3. OpTrue(c)' /\ AnswerTrue(c)'
    BY Zenon, <2>1, <2>2, AnsweredFields DEF OpTrue, AnswerTrue, Gone
  <2> QED
    BY Zenon, <2>1, <2>2, <2>3, AnsweredFields, OneGone
<1> QED
  BY Zenon, <1>1, <1>2

\* The end of a POST says nothing about a browser that is gone.
LEMMA SettlePostGone ==
  ASSUME Core, GoneInv, NEW c \in Caller, NEW o, o \notin Gone, SettlePost(c, o),
         UNCHANGED <<upstream, target, recent>>
  PROVE  GoneInv'
<1>1. op' = [op EXCEPT ![c] = NoOp] /\ answer' = [answer EXCEPT ![c] = o]
  BY Zenon DEF SettlePost, Finish
<1>2. OpTrue(c)' /\ AnswerTrue(c)'
  BY Zenon, <1>1, NoOpFields DEF OpTrue, AnswerTrue, Core, TypeOK
<1> QED
  BY Zenon, <1>1, <1>2, OneGone DEF Core, TypeOK

\* Reading a response moves what it says to the answer and to the cache.
LEMMA ConsumeGone ==
  ASSUME Core, GoneInv, NEW c \in Caller, Consume(c)
  PROVE  GoneInv'
<1>1. UNCHANGED <<upstream, target, left>>
  BY Zenon DEF Consume
<1>2. CASE op[c].verb = "DELETE"
  <2>1. target[c] \in Session
    BY Zenon, <1>2 DEF Core, TrackedInv
  <2>2. CASE op[c].response \in {"ok", "missing"}
    <3>1. upstream[target[c]] = "gone"
      BY Zenon, <1>2, <2>2 DEF GoneInv, OpTrue
    <3>2. MarkRecentlyTerminated(target[c]) /\ \E o : SettleDelete(c, o)
      BY Zenon, <1>2, <2>2 DEF Consume, ConsumeDelete
    <3>3. \A d \in Caller : OpTrue(d)' /\ AnswerTrue(d)'
      BY Zenon, <1>1, <1>2, <3>1, <3>2, SettleGone
    <3>4. \A s \in Session : recent'[s] > 0 => upstream[s] = "gone"
      BY <2>1, <3>1, <3>2, MarkKeeps DEF GoneInv
    <3> QED
      BY Zenon, <1>1, <3>3, <3>4 DEF GoneInv
  <2>3. CASE op[c].response \notin {"ok", "missing"}
    <3>1. recent' = recent /\ \E o : o \notin Gone /\ SettleDelete(c, o)
      BY Zenon, <1>2, <2>3, ErrorCodes DEF Consume, ConsumeDelete, Gone, Invalid
    <3>2. \A d \in Caller : OpTrue(d)' /\ AnswerTrue(d)'
      BY Zenon, <1>1, <1>2, <3>1, SettleGone
    <3> QED
      BY Zenon, <1>1, <3>1, <3>2 DEF GoneInv
  <2> QED
    BY Zenon, <2>2, <2>3
<1>3. CASE op[c].verb # "DELETE" /\ op[c].response = "identity" /\ left[c] # 0
  <2>1. StartTermination(c, target[c], CleanupBudget(c), "cleaning") /\ recent' = recent
    BY Zenon, <1>3 DEF Consume, ConsumePost, CleanupInvalidAllocation
  <2>2. CleanupBudget(c) \in 0..MaxTimeout
    BY CloudflareAssumption DEF CleanupBudget, Core, TypeOK
  <2>3. pc[c] # "done"
    BY Zenon, <1>3, NoOpFields DEF Core, TypeOK, PositionInv, Position, OpRecord
  <2> QED
    BY Zenon, <1>1, <2>1, <2>2, <2>3, StartGone
<1>4. CASE op[c].verb # "DELETE" /\ ~(op[c].response = "identity" /\ left[c] # 0)
  <2>1. recent' = recent /\ \E o : o \notin Gone /\ SettlePost(c, o)
    BY Zenon, <1>4, ErrorCodes, FailureCodes DEF Consume, ConsumePost, CleanupInvalidAllocation, Gone, Invalid
  <2> QED
    BY Zenon, <1>1, <2>1, SettlePostGone
<1> QED
  BY Zenon, <1>2, <1>3, <1>4

\* A request that fails says nothing of the browser.
LEMMA FailGone ==
  ASSUME Core, GoneInv, NEW c \in Caller, NEW o, o \notin Gone, Fail(c, o)
  PROVE  GoneInv'
<1>1. UNCHANGED <<upstream, target, recent>>
  BY Zenon DEF Fail
<1>2. CASE op[c].verb = "DELETE"
  <2>1. \A d \in Caller : OpTrue(d)' /\ AnswerTrue(d)'
    BY Zenon, <1>1, <1>2, SettleGone DEF Fail
  <2> QED
    BY Zenon, <1>1, <2>1 DEF GoneInv
<1>3. CASE op[c].verb # "DELETE"
  BY Zenon, <1>1, <1>3, SettlePostGone DEF Fail
<1> QED
  BY Zenon, <1>2, <1>3

\* Signals and timers say nothing of the browser either.
LEMMA RestGone ==
  ASSUME Core, GoneInv, NEW c \in Caller, JoinTimer(c) \/ AllocationTimer(c) \/ Abort(c)
  PROVE  GoneInv'
<1>1. CASE Abort(c) /\ Outstanding(c) /\ pc[c] # "cleaning"
  BY Zenon, <1>1, FailGone DEF Abort, Gone, Aborted
<1>2. CASE ~(Abort(c) /\ Outstanding(c) /\ pc[c] # "cleaning")
  <2>1. /\ UNCHANGED <<upstream, target, recent>>
        /\ op' = op \/ op' = [op EXCEPT ![c] = NoOp]
        /\ answer' = answer \/ \E a \in {Aborted, TimedOut} : answer' = [answer EXCEPT ![c] = a]
    BY Zenon, <1>2 DEF JoinTimer, AllocationTimer, Abort, AbortWaiting, Finish
  <2>2. OpTrue(c)' /\ AnswerTrue(c)'
    <3>1. OpTrue(c)'
      BY <2>1, NoOpFields DEF OpTrue, GoneInv, Core, TypeOK
    <3>2. AnswerTrue(c)'
      BY Zenon, <2>1 DEF AnswerTrue, GoneInv, Gone, Aborted, TimedOut, Core, TypeOK
    <3> QED
      BY Zenon, <3>1, <3>2
  <2> QED
    BY Zenon, <2>1, <2>2, OneGone DEF Core, TypeOK
<1> QED
  BY Zenon, <1>1, <1>2

\* Time and closing browsers keep what was said true.
LEMMA TimeGone ==
  ASSUME Core, GoneInv, Tick \/ \E s \in Session : UpstreamCloses(s)
  PROVE  GoneInv'
<1>1. CASE Tick
  <2>1. UNCHANGED <<upstream, target, answer>> /\ \A s \in Session : recent'[s] > 0 => recent[s] > 0
    BY <1>1 DEF Tick, Core, TypeOK
  <2> QED
    BY Zenon, <1>1, <2>1, TickFrame DEF GoneInv, OpTrue, AnswerTrue
<1>2. CASE \E s \in Session : UpstreamCloses(s)
  <2>1. /\ UNCHANGED <<op, target, answer, recent>>
        /\ \A s \in Session : upstream[s] = "gone" => upstream'[s] = "gone"
    BY Zenon, <1>2 DEF UpstreamCloses, calls, Core, TypeOK
  <2> QED
    BY Zenon, <2>1 DEF GoneInv, OpTrue, AnswerTrue, Core, TrackedInv, PositionInv, Position
<1> QED
  BY Zenon, <1>1, <1>2
-----------------------------------------------------------------------------
(* Timeouts                                                                *)

\* A step of one call that leaves the time and the answers of the others alone.
LEMMA OneTime ==
  ASSUME Core, TimeInv, NEW c \in Caller,
         \A d \in Caller \ {c} :
           op'[d] = op[d] /\ pc'[d] = pc[d] /\ left'[d] = left[d] /\ answer'[d] = answer[d],
         aborted \subseteq aborted', timedOut' \subseteq timedOut \cup {c}, TimeKept(c)'
  PROVE  TimeInv'
<1>1. ASSUME NEW d \in Caller \ {c} PROVE TimeKept(d)'
  BY Zenon DEF TimeInv, TimeKept, Outstanding
<1> QED
  BY Zenon, <1>1 DEF TimeInv

\* A joiner is never told of the interruption of its leader: it starts over.
LEMMA SettleTime ==
  ASSUME Core, TimeInv, NEW c \in Caller, op[c].verb = "DELETE", NEW o, SettleDelete(c, o),
         o = Aborted => c \in aborted', o = TimedOut => op[c].left = 0,
         aborted \subseteq aborted', UNCHANGED <<left, timedOut>>
  PROVE  TimeInv'
<1>1. op' = [op EXCEPT ![c] = NoOp]
  BY Zenon DEF SettleDelete
<1>2. TimeKept(c)'
  <2>1. op'[c] = NoOp /\ pc'[c] = "done"
    <3>1. pc[c] # "joining"
      BY Zenon DEF Core, PositionInv, Position
    <3>2. c \notin Joiners(target[c])
      BY Zenon, <3>1 DEF Joiners
    <3> QED
      BY Zenon, <1>1, <3>2 DEF SettleDelete, Core, TypeOK
  <2>2. answer'[c] = IF pc[c] = "done" THEN answer[c]
                     ELSE IF pc[c] = "cleaning" THEN MapFetchFailure(c, Invalid) ELSE o
    BY Zenon, SettleOwn
  <2>3. pc[c] \in {"done", "cleaning", "leading", "retrying"}
    BY DEF Core, TypeOK, Label, PositionInv, Position
  <2>4. TimeKept(c)
    BY Zenon DEF TimeInv
  <2>5. o = TimedOut /\ pc[c] \in {"leading", "retrying"} => left[c] = 0
    BY Zenon, <2>4 DEF TimeKept
  <2> QED
    BY Zenon, <2>1, <2>2, <2>3, <2>4, <2>5, FailureCodes DEF TimeKept, Outstanding
<1>3. ASSUME NEW d \in Caller \ {c} PROVE TimeKept(d)'
  <2>1. CASE pc'[d] = pc[d] /\ answer'[d] = answer[d]
    BY Zenon, <1>1, <2>1 DEF TimeInv, TimeKept, Outstanding, Core, TypeOK
  <2>2. CASE d \in Joiners(target[c])
    <3>1. op'[d] = NoOp /\ pc[d] = "joining" /\ answer[d] = "none"
      BY Zenon, <1>1, <2>2 DEF Joiners, Core, TypeOK, PositionInv, Position
    <3>2. /\ pc'[d] \in {"rejoin", "done"}
          /\ answer'[d] = IF RetriesAfter(o) THEN answer[d] ELSE JoinedAnswer(o)
      BY Zenon, <2>2 DEF SettleDelete
    <3>3. answer'[d] \notin {Aborted, TimedOut}
      BY Zenon, <3>1, <3>2 DEF RetriesAfter, JoinedAnswer, Aborted, TimedOut
    <3> QED
      BY Zenon, <3>1, <3>2, <3>3 DEF TimeKept, Outstanding, TimeInv
  <2> QED
    BY Zenon, <2>1, <2>2 DEF SettleDelete
<1> QED
  BY Zenon, <1>2, <1>3 DEF TimeInv

\* The end of a POST, with an interruption that is the caller's own.
LEMMA SettlePostTime ==
  ASSUME Core, TimeInv, NEW c \in Caller, NEW o, SettlePost(c, o),
         o = Aborted => c \in aborted', o = TimedOut => left[c] = 0,
         aborted \subseteq aborted', UNCHANGED <<left, timedOut>>
  PROVE  TimeInv'
<1>1. /\ op' = [op EXCEPT ![c] = NoOp] /\ pc' = [pc EXCEPT ![c] = "done"]
      /\ answer' = [answer EXCEPT ![c] = o]
  BY Zenon DEF SettlePost, Finish
<1>2. TimeKept(c)'
  BY Zenon, <1>1 DEF TimeInv, TimeKept, Outstanding, Core, TypeOK
<1> QED
  BY Zenon, <1>1, <1>2, OneTime DEF Core, TypeOK

\* A new request gets the time its caller has left.
LEMMA CallTime ==
  ASSUME Core, TimeInv, NEW c \in Caller,
         \/ Rejoin(c)
         \/ \E ticks \in 1..MaxTimeout :
              Allocate(c, ticks) \/ \E s \in Session : Terminate(c, s, ticks)
  PROVE  TimeInv'
<1>1. /\ UNCHANGED <<aborted, timedOut>> /\ answer[c] = "none" /\ op[c] = NoOp
      /\ \A d \in Caller \ {c} :
           op'[d] = op[d] /\ pc'[d] = pc[d] /\ left'[d] = left[d] /\ answer'[d] = answer[d]
  BY DEF Rejoin, RetryTermination, Allocate, Terminate, Arbitrate, StartTermination, Finish,
         Core, TypeOK, PositionInv, Position
<1>2. c \in timedOut => left'[c] = 0
  BY Zenon DEF Rejoin, Allocate, Terminate, TimeInv, TimeKept
<1>3. left'[c] \in 0..MaxTimeout
  BY CloudflareAssumption DEF Rejoin, Allocate, Terminate, Core, TypeOK
<1> DEFINE Waits == /\ op'[c] = NoOp /\ pc'[c] \in {"done", "joining"}
                    /\ answer'[c] = Aborted => c \in aborted
                    /\ answer'[c] = TimedOut => left'[c] = 0
           Sends == /\ op'[c].left = left'[c] /\ pc'[c] \in {"posting", "leading", "retrying"}
                    /\ answer'[c] = "none"
<1>4. ASSUME NEW s, NEW l \in {"leading", "retrying"}, Arbitrate(c, s, left'[c], l)
      PROVE  Waits \/ Sends
  <2>1. CASE IsRecentlyTerminated(s) \/ inFlight[s] # Nobody
    <3>1. /\ op' = op /\ pc'[c] \in {"done", "joining"}
          /\ answer'[c] \in {answer[c], "already_terminated"}
      BY Zenon, <1>4, <2>1 DEF Arbitrate, Finish, Core, TypeOK
    <3> QED
      BY Zenon, <1>1, <3>1 DEF Aborted, TimedOut
  <2>2. CASE ~(IsRecentlyTerminated(s) \/ inFlight[s] # Nobody)
    <3>1. StartTermination(c, s, left'[c], l)
      BY Zenon, <1>4, <2>2 DEF Arbitrate
    <3> QED
      BY Zenon, <1>1, <1>3, <3>1, RequestFields DEF StartTermination, Core, TypeOK
  <2> QED
    BY Zenon, <2>1, <2>2
<1>5. ASSUME op' = op, NEW a \in {Aborted, TimedOut}, Finish(c, a),
             a = Aborted => c \in aborted, a = TimedOut => left'[c] = 0
      PROVE  Waits
  BY Zenon, <1>1, <1>5 DEF Finish, Core, TypeOK, Aborted, TimedOut
<1>6. ASSUME NEW ticks \in 1..MaxTimeout, Allocate(c, ticks)
      PROVE  Waits \/ Sends
  <2>1. CASE c \in aborted
    BY Zenon, <1>5, <1>6, <2>1 DEF Allocate, Aborted, TimedOut
  <2>2. CASE c \notin aborted
    <3>1. /\ op' = [op EXCEPT ![c] = Request("POST", ticks)] /\ pc'[c] = "posting"
          /\ left'[c] = ticks /\ answer' = answer
      BY Zenon, <1>6, <2>2 DEF Allocate, Core, TypeOK
    <3> QED
      BY Zenon, <1>1, <1>3, <3>1, RequestFields DEF Core, TypeOK
  <2> QED
    BY Zenon, <2>1, <2>2
<1>7. ASSUME NEW ticks \in 1..MaxTimeout, NEW s \in Session, Terminate(c, s, ticks)
      PROVE  Waits \/ Sends
  <2>1. left'[c] = ticks
    BY Zenon, <1>7 DEF Terminate, Core, TypeOK
  <2>2. CASE c \in aborted
    BY Zenon, <1>5, <1>7, <2>2 DEF Terminate, Aborted, TimedOut
  <2>3. CASE c \notin aborted
    BY Zenon, <1>4, <1>7, <2>1, <2>3 DEF Terminate
  <2> QED
    BY Zenon, <2>2, <2>3
<1>8. CASE Rejoin(c)
  <2>1. left' = left
    BY Zenon, <1>8 DEF Rejoin
  <2>4. Waits \/ Sends
    BY Zenon, <1>4, <1>5, <1>8, <2>1 DEF Rejoin, RetryTermination, Aborted, TimedOut
  <2> QED
    BY <1>1, <1>2, <1>3, <2>4, OneTime DEF TimeKept, Outstanding, Aborted, TimedOut
<1> QED
  BY <1>1, <1>2, <1>3, <1>6, <1>7, <1>8, OneTime DEF TimeKept, Outstanding, Aborted, TimedOut

\* A response changes no timer.
LEMMA AnswerTime ==
  ASSUME Core, TimeInv, NEW c \in Caller, UpstreamDeletes(c) \/ UpstreamCreates(c)
  PROVE  TimeInv'
<1>1. UNCHANGED <<pc, left, aborted, timedOut, answer>>
  BY Zenon DEF UpstreamDeletes, UpstreamCreates, calls
<1>2. PICK r \in Response : Answered(c, r)
  BY Zenon DEF UpstreamDeletes, UpstreamCreates, Response
<1>3. op[c].verb # "none"
  BY Zenon DEF UpstreamDeletes, UpstreamCreates
<1>4. TimeKept(c)'
  BY Zenon, <1>1, <1>2, <1>3, AnsweredFields, NoOpFields DEF TimeInv, TimeKept, Outstanding
<1> QED
  BY Zenon, <1>1, <1>2, <1>4, AnsweredFields, OneTime

\* Reading a response: the request that cleans up gets no more than the time left.
LEMMA ConsumeTime ==
  ASSUME Core, TimeInv, NEW c \in Caller, Consume(c)
  PROVE  TimeInv'
<1>1. UNCHANGED <<left, aborted, timedOut>>
  BY Zenon DEF Consume
<1>2. CASE op[c].verb = "DELETE"
  <2>1. PICK o : o \notin {Aborted, TimedOut} /\ SettleDelete(c, o)
    BY Zenon, <1>2, ErrorCodes DEF Consume, ConsumeDelete, Aborted, TimedOut, Invalid
  <2> QED
    BY Zenon, <1>1, <1>2, <2>1, SettleTime
<1>3. CASE op[c].verb # "DELETE" /\ op[c].response = "identity" /\ left[c] # 0
  <2>1. StartTermination(c, target[c], CleanupBudget(c), "cleaning")
    BY Zenon, <1>3 DEF Consume, ConsumePost, CleanupInvalidAllocation
  <2>2. CleanupBudget(c) \in 0..MaxTimeout /\ CleanupBudget(c) <= left[c]
    BY CloudflareAssumption DEF CleanupBudget, Core, TypeOK
  <2>3. TimeKept(c)'
    BY <1>1, <2>1, <2>2, RequestFields DEF StartTermination, TimeInv, TimeKept, Outstanding,
       Core, TypeOK
  <2> QED
    BY Zenon, <1>1, <2>1, <2>3, OneTime DEF StartTermination, Core, TypeOK
<1>4. CASE op[c].verb # "DELETE" /\ ~(op[c].response = "identity" /\ left[c] # 0)
  <2>1. PICK o : /\ o = Aborted => c \in aborted
                 /\ o = TimedOut => c \in timedOut
                 /\ SettlePost(c, o)
    BY Zenon, <1>4, ErrorCodes, FailureCodes DEF Consume, ConsumePost, CleanupInvalidAllocation,
       Aborted, TimedOut, Invalid
  <2>2. o = TimedOut => left[c] = 0
    BY Zenon, <2>1 DEF TimeInv, TimeKept
  <2> QED
    BY Zenon, <1>1, <2>1, <2>2, SettlePostTime
<1> QED
  BY <1>2, <1>3, <1>4

\* A request that fails; its timer fires only when its caller has no time left,
\* unless it is a clean-up, whose caller hears of the allocation instead.
LEMMA FailTime ==
  ASSUME Core, TimeInv, NEW c \in Caller, Outstanding(c), NEW o, Fail(c, o),
         o = Aborted => c \in aborted', o = TimedOut => op[c].left = 0, aborted \subseteq aborted'
  PROVE  TimeInv'
<1>1. UNCHANGED <<left, timedOut>>
  BY Zenon DEF Fail
<1>2. CASE op[c].verb = "DELETE"
  BY Zenon, <1>1, <1>2, SettleTime DEF Fail
<1>3. CASE op[c].verb # "DELETE"
  <2>1. pc[c] = "posting"
    BY <1>3 DEF Outstanding, Core, TypeOK, PositionInv, Position, OpRecord
  <2>2. o = TimedOut => left[c] = 0
    BY Zenon, <2>1 DEF TimeInv, TimeKept
  <2> QED
    BY Zenon, <1>1, <1>3, <2>2, SettlePostTime DEF Fail
<1> QED
  BY Zenon, <1>2, <1>3

\* Signals and timers are those of the caller they interrupt.
LEMMA RestTime ==
  ASSUME Core, TimeInv, NEW c \in Caller, JoinTimer(c) \/ AllocationTimer(c) \/ Abort(c)
  PROVE  TimeInv'
<1>1. CASE Abort(c) /\ Outstanding(c) /\ pc[c] # "cleaning"
  BY Zenon, <1>1, FailTime DEF Abort, Aborted, TimedOut
<1>2. CASE Abort(c) /\ ~(Outstanding(c) /\ pc[c] # "cleaning")
  <2>1. /\ UNCHANGED <<left, timedOut>> /\ aborted' = aborted \cup {c}
        /\ op' = [op EXCEPT ![c] = NoOp]
        /\ \/ pc' = [pc EXCEPT ![c] = "done"] /\ answer' = [answer EXCEPT ![c] = Aborted]
           \/ pc' = pc /\ answer' = answer /\ pc[c] = "idle"
    BY <1>2 DEF Abort, AbortWaiting, Finish, Outstanding, Core, TypeOK
  <2>2. TimeKept(c)'
    BY Zenon, <2>1 DEF TimeInv, TimeKept, Outstanding, Aborted, TimedOut, Core, TypeOK
  <2> QED
    BY Zenon, <2>1, <2>2, OneTime DEF Core, TypeOK
<1>3. CASE JoinTimer(c)
  <2>1. /\ UNCHANGED <<left, timedOut, aborted, op>> /\ left[c] = 0
        /\ pc' = [pc EXCEPT ![c] = "done"] /\ answer' = [answer EXCEPT ![c] = TimedOut]
    BY Zenon, <1>3 DEF JoinTimer, Finish
  <2>2. TimeKept(c)'
    BY Zenon, <2>1 DEF TimeInv, TimeKept, Outstanding, Aborted, TimedOut, Core, TypeOK
  <2> QED
    BY Zenon, <2>1, <2>2, OneTime DEF Core, TypeOK
<1>4. CASE AllocationTimer(c)
  <2>1. /\ UNCHANGED <<left, aborted, op, pc, answer>> /\ left[c] = 0 /\ pc[c] = "cleaning"
        /\ timedOut' = timedOut \cup {c}
    BY Zenon, <1>4 DEF AllocationTimer
  <2>2. TimeKept(c)'
    BY Zenon, <2>1 DEF TimeInv, TimeKept, Outstanding
  <2> QED
    BY Zenon, <2>1, <2>2, OneTime
<1> QED
  BY Zenon, <1>1, <1>2, <1>3, <1>4

\* Time runs alike for a caller and its request.
LEMMA TickTime ==
  ASSUME Core, TimeInv, Tick \/ \E s \in Session : UpstreamCloses(s)
  PROVE  TimeInv'
<1>1. CASE Tick
  <2>1. UNCHANGED <<pc, aborted, timedOut, answer>>
    BY Zenon, <1>1 DEF Tick
  <2>2. ASSUME NEW c \in Caller PROVE TimeKept(c)'
    <3>1. left[c] \in Nat /\ op[c].left \in Nat
      BY CloudflareAssumption DEF Core, TypeOK, OpRecord
    <3>2. left'[c] = IF left[c] > 0 THEN left[c] - 1 ELSE 0
      BY Zenon, <1>1 DEF Tick
    <3> QED
      BY <1>1, <2>1, <3>1, <3>2, TickFrame DEF TimeInv, TimeKept, Outstanding
  <2> QED
    BY Zenon, <2>2 DEF TimeInv
<1>2. CASE \E s \in Session : UpstreamCloses(s)
  BY Zenon, <1>2 DEF UpstreamCloses, calls, TimeInv, TimeKept, Outstanding
<1> QED
  BY <1>1, <1>2

-----------------------------------------------------------------------------
(* The theorems                                                            *)

\* Initially nothing is outstanding, and nothing is known to be gone.
LEMMA InitIInv == Init => IInv
<1> SUFFICES ASSUME Init PROVE IInv
  BY Zenon
<1>1. TypeOK
  BY CloudflareAssumption, NoOpFields DEF Init, TypeOK, Label
<1>2. PositionInv /\ TrackedInv /\ TimeInv
  BY Zenon, NoOpFields DEF Init, PositionInv, Position, TrackedInv, TimeInv, TimeKept, Outstanding,
     Gone, Aborted, TimedOut
<1>3. FreshInv /\ GoneInv
  BY CloudflareAssumption, NoOpFields DEF Init, FreshInv, Unborn, Newborn, GoneInv, OpTrue,
     AnswerTrue, Gone
<1> QED
  BY Zenon, <1>1, <1>2, <1>3 DEF IInv, Core

\* The invariant is inductive.
LEMMA StepIInv == IInv /\ [Next]_vars => IInv'
<1> SUFFICES ASSUME IInv, [Next]_vars PROVE IInv'
  BY Zenon
<1> USE DEF IInv
<1>1. ASSUME NEW c \in Caller, NEW ticks \in 1..MaxTimeout,
             Allocate(c, ticks) \/ \E s \in Session : Terminate(c, s, ticks)
      PROVE  IInv'
  BY Zenon, <1>1, CallCore, CallGone, CallTime
<1>2. ASSUME NEW c \in Caller, Rejoin(c) PROVE IInv'
  BY Zenon, <1>2, RejoinCore, CallGone, CallTime
<1>3. ASSUME NEW c \in Caller, UpstreamDeletes(c) \/ UpstreamCreates(c) PROVE IInv'
  BY Zenon, <1>3, UpstreamDeletesCore, UpstreamCreatesCore, UpstreamGone, AnswerTime
<1>4. ASSUME NEW c \in Caller, Consume(c) PROVE IInv'
  BY Zenon, <1>4, ConsumeCore, ConsumeGone, ConsumeTime
<1>5. ASSUME NEW c \in Caller, ConnectionFails(c) \/ RequestTimer(c) PROVE IInv'
  <2>1. PICK o \in {"PROVIDER_CONNECTION_FAILED", TimedOut} :
          Outstanding(c) /\ Fail(c, o) /\ aborted' = aborted /\ (o = TimedOut => op[c].left = 0)
    BY Zenon, <1>5 DEF ConnectionFails, RequestTimer, TimerArmed, TimedOut
  <2>2. o \notin Gone /\ o # Aborted /\ aborted' \subseteq Caller
    BY Zenon, <2>1 DEF Gone, Aborted, TimedOut, Core, TypeOK
  <2> QED
    BY Zenon, <2>1, <2>2, FailCore, FailGone, FailTime
<1>6. ASSUME NEW c \in Caller, JoinTimer(c) \/ AllocationTimer(c) PROVE IInv'
  BY Zenon, <1>6, TimerCore, RestGone, RestTime
<1>7. ASSUME NEW c \in Caller, Abort(c) PROVE IInv'
  BY Zenon, <1>7, AbortCore, RestGone, RestTime
<1>8. CASE Tick \/ \E s \in Session : UpstreamCloses(s)
  BY Zenon, <1>8, TickCore, ClosesCore, TimeGone, TickTime
<1>9. CASE UNCHANGED vars
  BY <1>9 DEF vars, Core, TypeOK, PositionInv, Position, TrackedInv, FreshInv, Unborn, Newborn,
     GoneInv, OpTrue, AnswerTrue, TimeInv, TimeKept, Outstanding, IsRecentlyTerminated
<1> QED
  BY Zenon, <1>1, <1>2, <1>3, <1>4, <1>5, <1>6, <1>7, <1>8, <1>9 DEF Next

\* Positions, tracked requests, fresh browsers, the truth of the cache and the
\* time of every request fit together in every reachable state of a provider.
THEOREM Invariant == Spec => []IInv
BY InitIInv, StepIInv, PTL DEF Spec

\* However many calls terminate a browser and whenever they give up, at most one
\* DELETE for it is outstanding: the one #terminationInFlight tracks.
THEOREM SingleDelete == Spec => []OneDeleteInFlight
<1>1. IInv => OneDeleteInFlight
  BY Zenon DEF IInv, Core, TrackedInv, OneDeleteInFlight
<1> QED
  BY <1>1, Invariant, PTL

\* Every "terminated" and "already_terminated" of terminate() is true, whether it
\* comes from a response, from the request of another call or from the cache.
THEOREM ReportedGoneIsGone == Spec => []TerminatedIsGone
<1>1. IInv => TerminatedIsGone
  BY Zenon DEF IInv, GoneInv, AnswerTrue, TerminatedIsGone
<1> QED
  BY <1>1, Invariant, PTL

\* No call is told of the abort or the timeout of another call.
THEOREM InterruptionsAreOwn == Spec => []OwnInterruptionOnly
<1>1. IInv => OwnInterruptionOnly
  BY Zenon DEF IInv, TimeInv, TimeKept, OwnInterruptionOnly
<1> QED
  BY <1>1, Invariant, PTL

\* Time does not pass beyond the timeout of an unanswered call, and no request
\* has more time than the call that sent it.
THEOREM CallsMeetDeadlines == Spec => DeadlinesKept
<1>1. ASSUME IInv, Tick, NEW c \in Caller
      PROVE  /\ pc[c] \in {"idle", "done"} \/ left[c] > 0
             /\ Outstanding(c) => op[c].left <= left[c]
  <2>1. TimeKept(c) /\ Position(c) /\ ~Urgent(c)
    BY Zenon, <1>1 DEF IInv, TimeInv, Core, PositionInv, Tick
  <2>2. /\ pc[c] \in Label /\ left[c] \in Nat /\ op[c].left \in Nat
        /\ Outstanding(c) <=> op[c].verb # "none"
    BY <1>1, <2>1, CloudflareAssumption, NoOpFields
    DEF IInv, Core, TypeOK, OpRecord, Position, Outstanding
  <2> QED
    BY SMTT(60), <2>1, <2>2 DEF TimeKept, Position, Urgent, TimerArmed, Label
<1>2. IInv => (Tick => \A c \in Caller : /\ pc[c] \in {"idle", "done"} \/ left[c] > 0
                                         /\ Outstanding(c) => op[c].left <= left[c])
  BY Zenon, <1>1
<1> QED
  BY <1>2, Invariant, PTL DEF DeadlinesKept
=============================================================================
