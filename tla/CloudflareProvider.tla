-------------------------- MODULE CloudflareProvider --------------------------
(***************************************************************************)
(* One Cloudflare Browser Run provider object: concurrent terminations of  *)
(* the same browser share one DELETE, recently terminated browsers are     *)
(* remembered, and an allocation whose answer is unusable is cleaned up.   *)
(*                                                                         *)
(* A caller makes one call, with a timeout in ticks and an abort signal.   *)
(* It has at most one HTTP request outstanding (op); the request acts on   *)
(* the upstream and is answered later, or never.  Timers fire before time  *)
(* moves on.  Only a configured provider, and references to its own        *)
(* browsers, are considered: all other calls are refused without effect.   *)
(***************************************************************************)
EXTENDS Integers, FiniteSets

CONSTANTS
  Caller,           \* terminate and allocate calls
  Session,          \* browsers at the provider
  Nobody,           \* no caller, no browser
  ErrorResponse,    \* the classes of error responses the upstream gives
  MaxTimeout,       \* largest timeout of a call, in ticks
  CleanupTimeout,   \* MAX_ALLOCATION_CLEANUP_TIMEOUT_MS
  CacheSize,        \* MAX_RECENTLY_TERMINATED_SESSIONS
  CacheTTL          \* RECENT_TERMINATION_TTL_MS

ASSUME CloudflareAssumption ==
  /\ Nobody \notin Caller \cup Session
  /\ ErrorResponse \subseteq {"unauthorized", "limited", "exhausted", "server", "rejected",
                             "other"}
  /\ {MaxTimeout, CleanupTimeout, CacheSize, CacheTTL} \subseteq Nat \ {0}

VARIABLES
  upstream,   \* what runs at Cloudflare: "absent", "running" or "gone"
  known,      \* browsers whose reference the control plane holds
  inFlight,   \* #terminationInFlight: the caller whose request is tracked
  recent,     \* #recentlyTerminatedSessionIDs: ticks until each entry expires
  pc,         \* where each call is
  target,     \* the browser a call is about
  left,       \* ticks left of a call's timeout
  aborted,    \* callers whose signal is aborted
  timedOut,   \* allocations whose own timer fired during the cleanup
  op,         \* the HTTP request of each call
  answer      \* what each call returned or threw

calls == <<pc, target, left, aborted, timedOut, answer>>
vars == <<upstream, known, inFlight, recent, pc, target, left, aborted, timedOut, op, answer>>

Aborted == "PROVIDER_OPERATION_ABORTED"
TimedOut == "PROVIDER_OPERATION_TIMEOUT"
Invalid == "PROVIDER_INVALID_RESPONSE"
Gone == {"terminated", "already_terminated"}

Label == {"idle", "posting", "cleaning", "leading", "joining", "rejoin", "retrying", "done"}
Response == {"none", "ok", "identity", "garbled", "server", "missing"} \cup ErrorResponse
OpRecord == [verb : {"none", "POST", "DELETE"}, phase : {"none", "sent", "answered"},
             response : Response, left : 0..MaxTimeout]

NoOp == [verb |-> "none", phase |-> "none", response |-> "none", left |-> 0]
Request(verb, ticks) == [verb |-> verb, phase |-> "sent", response |-> "none", left |-> ticks]
Outstanding(c) == op[c] # NoOp

TypeOK ==
  /\ upstream \in [Session -> {"absent", "running", "gone"}]
  /\ known \subseteq Session
  /\ inFlight \in [Session -> Caller \cup {Nobody}]
  /\ recent \in [Session -> 0..CacheTTL]
  /\ pc \in [Caller -> Label]
  /\ target \in [Caller -> Session \cup {Nobody}]
  /\ left \in [Caller -> 0..MaxTimeout]
  /\ aborted \subseteq Caller /\ timedOut \subseteq Caller
  /\ op \in [Caller -> OpRecord]
  /\ DOMAIN answer = Caller
  /\ \A s \in Session : inFlight[s] # Nobody =>
       op[inFlight[s]].verb = "DELETE" /\ target[inFlight[s]] = s

Init ==
  /\ upstream \in [Session -> {"absent", "running"}]
  /\ known = {s \in Session : upstream[s] = "running"}
  /\ inFlight = [s \in Session |-> Nobody]
  /\ recent = [s \in Session |-> 0]
  /\ pc = [c \in Caller |-> "idle"]
  /\ target = [c \in Caller |-> Nobody]
  /\ left = [c \in Caller |-> 0]
  /\ aborted = {} /\ timedOut = {}
  /\ op = [c \in Caller |-> NoOp]
  /\ answer = [c \in Caller |-> "none"]

(***************************************************************************)
(* Errors.  Response classes: unauthorized (401, 403), limited and         *)
(* exhausted (429 without and with the documented quota message), server   *)
(* (5xx), rejected (400, 422), missing (404), other.                       *)
(***************************************************************************)
ErrorForResponse(response, verb) ==
  CASE response = "unauthorized" -> "PROVIDER_AUTHORIZATION_ERROR"
    [] response = "limited" -> "PROVIDER_RATE_LIMITED"
    [] response = "exhausted" -> "PROVIDER_CAPACITY_EXHAUSTED"
    [] response = "server" -> "PROVIDER_TRANSIENT_UPSTREAM_FAILURE"
    [] verb = "DELETE" -> "PROVIDER_TERMINATION_FAILED"
    [] response \in {"rejected", "missing"} -> "PROVIDER_UNSUPPORTED"
    [] OTHER -> "PROVIDER_UNKNOWN_ERROR"

(* mapFetchFailure: an abort or the timer overrides the error at hand.     *)
MapFetchFailure(c, error) ==
  IF c \in aborted THEN Aborted ELSE IF c \in timedOut THEN TimedOut ELSE error

(***************************************************************************)
(* The cache of recently terminated browsers.  An entry that has expired   *)
(* is as good as none: the lookup drops it, and so does every insertion    *)
(* before it counts.  All entries live equally long, so the oldest is the  *)
(* one that expires first.                                                 *)
(***************************************************************************)
IsRecentlyTerminated(s) == recent[s] > 0

MarkRecentlyTerminated(s) ==
  LET others == {x \in Session \ {s} : recent[x] > 0}
  IN  \E kept \in SUBSET others :
        /\ Cardinality(kept) = IF Cardinality(others) < CacheSize
                               THEN Cardinality(others) ELSE CacheSize - 1
        /\ \A x \in kept, y \in others \ kept : recent[y] <= recent[x]
        /\ recent' = [x \in Session |-> IF x = s THEN CacheTTL
                                        ELSE IF x \in kept THEN recent[x] ELSE 0]

(***************************************************************************)
(* Terminate: answered from the cache, joined to the request in flight, or *)
(* started.  `ticks` is the timeout of the call or what is left of it.     *)
(***************************************************************************)
Finish(c, result) ==
  /\ pc' = [pc EXCEPT ![c] = "done"]
  /\ answer' = [answer EXCEPT ![c] = result]

StartTermination(c, s, ticks, next) ==
  /\ op' = [op EXCEPT ![c] = Request("DELETE", ticks)]
  /\ inFlight' = [inFlight EXCEPT ![s] = c]
  /\ pc' = [pc EXCEPT ![c] = next]
  /\ UNCHANGED answer

Arbitrate(c, s, ticks, next) ==
  /\ CASE IsRecentlyTerminated(s) ->
            Finish(c, "already_terminated") /\ UNCHANGED <<op, inFlight>>
       [] ~IsRecentlyTerminated(s) /\ inFlight[s] # Nobody ->
            pc' = [pc EXCEPT ![c] = "joining"] /\ UNCHANGED <<op, inFlight, answer>>
       [] OTHER -> StartTermination(c, s, ticks, next)

Terminate(c, s, ticks) ==
  /\ pc[c] = "idle" /\ s \in known
  /\ target' = [target EXCEPT ![c] = s]
  /\ left' = [left EXCEPT ![c] = ticks]
  /\ IF c \in aborted
     THEN Finish(c, Aborted) /\ UNCHANGED <<op, inFlight>>
     ELSE Arbitrate(c, s, ticks, "leading")
  /\ UNCHANGED <<upstream, known, recent, aborted, timedOut>>

(* A joiner whose leader was aborted or timed out arbitrates again, with   *)
(* the time it has left.                                                   *)

\* Mutant: the retry sends its own request whatever is in flight.
RetryTerminationUnarbitrated(c) ==
  StartTermination(c, target[c], left[c], "retrying")

RetryTermination(c) == Arbitrate(c, target[c], left[c], "retrying")

Rejoin(c) ==
  /\ pc[c] = "rejoin"
  /\ IF left[c] = 0
     THEN Finish(c, TimedOut) /\ UNCHANGED <<op, inFlight>>
     ELSE RetryTermination(c)
  /\ UNCHANGED <<upstream, known, recent, target, left, aborted, timedOut>>

(***************************************************************************)
(* The end of a DELETE.  The tracked promise leaves #terminationInFlight   *)
(* and its joiners learn the outcome; a call that has been answered by its *)
(* own timer stays answered.                                               *)
(***************************************************************************)
\* Mutant: a joiner adopts every error of the request it joined.
RetriesAfterNever(outcome) == FALSE

RetriesAfter(outcome) == outcome \in {Aborted, TimedOut}

Untracked(c, s) == [inFlight EXCEPT ![s] = IF @ = c THEN Nobody ELSE @]

JoinedAnswer(outcome) == IF outcome \in Gone THEN "already_terminated" ELSE outcome

Joiners(s) == {c \in Caller : pc[c] = "joining" /\ target[c] = s}

SettleDelete(c, outcome) ==
  LET s == target[c]
      own == IF pc[c] = "cleaning" THEN MapFetchFailure(c, Invalid) ELSE outcome
      retry == IF RetriesAfter(outcome) THEN Joiners(s) ELSE {}
  IN  /\ op' = [op EXCEPT ![c] = NoOp]
      /\ inFlight' = Untracked(c, s)
      /\ pc' = [d \in Caller |-> IF d \in retry THEN "rejoin"
                                 ELSE IF d = c \/ d \in Joiners(s) THEN "done" ELSE pc[d]]
      /\ answer' = [d \in Caller |->
                      CASE d = c /\ pc[c] # "done" -> own
                        [] d \in Joiners(s) \ retry -> JoinedAnswer(outcome)
                        [] OTHER -> answer[d]]

(***************************************************************************)
(* Allocate                                                                *)
(***************************************************************************)
Allocate(c, ticks) ==
  /\ pc[c] = "idle"
  /\ left' = [left EXCEPT ![c] = ticks]
  /\ IF c \in aborted
     THEN Finish(c, Aborted) /\ UNCHANGED op
     ELSE /\ op' = [op EXCEPT ![c] = Request("POST", ticks)]
          /\ pc' = [pc EXCEPT ![c] = "posting"]
          /\ UNCHANGED answer
  /\ UNCHANGED <<upstream, known, inFlight, recent, target, aborted, timedOut>>

SettlePost(c, outcome) ==
  /\ op' = [op EXCEPT ![c] = NoOp]
  /\ Finish(c, outcome)
  /\ UNCHANGED inFlight

(* One bounded request to remove a browser whose description is unusable.  *)
(* Nobody else knows the browser, so there is nothing to join.             *)
CleanupBudget(c) == IF left[c] < CleanupTimeout THEN left[c] ELSE CleanupTimeout

CleanupInvalidAllocation(c) ==
  IF left[c] = 0
  THEN SettlePost(c, MapFetchFailure(c, Invalid))
  ELSE StartTermination(c, target[c], CleanupBudget(c), "cleaning")

(***************************************************************************)
(* The network.  The upstream acts on a request.  An answered request has  *)
(* its response under way: it may still be lost, and a body that is cut    *)
(* short is an answer that cannot be parsed (garbled).                     *)
(***************************************************************************)
Answered(c, response) ==
  op' = [op EXCEPT ![c] = [@ EXCEPT !.phase = "answered", !.response = response]]

UpstreamDeletes(c) ==
  /\ op[c].verb = "DELETE" /\ op[c].phase = "sent"
  /\ \/ upstream[target[c]] = "gone" /\ Answered(c, "missing") /\ UNCHANGED upstream
     \/ /\ upstream[target[c]] = "running"
        /\ upstream' = [upstream EXCEPT ![target[c]] = "gone"]
        /\ \E r \in {"ok", "garbled", "server"} : Answered(c, r)
     \/ \E r \in ErrorResponse : Answered(c, r) /\ UNCHANGED upstream
  /\ UNCHANGED <<known, inFlight, recent, calls>>

UpstreamCreates(c) ==
  /\ op[c].verb = "POST" /\ op[c].phase = "sent"
  /\ \/ \E s \in Session : \E r \in {"ok", "identity", "garbled", "server"} :
          /\ upstream[s] = "absent"
          /\ upstream' = [upstream EXCEPT ![s] = "running"]
          /\ target' = [target EXCEPT ![c] = s]
          /\ Answered(c, r)
     \/ \E r \in ErrorResponse \cup {"missing"} :
          Answered(c, r) /\ UNCHANGED <<upstream, target>>
  /\ UNCHANGED <<known, inFlight, recent, pc, left, aborted, timedOut, answer>>

(* The response is consumed.  A browser with a usable description is       *)
(* returned, one with an identity only is cleaned up.                      *)
\* Mutant: every answered DELETE marks the browser as terminated.
ConsumeDeleteUnchecked(c) ==
  /\ MarkRecentlyTerminated(target[c])
  /\ SettleDelete(c, "terminated")

ConsumeDelete(c) ==
  CASE op[c].response = "missing" ->
         MarkRecentlyTerminated(target[c]) /\ SettleDelete(c, "already_terminated")
    [] op[c].response = "ok" ->
         MarkRecentlyTerminated(target[c]) /\ SettleDelete(c, "terminated")
    [] op[c].response = "garbled" -> SettleDelete(c, Invalid) /\ UNCHANGED recent
    [] OTHER -> SettleDelete(c, ErrorForResponse(op[c].response, "DELETE")) /\ UNCHANGED recent

ConsumePost(c) ==
  /\ CASE op[c].response = "ok" -> SettlePost(c, "allocated")
       [] op[c].response = "identity" -> CleanupInvalidAllocation(c)
       [] op[c].response = "garbled" -> SettlePost(c, Invalid)
       [] OTHER -> SettlePost(c, ErrorForResponse(op[c].response, "POST"))
  /\ UNCHANGED recent

Consume(c) ==
  /\ op[c].phase = "answered"
  /\ IF op[c].verb = "DELETE" THEN ConsumeDelete(c) ELSE ConsumePost(c)
  /\ known' = known \cup {s \in {target[c]} : op[c].verb = "POST" /\ op[c].response = "ok"}
  /\ UNCHANGED <<upstream, target, left, aborted, timedOut>>

Fail(c, outcome) ==
  /\ IF op[c].verb = "DELETE" THEN SettleDelete(c, outcome) ELSE SettlePost(c, outcome)
  /\ UNCHANGED <<upstream, known, recent, target, left, timedOut>>

ConnectionFails(c) ==
  Outstanding(c) /\ Fail(c, "PROVIDER_CONNECTION_FAILED") /\ UNCHANGED aborted

UpstreamCloses(s) ==
  /\ upstream[s] = "running"
  /\ upstream' = [upstream EXCEPT ![s] = "gone"]
  /\ UNCHANGED <<known, inFlight, recent, calls, op>>

(***************************************************************************)
(* Timers and signals                                                      *)
(***************************************************************************)
\* Mutant: the timer is cleared when the response arrives, before its body.
TimerArmedForHeaders(c) == op[c].phase = "sent"

TimerArmed(c) == Outstanding(c)

RequestTimer(c) ==
  TimerArmed(c) /\ op[c].left = 0 /\ Fail(c, TimedOut) /\ UNCHANGED aborted

(* The timer of a joiner, which stays armed while its retry runs.          *)
JoinTimer(c) ==
  /\ pc[c] \in {"joining", "rejoin", "retrying"} /\ left[c] = 0
  /\ Finish(c, TimedOut)
  /\ UNCHANGED <<upstream, known, inFlight, recent, target, left, aborted, timedOut, op>>

(* The timer of an allocation fires during its clean-up: the request to    *)
(* remove the browser goes on, but the allocation counts as timed out.     *)
AllocationTimer(c) ==
  /\ pc[c] = "cleaning" /\ left[c] = 0 /\ c \notin timedOut
  /\ timedOut' = timedOut \cup {c}
  /\ UNCHANGED <<upstream, known, inFlight, recent, pc, target, left, aborted, op, answer>>

AbortWaiting(c) ==
  /\ IF pc[c] = "idle" THEN UNCHANGED <<pc, answer>> ELSE Finish(c, Aborted)
  /\ UNCHANGED <<upstream, known, inFlight, recent, target, left, timedOut, op>>

Abort(c) ==
  /\ pc[c] # "done" /\ c \notin aborted
  /\ aborted' = aborted \cup {c}
  /\ IF Outstanding(c)
     THEN IF pc[c] = "cleaning"
          THEN /\ op' = [op EXCEPT ![c] = NoOp]
               /\ inFlight' = Untracked(c, target[c])
               /\ Finish(c, Aborted)
               /\ UNCHANGED <<upstream, known, recent, target, left, timedOut>>
          ELSE Fail(c, Aborted)
     ELSE AbortWaiting(c)

Urgent(c) ==
  \/ TimerArmed(c) /\ op[c].left = 0
  \/ pc[c] \in {"joining", "retrying"} /\ left[c] = 0
  \/ pc[c] = "rejoin"
  \/ pc[c] = "cleaning" /\ left[c] = 0 /\ c \notin timedOut

Tick ==
  /\ \A c \in Caller : ~Urgent(c)
  /\ left' = [c \in Caller |-> IF left[c] > 0 THEN left[c] - 1 ELSE 0]
  /\ op' = [c \in Caller |-> IF op[c].left > 0 THEN [op[c] EXCEPT !.left = @ - 1] ELSE op[c]]
  /\ recent' = [s \in Session |-> IF recent[s] > 0 THEN recent[s] - 1 ELSE 0]
  /\ UNCHANGED <<upstream, known, inFlight, pc, target, aborted, timedOut, answer>>

Next ==
  \/ \E c \in Caller :
       \/ \E ticks \in 1..MaxTimeout :
            Allocate(c, ticks) \/ \E s \in Session : Terminate(c, s, ticks)
       \/ Rejoin(c)
       \/ UpstreamDeletes(c)
       \/ UpstreamCreates(c)
       \/ Consume(c)
       \/ ConnectionFails(c)
       \/ RequestTimer(c)
       \/ JoinTimer(c)
       \/ AllocationTimer(c)
       \/ Abort(c)
  \/ \E s \in Session : UpstreamCloses(s)
  \/ Tick

Spec == Init /\ [][Next]_vars

-----------------------------------------------------------------------------
(* Concurrent calls never send two DELETE requests for the same browser at *)
(* a time, also not the joiners that start over after their leader gave    *)
(* up: all but one of them join the first to retry.                        *)
OneDeleteInFlight ==
  \A c, d \in Caller :
    op[c].verb = "DELETE" /\ op[d].verb = "DELETE" /\ target[c] = target[d] => c = d

(* A call that reports a browser terminated, from its own request, from    *)
(* the request it joined or from the cache, is right.                      *)
TerminatedIsGone == \A c \in Caller : answer[c] \in Gone => upstream[target[c]] = "gone"

(* A call is told that the operation was aborted or timed out only when    *)
(* its own signal or its own timeout did so, never because of the caller   *)
(* whose request it joined.                                                *)
OwnInterruptionOnly ==
  \A c \in Caller : /\ answer[c] = Aborted => c \in aborted
                    /\ answer[c] = TimedOut => left[c] = 0

(* Every call is answered by the end of its timeout, whatever the network  *)
(* and the other callers do: time does not pass beyond the timeout of a    *)
(* call without an answer, whether it waits for a response, for a body,    *)
(* for the request of another caller or for a clean-up.  And no request    *)
(* outlives the deadline of the call that sent it: retries and clean-ups   *)
(* run in what is left of the caller's timeout.                            *)
DeadlinesKept ==
  [][Tick => \A c \in Caller : /\ pc[c] \in {"idle", "done"} \/ left[c] > 0
                               /\ Outstanding(c) => op[c].left <= left[c]]_vars

(* The comment in #cleanupInvalidAllocation: the original validation       *)
(* failure is kept, whatever happens to the clean-up of a browser, unless  *)
(* the caller has given up.                                                *)
ValidationFailureKept ==
  [][\A c \in Caller : pc[c] = "cleaning" /\ pc'[c] = "done" /\ c \notin aborted'
                         => answer'[c] = Invalid]_vars
=============================================================================
