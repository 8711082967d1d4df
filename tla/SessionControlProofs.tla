------------------------- MODULE SessionControlProofs -------------------------
(***************************************************************************)
(* HandlerKnowledge is an invariant of SessionControl, for every number of *)
(* requests, jobs, keys and failures, and what follows from it: agreement  *)
(* of claims and sessions, the quota, what a 201 stands for, that the      *)
(* control plane implements SessionPromise, and that a create which gives  *)
(* up cleans up while nothing fails.                                       *)
(***************************************************************************)
EXTENDS SessionControlSteps, FiniteSetTheorems

-------------------------------------------------------------------------------
(* Claims                                                                    *)

\* Claims keep their owners, and none is inserted or deleted.
ClaimsKeep ==
    \A k \in Key : /\ claims'[k].owner = claims[k].owner
                   /\ claims'[k].state = "free" <=> claims[k].state = "free"

\* A position may be left for one that relies on no more of the claim.
PcMoves(c) ==
    /\ cpc'[c] \in CreateWork => cpc[c] \in CreateWork
    /\ cpc'[c] \in {"waiting", "created"} => cpc[c] \in {"waiting", "created"} \cup CreateWork
    /\ rows'[c].status = "absent" <=> rows[c].status = "absent"

\* Claims and sessions keep naming each other when no request arrives.
LEMMA ClaimFrame ==
    ASSUME TypeOK, TypeOK', HandlerKnowledge, key' = key, ClaimsKeep,
           \A c \in Creator : PcMoves(c)
    PROVE  ClaimInv'
<1>1. ClaimInv /\ \A c \in Creator : cpc[c] \in CreateWork => rows[c].status # "absent"
  BY Zenon DEF HandlerKnowledge, CreateInv, Known
<1>2. ASSUME NEW k \in Key, claims'[k].state # "free"
      PROVE  /\ claims'[k].owner \in Creator /\ key'[claims'[k].owner] = k
             /\ rows'[claims'[k].owner].status # "absent"
  BY Zenon, <1>1, <1>2 DEF ClaimInv, ClaimsKeep, PcMoves
<1>3. ASSUME NEW c \in Creator
      PROVE  /\ cpc'[c] \in CreateWork => key'[c] \in Key /\ claims'[key'[c]].owner = c
             /\ cpc'[c] \in {"waiting", "created"} =>
                   key'[c] \in Key /\ claims'[key'[c]].state # "free"
             /\ rows'[c].status # "absent" =>
                   /\ key'[c] \in Key
                   /\ claims'[key'[c]].owner = c
                   /\ claims'[key'[c]].state # "free"
  BY Zenon, <1>1 DEF ClaimInv, ClaimsKeep, PcMoves
<1> QED
  BY Zenon, <1>2, <1>3 DEF ClaimInv

\* A new claim names its request, whose session it inserts.
LEMMA ReserveClaim ==
    ASSUME TypeOK, HandlerKnowledge, NEW c \in Creator, NEW k \in Key, NEW b \in Body,
           Reserve(c, k, b)
    PROVE  ClaimInv'
<1>1. /\ ClaimInv /\ cpc[c] = "idle" /\ claims[k].state = "free" /\ rows[c].status = "absent"
      /\ rows'[c].status = "pending" /\ key'[c] = k /\ cpc'[c] = "owner"
      /\ claims'[k].owner = c /\ claims'[k].state = "in_progress"
  BY DEF Reserve, HandlerKnowledge, CreateInv, TypeOK, Initial, Absent
<1>2. /\ \A x \in Creator \ {c} : rows'[x] = rows[x] /\ key'[x] = key[x] /\ cpc'[x] = cpc[x]
      /\ \A j \in Key \ {k} : claims'[j] = claims[j]
  BY Zenon DEF Reserve, TypeOK
<1>3. \A x \in Creator : cpc[x] \in CreateWork => rows[x].status # "absent"
  BY Zenon DEF HandlerKnowledge, CreateInv, Known
<1>4. ASSUME NEW j \in Key, claims'[j].state # "free"
      PROVE  /\ claims'[j].owner \in Creator /\ key'[claims'[j].owner] = j
             /\ rows'[claims'[j].owner].status # "absent"
  BY <1>1, <1>2, <1>4 DEF ClaimInv
<1>5. ASSUME NEW x \in Creator
      PROVE  /\ cpc'[x] \in CreateWork => key'[x] \in Key /\ claims'[key'[x]].owner = x
             /\ cpc'[x] \in {"waiting", "created"} =>
                   key'[x] \in Key /\ claims'[key'[x]].state # "free"
             /\ rows'[x].status # "absent" =>
                   /\ key'[x] \in Key
                   /\ claims'[key'[x]].owner = x
                   /\ claims'[key'[x]].state # "free"
  BY <1>1, <1>2, <1>3 DEF ClaimInv
<1> QED
  BY Zenon, <1>4, <1>5 DEF ClaimInv

\* A request that meets an existing claim has no session of its own.
LEMMA ReadExistingClaim ==
    ASSUME TypeOK, HandlerKnowledge, NEW c \in Creator, NEW k \in Key, NEW b \in Body,
           ReadExisting(c, k, b)
    PROVE  ClaimInv'
<1>1. /\ ClaimInv /\ cpc[c] = "idle" /\ claims[k].state # "free" /\ rows[c].status = "absent"
      /\ rows' = rows /\ claims' = claims /\ key'[c] = k
      /\ \A x \in Creator \ {c} : key'[x] = key[x] /\ cpc'[x] = cpc[x]
  BY DEF ReadExisting, Goto, store, HandlerKnowledge, CreateInv, TypeOK
<1>2. Replay(k) \in {"waiting", "failed", "created"}
  BY Zenon, <1>1 DEF Replay, TypeOK, Claim
<1>3. cpc'[c] \in {"waiting", "failed", "created", "refused"}
  BY Zenon, <1>2 DEF ReadExisting, Goto, TypeOK
<1> QED
  BY <1>1, <1>3 DEF ClaimInv, CreateWork

\* Settling a claim keeps its owner.
LEMMA SettleKeeps ==
    ASSUME TypeOK, NEW k \in Key, NEW state \in {"succeeded", "failed"}, claims[k].state # "free",
           claims' = [claims EXCEPT ![k].state = state]
    PROVE  ClaimsKeep
<1>1. /\ claims'[k] = [claims[k] EXCEPT !.state = state] /\ claims[k] \in Claim
      /\ \A j \in Key \ {k} : claims'[j] = claims[j]
  BY Zenon DEF TypeOK
<1>2. claims'[k].owner = claims[k].owner /\ claims'[k].state = state
  BY <1>1 DEF Claim
<1> QED
  BY Zenon, <1>1, <1>2 DEF ClaimsKeep

\* A handler works for a claim or waits for one.
LEMMA HandlePositions ==
    ASSUME NEW c \in Creator, Handle(c) \/ Throw(c) \/ Crash(c)
    PROVE  /\ key' = key
           /\ \/ cpc[c] \in CreateWork
              \/ cpc[c] = "waiting" /\ (WaitForCompletion(c) \/ Throw(c))
<1>1. key' = key
  BY Zenon DEF Handle, Throw, Crash, Goto, WaitForCompletion, Deny, BeginRouting, Route, StartAttempt,
         Allocate, RecordFailure, BeginFallback, Activate, RecordSuccess, CompleteClaim, Respond,
         Recover, Mark, Cleanup, Finish, Catch, FailRow, Rollback, RollbackCleanup,
         RollbackFinish, FailClaim, Transit
<1>2. CASE Throw(c)
  <2>1. OnThrow(cpc[c]) # {}
    BY Zenon, <1>2 DEF Throw
  <2>2. cpc[c] \in CreateWork \cup {"waiting"}
    BY Zenon, <2>1 DEF OnThrow, CreateWork
  <2> QED
    BY Zenon, <1>1, <1>2, <2>2
<1>3. CASE Handle(c) \/ Crash(c)
  BY Zenon, <1>1, <1>3
     DEF Handle, Crash, WaitForCompletion, Deny, BeginRouting, Route, StartAttempt, Allocate,
         RecordFailure, BeginFallback, Activate, RecordSuccess, CompleteClaim, Respond, Recover,
         Mark, Cleanup, Finish, Catch, FailRow, Rollback, RollbackCleanup, RollbackFinish,
         FailClaim, Transit, CreateWork
<1> QED
  BY Zenon, <1>2, <1>3

\* A handler inserts no claim and gives none to another request.
LEMMA HandleClaims ==
    ASSUME TypeOK, HandlerKnowledge, NEW c \in Creator, Handle(c) \/ Throw(c) \/ Crash(c)
    PROVE  ClaimsKeep
<1>1. CASE claims' = claims
  BY Zenon, <1>1 DEF ClaimsKeep
<1>2. CASE CompleteClaim(c)
  <2>1. key[c] \in Key
    BY Zenon, <1>2 DEF CompleteClaim, HandlerKnowledge, ClaimInv, CreateWork
  <2>2. CASE Owns(c)
    <3>1. claims' = [claims EXCEPT ![key[c]].state = "succeeded"] /\ claims[key[c]].state # "free"
      BY Zenon, <1>2, <2>2 DEF CompleteClaim, Owns
    <3> QED
      BY Zenon, <2>1, <3>1, SettleKeeps
  <2>3. CASE ~Owns(c)
    BY Zenon, <1>1, <1>2, <2>3 DEF CompleteClaim
  <2> QED
    BY Zenon, <2>2, <2>3
<1>3. CASE FailClaim(c)
  <2>1. key[c] \in Key
    BY Zenon, <1>3 DEF FailClaim, HandlerKnowledge, ClaimInv, CreateWork
  <2>2. CASE Owns(c)
    <3>1. claims' = [claims EXCEPT ![key[c]].state = "failed"] /\ claims[key[c]].state # "free"
      BY Zenon, <1>3, <2>2 DEF FailClaim, Owns
    <3> QED
      BY Zenon, <2>1, <3>1, SettleKeeps
  <2>3. CASE ~Owns(c)
    BY Zenon, <1>1, <1>3, <2>3 DEF FailClaim
  <2> QED
    BY Zenon, <2>2, <2>3
<1> QED
  BY Zenon, <1>1, <1>2, <1>3
     DEF Handle, Throw, Crash, Goto, store, WaitForCompletion, Deny, BeginRouting, Route,
         StartAttempt, Allocate, RecordFailure, BeginFallback, Activate, RecordSuccess, Respond,
         Recover, Mark, Cleanup, Finish, Catch, FailRow, Rollback, RollbackCleanup,
         RollbackFinish, Transit

\* A create step keeps claims and sessions naming each other.
LEMMA CreateClaim ==
    ASSUME TypeOK, TypeOK', HandlerKnowledge, NEW c \in Creator, Create(c)
    PROVE  ClaimInv'
<1>1. CASE Arrive(c)
  <2> PICK k \in Key, b \in Body :
          Reserve(c, k, b) \/ RefuseQuota(c, k, b) \/ ReadExisting(c, k, b)
    BY Zenon, <1>1 DEF Arrive
  <2>1. CASE RefuseQuota(c, k, b)
    <3>1. key' = key /\ claims' = claims /\ rows' = rows /\ cpc'[c] = "refused"
          /\ \A x \in Creator \ {c} : cpc'[x] = cpc[x]
      BY Zenon, <2>1 DEF RefuseQuota, Goto, store, TypeOK
    <3>2. ClaimsKeep /\ \A x \in Creator : PcMoves(x)
      BY Zenon, <3>1 DEF ClaimsKeep, PcMoves, CreateWork
    <3> QED
      BY Zenon, <3>1, <3>2, ClaimFrame
  <2> QED
    BY Zenon, <2>1, ReserveClaim, ReadExistingClaim
<1>2. CASE Handle(c) \/ Throw(c) \/ Crash(c)
  <2>1. key' = key /\ ClaimsKeep
    BY Zenon, <1>2, HandlePositions, HandleClaims
  <2>2. \A x \in Creator \ {c} : PcMoves(x)
    BY Zenon, CreateLocal DEF Local, Alone, PcMoves
  <2>3. CASE cpc[c] \in CreateWork
    <3>1. rows[c].status # "absent" /\ Evolves(c)
      BY <2>3, CreateOwn DEF HandlerKnowledge, CreateInv, Known, OwnStep
    <3>2. rows'[c].status # "absent"
      BY Zenon, <3>1 DEF Evolves, RowMoves
    <3> QED
      BY Zenon, <2>1, <2>2, <2>3, <3>1, <3>2, ClaimFrame DEF PcMoves
  <2>4. CASE cpc[c] = "waiting" /\ WaitForCompletion(c)
    <3>1. Replay(key[c]) \in {"waiting", "failed", "created"}
      BY <2>4 DEF Replay, TypeOK, Claim, HandlerKnowledge, ClaimInv
    <3>2. rows' = rows /\ cpc'[c] \in {"failed", "created", "unavailable"}
      BY Zenon, <2>4, <3>1 DEF WaitForCompletion, Goto, store, TypeOK
    <3>3. PcMoves(c)
      BY Zenon, <2>4, <3>2 DEF PcMoves, CreateWork
    <3> QED
      BY Zenon, <2>1, <2>2, <3>3, ClaimFrame
  <2>5. CASE cpc[c] = "waiting" /\ Throw(c)
    <3>1. OnThrow("waiting") = {"failed"}
      BY Zenon DEF OnThrow
    <3>2. rows' = rows /\ cpc'[c] = "failed"
      BY Zenon, <2>5, <3>1 DEF Throw, store, TypeOK
    <3>3. PcMoves(c)
      BY Zenon, <2>5, <3>2 DEF PcMoves, CreateWork
    <3> QED
      BY Zenon, <2>1, <2>2, <3>3, ClaimFrame
  <2> QED
    BY Zenon, <1>2, <2>3, <2>4, <2>5, HandlePositions
<1> QED
  BY Zenon, <1>1, <1>2 DEF Create

\* The other processes keep claims and sessions naming each other.
LEMMA EnvironmentClaim ==
    ASSUME TypeOK, TypeOK', HandlerKnowledge,
           \/ \E t \in Terminator : Delete(t)
           \/ \E r \in Reconciler : Reconcile(r)
           \/ \E s \in Creator, n \in Attempt : ProviderExpires(s, n)
    PROVE  ClaimInv'
<1>1. UNCHANGED cvars
  BY Zenon DEF Delete, Find, RequestTermination, RevokeSession, ReleaseProvider, CompleteTermination,
         Recheck, RespondTermination, ThrowTermination, Reconcile, FindCandidate, Work, FailStale,
         FinalizeCreate, ExpireActive, TerminateProvider, CompleteReconciled, Skip, ProviderExpires
<1>2. Gentle
  BY Zenon, DeleteOwn, ReconcileOwn, ReleaseGentle DEF ProviderExpires
<1>3. \A x \in Creator : PcMoves(x)
  BY Zenon, <1>1, <1>2 DEF Gentle, Interferes, RowMoves, PcMoves, cvars
<1>4. ClaimsKeep
  <2>1. CASE claims' = claims
    BY Zenon, <2>1 DEF ClaimsKeep
  <2>2. ASSUME NEW r \in Reconciler, FinalizeCreate(r)
        PROVE  ClaimsKeep
    <3> SUFFICES ASSUME NEW k \in Key
                 PROVE  /\ claims'[k].owner = claims[k].owner
                        /\ claims'[k].state = "free" <=> claims[k].state = "free"
      BY Zenon DEF ClaimsKeep
    <3>1. claims[k] \in Claim
      BY Zenon DEF TypeOK
    <3>2. claims'[k] = IF claims[k].owner = rtgt[r] /\ claims[k].state = "in_progress"
                       THEN [claims[k] EXCEPT !.state = "failed"] ELSE claims[k]
      BY Zenon, <2>2 DEF FinalizeCreate
    <3> QED
      BY Zenon, <3>1, <3>2 DEF Claim
  <2> QED
    BY Zenon, <2>1, <2>2
       DEF Delete, Find, RequestTermination, RevokeSession, ReleaseProvider, CompleteTermination,
           Recheck, RespondTermination, ThrowTermination, Reconcile, FindCandidate, Work,
           FailStale, ExpireActive, TerminateProvider, CompleteReconciled, Skip, ProviderExpires,
           store
<1> QED
  BY Zenon, <1>1, <1>3, <1>4, ClaimFrame DEF cvars

-------------------------------------------------------------------------------
(* The inductive invariant and what follows from it                          *)

\* Every step keeps the knowledge of all handlers.
LEMMA NextKnowledge ==
    ASSUME TypeOK, TypeOK', HandlerKnowledge, Next
    PROVE  HandlerKnowledge'
<1>1. CASE \E c \in Creator : Create(c)
  BY Zenon, <1>1, CreateKnowledge, CreateClaim DEF HandlerKnowledge
<1>2. CASE ~ \E c \in Creator : Create(c)
  BY Zenon, <1>2, EnvironmentKnowledge, EnvironmentClaim DEF HandlerKnowledge, Next
<1> QED
  BY Zenon, <1>1, <1>2

\* Nothing is known at first.
LEMMA InitKnowledge ==
    Init => TypeOK /\ HandlerKnowledge
<1> SUFFICES ASSUME Init PROVE TypeOK /\ HandlerKnowledge
  OBVIOUS
<1>1. Absent \in Session /\ Absent.status = "absent" /\ Absent.ref = None
  BY Zenon DEF Absent, Session
<1>2. TypeOK
  <2>1. /\ "idle" \in CreatePc /\ "idle" \in TerminatePc /\ "idle" \in ReconcilePc
        /\ "none" \in AttemptStatus /\ "none" \in ProviderStatus /\ "primary" \in Attempt
        /\ 0 \in 0 .. MaxFaults /\ [owner |-> None, state |-> "free"] \in Claim
    BY SessionControlAssumption
       DEF CreatePc, TerminatePc, ReconcilePc, AttemptStatus, ProviderStatus, Attempt, Claim
  <2> QED
    BY Zenon, <1>1, <2>1 DEF Init, TypeOK
<1>3. \A s \in Creator : RowInv(s)
  BY Zenon, <1>1 DEF Init, RowInv, PreActive
<1>4. \A s \in Creator : CreateInv(s)
  BY Zenon, <1>1 DEF Init, CreateInv, Early, Holding, CreateWork, Attempt
<1>5. /\ \A t \in Terminator : DeleteInv(t)
      /\ \A r \in Reconciler : ReconcileInv(r)
  BY Zenon DEF Init, DeleteInv, ReconcileInv, TerminateWork
<1>6. ClaimInv
  BY Zenon, <1>1 DEF Init, ClaimInv, CreateWork
<1> QED
  BY Zenon, <1>2, <1>3, <1>4, <1>5, <1>6 DEF HandlerKnowledge

\* A stuttering step keeps the invariant.
LEMMA StutterKnowledge ==
    ASSUME TypeOK, HandlerKnowledge, UNCHANGED vars
    PROVE  TypeOK' /\ HandlerKnowledge'
<1> USE DEF vars, store, cvars, tvars, rvars
<1>1. TypeOK'
  BY Zenon DEF TypeOK
<1>2. \A s \in Creator : RowInv(s)' /\ CreateInv(s)'
  BY DEF HandlerKnowledge, RowInv, CreateInv
<1>3. /\ \A t \in Terminator : DeleteInv(t)'
      /\ \A r \in Reconciler : ReconcileInv(r)'
  BY Zenon DEF HandlerKnowledge, DeleteInv, ReconcileInv
<1>4. ClaimInv'
  BY Zenon DEF HandlerKnowledge, ClaimInv
<1> QED
  BY Zenon, <1>1, <1>2, <1>3, <1>4 DEF HandlerKnowledge

\* In every behaviour of the control plane, whatever the number of requests,
\* keys, faults and the quota, every variable has its type and every handler
\* may rely at each position on what HandlerKnowledge says of its session.
THEOREM Knowledge == Spec => [](TypeOK /\ HandlerKnowledge)
<1>1. Init => TypeOK /\ HandlerKnowledge
  BY Zenon, InitKnowledge
<1>2. TypeOK /\ HandlerKnowledge /\ [Next]_vars => (TypeOK /\ HandlerKnowledge)'
  BY Zenon, NextType, NextKnowledge, StutterKnowledge
<1> QED
  BY <1>1, <1>2, PTL DEF Spec

\* A row is reported terminated only after its browser was released.
THEOREM TerminatedReleased == Spec => []TerminatedMeansReleased
<1>1. TypeOK /\ HandlerKnowledge => TerminatedMeansReleased
  BY Zenon DEF HandlerKnowledge, RowInv, TerminatedMeansReleased, Attempt, None
<1> QED
  BY <1>1, Knowledge, PTL

\* A running browser the control plane received is named by an active or
\* terminating row or by an open attempt.
THEOREM Accounted == Spec => []ReceivedAccounted
<1>1. TypeOK /\ HandlerKnowledge => ReceivedAccounted
  BY Zenon DEF HandlerKnowledge, RowInv, ReceivedAccounted
<1> QED
  BY <1>1, Knowledge, PTL

\* Neither the catch block nor the reconciler fails a session that became
\* active behind its back.
THEOREM FailedHasNoReference == Spec => []FailedUnreferenced
<1>1. TypeOK /\ HandlerKnowledge => FailedUnreferenced
  BY Zenon DEF HandlerKnowledge, RowInv, FailedUnreferenced
<1> QED
  BY <1>1, Knowledge, PTL

\* The fallback starts only after the primary attempt was closed as failed.
THEOREM OneBrowser == Spec => []OneBrowserPerSession
<1>1. TypeOK /\ HandlerKnowledge => OneBrowserPerSession
  BY DEF HandlerKnowledge, CreateInv, OneBrowserPerSession, TypeOK, Attempt
<1> QED
  BY <1>1, Knowledge, PTL

\* Requests that share an idempotency key allocate for one session.
THEOREM AllocatesOnce == Spec => []SingleAllocation
<1>1. TypeOK /\ HandlerKnowledge => SingleAllocation
  <2> SUFFICES ASSUME TypeOK, HandlerKnowledge, NEW c \in Creator, NEW d \in Creator,
                      key[c] = key[d],
                      attempts[c]["primary"] # "none", attempts[d]["primary"] # "none"
               PROVE  c = d
    BY Zenon DEF SingleAllocation
  <2>1. rows[c].status # "absent" /\ rows[d].status # "absent"
    BY DEF HandlerKnowledge, CreateInv, Attempt
  <2>2. claims[key[c]].owner = c /\ claims[key[d]].owner = d
    BY Zenon, <2>1 DEF HandlerKnowledge, ClaimInv
  <2> QED
    BY Zenon, <2>2
<1> QED
  BY <1>1, Knowledge, PTL

-------------------------------------------------------------------------------
(* The quota: only claim adds a session, and it counts first.                *)

\* Only rows that count against the quota move, unless a session is inserted.
QuotaShrinks == \A s \in Creator : rows'[s] = rows[s] \/ rows[s].status \in ActiveQuotaStatuses

\* A compare-and-set moves only a row that counts against the quota.
LEMMA CommittedQuota ==
    ASSUME TypeOK, NEW s \in Creator, NEW copy, NEW e \in Events, NEW n,
           Committed(s, copy, e, n)
    PROVE  QuotaShrinks
<1>1. rows[s].status \in Sources(e) /\ \A x \in Creator \ {s} : rows'[x] = rows[x]
  BY Zenon DEF Committed, Accepts, TypeOK
<1>2. Sources("expire") = {"active"}
  BY Zenon DEF Sources
<1>3. Sources(e) \subseteq ActiveQuotaStatuses
  BY Zenon, <1>2, EventTable DEF Events, ActiveQuotaStatuses, PreActive
<1> QED
  BY Zenon, <1>1, <1>3 DEF QuotaShrinks

\* Nor does a transition of a create request.
LEMMA TransitQuota ==
    ASSUME TypeOK, NEW c \in Creator, NEW from, NEW e \in Events, NEW n, NEW ok, NEW no,
           Transit(c, from, e, n, ok, no)
    PROVE  QuotaShrinks
<1>1. CASE Committed(c, csess[c], e, n)
  BY Zenon, <1>1, CommittedQuota
<1>2. CASE rows' = rows
  BY Zenon, <1>2 DEF QuotaShrinks
<1> QED
  BY Zenon, <1>1, <1>2 DEF Transit, Refused

\* A handler never brings a session back under the quota.
LEMMA HandleQuota ==
    ASSUME TypeOK, NEW c \in Creator, Handle(c) \/ Throw(c) \/ Crash(c)
    PROVE  QuotaShrinks
<1>1. CASE rows' = rows
  BY Zenon, <1>1 DEF QuotaShrinks
<1>2. CASE \/ BeginRouting(c) \/ Route(c) \/ BeginFallback(c) \/ Activate(c) \/ Finish(c)
           \/ FailRow(c) \/ RollbackFinish(c)
  BY Zenon, <1>2, TransitQuota DEF BeginRouting, Route, BeginFallback, Activate, Finish, FailRow,
                            RollbackFinish, Events
<1>3. CASE Mark(c) \/ Rollback(c)
  BY Zenon, <1>1, <1>3, TransitQuota DEF Mark, Rollback, Goto, store, Events
<1> QED
  BY Zenon, <1>1, <1>2, <1>3
     DEF Handle, Throw, Crash, Goto, store, WaitForCompletion, Deny, StartAttempt, Allocate,
         RecordFailure, RecordSuccess, CompleteClaim, Respond, Recover, Cleanup, Catch,
         RollbackCleanup, FailClaim

\* Delete requests, the reconciler and the provider insert no session.
LEMMA EnvironmentQuota ==
    ASSUME TypeOK, HandlerKnowledge,
           \/ \E t \in Terminator : Delete(t)
           \/ \E r \in Reconciler : Reconcile(r)
           \/ \E s \in Creator, n \in Attempt : ProviderExpires(s, n)
    PROVE  QuotaShrinks
<1>1. CASE rows' = rows
  BY Zenon, <1>1 DEF QuotaShrinks
<1>2. ASSUME NEW t \in Terminator, RequestTermination(t) \/ CompleteTermination(t)
      PROVE  QuotaShrinks
  <2>1. ttgt[t] \in Creator
    BY Zenon, <1>2 DEF RequestTermination, CompleteTermination, HandlerKnowledge, DeleteInv, TerminateWork
  <2> QED
    BY Zenon, <1>1, <1>2, <2>1, CommittedQuota
       DEF RequestTermination, CompleteTermination, Returned, Refused, Events
<1>3. ASSUME NEW r \in Reconciler, FailStale(r) \/ ExpireActive(r) \/ CompleteReconciled(r)
      PROVE  QuotaShrinks
  <2>1. rtgt[r] \in Creator
    BY Zenon, <1>3 DEF FailStale, ExpireActive, CompleteReconciled, HandlerKnowledge, ReconcileInv
  <2> QED
    BY Zenon, <1>1, <1>3, <2>1, CommittedQuota
       DEF FailStale, ExpireActive, CompleteReconciled, Returned, Refused, Events
<1> QED
  BY Zenon, <1>1, <1>2, <1>3
     DEF Delete, Find, RevokeSession, ReleaseProvider, Recheck, RespondTermination,
         ThrowTermination, Reconcile, FindCandidate, Work, FinalizeCreate, TerminateProvider,
         Skip, ProviderExpires, store

\* The number of non-terminal sessions grows only in the transaction that
\* checked the quota.
LEMMA NextQuota ==
    ASSUME TypeOK, HandlerKnowledge, QuotaRespected, [Next]_vars
    PROVE  QuotaRespected'
<1>1. IsFiniteSet(QuotaUsed) /\ QuotaUsed \subseteq Creator
  BY Zenon, SessionControlAssumption, FS_Subset DEF QuotaUsed
<1>2. ASSUME QuotaShrinks PROVE QuotaRespected'
  <2>1. QuotaUsed' \subseteq QuotaUsed
    BY Zenon, <1>2 DEF QuotaUsed, QuotaShrinks
  <2>2. Cardinality(QuotaUsed') <= Cardinality(QuotaUsed) /\ IsFiniteSet(QuotaUsed')
    BY Zenon, <1>1, <2>1, FS_Subset
  <2>3. Cardinality(QuotaUsed') \in Nat /\ Cardinality(QuotaUsed) \in Nat
    BY Zenon, <1>1, <2>2, FS_CardinalityType
  <2> QED
    BY <2>2, <2>3, SessionControlAssumption DEF QuotaRespected
<1>3. ASSUME NEW c \in Creator, NEW k \in Key, NEW b \in Body, Reserve(c, k, b)
      PROVE  QuotaRespected'
  <2>1. \A x \in Creator \ {c} : rows'[x] = rows[x]
    BY Zenon, <1>3 DEF Reserve, TypeOK
  <2>2. QuotaUsed' \subseteq QuotaUsed \cup {c}
    BY Zenon, <2>1 DEF QuotaUsed
  <2>3. /\ IsFiniteSet(QuotaUsed \cup {c})
        /\ Cardinality(QuotaUsed \cup {c}) \in {Cardinality(QuotaUsed), Cardinality(QuotaUsed) + 1}
    BY Zenon, <1>1, FS_AddElement
  <2>4. IsFiniteSet(QuotaUsed') /\ Cardinality(QuotaUsed') <= Cardinality(QuotaUsed \cup {c})
    BY Zenon, <2>2, <2>3, FS_Subset
  <2>5. Cardinality(QuotaUsed') \in Nat /\ Cardinality(QuotaUsed) \in Nat
    BY Zenon, <1>1, <2>4, FS_CardinalityType
  <2>6. Cardinality(QuotaUsed) < MaxConcurrentSessions
    BY Zenon, <1>3 DEF Reserve
  <2> QED
    BY <2>3, <2>4, <2>5, <2>6, SessionControlAssumption DEF QuotaRespected
<1>4. CASE rows' = rows
  BY Zenon, <1>2, <1>4 DEF QuotaShrinks
<1>5. CASE \E c \in Creator : Create(c)
  BY Zenon, <1>2, <1>3, <1>4, <1>5, HandleQuota DEF Create, Arrive, RefuseQuota, ReadExisting, Goto, store
<1> QED
  BY Zenon, <1>2, <1>4, <1>5, EnvironmentQuota DEF Next, vars, store

\* The quota holds for every number of concurrent create requests.
THEOREM Quota == Spec => []QuotaRespected
<1>1. Init => QuotaRespected
  <2> SUFFICES ASSUME Init PROVE QuotaRespected
    OBVIOUS
  <2>1. QuotaUsed = {}
    BY Zenon DEF Init, QuotaUsed, Absent, ActiveQuotaStatuses, PreActive
  <2> QED
    BY <2>1, FS_EmptySet, SessionControlAssumption DEF QuotaRespected
<1>2. TypeOK /\ HandlerKnowledge /\ QuotaRespected /\ [Next]_vars => QuotaRespected'
  BY Zenon, NextQuota
<1> QED
  BY <1>1, <1>2, Knowledge, PTL DEF Spec

-------------------------------------------------------------------------------
(* What a 201 stands for: a settled claim and an activated session.          *)

\* Every step keeps the references of all sessions.
LEMMA NextEvolves ==
    ASSUME TypeOK, TypeOK', HandlerKnowledge, Next
    PROVE  \A s \in Creator : Evolves(s)
<1>1. ASSUME NEW c \in Creator, Create(c)
      PROVE  \A s \in Creator : Evolves(s)
  BY Zenon, <1>1, CreateOwn, CreateLocal, LocalInterferes, InterferesEvolves DEF OwnStep
<1>2. CASE ~ \E c \in Creator : Create(c)
  <2>1. Gentle
    BY Zenon, <1>2, DeleteOwn, ReconcileOwn, ReleaseGentle DEF Next, ProviderExpires
  <2> QED
    BY Zenon, <2>1, InterferesEvolves DEF Gentle
<1> QED
  BY Zenon, <1>1, <1>2

\* No step changes an attempt that succeeded.
LEMMA AttemptsLast ==
    ASSUME TypeOK, Next, NEW s \in Creator, NEW n \in Attempt, attempts[s][n] = "succeeded"
    PROVE  attempts'[s][n] = "succeeded"
<1>1. CASE attempts' = attempts
  BY Zenon, <1>1
<1>2. ASSUME NEW c \in Creator, StartAttempt(c) \/ RecordFailure(c) \/ RecordSuccess(c)
      PROVE  attempts'[s][n] = "succeeded"
  <2>1. cn[c] \in Attempt /\ attempts[c][cn[c]] # "succeeded"
    BY Zenon, <1>2 DEF StartAttempt, RecordFailure, RecordSuccess, TypeOK
  <2>2. \E x \in AttemptStatus : attempts' = [attempts EXCEPT ![c][cn[c]] = x]
    BY Zenon, <1>2 DEF StartAttempt, RecordFailure, RecordSuccess, AttemptStatus
  <2>3. \A x \in Creator, m \in Attempt :
           (x = c => m # cn[c]) => attempts'[x][m] = attempts[x][m]
    BY <2>1, <2>2 DEF TypeOK
  <2> QED
    BY Zenon, <2>1, <2>3
<1>3. CASE \E c \in Creator : Create(c)
  <2> PICK c \in Creator : Create(c)
    BY Zenon, <1>3
  <2>1. attempts' = attempts \/ StartAttempt(c) \/ RecordFailure(c) \/ RecordSuccess(c)
    BY Zenon, SMTT(30)
     DEF Create, Arrive, Handle, Throw, Crash, Goto, store, Reserve, RefuseQuota, ReadExisting,
         WaitForCompletion, Deny, BeginRouting, Route, Allocate, BeginFallback, Activate,
         CompleteClaim, Respond, Recover, Mark, Cleanup, Finish, Catch, FailRow, Rollback,
         RollbackCleanup, RollbackFinish, FailClaim, Transit
  <2> QED
    BY Zenon, <1>1, <1>2, <2>1
<1>4. CASE ~ \E c \in Creator : Create(c)
  BY Zenon, <1>1, <1>4
     DEF Next, Delete, Find, RequestTermination, RevokeSession, ReleaseProvider,
         CompleteTermination, Recheck, RespondTermination, ThrowTermination, Reconcile,
         FindCandidate, Work, FailStale, FinalizeCreate, ExpireActive, TerminateProvider,
         CompleteReconciled, Skip, ProviderExpires, store
<1> QED
  BY Zenon, <1>3, <1>4

\* Only coordinator.complete with a success settles a claim as succeeded, and
\* no step changes a settled claim or frees a claim.
LEMMA ClaimsLast ==
    ASSUME TypeOK, HandlerKnowledge, Next, NEW k \in Key
    PROVE  /\ claims[k].state = "succeeded" => claims'[k] = claims[k]
           /\ claims[k].state = "failed" => claims'[k] = claims[k]
           /\ claims[k].state # "free" => claims'[k].state # "free"
           /\ claims'[k].state = "succeeded" =>
                 \/ claims[k].state = "succeeded"
                 \/ \E c \in Creator : CompleteClaim(c) /\ Owns(c) /\ key[c] = k
<1>0. claims[k] \in Claim
  BY Zenon DEF TypeOK
<1>1. CASE claims' = claims
  BY Zenon, <1>1
<1>2. ASSUME NEW c \in Creator, NEW j \in Key, NEW b \in Body, Reserve(c, j, b)
      PROVE  \/ claims'[k] = claims[k]
             \/ claims[k].state = "free" /\ claims'[k].state = "in_progress"
  <2>1. CASE j = k
    BY Zenon, <1>2, <2>1 DEF Reserve, TypeOK
  <2>2. CASE j # k
    BY Zenon, <1>2, <2>2 DEF Reserve, TypeOK
  <2> QED
    BY Zenon, <2>1, <2>2
<1>3. ASSUME NEW c \in Creator, CompleteClaim(c), Owns(c)
      PROVE  \/ claims'[k] = claims[k]
             \/ claims[k].state = "in_progress" /\ claims'[k].state = "succeeded" /\ key[c] = k
  <2>1. claims' = [claims EXCEPT ![key[c]].state = "succeeded"] /\ claims[key[c]].state = "in_progress"
    BY Zenon, <1>3 DEF CompleteClaim, Owns
  <2>2. CASE key[c] = k
    <3>1. claims'[k] = [claims[k] EXCEPT !.state = "succeeded"]
      BY Zenon, <2>1, <2>2 DEF TypeOK
    <3> QED
      BY Zenon, <1>0, <2>1, <2>2, <3>1 DEF Claim
  <2>3. CASE key[c] # k
    BY Zenon, <2>1, <2>3 DEF TypeOK
  <2> QED
    BY Zenon, <2>2, <2>3
<1>4. ASSUME NEW c \in Creator, FailClaim(c), Owns(c)
      PROVE  \/ claims'[k] = claims[k]
             \/ claims[k].state = "in_progress" /\ claims'[k].state = "failed"
  <2>1. /\ claims' = [claims EXCEPT ![key[c]].state = "failed"] /\ key[c] \in Key
        /\ claims[key[c]].state = "in_progress"
    BY Zenon, <1>4 DEF FailClaim, Owns, HandlerKnowledge, ClaimInv, CreateWork
  <2>2. CASE key[c] = k
    <3>1. claims'[k] = [claims[k] EXCEPT !.state = "failed"]
      BY Zenon, <2>1, <2>2 DEF TypeOK
    <3> QED
      BY Zenon, <1>0, <2>1, <2>2, <3>1 DEF Claim
  <2>3. CASE key[c] # k
    BY Zenon, <2>1, <2>3 DEF TypeOK
  <2> QED
    BY Zenon, <2>2, <2>3
<1>5. ASSUME NEW r \in Reconciler, FinalizeCreate(r)
      PROVE  \/ claims'[k] = claims[k]
             \/ claims[k].state = "in_progress" /\ claims'[k].state = "failed"
  <2>1. claims'[k] = IF claims[k].owner = rtgt[r] /\ claims[k].state = "in_progress"
                     THEN [claims[k] EXCEPT !.state = "failed"] ELSE claims[k]
    BY Zenon, <1>5 DEF FinalizeCreate
  <2>2. [claims[k] EXCEPT !.state = "failed"].state = "failed"
    BY Zenon, <1>0 DEF Claim
  <2> QED
    BY Zenon, <2>1, <2>2
<1>6. CASE \E c \in Creator : Arrive(c)
  BY Zenon, <1>1, <1>2, <1>6 DEF Arrive, RefuseQuota, ReadExisting, Goto, store
<1>7. CASE \E c \in Creator : Handle(c) \/ Throw(c) \/ Crash(c)
  <2> PICK c \in Creator : Handle(c) \/ Throw(c) \/ Crash(c)
    BY Zenon, <1>7
  <2>1. CASE CompleteClaim(c)
    BY Zenon, <1>1, <1>3, <2>1 DEF CompleteClaim
  <2>2. CASE FailClaim(c)
    BY Zenon, <1>1, <1>4, <2>2 DEF FailClaim
  <2> QED
    BY <1>1, <2>1, <2>2
       DEF Handle, Throw, Crash, Goto, store, WaitForCompletion, Deny, BeginRouting, Route,
           StartAttempt, Allocate, RecordFailure, BeginFallback, Activate, RecordSuccess, Respond,
           Recover, Mark, Cleanup, Finish, Catch, FailRow, Rollback, RollbackCleanup,
           RollbackFinish, Transit
<1>8. CASE ~ \E c \in Creator : Create(c)
  BY Zenon, <1>1, <1>5, <1>8
     DEF Next, Delete, Find, RequestTermination, RevokeSession, ReleaseProvider,
         CompleteTermination, Recheck, RespondTermination, ThrowTermination, Reconcile,
         FindCandidate, Work, FailStale, ExpireActive, TerminateProvider,
         CompleteReconciled, Skip, ProviderExpires, store
<1> QED
  BY Zenon, <1>6, <1>7, <1>8 DEF Create

\* A key in use is answered in one of three ways.
LEMMA ReplayOutcome ==
    ASSUME TypeOK, NEW k \in Key, claims[k].state # "free"
    PROVE  Replay(k) \in {"waiting", "failed", "created"}
<1>1. claims[k].state \in {"in_progress", "failed", "succeeded"}
  BY Zenon DEF TypeOK, Claim
<1> QED
  BY Zenon, <1>1 DEF Replay

\* A step that is not of create request c leaves it where it is.
LEMMA OthersAnswer ==
    ASSUME TypeOK, Next, NEW c \in Creator, ~ Create(c)
    PROVE  cpc'[c] = cpc[c] /\ key'[c] = key[c]
<1>1. ASSUME NEW x \in Creator \ {c}, Create(x)
      PROVE  cpc'[c] = cpc[c] /\ key'[c] = key[c]
  <2>1. cpc'[c] = cpc[c]
    BY Zenon, <1>1, CreateLocal DEF Local, Alone
  <2>2. key'[c] = key[c]
    <3>1. CASE Handle(x) \/ Throw(x) \/ Crash(x)
      BY Zenon, <3>1, HandlePositions
    <3>2. CASE Arrive(x)
      BY Zenon, <3>2 DEF Arrive, Reserve, RefuseQuota, ReadExisting, TypeOK
    <3> QED
      BY Zenon, <1>1, <3>1, <3>2 DEF Create
  <2> QED
    BY Zenon, <2>1, <2>2
<1>2. CASE ~ \E x \in Creator : Create(x)
  BY Zenon, <1>2
     DEF Next, Delete, Find, RequestTermination, RevokeSession, ReleaseProvider,
         CompleteTermination, Recheck, RespondTermination, ThrowTermination, Reconcile,
         FindCandidate, Work, FailStale, FinalizeCreate, ExpireActive, TerminateProvider,
         CompleteReconciled, Skip, ProviderExpires, cvars, store
<1> QED
  BY Zenon, <1>1, <1>2

\* A request answers 201, or is about to, on a claim settled as succeeded.
LEMMA AnswersLast ==
    ASSUME TypeOK, TypeOK', HandlerKnowledge, SettledInv, Next,
           NEW c \in Creator, cpc'[c] \in {"respond", "created"}
    PROVE  claims'[key'[c]].state = "succeeded"
<1>1. CASE cpc'[c] = cpc[c] /\ key'[c] = key[c]
  <2>1. key[c] \in Key /\ claims[key[c]].state = "succeeded"
    BY Zenon, <1>1 DEF HandlerKnowledge, ClaimInv, SettledInv, CreateWork
  <2> QED
    BY Zenon, <1>1, <2>1, ClaimsLast
<1>2. ASSUME NEW k \in Key, claims[k].state # "free", Replay(k) = "created"
      PROVE  claims[k].state = "succeeded"
  <2>1. claims[k].state \in {"in_progress", "failed", "succeeded"}
    BY Zenon, <1>2 DEF TypeOK, Claim
  <2> QED
    BY Zenon, <1>2, <2>1 DEF Replay
<1>3. CASE Arrive(c)
  <2> PICK k \in Key, b \in Body :
          Reserve(c, k, b) \/ RefuseQuota(c, k, b) \/ ReadExisting(c, k, b)
    BY Zenon, <1>3 DEF Arrive
  <2>1. ~ (Reserve(c, k, b) \/ RefuseQuota(c, k, b))
    BY Zenon DEF Reserve, RefuseQuota, Goto, TypeOK
  <2>2. /\ claims[k].state # "free" /\ claims' = claims /\ key'[c] = k
        /\ cpc'[c] = IF body[claims[k].owner] = b THEN Replay(k) ELSE "refused"
    BY Zenon, <2>1 DEF ReadExisting, Goto, store, TypeOK
  <2>3. Replay(k) = "created"
    BY Zenon, <2>2, ReplayOutcome
  <2> QED
    BY Zenon, <1>2, <2>2, <2>3
<1>4. CASE Handle(c) \/ Throw(c) \/ Crash(c)
  <2>1. key' = key
    BY Zenon, <1>4, HandlePositions
  <2>2. CASE WaitForCompletion(c)
    <3>1. /\ key[c] \in Key /\ claims[key[c]].state # "free" /\ claims' = claims
          /\ cpc'[c] = IF Replay(key[c]) = "waiting" THEN "unavailable" ELSE Replay(key[c])
      BY Zenon, <2>2 DEF WaitForCompletion, Goto, store, HandlerKnowledge, ClaimInv, TypeOK
    <3>2. Replay(key[c]) = "created"
      BY Zenon, <3>1, ReplayOutcome
    <3> QED
      BY Zenon, <1>2, <2>1, <3>1, <3>2
  <2>3. CASE CompleteClaim(c)
    <3>1. Owns(c) /\ key[c] \in Key
      BY Zenon, <2>3 DEF CompleteClaim, HandlerKnowledge, ClaimInv, CreateWork, TypeOK
    <3> QED
      BY <2>1, <2>3, <3>1 DEF CompleteClaim, TypeOK, Claim
  <2>4. CASE Respond(c)
    <3>1. claims' = claims /\ cpc[c] = "respond"
      BY Zenon, <2>4 DEF Respond, Goto, store
    <3> QED
      BY Zenon, <2>1, <3>1 DEF SettledInv
  <2>5. ~ (Throw(c) \/ Crash(c))
    <3>1. OnThrow(cpc[c]) \cap {"respond", "created"} = {}
      BY Zenon DEF OnThrow
    <3> QED
      BY Zenon, <3>1 DEF Throw, Crash, TypeOK
  <2>6. \/ WaitForCompletion(c) \/ CompleteClaim(c) \/ Respond(c)
    BY <1>4, <2>5
       DEF Handle, Goto, Deny, BeginRouting, Route, StartAttempt, Allocate, RecordFailure,
           BeginFallback, Activate, RecordSuccess, Recover, Mark, Cleanup, Finish, Catch, FailRow,
           Rollback, RollbackCleanup, RollbackFinish, FailClaim, Transit, TypeOK
  <2> QED
    BY Zenon, <2>2, <2>3, <2>4, <2>6
<1>5. CASE ~ Create(c)
  <2>1. cpc'[c] = cpc[c] /\ key'[c] = key[c]
    BY Zenon, <1>5, OthersAnswer
  <2> QED
    BY Zenon, <1>1, <2>1
<1> QED
  BY Zenon, <1>3, <1>4, <1>5 DEF Create

\* Every step keeps what the settled claims stand for.
LEMMA NextSettled ==
    ASSUME TypeOK, TypeOK', HandlerKnowledge, SettledInv, Next
    PROVE  SettledInv'
<1>1. ASSUME NEW k \in Key, claims'[k].state = "succeeded"
      PROVE  LET s == claims'[k].owner
             IN  rows'[s].ref # None /\ attempts'[s][rows'[s].ref] = "succeeded"
  <2>1. CASE claims[k].state = "succeeded"
    <3> DEFINE s == claims[k].owner
    <3>1. /\ claims'[k] = claims[k] /\ s \in Creator /\ rows[s].status # "absent"
          /\ rows[s].ref # None /\ attempts[s][rows[s].ref] = "succeeded"
      BY Zenon, <2>1, ClaimsLast DEF HandlerKnowledge, ClaimInv, SettledInv
    <3>2. rows[s].ref \in Attempt
      BY <3>1 DEF TypeOK, Session
    <3>3. rows'[s].ref = rows[s].ref
      BY Zenon, <3>1, NextEvolves DEF Evolves, RowMoves
    <3>4. attempts'[s][rows[s].ref] = "succeeded"
      BY Zenon, <3>1, <3>2, AttemptsLast
    <3> QED
      BY Zenon, <3>1, <3>3, <3>4
  <2>2. ASSUME NEW c \in Creator, CompleteClaim(c), Owns(c), key[c] = k
        PROVE  LET s == claims'[k].owner
               IN  rows'[s].ref # None /\ attempts'[s][rows'[s].ref] = "succeeded"
    <3>1. /\ claims[k].owner = c /\ rows' = rows /\ attempts' = attempts
          /\ claims' = [claims EXCEPT ![k].state = "succeeded"]
      BY Zenon, <2>2 DEF CompleteClaim, Owns
    <3>2. claims'[k].owner = c
      BY <3>1 DEF TypeOK, Claim
    <3>3. cn[c] \in Attempt /\ rows[c].ref = cn[c] /\ attempts[c][cn[c]] = "succeeded"
      BY <2>2 DEF CompleteClaim, HandlerKnowledge, CreateInv, TypeOK
    <3> QED
      BY Zenon, <3>1, <3>2, <3>3 DEF Attempt, None
  <2> QED
    BY Zenon, <1>1, <2>1, <2>2, ClaimsLast
<1>2. \A c \in Creator : cpc'[c] \in {"respond", "created"} => claims'[key'[c]].state = "succeeded"
  BY Zenon, AnswersLast
<1> QED
  BY Zenon, <1>1, <1>2 DEF SettledInv

\* No claim is settled at first.
LEMMA InitSettled == Init => SettledInv
BY DEF Init, SettledInv

\* A 201, given by the owner of a claim or replayed to a retry, stands for a
\* claim settled as succeeded whose session was activated by an allocation
\* recorded as successful, whatever a concurrent DELETE, the reconciler or a
\* crash do in between.
THEOREM Durable == Spec => []CreatedIsDurable
<1>1. Init => SettledInv
  BY Zenon, InitSettled
<1>2. /\ TypeOK /\ TypeOK' /\ HandlerKnowledge /\ SettledInv /\ [Next]_vars
      => SettledInv'
  <2>1. ASSUME UNCHANGED vars, SettledInv PROVE SettledInv'
    BY Zenon, <2>1 DEF vars, store, cvars, SettledInv
  <2> QED
    BY Zenon, <2>1, NextSettled
<1>3. TypeOK /\ HandlerKnowledge /\ SettledInv => CreatedIsDurable
  <2> SUFFICES ASSUME TypeOK, HandlerKnowledge, SettledInv, NEW c \in Creator, cpc[c] = "created"
               PROVE  LET claim == claims[key[c]]
                          row   == rows[claim.owner]
                      IN  /\ claim.state = "succeeded"
                          /\ row.status \in ActiveLifecycle
                          /\ attempts[claim.owner][row.ref] = "succeeded"
    BY Zenon DEF CreatedIsDurable
  <2>1. key[c] \in Key /\ claims[key[c]].state = "succeeded"
    BY Zenon DEF HandlerKnowledge, ClaimInv, SettledInv
  <2> DEFINE s == claims[key[c]].owner
  <2>2. /\ s \in Creator /\ RowInv(s) /\ rows[s].ref # None
        /\ attempts[s][rows[s].ref] = "succeeded"
    BY Zenon, <2>1 DEF HandlerKnowledge, ClaimInv, SettledInv
  <2>3. rows[s].status \in ActiveLifecycle
    BY Zenon, <2>2 DEF RowInv, TypeOK, Session, SessionStatuses, ActiveQuotaStatuses, Terminal,
                PreActive, ActiveLifecycle
  <2> QED
    BY Zenon, <2>1, <2>2, <2>3
<1> QED
  BY <1>1, <1>2, <1>3, Knowledge, PTL DEF Spec

-------------------------------------------------------------------------------
(* The refinement of SessionPromise                                          *)

PromiseStep == [Promise!Next]_<<Phases, Bindings, Browsers>>

\* The phases of the statuses.
LEMMA PhaseTable ==
    /\ Phase("absent") = "absent" /\ \A st \in PreActive : Phase(st) = "opening"
    /\ Phase("active") = "live" /\ Phase("terminating") = "closing"
    /\ Phase("terminated") = "closed" /\ Phase("failed") = "failed"
BY Zenon DEF Phase, PreActive

\* A step that concerns one session leaves the abstract life of the others alone.
LEMMA OneSession ==
    ASSUME NEW s \in Creator,
           \A x \in Creator \ {s} : rows'[x] = rows[x] /\ provider'[x] = provider[x]
    PROVE  /\ Phases' = [Phases EXCEPT ![s] = Phase(rows'[s].status)]
           /\ Bindings' = [Bindings EXCEPT ![s] = rows'[s].ref]
           /\ Browsers' = [Browsers EXCEPT ![s] = Browser(s)']
<1>1. \A x \in Creator \ {s} : Browser(x)' = Browser(x)
  BY Zenon DEF Browser
<1> QED
  BY Zenon, <1>1 DEF Phases, Bindings, Browsers

\* A step that no session shows is no step of SessionPromise.
LEMMA NoPromise ==
    ASSUME NEW s \in Creator,
           \A x \in Creator \ {s} : rows'[x] = rows[x] /\ provider'[x] = provider[x],
           Phase(rows'[s].status) = Phase(rows[s].status), rows'[s].ref = rows[s].ref,
           Browser(s)' = Browser(s)
    PROVE  PromiseStep
<1>1. \A x \in Creator \ {s} : Browser(x)' = Browser(x)
  BY Zenon DEF Browser
<1>2. Phases' = Phases /\ Bindings' = Bindings /\ Browsers' = Browsers
  BY Zenon, <1>1 DEF Phases, Bindings, Browsers
<1> QED
  BY Zenon, <1>2 DEF PromiseStep

\* The reservation of a session opens it.
LEMMA ReservePromise ==
    ASSUME TypeOK, HandlerKnowledge, NEW c \in Creator, NEW k \in Key, NEW b \in Body,
           Reserve(c, k, b)
    PROVE  PromiseStep
<1>1. rows[c].status = "absent" /\ rows[c].ref = None
  BY Zenon DEF Reserve, HandlerKnowledge, CreateInv, RowInv
<1>2. /\ rows'[c] = Initial /\ provider' = provider
      /\ \A x \in Creator \ {c} : rows'[x] = rows[x] /\ provider'[x] = provider[x]
  BY Zenon DEF Reserve, TypeOK
<1>3. Initial.status = "pending" /\ Initial.ref = None
  BY DEF Initial, Absent
<1>4. "pending" \in PreActive
  BY DEF PreActive
<1>5. /\ Phases' = [Phases EXCEPT ![c] = "opening"] /\ Phases[c] = "absent"
      /\ Bindings' = [Bindings EXCEPT ![c] = None] /\ Bindings[c] = None
      /\ Browsers' = [Browsers EXCEPT ![c] = "none"] /\ Browsers[c] = "none"
  <2>1. Browser(c) = "none" /\ Browser(c)' = "none"
    BY Zenon, <1>1, <1>2, <1>3 DEF Browser
  <2>2. Phase(rows'[c].status) = "opening" /\ Phase(rows[c].status) = "absent" /\ rows'[c].ref = None
    BY Zenon, <1>1, <1>2, <1>3, <1>4, PhaseTable
  <2>3. Phases[c] = "absent" /\ Bindings[c] = None /\ Browsers[c] = "none"
    BY Zenon, <1>1, <2>1, <2>2 DEF Phases, Bindings, Browsers
  <2>4. /\ Phases' = [Phases EXCEPT ![c] = "opening"] /\ Bindings' = [Bindings EXCEPT ![c] = None]
        /\ Browsers' = [Browsers EXCEPT ![c] = "none"]
    BY Zenon, <1>2, <2>1, <2>2, OneSession
  <2> QED
    BY Zenon, <2>3, <2>4
<1>6. Bindings' = Bindings /\ Browsers' = Browsers
  BY Zenon, <1>5 DEF Bindings, Browsers
<1>7. Promise!Open(c)
  BY Zenon, <1>5, <1>6 DEF Promise!Open, Promise!Move
<1> QED
  BY Zenon, <1>7 DEF PromiseStep, Promise!Next

\* A compare-and-set moves the abstract session: it stays where it is, is bound,
\* fails before it is bound, closes, or ends with its browser released.
LEMMA CommitPromise ==
    ASSUME TypeOK, TypeOK', HandlerKnowledge, HandlerKnowledge', NEW s \in Creator, Evolves(s),
           NEW e \in Events, rows[s].status \in Sources(e), rows'[s].status = Target(e),
           \A x \in Creator \ {s} : rows'[x] = rows[x], provider' = provider
    PROVE  PromiseStep
<1>1. RowInv(s) /\ RowInv(s)'
  BY Zenon DEF HandlerKnowledge
<1>2. \A x \in Creator \ {s} : rows'[x] = rows[x] /\ provider'[x] = provider[x]
  BY Zenon
<1>3. /\ Phases' = [Phases EXCEPT ![s] = Phase(rows'[s].status)]
      /\ Bindings' = [Bindings EXCEPT ![s] = rows'[s].ref]
      /\ Browsers' = [Browsers EXCEPT ![s] = Browser(s)']
  BY Zenon, <1>2, OneSession
<1>4. Phases[s] = Phase(rows[s].status) /\ Bindings[s] = rows[s].ref /\ Browsers[s] = Browser(s)
  BY Zenon DEF Phases, Bindings, Browsers
<1>5. rows[s].status # "absent" => (rows[s].ref # None => rows'[s].ref = rows[s].ref)
  BY Zenon DEF Evolves, RowMoves
<1>6. rows[s].status \in PreActive => rows[s].ref = None
  BY Zenon, <1>1 DEF RowInv
<1>7. rows'[s].status \in PreActive \cup {"failed"} => rows'[s].ref = None
  BY Zenon, <1>1 DEF RowInv
<1>8. None \notin Attempt
  BY DEF None, Attempt
<1>9. /\ rows[s].status \in {"active", "terminating"} => rows[s].ref # None
      /\ rows'[s].status \in {"active", "terminating", "terminated"} => rows'[s].ref \in Attempt
  BY Zenon, <1>1, <1>8 DEF RowInv
<1>10. ASSUME rows'[s].ref = rows[s].ref
       PROVE  /\ Bindings' = Bindings /\ Browsers' = Browsers
  <2>1. Browser(s)' = Browser(s)
    BY Zenon, <1>10 DEF Browser
  <2> QED
    BY Zenon, <1>2, <1>10, <2>1, OneSession DEF Bindings, Browsers
<1>11. CASE rows[s].status \in PreActive /\ rows'[s].status \in PreActive
  <2>1. rows'[s].ref = rows[s].ref /\ Phase(rows'[s].status) = Phase(rows[s].status)
    BY Zenon, <1>6, <1>7, <1>11, PhaseTable
  <2>2. Browser(s)' = Browser(s)
    BY Zenon, <2>1 DEF Browser
  <2> QED
    BY Zenon, <1>2, <2>1, <2>2, NoPromise
<1>12. CASE rows[s].status \in PreActive /\ rows'[s].status \in {"active", "terminating"}
  <2>1. Phases[s] = "opening" /\ Phase(rows'[s].status) \in {"live", "closing"}
    BY Zenon, <1>4, <1>12, PhaseTable
  <2>2. rows'[s].ref \in Attempt /\ Browser(s)' \in {"held", "released"}
    <3>1. rows'[s].ref \in Attempt /\ rows'[s].ref # None
      BY Zenon, <1>8, <1>9, <1>12
    <3> QED
      BY Zenon, <3>1 DEF Browser
  <2>3. Promise!Bind(s)
    BY Zenon, <1>3, <2>1, <2>2 DEF Promise!Bind, Promise!Move
  <2> QED
    BY Zenon, <2>3 DEF PromiseStep, Promise!Next
<1>13. CASE rows[s].status \in PreActive /\ rows'[s].status = "failed"
  <2>1. Phases[s] = "opening" /\ Phase(rows'[s].status) = "failed" /\ rows'[s].ref = rows[s].ref
    BY Zenon, <1>4, <1>6, <1>7, <1>13, PhaseTable
  <2>2. Promise!Fail(s)
    BY Zenon, <1>3, <1>10, <2>1 DEF Promise!Fail, Promise!Move
  <2> QED
    BY Zenon, <2>2 DEF PromiseStep, Promise!Next
<1>14. CASE rows[s].status = "active" /\ rows'[s].status = "terminating"
  <2>1. Phases[s] = "live" /\ Phase(rows'[s].status) = "closing" /\ rows'[s].ref = rows[s].ref
    BY Zenon, <1>4, <1>5, <1>9, <1>14, PhaseTable
  <2>2. Promise!Close(s)
    BY Zenon, <1>3, <1>10, <2>1 DEF Promise!Close, Promise!Move
  <2> QED
    BY Zenon, <2>2 DEF PromiseStep, Promise!Next
<1>15. CASE rows[s].status = "terminating" /\ rows'[s].status = "terminated"
  <2>1. Phases[s] = "closing" /\ Phase(rows'[s].status) = "closed" /\ rows'[s].ref = rows[s].ref
    BY Zenon, <1>4, <1>5, <1>9, <1>15, PhaseTable
  <2>2. provider[s][rows[s].ref] = "gone" /\ rows[s].ref # None
    BY Zenon, <1>1, <1>9, <1>15, <2>1 DEF RowInv
  <2>3. Browsers[s] = "released"
    BY Zenon, <1>4, <2>2 DEF Browser
  <2>4. Promise!End(s)
    BY Zenon, <1>3, <1>10, <2>1, <2>3 DEF Promise!End, Promise!Move
  <2> QED
    BY Zenon, <2>4 DEF PromiseStep, Promise!Next
<1>16. \/ rows[s].status \in PreActive /\ rows'[s].status \in PreActive
       \/ rows[s].status \in PreActive /\ rows'[s].status \in {"active", "terminating"}
       \/ rows[s].status \in PreActive /\ rows'[s].status = "failed"
       \/ rows[s].status = "active" /\ rows'[s].status = "terminating"
       \/ rows[s].status = "terminating" /\ rows'[s].status = "terminated"
  <2>1. e # "expire"
    BY Zenon, <1>1 DEF RowInv, Target
  <2>2. CASE e = "fail"
    <3>1. rows[s].status \in ActiveQuotaStatuses /\ rows'[s].status = "failed"
      BY Zenon, <2>2, EventTable
    <3>2. rows[s].status \notin {"active", "terminating"}
      BY Zenon, <1>5, <1>7, <1>9, <3>1
    <3> QED
      BY Zenon, <3>1, <3>2 DEF ActiveQuotaStatuses
  <2>3. CASE e \in {"begin_routing", "begin_allocation", "begin_fallback_allocation"}
    BY Zenon, <2>3, EventTable DEF PreActive
  <2>4. CASE e \in {"activate", "retain_for_cleanup"}
    BY Zenon, <2>4, EventTable DEF PreActive
  <2>5. CASE e \in {"request_termination", "complete_termination"}
    BY Zenon, <2>5, EventTable
  <2> QED
    BY Zenon, <2>1, <2>2, <2>3, <2>4, <2>5 DEF Events
<1> QED
  BY Zenon, <1>11, <1>12, <1>13, <1>14, <1>15, <1>16

\* The end of a browser releases the session bound to it, or concerns none.
LEMMA ReleasePromise ==
    ASSUME TypeOK, HandlerKnowledge, NEW s \in Creator, NEW n \in Attempt, Terminate(s, n),
           rows' = rows
    PROVE  PromiseStep
<1>1. /\ provider'[s][n] = "gone" /\ \A m \in Attempt \ {n} : provider'[s][m] = provider[s][m]
      /\ \A x \in Creator \ {s} : rows'[x] = rows[x] /\ provider'[x] = provider[x]
  BY Zenon DEF Terminate, TypeOK
<1>2. n # None /\ rows[s].ref \in Attempt \cup {None}
  BY DEF None, Attempt, TypeOK, Session
<1>3. CASE rows[s].ref = n /\ provider[s][n] # "gone"
  <2>1. Browser(s) = "held" /\ Browser(s)' = "released"
    BY Zenon, <1>1, <1>2, <1>3 DEF Browser
  <2>2. Browsers[s] = "held" /\ Browsers' = [Browsers EXCEPT ![s] = "released"]
    BY Zenon, <1>1, <2>1, OneSession DEF Browsers
  <2>3. Phases' = Phases /\ Bindings' = Bindings
    BY Zenon DEF Phases, Bindings
  <2>4. Promise!Release(s)
    BY Zenon, <2>2, <2>3 DEF Promise!Release
  <2> QED
    BY Zenon, <2>4 DEF PromiseStep, Promise!Next
<1>4. CASE ~ (rows[s].ref = n /\ provider[s][n] # "gone")
  <2>1. Browser(s)' = Browser(s)
    <3>1. CASE rows[s].ref = None
      BY Zenon, <3>1 DEF Browser
    <3>2. CASE rows[s].ref \in Attempt
      <4>1. provider'[s][rows[s].ref] = provider[s][rows[s].ref]
        BY Zenon, <1>1, <1>4, <3>2
      <4> QED
        BY Zenon, <4>1 DEF Browser
    <3> QED
      BY Zenon, <1>2, <3>1, <3>2
  <2> QED
    BY Zenon, <1>1, <2>1, NoPromise
<1> QED
  BY Zenon, <1>3, <1>4

\* A browser is created for a session that is bound to none yet.
LEMMA AllocatePromise ==
    ASSUME TypeOK, HandlerKnowledge, NEW c \in Creator, Allocate(c)
    PROVE  PromiseStep
<1>1. rows[c].ref = None
  BY Zenon DEF Allocate, HandlerKnowledge, CreateInv, Early
<1>2. /\ rows' = rows
      /\ \A x \in Creator \ {c} : rows'[x] = rows[x] /\ provider'[x] = provider[x]
  BY Zenon DEF Allocate, TypeOK
<1>3. Browser(c)' = Browser(c)
  BY Zenon, <1>1, <1>2 DEF Browser
<1> QED
  BY Zenon, <1>2, <1>3, NoPromise

\* What a step may do to rows and browsers: one row takes an event of E, or one
\* browser ends.
Commits(s, E) ==
    /\ \E e \in E : rows[s].status \in Sources(e) /\ rows'[s].status = Target(e)
    /\ \A x \in Creator \ {s} : rows'[x] = rows[x]
    /\ provider' = provider

Releases(s) == rows' = rows /\ \E n \in Attempt : Terminate(s, n)

Shows(E) ==
    (rows' = rows /\ provider' = provider) \/ \E s \in Creator : Commits(s, E) \/ Releases(s)

\* The events of the other processes: they end sessions.
EndEvents == {"fail", "request_termination", "complete_termination"}

\* A compare-and-set is the event of one row.
LEMMA CommittedShows ==
    ASSUME TypeOK, NEW s \in Creator, NEW copy, NEW E, NEW e \in E, NEW n,
           Committed(s, copy, e, n), provider' = provider
    PROVE  Shows(E)
<1>1. rows[s].status \in Sources(e) /\ rows'[s] = Apply(rows[s], e, n)
      /\ \A x \in Creator \ {s} : rows'[x] = rows[x]
  BY Zenon DEF Committed, Accepts, TypeOK
<1>2. Apply(rows[s], e, n).status = Target(e)
  BY DEF Apply
<1> QED
  BY Zenon, <1>1, <1>2 DEF Shows, Commits

\* A transition of a create request commits or leaves the row.
LEMMA TransitShows ==
    ASSUME TypeOK, NEW c \in Creator, NEW from, NEW e \in Events, NEW n, NEW ok, NEW no,
           Transit(c, from, e, n, ok, no)
    PROVE  Shows(Events)
<1>1. provider' = provider
  BY Zenon DEF Transit
<1>2. CASE Committed(c, csess[c], e, n)
  BY Zenon, <1>1, <1>2, CommittedShows
<1>3. CASE rows' = rows
  BY Zenon, <1>1, <1>3 DEF Shows
<1> QED
  BY Zenon, <1>2, <1>3 DEF Transit, Refused

\* The handler of a create request, but for the allocation itself.
LEMMA HandleShows ==
    ASSUME TypeOK, HandlerKnowledge, NEW c \in Creator, Handle(c) \/ Throw(c) \/ Crash(c)
    PROVE  Shows(Events) \/ Allocate(c)
<1>1. CASE rows' = rows /\ provider' = provider
  BY Zenon, <1>1 DEF Shows
<1>2. CASE \/ BeginRouting(c) \/ Route(c) \/ BeginFallback(c) \/ Activate(c) \/ Finish(c)
           \/ FailRow(c) \/ RollbackFinish(c)
  BY Zenon, <1>2, TransitShows DEF BeginRouting, Route, BeginFallback, Activate, Finish, FailRow,
                            RollbackFinish, Events
<1>3. CASE Mark(c) \/ Rollback(c)
  BY Zenon, <1>1, <1>3, TransitShows DEF Mark, Rollback, Goto, store, Events
<1>4. CASE Cleanup(c)
  <2>1. cn[c] \in Attempt
    BY Zenon DEF TypeOK
  <2> QED
    BY Zenon, <1>1, <1>4, <2>1 DEF Cleanup, Shows, Releases
<1>5. CASE RollbackCleanup(c)
  <2>1. csess[c].ref = cn[c] /\ cn[c] \in Attempt
    <3>1. CreateInv(c) /\ cpc[c] = "rollbackCleanup" /\ cn[c] \in Attempt
      BY Zenon, <1>5 DEF RollbackCleanup, HandlerKnowledge, TypeOK
    <3>2. cpc[c] \in {"rollbackCleanup", "rollbackFinish"}
      BY Zenon, <3>1
    <3> QED
      BY Zenon, <3>1, <3>2 DEF CreateInv
  <2> QED
    BY Zenon, <1>1, <1>5, <2>1 DEF RollbackCleanup, Shows, Releases
<1> QED
  BY Zenon, <1>1, <1>2, <1>3, <1>4, <1>5
     DEF Handle, Throw, Crash, Goto, store, WaitForCompletion, Deny, StartAttempt,
         RecordFailure, RecordSuccess, CompleteClaim, Respond, Recover, Catch, FailClaim

\* Delete requests, the reconciler and the provider.
LEMMA EnvironmentShows ==
    ASSUME TypeOK, HandlerKnowledge,
           \/ \E t \in Terminator : Delete(t)
           \/ \E r \in Reconciler : Reconcile(r)
           \/ \E s \in Creator, n \in Attempt : ProviderExpires(s, n)
    PROVE  Shows(EndEvents)
<1>1. CASE rows' = rows /\ provider' = provider
  BY Zenon, <1>1 DEF Shows
<1>2. ASSUME NEW t \in Terminator, RequestTermination(t) \/ CompleteTermination(t)
      PROVE  Shows(EndEvents)
  <2>1. ttgt[t] \in Creator /\ provider' = provider
    BY Zenon, <1>2 DEF RequestTermination, CompleteTermination, HandlerKnowledge, DeleteInv, TerminateWork
  <2> QED
    BY Zenon, <1>1, <1>2, <2>1, CommittedShows
       DEF RequestTermination, CompleteTermination, Returned, Refused, EndEvents
<1>3. ASSUME NEW t \in Terminator, ReleaseProvider(t)
      PROVE  Shows(EndEvents)
  <2>1. ttgt[t] \in Creator /\ tsess[t].ref \in Attempt \cup {None} /\ rows' = rows
    BY Zenon, <1>3 DEF ReleaseProvider, HandlerKnowledge, DeleteInv, TerminateWork, TypeOK, Session
  <2> QED
    BY Zenon, <1>1, <1>3, <2>1 DEF ReleaseProvider, Shows, Releases
<1>4. ASSUME NEW r \in Reconciler, FailStale(r) \/ ExpireActive(r) \/ CompleteReconciled(r)
      PROVE  Shows(EndEvents)
  <2>1. rtgt[r] \in Creator /\ provider' = provider
    BY Zenon, <1>4 DEF FailStale, ExpireActive, CompleteReconciled, HandlerKnowledge, ReconcileInv
  <2> QED
    BY Zenon, <1>1, <1>4, <2>1, CommittedShows
       DEF FailStale, ExpireActive, CompleteReconciled, Returned, Refused, EndEvents
<1>5. ASSUME NEW r \in Reconciler, TerminateProvider(r)
      PROVE  Shows(EndEvents)
  <2>1. rtgt[r] \in Creator /\ rsess[r].ref \in Attempt /\ rows' = rows
    BY Zenon, <1>5 DEF TerminateProvider, HandlerKnowledge, ReconcileInv
  <2> QED
    BY Zenon, <1>5, <2>1 DEF TerminateProvider, Shows, Releases
<1>6. CASE \E s \in Creator, n \in Attempt : ProviderExpires(s, n)
  BY Zenon, <1>6 DEF ProviderExpires, Shows, Releases
<1> QED
  BY Zenon, <1>1, <1>2, <1>3, <1>4, <1>5, <1>6
     DEF Delete, Find, RevokeSession, Recheck, RespondTermination, ThrowTermination, Reconcile,
         FindCandidate, Work, FinalizeCreate, Skip, store

\* Every step of the control plane is a step of SessionPromise or leaves it alone.
LEMMA PromiseSteps ==
    ASSUME TypeOK, TypeOK', HandlerKnowledge, HandlerKnowledge', [Next]_vars
    PROVE  PromiseStep
<1>1. CASE rows' = rows /\ provider' = provider
  <2>1. \A s \in Creator : Browser(s)' = Browser(s)
    BY Zenon, <1>1 DEF Browser
  <2>2. Phases' = Phases /\ Bindings' = Bindings /\ Browsers' = Browsers
    BY Zenon, <1>1, <2>1 DEF Phases, Bindings, Browsers
  <2> QED
    BY Zenon, <2>2 DEF PromiseStep
<1>2. ASSUME Next, Shows(Events) PROVE PromiseStep
  <2>1. ASSUME NEW s \in Creator, Commits(s, Events) PROVE PromiseStep
    <3>1. Evolves(s)
      BY Zenon, <1>2, NextEvolves
    <3> QED
      BY Zenon, <2>1, <3>1, CommitPromise DEF Commits
  <2>2. ASSUME NEW s \in Creator, Releases(s) PROVE PromiseStep
    BY Zenon, <2>2, ReleasePromise DEF Releases
  <2> QED
    BY Zenon, <1>1, <1>2, <2>1, <2>2 DEF Shows
<1>3. ASSUME NEW c \in Creator, Create(c) PROVE PromiseStep
  <2>1. CASE Arrive(c)
    <3>1. PICK k \in Key, b \in Body :
             Reserve(c, k, b) \/ RefuseQuota(c, k, b) \/ ReadExisting(c, k, b)
      BY Zenon, <2>1 DEF Arrive
    <3>2. CASE Reserve(c, k, b)
      BY Zenon, <3>2, ReservePromise
    <3> QED
      BY Zenon, <1>1, <3>1, <3>2 DEF RefuseQuota, ReadExisting, Goto, store
  <2>2. CASE Handle(c) \/ Throw(c) \/ Crash(c)
    <3>1. Next
      BY Zenon, <1>3 DEF Next
    <3>2. Shows(Events) \/ Allocate(c)
      BY Zenon, <2>2, HandleShows
    <3> QED
      BY Zenon, <1>2, <3>1, <3>2, AllocatePromise
  <2> QED
    BY Zenon, <1>3, <2>1, <2>2 DEF Create
<1>4. CASE UNCHANGED vars
  BY Zenon, <1>1, <1>4 DEF vars, store
<1>5. CASE Next
  <2>1. Shows(EndEvents) => Shows(Events)
    BY Zenon DEF Shows, Commits, EndEvents, Events
  <2> QED
    BY Zenon, <1>2, <1>3, <1>5, <2>1, EnvironmentShows DEF Next
<1> QED
  BY Zenon, <1>4, <1>5

\* Create handlers, delete requests, reconciler and provider together keep the
\* promise: a session is bound once and never rebound, fails only before it is
\* bound, and is closed only after its browser was released.
THEOREM PromiseIsKept == Spec => PromiseKept
<1>1. Init => Promise!Init
  <2> SUFFICES ASSUME Init PROVE Promise!Init
    BY Zenon
  <2>1. Absent.status = "absent" /\ Absent.ref = None
    BY DEF Absent
  <2>2. \A s \in Creator : rows[s].status = "absent" /\ rows[s].ref = None
    BY Zenon, <2>1 DEF Init
  <2>3. \A s \in Creator : Browser(s) = "none"
    BY Zenon, <2>2 DEF Browser
  <2> QED
    BY Zenon, <2>2, <2>3, PhaseTable DEF Promise!Init, Phases, Bindings, Browsers
<1>2. /\ TypeOK /\ TypeOK' /\ HandlerKnowledge /\ HandlerKnowledge' /\ [Next]_vars
      => [Promise!Next]_<<Phases, Bindings, Browsers>>
  BY Zenon, PromiseSteps DEF PromiseStep
<1> QED
  BY <1>1, <1>2, Knowledge, PTL DEF Spec, PromiseKept, Promise!Spec, Promise!vars

-------------------------------------------------------------------------------
(* While nothing failed, a create that gives up leaves nothing behind.       *)

\* Where other processes may take a session.
LEMMA LaterTable ==
    /\ \A st \in PreActive : Later(st) = {"failed"}
    /\ Later("active") = {"terminating", "terminated"} /\ Later("terminating") = {"terminated"}
    /\ Later("terminated") = {} /\ Later("failed") = {}
BY Zenon DEF Later, PreActive

\* What a process other than create request c does to the row of c.
LEMMA OthersRow ==
    ASSUME TypeOK, TypeOK', HandlerKnowledge, Next, NEW c \in Creator, ~ Create(c)
    PROVE  /\ Interferes(c) /\ key'[c] = key[c]
           /\ \/ rows'[c] = rows[c]
              \/ \E e \in EndEvents : rows[c].status \in Sources(e) /\ rows'[c].status = Target(e)
<1>1. ASSUME NEW x \in Creator, Create(x)
      PROVE  Interferes(c) /\ rows'[c] = rows[c]
  <2>1. c \in Creator \ {x} /\ Local(x)
    BY Zenon, <1>1, CreateLocal
  <2> QED
    BY Zenon, <2>1, LocalInterferes DEF Local, Alone
<1>2. CASE ~ \E x \in Creator : Create(x)
  <2>1. Interferes(c)
    BY Zenon, <1>2, DeleteOwn, ReconcileOwn, ReleaseGentle DEF Next, ProviderExpires, Gentle
  <2>2. Shows(EndEvents)
    BY Zenon, <1>2, EnvironmentShows DEF Next
  <2>3. \/ rows'[c] = rows[c]
        \/ \E e \in EndEvents : rows[c].status \in Sources(e) /\ rows'[c].status = Target(e)
    BY Zenon, <2>2 DEF Shows, Commits, Releases
  <2> QED
    BY Zenon, <2>1, <2>3, OthersAnswer
<1> QED
  BY Zenon, <1>1, <1>2, OthersAnswer

\* The other processes do not disturb a create request that has given up.
LEMMA OthersTidy ==
    ASSUME TypeOK, TypeOK', HandlerKnowledge, HandlerKnowledge', Next,
           NEW c \in Creator, ~ Create(c), Tidy(c)
    PROVE  Tidy(c)'
<1>1. /\ Interferes(c) /\ key'[c] = key[c]
      /\ \/ rows'[c] = rows[c]
         \/ \E e \in EndEvents : rows[c].status \in Sources(e) /\ rows'[c].status = Target(e)
  BY Zenon, OthersRow
<1>2. /\ rows'[c].ref = rows[c].ref /\ cpc'[c] = cpc[c] /\ csess'[c] = csess[c] /\ cn'[c] = cn[c]
      /\ rows'[c].status = "absent" <=> rows[c].status = "absent"
      /\ provider[c][cn[c]] # "live" => provider'[c][cn[c]] # "live"
  <2>1. cn[c] \in Attempt
    BY Zenon DEF TypeOK
  <2> QED
    BY Zenon, <1>1, <2>1 DEF Interferes, RowMoves
<1>3. \/ rows'[c] = rows[c]
      \/ rows[c].status \in PreActive /\ rows'[c].status = "failed"
      \/ rows[c].status = "active" /\ rows'[c].status = "terminating"
      \/ rows[c].status = "terminating" /\ rows'[c].status = "terminated"
  <2>1. ASSUME rows[c].status \in ActiveQuotaStatuses, rows'[c].status = "failed"
        PROVE  rows[c].status \in PreActive
    <3>1. RowInv(c) /\ RowInv(c)'
      BY Zenon DEF HandlerKnowledge
    <3>2. rows'[c].ref = None /\ None \notin Attempt
      BY Zenon, <2>1, <3>1 DEF RowInv, None, Attempt
    <3>3. rows[c].status \notin {"active", "terminating"}
      BY Zenon, <1>2, <3>1, <3>2 DEF RowInv
    <3> QED
      BY Zenon, <2>1, <3>3 DEF ActiveQuotaStatuses
  <2>2. ASSUME NEW e \in EndEvents, rows[c].status \in Sources(e), rows'[c].status = Target(e)
        PROVE  \/ rows[c].status \in PreActive /\ rows'[c].status = "failed"
               \/ rows[c].status = "active" /\ rows'[c].status = "terminating"
               \/ rows[c].status = "terminating" /\ rows'[c].status = "terminated"
    BY Zenon, <2>1, <2>2, EventTable DEF EndEvents
  <2> QED
    BY Zenon, <1>1, <2>2
<1>4. /\ cpc[c] = "failed" => key[c] \in Key /\ claims'[key[c]].state # "free"
      /\ claims[key[c]].state = "failed" /\ key[c] \in Key => claims'[key[c]].state = "failed"
  BY Zenon, ClaimsLast DEF Tidy
<1>5. /\ rows'[c].status \in PreActive \cup {"failed"} => rows[c].status \in PreActive \cup {"failed"}
      /\ rows[c].status \in Terminal => rows'[c] = rows[c]
  BY Zenon, <1>3 DEF PreActive, Terminal
<1>6. ASSUME rows[c] = csess[c] \/ rows[c].status \in Later(csess[c].status)
      PROVE  rows'[c] = csess[c] \/ rows'[c].status \in Later(csess[c].status)
  <2>1. CASE rows[c] = csess[c]
    BY Zenon, <1>3, <2>1, LaterTable
  <2>2. CASE rows[c].status \in Later(csess[c].status)
    <3>1. rows[c].status \in {"failed", "terminated"} => rows'[c] = rows[c]
      BY Zenon, <1>5 DEF Terminal
    <3>2. \/ rows[c].status \in {"failed", "terminated"}
          \/ rows[c].status = "terminating" /\ Later(csess[c].status) = {"terminating", "terminated"}
      BY Zenon, <2>2, LaterTable DEF Later
    <3>3. CASE rows[c].status = "terminating" /\ Later(csess[c].status) = {"terminating", "terminated"}
      <4>1. rows'[c].status \in {"terminating", "terminated"}
        BY Zenon, <1>3, <3>3 DEF PreActive
      <4> QED
        BY Zenon, <3>3, <4>1
    <3> QED
      BY Zenon, <2>2, <3>1, <3>2, <3>3
  <2> QED
    BY Zenon, <1>6, <2>1, <2>2
<1> QED
  BY Zenon, <1>1, <1>2, <1>4, <1>5, <1>6 DEF Tidy

\* A step fails a call, or it leaves the count of failures alone.
LEMMA FaultOrNot ==
    ASSUME Next
    PROVE  Fault \/ faults' = faults
<1>1. ASSUME NEW c \in Creator, Create(c)
      PROVE  Fault \/ faults' = faults
  BY Zenon, <1>1
     DEF Create, Arrive, Reserve, RefuseQuota, ReadExisting, Handle, Throw, Crash, Goto,
         WaitForCompletion, Deny, BeginRouting, Route, StartAttempt, Allocate, RecordFailure,
         BeginFallback, Activate, RecordSuccess, CompleteClaim, Respond, Recover, Mark, Cleanup,
         Finish, Catch, FailRow, Rollback, RollbackCleanup, RollbackFinish, FailClaim, Transit
<1>2. CASE ~ \E c \in Creator : Create(c)
  BY Zenon, <1>2
     DEF Next, Delete, Find, RequestTermination, RevokeSession, ReleaseProvider,
         CompleteTermination, Recheck, RespondTermination, ThrowTermination, Reconcile,
         FindCandidate, Work, FailStale, FinalizeCreate, ExpireActive, TerminateProvider,
         CompleteReconciled, Skip, ProviderExpires
<1> QED
  BY Zenon, <1>1, <1>2

\* When nothing has failed after a step, nothing failed before or in it.
LEMMA NoFault ==
    ASSUME TypeOK, Next, faults' = 0
    PROVE  faults = 0 /\ ~ Fault
<1>1. ~ Fault
  BY SessionControlAssumption DEF TypeOK, Fault
<1> QED
  BY Zenon, <1>1, FaultOrNot

\* A transition of a create request commits, or is refused and changes only
\* the position of the request.
LEMMA TransitOutcome ==
    ASSUME TypeOK, TypeOK', NEW c \in Creator, Known(csess[c], rows[c]),
           NEW from, NEW e \in Events, NEW n, NEW ok, NEW no, Transit(c, from, e, n, ok, no)
    PROVE  \/ Advanced(c, e, n, ok)
           \/ Rejected(c, no) /\ Refused(c, csess[c], e)
<1>1. Advanced(c, e, n, ok) \/ Rejected(c, no)
  BY Zenon, TransitSplit
<1>2. CASE Committed(c, csess[c], e, n)
  <2>1. rows'[c].version > rows[c].version
    <3>1. csess[c] \in Session
      BY Zenon DEF TypeOK
    <3> QED
      BY Zenon, <1>2, <3>1, CommitExact
  <2>2. rows[c].version \in Nat
    BY Zenon DEF TypeOK, Session
  <2>3. rows' # rows
    BY <2>1, <2>2
  <2> QED
    BY Zenon, <1>1, <2>3 DEF Rejected
<1>3. CASE Refused(c, csess[c], e)
  <2>1. CASE Rejected(c, no)
    BY Zenon, <1>3, <2>1
  <2> QED
    BY Zenon, <1>1, <2>1
<1> QED
  BY Zenon, <1>2, <1>3 DEF Transit

\* A request that has not given up has nothing to tidy.
LEMMA ElsewhereTidy ==
    ASSUME NEW c \in Creator, cpc'[c] \notin Ending, cpc'[c] # "failed"
    PROVE  Tidy(c)'
BY Zenon DEF Tidy, Ending

\* A request reaches its catch block without a browser, or with a row that names it.
LEMMA CaughtTidy ==
    ASSUME NEW c \in Creator, cpc'[c] = "catch",
           provider'[c][cn'[c]] # "live" \/ rows'[c].status \notin PreActive \cup {"failed"}
    PROVE  Tidy(c)'
BY Zenon DEF Tidy

\* A request that arrives, or waits for the claim of another, has no session.
LEMMA JoinTidy ==
    ASSUME TypeOK, TypeOK', HandlerKnowledge, NEW c \in Creator, Arrive(c) \/ WaitForCompletion(c)
    PROVE  Tidy(c)'
<1>1. ASSUME NEW k \in Key, claims[k].state # "free", claims' = claims, key'[c] = k, rows' = rows,
             cpc[c] \in {"idle", "waiting"},
             cpc'[c] \in {"waiting", "failed", "created", "refused", "unavailable"}
      PROVE  Tidy(c)'
  <2>1. rows'[c].status = "absent"
    BY Zenon, <1>1 DEF HandlerKnowledge, CreateInv
  <2>2. CASE cpc'[c] = "failed"
    BY Zenon, <1>1, <2>1, <2>2 DEF Tidy, Ending
  <2>3. CASE cpc'[c] # "failed"
    BY Zenon, <1>1, <2>3, ElsewhereTidy DEF Ending
  <2> QED
    BY Zenon, <2>2, <2>3
<1>2. CASE WaitForCompletion(c)
  <2>1. key[c] \in Key /\ claims[key[c]].state # "free" /\ claims' = claims /\ rows' = rows
        /\ key' = key /\ cpc[c] = "waiting"
    BY Zenon, <1>2 DEF WaitForCompletion, Goto, store, HandlerKnowledge, ClaimInv
  <2>2. cpc'[c] = IF Replay(key[c]) = "waiting" THEN "unavailable" ELSE Replay(key[c])
    BY Zenon, <1>2 DEF WaitForCompletion, Goto, TypeOK
  <2>3. Replay(key[c]) \in {"waiting", "failed", "created"}
    BY Zenon, <2>1, ReplayOutcome
  <2> QED
    BY Zenon, <1>1, <2>1, <2>2, <2>3
<1>3. ASSUME NEW k \in Key, NEW b \in Body, ReadExisting(c, k, b)
      PROVE  Tidy(c)'
  <2>1. /\ claims[k].state # "free" /\ claims' = claims /\ rows' = rows
        /\ key'[c] = k /\ cpc[c] = "idle"
    BY Zenon, <1>3 DEF ReadExisting, Goto, store, TypeOK
  <2>2. cpc'[c] = IF body[claims[k].owner] = b THEN Replay(k) ELSE "refused"
    BY Zenon, <1>3 DEF ReadExisting, Goto, TypeOK
  <2>3. Replay(k) \in {"waiting", "failed", "created"}
    BY Zenon, <2>1, ReplayOutcome
  <2> QED
    BY Zenon, <1>1, <2>1, <2>2, <2>3
<1>4. ASSUME NEW k \in Key, NEW b \in Body, Reserve(c, k, b) \/ RefuseQuota(c, k, b)
      PROVE  Tidy(c)'
  <2>1. cpc'[c] \in {"owner", "refused"}
    BY Zenon, <1>4 DEF Reserve, RefuseQuota, Goto, TypeOK
  <2> QED
    BY Zenon, <2>1, ElsewhereTidy DEF Ending
<1> QED
  BY Zenon, <1>2, <1>3, <1>4 DEF Arrive

\* The way up: a request goes on, or is caught before it has a browser.
LEMMA UpTidy ==
    ASSUME TypeOK, TypeOK', HandlerKnowledge, NEW c \in Creator,
           \/ Deny(c) \/ BeginRouting(c) \/ Route(c) \/ StartAttempt(c) \/ Allocate(c)
           \/ RecordFailure(c) \/ BeginFallback(c) \/ Activate(c)
    PROVE  Tidy(c)'
<1>1. CreateInv(c) /\ cn[c] \in Attempt
  BY Zenon DEF HandlerKnowledge, TypeOK
<1>2. CASE StartAttempt(c) \/ Allocate(c) \/ Activate(c)
  <2>1. CASE StartAttempt(c)
    <3>1. cpc'[c] = "calling"
      BY Zenon, <2>1 DEF StartAttempt, TypeOK
    <3> QED
      BY Zenon, <3>1, ElsewhereTidy DEF Ending
  <2>2. CASE Allocate(c)
    <3>1. cpc'[c] \in {"received", "providerError"}
      BY Zenon, <2>2 DEF Allocate, TypeOK
    <3> QED
      BY Zenon, <3>1, ElsewhereTidy DEF Ending
  <2>3. CASE Activate(c)
    <3>1. cpc'[c] \in {"activated", "recover"}
      BY Zenon, <2>3 DEF Activate, Transit, TypeOK
    <3> QED
      BY Zenon, <3>1, ElsewhereTidy DEF Ending
  <2> QED
    BY Zenon, <1>2, <2>1, <2>2, <2>3
<1>3. CASE Deny(c) \/ BeginRouting(c) \/ Route(c)
  <2>1. /\ cpc[c] \in {"owner", "routing", "start"} /\ provider' = provider /\ cn' = cn
        /\ cpc'[c] \in {"catch", "routing", "start"}
    <3>1. CASE Deny(c)
      BY Zenon, <3>1 DEF Deny, Goto, store, TypeOK
    <3>2. CASE BeginRouting(c)
      BY Zenon, <3>2 DEF BeginRouting, Transit, TypeOK
    <3>3. CASE Route(c)
      BY Zenon, <3>3 DEF Route, Transit, TypeOK
    <3> QED
      BY Zenon, <1>3, <3>1, <3>2, <3>3
  <2>2. provider'[c][cn'[c]] = "none"
    BY Zenon, <1>1, <2>1 DEF CreateInv
  <2> QED
    BY Zenon, <2>1, <2>2, CaughtTidy, ElsewhereTidy DEF Ending
<1>4. CASE RecordFailure(c)
  <2>1. /\ cpc[c] = "providerError" /\ provider' = provider /\ cn' = cn
        /\ cpc'[c] \in {"catch", "fallback"}
    BY Zenon, <1>4 DEF RecordFailure, TypeOK
  <2>2. provider'[c][cn'[c]] # "live"
    BY Zenon, <1>1, <2>1 DEF CreateInv
  <2> QED
    BY Zenon, <2>1, <2>2, CaughtTidy, ElsewhereTidy DEF Ending
<1>5. CASE BeginFallback(c)
  <2>1. /\ cpc[c] = "fallback" /\ provider' = provider /\ cn'[c] = "fallback"
        /\ cpc'[c] \in {"catch", "start"}
    BY Zenon, <1>5 DEF BeginFallback, Transit, TypeOK
  <2>2. provider'[c][cn'[c]] = "none"
    BY Zenon, <1>1, <2>1 DEF CreateInv
  <2> QED
    BY Zenon, <2>1, <2>2, CaughtTidy, ElsewhereTidy DEF Ending
<1> QED
  BY Zenon, <1>2, <1>3, <1>4, <1>5

\* With a browser in hand: a request goes on, or is caught once the row names
\* the browser or the browser is gone.
LEMMA HoldingTidy ==
    ASSUME TypeOK, TypeOK', HandlerKnowledge, ~ Fault, NEW c \in Creator,
           \/ RecordSuccess(c) \/ CompleteClaim(c) \/ Respond(c) \/ Recover(c) \/ Mark(c)
           \/ Cleanup(c) \/ Finish(c)
    PROVE  Tidy(c)'
<1>1. CreateInv(c) /\ RowInv(c) /\ cn[c] \in Attempt
  BY Zenon DEF HandlerKnowledge, TypeOK
<1>2. CASE RecordSuccess(c) \/ Respond(c) \/ Recover(c)
  <2>1. cpc'[c] \in {"settled", "created", "mark", "cleanup", "orphan"}
    <3>1. CASE RecordSuccess(c) \/ Respond(c)
      BY Zenon, <3>1 DEF RecordSuccess, Respond, Goto, TypeOK
    <3>2. CASE Recover(c)
      <4>1. cpc'[c] = CASE rows[c].status \in {"active", "allocating", "fallback_allocating"} -> "mark"
                        [] rows[c].status = "terminating" -> "cleanup"
                        [] OTHER -> "orphan"
        BY Zenon, <3>2 DEF Recover, Goto, TypeOK
      <4> QED
        BY Zenon, <4>1
    <3> QED
      BY Zenon, <1>2, <3>1, <3>2
  <2> QED
    BY Zenon, <2>1, ElsewhereTidy DEF Ending
<1>3. CASE Mark(c)
  <2>1. cpc'[c] \in {"cleanup", "orphan"}
    BY Zenon, <1>3 DEF Mark, Transit, Goto, TypeOK
  <2> QED
    BY Zenon, <2>1, ElsewhereTidy DEF Ending
<1>4. CASE CompleteClaim(c)
  <2>1. cpc[c] = "settled" /\ rows' = rows /\ cpc'[c] \in {"respond", "catch"}
    BY Zenon, <1>4 DEF CompleteClaim, TypeOK
  <2>2. rows[c].ref = cn[c] /\ rows[c].ref # None
    BY Zenon, <1>1, <2>1 DEF CreateInv, Attempt, None
  <2>3. rows'[c].status \notin PreActive \cup {"failed"}
    BY Zenon, <1>1, <2>1, <2>2 DEF RowInv
  <2> QED
    BY Zenon, <2>1, <2>3, CaughtTidy, ElsewhereTidy DEF Ending
<1>5. CASE Cleanup(c)
  <2>1. cpc'[c] \in {"finish", "catch"} /\ cn' = cn /\ Terminate(c, cn[c])
    BY Zenon, <1>5 DEF Cleanup, TypeOK
  <2>2. provider'[c][cn'[c]] = "gone"
    BY Zenon, <1>1, <2>1 DEF Terminate, TypeOK
  <2> QED
    BY Zenon, <2>1, <2>2, CaughtTidy, ElsewhereTidy DEF Ending
<1>6. CASE Finish(c)
  <2>1. cpc[c] = "finish" /\ cpc'[c] = "catch" /\ cn' = cn /\ provider' = provider
    BY Zenon, <1>6 DEF Finish, Transit, TypeOK
  <2>2. provider'[c][cn'[c]] = "gone"
    BY Zenon, <1>1, <2>1 DEF CreateInv
  <2> QED
    BY Zenon, <2>1, <2>2, CaughtTidy
<1> QED
  BY Zenon, <1>2, <1>3, <1>4, <1>5, <1>6

\* The catch block reads the row and chooses how to end the session.
LEMMA CatchTidy ==
    ASSUME TypeOK, TypeOK', HandlerKnowledge, NEW c \in Creator, Tidy(c), Catch(c)
    PROVE  Tidy(c)'
<1>1. /\ cpc[c] = "catch" /\ rows' = rows /\ provider' = provider
      /\ csess'[c] = rows[c] /\ cn' = cn
      /\ \/ cpc'[c] = "failClaim" /\ rows[c].status \in Terminal
         \/ cpc'[c] \in {"rollback", "failRow"}
  <2>1. cpc'[c] = CASE rows[c].status \in Terminal -> "failClaim"
                    [] rows[c].status \in {"active", "terminating"} -> "rollback"
                    [] OTHER -> "failRow"
    BY Zenon DEF Catch, Goto, TypeOK
  <2>2. \/ cpc'[c] = "failClaim" /\ rows[c].status \in Terminal
        \/ cpc'[c] \in {"rollback", "failRow"}
    BY Zenon, <2>1
  <2> QED
    BY Zenon, <2>2 DEF Catch, Goto, store, TypeOK
<1>2. rows[c].status \in PreActive \cup {"failed"} => provider[c][cn[c]] # "live"
  BY Zenon, <1>1 DEF Tidy, Ending
<1> QED
  BY Zenon, <1>1, <1>2 DEF Tidy

\* Failing the row: refused only to a row that another process failed.
LEMMA FailRowTidy ==
    ASSUME TypeOK, TypeOK', HandlerKnowledge, NEW c \in Creator, Tidy(c), FailRow(c)
    PROVE  Tidy(c)'
<1>1. /\ cpc[c] = "failRow" /\ provider' = provider /\ cn' = cn
      /\ Transit(c, "failRow", "fail", None, "failClaim", "failClaim")
  BY Zenon DEF FailRow, Transit
<1>2. CreateInv(c) /\ Known(csess[c], rows[c]) /\ csess[c].status \in PreActive
  BY Zenon, <1>1 DEF HandlerKnowledge, CreateInv, CreateWork
<1>3. /\ rows[c].status \in PreActive \cup {"failed"} => provider[c][cn[c]] # "live"
      /\ rows[c] = csess[c] \/ rows[c].status \in Later(csess[c].status)
  BY Zenon, <1>1 DEF Tidy, Ending
<1>4. rows[c] = csess[c] \/ rows[c].status = "failed"
  BY Zenon, <1>2, <1>3, LaterTable
<1>5. provider'[c][cn'[c]] # "live"
  BY Zenon, <1>1, <1>2, <1>3, <1>4
<1>6. cpc'[c] = "failClaim" /\ rows'[c].status = "failed"
  <2>1. CASE Advanced(c, "fail", None, "failClaim")
    BY Zenon, <2>1, EventTable DEF Advanced
  <2>2. CASE Rejected(c, "failClaim") /\ Refused(c, csess[c], "fail")
    <3>1. rows[c] # csess[c]
      BY Zenon, <1>2, <2>2, EventTable DEF Refused, Accepts, ActiveQuotaStatuses
    <3> QED
      BY Zenon, <1>4, <2>2, <3>1 DEF Rejected
  <2> QED
    BY Zenon, <1>1, <1>2, <2>1, <2>2, TransitOutcome DEF Events
<1> QED
  BY Zenon, <1>5, <1>6 DEF Tidy, Terminal

\* Requesting the termination of the row: never refused.
LEMMA RollbackTidy ==
    ASSUME TypeOK, TypeOK', HandlerKnowledge, NEW c \in Creator, Tidy(c), Rollback(c)
    PROVE  Tidy(c)'
<1>1. cpc[c] = "rollback" /\ cn' = cn
  BY Zenon DEF Rollback, Transit
<1>2. /\ Known(csess[c], rows[c]) /\ csess[c].status \in {"active", "terminating"}
  BY Zenon, <1>1 DEF HandlerKnowledge, CreateInv, CreateWork
<1>3. rows[c] = csess[c] \/ rows[c].status \in Later(csess[c].status)
  BY Zenon, <1>1 DEF Tidy
<1>4. /\ csess[c].status = "active" =>
            rows[c] = csess[c] \/ rows[c].status \in {"terminating", "terminated"}
      /\ csess[c].status = "terminating" =>
            rows[c] = csess[c] \/ rows[c].status = "terminated"
  BY Zenon, <1>3, LaterTable
<1>5. ASSUME cpc'[c] = "rollbackCleanup",
             rows'[c].status \in {"terminating", "terminated"},
             csess'[c].status \in {"terminating", "terminated"},
             rows'[c] = csess'[c] \/ rows'[c].status \in Later(csess'[c].status)
      PROVE  Tidy(c)'
  <2>1. rows'[c].status \notin PreActive \cup {"failed"}
    BY Zenon, <1>5 DEF PreActive
  <2> QED
    BY Zenon, <1>5, <2>1 DEF Tidy
<1>6. CASE /\ csess[c].status = "active"
           /\ Transit(c, "rollback", "request_termination", None, "rollbackCleanup", "failClaim")
  <2>1. CASE Advanced(c, "request_termination", None, "rollbackCleanup")
    BY Zenon, <1>5, <2>1, EventTable DEF Advanced
  <2>2. ~ Refused(c, csess[c], "request_termination")
    BY Zenon, <1>4, <1>6, EventTable DEF Refused, Accepts, Ignores, Terminal
  <2> QED
    BY Zenon, <1>2, <1>6, <2>1, <2>2, TransitOutcome DEF Events
<1>7. CASE /\ csess[c].status = "active" => Returned(c, "request_termination")
           /\ csess' = [csess EXCEPT ![c] = IF @.status = "active" THEN rows[c] ELSE @]
           /\ Goto(c, "rollbackCleanup")
  <2>1. /\ rows' = rows /\ cpc'[c] = "rollbackCleanup"
        /\ csess'[c] = IF csess[c].status = "active" THEN rows[c] ELSE csess[c]
    BY Zenon, <1>7 DEF Goto, store, TypeOK
  <2>2. CASE csess[c].status = "active"
    <3>1. rows[c].status # "active"
      BY Zenon, <1>7, <2>2 DEF Returned, Ignores, Terminal
    <3> QED
      BY Zenon, <1>4, <1>5, <2>1, <2>2, <3>1
  <2>3. CASE csess[c].status = "terminating"
    <3>1. csess'[c] = csess[c]
      BY Zenon, <2>1, <2>3
    <3> QED
      BY Zenon, <1>3, <1>4, <1>5, <2>1, <2>3, <3>1
  <2> QED
    BY Zenon, <1>2, <2>2, <2>3
<1> QED
  BY Zenon, <1>6, <1>7 DEF Rollback

\* Terminating the browser and completing the termination: refused only to a
\* row that is terminated already.
LEMMA RollbackEndTidy ==
    ASSUME TypeOK, TypeOK', HandlerKnowledge, ~ Fault, NEW c \in Creator, Tidy(c),
           RollbackCleanup(c) \/ RollbackFinish(c)
    PROVE  Tidy(c)'
<1>1. cpc[c] \in {"rollbackCleanup", "rollbackFinish"} /\ cn' = cn /\ cn[c] \in Attempt
  BY Zenon DEF RollbackCleanup, RollbackFinish, Transit, TypeOK
<1>2. /\ Known(csess[c], rows[c]) /\ csess[c].ref = cn[c]
      /\ cpc[c] = "rollbackFinish" => provider[c][cn[c]] = "gone"
  BY Zenon, <1>1 DEF HandlerKnowledge, CreateInv, CreateWork
<1>3. /\ csess[c].status \in {"terminating", "terminated"}
      /\ rows[c] = csess[c] \/ rows[c].status \in Later(csess[c].status)
  BY Zenon, <1>1 DEF Tidy
<1>4. rows[c] = csess[c] \/ rows[c].status = "terminated"
  BY Zenon, <1>3, LaterTable
<1>5. CASE RollbackCleanup(c)
  <2>1. rows' = rows /\ csess' = csess /\ cpc'[c] = "rollbackFinish" /\ Terminate(c, cn[c])
    BY Zenon, <1>2, <1>5 DEF RollbackCleanup, TypeOK
  <2>2. provider'[c][cn'[c]] = "gone"
    BY Zenon, <1>1, <2>1 DEF Terminate, TypeOK
  <2> QED
    BY Zenon, <1>3, <2>1, <2>2 DEF Tidy
<1>6. CASE RollbackFinish(c)
  <2>1. /\ provider'[c][cn'[c]] = "gone"
        /\ Transit(c, "rollbackFinish", "complete_termination", None, "failClaim", "failClaim")
    BY Zenon, <1>1, <1>2, <1>6 DEF RollbackFinish, Transit
  <2>2. CASE Advanced(c, "complete_termination", None, "failClaim")
    <3>1. cpc'[c] = "failClaim" /\ rows'[c].status = "terminated"
      BY Zenon, <2>2, EventTable DEF Advanced
    <3> QED
      BY Zenon, <2>1, <3>1 DEF Tidy, Terminal
  <2>3. CASE Rejected(c, "failClaim") /\ Refused(c, csess[c], "complete_termination")
    <3>1. rows[c] = csess[c] => rows[c].status # "terminating"
      BY Zenon, <2>3, EventTable DEF Refused, Accepts
    <3>2. cpc'[c] = "failClaim" /\ rows'[c].status = "terminated"
      BY Zenon, <1>3, <1>4, <2>3, <3>1 DEF Rejected
    <3> QED
      BY Zenon, <2>1, <3>2 DEF Tidy, Terminal
  <2> QED
    BY Zenon, <1>2, <2>1, <2>2, <2>3, TransitOutcome DEF Events
<1> QED
  BY Zenon, <1>5, <1>6

\* The claim of a request that has given up was not settled as succeeded.
LEMMA FailClaimTidy ==
    ASSUME TypeOK, TypeOK', HandlerKnowledge, CleanInv, faults = 0, NEW c \in Creator, FailClaim(c)
    PROVE  Tidy(c)'
<1>1. cpc[c] = "failClaim" /\ rows' = rows /\ provider' = provider /\ cn' = cn /\ key' = key
      /\ cpc'[c] = "failed"
  BY Zenon DEF FailClaim, TypeOK
<1>2. /\ rows[c].status \in Terminal
      /\ rows[c].status \in PreActive \cup {"failed"} => provider[c][cn[c]] # "live"
  BY Zenon, <1>1 DEF CleanInv, Tidy, Ending
<1>3. /\ key[c] \in Key /\ claims[key[c]].owner = c
      /\ claims[key[c]].state # "free" /\ claims[key[c]] \in Claim
  <2>1. rows[c].status # "absent"
    BY Zenon, <1>2 DEF Terminal
  <2> QED
    BY Zenon, <2>1 DEF HandlerKnowledge, ClaimInv, TypeOK
<1>4. claims[key[c]].state # "succeeded"
  BY Zenon, <1>1, <1>3 DEF CleanInv
<1>5. claims'[key[c]].state = "failed"
  <2>1. CASE Owns(c)
    <3>1. claims'[key[c]] = [claims[key[c]] EXCEPT !.state = "failed"]
      BY Zenon, <1>3, <2>1 DEF FailClaim, TypeOK
    <3> QED
      BY Zenon, <1>3, <3>1 DEF Claim
  <2>2. CASE ~ Owns(c)
    <3>1. claims[key[c]].state # "in_progress" /\ claims' = claims
      BY Zenon, <1>3, <2>2 DEF Owns, FailClaim
    <3> QED
      BY Zenon, <1>3, <1>4, <3>1 DEF Claim
  <2> QED
    BY Zenon, <2>1, <2>2
<1> QED
  BY Zenon, <1>1, <1>2, <1>3, <1>5 DEF Tidy, Ending

\* Every step of a create request that meets no fault.
LEMMA OwnTidy ==
    ASSUME TypeOK, TypeOK', HandlerKnowledge, CleanInv, faults = 0, ~ Fault,
           NEW c \in Creator, Create(c)
    PROVE  Tidy(c)'
<1>1. Tidy(c)
  BY Zenon DEF CleanInv
<1>2. Arrive(c) \/ Handle(c)
  BY Zenon DEF Create, Throw, Crash
<1>3. CASE Arrive(c) \/ WaitForCompletion(c)
  BY Zenon, <1>3, JoinTidy
<1>4. CASE \/ Deny(c) \/ BeginRouting(c) \/ Route(c) \/ StartAttempt(c) \/ Allocate(c)
           \/ RecordFailure(c) \/ BeginFallback(c) \/ Activate(c)
  BY Zenon, <1>4, UpTidy
<1>5. CASE \/ RecordSuccess(c) \/ CompleteClaim(c) \/ Respond(c) \/ Recover(c) \/ Mark(c)
           \/ Cleanup(c) \/ Finish(c)
  BY Zenon, <1>5, HoldingTidy
<1>6. CASE Catch(c) \/ FailRow(c)
  BY Zenon, <1>1, <1>6, CatchTidy, FailRowTidy
<1>7. CASE Rollback(c) \/ RollbackCleanup(c) \/ RollbackFinish(c)
  BY Zenon, <1>1, <1>7, RollbackTidy, RollbackEndTidy
<1>8. CASE FailClaim(c)
  BY Zenon, <1>8, FailClaimTidy
<1> QED
  BY Zenon, <1>2, <1>3, <1>4, <1>5, <1>6, <1>7, <1>8 DEF Handle

\* A request that has settled its claim only responds, unless something fails.
LEMMA SettledResponds ==
    ASSUME TypeOK, HandlerKnowledge, TypeOK', Next, ~ Fault,
           NEW c \in Creator, cpc[c] \in {"respond", "created"}
    PROVE  cpc'[c] \in {"respond", "created"}
<1>1. CASE ~ Create(c)
  <2>1. Interferes(c)
    BY Zenon, <1>1, OthersRow
  <2> QED
    BY Zenon, <2>1 DEF Interferes
<1>2. CASE Create(c)
  <2>1. Arrive(c) \/ Handle(c)
    BY Zenon, <1>2 DEF Create, Throw, Crash
  <2>2. ~ Arrive(c)
    BY Zenon DEF Arrive, Reserve, RefuseQuota, ReadExisting
  <2>3. CASE Respond(c)
    BY Zenon, <2>3 DEF Respond, Goto, TypeOK
  <2>4. Respond(c)
    BY Zenon, <2>1, <2>2
       DEF Handle, WaitForCompletion, Deny, BeginRouting, Route, StartAttempt, Allocate,
           RecordFailure, BeginFallback, Activate, RecordSuccess, CompleteClaim, Recover, Mark,
           Cleanup, Finish, Catch, FailRow, Rollback, RollbackCleanup, RollbackFinish, FailClaim,
           Transit
  <2> QED
    BY Zenon, <2>3, <2>4
<1> QED
  BY Zenon, <1>1, <1>2

\* Every step keeps the inductive invariant.
LEMMA NextClean ==
    ASSUME TypeOK, TypeOK', HandlerKnowledge, HandlerKnowledge', CleanInv, Next
    PROVE  CleanInv'
<1> SUFFICES ASSUME faults' = 0
             PROVE  /\ \A c \in Creator : Tidy(c)'
                    /\ \A k \in Key : claims'[k].state = "succeeded" =>
                          cpc'[claims'[k].owner] \in {"respond", "created"}
  BY Zenon DEF CleanInv
<1>1. faults = 0 /\ ~ Fault
  BY Zenon, NoFault
<1>2. ASSUME NEW c \in Creator
      PROVE  Tidy(c)'
  <2>1. Tidy(c)
    BY Zenon, <1>1 DEF CleanInv
  <2> QED
    BY Zenon, <1>1, <2>1, OwnTidy, OthersTidy
<1>3. ASSUME NEW k \in Key, claims'[k].state = "succeeded"
      PROVE  cpc'[claims'[k].owner] \in {"respond", "created"}
  <2>1. CASE claims[k].state = "succeeded"
    <3>1. /\ claims'[k] = claims[k] /\ claims[k].owner \in Creator
          /\ cpc[claims[k].owner] \in {"respond", "created"}
      <4>1. claims'[k] = claims[k]
        BY Zenon, <2>1, ClaimsLast
      <4>2. claims[k].owner \in Creator
        BY Zenon, <2>1 DEF HandlerKnowledge, ClaimInv
      <4> QED
        BY Zenon, <1>1, <2>1, <4>1, <4>2 DEF CleanInv
    <3> QED
      BY Zenon, <1>1, <3>1, SettledResponds
  <2>2. CASE \E c \in Creator : CompleteClaim(c) /\ Owns(c) /\ key[c] = k
    <3>1. PICK c \in Creator : CompleteClaim(c) /\ Owns(c) /\ key[c] = k
      BY Zenon, <2>2
    <3>2. claims[k].owner = c /\ claims[k] \in Claim
      BY Zenon, <3>1 DEF CompleteClaim, CreateWork, HandlerKnowledge, ClaimInv, TypeOK
    <3>3. claims'[k] = [claims[k] EXCEPT !.state = "succeeded"] /\ cpc'[c] = "respond"
      BY Zenon, <3>1 DEF CompleteClaim, TypeOK
    <3>4. claims'[k].owner = c
      BY Zenon, <3>2, <3>3 DEF Claim
    <3> QED
      BY Zenon, <3>3, <3>4
  <2> QED
    BY Zenon, <1>3, <2>1, <2>2, ClaimsLast
<1> QED
  BY Zenon, <1>2, <1>3

\* The inductive invariant says that the create request cleaned up.
LEMMA CleanSuffices ==
    ASSUME TypeOK, HandlerKnowledge, CleanInv
    PROVE  FailedCreateIsClean
<1> SUFFICES ASSUME NEW c \in Creator, cpc[c] = "failed", claims[key[c]].owner = c, faults = 0
             PROVE  /\ rows[c].status \in Terminal
                    /\ claims[key[c]].state = "failed"
                    /\ \A n \in Attempt : provider[c][n] # "live"
  BY Zenon DEF FailedCreateIsClean
<1>1. Tidy(c) /\ RowInv(c) /\ CreateInv(c) /\ cn[c] \in Attempt
  BY Zenon DEF CleanInv, HandlerKnowledge, TypeOK
<1>2. rows[c].status # "absent"
  <2>1. key[c] \in Key /\ claims[key[c]].state # "free"
    BY Zenon, <1>1 DEF Tidy
  <2> QED
    BY Zenon, <2>1 DEF HandlerKnowledge, ClaimInv
<1>3. rows[c].status \in Terminal /\ claims[key[c]].state = "failed"
  BY Zenon, <1>1, <1>2 DEF Tidy
<1>4. provider[c][cn[c]] # "live"
  <2>1. CASE rows[c].status = "failed"
    BY Zenon, <1>1, <1>2, <2>1 DEF Tidy
  <2>2. CASE rows[c].status = "terminated"
    <3>1. rows[c].ref \in Attempt /\ provider[c][rows[c].ref] = "gone"
      BY Zenon, <1>1, <2>2 DEF RowInv
    <3>2. rows[c].ref # None
      BY Zenon, <3>1 DEF Attempt, None
    <3> QED
      BY Zenon, <1>1, <3>1, <3>2 DEF CreateInv
  <2> QED
    BY Zenon, <1>1, <1>3, <2>1, <2>2 DEF Terminal, RowInv
<1>5. ASSUME NEW n \in Attempt
      PROVE  provider[c][n] # "live"
  BY Zenon, <1>1, <1>4 DEF CreateInv, Attempt
<1> QED
  BY Zenon, <1>3, <1>5

\* Nothing is settled, and nobody has given up, in the initial state.
LEMMA InitClean == Init => CleanInv
<1> SUFFICES ASSUME Init PROVE CleanInv
  OBVIOUS
<1>1. \A c \in Creator : cpc[c] = "idle"
  BY Zenon DEF Init
<1>2. \A c \in Creator : Tidy(c)
  BY Zenon, <1>1 DEF Tidy, Ending
<1>3. ASSUME NEW k \in Key
      PROVE  claims[k].state # "succeeded"
  <2>1. claims[k] = [owner |-> None, state |-> "free"]
    BY Zenon DEF Init
  <2> QED
    BY <2>1
<1> QED
  BY Zenon, <1>2, <1>3 DEF CleanInv

\* When no call fails and no process dies, a create request that answers with a
\* failure leaves its session terminal, its claim settled as failed and no
\* browser of its running, whatever other requests and the reconciler did to
\* that session in the meantime.
THEOREM FailedIsClean == Spec => []FailedCreateIsClean
<1>1. TypeOK /\ HandlerKnowledge /\ CleanInv => FailedCreateIsClean
  BY Zenon, CleanSuffices
<1>2. Init => CleanInv
  BY Zenon, InitClean
<1>3. /\ TypeOK /\ HandlerKnowledge /\ (TypeOK /\ HandlerKnowledge)'
      /\ CleanInv /\ [Next]_vars
      => CleanInv'
  <2>1. CASE Next
    BY Zenon, <2>1, NextClean
  <2>2. CASE UNCHANGED vars
    BY Zenon, <2>2 DEF vars, store, cvars, tvars, rvars, CleanInv, Tidy
  <2> QED
    BY Zenon, <2>1, <2>2
<1> QED
  BY <1>1, <1>2, <1>3, Knowledge, PTL DEF Spec
===============================================================================
