------------------------- MODULE SessionControlSteps --------------------------
(***************************************************************************)
(* What every step of SessionControl does, whoever takes it: it leaves the *)
(* variables well typed, it does to a session that another handler works   *)
(* on only what that handler relies on (Evolves, Interferes), and the      *)
(* knowledge of a handler survives such steps.                             *)
(* What a create request knows of its own session, its own steps keep, and *)
(* they change nothing of the session of another request.                  *)
(***************************************************************************)
EXTENDS SessionControlInv, TLAPS

-------------------------------------------------------------------------------
(* Type correctness                                                          *)

\* The positions the handlers of create requests move to.
LEMMA CreatePcs ==
    /\ {"idle", "waiting"} \subseteq CreatePc
    /\ {"owner", "routing", "start", "calling", "received", "activated",
        "settled", "respond", "providerError", "fallback", "recover"} \subseteq CreatePc
    /\ {"mark", "cleanup", "orphan", "finish", "catch", "failRow",
        "rollback", "rollbackCleanup", "rollbackFinish", "failClaim"} \subseteq CreatePc
    /\ {"created", "refused", "unavailable", "failed", "crashed"} \subseteq CreatePc
BY Zenon DEF CreatePc, CreateWork, CreateFinal

\* Updating one entry of a table of tables keeps its type.
LEMMA UpdateEntry ==
    ASSUME NEW A, NEW B, NEW S, NEW f \in [A -> [B -> S]], NEW a \in A, NEW b \in B, NEW v \in S
    PROVE  [f EXCEPT ![a][b] = v] \in [A -> [B -> S]]
OBVIOUS

\* The row that results from an accepted event is again a row.
LEMMA ApplyType ==
    ASSUME NEW row \in Session, NEW e \in Events, NEW n \in Attempt \cup {None}
    PROVE  Apply(row, e, n) \in Session
<1>1. Target(e) \in SessionStatuses
  BY Zenon DEF Target, Events, SessionStatuses, ActiveQuotaStatuses, PreActive, Terminal
<1>2. row.version + 1 \in Nat
  BY DEF Session
<1> QED
  BY Zenon, <1>1, <1>2 DEF Apply, Session

\* A compare-and-set keeps the table of sessions well typed.
LEMMA CommittedType ==
    ASSUME TypeOK, NEW s \in Creator, NEW copy, NEW e \in Events,
           NEW n \in Attempt \cup {None}, Committed(s, copy, e, n)
    PROVE  rows' \in [Creator -> Session]
BY Zenon, ApplyType DEF Committed, TypeOK

\* A transition requested by a create handler keeps every variable well typed.
LEMMA TransitType ==
    ASSUME TypeOK, NEW c \in Creator, NEW from, NEW e \in Events,
           NEW n \in Attempt \cup {None}, NEW ok \in CreatePc, NEW no \in CreatePc,
           Transit(c, from, e, n, ok, no), cn' \in [Creator -> Attempt]
    PROVE  TypeOK'
<1>1. CASE Committed(c, csess[c], e, n) /\ cpc' = [cpc EXCEPT ![c] = ok]
           /\ csess' = [csess EXCEPT ![c] = rows'[c]]
  <2>1. rows' \in [Creator -> Session]
    BY Zenon, <1>1, CommittedType
  <2> QED
    BY Zenon, <1>1, <2>1 DEF TypeOK, Transit, tvars, rvars
<1>2. CASE Refused(c, csess[c], e) /\ cpc' = [cpc EXCEPT ![c] = no] /\ UNCHANGED csess
  BY Zenon, <1>2 DEF TypeOK, Transit, Refused, tvars, rvars
<1> QED
  BY Zenon, <1>1, <1>2 DEF Transit

\* The arrival of a create request keeps every variable well typed.
LEMMA ArriveType ==
    ASSUME TypeOK, NEW c \in Creator, Arrive(c)
    PROVE  TypeOK'
<1> PICK k \in Key, b \in Body :
        Reserve(c, k, b) \/ RefuseQuota(c, k, b) \/ ReadExisting(c, k, b)
  BY Zenon DEF Arrive
<1>1. CASE Reserve(c, k, b)
  <2>1. Initial \in Session
    BY Zenon DEF Initial, Absent, Session, SessionStatuses, ActiveQuotaStatuses, PreActive
  <2> QED
    BY Zenon, <1>1, <2>1, CreatePcs DEF TypeOK, Reserve, Claim, tvars, rvars
<1>2. CASE RefuseQuota(c, k, b)
  BY Zenon, <1>2, CreatePcs DEF TypeOK, RefuseQuota, Goto, store, tvars, rvars
<1>3. CASE ReadExisting(c, k, b)
  <2>1. Replay(k) \in {"waiting", "failed", "created"}
    BY Zenon, <1>3 DEF Replay, ReadExisting, TypeOK, Claim
  <2> QED
    BY Zenon, <1>3, <2>1, CreatePcs DEF TypeOK, ReadExisting, Goto, store, tvars, rvars
<1> QED
  BY Zenon, <1>1, <1>2, <1>3

\* A failure stays within its budget.
LEMMA FaultType ==
    ASSUME TypeOK, Fault
    PROVE  faults' \in 0 .. MaxFaults
BY SessionControlAssumption DEF TypeOK, Fault

\* Ending a browser keeps the provider's sessions well typed.
LEMMA TerminateType ==
    ASSUME TypeOK, NEW s \in Creator, NEW n \in Attempt, Terminate(s, n)
    PROVE  provider' \in [Creator -> [Attempt -> ProviderStatus]]
BY UpdateEntry DEF TypeOK, Terminate, ProviderStatus

\* Settling a claim keeps the table of claims well typed.
LEMMA SettleType ==
    ASSUME NEW f \in [Key -> Claim], NEW k, NEW st \in {"succeeded", "failed"}
    PROVE  [f EXCEPT ![k].state = st] \in [Key -> Claim]
BY Zenon DEF Claim

\* Every step of a create handler keeps every variable well typed.
LEMMA HandleType ==
    ASSUME TypeOK, HandlerKnowledge, NEW c \in Creator, Handle(c)
    PROVE  TypeOK'
<1> USE CreatePcs DEF Events
<1>1. CASE WaitForCompletion(c)
  <2>1. Replay(key[c]) \in {"waiting", "failed", "created"}
    BY <1>1 DEF Replay, WaitForCompletion, TypeOK, Claim, HandlerKnowledge, ClaimInv
  <2> QED
    BY Zenon, <1>1, <2>1 DEF TypeOK, WaitForCompletion, Goto, store, tvars, rvars
<1>2. CASE Deny(c) \/ Respond(c)
  BY Zenon, <1>2 DEF TypeOK, Deny, Respond, Goto, store, tvars, rvars
<1>3. CASE BeginRouting(c) \/ Route(c) \/ Finish(c) \/ FailRow(c) \/ RollbackFinish(c) \/ Activate(c)
  <2>1. cn' \in [Creator -> Attempt]
    BY Zenon, <1>3 DEF TypeOK, BeginRouting, Route, Finish, FailRow, RollbackFinish, Activate
  <2>2. cn[c] \in Attempt
    BY Zenon DEF TypeOK
  <2>3. CASE BeginRouting(c)
    BY Zenon, <2>1, <2>3, TransitType DEF BeginRouting
  <2>4. CASE Route(c)
    <3>1. CASE Transit(c, "routing", "begin_allocation", "primary", "start", "catch")
      BY Zenon, <2>1, <3>1, TransitType DEF Attempt
    <3>2. CASE Transit(c, "routing", "fail", None, "catch", "catch")
      BY Zenon, <2>1, <3>2, TransitType
    <3> QED
      BY Zenon, <2>4, <3>1, <3>2 DEF Route
  <2>5. CASE Finish(c)
    BY Zenon, <2>1, <2>5, TransitType DEF Finish
  <2>6. CASE FailRow(c)
    BY Zenon, <2>1, <2>6, TransitType DEF FailRow
  <2>7. CASE RollbackFinish(c)
    BY Zenon, <2>1, <2>7, TransitType DEF RollbackFinish
  <2>8. CASE Activate(c)
    BY Zenon, <2>1, <2>2, <2>8, TransitType DEF Activate
  <2> QED
    BY Zenon, <1>3, <2>3, <2>4, <2>5, <2>6, <2>7, <2>8
<1>4. CASE StartAttempt(c)
  <2>1. attempts' \in [Creator -> [Attempt -> AttemptStatus]]
    BY <1>4, UpdateEntry DEF StartAttempt, TypeOK, AttemptStatus
  <2>2. cpc' \in [Creator -> CreatePc]
    BY Zenon, <1>4 DEF StartAttempt, TypeOK
  <2> QED
    BY Zenon, <1>4, <2>1, <2>2 DEF TypeOK, StartAttempt, tvars, rvars
<1>5. CASE Allocate(c)
  <2>1. provider' \in [Creator -> [Attempt -> ProviderStatus]]
    BY <1>5, UpdateEntry DEF Allocate, TypeOK, ProviderStatus
  <2>2. cpc' \in [Creator -> CreatePc]
    BY <1>5 DEF Allocate, TypeOK
  <2> QED
    BY Zenon, <1>5, <2>1, <2>2 DEF TypeOK, Allocate, tvars, rvars
<1>6. CASE RecordFailure(c)
  <2>1. attempts' \in [Creator -> [Attempt -> AttemptStatus]]
    BY <1>6, UpdateEntry DEF RecordFailure, TypeOK, AttemptStatus
  <2>2. cpc' \in [Creator -> CreatePc]
    BY <1>6 DEF RecordFailure, TypeOK
  <2> QED
    BY Zenon, <1>6, <2>1, <2>2 DEF TypeOK, RecordFailure, tvars, rvars
<1>7. CASE BeginFallback(c)
  <2>1. cn' \in [Creator -> Attempt]
    BY Zenon, <1>7 DEF TypeOK, BeginFallback, Attempt
  <2> QED
    BY Zenon, <1>7, <2>1, TransitType DEF BeginFallback, Attempt
<1>8. CASE RecordSuccess(c)
  <2>1. attempts' \in [Creator -> [Attempt -> AttemptStatus]]
    BY <1>8, UpdateEntry DEF RecordSuccess, TypeOK, AttemptStatus
  <2>2. cpc' \in [Creator -> CreatePc]
    BY Zenon, <1>8 DEF RecordSuccess, TypeOK
  <2>3. faults' \in 0 .. MaxFaults
    BY Zenon, <1>8, FaultType DEF RecordSuccess, TypeOK
  <2> QED
    BY Zenon, <1>8, <2>1, <2>2, <2>3 DEF TypeOK, RecordSuccess, tvars, rvars
<1>9. CASE CompleteClaim(c)
  <2>1. CASE Owns(c)
    <3>1. claims' = [claims EXCEPT ![key[c]].state = "succeeded"] /\ claims \in [Key -> Claim]
      BY Zenon, <1>9, <2>1 DEF CompleteClaim, TypeOK
    <3>2. claims' \in [Key -> Claim]
      BY Zenon, <3>1, SettleType
    <3>3. cpc' \in [Creator -> CreatePc]
      BY Zenon, <1>9, <2>1 DEF CompleteClaim, TypeOK
    <3> QED
      BY Zenon, <1>9, <3>2, <3>3 DEF TypeOK, CompleteClaim, tvars, rvars
  <2>2. CASE ~Owns(c)
    BY Zenon, <1>9, <2>2 DEF TypeOK, CompleteClaim, tvars, rvars
  <2> QED
    BY Zenon, <2>1, <2>2
<1>10. CASE Recover(c)
  BY Zenon, <1>10 DEF TypeOK, Recover, Goto, store, tvars, rvars
<1>11. CASE Mark(c)
  <2>1. cn' \in [Creator -> Attempt] /\ cn[c] \in Attempt
    BY Zenon, <1>11 DEF TypeOK, Mark
  <2>2. CASE Transit(c, "mark", "request_termination", None, "cleanup", "orphan")
    BY Zenon, <2>1, <2>2, TransitType
  <2>3. CASE Transit(c, "mark", "retain_for_cleanup", cn[c], "cleanup", "orphan")
    BY Zenon, <2>1, <2>3, TransitType
  <2>4. CASE /\ csess' = [csess EXCEPT ![c] = rows[c]]
             /\ Goto(c, IF rows[c].status = "terminating" THEN "cleanup" ELSE "orphan")
             /\ UNCHANGED <<key, body>>
    BY Zenon, <2>1, <2>4 DEF TypeOK, Goto, store, tvars, rvars
  <2> QED
    BY Zenon, <1>11, <2>2, <2>3, <2>4 DEF Mark
<1>12. CASE Cleanup(c)
  <2>1. cn[c] \in Attempt
    BY Zenon DEF TypeOK
  <2>2. provider' \in [Creator -> [Attempt -> ProviderStatus]]
    BY Zenon, <1>12, <2>1, TerminateType DEF Cleanup, TypeOK
  <2>3. cpc' \in [Creator -> CreatePc]
    <3>1. CASE Terminate(c, cn[c])
      BY Zenon, <1>12, <3>1 DEF Cleanup, TypeOK
    <3>2. CASE UNCHANGED provider
      BY Zenon, <1>12, <3>2 DEF Cleanup, TypeOK
    <3> QED
      BY Zenon, <1>12, <3>1, <3>2 DEF Cleanup
  <2>4. faults' \in 0 .. MaxFaults
    BY Zenon, <1>12, FaultType DEF Cleanup, TypeOK
  <2> QED
    BY Zenon, <1>12, <2>2, <2>3, <2>4 DEF TypeOK, Cleanup, tvars, rvars
<1>13. CASE Catch(c)
  BY Zenon, <1>13 DEF TypeOK, Catch, Goto, store, tvars, rvars
<1>14. CASE Rollback(c)
  <2>1. cn' \in [Creator -> Attempt]
    BY Zenon, <1>14 DEF TypeOK, Rollback
  <2>2. CASE Transit(c, "rollback", "request_termination", None, "rollbackCleanup", "failClaim")
    BY Zenon, <2>1, <2>2, TransitType
  <2>3. CASE /\ csess' = [csess EXCEPT ![c] = IF @.status = "active" THEN rows[c] ELSE @]
             /\ Goto(c, "rollbackCleanup")
             /\ UNCHANGED <<key, body>>
    BY Zenon, <2>1, <2>3 DEF TypeOK, Goto, store, tvars, rvars
  <2> QED
    BY Zenon, <1>14, <2>2, <2>3 DEF Rollback
<1>15. CASE RollbackCleanup(c)
  <2>1. csess[c].ref \in Attempt
    BY <1>15 DEF TypeOK, RollbackCleanup, HandlerKnowledge, CreateInv
  <2>2. provider' \in [Creator -> [Attempt -> ProviderStatus]]
    BY Zenon, <1>15, <2>1, TerminateType DEF RollbackCleanup, TypeOK
  <2>3. cpc' \in [Creator -> CreatePc]
    <3>1. CASE Terminate(c, csess[c].ref)
      BY Zenon, <1>15, <3>1 DEF RollbackCleanup, TypeOK
    <3>2. CASE UNCHANGED provider
      BY Zenon, <1>15, <3>2 DEF RollbackCleanup, TypeOK
    <3> QED
      BY Zenon, <1>15, <3>1, <3>2 DEF RollbackCleanup
  <2>4. faults' \in 0 .. MaxFaults
    BY Zenon, <1>15, FaultType DEF RollbackCleanup, TypeOK
  <2> QED
    BY Zenon, <1>15, <2>2, <2>3, <2>4 DEF TypeOK, RollbackCleanup, tvars, rvars
<1>16. CASE FailClaim(c)
  <2>1. claims' \in [Key -> Claim]
    BY Zenon, <1>16, SettleType DEF FailClaim, TypeOK
  <2>2. cpc' \in [Creator -> CreatePc]
    BY Zenon, <1>16 DEF FailClaim, TypeOK
  <2> QED
    BY Zenon, <1>16, <2>1, <2>2 DEF TypeOK, FailClaim, tvars, rvars
<1> QED
  BY Zenon, <1>1, <1>2, <1>3, <1>4, <1>5, <1>6, <1>7, <1>8, <1>9, <1>10, <1>11, <1>12, <1>13,
     <1>14, <1>15, <1>16 DEF Handle

\* An exception or a crash of a create handler keeps every variable well typed.
LEMMA ThrowType ==
    ASSUME TypeOK, NEW c \in Creator, Throw(c) \/ Crash(c)
    PROVE  TypeOK'
<1>1. OnThrow(cpc[c]) \subseteq CreatePc
  BY Zenon, CreatePcs DEF OnThrow
<1>2. cpc' \in [Creator -> CreatePc]
  BY Zenon, <1>1, CreatePcs DEF TypeOK, Throw, Crash
<1>3. faults' \in 0 .. MaxFaults
  BY Zenon, FaultType DEF Throw, Crash
<1> QED
  BY Zenon, <1>2, <1>3 DEF TypeOK, Throw, Crash, store, tvars, rvars

\* The positions of a delete handler.
LEMMA TerminatePcs ==
    {"idle", "request", "revoke", "release", "complete", "recheck", "respond",
     "closed", "rejected", "error", "crashed"} \subseteq TerminatePc
BY Zenon DEF TerminatePc, TerminateWork, TerminateFinal

\* Every step of a delete handler keeps every variable well typed.
LEMMA DeleteType ==
    ASSUME TypeOK, HandlerKnowledge, NEW t \in Terminator, Delete(t)
    PROVE  TypeOK'
<1> USE TerminatePcs DEF Events
<1>1. CASE \E s \in Creator : Find(t, s)
  BY <1>1 DEF TypeOK, Find, store, cvars, rvars
<1>a. tpc[t] \in TerminateWork => ttgt[t] \in Creator
  BY Zenon DEF HandlerKnowledge, DeleteInv
<1>2. CASE RequestTermination(t)
  <2>1. ttgt[t] \in Creator
    BY Zenon, <1>2, <1>a DEF RequestTermination, TerminateWork
  <2>2. rows' \in [Creator -> Session]
    BY Zenon, <1>2, <2>1, CommittedType DEF RequestTermination, Returned, Refused, TypeOK
  <2>3. tsess' \in [Terminator -> Session]
    BY Zenon, <1>2, <2>1, <2>2 DEF RequestTermination, TypeOK
  <2>4. tpc' \in [Terminator -> TerminatePc]
    BY Zenon, <1>2 DEF RequestTermination, TypeOK
  <2> QED
    BY Zenon, <1>2, <2>2, <2>3, <2>4 DEF TypeOK, RequestTermination, cvars, rvars
<1>3. CASE RevokeSession(t)
  <2>1. ttgt[t] \in Creator
    BY Zenon, <1>3, <1>a DEF RevokeSession, TerminateWork
  <2>2. faults' \in 0 .. MaxFaults
    BY Zenon, <1>3, FaultType DEF RevokeSession, TypeOK
  <2> QED
    BY Zenon, <1>3, <2>1, <2>2 DEF TypeOK, RevokeSession, cvars, rvars
<1>4. CASE ReleaseProvider(t)
  <2>1. ttgt[t] \in Creator
    BY Zenon, <1>4, <1>a DEF ReleaseProvider, TerminateWork
  <2>2. tsess[t].ref # None => tsess[t].ref \in Attempt
    BY Zenon DEF TypeOK, Session
  <2>3. provider' \in [Creator -> [Attempt -> ProviderStatus]]
    BY Zenon, <1>4, <2>1, <2>2, TerminateType DEF ReleaseProvider, TypeOK
  <2>4. faults' \in 0 .. MaxFaults
    BY Zenon, <1>4, FaultType DEF ReleaseProvider, TypeOK
  <2>5. tpc' \in [Terminator -> TerminatePc]
    BY Zenon, <1>4 DEF ReleaseProvider, TypeOK
  <2> QED
    BY Zenon, <1>4, <2>3, <2>4, <2>5 DEF TypeOK, ReleaseProvider, cvars, rvars
<1>5. CASE CompleteTermination(t)
  <2>1. ttgt[t] \in Creator
    BY Zenon, <1>5, <1>a DEF CompleteTermination, TerminateWork
  <2>2. rows' \in [Creator -> Session]
    BY Zenon, <1>5, <2>1, CommittedType DEF CompleteTermination, Refused, TypeOK
  <2>3. tpc' \in [Terminator -> TerminatePc]
    BY Zenon, <1>5 DEF CompleteTermination, TypeOK
  <2> QED
    BY Zenon, <1>5, <2>2, <2>3 DEF TypeOK, CompleteTermination, cvars, rvars
<1>6. CASE Recheck(t) \/ RespondTermination(t)
  BY <1>6 DEF TypeOK, Recheck, RespondTermination, store, cvars, rvars
<1>7. CASE ThrowTermination(t)
  BY <1>7, FaultType DEF TypeOK, ThrowTermination, store, cvars, rvars
<1> QED
  BY Zenon, <1>1, <1>2, <1>3, <1>4, <1>5, <1>6, <1>7 DEF Delete

\* The positions of the reconciliation job.
LEMMA ReconcilePcs ==
    {"idle", "candidate", "finalize", "terminate", "complete"} \subseteq ReconcilePc
BY Zenon DEF ReconcilePc, ReconcileWork

\* Dropping the candidate keeps the job's variables well typed.
LEMMA DoneType ==
    ASSUME TypeOK, NEW r \in Reconciler, Done(r)
    PROVE  /\ rpc' \in [Reconciler -> ReconcilePc]
           /\ rsess' \in [Reconciler -> Session]
           /\ rtgt' \in [Reconciler -> Creator \cup {None}]
<1>1. Absent \in Session
  BY Zenon DEF Absent, Session
<1> QED
  BY Zenon, <1>1, ReconcilePcs DEF TypeOK, Done

\* Every step of the reconciliation job keeps every variable well typed.
LEMMA ReconcileType ==
    ASSUME TypeOK, HandlerKnowledge, NEW r \in Reconciler, Reconcile(r)
    PROVE  TypeOK'
<1> USE ReconcilePcs DEF Events
<1>a. rpc[r] # "idle" => rtgt[r] \in Creator
  BY Zenon DEF HandlerKnowledge, ReconcileInv
<1>1. CASE \E s \in Creator : FindCandidate(r, s)
  BY <1>1 DEF TypeOK, FindCandidate, store, cvars, tvars
<1>2. CASE FailStale(r)
  <2>1. rtgt[r] \in Creator
    BY Zenon, <1>2, <1>a DEF FailStale
  <2>2. rows' \in [Creator -> Session]
    BY Zenon, <1>2, <2>1, CommittedType DEF FailStale, Refused, TypeOK
  <2>3. /\ rpc' \in [Reconciler -> ReconcilePc]
        /\ rsess' \in [Reconciler -> Session]
        /\ rtgt' \in [Reconciler -> Creator \cup {None}]
    BY Zenon, <1>2, DoneType DEF FailStale, TypeOK
  <2> QED
    BY Zenon, <1>2, <2>2, <2>3 DEF TypeOK, FailStale, cvars, tvars
<1>3. CASE FinalizeCreate(r)
  <2>1. claims' \in [Key -> Claim]
    BY <1>3 DEF FinalizeCreate, TypeOK, Claim
  <2> QED
    BY Zenon, <1>3, <2>1, DoneType DEF TypeOK, FinalizeCreate, cvars, tvars
<1>4. CASE ExpireActive(r)
  <2>1. rtgt[r] \in Creator
    BY Zenon, <1>4, <1>a DEF ExpireActive
  <2>2. rows' \in [Creator -> Session]
    BY Zenon, <1>4, <2>1, CommittedType DEF ExpireActive, Returned, Refused, TypeOK
  <2>3. CASE Done(r)
    BY Zenon, <1>4, <2>2, <2>3, DoneType DEF TypeOK, ExpireActive, cvars, tvars
  <2>4. CASE ~Done(r)
    <3>1. /\ rsess' = [rsess EXCEPT ![r] = rows'[rtgt[r]]]
          /\ rpc' = [rpc EXCEPT ![r] = "terminate"]
          /\ rtgt' = rtgt
      BY Zenon, <1>4, <2>4 DEF ExpireActive
    <3> QED
      BY Zenon, <1>4, <2>1, <2>2, <3>1 DEF TypeOK, ExpireActive, cvars, tvars
  <2> QED
    BY Zenon, <2>3, <2>4
<1>5. CASE TerminateProvider(r)
  <2>1. rtgt[r] \in Creator /\ rsess[r].ref \in Attempt
    BY Zenon, <1>5, <1>a DEF TerminateProvider, HandlerKnowledge, ReconcileInv
  <2>2. provider' \in [Creator -> [Attempt -> ProviderStatus]]
    BY Zenon, <1>5, <2>1, TerminateType DEF TerminateProvider
  <2> QED
    BY Zenon, <1>5, <2>2 DEF TypeOK, TerminateProvider, cvars, tvars
<1>6. CASE CompleteReconciled(r)
  <2>1. rtgt[r] \in Creator
    BY Zenon, <1>6, <1>a DEF CompleteReconciled
  <2>2. rows' \in [Creator -> Session]
    BY Zenon, <1>6, <2>1, CommittedType DEF CompleteReconciled, Refused, TypeOK
  <2> QED
    BY Zenon, <1>6, <2>2, DoneType DEF TypeOK, CompleteReconciled, cvars, tvars
<1>7. CASE Skip(r)
  BY Zenon, <1>7, DoneType, FaultType DEF TypeOK, Skip, store, cvars, tvars
<1> QED
  BY Zenon, <1>1, <1>2, <1>3, <1>4, <1>5, <1>6, <1>7 DEF Reconcile, Work

\* Type correctness is preserved by every step from a state in which the
\* handlers know what they should.
LEMMA NextType ==
    ASSUME TypeOK, HandlerKnowledge, Next
    PROVE  TypeOK'
<1>1. CASE \E c \in Creator : Create(c)
  BY Zenon, <1>1, ArriveType, HandleType, ThrowType DEF Create
<1>2. CASE \E t \in Terminator : Delete(t)
  BY Zenon, <1>2, DeleteType
<1>3. CASE \E r \in Reconciler : Reconcile(r)
  BY Zenon, <1>3, ReconcileType
<1>4. CASE \E s \in Creator, n \in Attempt : ProviderExpires(s, n)
  BY Zenon, <1>4, TerminateType DEF TypeOK, ProviderExpires, cvars, tvars, rvars
<1> QED
  BY Zenon, <1>1, <1>2, <1>3, <1>4 DEF Next

-------------------------------------------------------------------------------
(* What a step may do to a session: the rely conditions of the handlers.     *)

\* A row stays, or takes a newer version that keeps its reference.
RowMoves(s) ==
    \/ rows'[s] = rows[s]
    \/ /\ rows'[s].version > rows[s].version
       /\ rows'[s].status # "absent"
       /\ rows[s].ref # None => rows'[s].ref = rows[s].ref

\* Any step, seen from session s by the handlers that hold a copy of its row.
Evolves(s) ==
    /\ rows[s].status # "absent" => RowMoves(s)
    /\ \A n \in Attempt :
          /\ provider[s][n] \in {"live", "gone"} => provider'[s][n] \in {"live", "gone"}
          /\ provider[s][n] = "gone" => provider'[s][n] = "gone"

\* A step of any process but create request s, seen from that request.
Interferes(s) ==
    /\ RowMoves(s)
    /\ rows[s].status = "absent" => rows'[s] = rows[s]
    /\ rows'[s].ref = rows[s].ref
    /\ attempts'[s] = attempts[s]
    /\ \A n \in Attempt :
          \/ provider'[s][n] = provider[s][n]
          \/ provider[s][n] \in {"live", "lost", "gone"} /\ provider'[s][n] = "gone"
    /\ cpc'[s] = cpc[s]
    /\ csess'[s] = csess[s]
    /\ cn'[s] = cn[s]

\* The table of transition events.
LEMMA EventTable ==
    /\ Sources("begin_routing") = {"pending"} /\ Target("begin_routing") = "routing"
    /\ Sources("begin_allocation") = {"routing"} /\ Target("begin_allocation") = "allocating"
    /\ Sources("begin_fallback_allocation") = {"allocating"}
    /\ Target("begin_fallback_allocation") = "fallback_allocating"
    /\ Sources("activate") = {"allocating", "fallback_allocating"} /\ Target("activate") = "active"
    /\ Sources("retain_for_cleanup") = {"allocating", "fallback_allocating"}
    /\ Target("retain_for_cleanup") = "terminating"
    /\ Sources("request_termination") = {"active"} /\ Target("request_termination") = "terminating"
    /\ Sources("complete_termination") = {"terminating"}
    /\ Target("complete_termination") = "terminated"
    /\ Sources("fail") = ActiveQuotaStatuses /\ Target("fail") = "failed"
BY Zenon DEF Sources, Target

\* A copy stays a version of its row when the row moves on.
LEMMA KnownStable ==
    ASSUME TypeOK, TypeOK', NEW copy \in Session, NEW s \in Creator,
           Known(copy, rows[s]), RowMoves(s)
    PROVE  Known(copy, rows'[s])
<1>1. rows[s] \in Session /\ rows'[s] \in Session
  BY Zenon DEF TypeOK
<1>2. copy.version \in Nat /\ rows[s].version \in Nat /\ rows'[s].version \in Nat
  BY Zenon, <1>1 DEF Session
<1> QED
  BY <1>2 DEF Known, RowMoves

\* What a delete request knows survives the steps of all others.
LEMMA DeleteFrame ==
    ASSUME TypeOK, TypeOK', NEW t \in Terminator, DeleteInv(t),
           tpc'[t] = tpc[t], ttgt'[t] = ttgt[t], tsess'[t] = tsess[t],
           \A s \in Creator : Evolves(s)
    PROVE  DeleteInv(t)'
<1>1. tpc'[t] = tpc[t] /\ ttgt'[t] = ttgt[t] /\ tsess'[t] = tsess[t] /\ tsess[t] \in Session
  BY Zenon DEF TypeOK
<1>2. ASSUME tpc[t] \in TerminateWork
      PROVE  ttgt[t] \in Creator /\ Known(tsess[t], rows'[ttgt[t]])
  <2>1. ttgt[t] \in Creator /\ Known(tsess[t], rows[ttgt[t]])
    BY Zenon, <1>2 DEF DeleteInv
  <2>2. RowMoves(ttgt[t])
    BY Zenon, <2>1 DEF Evolves, Known
  <2> QED
    BY Zenon, <1>1, <2>1, <2>2, KnownStable
<1>3. ASSUME tpc[t] = "complete"
      PROVE  tsess[t].ref # None /\ provider'[ttgt[t]][tsess[t].ref] = "gone"
  <2>1. ttgt[t] \in Creator /\ tsess[t].ref # None /\ provider[ttgt[t]][tsess[t].ref] = "gone"
    BY Zenon, <1>3 DEF DeleteInv, TerminateWork
  <2>2. tsess[t].ref \in Attempt
    BY Zenon, <1>1, <2>1 DEF Session
  <2> QED
    BY Zenon, <2>1, <2>2 DEF Evolves
<1> QED
  BY Zenon, <1>1, <1>2, <1>3 DEF DeleteInv

\* What the reconciler knows survives the steps of all others.
LEMMA ReconcileFrame ==
    ASSUME TypeOK, TypeOK', NEW r \in Reconciler, ReconcileInv(r),
           rpc'[r] = rpc[r], rtgt'[r] = rtgt[r], rsess'[r] = rsess[r],
           \A s \in Creator : Evolves(s)
    PROVE  ReconcileInv(r)'
<1>1. rpc'[r] = rpc[r] /\ rtgt'[r] = rtgt[r] /\ rsess'[r] = rsess[r] /\ rsess[r] \in Session
  BY Zenon DEF TypeOK
<1>2. ASSUME rpc[r] # "idle"
      PROVE  rtgt[r] \in Creator /\ Known(rsess[r], rows'[rtgt[r]])
  <2>1. rtgt[r] \in Creator /\ Known(rsess[r], rows[rtgt[r]])
    BY Zenon, <1>2 DEF ReconcileInv
  <2>2. RowMoves(rtgt[r])
    BY Zenon, <2>1 DEF Evolves, Known
  <2> QED
    BY Zenon, <1>1, <2>1, <2>2, KnownStable
<1>3. ASSUME rpc[r] = "complete"
      PROVE  provider'[rtgt[r]][rsess[r].ref] = "gone"
  BY Zenon, <1>3 DEF ReconcileInv, Evolves
<1> QED
  BY Zenon, <1>1, <1>2, <1>3 DEF ReconcileInv

\* What a create request knows survives the steps of all others.
LEMMA CreateFrame ==
    ASSUME TypeOK, TypeOK', NEW c \in Creator, CreateInv(c), Interferes(c)
    PROVE  CreateInv(c)'
<1>1. /\ cpc'[c] = cpc[c] /\ csess'[c] = csess[c] /\ cn'[c] = cn[c]
      /\ attempts'[c] = attempts[c] /\ rows'[c].ref = rows[c].ref
      /\ rows[c].status = "absent" <=> rows'[c].status = "absent"
      /\ rows[c].status = "absent" => rows'[c] = rows[c]
      /\ cn[c] \in Attempt /\ csess[c] \in Session
  BY Zenon DEF Interferes, RowMoves, TypeOK
<1>2. \A n \in Attempt :
         /\ provider[c][n] = "none" => provider'[c][n] = "none"
         /\ provider[c][n] # "live" => provider'[c][n] # "live"
         /\ provider[c][n] = "gone" => provider'[c][n] = "gone"
         /\ provider[c][n] \in {"live", "gone"} => provider'[c][n] \in {"live", "gone"}
  BY Zenon DEF Interferes
<1>3. Known(csess[c], rows[c]) => Known(csess[c], rows'[c])
  BY Zenon, <1>1, KnownStable DEF Interferes
<1>4. "primary" \in Attempt /\ "fallback" \in Attempt
  BY Zenon DEF Attempt
<1> QED
  BY <1>1, <1>2, <1>3, <1>4 DEF CreateInv

-------------------------------------------------------------------------------
(* The compare-and-set: a copy whose version is current is the current row.  *)

\* A transition that commits starts from the very row its caller has read
\* (transitionSessionForTenant updates where version and status still match).
LEMMA CommitExact ==
    ASSUME TypeOK, NEW s \in Creator, NEW copy \in Session, Known(copy, rows[s]),
           NEW e, NEW n, Committed(s, copy, e, n)
    PROVE  /\ rows[s] = copy
           /\ copy.status \in Sources(e)
           /\ rows'[s] = Apply(copy, e, n)
           /\ rows'[s].version > rows[s].version
           /\ \A x \in Creator \ {s} : rows'[x] = rows[x]
<1>1. rows[s] = copy /\ copy.version \in Nat
  BY Zenon DEF Committed, Known, Session
<1>2. rows'[s] = Apply(copy, e, n) /\ \A x \in Creator \ {s} : rows'[x] = rows[x]
  BY Zenon, <1>1 DEF Committed, TypeOK
<1>3. rows'[s].version = copy.version + 1
  BY <1>2 DEF Apply
<1> QED
  BY <1>1, <1>2, <1>3 DEF Committed, Accepts

\* A failed, requested or completed termination respects the row's invariant
\* when only pre-active copies fail and only released browsers are completed.
LEMMA EndCommit ==
    ASSUME TypeOK, TypeOK', NEW s \in Creator, NEW copy \in Session, Known(copy, rows[s]), RowInv(s),
           NEW e \in {"fail", "request_termination", "complete_termination"},
           Committed(s, copy, e, None),
           e = "fail" => copy.status \in PreActive,
           e = "complete_termination" => copy.ref # None /\ provider[s][copy.ref] = "gone",
           provider' = provider, attempts' = attempts
    PROVE  /\ RowInv(s)'
           /\ RowMoves(s)
           /\ rows'[s].ref = rows[s].ref
           /\ rows'[s].status = Target(e)
           /\ Known(rows'[s], rows'[s])
<1>1. /\ rows[s] = copy /\ copy.status \in Sources(e) /\ rows'[s].version > rows[s].version
      /\ rows'[s] = Apply(copy, e, None)
  BY CommitExact
<1>2. rows'[s].status = Target(e) /\ rows'[s].ref = copy.ref
  BY <1>1 DEF Apply
<1>3. Target(e) \in {"failed", "terminating", "terminated"}
  BY Zenon, EventTable
<1>4. RowMoves(s)
  BY Zenon, <1>1, <1>2, <1>3 DEF RowMoves
<1>5. Known(rows'[s], rows'[s])
  <2>1. rows'[s].version \in Nat
    BY Zenon DEF TypeOK, Session
  <2> QED
    BY <1>2, <1>3, <2>1 DEF Known
<1>6. ASSUME e = "fail" PROVE RowInv(s)'
  <2>1. rows[s].status \in PreActive /\ rows'[s].status = "failed" /\ rows'[s].ref = rows[s].ref
    BY Zenon, <1>1, <1>2, <1>6, EventTable
  <2> QED
    BY Zenon, <2>1 DEF RowInv, PreActive
<1>7. ASSUME e = "request_termination" PROVE RowInv(s)'
  <2>1. rows[s].status = "active" /\ rows'[s].status = "terminating" /\ rows'[s].ref = rows[s].ref
    BY Zenon, <1>1, <1>2, <1>7, EventTable
  <2> QED
    BY Zenon, <2>1 DEF RowInv, PreActive
<1>8. ASSUME e = "complete_termination" PROVE RowInv(s)'
  <2>1. /\ rows[s].status = "terminating" /\ rows'[s].status = "terminated"
        /\ rows'[s].ref = rows[s].ref /\ provider[s][rows[s].ref] = "gone"
    BY Zenon, <1>1, <1>2, <1>8, EventTable
  <2> QED
    BY Zenon, <2>1 DEF RowInv, PreActive
<1> QED
  BY Zenon, <1>1, <1>2, <1>4, <1>5, <1>6, <1>7, <1>8

\* Ending a browser respects the invariant of the row.
LEMMA ReleaseRow ==
    ASSUME TypeOK, NEW s \in Creator, NEW n \in Attempt, RowInv(s), Terminate(s, n),
           rows' = rows, attempts' = attempts
    PROVE  /\ RowInv(s)' /\ Evolves(s)
           /\ provider'[s][n] = "gone"
           /\ \A m \in Attempt \ {n} : provider'[s][m] = provider[s][m]
           /\ \A x \in Creator \ {s} : provider'[x] = provider[x]
<1>1. /\ provider'[s][n] = "gone"
      /\ \A m \in Attempt \ {n} : provider'[s][m] = provider[s][m]
      /\ \A x \in Creator \ {s} : provider'[x] = provider[x]
  BY Zenon DEF Terminate, TypeOK
<1>2. RowInv(s)'
  BY Zenon, <1>1 DEF RowInv
<1>3. Evolves(s)
  BY Zenon, <1>1 DEF Evolves, RowMoves
<1> QED
  BY Zenon, <1>1, <1>2, <1>3

\* What create request x may see of other processes, every holder of a copy of
\* its row can rely on.
LEMMA InterferesEvolves ==
    ASSUME NEW x \in Creator, Interferes(x)
    PROVE  Evolves(x)
BY Zenon DEF Interferes, Evolves

-------------------------------------------------------------------------------
(* Steps of the other processes, seen from the sessions                      *)

\* A step that every create request can live with.
Gentle == \A s \in Creator : RowInv(s)' /\ Interferes(s)

\* Leaving rows, attempts and browsers alone is gentle.
LEMMA StillGentle ==
    ASSUME HandlerKnowledge, rows' = rows, attempts' = attempts, provider' = provider,
           UNCHANGED cvars
    PROVE  Gentle
BY Zenon DEF HandlerKnowledge, Gentle, Interferes, RowMoves, RowInv, cvars

\* Ending a session by compare-and-set is gentle.
LEMMA EndGentle ==
    ASSUME TypeOK, TypeOK', HandlerKnowledge, NEW s \in Creator, NEW copy \in Session,
           Known(copy, rows[s]),
           NEW e \in {"fail", "request_termination", "complete_termination"},
           Committed(s, copy, e, None),
           e = "fail" => copy.status \in PreActive,
           e = "complete_termination" => copy.ref # None /\ provider[s][copy.ref] = "gone",
           provider' = provider, attempts' = attempts, UNCHANGED cvars
    PROVE  Gentle /\ rows'[s].status = Target(e) /\ Known(rows'[s], rows'[s])
                  /\ Known(copy, rows'[s]) /\ rows'[s].ref = rows[s].ref
<1>1. /\ RowInv(s)' /\ RowMoves(s) /\ rows'[s].ref = rows[s].ref
      /\ rows'[s].status = Target(e) /\ Known(rows'[s], rows'[s])
  BY Zenon, EndCommit DEF HandlerKnowledge
<1>2. \A x \in Creator \ {s} : rows'[x] = rows[x]
  BY Zenon, CommitExact
<1>3. Known(copy, rows'[s])
  BY Zenon, <1>1, KnownStable
<1>4. \A x \in Creator \ {s} : RowInv(x)' /\ Interferes(x)
  BY <1>2 DEF HandlerKnowledge, RowInv, Interferes, RowMoves, cvars
<1>5. Interferes(s)
  BY Zenon, <1>1 DEF Interferes, Known, cvars
<1> QED
  BY Zenon, <1>1, <1>3, <1>4, <1>5 DEF Gentle

\* Ending a browser that exists is gentle.
LEMMA ReleaseGentle ==
    ASSUME TypeOK, HandlerKnowledge, NEW s \in Creator, NEW n \in Attempt,
           provider[s][n] \in {"live", "lost", "gone"}, Terminate(s, n),
           rows' = rows, attempts' = attempts, UNCHANGED cvars
    PROVE  Gentle /\ provider'[s][n] = "gone"
<1>1. /\ RowInv(s)' /\ Evolves(s)
      /\ provider'[s][n] = "gone"
      /\ \A m \in Attempt \ {n} : provider'[s][m] = provider[s][m]
      /\ \A x \in Creator \ {s} : provider'[x] = provider[x]
  BY Zenon, ReleaseRow DEF HandlerKnowledge
<1>2. \A x \in Creator \ {s} : RowInv(x)' /\ Interferes(x)
  BY <1>1 DEF HandlerKnowledge, RowInv, Interferes, RowMoves, cvars
<1>3. Interferes(s)
  BY Zenon, <1>1 DEF Interferes, RowMoves, cvars
<1> QED
  BY Zenon, <1>1, <1>2, <1>3 DEF Gentle

\* A reference in a copy names a browser the control plane received.
LEMMA RefReceived ==
    ASSUME TypeOK, NEW s \in Creator, RowInv(s), NEW copy \in Session, Known(copy, rows[s]),
           copy.ref # None
    PROVE  copy.ref \in Attempt /\ provider[s][copy.ref] \in {"live", "gone"}
<1>1. rows[s].ref = copy.ref /\ rows[s] \in Session /\ rows[s].status # "absent"
  BY Zenon DEF Known, TypeOK
<1>2. rows[s].status \in {"active", "terminating", "terminated"}
  BY Zenon, <1>1 DEF RowInv, Session, SessionStatuses, ActiveQuotaStatuses, Terminal
<1> QED
  BY Zenon, <1>1, <1>2 DEF RowInv

\* A gentle step keeps what all processes know of the sessions, but for the
\* process that takes it.
LEMMA GentleFrame ==
    ASSUME TypeOK, TypeOK', HandlerKnowledge, Gentle
    PROVE  /\ \A s \in Creator : RowInv(s)' /\ CreateInv(s)' /\ Evolves(s)
           /\ \A t \in Terminator :
                 tpc'[t] = tpc[t] /\ ttgt'[t] = ttgt[t] /\ tsess'[t] = tsess[t] => DeleteInv(t)'
           /\ \A r \in Reconciler :
                 rpc'[r] = rpc[r] /\ rtgt'[r] = rtgt[r] /\ rsess'[r] = rsess[r] => ReconcileInv(r)'
<1>1. \A s \in Creator : RowInv(s)' /\ CreateInv(s)' /\ Evolves(s)
  BY Zenon, CreateFrame, InterferesEvolves DEF HandlerKnowledge, Gentle
<1>2. ASSUME NEW t \in Terminator,
             tpc'[t] = tpc[t] /\ ttgt'[t] = ttgt[t] /\ tsess'[t] = tsess[t]
      PROVE  DeleteInv(t)'
  BY Zenon, <1>1, <1>2, DeleteFrame DEF HandlerKnowledge
<1>3. ASSUME NEW r \in Reconciler,
             rpc'[r] = rpc[r] /\ rtgt'[r] = rtgt[r] /\ rsess'[r] = rsess[r]
      PROVE  ReconcileInv(r)'
  BY Zenon, <1>1, <1>3, ReconcileFrame DEF HandlerKnowledge
<1> QED
  BY Zenon, <1>1, <1>2, <1>3

\* Every step of a delete request is gentle and keeps what the request knows.
LEMMA DeleteOwn ==
    ASSUME TypeOK, TypeOK', HandlerKnowledge, NEW t \in Terminator, Delete(t)
    PROVE  Gentle /\ DeleteInv(t)'
<1> DEFINE s == ttgt[t]
<1>a. DeleteInv(t) /\ tsess[t] \in Session /\ tsess'[t] \in Session
  BY Zenon DEF HandlerKnowledge, TypeOK
<1>b. tpc[t] \in TerminateWork => s \in Creator /\ Known(tsess[t], rows[s]) /\ RowInv(s)
  BY Zenon, <1>a DEF DeleteInv, HandlerKnowledge
<1>1. CASE \E x \in Creator : Find(t, x)
  <2> PICK x \in Creator : Find(t, x)
    BY Zenon, <1>1
  <2>1. Gentle
    BY Zenon, StillGentle DEF Find, store
  <2>2. rows[x].status # "absent" /\ rows' = rows /\ tsess'[t] = rows[x] /\ ttgt'[t] = x
        /\ tpc'[t] \in {"closed", "request"} /\ rows[x] \in Session
    BY Zenon DEF Find, store, TypeOK
  <2>3. Known(rows[x], rows[x])
    BY <2>2 DEF Known, Session
  <2>4. DeleteInv(t)'
    BY Zenon, <2>2, <2>3 DEF DeleteInv
  <2> QED
    BY Zenon, <2>1, <2>4
<1>2. CASE RequestTermination(t)
  <2>1. /\ tpc[t] = "request" /\ s \in Creator /\ Known(tsess[t], rows[s])
        /\ provider' = provider /\ attempts' = attempts /\ UNCHANGED cvars /\ ttgt' = ttgt
    BY Zenon, <1>2, <1>b DEF RequestTermination, TerminateWork
  <2>2. CASE Committed(s, tsess[t], "request_termination", None) /\ tpc'[t] = "revoke"
             /\ tsess'[t] = rows'[s]
    <3>1. Gentle /\ Known(rows'[s], rows'[s])
      BY Zenon, <1>a, <2>1, <2>2, EndGentle
    <3> QED
      BY Zenon, <2>1, <2>2, <3>1 DEF DeleteInv
  <2>3. CASE Returned(s, "request_termination") /\ tpc'[t] = "revoke" /\ tsess'[t] = rows'[s]
    <3>1. rows' = rows /\ Known(rows[s], rows[s])
      BY <2>1, <2>3 DEF Returned, Known, TypeOK, Session
    <3> QED
      BY Zenon, <2>1, <2>3, <3>1, StillGentle DEF DeleteInv
  <2>4. CASE Refused(s, tsess[t], "request_termination") /\ tpc'[t] = "rejected"
    <3>1. rows' = rows
      BY Zenon, <2>4 DEF Refused
    <3> QED
      BY Zenon, <2>1, <2>4, <3>1, StillGentle DEF DeleteInv, TerminateWork
  <2> QED
    BY Zenon, <1>2, <2>2, <2>3, <2>4 DEF RequestTermination, TypeOK
<1>3. CASE ReleaseProvider(t)
  <2>1. /\ tpc[t] = "release" /\ s \in Creator /\ Known(tsess[t], rows[s]) /\ RowInv(s)
        /\ rows' = rows /\ attempts' = attempts /\ UNCHANGED cvars /\ ttgt' = ttgt
        /\ tsess' = tsess
    BY Zenon, <1>3, <1>b DEF ReleaseProvider, TerminateWork
  <2>2. CASE tsess[t].ref # None /\ Terminate(s, tsess[t].ref) /\ tpc'[t] = "complete"
    <3>1. tsess[t].ref \in Attempt /\ provider[s][tsess[t].ref] \in {"live", "gone"}
      BY Zenon, <1>a, <2>1, <2>2, RefReceived
    <3>2. Gentle /\ provider'[s][tsess[t].ref] = "gone"
      BY Zenon, <2>1, <2>2, <3>1, ReleaseGentle
    <3> QED
      BY Zenon, <2>1, <2>2, <3>2 DEF DeleteInv
  <2>3. CASE tpc'[t] = "error" /\ provider' = provider
    BY Zenon, <2>1, <2>3, StillGentle DEF DeleteInv, TerminateWork
  <2> QED
    BY Zenon, <1>3, <2>2, <2>3 DEF ReleaseProvider, TypeOK
<1>4. CASE CompleteTermination(t)
  <2>1. /\ tpc[t] = "complete" /\ s \in Creator /\ Known(tsess[t], rows[s])
        /\ tsess[t].ref # None /\ provider[s][tsess[t].ref] = "gone"
        /\ provider' = provider /\ attempts' = attempts /\ UNCHANGED cvars /\ ttgt' = ttgt
        /\ tsess' = tsess
    BY Zenon, <1>4, <1>a, <1>b DEF CompleteTermination, TerminateWork, DeleteInv
  <2>2. CASE Committed(s, tsess[t], "complete_termination", None) /\ tpc'[t] = "respond"
    <3>1. Gentle /\ Known(tsess[t], rows'[s])
      BY Zenon, <1>a, <2>1, <2>2, EndGentle
    <3> QED
      BY Zenon, <2>1, <2>2, <3>1 DEF DeleteInv
  <2>3. CASE Refused(s, tsess[t], "complete_termination") /\ tpc'[t] \in {"recheck", "error"}
    <3>1. rows' = rows
      BY Zenon, <2>3 DEF Refused
    <3> QED
      BY Zenon, <2>1, <2>3, <3>1, StillGentle DEF DeleteInv, TerminateWork
  <2> QED
    BY Zenon, <1>4, <2>2, <2>3 DEF CompleteTermination, TypeOK
<1>5. CASE RevokeSession(t) \/ Recheck(t) \/ RespondTermination(t) \/ ThrowTermination(t)
  <2>1. /\ rows' = rows /\ attempts' = attempts /\ provider' = provider /\ UNCHANGED cvars
        /\ ttgt' = ttgt /\ tsess' = tsess /\ tpc[t] \in TerminateWork
    BY Zenon, <1>5 DEF RevokeSession, Recheck, RespondTermination, ThrowTermination, store, TerminateWork
  <2>2. tpc'[t] \in {"release", "respond", "error", "closed", "crashed"}
    BY Zenon, <1>5 DEF RevokeSession, Recheck, RespondTermination, ThrowTermination, TypeOK
  <2> QED
    BY Zenon, <1>b, <2>1, <2>2, StillGentle DEF DeleteInv, TerminateWork
<1> QED
  BY Zenon, <1>1, <1>2, <1>3, <1>4, <1>5 DEF Delete

\* A dropped candidate leaves nothing to know.
LEMMA DoneInv ==
    ASSUME TypeOK, NEW r \in Reconciler, Done(r)
    PROVE  ReconcileInv(r)'
<1>1. rpc'[r] = "idle"
  BY Zenon DEF Done, TypeOK
<1> QED
  BY Zenon, <1>1 DEF ReconcileInv

\* Every step of the reconciler is gentle and keeps what it knows.
LEMMA ReconcileOwn ==
    ASSUME TypeOK, TypeOK', HandlerKnowledge, NEW r \in Reconciler, Reconcile(r)
    PROVE  Gentle /\ ReconcileInv(r)'
<1> DEFINE s == rtgt[r]
<1>a. ReconcileInv(r) /\ rsess[r] \in Session /\ rsess'[r] \in Session
  BY Zenon DEF HandlerKnowledge, TypeOK
<1>b. rpc[r] # "idle" => s \in Creator /\ Known(rsess[r], rows[s]) /\ RowInv(s)
  BY Zenon, <1>a DEF ReconcileInv, HandlerKnowledge
<1>1. CASE \E x \in Creator : FindCandidate(r, x)
  <2> PICK x \in Creator : FindCandidate(r, x)
    BY Zenon, <1>1
  <2>1. Gentle
    BY Zenon, StillGentle DEF FindCandidate, store
  <2>2. /\ rows' = rows /\ provider' = provider /\ rsess'[r] = rows[x] /\ rtgt'[r] = x
        /\ rows[x] \in Session /\ Candidate(x) /\ RowInv(x)
    BY Zenon DEF FindCandidate, store, TypeOK, HandlerKnowledge
  <2>3. /\ rows[x].status \in PreActive \cup {"active", "terminating", "failed"}
        /\ Known(rows[x], rows[x])
    BY <2>2 DEF Candidate, Known, PreActive, Session
  <2>4. rpc'[r] = IF rows[x].status = "failed" THEN "finalize"
                  ELSE IF rows[x].status = "terminating" THEN "terminate" ELSE "candidate"
    BY Zenon DEF FindCandidate, TypeOK
  <2>5. ReconcileInv(r)'
    BY Zenon, <2>2, <2>3, <2>4 DEF ReconcileInv, RowInv
  <2> QED
    BY Zenon, <2>1, <2>5
<1>2. CASE FailStale(r)
  <2>1. /\ rpc[r] = "candidate" /\ s \in Creator /\ Known(rsess[r], rows[s])
        /\ rsess[r].status \in PreActive
        /\ provider' = provider /\ attempts' = attempts /\ UNCHANGED cvars
    BY Zenon, <1>2, <1>b DEF FailStale
  <2>2. CASE Committed(s, rsess[r], "fail", None) /\ rpc'[r] = "finalize"
             /\ rsess' = rsess /\ rtgt' = rtgt
    <3>1. Gentle /\ Known(rsess[r], rows'[s])
      BY Zenon, <1>a, <2>1, <2>2, EndGentle
    <3> QED
      BY Zenon, <2>1, <2>2, <3>1 DEF ReconcileInv
  <2>3. CASE Refused(s, rsess[r], "fail") /\ Done(r)
    <3>1. rows' = rows
      BY Zenon, <2>3 DEF Refused
    <3> QED
      BY Zenon, <2>1, <2>3, <3>1, StillGentle, DoneInv
  <2> QED
    BY Zenon, <1>2, <2>2, <2>3 DEF FailStale, TypeOK
<1>3. CASE FinalizeCreate(r) \/ Skip(r)
  BY Zenon, <1>3, StillGentle, DoneInv DEF FinalizeCreate, Skip, store
<1>4. CASE ExpireActive(r)
  <2>1. /\ rpc[r] = "candidate" /\ s \in Creator /\ Known(rsess[r], rows[s]) /\ RowInv(s)
        /\ provider' = provider /\ attempts' = attempts /\ UNCHANGED cvars
    BY Zenon, <1>4, <1>b DEF ExpireActive
  <2>2. Gentle /\ Known(rows'[s], rows'[s])
    <3>1. CASE Committed(s, rsess[r], "request_termination", None)
      BY Zenon, <1>a, <2>1, <3>1, EndGentle
    <3>2. CASE rows' = rows
      BY <2>1, <3>2, StillGentle DEF Known, TypeOK, Session
    <3> QED
      BY Zenon, <1>4, <3>1, <3>2 DEF ExpireActive, Returned, Refused
  <2>3. CASE Done(r)
    BY Zenon, <2>2, <2>3, DoneInv
  <2>4. CASE /\ rows'[s].status = "terminating" /\ rsess'[r] = rows'[s]
             /\ rpc'[r] = "terminate" /\ rtgt' = rtgt
    <3>1. \A x \in Creator : rows'[x].status = "terminating" => rows'[x].ref \in Attempt
      BY Zenon, <2>2 DEF Gentle, RowInv
    <3>2. rows'[s].ref \in Attempt
      BY Zenon, <2>1, <2>4, <3>1
    <3>3. rtgt'[r] = s
      BY Zenon, <2>4
    <3> QED
      BY Zenon, <2>1, <2>2, <2>4, <3>2, <3>3 DEF ReconcileInv
  <2> QED
    BY Zenon, <1>4, <2>3, <2>4 DEF ExpireActive, TypeOK
<1>5. CASE TerminateProvider(r)
  <2>1. /\ rpc[r] = "terminate" /\ s \in Creator /\ Known(rsess[r], rows[s]) /\ RowInv(s)
        /\ rsess[r].status = "terminating" /\ rsess[r].ref \in Attempt /\ rsess[r].ref # None
        /\ rows' = rows /\ attempts' = attempts /\ UNCHANGED cvars
        /\ Terminate(s, rsess[r].ref)
        /\ rpc'[r] = "complete" /\ rsess' = rsess /\ rtgt' = rtgt
    BY <1>5, <1>a, <1>b DEF TerminateProvider, ReconcileInv, TypeOK, Attempt, None
  <2>2. provider[s][rsess[r].ref] \in {"live", "gone"}
    BY Zenon, <1>a, <2>1, RefReceived
  <2>3. Gentle /\ provider'[s][rsess[r].ref] = "gone"
    BY Zenon, <2>1, <2>2, ReleaseGentle
  <2> QED
    BY Zenon, <2>1, <2>3 DEF ReconcileInv
<1>6. CASE CompleteReconciled(r)
  <2>1. /\ rpc[r] = "complete" /\ s \in Creator /\ Known(rsess[r], rows[s])
        /\ rsess[r].ref # None /\ provider[s][rsess[r].ref] = "gone"
        /\ provider' = provider /\ attempts' = attempts /\ UNCHANGED cvars
    BY Zenon, <1>6, <1>a, <1>b DEF CompleteReconciled, ReconcileInv, Attempt, None
  <2>2. Gentle
    <3>1. CASE Committed(s, rsess[r], "complete_termination", None)
      BY Zenon, <1>a, <2>1, <3>1, EndGentle
    <3>2. CASE rows' = rows
      BY Zenon, <2>1, <3>2, StillGentle
    <3> QED
      BY Zenon, <1>6, <3>1, <3>2 DEF CompleteReconciled, Refused
  <2> QED
    BY Zenon, <1>6, <2>2, DoneInv DEF CompleteReconciled
<1> QED
  BY Zenon, <1>1, <1>2, <1>3, <1>4, <1>5, <1>6 DEF Reconcile, Work

\* The other processes keep the knowledge of every handler about the sessions.
LEMMA EnvironmentKnowledge ==
    ASSUME TypeOK, TypeOK', HandlerKnowledge,
           \/ \E t \in Terminator : Delete(t)
           \/ \E r \in Reconciler : Reconcile(r)
           \/ \E s \in Creator, n \in Attempt : ProviderExpires(s, n)
    PROVE  /\ \A s \in Creator : RowInv(s)' /\ CreateInv(s)'
           /\ \A t \in Terminator : DeleteInv(t)'
           /\ \A r \in Reconciler : ReconcileInv(r)'
<1>1. ASSUME NEW t \in Terminator, Delete(t)
      PROVE  /\ Gentle /\ DeleteInv(t)' /\ UNCHANGED rvars
             /\ \A u \in Terminator \ {t} :
                   tpc'[u] = tpc[u] /\ ttgt'[u] = ttgt[u] /\ tsess'[u] = tsess[u]
  <2>1. UNCHANGED rvars
    BY Zenon, <1>1 DEF Delete, Find, RequestTermination, RevokeSession, ReleaseProvider,
                CompleteTermination, Recheck, RespondTermination, ThrowTermination
  <2>2. \A u \in Terminator \ {t} :
           tpc'[u] = tpc[u] /\ ttgt'[u] = ttgt[u] /\ tsess'[u] = tsess[u]
    BY <1>1 DEF Delete, Find, RequestTermination, RevokeSession, ReleaseProvider,
                CompleteTermination, Recheck, RespondTermination, ThrowTermination, TypeOK
  <2> QED
    BY Zenon, <1>1, <2>1, <2>2, DeleteOwn
<1>2. ASSUME NEW r \in Reconciler, Reconcile(r)
      PROVE  /\ Gentle /\ ReconcileInv(r)' /\ UNCHANGED tvars
             /\ \A q \in Reconciler \ {r} :
                   rpc'[q] = rpc[q] /\ rtgt'[q] = rtgt[q] /\ rsess'[q] = rsess[q]
  <2>1. UNCHANGED tvars
    BY Zenon, <1>2 DEF Reconcile, FindCandidate, Work, FailStale, FinalizeCreate, ExpireActive,
                TerminateProvider, CompleteReconciled, Skip
  <2>2. \A q \in Reconciler \ {r} :
           rpc'[q] = rpc[q] /\ rtgt'[q] = rtgt[q] /\ rsess'[q] = rsess[q]
    BY <1>2 DEF Reconcile, FindCandidate, Work, FailStale, FinalizeCreate, ExpireActive,
                TerminateProvider, CompleteReconciled, Skip, Done, TypeOK
  <2> QED
    BY Zenon, <1>2, <2>1, <2>2, ReconcileOwn
<1>3. ASSUME NEW s \in Creator, NEW n \in Attempt, ProviderExpires(s, n)
      PROVE  Gentle /\ UNCHANGED <<tvars, rvars>>
  BY Zenon, <1>3, ReleaseGentle DEF ProviderExpires
<1>4. CASE \E t \in Terminator : Delete(t)
  BY Zenon, <1>1, <1>4, GentleFrame DEF rvars
<1>5. CASE \E r \in Reconciler : Reconcile(r)
  BY Zenon, <1>2, <1>5, GentleFrame DEF tvars
<1>6. CASE \E s \in Creator, n \in Attempt : ProviderExpires(s, n)
  BY Zenon, <1>3, <1>6, GentleFrame DEF tvars, rvars
<1> QED
  BY Zenon, <1>4, <1>5, <1>6

-------------------------------------------------------------------------------
(* Steps of a create request, seen from its own session                      *)

OwnStep(c) == RowInv(c)' /\ CreateInv(c)' /\ Evolves(c)

\* Create request c leaves the sessions of the other requests alone.
Alone(c) ==
    \A x \in Creator \ {c} :
        /\ rows'[x] = rows[x] /\ attempts'[x] = attempts[x] /\ provider'[x] = provider[x]
        /\ cpc'[x] = cpc[x] /\ csess'[x] = csess[x]

Local(c) == Alone(c) /\ \A x \in Creator \ {c} : cn'[x] = cn[x]

\* The positions at which a handler relies on nothing but its copy of the row.
LEMMA GiveUp ==
    ASSUME TypeOK, TypeOK', NEW c \in Creator, RowInv(c), CreateInv(c),
           rows' = rows, attempts' = attempts, provider' = provider, csess' = csess, cn' = cn,
           cpc'[c] \in {"catch", "failClaim"} \cup CreateFinal,
           cpc'[c] \in CreateWork => cpc[c] \in CreateWork
    PROVE  OwnStep(c)
<1>1. RowInv(c)' /\ Evolves(c)
  BY Zenon DEF RowInv, Evolves, RowMoves
<1>2. CreateInv(c)'
  BY Zenon DEF CreateInv, CreateFinal, Early, Holding
<1> QED
  BY Zenon, <1>1, <1>2 DEF OwnStep

\* Inserting the claim and the pending row (claim).
LEMMA ReserveOwn ==
    ASSUME TypeOK, TypeOK', NEW c \in Creator, RowInv(c), CreateInv(c),
           NEW k \in Key, NEW b \in Body, Reserve(c, k, b)
    PROVE  OwnStep(c)
<1>1. /\ rows[c].status = "absent" /\ rows'[c] = Initial /\ csess'[c] = Initial
      /\ cpc'[c] = "owner" /\ attempts' = attempts /\ provider' = provider /\ cn' = cn
      /\ cn[c] = "primary"
      /\ \A n \in Attempt : attempts[c][n] = "none" /\ provider[c][n] = "none"
  BY Zenon DEF Reserve, TypeOK, CreateInv
<1>2. /\ Initial.status = "pending" /\ Initial.ref = None /\ Initial.version = 0
  BY Zenon DEF Initial, Absent
<1>3. RowInv(c)'
  BY Zenon, <1>1, <1>2 DEF RowInv, PreActive
<1>4. Known(Initial, Initial)
  BY <1>2 DEF Known
<1>5. CreateInv(c)'
  BY Zenon, <1>1, <1>2, <1>4 DEF CreateInv, Early, Holding, Attempt
<1> QED
  BY Zenon, <1>1, <1>3, <1>5 DEF OwnStep, Evolves

\* The first step of a request: a new session, a refusal or an existing claim.
LEMMA ArriveOwn ==
    ASSUME TypeOK, TypeOK', NEW c \in Creator, RowInv(c), CreateInv(c), Arrive(c)
    PROVE  OwnStep(c)
<1> PICK k \in Key, b \in Body :
        Reserve(c, k, b) \/ RefuseQuota(c, k, b) \/ ReadExisting(c, k, b)
  BY Zenon DEF Arrive
<1>1. CASE Reserve(c, k, b)
  BY Zenon, <1>1, ReserveOwn
<1>2. CASE RefuseQuota(c, k, b)
  <2>1. cpc'[c] = "refused"
    BY Zenon, <1>2 DEF RefuseQuota, Goto, TypeOK
  <2> QED
    BY Zenon, <1>2, <2>1, GiveUp DEF RefuseQuota, Goto, store, CreateFinal, CreateWork
<1>3. CASE ReadExisting(c, k, b)
  <2>1. cpc[c] = "idle" /\ rows' = rows /\ attempts' = attempts /\ provider' = provider
        /\ csess' = csess /\ cn' = cn
    BY Zenon, <1>3 DEF ReadExisting, Goto, store
  <2>2. Replay(k) \in {"waiting", "failed", "created"}
    BY Zenon, <1>3 DEF Replay, ReadExisting, TypeOK, Claim
  <2>3. cpc'[c] \in {"waiting", "failed", "created", "refused"}
    BY Zenon, <1>3, <2>2 DEF ReadExisting, Goto, TypeOK
  <2>4. CASE cpc'[c] = "waiting"
    <3>1. RowInv(c)' /\ Evolves(c)
      BY Zenon, <2>1 DEF RowInv, Evolves, RowMoves
    <3>2. CreateInv(c)'
      BY Zenon, <2>1, <2>4 DEF CreateInv, CreateWork, Early, Holding
    <3> QED
      BY Zenon, <3>1, <3>2 DEF OwnStep
  <2>5. CASE cpc'[c] # "waiting"
    BY Zenon, <2>1, <2>3, <2>5, GiveUp DEF CreateFinal, CreateWork
  <2> QED
    BY Zenon, <2>4, <2>5
<1> QED
  BY Zenon, <1>1, <1>2, <1>3

\* The two outcomes of a transition requested by create request c.
Advanced(c, e, n, ok) ==
    /\ Committed(c, csess[c], e, n)
    /\ rows[c] = csess[c] /\ rows[c].status \in Sources(e)
    /\ rows'[c].status = Target(e)
    /\ rows'[c].version > rows[c].version
    /\ rows'[c] = Apply(rows[c], e, n)
    /\ csess'[c] = rows'[c] /\ cpc'[c] = ok
    /\ Known(rows'[c], rows'[c])

Rejected(c, no) == rows' = rows /\ csess' = csess /\ cpc'[c] = no

\* A compare-and-set of request c writes the row it has read, or changes
\* nothing but the position of the request.
LEMMA TransitSplit ==
    ASSUME TypeOK, TypeOK', NEW c \in Creator, Known(csess[c], rows[c]),
           NEW from, NEW e \in Events, NEW n, NEW ok, NEW no, Transit(c, from, e, n, ok, no)
    PROVE  Advanced(c, e, n, ok) \/ Rejected(c, no)
<1>2. csess[c] \in Session
  BY Zenon DEF TypeOK
<1>3. CASE Refused(c, csess[c], e) /\ cpc' = [cpc EXCEPT ![c] = no] /\ UNCHANGED csess
  BY Zenon, <1>3 DEF Refused, TypeOK, Rejected
<1>4. CASE Committed(c, csess[c], e, n) /\ cpc' = [cpc EXCEPT ![c] = ok]
           /\ csess' = [csess EXCEPT ![c] = rows'[c]]
  <2>1. /\ rows[c] = csess[c] /\ csess[c].status \in Sources(e)
        /\ rows'[c] = Apply(csess[c], e, n) /\ rows'[c].version > rows[c].version
    BY Zenon, <1>2, <1>4, CommitExact
  <2>2. csess'[c] = rows'[c] /\ cpc'[c] = ok
    BY Zenon, <1>4 DEF TypeOK
  <2>3. rows'[c].status = Target(e)
    BY <2>1 DEF Apply
  <2>4. Known(rows'[c], rows'[c])
    <3>1. Target(e) # "absent"
      BY Zenon DEF Target, Events
    <3>2. rows'[c].version \in Nat
      BY Zenon DEF TypeOK, Session
    <3> QED
      BY <2>3, <3>1, <3>2 DEF Known
  <2> QED
    BY Zenon, <1>4, <2>1, <2>2, <2>3, <2>4 DEF Advanced
<1> QED
  BY Zenon, <1>3, <1>4 DEF Transit

\* A rejected transition that leads to the catch block or to the failed claim.
LEMMA RejectedOwn ==
    ASSUME TypeOK, TypeOK', NEW c \in Creator, RowInv(c), CreateInv(c), cpc[c] \in CreateWork,
           NEW no \in {"catch", "failClaim"}, Rejected(c, no),
           cn' = cn, provider' = provider, attempts' = attempts
    PROVE  OwnStep(c)
BY Zenon, GiveUp DEF Rejected

\* A failure, a termination request or its completion on the request's own row.
LEMMA EndOwn ==
    ASSUME TypeOK, TypeOK', NEW c \in Creator, RowInv(c), CreateInv(c), cpc[c] \in CreateWork,
           NEW e \in {"fail", "request_termination", "complete_termination"}, NEW ok,
           Advanced(c, e, None, ok),
           e = "fail" => csess[c].status \in PreActive,
           e = "complete_termination" => csess[c].ref # None /\ provider[c][csess[c].ref] = "gone",
           cn' = cn, provider' = provider, attempts' = attempts
    PROVE  /\ RowInv(c)' /\ Evolves(c)
           /\ rows'[c].ref = rows[c].ref
           /\ ok \in {"catch", "failClaim"} => OwnStep(c)
<1>1. csess[c] \in Session /\ Known(csess[c], rows[c])
  BY Zenon DEF TypeOK, CreateInv
<1>2. /\ RowInv(c)' /\ RowMoves(c) /\ rows'[c].ref = rows[c].ref
      /\ Committed(c, csess[c], e, None)
  BY Zenon, <1>1, EndCommit DEF Advanced
<1>3. Evolves(c)
  BY Zenon, <1>2 DEF Evolves
<1>4. ASSUME ok \in {"catch", "failClaim"} PROVE CreateInv(c)'
  <2>1. rows'[c].status # "absent" /\ Known(csess'[c], rows'[c]) /\ cpc'[c] = ok
    BY Zenon DEF Advanced, Known
  <2> QED
    BY Zenon, <1>2, <1>4, <2>1 DEF CreateInv, Early, Holding
<1> QED
  BY Zenon, <1>2, <1>3, <1>4 DEF OwnStep

\* begin_routing on the new row.
LEMMA BeginRoutingOwn ==
    ASSUME TypeOK, TypeOK', NEW c \in Creator, RowInv(c), CreateInv(c), BeginRouting(c)
    PROVE  OwnStep(c)
<1>1. /\ cpc[c] = "owner" /\ cpc[c] \in CreateWork /\ Known(csess[c], rows[c])
      /\ cn' = cn /\ provider' = provider /\ attempts' = attempts
  BY Zenon DEF BeginRouting, Transit, CreateInv, CreateWork
<1>2. CASE Rejected(c, "catch")
  BY Zenon, <1>1, <1>2, RejectedOwn
<1>3. CASE Advanced(c, "begin_routing", None, "routing")
  <2>1. rows[c].status = "pending" /\ rows'[c].status = "routing" /\ rows'[c].ref = rows[c].ref
    BY <1>3, EventTable DEF Apply, Advanced
  <2>2. RowInv(c)' /\ Evolves(c)
    BY Zenon, <1>1, <1>3, <2>1 DEF RowInv, Evolves, RowMoves, PreActive, Advanced
  <2>3. CreateInv(c)'
    BY Zenon, <1>1, <1>3, <2>1 DEF CreateInv, Early, Holding, CreateWork, Advanced
  <2> QED
    BY Zenon, <2>2, <2>3 DEF OwnStep
<1>4. Advanced(c, "begin_routing", None, "routing") \/ Rejected(c, "catch")
  BY Zenon, <1>1, TransitSplit DEF BeginRouting, Events
<1> QED
  BY Zenon, <1>2, <1>3, <1>4

\* The decision of the router: allocate, or fail when nothing is selected.
LEMMA RouteOwn ==
    ASSUME TypeOK, TypeOK', NEW c \in Creator, RowInv(c), CreateInv(c), Route(c)
    PROVE  OwnStep(c)
<1>1. /\ cpc[c] = "routing" /\ cpc[c] \in CreateWork /\ Known(csess[c], rows[c])
      /\ cn' = cn /\ provider' = provider /\ attempts' = attempts
  BY Zenon DEF Route, Transit, CreateInv, CreateWork
<1>2. CASE Rejected(c, "catch")
  BY Zenon, <1>1, <1>2, RejectedOwn
<1>3. CASE Advanced(c, "begin_allocation", "primary", "start")
  <2>1. rows[c].status = "routing" /\ rows'[c].status = "allocating" /\ rows'[c].ref = rows[c].ref
    BY <1>3, EventTable DEF Apply, Advanced
  <2>2. RowInv(c)' /\ Evolves(c)
    BY Zenon, <1>1, <1>3, <2>1 DEF RowInv, Evolves, RowMoves, PreActive, Advanced
  <2>3. CreateInv(c)'
    BY Zenon, <1>1, <1>3, <2>1 DEF CreateInv, Early, Holding, CreateWork, Advanced
  <2> QED
    BY Zenon, <2>2, <2>3 DEF OwnStep
<1>4. CASE Advanced(c, "fail", None, "catch")
  <2>1. csess[c].status \in PreActive
    BY Zenon, <1>1 DEF CreateInv, PreActive
  <2> QED
    BY Zenon, <1>1, <1>4, <2>1, EndOwn
<1>5. Advanced(c, "begin_allocation", "primary", "start") \/ Rejected(c, "catch")
      \/ Advanced(c, "fail", None, "catch")
  BY Zenon, <1>1, TransitSplit DEF Route, Events
<1> QED
  BY Zenon, <1>2, <1>3, <1>4, <1>5

\* Recording the attempt before the provider is called.
LEMMA StartAttemptOwn ==
    ASSUME TypeOK, TypeOK', NEW c \in Creator, RowInv(c), CreateInv(c), StartAttempt(c)
    PROVE  OwnStep(c)
<1>1. /\ cpc[c] = "start" /\ cpc'[c] = "calling" /\ rows' = rows /\ provider' = provider
      /\ csess' = csess /\ cn' = cn
      /\ attempts'[c][cn[c]] = "started"
      /\ \A n \in Attempt \ {cn[c]} : attempts'[c][n] = attempts[c][n]
      /\ cn[c] \in Attempt
  BY Zenon DEF StartAttempt, TypeOK
<1>2. RowInv(c)' /\ Evolves(c)
  BY Zenon, <1>1 DEF RowInv, Evolves, RowMoves
<1>3. rows[c].ref = None /\ Known(csess[c], rows[c]) /\ rows[c].status # "absent"
      /\ provider[c][cn[c]] = "none"
  BY Zenon, <1>1 DEF CreateInv, Early, CreateWork, Known
<1>4. CreateInv(c)'
  BY Zenon, <1>1, <1>3 DEF CreateInv, Early, Holding, CreateWork, Attempt
<1> QED
  BY Zenon, <1>2, <1>4 DEF OwnStep

\* The answer of the provider: a browser, an error, or an error that hides one.
LEMMA AllocateOwn ==
    ASSUME TypeOK, TypeOK', NEW c \in Creator, RowInv(c), CreateInv(c), Allocate(c)
    PROVE  OwnStep(c)
<1>1. /\ cpc[c] = "calling" /\ rows' = rows /\ attempts' = attempts
      /\ csess' = csess /\ cn' = cn /\ cn[c] \in Attempt
      /\ \A n \in Attempt \ {cn[c]} : provider'[c][n] = provider[c][n]
      /\ \/ cpc'[c] = "received" /\ provider'[c][cn[c]] = "live"
         \/ cpc'[c] = "providerError" /\ provider'[c][cn[c]] \in {"none", "lost"}
  BY DEF Allocate, TypeOK
<1>2. /\ attempts[c][cn[c]] = "started" /\ provider[c][cn[c]] = "none"
      /\ rows[c].ref = None /\ Known(csess[c], rows[c])
  BY Zenon, <1>1 DEF CreateInv, Early, CreateWork
<1>3. RowInv(c)'
  BY Zenon, <1>1, <1>2 DEF RowInv, Attempt, None
<1>4. Evolves(c)
  BY Zenon, <1>1, <1>2 DEF Evolves, RowMoves
<1>5. CreateInv(c)'
  BY Zenon, <1>1, <1>2 DEF CreateInv, Early, Holding, CreateWork, Attempt, Known
<1> QED
  BY Zenon, <1>3, <1>4, <1>5 DEF OwnStep

\* Recording the failed attempt, with or without a fallback to follow.
LEMMA RecordFailureOwn ==
    ASSUME TypeOK, TypeOK', NEW c \in Creator, RowInv(c), CreateInv(c), RecordFailure(c)
    PROVE  OwnStep(c)
<1>1. /\ cpc[c] = "providerError" /\ rows' = rows /\ provider' = provider
      /\ csess' = csess /\ cn' = cn /\ cn[c] \in Attempt
      /\ attempts'[c][cn[c]] = "failed"
      /\ \A n \in Attempt \ {cn[c]} : attempts'[c][n] = attempts[c][n]
      /\ cpc'[c] = "catch" \/ (cpc'[c] = "fallback" /\ cn[c] = "primary")
  BY DEF RecordFailure, TypeOK
<1>2. provider[c][cn[c]] # "live" /\ rows[c].ref = None /\ Known(csess[c], rows[c])
  BY Zenon, <1>1 DEF CreateInv, Early, CreateWork
<1>3. RowInv(c)' /\ Evolves(c)
  BY Zenon, <1>1, <1>2 DEF RowInv, Evolves, RowMoves
<1>4. CreateInv(c)'
  BY Zenon, <1>1, <1>2 DEF CreateInv, Early, Holding, CreateWork, Attempt
<1> QED
  BY Zenon, <1>3, <1>4 DEF OwnStep

\* begin_fallback_allocation, after the primary attempt failed.
LEMMA BeginFallbackOwn ==
    ASSUME TypeOK, TypeOK', NEW c \in Creator, RowInv(c), CreateInv(c), BeginFallback(c)
    PROVE  OwnStep(c)
<1>1. /\ cpc[c] = "fallback" /\ cpc[c] \in CreateWork /\ Known(csess[c], rows[c])
      /\ rows[c].status # "absent" /\ cn[c] = "primary" /\ rows[c].ref = None
      /\ attempts[c]["primary"] = "failed" /\ provider[c]["primary"] # "live"
      /\ attempts[c]["fallback"] = "none" /\ provider[c]["fallback"] = "none"
      /\ cn'[c] = "fallback" /\ provider' = provider /\ attempts' = attempts
  BY Zenon DEF BeginFallback, Transit, CreateInv, CreateWork, Early, Known, TypeOK
<1>2. CASE Rejected(c, "catch")
  <2>1. RowInv(c)' /\ Evolves(c)
    BY Zenon, <1>1, <1>2 DEF RowInv, Evolves, RowMoves, Rejected
  <2>2. CreateInv(c)'
    BY Zenon, <1>1, <1>2 DEF CreateInv, Early, Holding, CreateWork, Rejected, Attempt
  <2> QED
    BY Zenon, <2>1, <2>2 DEF OwnStep
<1>3. CASE Advanced(c, "begin_fallback_allocation", "fallback", "start")
  <2>1. /\ rows[c].status = "allocating" /\ rows'[c].status = "fallback_allocating"
        /\ rows'[c].ref = rows[c].ref
    BY <1>3, EventTable DEF Apply, Advanced
  <2>2. RowInv(c)' /\ Evolves(c)
    BY Zenon, <1>1, <1>3, <2>1 DEF RowInv, Evolves, RowMoves, PreActive, Advanced
  <2>3. CreateInv(c)'
    BY Zenon, <1>1, <1>3, <2>1 DEF CreateInv, Early, Holding, CreateWork, Advanced, Attempt
  <2> QED
    BY Zenon, <2>2, <2>3 DEF OwnStep
<1>4. Advanced(c, "begin_fallback_allocation", "fallback", "start") \/ Rejected(c, "catch")
  BY Zenon, <1>1, TransitSplit DEF BeginFallback, Events
<1> QED
  BY Zenon, <1>2, <1>3, <1>4

\* activate with the reference of the browser just received.
LEMMA ActivateOwn ==
    ASSUME TypeOK, TypeOK', NEW c \in Creator, RowInv(c), CreateInv(c), Activate(c)
    PROVE  OwnStep(c)
<1>1. /\ cpc[c] = "received" /\ cpc[c] \in CreateWork /\ Known(csess[c], rows[c])
      /\ rows[c].status # "absent" /\ cn[c] \in Attempt
      /\ attempts[c][cn[c]] = "started" /\ provider[c][cn[c]] \in {"live", "gone"}
      /\ cn' = cn /\ provider' = provider /\ attempts' = attempts
  BY Zenon DEF Activate, Transit, CreateInv, CreateWork, Holding, Known, TypeOK
<1>2. CASE Rejected(c, "recover")
  <2>1. RowInv(c)' /\ Evolves(c)
    BY Zenon, <1>1, <1>2 DEF RowInv, Evolves, RowMoves, Rejected
  <2>2. CreateInv(c)'
    BY Zenon, <1>1, <1>2 DEF CreateInv, Early, Holding, CreateWork, Rejected
  <2> QED
    BY Zenon, <2>1, <2>2 DEF OwnStep
<1>3. CASE Advanced(c, "activate", cn[c], "activated")
  <2>1. /\ rows[c].status \in {"allocating", "fallback_allocating"}
        /\ rows'[c].status = "active" /\ rows'[c].ref = cn[c]
    BY <1>3, EventTable DEF Apply, Advanced
  <2>2. rows[c].ref = None
    BY Zenon, <2>1 DEF RowInv, PreActive
  <2>3. RowInv(c)' /\ Evolves(c)
    BY Zenon, <1>1, <1>3, <2>1, <2>2 DEF RowInv, Evolves, RowMoves, PreActive, Advanced
  <2>4. CreateInv(c)'
    BY Zenon, <1>1, <1>3, <2>1 DEF CreateInv, Early, Holding, CreateWork, Advanced
  <2> QED
    BY Zenon, <2>3, <2>4 DEF OwnStep
<1>4. Advanced(c, "activate", cn[c], "activated") \/ Rejected(c, "recover")
  BY Zenon, <1>1, TransitSplit DEF Activate, Events
<1> QED
  BY Zenon, <1>2, <1>3, <1>4

\* Recording the successful attempt of the activated session.
LEMMA RecordSuccessOwn ==
    ASSUME TypeOK, TypeOK', NEW c \in Creator, RowInv(c), CreateInv(c), RecordSuccess(c)
    PROVE  OwnStep(c)
<1>1. /\ cpc[c] = "activated" /\ rows' = rows /\ provider' = provider
      /\ csess' = csess /\ cn' = cn /\ cn[c] \in Attempt
      /\ attempts'[c][cn[c]] = "succeeded"
      /\ \A n \in Attempt \ {cn[c]} : attempts'[c][n] = attempts[c][n]
      /\ cpc'[c] \in {"settled", "recover"}
  BY DEF RecordSuccess, TypeOK
<1>2. /\ provider[c][cn[c]] \in {"live", "gone"} /\ rows[c].ref = cn[c]
      /\ Known(csess[c], rows[c]) /\ rows[c].status # "absent" /\ rows[c] \in Session
  BY Zenon, <1>1 DEF CreateInv, Holding, CreateWork, Known, TypeOK
<1>3. rows[c].status \in {"active", "terminating", "terminated"}
  BY Zenon, <1>1, <1>2 DEF RowInv, Session, SessionStatuses, ActiveQuotaStatuses, Terminal, Attempt, None
<1>4. RowInv(c)' /\ Evolves(c)
  BY Zenon, <1>1, <1>2, <1>3 DEF RowInv, Evolves, RowMoves
<1>5. CreateInv(c)'
  BY Zenon, <1>1, <1>2 DEF CreateInv, Early, Holding, CreateWork, Attempt
<1> QED
  BY Zenon, <1>4, <1>5 DEF OwnStep

\* Settling the claim as succeeded, by its owner only.
LEMMA CompleteClaimOwn ==
    ASSUME TypeOK, TypeOK', NEW c \in Creator, RowInv(c), CreateInv(c), CompleteClaim(c)
    PROVE  OwnStep(c)
<1>1. /\ cpc[c] = "settled" /\ rows' = rows /\ provider' = provider /\ attempts' = attempts
      /\ csess' = csess /\ cn' = cn /\ cpc'[c] \in {"respond", "catch"}
  BY Zenon DEF CompleteClaim, TypeOK
<1>2. RowInv(c)' /\ Evolves(c)
  BY Zenon, <1>1 DEF RowInv, Evolves, RowMoves
<1>3. CreateInv(c)'
  BY Zenon, <1>1 DEF CreateInv, Early, Holding, CreateWork
<1> QED
  BY Zenon, <1>2, <1>3 DEF OwnStep

\* Reading the row back after a failed allocation.
LEMMA RecoverOwn ==
    ASSUME TypeOK, TypeOK', NEW c \in Creator, RowInv(c), CreateInv(c), Recover(c)
    PROVE  OwnStep(c)
<1>1. /\ cpc[c] = "recover" /\ rows' = rows /\ provider' = provider /\ attempts' = attempts
      /\ csess'[c] = rows[c] /\ cn' = cn /\ cn[c] \in Attempt
      /\ \/ /\ cpc'[c] = "mark"
            /\ rows[c].status \in {"active", "allocating", "fallback_allocating"}
         \/ cpc'[c] = "cleanup" /\ rows[c].status = "terminating"
         \/ cpc'[c] = "orphan"
  BY Zenon DEF Recover, Goto, store, TypeOK
<1>2. RowInv(c)' /\ Evolves(c)
  BY Zenon, <1>1 DEF RowInv, Evolves, RowMoves
<1>3. provider[c][cn[c]] \in {"live", "gone"} /\ Known(rows[c], rows[c]) /\ rows[c].status # "absent"
  BY <1>1 DEF CreateInv, Holding, CreateWork, Known, TypeOK, Session
<1>4. rows[c].status = "terminating" => rows[c].ref = cn[c]
  BY Zenon DEF RowInv, CreateInv, Attempt, None
<1>5. CreateInv(c)'
  BY Zenon, <1>1, <1>3, <1>4 DEF CreateInv, Early, Holding, CreateWork
<1> QED
  BY Zenon, <1>2, <1>5 DEF OwnStep

\* Marking the row for termination before the received browser is cleaned up.
LEMMA MarkOwn ==
    ASSUME TypeOK, TypeOK', NEW c \in Creator, RowInv(c), CreateInv(c), Mark(c)
    PROVE  OwnStep(c)
<1>1. /\ cpc[c] = "mark" /\ cpc[c] \in CreateWork /\ Known(csess[c], rows[c])
      /\ rows[c].status # "absent" /\ cn[c] \in Attempt
      /\ provider[c][cn[c]] \in {"live", "gone"}
      /\ cn' = cn /\ provider' = provider /\ attempts' = attempts
  BY Zenon DEF Mark, Transit, Goto, store, CreateInv, CreateWork, Holding, Known, TypeOK
<1>2. CASE Rejected(c, "orphan")
  <2>1. RowInv(c)' /\ Evolves(c)
    BY Zenon, <1>1, <1>2 DEF RowInv, Evolves, RowMoves, Rejected
  <2>2. CreateInv(c)'
    BY Zenon, <1>1, <1>2 DEF CreateInv, Early, Holding, CreateWork, Rejected
  <2> QED
    BY Zenon, <2>1, <2>2 DEF OwnStep
<1>3. CASE Advanced(c, "request_termination", None, "cleanup")
  <2>1. RowInv(c)' /\ Evolves(c) /\ rows'[c].ref = rows[c].ref
    BY Zenon, <1>1, <1>3, EndOwn
  <2>2. rows[c].status = "active" /\ rows'[c].status = "terminating"
    BY Zenon, <1>3, EventTable DEF Advanced
  <2>3. rows[c].ref = cn[c]
    BY Zenon, <2>2 DEF RowInv, CreateInv, Attempt, None
  <2>4. CreateInv(c)'
    BY Zenon, <1>1, <1>3, <2>1, <2>2, <2>3 DEF CreateInv, Early, Holding, CreateWork, Advanced
  <2> QED
    BY Zenon, <2>1, <2>4 DEF OwnStep
<1>4. CASE Advanced(c, "retain_for_cleanup", cn[c], "cleanup")
  <2>1. /\ rows[c].status \in {"allocating", "fallback_allocating"}
        /\ rows'[c].status = "terminating" /\ rows'[c].ref = cn[c]
    BY <1>4, EventTable DEF Apply, Advanced
  <2>2. rows[c].ref = None
    BY Zenon, <2>1 DEF RowInv, PreActive
  <2>3. RowInv(c)' /\ Evolves(c)
    BY Zenon, <1>1, <1>4, <2>1, <2>2 DEF RowInv, Evolves, RowMoves, PreActive, Advanced
  <2>4. CreateInv(c)'
    BY Zenon, <1>1, <1>4, <2>1 DEF CreateInv, Early, Holding, CreateWork, Advanced
  <2> QED
    BY Zenon, <2>3, <2>4 DEF OwnStep
<1>5. CASE /\ rows' = rows /\ csess'[c] = rows[c]
           /\ cpc'[c] \in {"cleanup", "orphan"}
           /\ cpc'[c] = "cleanup" => rows[c].status = "terminating"
  <2>1. RowInv(c)' /\ Evolves(c)
    BY Zenon, <1>1, <1>5 DEF RowInv, Evolves, RowMoves
  <2>2. Known(rows[c], rows[c]) /\ (rows[c].status = "terminating" => rows[c].ref = cn[c])
    BY <1>1 DEF Known, RowInv, CreateInv, Attempt, None, TypeOK, Session
  <2>3. CreateInv(c)'
    BY Zenon, <1>1, <1>5, <2>2 DEF CreateInv, Early, Holding, CreateWork
  <2> QED
    BY Zenon, <2>1, <2>3 DEF OwnStep
<1>6. CASE Transit(c, "mark", "request_termination", None, "cleanup", "orphan")
  <2>1. Advanced(c, "request_termination", None, "cleanup") \/ Rejected(c, "orphan")
    BY Zenon, <1>1, <1>6, TransitSplit DEF Events
  <2> QED
    BY Zenon, <1>2, <1>3, <2>1
<1>7. CASE Transit(c, "mark", "retain_for_cleanup", cn[c], "cleanup", "orphan")
  <2>1. Advanced(c, "retain_for_cleanup", cn[c], "cleanup") \/ Rejected(c, "orphan")
    BY Zenon, <1>1, <1>7, TransitSplit DEF Events
  <2> QED
    BY Zenon, <1>2, <1>4, <2>1
<1>8. CASE /\ csess' = [csess EXCEPT ![c] = rows[c]]
           /\ Goto(c, IF rows[c].status = "terminating" THEN "cleanup" ELSE "orphan")
  <2>1. /\ rows' = rows /\ csess'[c] = rows[c]
        /\ cpc'[c] \in {"cleanup", "orphan"}
        /\ cpc'[c] = "cleanup" => rows[c].status = "terminating"
    BY Zenon, <1>8 DEF Goto, store, TypeOK
  <2> QED
    BY Zenon, <1>5, <2>1
<1> QED
  BY Zenon, <1>6, <1>7, <1>8 DEF Mark

\* Terminating the browser that was received and cannot be kept.
LEMMA CleanupOwn ==
    ASSUME TypeOK, TypeOK', NEW c \in Creator, RowInv(c), CreateInv(c), Cleanup(c)
    PROVE  OwnStep(c)
<1>1. /\ cpc[c] \in {"cleanup", "orphan"} /\ rows' = rows /\ attempts' = attempts
      /\ csess' = csess /\ cn' = cn /\ cn[c] \in Attempt
  BY Zenon DEF Cleanup, TypeOK
<1>2. CASE /\ Terminate(c, cn[c])
           /\ cpc'[c] = IF cpc[c] = "cleanup" THEN "finish" ELSE "catch"
  <2>1. /\ RowInv(c)' /\ Evolves(c) /\ provider'[c][cn[c]] = "gone"
        /\ \A m \in Attempt \ {cn[c]} : provider'[c][m] = provider[c][m]
    BY Zenon, <1>1, <1>2, ReleaseRow
  <2>2. Known(csess[c], rows[c]) /\ rows[c].status # "absent"
    BY Zenon, <1>1 DEF CreateInv, CreateWork, Known
  <2>3. CreateInv(c)'
    BY Zenon, <1>1, <1>2, <2>1, <2>2 DEF CreateInv, Early, Holding, CreateWork, Attempt
  <2> QED
    BY Zenon, <2>1, <2>3 DEF OwnStep
<1>3. CASE provider' = provider /\ cpc'[c] = "catch"
  BY Zenon, <1>1, <1>3, GiveUp DEF CreateWork
<1> QED
  BY Zenon, <1>2, <1>3 DEF Cleanup, TypeOK

\* Reading the row back in the catch block of create.
LEMMA CatchOwn ==
    ASSUME TypeOK, TypeOK', NEW c \in Creator, RowInv(c), CreateInv(c), Catch(c)
    PROVE  OwnStep(c)
<1>1. /\ cpc[c] = "catch" /\ rows' = rows /\ provider' = provider /\ attempts' = attempts
      /\ csess'[c] = rows[c] /\ cn' = cn /\ cn[c] \in Attempt
      /\ \/ cpc'[c] = "failClaim"
         \/ cpc'[c] = "rollback" /\ rows[c].status \in {"active", "terminating"}
         \/ /\ cpc'[c] = "failRow"
            /\ rows[c].status \notin Terminal
            /\ rows[c].status \notin {"active", "terminating"}
  BY DEF Catch, Goto, store, TypeOK
<1>2. RowInv(c)' /\ Evolves(c)
  BY Zenon, <1>1 DEF RowInv, Evolves, RowMoves
<1>3. Known(rows[c], rows[c]) /\ rows[c].status # "absent" /\ rows[c] \in Session
  BY <1>1 DEF CreateInv, CreateWork, Known, TypeOK, Session
<1>4. rows[c].status \in {"active", "terminating"} => rows[c].ref = cn[c]
  BY Zenon DEF RowInv, CreateInv, Attempt, None
<1>5. rows[c].status \in PreActive \cup {"active", "terminating"} \cup Terminal
  BY Zenon, <1>3 DEF Session, SessionStatuses, ActiveQuotaStatuses
<1>6. CreateInv(c)'
  BY Zenon, <1>1, <1>3, <1>4, <1>5 DEF CreateInv, Early, Holding, CreateWork
<1> QED
  BY Zenon, <1>2, <1>6 DEF OwnStep

\* The transitions that end a session and lead to the catch block or past it.
LEMMA EndingOwn ==
    ASSUME TypeOK, TypeOK', NEW c \in Creator, RowInv(c), CreateInv(c),
           Finish(c) \/ FailRow(c) \/ RollbackFinish(c)
    PROVE  OwnStep(c)
<1>1. /\ cpc[c] \in {"finish", "failRow", "rollbackFinish"} /\ cpc[c] \in CreateWork
      /\ Known(csess[c], rows[c]) /\ cn[c] \in Attempt
      /\ cn' = cn /\ provider' = provider /\ attempts' = attempts
  BY Zenon DEF Finish, FailRow, RollbackFinish, Transit, CreateInv, CreateWork, TypeOK
<1>2. CASE Rejected(c, "catch") \/ Rejected(c, "failClaim")
  BY Zenon, <1>1, <1>2, RejectedOwn
<1>3. CASE Finish(c)
  <2>1. csess[c].ref # None /\ provider[c][csess[c].ref] = "gone"
    BY Zenon, <1>1, <1>3 DEF Finish, Transit, CreateInv, Attempt, None
  <2>2. Advanced(c, "complete_termination", None, "catch") \/ Rejected(c, "catch")
    BY Zenon, <1>1, <1>3, TransitSplit DEF Finish, Events
  <2>3. CASE Advanced(c, "complete_termination", None, "catch")
    BY Zenon, <1>1, <2>1, <2>3, EndOwn
  <2> QED
    BY Zenon, <1>2, <2>2, <2>3
<1>4. CASE FailRow(c)
  <2>1. csess[c].status \in PreActive
    BY Zenon, <1>4 DEF FailRow, Transit, CreateInv
  <2>2. Advanced(c, "fail", None, "failClaim") \/ Rejected(c, "failClaim")
    BY Zenon, <1>1, <1>4, TransitSplit DEF FailRow, Events
  <2>3. CASE Advanced(c, "fail", None, "failClaim")
    BY Zenon, <1>1, <2>1, <2>3, EndOwn
  <2> QED
    BY Zenon, <1>2, <2>2, <2>3
<1>5. CASE RollbackFinish(c)
  <2>1. csess[c].ref # None /\ provider[c][csess[c].ref] = "gone"
    BY Zenon, <1>1, <1>5 DEF RollbackFinish, Transit, CreateInv, Attempt, None
  <2>2. Advanced(c, "complete_termination", None, "failClaim") \/ Rejected(c, "failClaim")
    BY Zenon, <1>1, <1>5, TransitSplit DEF RollbackFinish, Events
  <2>3. CASE Advanced(c, "complete_termination", None, "failClaim")
    BY Zenon, <1>1, <2>1, <2>3, EndOwn
  <2> QED
    BY Zenon, <1>2, <2>2, <2>3
<1> QED
  BY Zenon, <1>3, <1>4, <1>5

\* Requesting the termination of the session that create rolls back.
LEMMA RollbackOwn ==
    ASSUME TypeOK, TypeOK', NEW c \in Creator, RowInv(c), CreateInv(c), Rollback(c)
    PROVE  OwnStep(c)
<1>1. /\ cpc[c] = "rollback" /\ cpc[c] \in CreateWork /\ Known(csess[c], rows[c])
      /\ rows[c].status # "absent" /\ cn[c] \in Attempt
      /\ csess[c].ref = cn[c] /\ rows[c].ref = cn[c]
      /\ cn' = cn /\ provider' = provider /\ attempts' = attempts
  BY Zenon DEF Rollback, Transit, Goto, store, CreateInv, CreateWork, Known, TypeOK, Attempt, None
<1>2. CASE Transit(c, "rollback", "request_termination", None, "rollbackCleanup", "failClaim")
  <2>1. CASE Rejected(c, "failClaim")
    BY Zenon, <1>1, <2>1, RejectedOwn
  <2>2. CASE Advanced(c, "request_termination", None, "rollbackCleanup")
    <3>1. RowInv(c)' /\ Evolves(c) /\ rows'[c].ref = rows[c].ref
      BY Zenon, <1>1, <2>2, EndOwn
    <3>2. rows'[c].status = "terminating"
      BY Zenon, <2>2, EventTable DEF Advanced
    <3>3. CreateInv(c)'
      BY Zenon, <1>1, <2>2, <3>1, <3>2 DEF CreateInv, Early, Holding, CreateWork, Advanced
    <3> QED
      BY Zenon, <3>1, <3>3 DEF OwnStep
  <2>3. Advanced(c, "request_termination", None, "rollbackCleanup") \/ Rejected(c, "failClaim")
    BY Zenon, <1>1, <1>2, TransitSplit DEF Events
  <2> QED
    BY Zenon, <2>1, <2>2, <2>3
<1>3. CASE /\ csess' = [csess EXCEPT ![c] = IF @.status = "active" THEN rows[c] ELSE @]
           /\ Goto(c, "rollbackCleanup")
  <2>1. rows' = rows /\ cpc'[c] = "rollbackCleanup" /\ csess'[c] \in {rows[c], csess[c]}
    BY Zenon, <1>3 DEF Goto, store, TypeOK
  <2>2. RowInv(c)' /\ Evolves(c)
    BY Zenon, <1>1, <2>1 DEF RowInv, Evolves, RowMoves
  <2>3. Known(rows[c], rows[c])
    BY <1>1 DEF Known, TypeOK, Session
  <2>4. CreateInv(c)'
    BY Zenon, <1>1, <2>1, <2>3 DEF CreateInv, Early, Holding, CreateWork
  <2> QED
    BY Zenon, <2>2, <2>4 DEF OwnStep
<1> QED
  BY Zenon, <1>2, <1>3 DEF Rollback

\* Terminating the browser of the session that create rolls back.
LEMMA RollbackCleanupOwn ==
    ASSUME TypeOK, TypeOK', NEW c \in Creator, RowInv(c), CreateInv(c), RollbackCleanup(c)
    PROVE  OwnStep(c)
<1>1. /\ cpc[c] = "rollbackCleanup" /\ rows' = rows /\ attempts' = attempts
      /\ csess' = csess /\ cn' = cn /\ cn[c] \in Attempt /\ csess[c].ref = cn[c]
  BY Zenon DEF RollbackCleanup, TypeOK, CreateInv
<1>2. CASE Terminate(c, cn[c]) /\ cpc'[c] = "rollbackFinish"
  <2>1. /\ RowInv(c)' /\ Evolves(c) /\ provider'[c][cn[c]] = "gone"
        /\ \A m \in Attempt \ {cn[c]} : provider'[c][m] = provider[c][m]
    BY Zenon, <1>1, <1>2, ReleaseRow
  <2>2. Known(csess[c], rows[c]) /\ rows[c].status # "absent"
    BY Zenon, <1>1 DEF CreateInv, CreateWork, Known
  <2>3. CreateInv(c)'
    BY Zenon, <1>1, <1>2, <2>1, <2>2 DEF CreateInv, Early, Holding, CreateWork, Attempt
  <2> QED
    BY Zenon, <2>1, <2>3 DEF OwnStep
<1>3. CASE provider' = provider /\ cpc'[c] = "failClaim"
  BY Zenon, <1>1, <1>3, GiveUp DEF CreateWork
<1> QED
  BY Zenon, <1>1, <1>2, <1>3 DEF RollbackCleanup, TypeOK

\* Steps that leave the session, its attempts and its browsers alone.
LEMMA QuietOwn ==
    ASSUME TypeOK, TypeOK', HandlerKnowledge, NEW c \in Creator, RowInv(c), CreateInv(c),
           WaitForCompletion(c) \/ Deny(c) \/ Respond(c) \/ FailClaim(c) \/ Crash(c)
    PROVE  OwnStep(c)
<1>1. /\ rows' = rows /\ attempts' = attempts /\ provider' = provider
      /\ csess' = csess /\ cn' = cn
  BY Zenon DEF WaitForCompletion, Deny, Respond, FailClaim, Crash, Goto, store
<1>2. CASE WaitForCompletion(c)
  <2>1. Replay(key[c]) \in {"waiting", "failed", "created"}
    BY <1>2 DEF Replay, WaitForCompletion, TypeOK, Claim, HandlerKnowledge, ClaimInv
  <2>2. cpc'[c] \in {"failed", "created", "unavailable"}
    BY Zenon, <1>2, <2>1 DEF WaitForCompletion, Goto, TypeOK
  <2> QED
    BY Zenon, <1>1, <2>2, GiveUp DEF CreateFinal, CreateWork
<1>3. CASE Deny(c) \/ Respond(c) \/ FailClaim(c) \/ Crash(c)
  <2>1. cpc'[c] \in {"catch", "created", "failed", "crashed"} /\ cpc[c] \in CreateWork
    BY Zenon, <1>3 DEF Deny, Respond, FailClaim, Crash, Goto, TypeOK, CreateWork
  <2> QED
    BY Zenon, <1>1, <2>1, GiveUp DEF CreateFinal
<1> QED
  BY Zenon, <1>2, <1>3

\* A call that throws: the handler goes to the catch block that encloses it.
LEMMA ThrowOwn ==
    ASSUME TypeOK, TypeOK', NEW c \in Creator, RowInv(c), CreateInv(c), Throw(c)
    PROVE  OwnStep(c)
<1>1. /\ rows' = rows /\ attempts' = attempts /\ provider' = provider
      /\ csess' = csess /\ cn' = cn /\ cpc'[c] \in OnThrow(cpc[c])
  BY Zenon DEF Throw, store, TypeOK
<1>2. \/ cpc'[c] \in {"recover", "orphan"} /\ cpc[c] \in {"received", "activated", "recover", "mark"}
      \/ cpc'[c] \in {"catch", "failClaim"} /\ cpc[c] \in CreateWork
      \/ cpc'[c] = "failed"
  BY Zenon, <1>1 DEF OnThrow, CreateWork
<1>3. CASE cpc'[c] \in {"recover", "orphan"} /\ cpc[c] \in {"received", "activated", "recover", "mark"}
  <2>1. RowInv(c)' /\ Evolves(c)
    BY Zenon, <1>1 DEF RowInv, Evolves, RowMoves
  <2>2. CreateInv(c)'
    BY Zenon, <1>1, <1>3 DEF CreateInv, Early, Holding, CreateWork
  <2> QED
    BY Zenon, <2>1, <2>2 DEF OwnStep
<1>4. CASE cpc'[c] \in {"catch", "failClaim"} /\ cpc[c] \in CreateWork
  BY Zenon, <1>1, <1>4, GiveUp
<1>5. CASE cpc'[c] = "failed"
  BY Zenon, <1>1, <1>5, GiveUp DEF CreateFinal, CreateWork
<1> QED
  BY Zenon, <1>2, <1>3, <1>4, <1>5

\* Every step of a create request keeps what it knows of its own session.
LEMMA CreateOwn ==
    ASSUME TypeOK, TypeOK', HandlerKnowledge, NEW c \in Creator, Create(c)
    PROVE  OwnStep(c)
<1>1. RowInv(c) /\ CreateInv(c)
  BY Zenon DEF HandlerKnowledge
<1> QED
  BY Zenon, <1>1, ArriveOwn, BeginRoutingOwn, RouteOwn, StartAttemptOwn, AllocateOwn, RecordFailureOwn,
     BeginFallbackOwn, ActivateOwn, RecordSuccessOwn, CompleteClaimOwn, RecoverOwn, MarkOwn,
     CleanupOwn, CatchOwn, EndingOwn, RollbackOwn, RollbackCleanupOwn, QuietOwn, ThrowOwn
     DEF Create, Handle

-------------------------------------------------------------------------------
(* Steps of a create request, seen from the others                           *)

\* A transition of create request c changes nothing of another request.
LEMMA TransitLocal ==
    ASSUME TypeOK, NEW c \in Creator, NEW from, NEW e, NEW n, NEW ok, NEW no,
           Transit(c, from, e, n, ok, no)
    PROVE  Alone(c)
BY Zenon DEF Transit, Committed, Refused, TypeOK, Alone

\* No step of create request c changes anything of another request.
LEMMA CreateLocal ==
    ASSUME TypeOK, NEW c \in Creator, Create(c)
    PROVE  Local(c) /\ UNCHANGED <<tvars, rvars>>
<1>1. UNCHANGED <<tvars, rvars>>
  BY Zenon DEF Create, Arrive, Handle, Throw, Crash, Reserve, RefuseQuota, ReadExisting, Goto,
         WaitForCompletion, Deny, BeginRouting, Route, StartAttempt, Allocate, RecordFailure,
         BeginFallback, Activate, RecordSuccess, CompleteClaim, Respond, Recover, Mark, Cleanup,
         Finish, Catch, FailRow, Rollback, RollbackCleanup, RollbackFinish, FailClaim, Transit
<1>2. CASE Arrive(c)
  BY <1>2 DEF Arrive, Reserve, RefuseQuota, ReadExisting, Goto, store, Local, Alone, TypeOK
<1>3. CASE Throw(c) \/ Crash(c)
  BY Zenon, <1>3 DEF Throw, Crash, store, Local, Alone, TypeOK
<1>4. CASE \/ WaitForCompletion(c) \/ Deny(c) \/ Respond(c) \/ Recover(c) \/ Catch(c)
  BY Zenon, <1>4 DEF WaitForCompletion, Deny, Respond, Recover, Catch, Goto, store, Local, Alone, TypeOK
<1>5. CASE StartAttempt(c) \/ Allocate(c) \/ RecordFailure(c) \/ RecordSuccess(c)
  BY Zenon, <1>5 DEF StartAttempt, Allocate, RecordFailure, RecordSuccess, Local, Alone, TypeOK
<1>6. CASE CompleteClaim(c) \/ FailClaim(c) \/ Cleanup(c) \/ RollbackCleanup(c)
  BY Zenon, <1>6 DEF CompleteClaim, FailClaim, Cleanup, RollbackCleanup, Terminate, Local, Alone, TypeOK
<1>7. CASE \/ BeginRouting(c) \/ Route(c) \/ Activate(c) \/ Finish(c) \/ FailRow(c)
           \/ RollbackFinish(c)
  <2>1. Alone(c)
    BY Zenon, <1>7, TransitLocal DEF BeginRouting, Route, Activate, Finish, FailRow, RollbackFinish
  <2> QED
    BY Zenon, <1>1, <1>7, <2>1 DEF BeginRouting, Route, Activate, Finish, FailRow, RollbackFinish, Local
<1>8. CASE BeginFallback(c)
  <2>1. Alone(c)
    BY Zenon, <1>8, TransitLocal DEF BeginFallback
  <2> QED
    BY Zenon, <1>1, <1>8, <2>1 DEF BeginFallback, Local, TypeOK
<1>9. CASE Mark(c)
  <2>1. CASE \/ Transit(c, "mark", "request_termination", None, "cleanup", "orphan")
             \/ Transit(c, "mark", "retain_for_cleanup", cn[c], "cleanup", "orphan")
    <3>1. Alone(c)
      BY Zenon, <2>1, TransitLocal
    <3> QED
      BY Zenon, <1>1, <1>9, <3>1 DEF Mark, Local
  <2>2. CASE /\ csess' = [csess EXCEPT ![c] = rows[c]]
             /\ Goto(c, IF rows[c].status = "terminating" THEN "cleanup" ELSE "orphan")
    BY Zenon, <1>9, <2>2 DEF Mark, Goto, store, Local, Alone, TypeOK
  <2> QED
    BY Zenon, <1>9, <2>1, <2>2 DEF Mark
<1>10. CASE Rollback(c)
  <2>1. CASE Transit(c, "rollback", "request_termination", None, "rollbackCleanup", "failClaim")
    <3>1. Alone(c)
      BY Zenon, <2>1, TransitLocal
    <3> QED
      BY Zenon, <1>1, <1>10, <3>1 DEF Rollback, Local
  <2>2. CASE /\ csess' = [csess EXCEPT ![c] = IF @.status = "active" THEN rows[c] ELSE @]
             /\ Goto(c, "rollbackCleanup")
    BY Zenon, <1>10, <2>2 DEF Rollback, Goto, store, Local, Alone, TypeOK
  <2> QED
    BY Zenon, <1>10, <2>1, <2>2 DEF Rollback
<1> QED
  BY Zenon, <1>1, <1>2, <1>3, <1>4, <1>5, <1>6, <1>7, <1>8, <1>9, <1>10 DEF Create, Handle

\* What one request leaves alone does not interfere with the others.
LEMMA LocalInterferes ==
    ASSUME TypeOK, NEW c \in Creator, Local(c), NEW x \in Creator \ {c}
    PROVE  Interferes(x)
BY Zenon DEF Local, Alone, Interferes, RowMoves

\* The other rows keep their invariant.
LEMMA LocalRow ==
    ASSUME NEW c \in Creator, Local(c), NEW x \in Creator \ {c}, RowInv(x)
    PROVE  RowInv(x)'
BY Zenon DEF Local, Alone, RowInv

\* A create step keeps the knowledge of every handler about the sessions.
LEMMA CreateKnowledge ==
    ASSUME TypeOK, TypeOK', HandlerKnowledge, NEW c \in Creator, Create(c)
    PROVE  /\ \A s \in Creator : RowInv(s)' /\ CreateInv(s)'
           /\ \A t \in Terminator : DeleteInv(t)'
           /\ \A r \in Reconciler : ReconcileInv(r)'
<1>1. OwnStep(c)
  BY Zenon, CreateOwn
<1>2. Local(c) /\ UNCHANGED <<tvars, rvars>>
  BY Zenon, CreateLocal
<1>3. \A x \in Creator \ {c} : Interferes(x) /\ RowInv(x)'
  BY Zenon, <1>2, LocalInterferes, LocalRow DEF HandlerKnowledge
<1>4. \A x \in Creator \ {c} : CreateInv(x)'
  BY Zenon, <1>3, CreateFrame DEF HandlerKnowledge
<1>5. \A x \in Creator : Evolves(x)
  BY Zenon, <1>1, <1>3, InterferesEvolves DEF OwnStep
<1>6. \A t \in Terminator : DeleteInv(t)'
  BY Zenon, <1>2, <1>5, DeleteFrame DEF HandlerKnowledge, tvars
<1>7. \A r \in Reconciler : ReconcileInv(r)'
  BY Zenon, <1>2, <1>5, ReconcileFrame DEF HandlerKnowledge, rvars
<1> QED
  BY Zenon, <1>1, <1>3, <1>4, <1>6, <1>7 DEF OwnStep
===============================================================================
