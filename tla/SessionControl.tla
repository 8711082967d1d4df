---------------------------- MODULE SessionControl ----------------------------
(***************************************************************************)
(* The session control plane of one tenant: concurrent create requests     *)
(* (idempotency claim, quota, routing, allocation with one fallback,       *)
(* rollback), concurrent delete requests, and the reconciliation job, all  *)
(* over PostgreSQL rows that change only by compare-and-set, and over a    *)
(* browser provider that can create a session whose answer is lost.        *)
(*                                                                         *)
(* A create request generates its own session identifier and its own owner *)
(* token, so the request, its session and its token share one name: c.     *)
(* Every awaited call of the code is a step; between two steps any other   *)
(* process may run.  A call that fails (a query, an audit write, the rate  *)
(* limiter, encryption) is Throw; a provider that refuses to terminate and *)
(* a killed process draw on the same budget, MaxFaults.                    *)
(***************************************************************************)
EXTENDS SessionStates, FiniteSets

CONSTANTS Creator,                \* create requests, and the sessions they insert
          Terminator,             \* delete requests
          Reconciler,             \* reconciliation jobs
          Key, Body,              \* idempotency keys and request hashes
          MaxConcurrentSessions,  \* quota of non-terminal sessions
          MaxFaults               \* bound on failures of calls and processes

ASSUME SessionControlAssumption ==
    /\ IsFiniteSet(Creator)
    /\ MaxConcurrentSessions \in Nat
    /\ MaxFaults \in Nat

VARIABLES rows,      \* table sessions
          claims,    \* table session_create_idempotency
          attempts,  \* table session_allocation_attempts
          provider,  \* what the provider holds for each session and attempt
          revoked,   \* sessions whose relay access was revoked in Redis
          key, body, \* the request of each create call
          cpc, csess, cn,     \* create: position, local row copy, attempt
          tpc, tsess, ttgt,   \* delete: position, local row copy, session
          rpc, rsess, rtgt,   \* reconciler: position, candidate copy, session
          faults

store == <<rows, claims, attempts, provider, revoked>>
cvars == <<key, body, cpc, csess, cn>>
tvars == <<tpc, tsess, ttgt>>
rvars == <<rpc, rsess, rtgt>>
vars  == <<store, cvars, tvars, rvars, faults>>

CreateFinal == {"created", "refused", "unavailable", "failed", "crashed"}

CreateWork == {"owner", "routing", "start", "calling", "received", "activated",
               "settled", "respond", "providerError", "fallback", "recover",
               "mark", "cleanup", "orphan", "finish", "catch", "failRow",
               "rollback", "rollbackCleanup", "rollbackFinish", "failClaim"}

TerminateFinal == {"closed", "rejected", "error", "crashed"}

TerminateWork == {"request", "revoke", "release", "complete", "recheck", "respond"}

ReconcileWork == {"candidate", "finalize", "terminate", "complete"}

CreatePc == {"idle", "waiting"} \cup CreateWork \cup CreateFinal

TerminatePc == {"idle"} \cup TerminateWork \cup TerminateFinal

ReconcilePc == {"idle"} \cup ReconcileWork

AttemptStatus == {"none", "started", "succeeded", "failed"}

ProviderStatus == {"none", "live", "lost", "gone"}

Claim == [owner : Creator \cup {None},
          state : {"free", "in_progress", "succeeded", "failed"}]

Init ==
    /\ rows = [c \in Creator |-> Absent]
    /\ claims = [k \in Key |-> [owner |-> None, state |-> "free"]]
    /\ attempts = [c \in Creator |-> [n \in Attempt |-> "none"]]
    /\ provider = [c \in Creator |-> [n \in Attempt |-> "none"]]
    /\ revoked = {}
    /\ key = [c \in Creator |-> None]
    /\ body = [c \in Creator |-> None]
    /\ cpc = [c \in Creator |-> "idle"]
    /\ csess = [c \in Creator |-> Absent]
    /\ cn = [c \in Creator |-> "primary"]
    /\ tpc = [t \in Terminator |-> "idle"]
    /\ tsess = [t \in Terminator |-> Absent]
    /\ ttgt = [t \in Terminator |-> None]
    /\ rpc = [r \in Reconciler |-> "idle"]
    /\ rsess = [r \in Reconciler |-> Absent]
    /\ rtgt = [r \in Reconciler |-> None]
    /\ faults = 0

-------------------------------------------------------------------------------
(* transitionSessionForTenant: a compare-and-set on version and status.  It  *)
(* is linearizable, so one call is one step with one of three outcomes.      *)

\* Mutant: the update forgets the expected version.
CommittedBlind(s, copy, e, n) ==
    /\ Accepts(rows[s], e)
    /\ rows' = [rows EXCEPT ![s] = Apply(rows[s], e, n)]

Committed(s, copy, e, n) ==
    /\ rows[s].version = copy.version
    /\ Accepts(rows[s], e)
    /\ rows' = [rows EXCEPT ![s] = Apply(rows[s], e, n)]

\* A repeated termination request, stale or not, returns the current row.
Returned(s, e) ==
    /\ Ignores(rows[s], e)
    /\ UNCHANGED rows

\* SessionTransitionConflictError when the version moved, SessionTransitionError otherwise.
Refused(s, copy, e) ==
    /\ ~Ignores(rows[s], e)
    /\ rows[s].version # copy.version \/ ~Accepts(rows[s], e)
    /\ UNCHANGED rows

\* Create request c applies event e: to position ok when it commits, else no.
Transit(c, from, e, n, ok, no) ==
    /\ cpc[c] = from
    /\ \/ /\ Committed(c, csess[c], e, n)
          /\ cpc' = [cpc EXCEPT ![c] = ok]
          /\ csess' = [csess EXCEPT ![c] = rows'[c]]
       \/ /\ Refused(c, csess[c], e)
          /\ cpc' = [cpc EXCEPT ![c] = no]
          /\ UNCHANGED csess
    /\ UNCHANGED <<claims, attempts, provider, revoked, key, body, tvars, rvars, faults>>

\* Create request c moves without touching the stores.
Goto(c, to) ==
    /\ cpc' = [cpc EXCEPT ![c] = to]
    /\ UNCHANGED <<store, tvars, rvars, faults>>

Fault ==
    /\ faults < MaxFaults
    /\ faults' = faults + 1

-------------------------------------------------------------------------------
(* POST /v1/sessions: the idempotency claim                                  *)

QuotaUsed == {s \in Creator : rows[s].status \in ActiveQuotaStatuses}

\* Mutant: the quota admits one session too many.
ReserveOneTooMany(c, k, b) ==
    /\ cpc[c] = "idle"
    /\ claims[k].state = "free"
    /\ Cardinality(QuotaUsed) <= MaxConcurrentSessions
    /\ rows' = [rows EXCEPT ![c] = Initial]
    /\ claims' = [claims EXCEPT ![k] = [owner |-> c, state |-> "in_progress"]]
    /\ key' = [key EXCEPT ![c] = k]
    /\ body' = [body EXCEPT ![c] = b]
    /\ cpc' = [cpc EXCEPT ![c] = "owner"]
    /\ csess' = [csess EXCEPT ![c] = Initial]
    /\ UNCHANGED <<attempts, provider, revoked, cn, tvars, rvars, faults>>

\* Mutant: a claim that is not in progress is taken over.
ReserveTakeover(c, k, b) ==
    /\ cpc[c] = "idle"
    /\ claims[k].state # "in_progress"
    /\ Cardinality(QuotaUsed) < MaxConcurrentSessions
    /\ rows' = [rows EXCEPT ![c] = Initial]
    /\ claims' = [claims EXCEPT ![k] = [owner |-> c, state |-> "in_progress"]]
    /\ key' = [key EXCEPT ![c] = k]
    /\ body' = [body EXCEPT ![c] = b]
    /\ cpc' = [cpc EXCEPT ![c] = "owner"]
    /\ csess' = [csess EXCEPT ![c] = Initial]
    /\ UNCHANGED <<attempts, provider, revoked, cn, tvars, rvars, faults>>

\* A fresh key within the quota: the claim and the pending session are inserted
\* in one transaction under the tenant's advisory lock.
Reserve(c, k, b) ==
    /\ cpc[c] = "idle"
    /\ claims[k].state = "free"
    /\ Cardinality(QuotaUsed) < MaxConcurrentSessions
    /\ rows' = [rows EXCEPT ![c] = Initial]
    /\ claims' = [claims EXCEPT ![k] = [owner |-> c, state |-> "in_progress"]]
    /\ key' = [key EXCEPT ![c] = k]
    /\ body' = [body EXCEPT ![c] = b]
    /\ cpc' = [cpc EXCEPT ![c] = "owner"]
    /\ csess' = [csess EXCEPT ![c] = Initial]
    /\ UNCHANGED <<attempts, provider, revoked, cn, tvars, rvars, faults>>

\* A fresh key beyond the quota leaves no trace.
RefuseQuota(c, k, b) ==
    /\ cpc[c] = "idle"
    /\ claims[k].state = "free"
    /\ Cardinality(QuotaUsed) >= MaxConcurrentSessions
    /\ Goto(c, "refused")
    /\ UNCHANGED <<key, body, csess, cn>>

\* Mutant: a claim in progress is answered as if it had succeeded.
ReplayEarly(k) == IF claims[k].state = "failed" THEN "failed" ELSE "created"

\* What a request that meets an existing claim of its own body answers.
Replay(k) ==
    CASE claims[k].state = "in_progress" -> "waiting"
      [] claims[k].state = "failed"      -> "failed"
      [] claims[k].state = "succeeded"   -> "created"

\* A key in use: another body is a conflict, the same body joins the claim.
ReadExisting(c, k, b) ==
    /\ cpc[c] = "idle"
    /\ claims[k].state # "free"
    /\ Goto(c, IF body[claims[k].owner] = b THEN Replay(k) ELSE "refused")
    /\ key' = [key EXCEPT ![c] = k]
    /\ body' = [body EXCEPT ![c] = b]
    /\ UNCHANGED <<csess, cn>>

\* The poll ends when the claim is settled or when the wait times out.
WaitForCompletion(c) ==
    /\ cpc[c] = "waiting"
    /\ Goto(c, IF Replay(key[c]) = "waiting" THEN "unavailable" ELSE Replay(key[c]))
    /\ UNCHANGED <<key, body, csess, cn>>

-------------------------------------------------------------------------------
(* The owner of a claim: prechecks, routing and allocation                   *)

\* Session duration, rate limit and target policy may turn the request down
\* before routing, and the target policy again before each allocation.
Deny(c) ==
    /\ cpc[c] \in {"owner", "start"}
    /\ Goto(c, "catch")
    /\ UNCHANGED <<key, body, csess, cn>>

BeginRouting(c) ==
    /\ Transit(c, "owner", "begin_routing", None, "routing", "catch")
    /\ UNCHANGED cn

\* The router selects a candidate, or none and the session fails.
Route(c) ==
    /\ \/ Transit(c, "routing", "begin_allocation", "primary", "start", "catch")
       \/ Transit(c, "routing", "fail", None, "catch", "catch")
    /\ UNCHANGED cn

StartAttempt(c) ==
    /\ cpc[c] = "start"
    /\ attempts[c][cn[c]] = "none"
    /\ attempts' = [attempts EXCEPT ![c][cn[c]] = "started"]
    /\ cpc' = [cpc EXCEPT ![c] = "calling"]
    /\ UNCHANGED <<rows, claims, provider, revoked, key, body, csess, cn, tvars, rvars, faults>>

\* The provider answers with a session, or with an error after creating
\* nothing or a session nobody learns the identity of.
Allocate(c) ==
    /\ cpc[c] = "calling"
    /\ \E outcome \in {"live", "none", "lost"} :
          /\ provider' = [provider EXCEPT ![c][cn[c]] = outcome]
          /\ cpc' = [cpc EXCEPT ![c] = IF outcome = "live" THEN "received" ELSE "providerError"]
    /\ UNCHANGED <<rows, claims, attempts, revoked, key, body, csess, cn, tvars, rvars, faults>>

\* Mutant: the fallback begins while the primary attempt is still open.
RecordFailureLate(c) ==
    /\ cpc[c] = "providerError"
    /\ \E to \in {"fallback", "catch"} :
          /\ to = "fallback" => cn[c] = "primary"
          /\ cpc' = [cpc EXCEPT ![c] = to]
    /\ UNCHANGED <<store, key, body, csess, cn, tvars, rvars, faults>>

\* A provider error closes the attempt; a fallback follows the primary attempt
\* when the error, the policy and the candidates allow one.
RecordFailure(c) ==
    /\ cpc[c] = "providerError"
    /\ attempts[c][cn[c]] = "started"
    /\ attempts' = [attempts EXCEPT ![c][cn[c]] = "failed"]
    /\ \E to \in {"fallback", "catch"} :
          /\ to = "fallback" => cn[c] = "primary"
          /\ cpc' = [cpc EXCEPT ![c] = to]
    /\ UNCHANGED <<rows, claims, provider, revoked, key, body, csess, cn, tvars, rvars, faults>>

BeginFallback(c) ==
    /\ Transit(c, "fallback", "begin_fallback_allocation", "fallback", "start", "catch")
    /\ cn' = [cn EXCEPT ![c] = "fallback"]

\* Mutant: a refused activation is treated as a provider error.
ActivateAsProviderError(c) ==
    /\ Transit(c, "received", "activate", cn[c], "activated", "providerError")
    /\ UNCHANGED cn

Activate(c) ==
    /\ Transit(c, "received", "activate", cn[c], "activated", "recover")
    /\ UNCHANGED cn

\* The write may commit and its answer be lost.
RecordSuccess(c) ==
    /\ cpc[c] = "activated"
    /\ attempts[c][cn[c]] = "started"
    /\ attempts' = [attempts EXCEPT ![c][cn[c]] = "succeeded"]
    /\ \/ cpc' = [cpc EXCEPT ![c] = "settled"] /\ UNCHANGED faults
       \/ cpc' = [cpc EXCEPT ![c] = "recover"] /\ Fault
    /\ UNCHANGED <<rows, claims, provider, revoked, key, body, csess, cn, tvars, rvars>>

\* coordinator.complete: only the owner settles a claim, and only once.
Owns(c) ==
    /\ claims[key[c]].owner = c
    /\ claims[key[c]].state = "in_progress"

CompleteClaim(c) ==
    /\ cpc[c] = "settled"
    /\ IF Owns(c)
       THEN /\ claims' = [claims EXCEPT ![key[c]].state = "succeeded"]
            /\ cpc' = [cpc EXCEPT ![c] = "respond"]
       ELSE /\ cpc' = [cpc EXCEPT ![c] = "catch"]
            /\ UNCHANGED claims
    /\ UNCHANGED <<rows, attempts, provider, revoked, key, body, csess, cn, tvars, rvars, faults>>

\* Reading the attempts for the response still belongs to the guarded block.
Respond(c) ==
    /\ cpc[c] = "respond"
    /\ Goto(c, "created")
    /\ UNCHANGED <<key, body, csess, cn>>

-------------------------------------------------------------------------------
(* recoverAllocatedSession: a provider session was received and the rest of  *)
(* the allocation failed                                                     *)

\* provider.terminate answers success for a session that is already gone.
Terminate(s, n) == provider' = [provider EXCEPT ![s][n] = "gone"]

\* Mutant: a session whose row cannot take the reference is not cleaned up.
RecoverRowOnly(c) ==
    /\ cpc[c] = "recover"
    /\ csess' = [csess EXCEPT ![c] = rows[c]]
    /\ Goto(c, CASE rows[c].status \in {"active", "allocating", "fallback_allocating"} -> "mark"
                 [] rows[c].status = "terminating" -> "cleanup"
                 [] OTHER -> "catch")
    /\ UNCHANGED <<key, body, cn>>

Recover(c) ==
    /\ cpc[c] = "recover"
    /\ csess' = [csess EXCEPT ![c] = rows[c]]
    /\ Goto(c, CASE rows[c].status \in {"active", "allocating", "fallback_allocating"} -> "mark"
                 [] rows[c].status = "terminating" -> "cleanup"
                 [] OTHER -> "orphan")
    /\ UNCHANGED <<key, body, cn>>

\* The reference is made durable in a terminating row before the cleanup.
Mark(c) ==
    /\ \/ /\ csess[c].status = "active"
          /\ Transit(c, "mark", "request_termination", None, "cleanup", "orphan")
       \/ /\ csess[c].status = "active"
          /\ cpc[c] = "mark"
          /\ Returned(c, "request_termination")
          /\ csess' = [csess EXCEPT ![c] = rows[c]]
          /\ Goto(c, IF rows[c].status = "terminating" THEN "cleanup" ELSE "orphan")
          /\ UNCHANGED <<key, body>>
       \/ /\ csess[c].status \in {"allocating", "fallback_allocating"}
          /\ Transit(c, "mark", "retain_for_cleanup", cn[c], "cleanup", "orphan")
    /\ UNCHANGED cn

Cleanup(c) ==
    /\ cpc[c] \in {"cleanup", "orphan"}
    /\ \/ /\ Terminate(c, cn[c])
          /\ cpc' = [cpc EXCEPT ![c] = IF cpc[c] = "cleanup" THEN "finish" ELSE "catch"]
          /\ UNCHANGED faults
       \/ /\ Fault
          /\ cpc' = [cpc EXCEPT ![c] = "catch"]
          /\ UNCHANGED provider
    /\ UNCHANGED <<rows, claims, attempts, revoked, key, body, csess, cn, tvars, rvars>>

Finish(c) ==
    /\ Transit(c, "finish", "complete_termination", None, "catch", "catch")
    /\ UNCHANGED cn

-------------------------------------------------------------------------------
(* The catch block of create: roll back what is durable, settle the claim    *)

Catch(c) ==
    /\ cpc[c] = "catch"
    /\ csess' = [csess EXCEPT ![c] = rows[c]]
    /\ Goto(c, CASE rows[c].status \in Terminal -> "failClaim"
                 [] rows[c].status \in {"active", "terminating"} -> "rollback"
                 [] OTHER -> "failRow")
    /\ UNCHANGED <<key, body, cn>>

FailRow(c) ==
    /\ Transit(c, "failRow", "fail", None, "failClaim", "failClaim")
    /\ UNCHANGED cn

\* cleanupPersisted
Rollback(c) ==
    /\ \/ /\ csess[c].status = "active"
          /\ Transit(c, "rollback", "request_termination", None, "rollbackCleanup", "failClaim")
       \/ /\ cpc[c] = "rollback"
          /\ csess[c].status = "active" => Returned(c, "request_termination")
          /\ csess' = [csess EXCEPT ![c] = IF @.status = "active" THEN rows[c] ELSE @]
          /\ Goto(c, "rollbackCleanup")
          /\ UNCHANGED <<key, body>>
    /\ UNCHANGED cn

RollbackCleanup(c) ==
    /\ cpc[c] = "rollbackCleanup"
    /\ \/ /\ Terminate(c, csess[c].ref)
          /\ cpc' = [cpc EXCEPT ![c] = "rollbackFinish"]
          /\ UNCHANGED faults
       \/ /\ Fault
          /\ cpc' = [cpc EXCEPT ![c] = "failClaim"]
          /\ UNCHANGED provider
    /\ UNCHANGED <<rows, claims, attempts, revoked, key, body, csess, cn, tvars, rvars>>

RollbackFinish(c) ==
    /\ Transit(c, "rollbackFinish", "complete_termination", None, "failClaim", "failClaim")
    /\ UNCHANGED cn

\* completeFailure throws when the claim is no longer this request's.
FailClaim(c) ==
    /\ cpc[c] = "failClaim"
    /\ claims' = IF Owns(c) THEN [claims EXCEPT ![key[c]].state = "failed"] ELSE claims
    /\ cpc' = [cpc EXCEPT ![c] = "failed"]
    /\ UNCHANGED <<rows, attempts, provider, revoked, key, body, csess, cn, tvars, rvars, faults>>

\* Where an exception leads: to the recovery of a received session, to the
\* catch block, past a failure the code swallows, or out of the handler.
OnThrow(pc) ==
    CASE pc = "received"  -> {"recover", "orphan"}
      [] pc = "activated" -> {"recover"}
      [] pc \in {"recover", "mark"} -> {"orphan"}
      [] pc \in {"owner", "routing", "start", "calling", "settled", "respond",
                 "providerError", "fallback", "finish"} -> {"catch"}
      [] pc \in {"failRow", "rollback", "rollbackFinish"} -> {"failClaim"}
      [] pc \in {"waiting", "catch", "failClaim"} -> {"failed"}
      [] OTHER -> {}

Throw(c) ==
    /\ \E to \in OnThrow(cpc[c]) : cpc' = [cpc EXCEPT ![c] = to]
    /\ Fault
    /\ UNCHANGED <<store, key, body, csess, cn, tvars, rvars>>

\* The API process dies: what is durable stays, the rest of the handler is lost.
Crash(c) ==
    /\ cpc[c] \in CreateWork
    /\ cpc' = [cpc EXCEPT ![c] = "crashed"]
    /\ Fault
    /\ UNCHANGED <<store, key, body, csess, cn, tvars, rvars>>

\* A request arrives.
Arrive(c) ==
    \E k \in Key, b \in Body :
        Reserve(c, k, b) \/ RefuseQuota(c, k, b) \/ ReadExisting(c, k, b)

\* The next step of its handler.
Handle(c) ==
    \/ WaitForCompletion(c)
    \/ Deny(c) \/ BeginRouting(c) \/ Route(c) \/ StartAttempt(c) \/ Allocate(c)
    \/ RecordFailure(c) \/ BeginFallback(c) \/ Activate(c) \/ RecordSuccess(c)
    \/ CompleteClaim(c) \/ Respond(c)
    \/ Recover(c) \/ Mark(c) \/ Cleanup(c) \/ Finish(c)
    \/ Catch(c) \/ FailRow(c) \/ Rollback(c) \/ RollbackCleanup(c)
    \/ RollbackFinish(c) \/ FailClaim(c)

Create(c) == Arrive(c) \/ Handle(c) \/ Throw(c) \/ Crash(c)

-------------------------------------------------------------------------------
(* DELETE /v1/sessions/:id                                                   *)

Find(t, s) ==
    /\ tpc[t] = "idle"
    /\ rows[s].status # "absent"
    /\ ttgt' = [ttgt EXCEPT ![t] = s]
    /\ tsess' = [tsess EXCEPT ![t] = rows[s]]
    /\ tpc' = [tpc EXCEPT ![t] = IF rows[s].status \in Terminal THEN "closed" ELSE "request"]
    /\ UNCHANGED <<store, cvars, rvars, faults>>

RequestTermination(t) ==
    /\ tpc[t] = "request"
    /\ \/ /\ \/ Committed(ttgt[t], tsess[t], "request_termination", None)
             \/ Returned(ttgt[t], "request_termination")
          /\ tsess' = [tsess EXCEPT ![t] = rows'[ttgt[t]]]
          /\ tpc' = [tpc EXCEPT ![t] = "revoke"]
       \/ /\ Refused(ttgt[t], tsess[t], "request_termination")
          /\ tpc' = [tpc EXCEPT ![t] = "rejected"]
          /\ UNCHANGED tsess
    /\ UNCHANGED <<claims, attempts, provider, revoked, cvars, ttgt, rvars, faults>>

\* A failed revocation does not stop the termination.
RevokeSession(t) ==
    /\ tpc[t] = "revoke"
    /\ \/ revoked' = revoked \cup {ttgt[t]} /\ UNCHANGED faults
       \/ Fault /\ UNCHANGED revoked
    /\ tpc' = [tpc EXCEPT ![t] = "release"]
    /\ UNCHANGED <<rows, claims, attempts, provider, cvars, tsess, ttgt, rvars>>

\* Mutant: a provider failure is swallowed and the termination completed.
ReleaseProviderSwallowed(t) ==
    /\ tpc[t] = "release"
    /\ tsess[t].ref # None
    /\ \/ Terminate(ttgt[t], tsess[t].ref) /\ UNCHANGED faults
       \/ Fault /\ UNCHANGED provider
    /\ tpc' = [tpc EXCEPT ![t] = "complete"]
    /\ UNCHANGED <<rows, claims, attempts, revoked, cvars, tsess, ttgt, rvars>>

ReleaseProvider(t) ==
    /\ tpc[t] = "release"
    /\ \/ /\ tsess[t].ref # None
          /\ Terminate(ttgt[t], tsess[t].ref)
          /\ tpc' = [tpc EXCEPT ![t] = "complete"]
          /\ UNCHANGED faults
       \/ /\ IF tsess[t].ref = None THEN UNCHANGED faults ELSE Fault
          /\ tpc' = [tpc EXCEPT ![t] = "error"]
          /\ UNCHANGED provider
    /\ UNCHANGED <<rows, claims, attempts, revoked, cvars, tsess, ttgt, rvars>>

\* Only a version conflict is worth a second look at the row.
CompleteTermination(t) ==
    /\ tpc[t] = "complete"
    /\ \/ /\ Committed(ttgt[t], tsess[t], "complete_termination", None)
          /\ tpc' = [tpc EXCEPT ![t] = "respond"]
       \/ /\ Refused(ttgt[t], tsess[t], "complete_termination")
          /\ tpc' = [tpc EXCEPT ![t] = IF rows[ttgt[t]].version # tsess[t].version
                                       THEN "recheck" ELSE "error"]
    /\ UNCHANGED <<claims, attempts, provider, revoked, cvars, tsess, ttgt, rvars, faults>>

Recheck(t) ==
    /\ tpc[t] = "recheck"
    /\ tpc' = [tpc EXCEPT ![t] = IF rows[ttgt[t]].status = "terminated" THEN "respond" ELSE "error"]
    /\ UNCHANGED <<store, cvars, tsess, ttgt, rvars, faults>>

RespondTermination(t) ==
    /\ tpc[t] = "respond"
    /\ tpc' = [tpc EXCEPT ![t] = "closed"]
    /\ UNCHANGED <<store, cvars, tsess, ttgt, rvars, faults>>

\* An exception anywhere in the handler is answered with an error; a killed
\* process answers nothing.
ThrowTermination(t) ==
    /\ tpc[t] \in TerminateWork
    /\ \E to \in {"error", "crashed"} : tpc' = [tpc EXCEPT ![t] = to]
    /\ Fault
    /\ UNCHANGED <<store, cvars, tsess, ttgt, rvars>>

Delete(t) ==
    \/ \E s \in Creator : Find(t, s)
    \/ RequestTermination(t) \/ RevokeSession(t) \/ ReleaseProvider(t)
    \/ CompleteTermination(t) \/ Recheck(t) \/ RespondTermination(t)
    \/ ThrowTermination(t)

-------------------------------------------------------------------------------
(* The reconciliation job.  Time is abstract: a row is stale, expired or past *)
(* its lease at any moment, since a request may pause for any time.           *)

\* Mutant: the scan forgets the fallback allocation.
CandidateNoFallback(s) ==
    \/ rows[s].status \in {"pending", "routing", "allocating", "active", "terminating"}
    \/ rows[s].status = "failed" /\ claims[key[s]].state = "in_progress"

\* Mutant: the scan forgets open claims of failed sessions.
CandidateNoClaims(s) == rows[s].status \in PreActive \cup {"active", "terminating"}

Candidate(s) ==
    \/ rows[s].status \in PreActive \cup {"active", "terminating"}
    \/ /\ rows[s].status = "failed"
       /\ claims[key[s]].state = "in_progress"

FindCandidate(r, s) ==
    /\ rpc[r] = "idle"
    /\ Candidate(s)
    /\ rtgt' = [rtgt EXCEPT ![r] = s]
    /\ rsess' = [rsess EXCEPT ![r] = rows[s]]
    /\ rpc' = [rpc EXCEPT ![r] = CASE rows[s].status = "failed"      -> "finalize"
                                   [] rows[s].status = "terminating" -> "terminate"
                                   [] OTHER                          -> "candidate"]
    /\ UNCHANGED <<store, cvars, tvars, faults>>

\* The job takes the next candidate.
Done(r) ==
    /\ rpc' = [rpc EXCEPT ![r] = "idle"]
    /\ rsess' = [rsess EXCEPT ![r] = Absent]
    /\ rtgt' = [rtgt EXCEPT ![r] = None]

\* A stale pre-active session fails; a CAS lost to its creator skips it.
FailStale(r) ==
    /\ rpc[r] = "candidate"
    /\ rsess[r].status \in PreActive
    /\ \/ /\ Committed(rtgt[r], rsess[r], "fail", None)
          /\ rpc' = [rpc EXCEPT ![r] = "finalize"]
          /\ UNCHANGED <<rsess, rtgt>>
       \/ /\ Refused(rtgt[r], rsess[r], "fail")
          /\ Done(r)
    /\ UNCHANGED <<claims, attempts, provider, revoked, cvars, tvars, faults>>

\* finalizeReconciledCreate settles the claim of the session if it is open.
FinalizeCreate(r) ==
    /\ rpc[r] = "finalize"
    /\ claims' = [k \in Key |->
                    IF claims[k].owner = rtgt[r] /\ claims[k].state = "in_progress"
                    THEN [claims[k] EXCEPT !.state = "failed"] ELSE claims[k]]
    /\ Done(r)
    /\ UNCHANGED <<rows, attempts, provider, revoked, cvars, tvars, faults>>

\* An expired session; a row found terminal after all stays unresolved.
ExpireActive(r) ==
    /\ rpc[r] = "candidate"
    /\ rsess[r].status = "active"
    /\ \/ /\ \/ Committed(rtgt[r], rsess[r], "request_termination", None)
             \/ Returned(rtgt[r], "request_termination")
          /\ IF rows'[rtgt[r]].status = "terminating"
             THEN /\ rsess' = [rsess EXCEPT ![r] = rows'[rtgt[r]]]
                  /\ rpc' = [rpc EXCEPT ![r] = "terminate"]
                  /\ UNCHANGED rtgt
             ELSE Done(r)
       \/ /\ Refused(rtgt[r], rsess[r], "request_termination")
          /\ Done(r)
    /\ UNCHANGED <<claims, attempts, provider, revoked, cvars, tvars, faults>>

TerminateProvider(r) ==
    /\ rpc[r] = "terminate"
    /\ Terminate(rtgt[r], rsess[r].ref)
    /\ rpc' = [rpc EXCEPT ![r] = "complete"]
    /\ UNCHANGED <<rows, claims, attempts, revoked, cvars, tvars, rsess, rtgt, faults>>

CompleteReconciled(r) ==
    /\ rpc[r] = "complete"
    /\ \/ Committed(rtgt[r], rsess[r], "complete_termination", None)
       \/ Refused(rtgt[r], rsess[r], "complete_termination")
    /\ Done(r)
    /\ UNCHANGED <<claims, attempts, provider, revoked, cvars, tvars, faults>>

\* Any failure, and the death of the job, leaves the candidate to a later scan.
Skip(r) ==
    /\ rpc[r] \in ReconcileWork
    /\ Done(r)
    /\ Fault
    /\ UNCHANGED <<store, cvars, tvars>>

Work(r) ==
    \/ FailStale(r) \/ FinalizeCreate(r) \/ ExpireActive(r)
    \/ TerminateProvider(r) \/ CompleteReconciled(r)

Reconcile(r) ==
    \/ \E s \in Creator : FindCandidate(r, s)
    \/ Work(r)
    \/ Skip(r)

-------------------------------------------------------------------------------
\* The provider ends a session by itself at the end of its lifetime.
ProviderExpires(s, n) ==
    /\ provider[s][n] \in {"live", "lost"}
    /\ Terminate(s, n)
    /\ UNCHANGED <<rows, claims, attempts, revoked, cvars, tvars, rvars, faults>>

Next ==
    \/ \E c \in Creator : Create(c)
    \/ \E t \in Terminator : Delete(t)
    \/ \E r \in Reconciler : Reconcile(r)
    \/ \E s \in Creator, n \in Attempt : ProviderExpires(s, n)

Spec == Init /\ [][Next]_vars

(* The job is scheduled again and again and finishes what it picks up; a     *)
(* batch holds every candidate, oldest first, so none is passed over forever *)
(* while the candidates fit in a batch.                                      *)
Fairness ==
    \A r \in Reconciler :
        /\ WF_vars(Work(r))
        /\ \A s \in Creator : SF_vars(FindCandidate(r, s))

FairSpec == Spec /\ Fairness

\* Moreover, the handler of a create request runs on unless its process dies.
FairHandlersSpec == FairSpec /\ \A c \in Creator : WF_vars(Handle(c))

-------------------------------------------------------------------------------
(* Properties                                                                *)

\* Every table, local copy and handler position has its type.
TypeOK ==
    /\ rows \in [Creator -> Session]
    /\ claims \in [Key -> Claim]
    /\ attempts \in [Creator -> [Attempt -> AttemptStatus]]
    /\ provider \in [Creator -> [Attempt -> ProviderStatus]]
    /\ revoked \subseteq Creator
    /\ key \in [Creator -> Key \cup {None}]
    /\ body \in [Creator -> Body \cup {None}]
    /\ cpc \in [Creator -> CreatePc]
    /\ csess \in [Creator -> Session]
    /\ cn \in [Creator -> Attempt]
    /\ tpc \in [Terminator -> TerminatePc]
    /\ tsess \in [Terminator -> Session]
    /\ ttgt \in [Terminator -> Creator \cup {None}]
    /\ rpc \in [Reconciler -> ReconcilePc]
    /\ rsess \in [Reconciler -> Session]
    /\ rtgt \in [Reconciler -> Creator \cup {None}]
    /\ faults \in 0 .. MaxFaults

\* A session is reported terminated only once the provider session its row
\* names is gone, whoever of the create rollback, a delete request and the
\* reconciler completed the termination.
TerminatedMeansReleased ==
    \A s \in Creator :
        rows[s].status = "terminated" =>
            /\ rows[s].ref # None
            /\ provider[s][rows[s].ref] = "gone"

\* A provider session the control plane received and that still runs can be
\* found from the database: an active or terminating row holds its reference,
\* or its allocation attempt is still open and counts as a suspected leak.
ReceivedAccounted ==
    \A s \in Creator, n \in Attempt :
        provider[s][n] = "live" =>
            \/ rows[s].status \in {"active", "terminating"} /\ rows[s].ref = n
            \/ attempts[s][n] = "started"

\* A failed session never held a reference: neither the reconciler nor the
\* catch block of create fails a session that became active behind its back.
FailedUnreferenced ==
    \A s \in Creator : rows[s].status = "failed" => rows[s].ref = None

\* The tenant never has more non-terminal sessions than its quota, however
\* its create requests interleave.
QuotaRespected == Cardinality(QuotaUsed) <= MaxConcurrentSessions

\* Requests that share an idempotency key allocate for one session only.
SingleAllocation ==
    \A c, d \in Creator :
        /\ key[c] # None
        /\ key[c] = key[d]
        /\ attempts[c]["primary"] # "none"
        /\ attempts[d]["primary"] # "none"
        => c = d

\* The fallback allocates only after the primary attempt was closed as failed,
\* so a session never has two provider sessions it knows of.
OneBrowserPerSession ==
    \A s \in Creator :
        attempts[s]["fallback"] # "none" =>
            /\ attempts[s]["primary"] = "failed"
            /\ provider[s]["primary"] # "live"

\* A create answered with 201, by its owner or from the stored claim, stands
\* for a session that became active through an attempt recorded as successful.
CreatedIsDurable ==
    \A c \in Creator :
        cpc[c] = "created" =>
            LET claim == claims[key[c]]
                row   == rows[claim.owner]
            IN  /\ claim.state = "succeeded"
                /\ row.status \in ActiveLifecycle
                /\ attempts[claim.owner][row.ref] = "succeeded"

\* When no call fails and no process dies, a failed create leaves nothing
\* behind: a terminal session, a settled claim and no running browser.
FailedCreateIsClean ==
    \A c \in Creator :
        cpc[c] = "failed" /\ claims[key[c]].owner = c /\ faults = 0 =>
            /\ rows[c].status \in Terminal
            /\ claims[key[c]].state = "failed"
            /\ \A n \in Attempt : provider[c][n] # "live"

\* A session that a crash, or a handler that never resumes, leaves on its way up or
\* down arrives: the reconciler fails a stale one and completes a termination
\* whose request is lost.
UnfinishedSettles ==
    \A s \in Creator :
        rows[s].status \in PreActive \cup {"terminating"} ~>
            rows[s].status \in Terminal \cup {"active"}

\* The claim of a failed session is settled although the process that failed
\* the session dies before it settles the claim.
FailedClaimsSettle ==
    \A k \in Key :
        (/\ claims[k].state = "in_progress"
         /\ rows[claims[k].owner].status = "failed") ~> claims[k].state = "failed"

\* The phase of the abstract session, and the state of the browser it is bound to.
Phase(status) ==
    CASE status = "absent"      -> "absent"
      [] status \in PreActive   -> "opening"
      [] status = "active"      -> "live"
      [] status = "terminating" -> "closing"
      [] status = "terminated"  -> "closed"
      [] status = "failed"      -> "failed"
      [] status = "expired"     -> "expired"

Browser(s) ==
    IF rows[s].ref = None THEN "none"
    ELSE IF provider[s][rows[s].ref] = "gone" THEN "released" ELSE "held"

Phases == [s \in Creator |-> Phase(rows[s].status)]

Bindings == [s \in Creator |-> rows[s].ref]

Browsers == [s \in Creator |-> Browser(s)]

\* The life of every session implements SessionPromise: the compare-and-set
\* rows of all handlers together bind a session once, never rebind, fail or
\* revive it afterwards, and close it only after its browser is released.
Promise == INSTANCE SessionPromise WITH
    Sessions <- Creator,
    Runtimes <- Attempt,
    Unbound  <- None,
    phase    <- Phases,
    binding  <- Bindings,
    browser  <- Browsers

PromiseKept == Promise!Spec

-------------------------------------------------------------------------------
(* Statements of the repository that the model refutes                       *)

\* docs/USER_GUIDE.md:49 "Deletion is idempotent.": a delete request that ends
\* with an error met a failure, or its session is not terminated.
DeleteIsIdempotent ==
    \A t \in Terminator :
        tpc[t] = "error" /\ rows[ttgt[t]].status = "terminated" => faults > 0

\* operations/runbooks.md:38 "idempotent retry returns the same result": a retry
\* is not answered with 201 when the owner of its claim was answered with an error.
RetryReturnsSameResult ==
    \A c, d \in Creator :
        ~ /\ key[c] # None
          /\ key[c] = key[d]
          /\ claims[key[c]].owner = c
          /\ cpc[c] = "failed"
          /\ cpc[d] = "created"

\* apps/api/src/services/session-service.ts:790 "a durable allocation attempt
\* remains for reconciliation": a browser that a finished create leaves running
\* is one the reconciler's scan still sees, through the reference of its row or
\* through the open attempt of an allocating row.
LeftoverIsReconcilable ==
    \A c \in Creator, n \in Attempt :
        provider[c][n] = "live" /\ cpc[c] = "failed" =>
            \/ rows[c].status \in {"active", "terminating"} /\ rows[c].ref = n
            \/ /\ rows[c].status \in {"allocating", "fallback_allocating"}
               /\ attempts[c][n] = "started"

\* operations/runbooks.md:11 "reconciliation handles interrupted work": the claim
\* of an interrupted create does not stay in progress for ever.
ClaimsSettle ==
    \A k \in Key : claims[k].state = "in_progress" ~> claims[k].state # "in_progress"
==============================================================================
