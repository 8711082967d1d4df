------------------------------- MODULE TaskQueue -------------------------------
(***************************************************************************)
(* Managed tasks of one tenant: create requests, the PostgreSQL queue, the *)
(* workers that claim and execute its tasks, and the object storage that   *)
(* receives their artifacts.                                               *)
(*                                                                         *)
(* Time runs in ticks.  Deadlines kept by a timer of the process (the      *)
(* execution deadline) and the duration of a claim are enforced by not     *)
(* letting time pass beyond them; leases and retry times are data, and     *)
(* nothing happens by itself when they pass.  Each transaction is one step *)
(* except claimNext, which reads the clock, fails exhausted rows and then  *)
(* waits for the tenant's advisory lock; its second step runs under it.    *)
(* Failing calls, killed processes, shutdowns and storage outages draw on  *)
(* one budget, MaxFaults.                                                  *)
(***************************************************************************)
EXTENDS TaskStates, FiniteSets

CONSTANTS Worker,             \* worker processes
          Caller,             \* create requests
          Session,            \* browser sessions tasks may name
          Key, Body,          \* idempotency keys and request hashes
          Kind,               \* "extract", or "artifact" for screenshot and pdf
          MaxTasks,           \* bound on the tasks ever created
          MaxQueued,          \* config.tasks.maxQueuedPerTenant
          MaxRecent, Window,  \* config.tasks.requestsPerMinute and the minute
          RunningLimits,      \* the values config.tasks.maxRunningPerTenant may have
          ExecutionTimeout,   \* config.tasks.executionTimeoutMs
          ClaimDelay,         \* bound on the time from claimNext's clock to its answer
          QueryDelay,         \* query_timeout of the pool: bound on one query's answer
          MaxFaults           \* bound on failures

\* validateConfig demands a lease 15 s longer than an execution, so that the
\* lease covers the execution and the time its claim took.
ASSUME TaskQueueAssumption ==
    /\ {MaxTasks, MaxQueued, MaxRecent, Window, ExecutionTimeout, ClaimDelay,
        QueryDelay, MaxFaults, MaxRetryDelay} \cup RunningLimits \subseteq Nat
    /\ MaxAttempts \in Nat \ {0}
    /\ LeaseTTL \in Nat
    /\ LeaseTTL > ExecutionTimeout + ClaimDelay

VARIABLES rows,      \* table managed_tasks
          idem,      \* table task_create_idempotency
          artifacts, \* table artifacts: the storage key of each task
          objects,   \* object storage: keys <<task, attempt>>
          storage,   \* whether object storage answers
          active,    \* sessions whose row is active
          life,      \* ticks until each session expires, up to LongLife, and back
                     \* to QueryDelay ticks after
          maxRunning, \* the configured maxRunningPerTenant, which never changes
          apc, areq, atask,            \* create: position, request, answered task
          wpc, hold, wage, wdl, wdead, \* worker: position, claimed row, age of
                                       \* claimNext's clock, time to the deadline,
                                       \* rows failed in the open transaction
          wseen,     \* worker: the lifetime findExecutionSession read, and its age
          wstop,     \* workers that received a termination signal
          faults

qvars == <<rows, idem, artifacts, objects>>
svars == <<storage, active, life, maxRunning>>
avars == <<apc, areq, atask>>
wvars == <<wpc, hold, wage, wdl, wdead, wseen, wstop>>
vars  == <<qvars, svars, avars, wvars, faults>>

Task == 1..MaxTasks

WorkerPc == {"idle", "claiming", "granted", "starting", "found", "executing",
             "uploading", "completing", "deleting", "failRetry", "failFatal", "exited"}

CallerFinal == {"created", "existing", "conflict", "refused", "quota", "error"}

CallerPc == {"idle", "checking", "inserting"} \cup CallerFinal

\* Remaining lifetimes beyond the execution timeout are alike to the code.
LongLife == ExecutionTimeout + 1

NoHold == [task |-> 0, attempts |-> 0, version |-> 0]

NoAnswer == [life |-> 0, age |-> 0]

Init ==
    /\ rows = [t \in Task |-> NoTask]
    /\ idem = [x \in Session \X Key |-> [task |-> 0, body |-> "none"]]
    /\ artifacts = [t \in Task |-> <<>>]
    /\ objects = {}
    /\ storage = "up"
    /\ active = Session
    /\ life = [s \in Session |-> LongLife]
    /\ apc = [a \in Caller |-> "idle"]
    /\ areq = [a \in Caller |-> <<>>]
    /\ atask = [a \in Caller |-> 0]
    /\ wpc = [w \in Worker |-> "idle"]
    /\ hold = [w \in Worker |-> NoHold]
    /\ wage = [w \in Worker |-> 0]
    /\ wdl = [w \in Worker |-> 0]
    /\ wdead = [w \in Worker |-> {}]
    /\ wseen = [w \in Worker |-> NoAnswer]
    /\ wstop = [w \in Worker |-> FALSE]
    /\ faults = 0
    /\ maxRunning \in RunningLimits

Fault ==
    /\ faults < MaxFaults
    /\ faults' = faults + 1

-------------------------------------------------------------------------------
(* POST /v1/sessions/:id/tasks                                               *)

Record(a) == idem[<<areq[a].session, areq[a].key>>]

\* What an idempotency record r answers to body h.
Replayed(r, h) == IF r.body = h THEN "existing" ELSE "conflict"

\* findIdempotentTask comes before anything that can change is looked at.
Submit(a) ==
    /\ apc[a] = "idle"
    /\ \E s \in Session, k \in Key, h \in Body, d \in Kind :
         LET r == idem[<<s, k>>] IN
         /\ areq' = [areq EXCEPT ![a] = [session |-> s, key |-> k, body |-> h, kind |-> d]]
         /\ IF r.task = 0
            THEN apc' = [apc EXCEPT ![a] = "checking"] /\ UNCHANGED atask
            ELSE /\ apc' = [apc EXCEPT ![a] = Replayed(r, h)]
                 /\ atask' = [atask EXCEPT ![a] = r.task]
    /\ UNCHANGED <<qvars, svars, wvars, faults>>

\* Capabilities depend on the session's runtime and the request only; a task
\* the runtime cannot run is refused here.
CheckSession(a) ==
    /\ apc[a] = "checking"
    /\ \/ apc' = [apc EXCEPT ![a] = "refused"]
       \/ /\ areq[a].session \in active
          /\ apc' = [apc EXCEPT ![a] = "inserting"]
    /\ UNCHANGED <<qvars, svars, areq, atask, wvars, faults>>

Queued == {t \in Task : rows[t].status \in {"queued", "running", "retry_pending"}}

\* Tasks created less than a minute ago.
Recent == {t \in Task : rows[t].status # "none" /\ rows[t].born < Window}

OverQuota == Cardinality(Queued) >= MaxQueued \/ Cardinality(Recent) >= MaxRecent

NextTask == 1 + Cardinality({t \in Task : rows[t].status # "none"})

InsertTask(a) ==
    LET s == areq[a].session
        t == NextTask
    IN  /\ s \in active
        /\ life[s] > 0
        /\ ~OverQuota
        /\ t \in Task
        /\ rows' = [rows EXCEPT ![t] = NewTask(s, areq[a].kind)]
        /\ idem' = [idem EXCEPT ![<<s, areq[a].key>>] = [task |-> t, body |-> areq[a].body]]
        /\ \/ /\ apc' = [apc EXCEPT ![a] = "created"]
              /\ atask' = [atask EXCEPT ![a] = t]
              /\ UNCHANGED faults
           \/ /\ Fault    \* committed, and the answer is lost
              /\ apc' = [apc EXCEPT ![a] = "error"]
              /\ UNCHANGED atask

\* Mutant: the record is not read again under the tenant's lock.
CreateIdempotentUnchecked(a) ==
    /\ apc[a] = "inserting"
    /\ InsertTask(a)
    /\ UNCHANGED <<artifacts, objects, svars, areq, wvars>>

\* createIdempotent, one transaction under the tenant's advisory lock.
CreateIdempotent(a) ==
    /\ apc[a] = "inserting"
    /\ \/ /\ Record(a).task # 0
          /\ apc' = [apc EXCEPT ![a] = Replayed(Record(a), areq[a].body)]
          /\ atask' = [atask EXCEPT ![a] = Record(a).task]
          /\ UNCHANGED <<rows, idem, faults>>
       \/ /\ Record(a).task = 0
          /\ areq[a].session \notin active \/ life[areq[a].session] <= 0
          /\ apc' = [apc EXCEPT ![a] = "refused"]
          /\ UNCHANGED <<rows, idem, atask, faults>>
       \/ /\ Record(a).task = 0
          /\ areq[a].session \in active /\ life[areq[a].session] > 0
          /\ OverQuota
          /\ apc' = [apc EXCEPT ![a] = "quota"]
          /\ UNCHANGED <<rows, idem, atask, faults>>
       \/ /\ Record(a).task = 0
          /\ InsertTask(a)
    /\ UNCHANGED <<artifacts, objects, svars, areq, wvars>>

CreateThrows(a) ==
    /\ apc[a] \in {"checking", "inserting"}
    /\ Fault
    /\ apc' = [apc EXCEPT ![a] = "error"]
    /\ UNCHANGED <<qvars, svars, areq, atask, wvars>>

-------------------------------------------------------------------------------
(* claimNext                                                                 *)

\* Rows an open claimNext has failed and not committed: writers of them wait.
Locked == UNION {wdead[w] : w \in Worker}

\* Mutant: the last attempt is failed while its lease still runs.
ExhaustedLive(at) ==
    {t \in Task : rows[t].status = "running" /\ rows[t].attempts >= MaxAttempts}

Exhausted(at) ==
    {t \in Task : rows[t].status = "running" /\ rows[t].lease <= -at
                  /\ rows[t].attempts >= MaxAttempts}

\* The rows as the claim of w sees them: the exhausted rows it found have failed.
Failed(dead, at) ==
    [t \in Task |-> IF t \in dead THEN TaskApply(rows[t], "fail", at) ELSE rows[t]]

\* Rows to claim: none whose session another live claim occupies.
CandidatesIn(R, at) ==
    {t \in Task :
        /\ Claimable(R[t], at)
        /\ \A u \in Task \ {t} : R[u].session = R[t].session => ~LiveAt(R[u], at)}

RunningIn(R, at) == {t \in Task : LiveAt(R[t], at)}

\* order by running first, created_at, id: tasks are numbered as they are created.
Before(R, t, u) ==
    \/ R[t].status = "running" /\ R[u].status # "running"
    \/ (R[t].status = "running" <=> R[u].status = "running") /\ t <= u

\* runOnce returned: the loop of main ends when a signal has arrived.
Done(w) == IF wstop[w] THEN "exited" ELSE "idle"

\* An error of the attempt: after a signal the claim is left to expire.
FailTo(w, to) == IF wstop[w] THEN "exited" ELSE to

\* Clock, exhausted rows and the search for a tenant.
ClaimStart(w) ==
    LET dead == Exhausted(0)
        R == Failed(dead, 0)
    IN  /\ wpc[w] = "idle"
        /\ ~wstop[w]
        /\ dead \cap Locked = {}
        /\ IF CandidatesIn(R, 0) # {} /\ Cardinality(RunningIn(R, 0)) < maxRunning
           THEN /\ wpc' = [wpc EXCEPT ![w] = "claiming"]
                /\ wdead' = [wdead EXCEPT ![w] = dead]
                /\ UNCHANGED rows
           ELSE /\ rows' = R
                /\ UNCHANGED <<wpc, wdead>>
        /\ UNCHANGED <<idem, artifacts, objects, svars, avars, hold, wage, wdl, wseen, wstop,
                       faults>>

\* Rows whose claim holder has a transaction under way: skip locked passes over them.
InFlight(w) ==
    {hold[v].task : v \in {v \in Worker \ {w} : wpc[v] \in {"completing", "failRetry", "failFatal"}}}

\* Mutant: the running claims are not counted again under the lock.
RoomUncounted(R, at) == TRUE

Room(R, at) == Cardinality(RunningIn(R, at)) < maxRunning

\* The session already has a running row: the unique index refuses a second.
Occupied(R, t) == \E u \in Task \ {t} : R[u].session = R[t].session /\ R[u].status = "running"

\* Worker w goes to position to; an idle or dead process holds no claim.
Leave(w, to) ==
    /\ wpc' = [wpc EXCEPT ![w] = to]
    /\ hold' = IF to \in {"idle", "exited"} THEN [hold EXCEPT ![w] = NoHold] ELSE hold
    /\ wdl' = IF to \in {"executing", "uploading"} THEN wdl ELSE [wdl EXCEPT ![w] = 0]
    /\ wseen' = [wseen EXCEPT ![w] = NoAnswer]

\* The claim's transaction ends without a claim.
EndClaim(w, to) ==
    /\ Leave(w, to)
    /\ wdead' = [wdead EXCEPT ![w] = {}]
    /\ wage' = [wage EXCEPT ![w] = 0]

Granted(w, t, R, at) ==
    /\ rows' = [R EXCEPT ![t] = TaskApply(R[t], "claim", at)]
    /\ hold' = [hold EXCEPT ![w] = [task |-> t, attempts |-> rows'[t].attempts,
                                    version |-> rows'[t].version]]
    /\ wpc' = [wpc EXCEPT ![w] = "granted"]
    /\ wdead' = [wdead EXCEPT ![w] = {}]
    /\ UNCHANGED <<wage, wdl, wseen>>

\* Under the lock, still at the clock read before it was waited for.
ClaimFinish(w) ==
    LET at == wage[w]
        R == Failed(wdead[w], at)
    IN  /\ wpc[w] = "claiming"
        /\ \E L \in SUBSET InFlight(w) :
             LET C == CandidatesIn(R, at) \ L IN
             \/ /\ ~Room(R, at) \/ C = {}
                /\ rows' = R
                /\ EndClaim(w, Done(w))
             \/ /\ Room(R, at)
                /\ \E t \in C :
                     /\ \A u \in C : Before(R, t, u)
                     /\ \/ /\ R[t].age < at    \* the row is younger than the clock
                           /\ EndClaim(w, "exited") /\ UNCHANGED rows
                        \/ /\ R[t].age >= at
                           /\ Occupied(R, t)
                           /\ EndClaim(w, Done(w)) /\ UNCHANGED rows
                        \/ /\ R[t].age >= at
                           /\ ~Occupied(R, t)
                           /\ Granted(w, t, R, at)
        /\ UNCHANGED <<idem, artifacts, objects, svars, avars, wstop, faults>>


-------------------------------------------------------------------------------
(* The rest of runOnce: #execute and #handleFailure                          *)

Mine(w) == hold[w].task

Sess(w) == rows[Mine(w)].session

\* Mutant: the key does not name the attempt.
ObjectKeyShared(w) == <<Mine(w), 1>>

\* Storage keys name the attempt and a digest of the claim token.
ObjectKey(w) == <<Mine(w), hold[w].attempts>>

\* Mutant: neither version nor claim token is compared.
OwnsBlind(w) == rows[Mine(w)].status = "running"

\* The guards of transition and of insertArtifactAndComplete.
Owns(w) ==
    /\ rows[Mine(w)].version = hold[w].version
    /\ rows[Mine(w)].token = hold[w].attempts

\* Worker w moves to position to without touching the database or the storage.
Move(w, to) ==
    /\ Leave(w, to)
    /\ UNCHANGED <<qvars, svars, avars, wage, wdead, wstop>>

\* The answer of claimNext arrives; the execution deadline starts.
Receive(w) ==
    /\ wpc[w] = "granted"
    /\ wpc' = [wpc EXCEPT ![w] = "starting"]
    /\ wage' = [wage EXCEPT ![w] = 0]
    /\ wdl' = [wdl EXCEPT ![w] = ExecutionTimeout]
    /\ UNCHANGED <<qvars, svars, avars, hold, wdead, wseen, wstop, faults>>

\* Mutant: the row is read without its remaining lifetime.
LifetimeUnread(s) == IF s \in active THEN LongLife ELSE 0

\* What findExecutionSession reads: the remaining lifetime by the database's clock,
\* and 0 for a session that cannot be used.
Lifetime(s) == IF s \in active /\ life[s] > 0 THEN life[s] ELSE 0

\* The signals are examined, and the session's row is read; its answer is yet to
\* arrive.
FindSession(w) ==
    /\ wpc[w] = "starting"
    /\ \/ /\ wstop[w] \/ wdl[w] = 0
          /\ Move(w, FailTo(w, "failRetry"))
          /\ UNCHANGED faults
       \/ /\ ~wstop[w] /\ wdl[w] > 0
          /\ wpc' = [wpc EXCEPT ![w] = "found"]
          /\ wseen' = [wseen EXCEPT ![w] = [life |-> Lifetime(Sess(w)), age |-> 0]]
          /\ UNCHANGED <<qvars, svars, avars, hold, wage, wdl, wdead, wstop, faults>>

\* The timers of the attempt and of the session, armed with the lifetime as it
\* was read.
Deadline(w) == IF wseen[w].life < wdl[w] THEN wseen[w].life ELSE wdl[w]

\* The answer arrives: an unusable session, then the signals once more, then a
\* runtime that cannot run the task, and at last the deadline.
Start(w) ==
    /\ wpc[w] = "found"
    /\ \/ /\ wseen[w].life = 0
          /\ Move(w, FailTo(w, "failFatal"))
          /\ UNCHANGED faults
       \/ /\ wseen[w].life > 0
          /\ wstop[w] \/ wdl[w] = 0
          /\ Move(w, FailTo(w, "failRetry"))
          /\ UNCHANGED faults
       \/ /\ wseen[w].life > 0 /\ ~wstop[w] /\ wdl[w] > 0
          /\ Move(w, "failFatal")
          /\ UNCHANGED faults
       \/ /\ wseen[w].life > 0 /\ ~wstop[w] /\ wdl[w] > 0
          /\ wpc' = [wpc EXCEPT ![w] = "executing"]
          /\ wdl' = [wdl EXCEPT ![w] = Deadline(w)]
          /\ wseen' = [wseen EXCEPT ![w] = NoAnswer]
          /\ UNCHANGED <<qvars, svars, avars, hold, wage, wdead, wstop, faults>>
       \/ /\ Fault    \* the query or the decryption of the reference fails
          /\ Move(w, FailTo(w, "failRetry"))

\* The browser returns an output, an output beyond the limits or an error, or
\* the deadline or a signal interrupts it.
Execute(w) ==
    /\ wpc[w] = "executing"
    /\ \/ /\ wdl[w] > 0 /\ ~wstop[w]
          /\ \/ Move(w, IF rows[Mine(w)].kind = "artifact" THEN "uploading" ELSE "completing")
             \/ Move(w, "failRetry")
             \/ Move(w, "failFatal")
       \/ /\ wdl[w] = 0 \/ wstop[w]
          /\ Move(w, FailTo(w, "failRetry"))
    /\ UNCHANGED faults

\* storage.put under the same signals; a put that fails may have stored the object.
Upload(w) ==
    /\ wpc[w] = "uploading"
    /\ \/ /\ storage = "up" /\ wdl[w] > 0 /\ ~wstop[w]
          /\ objects' = objects \cup {ObjectKey(w)}
          /\ Leave(w, "completing")
          /\ UNCHANGED faults
       \/ /\ IF storage = "down" \/ wdl[w] = 0 \/ wstop[w] THEN UNCHANGED faults ELSE Fault
          /\ objects' \in {objects, objects \cup {ObjectKey(w)}}
          /\ Leave(w, FailTo(w, "failRetry"))
    /\ UNCHANGED <<rows, idem, artifacts, svars, avars, wage, wdead, wstop>>

Commit(w) ==
    /\ rows' = [rows EXCEPT ![Mine(w)] = TaskApply(@, "succeed", 0)]
    /\ artifacts' = IF rows[Mine(w)].kind = "artifact"
                    THEN [artifacts EXCEPT ![Mine(w)] = ObjectKey(w)] ELSE artifacts

\* Where the attempt continues when the completing transaction throws something
\* other than TaskTransitionError.
\* Mutant: the object is deleted after any error.
AfterCommitErrorDeletes(w) ==
    IF rows[Mine(w)].kind = "artifact" THEN "deleting" ELSE FailTo(w, "failRetry")

AfterCommitError(w) == FailTo(w, "failRetry")

\* transition(succeed) or insertArtifactAndComplete.
Complete(w) ==
    /\ wpc[w] = "completing"
    /\ Mine(w) \notin Locked
    /\ \/ /\ Owns(w)
          /\ Commit(w)
          /\ \/ Leave(w, Done(w)) /\ UNCHANGED faults
             \/ Fault /\ Leave(w, AfterCommitError(w))
       \/ /\ ~Owns(w)
          /\ Leave(w, IF rows[Mine(w)].kind = "artifact" THEN "deleting" ELSE Done(w))
          /\ UNCHANGED <<rows, artifacts, faults>>
       \/ /\ Fault    \* nothing committed
          /\ Leave(w, AfterCommitError(w))
          /\ UNCHANGED <<rows, artifacts>>
    /\ UNCHANGED <<idem, objects, svars, avars, wage, wdead, wstop>>

\* The loser removes its object; a failure to do so is logged.
Delete(w) ==
    /\ wpc[w] = "deleting"
    /\ \/ storage = "up" /\ objects' = objects \ {ObjectKey(w)} /\ UNCHANGED faults
       \/ /\ IF storage = "down" THEN UNCHANGED faults ELSE Fault
          /\ UNCHANGED objects
    /\ Leave(w, Done(w))
    /\ UNCHANGED <<rows, idem, artifacts, svars, avars, wage, wdead, wstop>>

FailureEvent(w) ==
    IF wpc[w] = "failRetry" /\ hold[w].attempts < MaxAttempts THEN "schedule_retry" ELSE "fail"

\* A transition error means that the claim was lost; any other ends the process.
HandleFailure(w) ==
    /\ wpc[w] \in {"failRetry", "failFatal"}
    /\ Mine(w) \notin Locked
    /\ \/ /\ Owns(w) /\ TaskAccepts(rows[Mine(w)], FailureEvent(w), 0)
          /\ rows' = [rows EXCEPT ![Mine(w)] = TaskApply(@, FailureEvent(w), 0)]
          /\ \/ Leave(w, Done(w)) /\ UNCHANGED faults
             \/ Fault /\ Leave(w, "exited")
       \/ /\ ~(Owns(w) /\ TaskAccepts(rows[Mine(w)], FailureEvent(w), 0))
          /\ Leave(w, Done(w))
          /\ UNCHANGED <<rows, faults>>
    /\ UNCHANGED <<idem, artifacts, objects, svars, avars, wage, wdead, wstop>>

-------------------------------------------------------------------------------
(* Processes, sessions, storage and time                                     *)

Shutdown(w) ==
    /\ wpc[w] # "exited" /\ ~wstop[w]
    /\ Fault
    /\ wstop' = [wstop EXCEPT ![w] = TRUE]
    /\ UNCHANGED <<qvars, svars, avars, wpc, hold, wage, wdl, wdead, wseen>>

\* A killed process, or a claim whose queries fail: its transaction is rolled back.
Crash(w) ==
    /\ wpc[w] # "exited"
    /\ Fault
    /\ EndClaim(w, "exited")
    /\ UNCHANGED <<qvars, svars, avars, wstop>>

\* After a signal the idle loop ends, and an operation that outlasts the drain
\* timeout is abandoned.
Drained(w) ==
    /\ wpc[w] # "exited"
    /\ wstop[w]
    /\ EndClaim(w, "exited")
    /\ UNCHANGED <<qvars, svars, avars, wstop, faults>>

\* The orchestrator replaces the process.
Restart(w) ==
    /\ wpc[w] = "exited"
    /\ wpc' = [wpc EXCEPT ![w] = "idle"]
    /\ wstop' = [wstop EXCEPT ![w] = FALSE]
    /\ UNCHANGED <<qvars, svars, avars, hold, wage, wdl, wdead, wseen, faults>>

EndSession(s) ==
    /\ s \in active
    /\ active' = active \ {s}
    /\ UNCHANGED <<qvars, storage, life, maxRunning, avars, wvars, faults>>

StorageDown ==
    /\ storage = "up"
    /\ Fault
    /\ storage' = "down"
    /\ UNCHANGED <<qvars, active, life, maxRunning, avars, wvars>>

StorageUp ==
    /\ storage = "down"
    /\ storage' = "up"
    /\ UNCHANGED <<qvars, active, life, maxRunning, avars, wvars, faults>>

\* One tick later, down to the oldest moment a claim can still compare with.
Sooner(r) == IF r > -ClaimDelay THEN r - 1 ELSE r

Older(n, cap) == IF n < cap THEN n + 1 ELSE n

Aged(row) ==
    CASE row.status = "none"          -> row
      [] row.status = "running"       -> [row EXCEPT !.lease = Sooner(@),
                                            !.age = Older(@, ClaimDelay), !.born = Older(@, Window)]
      [] row.status = "retry_pending" -> [row EXCEPT !.next = Sooner(@),
                                            !.age = Older(@, ClaimDelay), !.born = Older(@, Window)]
      [] OTHER                        -> [row EXCEPT !.age = Older(@, ClaimDelay),
                                            !.born = Older(@, Window)]

\* Timers fire on time, a claim is answered within ClaimDelay and a query within
\* QueryDelay.
Tick ==
    /\ \A w \in Worker : wpc[w] \in {"claiming", "granted"} => wage[w] < ClaimDelay
    /\ \A w \in Worker : wpc[w] = "found" => wseen[w].age < QueryDelay
    /\ \A w \in Worker : wpc[w] \in {"executing", "uploading"} => wdl[w] > 0
    /\ rows' = [t \in Task |-> Aged(rows[t])]
    /\ \E long \in SUBSET {s \in Session : life[s] = LongLife} :
         life' = [s \in Session |-> IF s \in long \/ life[s] = -QueryDelay
                                   THEN life[s] ELSE life[s] - 1]
    /\ wage' = [w \in Worker |-> IF wpc[w] \in {"claiming", "granted"} THEN wage[w] + 1 ELSE wage[w]]
    /\ wdl' = [w \in Worker |-> IF wdl[w] > 0 THEN wdl[w] - 1 ELSE 0]
    /\ wseen' = [w \in Worker |-> IF wpc[w] = "found"
                                 THEN [wseen[w] EXCEPT !.age = @ + 1] ELSE wseen[w]]
    /\ UNCHANGED <<idem, artifacts, objects, storage, active, maxRunning, avars, wpc, hold,
                   wdead, wstop, faults>>

\* What getArtifact answers within the retention time.
Download(t) ==
    IF artifacts[t] = <<>> THEN "not_found"
    ELSE IF storage = "up" /\ artifacts[t] \in objects THEN "bytes" ELSE "unavailable"

CallerStep(a) == Submit(a) \/ CheckSession(a) \/ CreateIdempotent(a) \/ CreateThrows(a)

Claim(w) == ClaimStart(w) \/ ClaimFinish(w)

Attempt(w) ==
    \/ Receive(w) \/ FindSession(w) \/ Start(w) \/ Execute(w) \/ Upload(w)
    \/ Complete(w) \/ Delete(w) \/ HandleFailure(w)

Next ==
    \/ \E a \in Caller : CallerStep(a)
    \/ \E w \in Worker : Claim(w) \/ Attempt(w) \/ Shutdown(w) \/ Crash(w)
                       \/ Drained(w) \/ Restart(w)
    \/ \E s \in Session : EndSession(s)
    \/ StorageDown \/ StorageUp
    \/ Tick

Spec == Init /\ [][Next]_vars

-------------------------------------------------------------------------------
(* Fairness: processes run on and are replaced, queries are answered, the    *)
(* storage comes back and time passes.                                       *)

FairSpec ==
    /\ Spec
    /\ WF_vars(Tick)
    /\ WF_vars(StorageUp)
    /\ \A w \in Worker : /\ WF_vars(Claim(w)) /\ WF_vars(Attempt(w))
                         /\ WF_vars(Drained(w)) /\ WF_vars(Restart(w))

-------------------------------------------------------------------------------
(* Properties                                                                *)

TaskStatus == {"none", "queued", "running", "retry_pending"} \cup TerminalTaskStatuses

Row == [status : TaskStatus, session : Session \cup {"none"}, kind : Kind \cup {"none"},
        attempts : 0..MaxAttempts, version : Nat, token : 0..MaxAttempts,
        lease : Int, next : Int, age : Nat, born : Nat]

Answers == [life : 0..LongLife, age : 0..QueryDelay]

Claims == [task : 0..MaxTasks, attempts : 0..MaxAttempts, version : Nat]

TaskRequest == [session : Session, key : Key, body : Body, kind : Kind]

\* Every row satisfies the checks of the table managed_tasks (running exactly
\* with a claim, attempts within the limit), and every worker position has the
\* claim it needs.
TypeOK ==
    /\ rows \in [Task -> Row]
    /\ \A t \in Task : rows[t].status = "running" <=> rows[t].token # 0
    /\ idem \in [Session \X Key -> [task : 0..MaxTasks, body : Body \cup {"none"}]]
    /\ artifacts \in [Task -> {<<>>} \cup (Task \X (1..MaxAttempts))]
    /\ objects \subseteq Task \X (1..MaxAttempts)
    /\ storage \in {"up", "down"}
    /\ active \subseteq Session
    /\ life \in [Session -> (-QueryDelay)..LongLife]
    /\ maxRunning \in RunningLimits
    /\ apc \in [Caller -> CallerPc]
    /\ DOMAIN areq = Caller
    /\ \A a \in Caller : apc[a] # "idle" => areq[a] \in TaskRequest
    /\ atask \in [Caller -> 0..MaxTasks]
    /\ wpc \in [Worker -> WorkerPc]
    /\ hold \in [Worker -> Claims]
    /\ \A w \in Worker : hold[w] = NoHold <=> wpc[w] \in {"idle", "claiming", "exited"}
    /\ wage \in [Worker -> 0..ClaimDelay]
    /\ \A w \in Worker : wpc[w] \notin {"claiming", "granted"} => wage[w] = 0
    /\ wdl \in [Worker -> 0..ExecutionTimeout]
    /\ wseen \in [Worker -> Answers]
    /\ \A w \in Worker : wpc[w] # "found" => wseen[w] = NoAnswer
    /\ wdead \in [Worker -> SUBSET Task]
    /\ \A w \in Worker : wdead[w] # {} => wpc[w] = "claiming"
    /\ wstop \in [Worker -> BOOLEAN]
    /\ faults \in 0..MaxFaults

\* capacity-and-limits.md: "one running task per session".  Leases outlast the
\* executions they cover, although they are counted from a clock read before the
\* advisory lock was waited for: no two workers drive one session's browser.
OneBrowserUser ==
    \A v, w \in Worker :
        v # w /\ wpc[v] = "executing" /\ wpc[w] = "executing" => Sess(v) # Sess(w)

\* A worker drives the browser only while it owns the row, stops before its lease
\* ends, and stops no later than one query's answer after the session expires: the
\* lifetime is as old as the answer of findExecutionSession when the timer is armed
\* (#execute, claimNext).
ExecutionCovered ==
    \A w \in Worker :
        wpc[w] = "executing" =>
            /\ Owns(w)
            /\ wdl[w] < rows[Mine(w)].lease
            /\ wdl[w] <= life[Sess(w)] + QueryDelay

\* The tenant's quotas.  claimNext: claims under lease never exceed
\* maxRunningPerTenant, however the clocks and lock waits of concurrent claims
\* interleave.  createIdempotent: no minute sees more than requestsPerMinute new
\* tasks, however quickly the earlier ones finish.
QuotasRespected ==
    /\ Cardinality(RunningIn(rows, 0)) <= maxRunning
    /\ Cardinality(Recent) <= MaxRecent

\* recovery.md: a losing attempt deletes only its own object.  The artifact of a
\* task reported succeeded can be downloaded whenever the storage answers.
ArtifactStored ==
    \A t \in Task :
        rows[t].status = "succeeded" /\ rows[t].kind = "artifact" /\ storage = "up"
        => Download(t) = "bytes"

\* recovery.md: "stale owners cannot commit".  While a lease runs, the row's
\* version moves only by a step of the worker whose claim the row carries.
OwnerDecides ==
    [][\A t \in Task :
          rows[t].status = "running" /\ rows[t].lease > 0 /\ rows'[t].version # rows[t].version
          => \E w \in Worker : /\ Mine(w) = t
                               /\ hold[w].attempts = rows[t].attempts
                               /\ wpc[w] \in {"completing", "failRetry", "failFatal"}
                               /\ wpc'[w] # wpc[w]]_vars

\* task-service.ts: requests with one idempotency key that are answered with a
\* task are answered with the same task, which one of them created, and had the
\* same body; whatever raced between the lookup and the insertion.
AnswersAgree ==
    \A a, b \in Caller :
        /\ apc[a] \in {"created", "existing"} /\ apc[b] \in {"created", "existing"}
        /\ areq[a].session = areq[b].session /\ areq[a].key = areq[b].key
        => /\ atask[a] = atask[b] /\ areq[a].body = areq[b].body
           /\ a # b => ~(apc[a] = "created" /\ apc[b] = "created")

\* USER_GUIDE.md: at-least-once execution with bounded attempts.  Every accepted
\* task ends, through lost claims, dead workers and storage outages.
TasksFinish ==
    \A t \in Task : rows[t].status # "none" ~> rows[t].status \in TerminalTaskStatuses

Verdict ==
    [t \in Task |-> IF rows[t].status \in {"none", "succeeded", "failed"}
                    THEN rows[t].status ELSE "pending"]

Promise ==
    INSTANCE TaskPromise WITH
        Object <- Task \X (1..MaxAttempts),
        NoObject <- <<>>,
        verdict <- Verdict,
        result <- artifacts,
        stored <- objects

\* The queue, the workers and the storage implement TaskPromise: one final verdict
\* per task, and the object of a result is stored before and stays after it.
PromiseKept == Promise!Spec

\* failure-matrix.md:7, object storage down: "Not ready; no new artifact-producing
\* work".  The worker's loop does not consult its readiness.
NoArtifactWorkWhileDown ==
    [][\A w \in Worker :
          wpc[w] = "found" /\ wpc'[w] = "executing" /\ rows[Mine(w)].kind = "artifact"
          => storage = "up"]_vars
===============================================================================
