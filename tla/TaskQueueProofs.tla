---------------------------- MODULE TaskQueueProofs ----------------------------
(***************************************************************************)
(* The safety properties of TaskQueue for any number of workers, requests, *)
(* sessions and tasks, and any timeouts that validateConfig accepts.       *)
(***************************************************************************)
EXTENDS TaskQueue, FiniteSetTheorems, TLAPS

Holding(w) == wpc[w] \notin {"idle", "claiming", "exited"}

\* Tasks are numbered as they are created, and a claim's token is its attempt.
RowKept(t) ==
    /\ rows[t].token # 0 => rows[t].token = rows[t].attempts
    /\ rows[t].status = "none" => rows[t].attempts = 0
    /\ rows[t].status # "cancelled"
    /\ rows[t].status # "none" => rows[t].session \in Session

Numbered == \E n \in 0..MaxTasks : \A t \in Task : rows[t].status # "none" <=> t <= n

\* A result names a stored object of its task, exactly when the task has one.
ResultKept(t) ==
    /\ artifacts[t] # <<>> =>
         /\ artifacts[t] \in objects /\ rows[t].status = "succeeded"
         /\ \E n \in 1..MaxAttempts : artifacts[t] = <<t, n>>
    /\ rows[t].status = "succeeded" /\ rows[t].kind = "artifact" => artifacts[t] # <<>>

\* A worker's claim is one of the attempts its task has had, and nobody else's.
HoldKept(w) ==
    Holding(w) =>
        /\ Mine(w) \in Task /\ rows[Mine(w)].status # "none"
        /\ hold[w].attempts \in 1..rows[Mine(w)].attempts
        /\ \A v \in Worker \ {w} :
             Holding(v) /\ Mine(v) = Mine(w) => hold[v].attempts # hold[w].attempts

\* The rows an open claim has failed stay as they were found.
LockKept(w) ==
    /\ \A t \in wdead[w] : /\ rows[t].status = "running" /\ rows[t].lease <= -wage[w]
                           /\ rows[t].attempts >= MaxAttempts
    /\ \A v \in Worker \ {w} : wdead[v] \cap wdead[w] = {}

\* The lease covers the time from the claim's clock to the end of the execution, and
\* the lifetime read is at most as much too long as its answer is old.
CoverKept(w) ==
    /\ wpc[w] = "granted" => Owns(w) /\ rows[Mine(w)].lease + wage[w] >= LeaseTTL
    /\ wpc[w] \in {"starting", "found"} /\ wdl[w] > 0 => Owns(w) /\ wdl[w] < rows[Mine(w)].lease
    /\ wpc[w] = "found" /\ wseen[w].life > 0 => wseen[w].life <= life[Sess(w)] + wseen[w].age
    /\ wpc[w] = "executing" => /\ Owns(w) /\ wdl[w] < rows[Mine(w)].lease
                               /\ wdl[w] <= life[Sess(w)] + QueryDelay

\* The object of an attempt is no result until the attempt commits it, and is
\* stored before.
ObjectKept(w) ==
    /\ Holding(w) /\ wpc[w] \notin {"failRetry", "failFatal"} => artifacts[Mine(w)] # ObjectKey(w)
    /\ wpc[w] = "completing" /\ rows[Mine(w)].kind = "artifact" => ObjectKey(w) \in objects

WorkerKept(w) == HoldKept(w) /\ LockKept(w) /\ CoverKept(w) /\ ObjectKept(w)

\* The unique index on the running rows of a session.
OneRunning ==
    \A t, u \in Task : rows[t].status = "running" /\ rows[u].status = "running"
                         /\ rows[t].session = rows[u].session => t = u

\* What a request was answered is what its idempotency record says, and only the
\* request that wrote the record has created a task.
AnswerKept(a) ==
    apc[a] \in {"created", "existing"} =>
        Record(a).task = atask[a] /\ atask[a] # 0 /\ Record(a).body = areq[a].body

OneCreator ==
    \A a, b \in Caller :
        apc[a] = "created" /\ apc[b] = "created" /\ areq[a].session = areq[b].session
          /\ areq[a].key = areq[b].key => a = b

RowInv == Numbered /\ OneRunning /\ \A t \in Task : RowKept(t) /\ ResultKept(t)

AnswerInv == OneCreator /\ \A a \in Caller : AnswerKept(a)

AllKept == \A w \in Worker : WorkerKept(w)

IInv == TypeOK /\ RowInv /\ AllKept /\ AnswerInv /\ QuotasRespected

-------------------------------------------------------------------------------
(* Rows                                                                      *)

\* The configured numbers.
LEMMA Attempts ==
    /\ MaxAttempts \in Nat /\ MaxAttempts > 0 /\ 0 \in 0..MaxAttempts /\ LeaseTTL \in Nat
    /\ ClaimDelay \in Nat /\ QueryDelay \in Nat /\ ExecutionTimeout \in Nat /\ MaxTasks \in Nat /\ MaxFaults \in Nat
    /\ Window \in Nat /\ MaxRecent \in Nat /\ MaxRetryDelay \in Nat /\ RunningLimits \subseteq Nat
    /\ LeaseTTL > ExecutionTimeout + ClaimDelay
BY TaskQueueAssumption

\* The two updates applyTaskTransition makes to a row: the columns every event
\* rewrites, and the status with the columns of the event.
Rewritten(row, v, at, k, l, x) ==
    [row EXCEPT !.version = v, !.age = at, !.token = k, !.lease = l, !.next = x]
Moved(row, n, l) ==
    [row EXCEPT !.status = "running", !.attempts = n, !.token = n, !.lease = l]
Ended(row, st) == [row EXCEPT !.status = st]
Deferred(row, st, x) == [row EXCEPT !.status = st, !.next = x]
Inserted(row, st, s, d) == [row EXCEPT !.status = st, !.session = s, !.kind = d]

\* A rewritten or moved row is a row, and keeps its identity: the session, the
\* kind and the time of its insertion.
LEMMA RewrittenFields ==
    ASSUME NEW row \in Row, NEW v \in Nat, NEW at \in Nat, NEW k \in 0..MaxAttempts,
           NEW l \in Int, NEW x \in Int
    PROVE  LET r == Rewritten(row, v, at, k, l, x) IN
           /\ r \in Row /\ r.session = row.session /\ r.kind = row.kind /\ r.version = v
           /\ r.attempts = row.attempts /\ r.token = k /\ r.lease = l /\ r.born = row.born
           /\ r.status = row.status
BY Zenon DEF Row, Rewritten

\* The same for a claimed row, with its new attempt, token and lease.
LEMMA MovedFields ==
    ASSUME NEW row \in Row, NEW n \in 0..MaxAttempts, NEW l \in Int
    PROVE  LET r == Moved(row, n, l) IN
           /\ r \in Row /\ r.status = "running" /\ r.session = row.session /\ r.kind = row.kind
           /\ r.version = row.version /\ r.attempts = n /\ r.token = n
           /\ r.lease = l /\ r.born = row.born
<1>1. "running" \in TaskStatus
    BY DEF TaskStatus
<1> QED
    BY Zenon, <1>1 DEF Row, Moved

\* The same for a row whose status alone changes.
LEMMA EndedFields ==
    ASSUME NEW row \in Row, NEW st \in TaskStatus
    PROVE  LET r == Ended(row, st) IN
           /\ r \in Row /\ r.status = st /\ r.session = row.session /\ r.kind = row.kind
           /\ r.version = row.version /\ r.attempts = row.attempts /\ r.token = row.token
           /\ r.lease = row.lease /\ r.born = row.born
BY Zenon DEF Row, Ended

\* The same for a row that is to be retried later.
LEMMA DeferredFields ==
    ASSUME NEW row \in Row, NEW st \in TaskStatus, NEW x \in Int
    PROVE  LET r == Deferred(row, st, x) IN
           /\ r \in Row /\ r.status = st /\ r.session = row.session /\ r.kind = row.kind
           /\ r.version = row.version /\ r.attempts = row.attempts /\ r.token = row.token
           /\ r.lease = row.lease /\ r.born = row.born
BY Zenon DEF Row, Deferred

\* The same for the row of a new task.
LEMMA InsertedFields ==
    ASSUME NEW row \in Row, NEW st \in TaskStatus, NEW s \in Session, NEW d \in Kind
    PROVE  LET r == Inserted(row, st, s, d) IN
           /\ r \in Row /\ r.status = st /\ r.session = s /\ r.kind = d
           /\ r.version = row.version /\ r.attempts = row.attempts /\ r.token = row.token
           /\ r.lease = row.lease /\ r.born = row.born
BY Zenon DEF Row, Inserted

\* What the events of applyTaskTransition make of a row.
LEMMA ClaimFields ==
    ASSUME NEW row \in Row, NEW at \in Nat, row.attempts < MaxAttempts
    PROVE  LET r == TaskApply(row, "claim", at) IN
           /\ r \in Row /\ r.status = "running" /\ r.session = row.session /\ r.kind = row.kind
           /\ r.attempts = row.attempts + 1 /\ r.version = row.version + 1
           /\ r.token = row.attempts + 1 /\ r.lease = LeaseTTL - at /\ r.born = row.born
<1> DEFINE r0 == Rewritten(row, row.version + 1, at, 0, 0, 0)
<1>1. /\ row.version + 1 \in Nat /\ row.attempts + 1 \in 0..MaxAttempts /\ LeaseTTL - at \in Int
      /\ "running" \in TaskStatus /\ 0 \in 0..MaxAttempts
    BY Attempts DEF Row, TaskStatus
<1>2. /\ r0 \in Row /\ r0.session = row.session /\ r0.kind = row.kind
      /\ r0.attempts = row.attempts /\ r0.version = row.version + 1 /\ r0.born = row.born
    BY <1>1, RewrittenFields
<1>3. TaskApply(row, "claim", at) =
          [r0 EXCEPT !.status = "running", !.attempts = r0.attempts + 1,
                     !.token = row.attempts + 1, !.lease = LeaseTTL - at]
    BY Zenon DEF TaskApply, Rewritten
<1> HIDE DEF r0
<1>4. TaskApply(row, "claim", at) =
          Moved(r0, row.attempts + 1, LeaseTTL - at)
    BY Zenon, <1>2, <1>3 DEF Moved
<1>5. LET r == Moved(r0, row.attempts + 1, LeaseTTL - at) IN
      /\ r \in Row /\ r.status = "running" /\ r.session = r0.session /\ r.kind = r0.kind
      /\ r.version = r0.version /\ r.attempts = row.attempts + 1 /\ r.token = row.attempts + 1
      /\ r.lease = LeaseTTL - at /\ r.born = r0.born
    <2> DEFINE n == row.attempts + 1
               l == LeaseTTL - at
    <2>1. r0 \in Row /\ n \in 0..MaxAttempts /\ l \in Int
        BY Zenon, <1>1, <1>2
    <2> HIDE DEF n, l
    <2>2. LET r == Moved(r0, n, l) IN
          /\ r \in Row /\ r.status = "running" /\ r.session = r0.session /\ r.kind = r0.kind
          /\ r.version = r0.version /\ r.attempts = n /\ r.token = n
          /\ r.lease = l /\ r.born = r0.born
        BY ZenonT(30), <2>1, MovedFields
    <2> QED
        BY Zenon, <2>2 DEF n, l
<1> QED
    BY Zenon, <1>2, <1>4, <1>5

\* The events that end an attempt give up its token and lease, and count nothing.
LEMMA EndFields ==
    ASSUME NEW row \in Row, NEW at \in Nat, NEW e \in {"succeed", "fail", "schedule_retry"}
    PROVE  LET r == TaskApply(row, e, at) IN
           /\ r \in Row /\ r.session = row.session /\ r.kind = row.kind
           /\ r.attempts = row.attempts /\ r.version = row.version + 1
           /\ r.token = 0 /\ r.lease = 0 /\ r.born = row.born
           /\ e = "succeed" => r.status = "succeeded"
           /\ e = "fail" => r.status = "failed"
           /\ e = "schedule_retry" => r.status = "retry_pending"
<1> DEFINE r0 == Rewritten(row, row.version + 1, at, 0, 0, 0)
<1>1. /\ row.version + 1 \in Nat /\ 0 \in 0..MaxAttempts
    BY Attempts DEF Row
<1>2. /\ r0 \in Row /\ r0.session = row.session /\ r0.kind = row.kind
      /\ r0.attempts = row.attempts /\ r0.version = row.version + 1 /\ r0.born = row.born
      /\ r0.token = 0 /\ r0.lease = 0
    BY <1>1, RewrittenFields
<1>3. "succeeded" \in TaskStatus /\ "failed" \in TaskStatus /\ "retry_pending" \in TaskStatus
    BY Zenon DEF TaskStatus, TerminalTaskStatuses
<1>4. RetryDelay(row.attempts) \in Int /\ row.attempts \in 0..MaxAttempts
    BY Attempts DEF RetryDelay, Row
<1>5. /\ e = "succeed" => TaskApply(row, e, at) = [r0 EXCEPT !.status = "succeeded"]
      /\ e = "fail" => TaskApply(row, e, at) = [r0 EXCEPT !.status = "failed"]
      /\ e = "schedule_retry" =>
            TaskApply(row, e, at)
              = [r0 EXCEPT !.status = "retry_pending", !.next = RetryDelay(row.attempts)]
    BY Zenon, <1>2 DEF TaskApply, Rewritten
<1> HIDE DEF r0
<1>6. /\ e = "succeed" => TaskApply(row, e, at) = Ended(r0, "succeeded")
      /\ e = "fail" => TaskApply(row, e, at) = Ended(r0, "failed")
      /\ e = "schedule_retry" =>
            TaskApply(row, e, at) = Deferred(r0, "retry_pending", RetryDelay(row.attempts))
    BY Zenon, <1>5 DEF Ended, Deferred
<1>7. CASE e = "succeed"
    <2>1. LET r == Ended(r0, "succeeded") IN
          /\ r \in Row /\ r.status = "succeeded" /\ r.session = r0.session /\ r.kind = r0.kind
          /\ r.version = r0.version /\ r.attempts = r0.attempts /\ r.token = r0.token
          /\ r.lease = r0.lease /\ r.born = r0.born
        BY Zenon, <1>2, <1>3, EndedFields
    <2> QED
        BY Zenon, <1>2, <1>6, <1>7, <2>1
<1>8. CASE e = "fail"
    <2>1. LET r == Ended(r0, "failed") IN
          /\ r \in Row /\ r.status = "failed" /\ r.session = r0.session /\ r.kind = r0.kind
          /\ r.version = r0.version /\ r.attempts = r0.attempts /\ r.token = r0.token
          /\ r.lease = r0.lease /\ r.born = r0.born
        BY Zenon, <1>2, <1>3, EndedFields
    <2> QED
        BY Zenon, <1>2, <1>6, <1>8, <2>1
<1>9. CASE e = "schedule_retry"
    <2> DEFINE x == RetryDelay(row.attempts)
    <2>1. x \in Int /\ TaskApply(row, e, at) = Deferred(r0, "retry_pending", x)
        BY Zenon, <1>4, <1>6, <1>9
    <2> HIDE DEF x
    <2>2. LET r == Deferred(r0, "retry_pending", x) IN
          /\ r \in Row /\ r.status = "retry_pending" /\ r.session = r0.session /\ r.kind = r0.kind
          /\ r.version = r0.version /\ r.attempts = r0.attempts /\ r.token = r0.token
          /\ r.lease = r0.lease /\ r.born = r0.born
        <3>1. r0 \in Row /\ "retry_pending" \in TaskStatus
            BY Zenon, <1>2, <1>3
        <3> QED
            BY Zenon, <2>1, <3>1, DeferredFields
    <2> QED
        BY Zenon, <1>2, <1>9, <2>1, <2>2
<1> QED
    BY Zenon, <1>7, <1>8, <1>9

EndEvents == {"succeed", "fail", "schedule_retry"}

\* Row r is what event e, the end of an attempt, makes of a row.
IsEnd(row, e, r) ==
    /\ r \in Row /\ r.session = row.session /\ r.kind = row.kind
    /\ r.attempts = row.attempts /\ r.token = 0 /\ r.lease = 0 /\ r.born = row.born
    /\ e = "succeed" => r.status = "succeeded"
    /\ e = "fail" => r.status = "failed"
    /\ e = "schedule_retry" => r.status = "retry_pending"

\* The same, as one fact.
LEMMA EndIsEnd ==
    ASSUME NEW row \in Row, NEW at \in Nat, NEW e \in EndEvents
    PROVE  IsEnd(row, e, TaskApply(row, e, at))
<1>1. e \in {"succeed", "fail", "schedule_retry"}
    BY Zenon DEF EndEvents
<1> DEFINE r == TaskApply(row, e, at)
<1>2. /\ r \in Row /\ r.session = row.session /\ r.kind = row.kind
      /\ r.attempts = row.attempts /\ r.token = 0 /\ r.lease = 0 /\ r.born = row.born
      /\ e = "succeed" => r.status = "succeeded"
      /\ e = "fail" => r.status = "failed"
      /\ e = "schedule_retry" => r.status = "retry_pending"
    BY ZenonT(30), <1>1, EndFields
<1> HIDE DEF r
<1>3. IsEnd(row, e, r)
    BY Zenon, <1>2 DEF IsEnd
<1> QED
    BY Zenon, <1>3 DEF r

\* The same for the event fail, which claimNext applies to spent rows.
LEMMA FailFields ==
    ASSUME NEW row \in Row, NEW at \in Nat
    PROVE  LET r == TaskApply(row, "fail", at) IN
           /\ r \in Row /\ r.session = row.session /\ r.kind = row.kind
           /\ r.attempts = row.attempts /\ r.version = row.version + 1
           /\ r.token = 0 /\ r.lease = 0 /\ r.born = row.born /\ r.status = "failed"
<1>1. "fail" \in {"succeed", "fail", "schedule_retry"}
    BY Zenon
<1> QED
    BY Zenon, <1>1, EndFields

\* A row as it is inserted.
LEMMA NewFields ==
    ASSUME NEW s \in Session, NEW k \in Kind
    PROVE  LET r == NewTask(s, k) IN
           /\ r \in Row /\ r.status = "queued" /\ r.session = s /\ r.attempts = 0 /\ r.token = 0
           /\ r.kind = k
<1>1. /\ NoTask \in Row /\ NoTask.attempts = 0 /\ NoTask.token = 0
    BY Attempts DEF NoTask, Row, TaskStatus
<1>2. NewTask(s, k) = Inserted(NoTask, "queued", s, k)
    BY Zenon DEF NewTask, Inserted
<1>3. "queued" \in TaskStatus
    BY Zenon DEF TaskStatus
<1> QED
    BY <1>1, <1>2, <1>3, InsertedFields

\* A tick moves the times of a row and nothing else.
LEMMA AgedFields ==
    ASSUME NEW row \in Row
    PROVE  /\ Aged(row) \in Row
           /\ Aged(row).status = row.status /\ Aged(row).session = row.session
           /\ Aged(row).kind = row.kind /\ Aged(row).attempts = row.attempts
           /\ Aged(row).version = row.version /\ Aged(row).token = row.token
           /\ Aged(row).lease = IF row.status = "running" THEN Sooner(row.lease) ELSE row.lease
           /\ row.born <= Aged(row).born
<1>1. /\ Sooner(row.lease) \in Int /\ Sooner(row.next) \in Int
      /\ Older(row.age, ClaimDelay) \in Nat /\ Older(row.born, Window) \in Nat
      /\ row.born <= Older(row.born, Window)
    BY Attempts DEF Row, Sooner, Older
<1>2. CASE row.status = "none"
    BY <1>2 DEF Aged, Row
<1>3. CASE row.status = "running"
    BY Zenon, <1>1, <1>3 DEF Aged, Row
<1>4. CASE row.status = "retry_pending"
    BY Zenon, <1>1, <1>4 DEF Aged, Row
<1>5. CASE row.status \notin {"none", "running", "retry_pending"}
    BY Zenon, <1>1, <1>5 DEF Aged, Row
<1> QED
    BY Zenon, <1>2, <1>3, <1>4, <1>5

-------------------------------------------------------------------------------
(* Types, by the tables and processes they speak of                          *)

RowsOK ==
    /\ rows \in [Task -> Row]
    /\ \A t \in Task : rows[t].status = "running" <=> rows[t].token # 0

StoreOK ==
    /\ artifacts \in [Task -> {<<>>} \cup (Task \X (1..MaxAttempts))]
    /\ objects \subseteq Task \X (1..MaxAttempts)

EnvOK ==
    /\ storage \in {"up", "down"}
    /\ active \subseteq Session
    /\ life \in [Session -> (-QueryDelay)..LongLife]
    /\ maxRunning \in RunningLimits
    /\ faults \in 0..MaxFaults

CallerOK ==
    /\ idem \in [Session \X Key -> [task : 0..MaxTasks, body : Body \cup {"none"}]]
    /\ apc \in [Caller -> CallerPc]
    /\ DOMAIN areq = Caller
    /\ \A a \in Caller : apc[a] # "idle" => areq[a] \in TaskRequest
    /\ atask \in [Caller -> 0..MaxTasks]

WorkerOK ==
    /\ wpc \in [Worker -> WorkerPc]
    /\ hold \in [Worker -> Claims]
    /\ \A w \in Worker : hold[w] = NoHold <=> wpc[w] \in {"idle", "claiming", "exited"}
    /\ wage \in [Worker -> 0..ClaimDelay]
    /\ \A w \in Worker : wpc[w] \notin {"claiming", "granted"} => wage[w] = 0
    /\ wdl \in [Worker -> 0..ExecutionTimeout]
    /\ wseen \in [Worker -> Answers]
    /\ \A w \in Worker : wpc[w] # "found" => wseen[w] = NoAnswer
    /\ wdead \in [Worker -> SUBSET Task]
    /\ \A w \in Worker : wdead[w] # {} => wpc[w] = "claiming"

StopOK == wstop \in [Worker -> BOOLEAN]

\* The type invariant is the conjunction of its parts.
LEMMA TypeParts == TypeOK <=> RowsOK /\ StoreOK /\ EnvOK /\ CallerOK /\ WorkerOK /\ StopOK
BY Zenon DEF TypeOK, RowsOK, StoreOK, EnvOK, CallerOK, WorkerOK, StopOK

\* The same for the next state.
LEMMA TypePartsNext ==
    TypeOK' <=> RowsOK' /\ StoreOK' /\ EnvOK' /\ CallerOK' /\ WorkerOK' /\ StopOK'
BY Zenon DEF TypeOK, RowsOK, StoreOK, EnvOK, CallerOK, WorkerOK, StopOK

-------------------------------------------------------------------------------
(* A step of one worker                                                      *)

\* Worker w takes position p, with claim h, clock age g, deadline d, failed rows e and
\* answer q.
Acts(w, p, h, g, d, e, q) ==
    /\ wpc' = [wpc EXCEPT ![w] = p]
    /\ hold' = [hold EXCEPT ![w] = h]
    /\ wage' = [wage EXCEPT ![w] = g]
    /\ wdl' = [wdl EXCEPT ![w] = d]
    /\ wdead' = [wdead EXCEPT ![w] = e]
    /\ wseen' = [wseen EXCEPT ![w] = q]

OthersSame(w) ==
    \A v \in Worker \ {w} : /\ wpc'[v] = wpc[v] /\ hold'[v] = hold[v] /\ wage'[v] = wage[v]
                            /\ wdl'[v] = wdl[v] /\ wdead'[v] = wdead[v] /\ wseen'[v] = wseen[v]

\* An empty answer is one.
LEMMA NoAnswerType == NoAnswer \in Answers
BY Attempts DEF NoAnswer, Answers, LongLife

\* A step of one worker leaves the others where they are.
LEMMA ActsEffect ==
    ASSUME WorkerOK, NEW w \in Worker, NEW p \in WorkerPc, NEW h \in Claims,
           NEW g \in 0..ClaimDelay, NEW d \in 0..ExecutionTimeout, NEW e \in SUBSET Task,
           h = NoHold <=> p \in {"idle", "claiming", "exited"},
           p \notin {"claiming", "granted"} => g = 0,
           e # {} => p = "claiming",
           NEW q \in Answers, p # "found" => q = NoAnswer,
           Acts(w, p, h, g, d, e, q)
    PROVE  /\ WorkerOK' /\ OthersSame(w)
           /\ wpc'[w] = p /\ hold'[w] = h /\ wage'[w] = g /\ wdl'[w] = d /\ wdead'[w] = e
           /\ wseen'[w] = q
<1>1. /\ wpc' \in [Worker -> WorkerPc] /\ hold' \in [Worker -> Claims]
      /\ wage' \in [Worker -> 0..ClaimDelay] /\ wdl' \in [Worker -> 0..ExecutionTimeout]
      /\ wdead' \in [Worker -> SUBSET Task] /\ wseen' \in [Worker -> Answers]
    BY Zenon DEF WorkerOK, Acts
<1>2. /\ OthersSame(w)
      /\ wpc'[w] = p /\ hold'[w] = h /\ wage'[w] = g /\ wdl'[w] = d /\ wdead'[w] = e
      /\ wseen'[w] = q
    BY Zenon DEF WorkerOK, Acts, OthersSame
<1>3. ASSUME NEW v \in Worker
      PROVE  /\ hold'[v] = NoHold <=> wpc'[v] \in {"idle", "claiming", "exited"}
             /\ wpc'[v] \notin {"claiming", "granted"} => wage'[v] = 0
             /\ wdead'[v] # {} => wpc'[v] = "claiming"
             /\ wpc'[v] # "found" => wseen'[v] = NoAnswer
    BY Zenon, <1>2 DEF WorkerOK, OthersSame
<1> QED
    BY Zenon, <1>1, <1>2, <1>3 DEF WorkerOK

\* Leave as a step of one worker.
LEMMA LeaveActs ==
    ASSUME WorkerOK, NEW w \in Worker, NEW to, Leave(w, to)
    PROVE  /\ wpc' = [wpc EXCEPT ![w] = to]
           /\ hold' = [hold EXCEPT ![w] = IF to \in {"idle", "exited"} THEN NoHold ELSE hold[w]]
           /\ wdl' = [wdl EXCEPT ![w] = IF to \in {"executing", "uploading"} THEN wdl[w] ELSE 0]
           /\ wseen' = [wseen EXCEPT ![w] = NoAnswer]
BY Zenon DEF WorkerOK, Leave

\* Leaving a position other than those of a claim, with the claim's clock and
\* rows untouched.
LEMMA LeaveEffect ==
    ASSUME WorkerOK, NEW w \in Worker, wpc[w] \notin {"claiming", "granted"},
           NEW to \in WorkerPc \ {"claiming", "granted", "starting", "found"}, Leave(w, to),
           to \notin {"idle", "exited"} => Holding(w),
           UNCHANGED <<wage, wdead>>
    PROVE  /\ WorkerOK' /\ OthersSame(w) /\ wpc'[w] = to /\ wage'[w] = 0 /\ wdead'[w] = {}
           /\ hold'[w] = IF to \in {"idle", "exited"} THEN NoHold ELSE hold[w]
           /\ to \in {"executing", "uploading"} => wdl'[w] = wdl[w]
           /\ Holding(w)' <=> to \notin {"idle", "exited"}
<1> DEFINE h == IF to \in {"idle", "exited"} THEN NoHold ELSE hold[w]
           d == IF to \in {"executing", "uploading"} THEN wdl[w] ELSE 0
<1>1. h \in Claims /\ d \in 0..ExecutionTimeout
    BY Attempts DEF WorkerOK, Claims, NoHold
<1>2. h = NoHold <=> to \in {"idle", "claiming", "exited"}
    BY Zenon DEF WorkerOK, Holding
<1>3. wage[w] = 0 /\ wdead[w] = {} /\ 0 \in 0..ClaimDelay /\ {} \in SUBSET Task
    BY Attempts DEF WorkerOK
<1>4. /\ wpc' = [wpc EXCEPT ![w] = to] /\ hold' = [hold EXCEPT ![w] = h]
      /\ wdl' = [wdl EXCEPT ![w] = d] /\ wseen' = [wseen EXCEPT ![w] = NoAnswer]
    BY Zenon, LeaveActs
<1>5. wage' = [wage EXCEPT ![w] = 0] /\ wdead' = [wdead EXCEPT ![w] = {}]
    BY Zenon, <1>3 DEF WorkerOK
<1> HIDE DEF h, d
<1>6. Acts(w, to, h, 0, d, {}, NoAnswer)
    BY Zenon, <1>4, <1>5 DEF Acts
<1>7. /\ WorkerOK' /\ OthersSame(w) /\ wpc'[w] = to /\ hold'[w] = h /\ wage'[w] = 0
      /\ wdl'[w] = d /\ wdead'[w] = {}
    BY <1>1, <1>2, <1>3, <1>6, NoAnswerType, ActsEffect
<1> QED
    BY Zenon, <1>7 DEF h, d, Holding

\* The end of a claim's transaction, and of a process.
LEMMA EndClaimEffect ==
    ASSUME WorkerOK, NEW w \in Worker, NEW to \in {"idle", "exited"}, EndClaim(w, to)
    PROVE  /\ WorkerOK' /\ OthersSame(w) /\ wpc'[w] = to /\ wage'[w] = 0 /\ wdead'[w] = {}
           /\ hold'[w] = NoHold /\ ~Holding(w)'
<1>1. /\ wpc' = [wpc EXCEPT ![w] = to] /\ hold' = [hold EXCEPT ![w] = NoHold]
      /\ wdl' = [wdl EXCEPT ![w] = 0] /\ wseen' = [wseen EXCEPT ![w] = NoAnswer]
    BY Zenon, LeaveActs DEF EndClaim
<1>2. Acts(w, to, NoHold, 0, 0, {}, NoAnswer)
    BY Zenon, <1>1 DEF Acts, EndClaim
<1>3. /\ NoHold \in Claims /\ 0 \in 0..ExecutionTimeout /\ 0 \in 0..ClaimDelay
      /\ to \in WorkerPc /\ {} \in SUBSET Task
    BY Attempts DEF Claims, NoHold, WorkerPc
<1>4. /\ WorkerOK' /\ OthersSame(w) /\ wpc'[w] = to /\ hold'[w] = NoHold /\ wage'[w] = 0
      /\ wdead'[w] = {}
    BY <1>2, <1>3, NoAnswerType, ActsEffect
<1> QED
    BY Zenon, <1>4 DEF Holding

-------------------------------------------------------------------------------
(* What a step of worker w may do to the tables that the others rely on      *)

\* A row keeps its identity, and its attempts and age only grow.
RowFrame ==
    \A t \in Task :
        /\ rows'[t].status = "none" <=> rows[t].status = "none"
        /\ rows'[t].session = rows[t].session /\ rows'[t].kind = rows[t].kind
        /\ rows'[t].attempts >= rows[t].attempts /\ rows'[t].born >= rows[t].born

\* Rows another open claim has failed are not written.
LockFrame(w) == \A v \in Worker \ {w} : \A t \in wdead[v] : rows'[t] = rows[t]

\* A row under lease is written by its owner, at the end of its attempt.
LeaseFrame(w) ==
    \A t \in Task :
        rows[t].status = "running" /\ rows[t].lease > 0 /\ rows'[t] # rows[t] =>
            /\ Mine(w) = t /\ Owns(w) /\ wpc[w] \in {"completing", "failRetry", "failFatal"}
            /\ wpc'[w] # wpc[w]

\* Worker w names and removes no object but its own.
ObjectFrame(w) ==
    /\ \A t \in Task : artifacts'[t] # artifacts[t] =>
                          Holding(w) /\ t = Mine(w) /\ artifacts'[t] = ObjectKey(w)
    /\ \A o \in objects \ objects' : Holding(w) /\ o = ObjectKey(w)

\* Worker w keeps its claim, or has made a new attempt.
HoldFrame(w) ==
    Holding(w)' =>
        \/ Holding(w) /\ hold'[w] = hold[w]
        \/ /\ hold'[w].task \in Task /\ rows'[hold'[w].task].status # "none"
           /\ hold'[w].attempts \in 1..rows'[hold'[w].task].attempts
           /\ rows[hold'[w].task].attempts < hold'[w].attempts

DeadFrame(w) ==
    /\ \A v \in Worker \ {w} : wdead'[w] \cap wdead[v] = {}
    /\ \A t \in wdead'[w] : /\ rows'[t].status = "running" /\ rows'[t].lease <= -wage'[w]
                            /\ rows'[t].attempts >= MaxAttempts

Frame(w) ==
    /\ OthersSame(w) /\ life' = life
    /\ RowFrame /\ LockFrame(w) /\ LeaseFrame(w) /\ ObjectFrame(w) /\ HoldFrame(w) /\ DeadFrame(w)

\* Claims stay apart.
LEMMA FrameHold ==
    ASSUME TypeOK, TypeOK', AllKept, NEW w \in Worker, Frame(w), NEW v \in Worker
    PROVE  HoldKept(v)'
<1>1. \A u \in Worker : Holding(u) => /\ hold[u].task \in Task
                                      /\ rows[hold[u].task].status # "none"
                                      /\ hold[u].attempts \in 1..rows[hold[u].task].attempts
    BY Zenon DEF AllKept, WorkerKept, HoldKept, Mine
<1>2. \A u \in Worker \ {w} : hold'[u] = hold[u] /\ (Holding(u)' <=> Holding(u))
    BY Zenon DEF Frame, OthersSame, Holding
<1>3. \A t \in Task : rows[t].attempts \in 0..MaxAttempts /\ rows'[t].attempts \in 0..MaxAttempts
    BY Zenon DEF TypeOK, Row
<1>4. SUFFICES ASSUME Holding(v)'
               PROVE  /\ hold'[v].task \in Task /\ rows'[hold'[v].task].status # "none"
                      /\ hold'[v].attempts \in 1..rows'[hold'[v].task].attempts
                      /\ \A u \in Worker \ {v} :
                            Holding(u)' /\ hold'[u].task = hold'[v].task
                              => hold'[u].attempts # hold'[v].attempts
    BY Zenon DEF HoldKept, Mine
<1>5. ASSUME NEW u \in Worker, Holding(u)'
      PROVE  /\ hold'[u].task \in Task /\ rows'[hold'[u].task].status # "none"
             /\ hold'[u].attempts \in 1..rows'[hold'[u].task].attempts
    <2>1. CASE Holding(u) /\ hold'[u] = hold[u]
        BY <1>1, <1>3, <2>1, Attempts DEF Frame, RowFrame
    <2>2. CASE u = w /\ ~(Holding(u) /\ hold'[u] = hold[u])
        BY Zenon, <1>5, <2>2 DEF Frame, HoldFrame
    <2> QED
        BY Zenon, <1>2, <1>5, <2>1, <2>2
<1>6. ASSUME NEW u \in Worker \ {w}, Holding(u)', Holding(w)', hold'[u].task = hold'[w].task
      PROVE  hold'[u].attempts # hold'[w].attempts
    <2>1. Holding(u) /\ hold'[u] = hold[u]
        BY Zenon, <1>2, <1>6
    <2>2. CASE Holding(w) /\ hold'[w] = hold[w]
        BY Zenon, <1>6, <2>1, <2>2 DEF AllKept, WorkerKept, HoldKept, Mine
    <2>3. CASE rows[hold'[w].task].attempts < hold'[w].attempts /\ hold'[w].attempts \in Nat
        BY <1>1, <1>3, <1>6, <2>1, <2>3
    <2> QED
        BY <1>3, <1>5, <1>6, <2>2, <2>3 DEF Frame, HoldFrame
<1>7. ASSUME NEW u \in Worker \ {v}, Holding(u)', hold'[u].task = hold'[v].task
      PROVE  hold'[u].attempts # hold'[v].attempts
    <2>1. CASE u = w
        BY Zenon, <1>4, <1>6, <1>7, <2>1
    <2>2. CASE v = w
        BY Zenon, <1>4, <1>6, <1>7, <2>2
    <2>3. CASE u # w /\ v # w
        BY Zenon, <1>2, <1>4, <1>7, <2>3 DEF AllKept, WorkerKept, HoldKept, Mine
    <2> QED
        BY Zenon, <2>1, <2>2, <2>3
<1> QED
    BY Zenon, <1>4, <1>5, <1>7

\* The rows of the open claims stay as they were found.
LEMMA FrameLock ==
    ASSUME AllKept, NEW w \in Worker, Frame(w), NEW v \in Worker
    PROVE  LockKept(v)'
<1>1. CASE v = w
    BY Zenon, <1>1 DEF Frame, DeadFrame, OthersSame, LockKept
<1>2. CASE v # w
    <2>1. wdead'[v] = wdead[v] /\ wage'[v] = wage[v] /\ \A t \in wdead[v] : rows'[t] = rows[t]
        BY Zenon, <1>2 DEF Frame, OthersSame, LockFrame
    <2>2. \A t \in wdead'[v] : /\ rows'[t].status = "running" /\ rows'[t].lease <= -wage'[v]
                               /\ rows'[t].attempts >= MaxAttempts
        BY Zenon, <2>1 DEF AllKept, WorkerKept, LockKept
    <2>3. \A u \in Worker \ {v} : wdead'[u] \cap wdead'[v] = {}
        BY Zenon, <1>2, <2>1 DEF Frame, OthersSame, DeadFrame, AllKept, WorkerKept, LockKept
    <2> QED
        BY Zenon, <2>2, <2>3 DEF LockKept
<1> QED
    BY Zenon, <1>1, <1>2

\* A worker with time left owns a row under lease.
LEMMA Covered ==
    ASSUME TypeOK, AllKept, NEW v \in Worker,
           \/ wpc[v] \in {"granted", "executing"}
           \/ wpc[v] \in {"starting", "found"} /\ wdl[v] > 0
    PROVE  /\ Holding(v) /\ Owns(v) /\ Mine(v) \in Task
           /\ rows[Mine(v)].status = "running" /\ rows[Mine(v)].lease > 0
<1>1. Holding(v) /\ Owns(v) /\ Mine(v) \in Task /\ hold[v].attempts >= 1
    <2>1. Holding(v) /\ Owns(v)
        BY Zenon DEF Holding, AllKept, WorkerKept, CoverKept
    <2>2. Mine(v) \in Task /\ hold[v].attempts \in 1..rows[Mine(v)].attempts
        BY Zenon, <2>1 DEF AllKept, WorkerKept, HoldKept
    <2> QED
        BY <2>1, <2>2
<1>2. rows[Mine(v)].status = "running"
    BY <1>1 DEF Owns, TypeOK
<1>3. wage[v] \in 0..ClaimDelay /\ wdl[v] \in 0..ExecutionTimeout /\ rows[Mine(v)].lease \in Int
    BY Zenon, <1>1 DEF TypeOK, Row
<1>4. rows[Mine(v)].lease > 0
    BY <1>3, Attempts DEF AllKept, WorkerKept, CoverKept
<1> QED
    BY Zenon, <1>1, <1>2, <1>4

\* Two claims never own one row.
LEMMA OwnersApart ==
    ASSUME TypeOK, AllKept, NEW v \in Worker, NEW w \in Worker, Holding(v), Holding(w),
           Owns(v), Owns(w), Mine(v) = Mine(w)
    PROVE  v = w
BY Zenon DEF Owns, AllKept, WorkerKept, HoldKept

\* The leases of the others still cover them, and their objects are as they were.
LEMMA FrameOthers ==
    ASSUME TypeOK, AllKept, NEW w \in Worker, Frame(w), NEW v \in Worker \ {w}
    PROVE  CoverKept(v)' /\ ObjectKept(v)'
<1>1. /\ wpc'[v] = wpc[v] /\ hold'[v] = hold[v] /\ wage'[v] = wage[v] /\ wdl'[v] = wdl[v]
      /\ wseen'[v] = wseen[v] /\ life' = life
    BY Zenon DEF Frame, OthersSame
<1>2. ASSUME \/ wpc[v] \in {"granted", "executing"}
             \/ wpc[v] \in {"starting", "found"} /\ wdl[v] > 0
      PROVE  rows'[Mine(v)] = rows[Mine(v)]
    <2>1. /\ Holding(v) /\ Owns(v) /\ Mine(v) \in Task
          /\ rows[Mine(v)].status = "running" /\ rows[Mine(v)].lease > 0
        BY Zenon, <1>2, Covered
    <2>2. SUFFICES ASSUME rows'[Mine(v)] # rows[Mine(v)] PROVE FALSE
        BY Zenon
    <2>3. Mine(w) = Mine(v) /\ Owns(w) /\ Holding(w)
        BY Zenon, <2>1, <2>2 DEF Frame, LeaseFrame, Holding
    <2> QED
        BY Zenon, <2>1, <2>3, OwnersApart
<1>3. CoverKept(v)'
    <2>1. Holding(v) => rows'[Mine(v)].session = rows[Mine(v)].session
        BY Zenon DEF AllKept, WorkerKept, HoldKept, Frame, RowFrame
    <2> QED
        BY <1>1, <1>2, <2>1 DEF Holding, AllKept, WorkerKept, CoverKept, Owns, Mine, Sess
<1>4. Holding(v) => /\ Mine(v) \in Task /\ rows[Mine(v)].status # "none"
                    /\ Holding(w) => ObjectKey(w) # ObjectKey(v)
    BY Zenon DEF AllKept, WorkerKept, HoldKept, ObjectKey
<1>5. ObjectKey(v)' = ObjectKey(v) /\ Mine(v)' = Mine(v) /\ (Holding(v)' <=> Holding(v))
    BY Zenon, <1>1 DEF ObjectKey, Mine, Holding
<1>6. ASSUME Holding(v)', wpc'[v] \notin {"failRetry", "failFatal"}
      PROVE  artifacts'[Mine(v)] # ObjectKey(v)
    <2>1. artifacts[Mine(v)] # ObjectKey(v)
        BY Zenon, <1>1, <1>5, <1>6 DEF AllKept, WorkerKept, ObjectKept
    <2> QED
        BY Zenon, <1>4, <1>5, <1>6, <2>1 DEF Frame, ObjectFrame
<1>7. ASSUME wpc'[v] = "completing", rows'[Mine(v)].kind = "artifact"
      PROVE  ObjectKey(v) \in objects'
    <2>1. Holding(v)
        BY Zenon, <1>1, <1>7 DEF Holding
    <2>2. rows[Mine(v)].kind = "artifact"
        BY Zenon, <1>4, <1>7, <2>1 DEF Frame, RowFrame
    <2>3. ObjectKey(v) \in objects
        BY Zenon, <1>1, <1>7, <2>2 DEF AllKept, WorkerKept, ObjectKept
    <2> QED
        BY Zenon, <1>4, <2>1, <2>3 DEF Frame, ObjectFrame
<1> QED
    BY Zenon, <1>3, <1>5, <1>6, <1>7 DEF ObjectKept

\* A step within the frame keeps every worker's part of the invariant, if the
\* acting worker keeps its own.
LEMMA FrameKept ==
    ASSUME TypeOK, TypeOK', AllKept, NEW w \in Worker, Frame(w), CoverKept(w)', ObjectKept(w)'
    PROVE  AllKept'
<1>1. ASSUME NEW v \in Worker PROVE WorkerKept(v)'
    <2>1. HoldKept(v)' /\ LockKept(v)'
        BY Zenon, FrameHold, FrameLock
    <2>2. CoverKept(v)' /\ ObjectKept(v)'
        BY Zenon, FrameOthers
    <2> QED
        BY Zenon, <2>1, <2>2 DEF WorkerKept
<1> QED
    BY Zenon, <1>1 DEF AllKept

-------------------------------------------------------------------------------
(* What a step does to the rows                                              *)

\* Sets of tasks are finite, and smaller ones have no more elements.
LEMMA TaskSets ==
    ASSUME NEW T \in SUBSET Task, NEW S \in SUBSET T
    PROVE  /\ IsFiniteSet(T) /\ IsFiniteSet(S) /\ Cardinality(S) \in Nat /\ Cardinality(T) \in Nat
           /\ Cardinality(S) <= Cardinality(T)
<1>1. IsFiniteSet(Task)
    BY FS_Interval, Attempts DEF Task
<1>2. IsFiniteSet(T)
    BY Zenon, <1>1, FS_Subset
<1> QED
    BY Zenon, <1>2, FS_Subset, FS_CardinalityType

\* No row starts to run, and none is younger or longer under lease than before.
RowsSettle ==
    \A t \in Task : rows'[t].status = "running" =>
                       rows[t].status = "running" /\ rows'[t].lease <= rows[t].lease

\* The counted sets shrink when rows settle.
LEMMA RowsKept ==
    ASSUME IInv, TypeOK', RowFrame, RowsSettle, maxRunning' = maxRunning
    PROVE  Numbered' /\ OneRunning' /\ QuotasRespected'
<1>1. Numbered'
    BY Zenon DEF IInv, RowInv, Numbered, RowFrame
<1>2. OneRunning'
    BY DEF IInv, RowInv, OneRunning, RowFrame, RowsSettle
<1>3. maxRunning \in Nat /\ MaxRecent \in Nat
    BY Zenon, Attempts DEF IInv, TypeOK
<1> DEFINE run == RunningIn(rows, 0)
           runNext == RunningIn(rows', 0)
           new == Recent
           newNext == {t \in Task : rows'[t].status # "none" /\ rows'[t].born < Window}
<1>4. \A t \in Task : /\ rows[t].lease \in Int /\ rows'[t].lease \in Int
                      /\ rows[t].born \in Nat /\ rows'[t].born \in Nat
    BY Zenon DEF IInv, TypeOK, Row
<1>5. run \in SUBSET Task /\ runNext \in SUBSET run
    BY <1>4 DEF RunningIn, LiveAt, RowsSettle
<1>6. new \in SUBSET Task /\ newNext \in SUBSET new
    BY <1>4, Attempts DEF Recent, RowFrame
<1>7. Cardinality(run) <= maxRunning /\ Cardinality(new) <= MaxRecent
    BY Zenon DEF IInv, QuotasRespected
<1>8. /\ Cardinality(run) \in Nat /\ Cardinality(runNext) \in Nat
      /\ Cardinality(runNext) <= Cardinality(run)
      /\ Cardinality(new) \in Nat /\ Cardinality(newNext) \in Nat
      /\ Cardinality(newNext) <= Cardinality(new)
    <2> HIDE DEF run, runNext, new, newNext
    <2> QED
        BY Zenon, <1>5, <1>6, TaskSets
<1>9. Cardinality(runNext) <= maxRunning /\ Cardinality(newNext) <= MaxRecent
    <2> HIDE DEF run, runNext, new, newNext
    <2> QED
        BY <1>3, <1>7, <1>8
<1> QED
    BY Zenon, <1>1, <1>2, <1>9 DEF QuotasRespected, Recent

\* Rows that stay as they are.
LEMMA RowsSame ==
    ASSUME IInv, TypeOK', UNCHANGED <<rows, artifacts, maxRunning>>,
           \A t \in Task : artifacts[t] # <<>> => artifacts[t] \in objects'
    PROVE  RowInv' /\ QuotasRespected'
<1>1. \A t \in Task : rows[t] \in Row
    BY Zenon DEF IInv, TypeOK
<1>2. RowFrame /\ RowsSettle
    <2>1. \A t \in Task : /\ rows[t].attempts \in 0..MaxAttempts /\ rows[t].born \in Nat
                         /\ rows[t].lease \in Int
        BY Zenon, <1>1 DEF Row
    <2>2. \A t \in Task : /\ rows[t].attempts >= rows[t].attempts /\ rows[t].born >= rows[t].born
                         /\ rows[t].lease <= rows[t].lease
        BY <2>1, Attempts
    <2> QED
        BY Zenon, <2>2 DEF RowFrame, RowsSettle
<1>3. Numbered' /\ OneRunning' /\ QuotasRespected'
    BY Zenon, <1>2, RowsKept
<1>4. \A t \in Task : RowKept(t)' /\ ResultKept(t)'
    BY Zenon DEF IInv, RowInv, RowKept, ResultKept
<1> QED
    BY Zenon, <1>3, <1>4 DEF RowInv

\* Rows untouched are within every frame.
LEMMA SameFrames ==
    ASSUME IInv, NEW w \in Worker, rows' = rows
    PROVE  RowFrame /\ LockFrame(w) /\ LeaseFrame(w)
<1>1. \A t \in Task : rows[t] \in Row
    BY Zenon DEF IInv, TypeOK
<1> QED
    BY <1>1 DEF RowFrame, LockFrame, LeaseFrame, Row

\* Requests and their records.
LEMMA AnswersSame ==
    ASSUME IInv, UNCHANGED <<idem, avars>>
    PROVE  AnswerInv' /\ CallerOK'
BY Zenon DEF IInv, AnswerInv, OneCreator, AnswerKept, Record, avars, TypeOK, CallerOK

\* The environment under a step that may be a fault.
LEMMA EnvSame ==
    ASSUME IInv, UNCHANGED svars, UNCHANGED faults \/ Fault
    PROVE  EnvOK' /\ maxRunning' = maxRunning /\ life' = life /\ active' = active
BY Attempts DEF IInv, TypeOK, EnvOK, svars, Fault

\* The rows a claim gives up on: the attempts are used and the lease is over.
Spent(dead) ==
    \A t \in dead : /\ rows[t].status = "running" /\ rows[t].lease <= 0
                    /\ rows[t].attempts >= MaxAttempts

\* Failing spent rows changes their status, token and lease, and no other row.
LEMMA FailedRows ==
    ASSUME IInv, NEW dead \in SUBSET Task, NEW at \in Nat, Spent(dead)
    PROVE  LET R == Failed(dead, at) IN
           /\ R \in [Task -> Row]
           /\ \A t \in Task \ dead : R[t] = rows[t]
           /\ \A t \in dead : /\ R[t].status = "failed" /\ R[t].token = 0 /\ R[t].lease = 0
                              /\ R[t].session = rows[t].session /\ R[t].kind = rows[t].kind
                              /\ R[t].attempts = rows[t].attempts /\ R[t].born = rows[t].born
<1> DEFINE R == Failed(dead, at)
<1>1. \A t \in Task : rows[t] \in Row
    BY Zenon DEF IInv, TypeOK
<1>2. \A t \in Task \ dead : R[t] = rows[t]
    BY Zenon DEF Failed
<1>3. \A t \in dead : R[t] = TaskApply(rows[t], "fail", at)
    BY Zenon DEF Failed
<1>4. ASSUME NEW t \in dead
      PROVE  /\ R[t] \in Row /\ R[t].status = "failed" /\ R[t].token = 0 /\ R[t].lease = 0
             /\ R[t].session = rows[t].session /\ R[t].kind = rows[t].kind
             /\ R[t].attempts = rows[t].attempts /\ R[t].born = rows[t].born
    <2>1. rows[t] \in Row
        BY Zenon, <1>1
    <2>2. R[t] = TaskApply(rows[t], "fail", at)
        BY Zenon, <1>3
    <2> HIDE DEF R
    <2> QED
        BY <2>1, <2>2, FailFields
<1>5. R = [t \in Task |-> R[t]]
    BY Zenon DEF Failed
<1>6. \A t \in Task : R[t] \in Row
    <2> HIDE DEF R
    <2> QED
        BY Zenon, <1>1, <1>2, <1>4
<1>7. R \in [Task -> Row]
    <2> HIDE DEF R
    <2> QED
        BY Zenon, <1>5, <1>6
<1> HIDE DEF R
<1>8. /\ R \in [Task -> Row]
      /\ \A t \in Task \ dead : R[t] = rows[t]
      /\ \A t \in dead : /\ R[t].status = "failed" /\ R[t].token = 0 /\ R[t].lease = 0
                         /\ R[t].session = rows[t].session /\ R[t].kind = rows[t].kind
                         /\ R[t].attempts = rows[t].attempts /\ R[t].born = rows[t].born
    BY Zenon, <1>2, <1>4, <1>7
<1> QED
    BY Zenon, <1>8 DEF R

\* Rows get no verdict but failure, and that once.
RowsGiveUp ==
    \A t \in Task : \/ rows'[t].status = rows[t].status
                    \/ /\ rows[t].status \in {"queued", "running", "retry_pending"}
                       /\ rows'[t].status \in {"running", "retry_pending", "failed"}

\* The row a worker owns is running.
LEMMA OwnedRuns ==
    ASSUME IInv, NEW w \in Worker, Holding(w), Owns(w)
    PROVE  Mine(w) \in Task /\ rows[Mine(w)].status = "running"
<1>1. Mine(w) \in Task /\ hold[w].attempts \in 1..rows[Mine(w)].attempts
    BY Zenon DEF IInv, AllKept, WorkerKept, HoldKept
<1>2. hold[w].attempts # 0
    BY <1>1
<1>3. rows[Mine(w)].status = "running" <=> rows[Mine(w)].token # 0
    BY Zenon, <1>1 DEF IInv, TypeOK
<1> QED
    BY Zenon, <1>1, <1>2, <1>3 DEF Owns

\* The row of an attempt its owner ends.
LEMMA EndedRow ==
    ASSUME IInv, NEW w \in Worker, wpc[w] \in {"completing", "failRetry", "failFatal"},
           Owns(w), Mine(w) \notin Locked, NEW e \in {"succeed", "fail", "schedule_retry"},
           rows' = [rows EXCEPT ![Mine(w)] = TaskApply(@, e, 0)], wpc'[w] # wpc[w]
    PROVE  /\ RowsOK' /\ RowFrame /\ RowsSettle /\ LockFrame(w) /\ LeaseFrame(w)
           /\ Mine(w) \in Task /\ rows[Mine(w)].status = "running"
           /\ \A t \in Task \ {Mine(w)} : rows'[t] = rows[t]
           /\ rows'[Mine(w)].token = 0 /\ rows'[Mine(w)].kind = rows[Mine(w)].kind
           /\ e = "succeed" => rows'[Mine(w)].status = "succeeded"
           /\ e = "fail" => rows'[Mine(w)].status = "failed"
           /\ e = "schedule_retry" => rows'[Mine(w)].status = "retry_pending"
<1> DEFINE m == Mine(w)
           r == TaskApply(rows[m], e, 0)
<1>1. m \in Task /\ rows[m].status = "running" /\ Holding(w)
    <2>1. Holding(w)
        BY Zenon DEF Holding
    <2> QED
        BY Zenon, <2>1, OwnedRuns
<1>2. rows \in [Task -> Row] /\ \A t \in Task : rows[t] \in Row
    BY Zenon DEF IInv, TypeOK
<1>3. rows' = [rows EXCEPT ![m] = r]
    BY Zenon
<1>4. /\ r \in Row /\ r.session = rows[m].session /\ r.kind = rows[m].kind
      /\ r.attempts = rows[m].attempts /\ r.token = 0 /\ r.lease = 0 /\ r.born = rows[m].born
      /\ e = "succeed" => r.status = "succeeded"
      /\ e = "fail" => r.status = "failed"
      /\ e = "schedule_retry" => r.status = "retry_pending"
    <2>1. rows[m] \in Row /\ 0 \in Nat /\ e \in EndEvents
        BY Zenon, <1>1, <1>2 DEF EndEvents
    <2> HIDE DEF m
    <2>2. IsEnd(rows[m], e, r)
        BY Zenon, <2>1, EndIsEnd
    <2> HIDE DEF r
    <2> QED
        BY Zenon, <2>2 DEF IsEnd
<1> HIDE DEF r
<1>5. /\ rows' \in [Task -> Row] /\ rows'[m] = r
      /\ \A t \in Task \ {m} : rows'[t] = rows[t]
    BY Zenon, <1>1, <1>2, <1>3, <1>4
<1>6. RowsOK'
    BY Zenon, <1>4, <1>5 DEF RowsOK, IInv, TypeOK
<1>7. \A t \in Task : /\ rows[t].attempts \in Nat /\ rows[t].born \in Nat /\ rows[t].lease \in Int
    BY <1>2 DEF Row
<1>8. RowFrame /\ RowsSettle
    BY <1>1, <1>4, <1>5, <1>7 DEF RowFrame, RowsSettle
<1>9. LockFrame(w)
    <2>1. \A v \in Worker : m \notin wdead[v] /\ wdead[v] \subseteq Task
        BY Zenon DEF Locked, IInv, TypeOK
    <2> QED
        BY Zenon, <1>5, <2>1 DEF LockFrame
<1>10. LeaseFrame(w)
    BY Zenon, <1>5 DEF LeaseFrame
<1> QED
    BY Zenon, <1>1, <1>4, <1>5, <1>6, <1>8, <1>9, <1>10

-------------------------------------------------------------------------------
(* The steps of runOnce                                                      *)

\* A step of w that leaves the position it holds a claim in, and the queue's
\* records of requests alone.
LEMMA LeaveFrame ==
    ASSUME IInv, NEW w \in Worker, Holding(w), wpc[w] # "granted",
           NEW to \in WorkerPc \ {"claiming", "granted", "starting", "found", "executing"}, Leave(w, to),
           UNCHANGED <<wage, wdead, life>>,
           RowFrame, LockFrame(w), LeaseFrame(w), ObjectFrame(w)
    PROVE  /\ WorkerOK' /\ Frame(w) /\ CoverKept(w)' /\ wpc'[w] = to
           /\ to \notin {"idle", "exited"} => hold'[w] = hold[w]
<1>1. WorkerOK /\ wpc[w] \notin {"claiming", "granted"}
    BY Zenon, TypeParts DEF IInv, Holding
<1>2. /\ WorkerOK' /\ OthersSame(w) /\ wpc'[w] = to /\ wage'[w] = 0 /\ wdead'[w] = {}
      /\ hold'[w] = IF to \in {"idle", "exited"} THEN NoHold ELSE hold[w]
      /\ Holding(w)' <=> to \notin {"idle", "exited"}
    BY Zenon, <1>1, LeaveEffect
<1>3. HoldFrame(w)
    BY Zenon, <1>2 DEF HoldFrame
<1>4. DeadFrame(w)
    BY Zenon, <1>2 DEF DeadFrame
<1>5. CoverKept(w)'
    BY Zenon, <1>2 DEF CoverKept
<1> QED
    BY Zenon, <1>2, <1>3, <1>4, <1>5 DEF Frame

\* The same for a step that moves nothing but the worker.
LEMMA MoveKept ==
    ASSUME IInv, NEW w \in Worker, Holding(w), wpc[w] \notin {"granted", "completing", "deleting",
               "failRetry", "failFatal"},
           NEW to \in WorkerPc \ {"claiming", "granted", "starting", "found", "executing"}, Move(w, to),
           to = "completing" => rows[Mine(w)].kind # "artifact",
           UNCHANGED faults \/ Fault
    PROVE  IInv'
<1>1. /\ UNCHANGED <<rows, artifacts, objects, idem, avars, wage, wdead, wstop>> /\ UNCHANGED svars
      /\ Leave(w, to)
    BY Zenon DEF Move, qvars
<1>2. EnvOK' /\ maxRunning' = maxRunning /\ life' = life
    BY Zenon, <1>1, EnvSame
<1>3. AnswerInv' /\ CallerOK'
    BY Zenon, <1>1, AnswersSame
<1>4. RowFrame /\ LockFrame(w) /\ LeaseFrame(w) /\ ObjectFrame(w)
    BY Zenon, <1>1, SameFrames DEF ObjectFrame
<1>5. /\ WorkerOK' /\ Frame(w) /\ CoverKept(w)' /\ wpc'[w] = to
      /\ to \notin {"idle", "exited"} => hold'[w] = hold[w]
    BY Zenon, <1>1, <1>2, <1>4, LeaveFrame
<1>6. RowsOK' /\ StoreOK' /\ StopOK'
    BY Zenon, <1>1, TypeParts DEF IInv, RowsOK, StoreOK, StopOK
<1>7. TypeOK'
    BY Zenon, <1>2, <1>3, <1>5, <1>6, TypePartsNext
<1>8. RowInv' /\ QuotasRespected'
    <2>1. \A t \in Task : artifacts[t] # <<>> => artifacts[t] \in objects'
        BY Zenon, <1>1 DEF IInv, RowInv, ResultKept
    <2> QED
        BY Zenon, <1>1, <1>2, <1>7, <2>1, RowsSame
<1>9. ObjectKept(w)'
    <2>1. artifacts[Mine(w)] # ObjectKey(w)
        BY Zenon DEF IInv, AllKept, WorkerKept, ObjectKept
    <2> QED
        BY Zenon, <1>1, <1>5, <2>1 DEF ObjectKept, ObjectKey, Mine, Holding
<1>10. AllKept'
    BY Zenon, <1>5, <1>7, <1>9, FrameKept DEF IInv
<1> QED
    BY Zenon, <1>3, <1>7, <1>8, <1>10 DEF IInv

\* Where the code goes after an error or a result is a position.
LEMMA Positions ==
    ASSUME NEW w \in Worker, NEW to \in {"failRetry", "failFatal"}
    PROVE  /\ FailTo(w, to) \in WorkerPc \ {"claiming", "granted", "starting", "found", "executing", "completing"}
           /\ Done(w) \in {"idle", "exited"}
           /\ FailTo(w, to) \in {to, "exited"}
BY Zenon DEF FailTo, Done, WorkerPc

\* The claim is answered: the lease has run for its clock's age, and so outlasts the
\* execution timeout.
LEMMA ReceiveKept ==
    ASSUME IInv, NEW w \in Worker, Receive(w)
    PROVE  IInv'
<1>1. /\ UNCHANGED <<rows, artifacts, objects, idem, avars, wstop>> /\ UNCHANGED svars
      /\ UNCHANGED faults /\ wpc[w] = "granted"
    BY Zenon DEF Receive, qvars
<1>2. EnvOK' /\ maxRunning' = maxRunning /\ life' = life
    BY Zenon, <1>1, EnvSame
<1>3. AnswerInv' /\ CallerOK'
    BY Zenon, <1>1, AnswersSame
<1>4. RowFrame /\ LockFrame(w) /\ LeaseFrame(w) /\ ObjectFrame(w)
    BY Zenon, <1>1, SameFrames DEF ObjectFrame
<1>5. WorkerOK
    BY Zenon, TypeParts DEF IInv
<1>6. /\ WorkerOK' /\ OthersSame(w) /\ wpc'[w] = "starting" /\ hold'[w] = hold[w] /\ wage'[w] = 0
      /\ wdl'[w] = ExecutionTimeout /\ wdead'[w] = {}
    <2>1. wdead[w] = {} /\ hold[w] \in Claims /\ hold[w] # NoHold
        BY Zenon, <1>1, <1>5 DEF WorkerOK
    <2>2. wseen[w] = NoAnswer /\ Acts(w, "starting", hold[w], 0, ExecutionTimeout, {}, NoAnswer)
        BY Zenon, <1>1, <1>5, <2>1 DEF Acts, Receive, WorkerOK
    <2>3. /\ "starting" \in WorkerPc /\ 0 \in 0..ClaimDelay
          /\ ExecutionTimeout \in 0..ExecutionTimeout /\ {} \in SUBSET Task
        BY Attempts DEF WorkerPc
    <2> QED
        BY <1>5, <2>1, <2>2, <2>3, NoAnswerType, ActsEffect
<1>7. TypeOK'
    <2>1. RowsOK' /\ StoreOK' /\ StopOK'
        BY Zenon, <1>1, TypeParts DEF IInv, RowsOK, StoreOK, StopOK
    <2> QED
        BY Zenon, <1>2, <1>3, <1>6, <2>1, TypePartsNext
<1>8. RowInv' /\ QuotasRespected'
    <2>1. \A t \in Task : artifacts[t] # <<>> => artifacts[t] \in objects'
        BY Zenon, <1>1 DEF IInv, RowInv, ResultKept
    <2> QED
        BY Zenon, <1>1, <1>2, <1>7, <2>1, RowsSame
<1>9. Frame(w)
    <2>1. HoldFrame(w) /\ DeadFrame(w)
        BY Zenon, <1>1, <1>6 DEF HoldFrame, DeadFrame, Holding
    <2> QED
        BY Zenon, <1>2, <1>4, <1>6, <2>1 DEF Frame
<1>10. CoverKept(w)'
    <2>1. /\ Owns(w) /\ rows[Mine(w)].lease + wage[w] >= LeaseTTL /\ Mine(w) \in Task
          /\ wage[w] \in 0..ClaimDelay
        BY Zenon, <1>1 DEF IInv, AllKept, WorkerKept, CoverKept, HoldKept, Holding, TypeOK
    <2>2. rows[Mine(w)].lease \in Int
        BY Zenon, <2>1 DEF IInv, TypeOK, Row
    <2>3. ExecutionTimeout < rows[Mine(w)].lease
        BY <2>1, <2>2, Attempts
    <2> QED
        BY Zenon, <1>1, <1>6, <2>1, <2>3 DEF CoverKept, Owns, Mine
<1>11. ObjectKept(w)'
    BY Zenon, <1>1, <1>6 DEF IInv, AllKept, WorkerKept, ObjectKept, Holding, ObjectKey, Mine
<1>12. AllKept'
    BY Zenon, <1>7, <1>9, <1>10, <1>11, FrameKept DEF IInv
<1> QED
    BY Zenon, <1>3, <1>7, <1>8, <1>12 DEF IInv

\* A step of w that writes no row and no result.
LEMMA QuietKept ==
    ASSUME IInv, NEW w \in Worker, UNCHANGED <<rows, artifacts, idem, avars>>, UNCHANGED svars,
           UNCHANGED faults \/ Fault, StoreOK', StopOK',
           \A t \in Task : artifacts[t] # <<>> => artifacts[t] \in objects',
           WorkerOK', OthersSame(w), ObjectFrame(w), HoldFrame(w), DeadFrame(w),
           CoverKept(w)', ObjectKept(w)'
    PROVE  IInv'
<1>1. EnvOK' /\ maxRunning' = maxRunning /\ life' = life
    BY Zenon, EnvSame
<1>2. AnswerInv' /\ CallerOK'
    BY Zenon, AnswersSame
<1>3. RowFrame /\ LockFrame(w) /\ LeaseFrame(w)
    BY Zenon, SameFrames
<1>4. RowsOK'
    BY Zenon, TypeParts DEF IInv, RowsOK
<1>5. TypeOK'
    BY Zenon, <1>1, <1>2, <1>4, TypePartsNext
<1>6. RowInv' /\ QuotasRespected'
    BY Zenon, <1>1, <1>5, RowsSame
<1>7. Frame(w)
    BY Zenon, <1>1, <1>3 DEF Frame
<1>8. AllKept'
    BY Zenon, <1>5, <1>7, FrameKept DEF IInv
<1> QED
    BY Zenon, <1>2, <1>5, <1>6, <1>8 DEF IInv

\* The session of a claimed row.
LEMMA HeldRow ==
    ASSUME IInv, NEW w \in Worker, Holding(w)
    PROVE  /\ Mine(w) \in Task /\ rows[Mine(w)].status # "none" /\ Sess(w) \in Session
           /\ hold[w].attempts \in 1..MaxAttempts /\ ObjectKey(w) \in Task \X (1..MaxAttempts)
           /\ ObjectKey(w) = <<Mine(w), hold[w].attempts>> /\ ObjectKey(w) # <<>>
<1>1. /\ Mine(w) \in Task /\ rows[Mine(w)].status # "none"
      /\ hold[w].attempts \in 1..rows[Mine(w)].attempts
    BY Zenon DEF IInv, AllKept, WorkerKept, HoldKept
<1>2. rows[Mine(w)].attempts \in 0..MaxAttempts
    BY Zenon, <1>1 DEF IInv, TypeOK, Row
<1>3. hold[w].attempts \in 1..MaxAttempts
    BY <1>1, <1>2, Attempts
<1>4. Sess(w) \in Session
    BY Zenon, <1>1 DEF IInv, RowInv, RowKept, Sess
<1> QED
    BY Zenon, <1>1, <1>3, <1>4 DEF ObjectKey

\* Where FailTo leads, a worker may be moved.
LEMMA FailMoves ==
    ASSUME IInv, NEW w \in Worker, wpc[w] \in {"starting", "found"},
           NEW to \in {"failRetry", "failFatal"}, Move(w, to) \/ Move(w, FailTo(w, to)),
           UNCHANGED faults \/ Fault
    PROVE  IInv'
<1>1. Holding(w)
    BY Zenon DEF Holding
<1>2. PICK p \in {to, FailTo(w, to)} : Move(w, p)
    BY Zenon
<1>3. p \in WorkerPc \ {"claiming", "granted", "starting", "found", "executing", "completing"}
    BY Zenon, Positions DEF WorkerPc
<1> QED
    BY Zenon, <1>1, <1>2, <1>3, MoveKept

\* A step of w between the claim's answer and the execution, that touches no table.
LEMMA PrepareKept ==
    ASSUME IInv, NEW w \in Worker, wpc[w] \in {"starting", "found"}, wdl[w] > 0,
           NEW p \in {"found", "executing"}, NEW d \in 0..ExecutionTimeout, d <= wdl[w],
           NEW q \in Answers, p # "found" => q = NoAnswer,
           p = "found" /\ q.life > 0 => q.life <= life[Sess(w)] + q.age,
           p = "executing" => d <= life[Sess(w)] + QueryDelay,
           p = "found" => d > 0,
           wpc' = [wpc EXCEPT ![w] = p], wdl' = [wdl EXCEPT ![w] = d],
           wseen' = [wseen EXCEPT ![w] = q],
           UNCHANGED <<qvars, svars, avars, hold, wage, wdead, wstop, faults>>
    PROVE  IInv'
<1>1. /\ UNCHANGED <<rows, artifacts, objects, idem, avars, wstop>> /\ UNCHANGED svars
      /\ UNCHANGED faults /\ Holding(w)
    BY Zenon DEF qvars, Holding
<1>2. WorkerOK /\ StoreOK' /\ StopOK'
    BY Zenon, <1>1, TypeParts DEF IInv, StoreOK, StopOK
<1>3. /\ WorkerOK' /\ OthersSame(w) /\ wpc'[w] = p /\ hold'[w] = hold[w]
      /\ wdl'[w] = d /\ wdead'[w] = {} /\ wseen'[w] = q
    <2>1. wdead[w] = {} /\ wage[w] = 0 /\ hold[w] \in Claims /\ hold[w] # NoHold
        BY Zenon, <1>2 DEF WorkerOK
    <2>2. Acts(w, p, hold[w], 0, d, {}, q)
        BY Zenon, <1>2, <2>1 DEF Acts, WorkerOK
    <2>3. p \in WorkerPc /\ 0 \in 0..ClaimDelay /\ {} \in SUBSET Task
        BY Attempts DEF WorkerPc
    <2> QED
        BY <1>2, <2>1, <2>2, <2>3, ActsEffect
<1>4. \A t \in Task : artifacts[t] # <<>> => artifacts[t] \in objects'
    BY Zenon, <1>1 DEF IInv, RowInv, ResultKept
<1>5. HoldFrame(w) /\ DeadFrame(w) /\ ObjectFrame(w)
    BY Zenon, <1>1, <1>3 DEF HoldFrame, DeadFrame, Holding, ObjectFrame
<1>6. CoverKept(w)'
    <2>1. Owns(w) /\ wdl[w] < rows[Mine(w)].lease
        BY Zenon DEF IInv, AllKept, WorkerKept, CoverKept
    <2>2. wdl[w] \in Int /\ rows[Mine(w)].lease \in Int
        <3>1. Mine(w) \in Task
            BY Zenon, <1>1, HeldRow
        <3>2. rows[Mine(w)].lease \in Int /\ wdl[w] \in 0..ExecutionTimeout
            BY Zenon, <3>1 DEF IInv, TypeOK, Row
        <3> QED
            BY <3>2
    <2>3. d < rows[Mine(w)].lease
        BY <2>1, <2>2
    <2>4. life' = life
        BY Zenon, <1>1 DEF svars
    <2> QED
        BY Zenon, <1>1, <1>3, <2>1, <2>3, <2>4 DEF CoverKept, Owns, Mine, Sess
<1>7. ObjectKept(w)'
    BY Zenon, <1>1, <1>3 DEF IInv, AllKept, WorkerKept, ObjectKept, Holding, ObjectKey, Mine
<1> QED
    BY Zenon, <1>1, <1>2, <1>3, <1>4, <1>5, <1>6, <1>7, QuietKept

\* findExecutionSession reads the lifetime the session has.
LEMMA FindSessionKept ==
    ASSUME IInv, NEW w \in Worker, FindSession(w)
    PROVE  IInv'
<1>1. wpc[w] = "starting" /\ Holding(w)
    BY Zenon DEF FindSession, Holding
<1>2. CASE Move(w, FailTo(w, "failRetry")) /\ UNCHANGED faults
    BY Zenon, <1>1, <1>2, FailMoves
<1>3. CASE /\ ~wstop[w] /\ wdl[w] > 0
           /\ wpc' = [wpc EXCEPT ![w] = "found"]
           /\ wseen' = [wseen EXCEPT ![w] = [life |-> Lifetime(Sess(w)), age |-> 0]]
           /\ UNCHANGED <<qvars, svars, avars, hold, wage, wdl, wdead, wstop, faults>>
    <2> DEFINE q == [life |-> Lifetime(Sess(w)), age |-> 0]
    <2>1. life[Sess(w)] \in (-QueryDelay)..LongLife /\ wdl[w] \in 0..ExecutionTimeout
        BY Zenon, <1>1, HeldRow DEF IInv, TypeOK
    <2>2. q \in Answers /\ (q.life > 0 => q.life <= life[Sess(w)] + q.age)
        <3>1. /\ Lifetime(Sess(w)) \in 0..LongLife
              /\ Lifetime(Sess(w)) > 0 => Lifetime(Sess(w)) <= life[Sess(w)] + 0
            BY <2>1, Attempts DEF Lifetime, LongLife
        <3> QED
            BY <3>1, Attempts DEF Answers
    <2>3. wdl' = [wdl EXCEPT ![w] = wdl[w]] /\ wdl[w] <= wdl[w]
        BY <1>3, <2>1 DEF IInv, TypeOK
    <2>4. UNCHANGED <<qvars, svars, avars, hold, wage, wdead, wstop, faults>>
        BY Zenon, <1>3
    <2> HIDE DEF q
    <2> QED
        BY Zenon, <1>1, <1>3, <2>1, <2>2, <2>3, <2>4, PrepareKept DEF q
<1> QED
    BY Zenon, <1>2, <1>3 DEF FindSession

\* #execute: the deadline is cut to the lifetime that was read.
LEMMA StartKept ==
    ASSUME IInv, NEW w \in Worker, Start(w)
    PROVE  IInv'
<1>1. wpc[w] = "found" /\ Holding(w)
    BY Zenon DEF Start, Holding
<1>2. CASE /\ \/ Move(w, FailTo(w, "failRetry")) \/ Move(w, FailTo(w, "failFatal"))
              \/ Move(w, "failFatal")
           /\ UNCHANGED faults \/ Fault
    BY Zenon, <1>1, <1>2, FailMoves
<1>3. CASE /\ wseen[w].life > 0 /\ ~wstop[w] /\ wdl[w] > 0
           /\ wpc' = [wpc EXCEPT ![w] = "executing"]
           /\ wdl' = [wdl EXCEPT ![w] = Deadline(w)]
           /\ wseen' = [wseen EXCEPT ![w] = NoAnswer]
           /\ UNCHANGED <<qvars, svars, avars, hold, wage, wdead, wstop, faults>>
    <2>1. /\ wseen[w].life \in 0..LongLife /\ wseen[w].age \in 0..QueryDelay
          /\ wdl[w] \in 0..ExecutionTimeout
        BY DEF IInv, TypeOK, Answers
    <2>2. life[Sess(w)] \in (-QueryDelay)..LongLife
        BY Zenon, <1>1, HeldRow DEF IInv, TypeOK
    <2>3. wseen[w].life <= life[Sess(w)] + wseen[w].age
        BY Zenon, <1>1, <1>3 DEF IInv, AllKept, WorkerKept, CoverKept
    <2>4. /\ Deadline(w) \in 0..ExecutionTimeout /\ Deadline(w) <= wdl[w]
          /\ Deadline(w) <= life[Sess(w)] + QueryDelay
        BY <2>1, <2>2, <2>3, Attempts DEF Deadline, LongLife
    <2> QED
        BY Zenon, <1>1, <1>3, <2>4, NoAnswerType, PrepareKept
<1> QED
    BY Zenon, <1>2, <1>3 DEF Start

\* The execution ends, and the worker goes on with its output or its error.
LEMMA ExecuteKept ==
    ASSUME IInv, NEW w \in Worker, Execute(w)
    PROVE  IInv'
<1>1. wpc[w] = "executing" /\ Holding(w) /\ UNCHANGED faults
    BY Zenon DEF Execute, Holding
<1>2. FailTo(w, "failRetry") \in WorkerPc \ {"claiming", "granted", "starting", "found", "executing",
                                             "completing"}
    BY Zenon, Positions
<1>3. PICK to \in WorkerPc \ {"claiming", "granted", "starting", "found", "executing"} :
          Move(w, to) /\ (to = "completing" => rows[Mine(w)].kind # "artifact")
    BY <1>2 DEF Execute, WorkerPc
<1> QED
    BY Zenon, <1>1, <1>3, MoveKept

\* storage.put, acknowledged or not.
LEMMA UploadKept ==
    ASSUME IInv, NEW w \in Worker, Upload(w)
    PROVE  IInv'
<1>1. /\ wpc[w] = "uploading" /\ Holding(w)
      /\ UNCHANGED <<rows, artifacts, idem, avars, wage, wdead, wstop>> /\ UNCHANGED svars
      /\ UNCHANGED faults \/ Fault
    BY Zenon DEF Upload, Holding
<1>2. /\ ObjectKey(w) \in Task \X (1..MaxAttempts)
    BY Zenon, <1>1, HeldRow
<1>3. objects \subseteq objects' /\ objects' \subseteq objects \cup {ObjectKey(w)}
    BY Zenon DEF Upload
<1>4. StoreOK' /\ StopOK' /\ WorkerOK
    BY Zenon, <1>1, <1>2, <1>3, TypeParts DEF IInv, StoreOK, StopOK
<1>5. PICK to \in {"completing", "failRetry", "exited"} :
          Leave(w, to) /\ (to = "completing" => ObjectKey(w) \in objects')
    BY Zenon, Positions DEF Upload
<1>6. to \in WorkerPc \ {"claiming", "granted", "starting", "found", "executing"}
    BY Zenon DEF WorkerPc
<1>7. ObjectFrame(w) /\ RowFrame /\ LockFrame(w) /\ LeaseFrame(w)
    BY Zenon, <1>1, <1>3, SameFrames DEF ObjectFrame
<1>8. /\ WorkerOK' /\ Frame(w) /\ CoverKept(w)' /\ wpc'[w] = to
      /\ to \notin {"idle", "exited"} => hold'[w] = hold[w]
    BY Zenon, <1>1, <1>5, <1>6, <1>7, LeaveFrame DEF svars
<1>9. \A t \in Task : artifacts[t] # <<>> => artifacts[t] \in objects'
    BY Zenon, <1>3 DEF IInv, RowInv, ResultKept
<1>10. ObjectKept(w)'
    <2>1. artifacts[Mine(w)] # ObjectKey(w)
        BY Zenon, <1>1 DEF IInv, AllKept, WorkerKept, ObjectKept
    <2> QED
        BY Zenon, <1>1, <1>5, <1>8, <2>1 DEF ObjectKept, ObjectKey, Mine, Holding
<1> QED
    BY Zenon, <1>1, <1>4, <1>8, <1>9, <1>10, QuietKept DEF Frame

\* The loser's deletion spares every object that a result names.
LEMMA DeleteKept ==
    ASSUME IInv, NEW w \in Worker, Delete(w)
    PROVE  IInv'
<1>1. /\ wpc[w] = "deleting" /\ Holding(w)
      /\ UNCHANGED <<rows, artifacts, idem, avars, wage, wdead, wstop>> /\ UNCHANGED svars
      /\ UNCHANGED faults \/ Fault
      /\ Leave(w, Done(w))
    BY Zenon DEF Delete, Holding
<1>2. objects' \subseteq objects /\ objects \subseteq objects' \cup {ObjectKey(w)}
    BY Zenon DEF Delete
<1>3. StoreOK' /\ StopOK' /\ WorkerOK
    BY Zenon, <1>1, <1>2, TypeParts DEF IInv, StoreOK, StopOK
<1>4. Done(w) \in {"idle", "exited"} /\ Done(w) \in WorkerPc \ {"claiming", "granted", "starting", "found",
                                                                "executing"}
    BY Zenon, Positions DEF WorkerPc
<1>5. ObjectFrame(w) /\ RowFrame /\ LockFrame(w) /\ LeaseFrame(w)
    BY Zenon, <1>1, <1>2, SameFrames DEF ObjectFrame
<1>6. WorkerOK' /\ Frame(w) /\ CoverKept(w)' /\ wpc'[w] = Done(w)
    BY Zenon, <1>1, <1>4, <1>5, LeaveFrame DEF svars
<1>7. ASSUME NEW t \in Task, artifacts[t] # <<>>
      PROVE  artifacts[t] \in objects'
    <2>1. PICK n \in 1..MaxAttempts : artifacts[t] = <<t, n>>
        BY Zenon, <1>7 DEF IInv, RowInv, ResultKept
    <2>2. artifacts[t] \in objects
        BY Zenon, <1>7 DEF IInv, RowInv, ResultKept
    <2>3. artifacts[Mine(w)] # ObjectKey(w)
        BY Zenon, <1>1 DEF IInv, AllKept, WorkerKept, ObjectKept
    <2>4. artifacts[t] # ObjectKey(w)
        BY <2>1, <2>3 DEF ObjectKey
    <2> QED
        BY Zenon, <1>2, <2>2, <2>4
<1>8. ObjectKept(w)'
    BY Zenon, <1>4, <1>6 DEF ObjectKept, Holding
<1> QED
    BY Zenon, <1>1, <1>3, <1>6, <1>7, <1>8, QuietKept DEF Frame

\* A step of w that writes rows within the frames.
LEMMA WriteKept ==
    ASSUME IInv, NEW w \in Worker, UNCHANGED <<idem, avars, objects, wstop>>, UNCHANGED svars,
           UNCHANGED faults \/ Fault, RowsOK', StoreOK', WorkerOK', Frame(w),
           (RowFrame /\ RowsSettle) \/ (Numbered' /\ OneRunning' /\ QuotasRespected'),
           \A t \in Task : RowKept(t)' /\ ResultKept(t)',
           CoverKept(w)', ObjectKept(w)'
    PROVE  IInv'
<1>1. EnvOK' /\ maxRunning' = maxRunning
    BY Zenon, EnvSame
<1>2. AnswerInv' /\ CallerOK'
    BY Zenon, AnswersSame
<1>3. StopOK'
    BY Zenon, TypeParts DEF IInv, StopOK
<1>4. TypeOK'
    BY Zenon, <1>1, <1>2, <1>3, TypePartsNext
<1>5. RowInv' /\ QuotasRespected'
    BY Zenon, <1>1, <1>4, RowsKept DEF RowInv
<1>6. AllKept'
    BY Zenon, <1>4, FrameKept DEF IInv
<1> QED
    BY Zenon, <1>2, <1>4, <1>5, <1>6 DEF IInv

\* The commit of an attempt by its owner, and what follows when it is not the owner
\* or the transaction throws.
LEMMA CompleteKept ==
    ASSUME IInv, NEW w \in Worker, Complete(w)
    PROVE  IInv' /\ LeaseFrame(w)
<1>1. /\ wpc[w] = "completing" /\ Holding(w) /\ Mine(w) \notin Locked
      /\ UNCHANGED <<idem, avars, objects, wage, wdead, wstop>> /\ UNCHANGED svars
      /\ UNCHANGED faults \/ Fault
    BY Zenon DEF Complete, Holding
<1>2. /\ Mine(w) \in Task /\ rows[Mine(w)].status # "none"
      /\ hold[w].attempts \in 1..MaxAttempts /\ ObjectKey(w) \in Task \X (1..MaxAttempts)
      /\ ObjectKey(w) = <<Mine(w), hold[w].attempts>> /\ ObjectKey(w) # <<>>
    BY Zenon, <1>1, HeldRow
<1>3. /\ Done(w) \in {"idle", "exited"} /\ AfterCommitError(w) \in {"failRetry", "exited"}
    BY Zenon, Positions DEF AfterCommitError
<1>4. artifacts[Mine(w)] # ObjectKey(w)
    BY Zenon, <1>1 DEF IInv, AllKept, WorkerKept, ObjectKept
<1>5. CASE Owns(w) /\ Commit(w) /\ (Leave(w, Done(w)) \/ Leave(w, AfterCommitError(w)))
    <2>1. PICK to \in {"idle", "exited", "failRetry"} : Leave(w, to)
        BY Zenon, <1>3, <1>5
    <2>2. to \in WorkerPc \ {"claiming", "granted", "starting", "found", "executing"}
        BY Zenon DEF WorkerPc
    <2>3. wpc'[w] = to
        BY Zenon, <2>1 DEF Leave, IInv, TypeOK
    <2>4. /\ RowsOK' /\ RowFrame /\ RowsSettle /\ LockFrame(w) /\ LeaseFrame(w)
          /\ rows[Mine(w)].status = "running"
          /\ \A t \in Task \ {Mine(w)} : rows'[t] = rows[t]
          /\ rows'[Mine(w)].token = 0 /\ rows'[Mine(w)].kind = rows[Mine(w)].kind
          /\ rows'[Mine(w)].status = "succeeded"
        <3>1. "succeed" \in {"succeed", "fail", "schedule_retry"} /\ wpc'[w] # wpc[w]
            BY Zenon, <1>1, <2>3
        <3>2. rows' = [rows EXCEPT ![Mine(w)] = TaskApply(@, "succeed", 0)]
            BY Zenon, <1>5 DEF Commit
        <3> QED
            BY Zenon, <1>1, <1>5, <3>1, <3>2, EndedRow
    <2>5. /\ artifacts' \in [Task -> {<<>>} \cup (Task \X (1..MaxAttempts))]
          /\ \A t \in Task \ {Mine(w)} : artifacts'[t] = artifacts[t]
          /\ artifacts'[Mine(w)] = IF rows[Mine(w)].kind = "artifact" THEN ObjectKey(w)
                                   ELSE artifacts[Mine(w)]
        BY Zenon, <1>2, <1>5 DEF Commit, IInv, TypeOK
    <2>6. ObjectFrame(w)
        BY Zenon, <1>1, <2>5 DEF ObjectFrame
    <2>7. /\ WorkerOK' /\ Frame(w) /\ CoverKept(w)'
        BY Zenon, <1>1, <2>1, <2>2, <2>4, <2>6, LeaveFrame DEF svars
    <2>8. ObjectKept(w)'
        BY Zenon, <2>3 DEF ObjectKept, Holding
    <2>9. ASSUME NEW t \in Task PROVE RowKept(t)' /\ ResultKept(t)'
        <3>1. RowKept(t) /\ ResultKept(t)
            BY Zenon DEF IInv, RowInv
        <3>2. CASE t # Mine(w)
            BY Zenon, <1>1, <2>4, <2>5, <3>1, <3>2 DEF RowKept, ResultKept
        <3>3. CASE t = Mine(w)
            <4>1. artifacts[t] = <<>>
                BY Zenon, <2>4, <3>1, <3>3 DEF ResultKept
            <4>2. rows[t].kind = "artifact" => ObjectKey(w) \in objects
                BY Zenon, <1>1, <3>3 DEF IInv, AllKept, WorkerKept, ObjectKept
            <4>3. ResultKept(t)'
                BY Zenon, <1>1, <1>2, <2>4, <2>5, <3>3, <4>1, <4>2 DEF ResultKept
            <4>4. RowKept(t)'
                BY Zenon, <1>2, <2>4, <3>1, <3>3 DEF RowKept, RowFrame
            <4> QED
                BY Zenon, <4>3, <4>4
        <3> QED
            BY Zenon, <3>2, <3>3
    <2>10. StoreOK'
        BY Zenon, <1>1, <2>5 DEF StoreOK, IInv, TypeOK
    <2> QED
        BY Zenon, <1>1, <2>4, <2>7, <2>8, <2>9, <2>10, WriteKept
<1>6. CASE /\ UNCHANGED <<rows, artifacts>>
           /\ \E to \in {"deleting", "idle", "exited", "failRetry"} : Leave(w, to)
    <2>1. PICK to \in {"deleting", "idle", "exited", "failRetry"} : Leave(w, to)
        BY Zenon, <1>6
    <2>2. to \in WorkerPc \ {"claiming", "granted", "starting", "found", "executing"}
        BY Zenon DEF WorkerPc
    <2>3. RowFrame /\ LockFrame(w) /\ LeaseFrame(w) /\ ObjectFrame(w)
        BY Zenon, <1>1, <1>6, SameFrames DEF ObjectFrame
    <2>4. /\ WorkerOK' /\ Frame(w) /\ CoverKept(w)' /\ wpc'[w] = to
          /\ to \notin {"idle", "exited"} => hold'[w] = hold[w]
        BY Zenon, <1>1, <2>1, <2>2, <2>3, LeaveFrame DEF svars
    <2>5. ObjectKept(w)'
        BY Zenon, <1>4, <1>6, <2>4 DEF ObjectKept, ObjectKey, Mine, Holding
    <2>6. \A t \in Task : artifacts[t] # <<>> => artifacts[t] \in objects'
        BY Zenon, <1>1 DEF IInv, RowInv, ResultKept
    <2>7. StoreOK' /\ StopOK'
        BY Zenon, <1>1, <1>6, TypeParts DEF IInv, StoreOK, StopOK
    <2> QED
        BY Zenon, <1>1, <1>6, <2>4, <2>5, <2>6, <2>7, QuietKept DEF Frame
<1> QED
    BY Zenon, <1>3, <1>5, <1>6 DEF Complete

\* #handleFailure: the owner schedules a retry or fails the task.
LEMMA HandleFailureKept ==
    ASSUME IInv, NEW w \in Worker, HandleFailure(w)
    PROVE  IInv' /\ LeaseFrame(w) /\ RowsGiveUp
<1>1. /\ wpc[w] \in {"failRetry", "failFatal"} /\ Holding(w) /\ Mine(w) \notin Locked
      /\ UNCHANGED <<idem, avars, artifacts, objects, wage, wdead, wstop>> /\ UNCHANGED svars
      /\ UNCHANGED faults \/ Fault
    BY Zenon DEF HandleFailure, Holding
<1>2. Mine(w) \in Task /\ rows[Mine(w)].status # "none"
    BY Zenon, <1>1, HeldRow
<1>3. PICK to \in {"idle", "exited"} : Leave(w, to)
    BY Zenon, Positions DEF HandleFailure
<1>4. to \in WorkerPc \ {"claiming", "granted", "starting", "found", "executing"}
    BY Zenon DEF WorkerPc
<1>5. wpc'[w] = to
    BY Zenon, <1>3 DEF Leave, IInv, TypeOK
<1>6. ObjectFrame(w) /\ ObjectKept(w)'
    BY Zenon, <1>1, <1>5 DEF ObjectFrame, ObjectKept, Holding
<1>7. CASE /\ Owns(w) /\ TaskAccepts(rows[Mine(w)], FailureEvent(w), 0)
           /\ rows' = [rows EXCEPT ![Mine(w)] = TaskApply(@, FailureEvent(w), 0)]
    <2>1. PICK e \in {"fail", "schedule_retry"} :
              rows' = [rows EXCEPT ![Mine(w)] = TaskApply(@, e, 0)]
        BY Zenon, <1>7 DEF FailureEvent
    <2>2. e \in {"succeed", "fail", "schedule_retry"} /\ wpc'[w] # wpc[w]
          /\ wpc[w] \in {"completing", "failRetry", "failFatal"}
        BY Zenon, <1>1, <1>5
    <2>3. /\ RowsOK' /\ RowFrame /\ RowsSettle /\ LockFrame(w) /\ LeaseFrame(w)
          /\ rows[Mine(w)].status = "running"
          /\ \A t \in Task \ {Mine(w)} : rows'[t] = rows[t]
          /\ rows'[Mine(w)].token = 0
          /\ rows'[Mine(w)].status \in {"failed", "retry_pending"}
        BY Zenon, <1>1, <1>7, <2>1, <2>2, EndedRow
    <2>4. /\ WorkerOK' /\ Frame(w) /\ CoverKept(w)'
        BY Zenon, <1>1, <1>3, <1>4, <1>6, <2>3, LeaveFrame DEF svars
    <2>5. ASSUME NEW t \in Task PROVE RowKept(t)' /\ ResultKept(t)'
        <3>1. RowKept(t) /\ ResultKept(t)
            BY Zenon DEF IInv, RowInv
        <3>2. CASE t # Mine(w)
            BY <1>1, <2>3, <3>1, <3>2 DEF RowKept, ResultKept
        <3>3. CASE t = Mine(w)
            BY Zenon, <1>1, <1>2, <2>3, <3>1, <3>3 DEF RowKept, ResultKept, RowFrame
        <3> QED
            BY Zenon, <3>2, <3>3
    <2>6. StoreOK'
        BY Zenon, <1>1 DEF IInv, TypeOK, StoreOK
    <2>7. RowsGiveUp
        BY Zenon, <2>3 DEF RowsGiveUp
    <2> QED
        BY Zenon, <1>1, <1>6, <2>3, <2>4, <2>5, <2>6, <2>7, WriteKept
<1>8. CASE rows' = rows
    <2>1. RowFrame /\ LockFrame(w) /\ LeaseFrame(w)
        BY Zenon, <1>8, SameFrames
    <2>2. WorkerOK' /\ Frame(w) /\ CoverKept(w)'
        BY Zenon, <1>1, <1>3, <1>4, <1>6, <2>1, LeaveFrame DEF svars
    <2>3. \A t \in Task : artifacts[t] # <<>> => artifacts[t] \in objects'
        BY Zenon, <1>1 DEF IInv, RowInv, ResultKept
    <2>4. StoreOK' /\ StopOK'
        BY Zenon, <1>1, TypeParts DEF IInv, StoreOK, StopOK
    <2> QED
        BY Zenon, <1>1, <1>6, <1>8, <2>1, <2>2, <2>3, <2>4, QuietKept DEF Frame, RowsGiveUp
<1> QED
    BY Zenon, <1>7, <1>8 DEF HandleFailure

-------------------------------------------------------------------------------
(* Processes that stop and start                                             *)

\* A signal is noted and moves nothing yet.
LEMMA ShutdownKept ==
    ASSUME IInv, NEW w \in Worker, Shutdown(w)
    PROVE  IInv'
<1>1. /\ UNCHANGED <<rows, artifacts, idem, avars, objects>> /\ UNCHANGED svars /\ Fault
      /\ UNCHANGED <<wpc, hold, wage, wdl, wdead, wseen>>
    BY Zenon DEF Shutdown, qvars
<1>2. StopOK'
    BY Zenon DEF IInv, TypeOK, Shutdown, StopOK
<1>3. StoreOK' /\ WorkerOK' /\ OthersSame(w)
    BY Zenon, <1>1, TypeParts DEF IInv, StoreOK, WorkerOK, OthersSame
<1>4. \A t \in Task : artifacts[t] # <<>> => artifacts[t] \in objects'
    BY Zenon, <1>1 DEF IInv, RowInv, ResultKept
<1>5. WorkerKept(w)
    BY Zenon DEF IInv, AllKept
<1>6. ObjectFrame(w) /\ HoldFrame(w) /\ DeadFrame(w)
    BY Zenon, <1>1, <1>5 DEF ObjectFrame, HoldFrame, DeadFrame, Holding, WorkerKept, LockKept
<1>7. CoverKept(w)'
    BY Zenon, <1>1, <1>5 DEF WorkerKept, CoverKept, Owns, Mine, Sess, svars
<1>8. ObjectKept(w)'
    BY Zenon, <1>1, <1>5 DEF WorkerKept, ObjectKept, ObjectKey, Mine, Holding
<1> QED
    BY Zenon, <1>1, <1>2, <1>3, <1>4, <1>6, <1>7, <1>8, QuietKept

\* A process that gives up its claim, and the rows its claim has failed.
LEMMA ExitKept ==
    ASSUME IInv, NEW w \in Worker, NEW to \in {"idle", "exited"}, EndClaim(w, to),
           UNCHANGED <<qvars, svars, avars, wstop>>, UNCHANGED faults \/ Fault
    PROVE  IInv'
<1>1. UNCHANGED <<rows, artifacts, idem, avars, objects, wstop>> /\ UNCHANGED svars
    BY Zenon DEF qvars
<1>2. WorkerOK /\ StoreOK' /\ StopOK'
    BY Zenon, <1>1, TypeParts DEF IInv, StoreOK, StopOK
<1>3. /\ WorkerOK' /\ OthersSame(w) /\ wpc'[w] = to /\ wage'[w] = 0 /\ wdead'[w] = {}
      /\ ~Holding(w)'
    BY Zenon, <1>2, EndClaimEffect
<1>4. \A t \in Task : artifacts[t] # <<>> => artifacts[t] \in objects'
    BY Zenon, <1>1 DEF IInv, RowInv, ResultKept
<1>5. ObjectFrame(w) /\ HoldFrame(w) /\ DeadFrame(w)
    BY Zenon, <1>1, <1>3 DEF ObjectFrame, HoldFrame, DeadFrame
<1>6. CoverKept(w)' /\ ObjectKept(w)'
    BY Zenon, <1>3 DEF CoverKept, ObjectKept, Holding
<1> QED
    BY Zenon, <1>1, <1>2, <1>3, <1>4, <1>5, <1>6, QuietKept

\* The replacement of a process starts with no claim.
LEMMA RestartKept ==
    ASSUME IInv, NEW w \in Worker, Restart(w)
    PROVE  IInv'
<1>1. /\ UNCHANGED <<rows, artifacts, idem, avars, objects>> /\ UNCHANGED svars
      /\ UNCHANGED faults /\ UNCHANGED <<hold, wage, wdl, wdead, wseen>>
      /\ wpc[w] = "exited"
    BY Zenon DEF Restart, qvars
<1>2. StopOK'
    BY Zenon DEF IInv, TypeOK, Restart, StopOK
<1>3. WorkerOK /\ StoreOK'
    BY Zenon, <1>1, TypeParts DEF IInv, StoreOK
<1>4. WorkerOK' /\ OthersSame(w) /\ wpc'[w] = "idle" /\ wdead'[w] = {}
    <2>1. hold[w] = NoHold /\ wage[w] = 0 /\ wdead[w] = {} /\ hold[w] \in Claims
          /\ wdl[w] \in 0..ExecutionTimeout /\ wseen[w] = NoAnswer
        BY Zenon, <1>1, <1>3 DEF WorkerOK
    <2>2. Acts(w, "idle", NoHold, 0, wdl[w], {}, NoAnswer)
        BY Zenon, <1>1, <1>3, <2>1 DEF Acts, Restart, WorkerOK
    <2>3. "idle" \in WorkerPc /\ 0 \in 0..ClaimDelay /\ {} \in SUBSET Task
        BY Attempts DEF WorkerPc
    <2> QED
        BY <1>3, <2>1, <2>2, <2>3, NoAnswerType, ActsEffect
<1>5. \A t \in Task : artifacts[t] # <<>> => artifacts[t] \in objects'
    BY Zenon, <1>1 DEF IInv, RowInv, ResultKept
<1>6. ObjectFrame(w) /\ HoldFrame(w) /\ DeadFrame(w)
    BY Zenon, <1>1, <1>4 DEF ObjectFrame, HoldFrame, DeadFrame, Holding
<1>7. CoverKept(w)' /\ ObjectKept(w)'
    BY Zenon, <1>4 DEF CoverKept, ObjectKept, Holding
<1> QED
    BY Zenon, <1>1, <1>2, <1>3, <1>4, <1>5, <1>6, <1>7, QuietKept

-------------------------------------------------------------------------------
(* claimNext                                                                 *)

\* Failing spent rows that no other claim has failed is within the frames.
LEMMA FailedFrames ==
    ASSUME IInv, NEW w \in Worker, NEW dead \in SUBSET Task, NEW at \in Nat, Spent(dead),
           \A v \in Worker \ {w} : dead \cap wdead[v] = {},
           rows' = Failed(dead, at), UNCHANGED <<artifacts, objects>>
    PROVE  /\ RowsOK' /\ RowFrame /\ RowsSettle /\ LockFrame(w) /\ LeaseFrame(w) /\ RowsGiveUp
           /\ \A t \in Task : RowKept(t)' /\ ResultKept(t)'
<1>1. /\ rows' \in [Task -> Row]
      /\ \A t \in Task \ dead : rows'[t] = rows[t]
      /\ \A t \in dead : /\ rows'[t].status = "failed" /\ rows'[t].token = 0 /\ rows'[t].lease = 0
                         /\ rows'[t].session = rows[t].session /\ rows'[t].kind = rows[t].kind
                         /\ rows'[t].attempts = rows[t].attempts /\ rows'[t].born = rows[t].born
    BY FailedRows
<1>2. \A t \in Task : /\ rows[t].attempts \in Nat /\ rows[t].born \in Nat /\ rows[t].lease \in Int
    BY DEF IInv, TypeOK, Row
<1>3. \A t \in Task : rows[t].status = "running" <=> rows[t].token # 0
    BY Zenon DEF IInv, TypeOK
<1>4. RowsOK'
    BY <1>1, <1>3 DEF RowsOK
<1>5. RowFrame /\ RowsSettle
    BY <1>1, <1>2 DEF RowFrame, RowsSettle, Spent
<1>6. LockFrame(w)
    <2>1. \A v \in Worker : wdead[v] \subseteq Task
        BY Zenon DEF IInv, TypeOK
    <2> QED
        BY Zenon, <1>1, <2>1 DEF LockFrame
<1>7. LeaseFrame(w)
    BY <1>1, <1>2 DEF LeaseFrame, Spent
<1>8. ASSUME NEW t \in Task PROVE RowKept(t)' /\ ResultKept(t)'
    <2>1. RowKept(t) /\ ResultKept(t)
        BY Zenon DEF IInv, RowInv
    <2>2. CASE t \notin dead
        BY <1>1, <2>1, <2>2 DEF RowKept, ResultKept
    <2>3. CASE t \in dead
        BY Zenon, <1>1, <2>1, <2>3 DEF RowKept, ResultKept, Spent
    <2> QED
        BY Zenon, <2>2, <2>3
<1>9. RowsGiveUp
    BY Zenon, <1>1 DEF RowsGiveUp, Spent
<1> QED
    BY Zenon, <1>4, <1>5, <1>6, <1>7, <1>8, <1>9

\* claimNext up to its wait for the tenant's lock: spent rows are failed, now or when
\* the claim commits.
LEMMA ClaimStartKept ==
    ASSUME IInv, NEW w \in Worker, ClaimStart(w)
    PROVE  IInv' /\ LeaseFrame(w) /\ RowsGiveUp
<1> DEFINE dead == Exhausted(0)
<1>1. /\ wpc[w] = "idle" /\ dead \cap Locked = {}
      /\ UNCHANGED <<artifacts, idem, avars, objects, wstop>> /\ UNCHANGED svars
      /\ UNCHANGED faults /\ UNCHANGED <<hold, wage, wdl, wseen>>
    BY Zenon DEF ClaimStart
<1>2. WorkerOK /\ hold[w] = NoHold /\ wage[w] = 0 /\ wdead[w] = {} /\ wseen[w] = NoAnswer
      /\ hold[w] \in Claims /\ wdl[w] \in 0..ExecutionTimeout
    BY Zenon, <1>1, TypeParts DEF IInv, WorkerOK
<1>3. /\ dead \in SUBSET Task
      /\ \A t \in dead : /\ rows[t].status = "running" /\ rows[t].lease <= -0
                         /\ rows[t].attempts >= MaxAttempts
      /\ \A v \in Worker : dead \cap wdead[v] = {}
    BY Zenon, <1>1 DEF Exhausted, Locked
<1> HIDE DEF dead
<1>4. Spent(dead)
    BY <1>3 DEF Spent
<1>5. \A t \in Task : artifacts[t] # <<>> => artifacts[t] \in objects'
    BY Zenon, <1>1 DEF IInv, RowInv, ResultKept
<1>6. CASE /\ wpc' = [wpc EXCEPT ![w] = "claiming"]
           /\ wdead' = [wdead EXCEPT ![w] = dead]
           /\ UNCHANGED rows
    <2>1. WorkerOK' /\ OthersSame(w) /\ wpc'[w] = "claiming" /\ wdead'[w] = dead /\ wage'[w] = 0
        <3>1. Acts(w, "claiming", NoHold, 0, wdl[w], dead, NoAnswer)
            BY Zenon, <1>1, <1>2, <1>6 DEF Acts, WorkerOK
        <3>2. "claiming" \in WorkerPc /\ 0 \in 0..ClaimDelay
            BY Attempts DEF WorkerPc
        <3> QED
            <4>1. WorkerOK /\ NoHold \in Claims /\ wdl[w] \in 0..ExecutionTimeout
                  /\ dead \in SUBSET Task
                BY Zenon, <1>2, <1>3
            <4> QED
                BY <3>1, <3>2, <4>1, NoAnswerType, ActsEffect
    <2>2. DeadFrame(w)
        BY Zenon, <1>3, <1>6, <2>1 DEF DeadFrame
    <2>3. ObjectFrame(w) /\ HoldFrame(w)
        BY Zenon, <1>1, <2>1 DEF ObjectFrame, HoldFrame, Holding
    <2>4. CoverKept(w)' /\ ObjectKept(w)'
        BY Zenon, <2>1 DEF CoverKept, ObjectKept, Holding
    <2>5. StoreOK' /\ StopOK'
        BY Zenon, <1>1, TypeParts DEF IInv, StoreOK, StopOK
    <2>6. LeaseFrame(w) /\ RowsGiveUp
        BY Zenon, <1>6, SameFrames DEF RowsGiveUp
    <2> QED
        BY Zenon, <1>1, <1>5, <1>6, <2>1, <2>2, <2>3, <2>4, <2>5, <2>6, QuietKept
<1>7. CASE rows' = Failed(dead, 0) /\ UNCHANGED <<wpc, wdead>>
    <2>1. /\ RowsOK' /\ RowFrame /\ RowsSettle /\ LockFrame(w) /\ LeaseFrame(w) /\ RowsGiveUp
          /\ \A t \in Task : RowKept(t)' /\ ResultKept(t)'
        BY Zenon, <1>1, <1>3, <1>4, <1>7, FailedFrames
    <2>2. WorkerOK' /\ OthersSame(w) /\ wpc'[w] = "idle" /\ wdead'[w] = {}
        BY Zenon, <1>1, <1>2, <1>7 DEF WorkerOK, OthersSame
    <2>3. Frame(w)
        <3>1. ObjectFrame(w) /\ HoldFrame(w) /\ DeadFrame(w)
            BY Zenon, <1>1, <2>2 DEF ObjectFrame, HoldFrame, Holding, DeadFrame
        <3> QED
            BY Zenon, <1>1, <2>1, <2>2, <3>1 DEF Frame, svars
    <2>4. CoverKept(w)' /\ ObjectKept(w)'
        BY Zenon, <2>2 DEF CoverKept, ObjectKept, Holding
    <2>5. StoreOK'
        BY Zenon, <1>1 DEF IInv, TypeOK, StoreOK
    <2> QED
        BY Zenon, <1>1, <2>1, <2>2, <2>3, <2>4, <2>5, WriteKept
<1> QED
    BY Zenon, <1>6, <1>7 DEF ClaimStart, dead

\* The claim of a row: a new attempt under a new lease, in a session nobody runs
\* in, and within the tenant's share.
LEMMA GrantedKept ==
    ASSUME IInv, NEW w \in Worker, wpc[w] = "claiming", NEW t \in Task,
           Claimable(Failed(wdead[w], wage[w])[t], wage[w]),
           Room(Failed(wdead[w], wage[w]), wage[w]),
           ~Occupied(Failed(wdead[w], wage[w]), t),
           Granted(w, t, Failed(wdead[w], wage[w]), wage[w]),
           UNCHANGED <<idem, artifacts, objects, avars, wstop>>, UNCHANGED svars, UNCHANGED faults
    PROVE  IInv' /\ LeaseFrame(w) /\ RowsGiveUp
<1> DEFINE at == wage[w]
           dead == wdead[w]
           R == Failed(dead, at)
<1>1. WorkerOK /\ at \in 0..ClaimDelay /\ dead \in SUBSET Task /\ wdl[w] \in 0..ExecutionTimeout
    BY Zenon, TypeParts DEF IInv, WorkerOK
<1>2. at \in Nat
    BY <1>1, Attempts
<1>3. /\ \A u \in dead : /\ rows[u].status = "running" /\ rows[u].lease <= -at
                         /\ rows[u].attempts >= MaxAttempts
      /\ \A v \in Worker \ {w} : dead \cap wdead[v] = {}
    BY Zenon DEF IInv, AllKept, WorkerKept, LockKept
<1>4. \A u \in Task : /\ rows[u] \in Row /\ rows[u].attempts \in 0..MaxAttempts
                      /\ rows[u].born \in Nat /\ rows[u].lease \in Int
    BY Zenon DEF IInv, TypeOK, Row
<1>5. Spent(dead)
    BY <1>1, <1>2, <1>3, <1>4 DEF Spent
<1>6. /\ R \in [Task -> Row]
      /\ \A u \in Task \ dead : R[u] = rows[u]
      /\ \A u \in dead : /\ R[u].status = "failed" /\ R[u].token = 0 /\ R[u].lease = 0
                         /\ R[u].session = rows[u].session /\ R[u].kind = rows[u].kind
                         /\ R[u].attempts = rows[u].attempts /\ R[u].born = rows[u].born
    BY Zenon, <1>1, <1>2, <1>5, FailedRows
<1> DEFINE r == TaskApply(R[t], "claim", at)
<1>7. /\ rows' = [R EXCEPT ![t] = r]
      /\ hold' = [hold EXCEPT ![w] = [task |-> t, attempts |-> rows'[t].attempts,
                                      version |-> rows'[t].version]]
      /\ wpc' = [wpc EXCEPT ![w] = "granted"] /\ wdead' = [wdead EXCEPT ![w] = {}]
      /\ UNCHANGED <<wage, wdl, wseen>>
    BY Zenon DEF Granted
<1>8. /\ Claimable(R[t], at) /\ Cardinality(RunningIn(R, at)) < maxRunning
      /\ \A u \in Task \ {t} : R[u].session = R[t].session => R[u].status # "running"
    BY Zenon DEF Room, Occupied
<1> HIDE DEF R
<1>9. /\ t \notin dead /\ R[t] = rows[t] /\ rows[t].attempts < MaxAttempts
      /\ \/ rows[t].status \in {"queued", "retry_pending"}
         \/ rows[t].status = "running" /\ rows[t].lease <= -at
    BY Zenon, <1>1, <1>3, <1>4, <1>6, <1>8 DEF Claimable
<1>10. /\ r \in Row /\ r.status = "running" /\ r.session = rows[t].session /\ r.kind = rows[t].kind
       /\ r.attempts = rows[t].attempts + 1 /\ r.version = rows[t].version + 1
       /\ r.token = rows[t].attempts + 1 /\ r.lease = LeaseTTL - at /\ r.born = rows[t].born
    <2>1. R[t] \in Row /\ R[t].attempts < MaxAttempts
        BY Zenon, <1>4, <1>9
    <2> HIDE DEF at
    <2>2. /\ r \in Row /\ r.status = "running" /\ r.session = R[t].session /\ r.kind = R[t].kind
          /\ r.attempts = R[t].attempts + 1 /\ r.version = R[t].version + 1
          /\ r.token = R[t].attempts + 1 /\ r.lease = LeaseTTL - at /\ r.born = R[t].born
        BY Zenon, <1>2, <2>1, ClaimFields
    <2> QED
        BY Zenon, <1>9, <2>2
<1> HIDE DEF r, at, dead
<1>11. rows' \in [Task -> Row] /\ rows'[t] = r /\ \A u \in Task \ {t} : rows'[u] = R[u]
    BY Zenon, <1>6, <1>7, <1>10
<1>12. RowsOK'
    <2>1. \A u \in Task : rows[u].status = "running" <=> rows[u].token # 0
        BY Zenon DEF IInv, TypeOK
    <2> QED
        <3>1. r.token # 0
            BY <1>4, <1>10
        <3>2. ASSUME NEW u \in Task PROVE rows'[u].status = "running" <=> rows'[u].token # 0
            <4>1. CASE u = t
                BY Zenon, <1>10, <1>11, <3>1, <4>1
            <4>2. CASE u # t /\ u \in dead
                BY Zenon, <1>6, <1>11, <4>2
            <4>3. CASE u # t /\ u \notin dead
                <5>1. rows'[u] = rows[u]
                    BY Zenon, <1>6, <1>11, <4>3
                <5> QED
                    BY Zenon, <2>1, <5>1
            <4> QED
                BY Zenon, <4>1, <4>2, <4>3
        <3> QED
            BY Zenon, <1>11, <3>2 DEF RowsOK
<1>13. RowFrame
    <2>1. \A u \in Task : rows[u].attempts >= rows[u].attempts /\ rows[u].born >= rows[u].born
        BY <1>4, Attempts
    <2>2. rows[t].attempts + 1 >= rows[t].attempts
        BY <1>4, Attempts
    <2>3. ASSUME NEW u \in Task
          PROVE  /\ rows'[u].attempts >= rows[u].attempts /\ rows'[u].born >= rows[u].born
                 /\ rows'[u].session = rows[u].session /\ rows'[u].kind = rows[u].kind
                 /\ (rows'[u].status = "none" <=> rows[u].status = "none")
        <3>1. CASE u = t
            BY Zenon, <1>9, <1>10, <1>11, <2>1, <2>2, <3>1
        <3>2. CASE u # t /\ u \in dead
            <4>1. rows'[u] = R[u] /\ rows[u].status = "running"
                BY Zenon, <1>3, <1>11, <3>2
            <4>2. /\ R[u].status = "failed" /\ R[u].session = rows[u].session
                  /\ R[u].kind = rows[u].kind /\ R[u].attempts = rows[u].attempts
                  /\ R[u].born = rows[u].born
                BY Zenon, <1>6, <3>2
            <4> QED
                BY Zenon, <2>1, <4>1, <4>2
        <3>3. CASE u # t /\ u \notin dead
            BY Zenon, <1>6, <1>11, <2>1, <3>3
        <3> QED
            BY Zenon, <3>1, <3>2, <3>3
    <2> QED
        BY Zenon, <2>3 DEF RowFrame
<1>14. LockFrame(w)
    <2>1. ASSUME NEW v \in Worker \ {w}, NEW u \in wdead[v] PROVE rows'[u] = rows[u]
        <3>1. u \in Task /\ rows[u].attempts >= MaxAttempts /\ u \notin dead
            BY Zenon, <1>3 DEF IInv, TypeOK, AllKept, WorkerKept, LockKept
        <3>2. u # t
            BY <1>4, <1>9, <3>1, Attempts
        <3> QED
            BY Zenon, <1>6, <1>11, <3>1, <3>2
    <2> QED
        BY Zenon, <2>1 DEF LockFrame
<1>15. LeaseFrame(w)
    <2>1. ASSUME NEW u \in Task, rows[u].status = "running", rows[u].lease > 0
          PROVE  rows'[u] = rows[u]
        <3>1. u # t /\ u \notin dead
            BY <1>2, <1>3, <1>4, <1>9, <2>1 DEF at
        <3> QED
            BY Zenon, <1>6, <1>11, <3>1
    <2> QED
        BY Zenon, <2>1 DEF LeaseFrame
<1> DEFINE h == [task |-> t, attempts |-> rows[t].attempts + 1, version |-> rows[t].version + 1]
<1>16. /\ WorkerOK' /\ OthersSame(w) /\ wpc'[w] = "granted" /\ hold'[w] = h /\ wage'[w] = at
       /\ wdead'[w] = {}
    <2>1. hold' = [hold EXCEPT ![w] = h]
        BY Zenon, <1>7, <1>10, <1>11
    <2>2. wseen[w] = NoAnswer /\ Acts(w, "granted", h, at, wdl[w], {}, NoAnswer)
        BY Zenon, <1>1, <1>7, <2>1 DEF Acts, WorkerOK, at
    <2>3. h \in Claims /\ h # NoHold
        <3>1. /\ rows[t].attempts + 1 \in 0..MaxAttempts /\ rows[t].version + 1 \in Nat
              /\ t \in 0..MaxTasks /\ t # 0
            BY <1>4, <1>9, Attempts DEF Task, Row
        <3> QED
            BY Zenon, <3>1 DEF Claims, NoHold
    <2>4. "granted" \in WorkerPc /\ {} \in SUBSET Task
        BY Zenon DEF WorkerPc
    <2> HIDE DEF h
    <2> QED
        BY <1>1, <2>2, <2>3, <2>4, NoAnswerType, ActsEffect
<1>17. Frame(w)
    <2>1. HoldFrame(w)
        <3>1. hold'[w].task = t /\ hold'[w].attempts = rows[t].attempts + 1
            BY <1>16
        <3>2. rows'[t].status # "none" /\ rows'[t].attempts = rows[t].attempts + 1
            BY Zenon, <1>10, <1>11
        <3>3. /\ rows[t].attempts < rows[t].attempts + 1
              /\ rows[t].attempts + 1 \in 1..(rows[t].attempts + 1)
            BY <1>4
        <3> QED
            BY Zenon, <3>1, <3>2, <3>3 DEF HoldFrame
    <2>2. DeadFrame(w) /\ ObjectFrame(w)
        BY Zenon, <1>16 DEF DeadFrame, ObjectFrame
    <2> QED
        BY Zenon, <1>13, <1>14, <1>15, <1>16, <2>1, <2>2 DEF Frame, svars
<1>18. artifacts[t] = <<>> /\ \A u \in dead : artifacts[u] = <<>>
    BY Zenon, <1>1, <1>3, <1>9 DEF IInv, RowInv, ResultKept, dead
<1>19. CoverKept(w)'
    <2>1. /\ hold'[w].task = t /\ hold'[w].attempts = rows[t].attempts + 1
          /\ hold'[w].version = rows[t].version + 1
        BY <1>16
    <2>2. (LeaseTTL - at) + at >= LeaseTTL
        BY <1>2, Attempts
    <2>3. Owns(w)' /\ rows'[Mine(w)'].lease + wage'[w] >= LeaseTTL
        BY Zenon, <1>10, <1>11, <1>16, <2>1, <2>2 DEF Owns, Mine
    <2> QED
        BY Zenon, <1>16, <2>3 DEF CoverKept, Mine
<1>20. ObjectKept(w)'
    <2>1. Mine(w)' = t
        BY <1>16 DEF Mine
    <2>2. ObjectKey(w)' # <<>>
        BY DEF ObjectKey
    <2> QED
        BY Zenon, <1>16, <1>18, <2>1, <2>2 DEF ObjectKept
<1>21. ASSUME NEW u \in Task PROVE RowKept(u)' /\ ResultKept(u)'
    <2>1. RowKept(u) /\ ResultKept(u)
        BY Zenon DEF IInv, RowInv
    <2>2. CASE u = t
        BY Zenon, <1>9, <1>10, <1>11, <1>18, <2>1, <2>2 DEF RowKept, ResultKept
    <2>3. CASE u \in dead
        <3>1. rows'[u] = R[u] /\ rows[u].status = "running" /\ artifacts'[u] = <<>>
            BY Zenon, <1>3, <1>9, <1>11, <1>18, <2>3
        <3>2. R[u].status = "failed" /\ R[u].token = 0 /\ R[u].session = rows[u].session
            BY Zenon, <1>6, <2>3
        <3> QED
            BY Zenon, <2>1, <3>1, <3>2 DEF RowKept, ResultKept
    <2>4. CASE u # t /\ u \notin dead
        <3>1. rows'[u] = rows[u]
            BY Zenon, <1>6, <1>11, <2>4
        <3>2. artifacts' = artifacts /\ objects' = objects
            BY Zenon
        <3>3. RowKept(u)'
            BY Zenon, <2>1, <3>1 DEF RowKept
        <3>4. ResultKept(u)'
            BY Zenon, <2>1, <3>1, <3>2 DEF ResultKept
        <3> QED
            BY Zenon, <3>3, <3>4
    <2> QED
        BY Zenon, <2>2, <2>3, <2>4
<1>22. Numbered'
    BY Zenon, <1>13 DEF IInv, RowInv, Numbered, RowFrame
<1>23. OneRunning'
    <2>1. \A u \in Task \ {t} : rows'[u].status = "running" =>
             rows[u].status = "running" /\ rows'[u].session = rows[u].session /\ rows[u] = R[u]
        BY Zenon, <1>6, <1>11
    <2>2. \A u \in Task \ {t} : rows'[u].status = "running" => rows'[u].session # rows'[t].session
        BY Zenon, <1>8, <1>9, <1>10, <1>11
    <2> QED
        BY Zenon, <2>1, <2>2 DEF IInv, RowInv, OneRunning
<1>24. QuotasRespected'
    <2> DEFINE run == RunningIn(R, at)
               runNext == RunningIn(rows', 0)
               new == Recent
               newNext == {u \in Task : rows'[u].status # "none" /\ rows'[u].born < Window}
    <2>1. run \in SUBSET Task /\ runNext \in SUBSET (run \cup {t})
        <3>1. ASSUME NEW u \in Task \ {t}, LiveAt(rows'[u], 0) PROVE LiveAt(R[u], at)
            <4>1. R[u] \in Row /\ rows'[u] = R[u]
                BY Zenon, <1>6, <1>11
            <4>2. R[u].lease \in Int
                BY Zenon, <4>1 DEF Row
            <4> QED
                BY <1>2, <3>1, <4>1, <4>2 DEF LiveAt
        <3> QED
            BY Zenon, <3>1 DEF RunningIn
    <2>2. new \in SUBSET Task /\ newNext \in SUBSET new
        <3>1. \A u \in Task : rows[u].born \in Nat /\ rows'[u].born \in Nat
            BY Zenon, <1>4, <1>11 DEF Row
        <3>2. \A u \in Task : /\ rows'[u].status = "none" <=> rows[u].status = "none"
                             /\ rows'[u].born >= rows[u].born
            BY Zenon, <1>13 DEF RowFrame
        <3>3. \A u \in Task : rows'[u].born < Window => rows[u].born < Window
            BY <3>1, <3>2, Attempts
        <3> QED
            BY Zenon, <3>2, <3>3 DEF Recent
    <2>3. Cardinality(new) <= MaxRecent /\ Cardinality(run) < maxRunning /\ maxRunning \in Nat
          /\ maxRunning' = maxRunning
        BY Zenon, <1>8, Attempts DEF IInv, TypeOK, QuotasRespected, svars
    <2> HIDE DEF run, runNext, new, newNext
    <2>4. Cardinality(newNext) <= Cardinality(new) /\ Cardinality(newNext) \in Nat
          /\ Cardinality(new) \in Nat
        BY Zenon, <2>2, TaskSets
    <2>5. /\ IsFiniteSet(run) /\ Cardinality(run) \in Nat
        BY Zenon, <2>1, TaskSets
    <2>6. /\ IsFiniteSet(run \cup {t}) /\ Cardinality(run \cup {t}) <= Cardinality(run) + 1
          /\ Cardinality(run \cup {t}) \in Nat
        <3>1. IsFiniteSet(run \cup {t})
              /\ (Cardinality(run \cup {t}) = Cardinality(run)
                    \/ Cardinality(run \cup {t}) = Cardinality(run) + 1)
            BY Zenon, <2>5, FS_AddElement
        <3> QED
            BY <2>5, <3>1
    <2>7. run \cup {t} \in SUBSET Task
        BY Zenon, <2>1
    <2>8. Cardinality(runNext) <= Cardinality(run \cup {t}) /\ Cardinality(runNext) \in Nat
        BY Zenon, <2>1, <2>7, TaskSets
    <2>9. Cardinality(runNext) <= maxRunning' /\ Cardinality(newNext) <= MaxRecent
        BY <2>3, <2>4, <2>5, <2>6, <2>8, Attempts
    <2> QED
        BY Zenon, <2>9 DEF QuotasRespected, Recent, runNext, newNext
<1>25. StoreOK'
    BY Zenon DEF IInv, TypeOK, StoreOK
<1>26. RowsGiveUp
    <2>1. ASSUME NEW u \in Task
          PROVE  \/ rows'[u].status = rows[u].status
                 \/ /\ rows[u].status \in {"queued", "running", "retry_pending"}
                    /\ rows'[u].status \in {"running", "retry_pending", "failed"}
        <3>1. CASE u = t
            BY Zenon, <1>9, <1>10, <1>11, <3>1
        <3>2. CASE u # t /\ u \in dead
            BY Zenon, <1>3, <1>6, <1>11, <3>2
        <3>3. CASE u # t /\ u \notin dead
            BY Zenon, <1>6, <1>11, <3>3
        <3> QED
            BY Zenon, <3>1, <3>2, <3>3
    <2> QED
        BY Zenon, <2>1 DEF RowsGiveUp
<1> QED
    BY Zenon, <1>12, <1>15, <1>16, <1>17, <1>19, <1>20, <1>21, <1>22, <1>23, <1>24, <1>25, <1>26, WriteKept

\* claimNext under the lock: it commits the failed rows with a claim or without one,
\* or rolls them back.
LEMMA ClaimFinishKept ==
    ASSUME IInv, NEW w \in Worker, ClaimFinish(w)
    PROVE  IInv' /\ LeaseFrame(w) /\ RowsGiveUp
<1> DEFINE at == wage[w]
           R == Failed(wdead[w], at)
<1>1. /\ wpc[w] = "claiming"
      /\ UNCHANGED <<idem, artifacts, objects, avars, wstop>> /\ UNCHANGED svars
      /\ UNCHANGED faults
    BY Zenon DEF ClaimFinish
<1>2. \/ rows' = R /\ EndClaim(w, Done(w))
      \/ UNCHANGED rows /\ EndClaim(w, "exited")
      \/ UNCHANGED rows /\ EndClaim(w, Done(w))
      \/ \E t \in CandidatesIn(R, at) : Room(R, at) /\ ~Occupied(R, t) /\ Granted(w, t, R, at)
    BY Zenon DEF ClaimFinish
<1>3. Done(w) \in {"idle", "exited"} /\ "exited" \in {"idle", "exited"}
    BY Zenon, Positions
<1>4. CASE UNCHANGED rows /\ (EndClaim(w, "exited") \/ EndClaim(w, Done(w)))
    <2>1. UNCHANGED <<qvars, svars, avars, wstop>>
        BY Zenon, <1>1, <1>4 DEF qvars
    <2>2. LeaseFrame(w) /\ RowsGiveUp
        BY Zenon, <1>4, SameFrames DEF RowsGiveUp
    <2> QED
        BY Zenon, <1>1, <1>3, <1>4, <2>1, <2>2, ExitKept
<1>5. CASE rows' = R /\ EndClaim(w, Done(w))
    <2>1. WorkerOK /\ at \in 0..ClaimDelay /\ wdead[w] \in SUBSET Task
        BY Zenon, TypeParts DEF IInv, WorkerOK
    <2>2. at \in Nat
        BY <2>1, Attempts
    <2>3. /\ \A u \in wdead[w] : /\ rows[u].status = "running" /\ rows[u].lease <= -at
                                 /\ rows[u].attempts >= MaxAttempts
          /\ \A v \in Worker \ {w} : wdead[w] \cap wdead[v] = {}
        BY Zenon DEF IInv, AllKept, WorkerKept, LockKept
    <2>4. \A u \in Task : rows[u].lease \in Int
        BY Zenon DEF IInv, TypeOK, Row
    <2>5. Spent(wdead[w])
        BY <2>1, <2>2, <2>3, <2>4 DEF Spent
    <2>6. /\ RowsOK' /\ RowFrame /\ RowsSettle /\ LockFrame(w) /\ LeaseFrame(w) /\ RowsGiveUp
          /\ \A t \in Task : RowKept(t)' /\ ResultKept(t)'
        BY Zenon, <1>1, <1>5, <2>1, <2>2, <2>3, <2>5, FailedFrames
    <2>7. /\ WorkerOK' /\ OthersSame(w) /\ wpc'[w] = Done(w) /\ wage'[w] = 0 /\ wdead'[w] = {}
          /\ ~Holding(w)'
        BY Zenon, <1>3, <1>5, <2>1, EndClaimEffect
    <2>8. Frame(w)
        <3>1. ObjectFrame(w) /\ HoldFrame(w) /\ DeadFrame(w)
            BY Zenon, <1>1, <2>7 DEF ObjectFrame, HoldFrame, DeadFrame
        <3> QED
            BY Zenon, <1>1, <2>6, <2>7, <3>1 DEF Frame, svars
    <2>9. CoverKept(w)' /\ ObjectKept(w)'
        BY Zenon, <1>3, <2>7 DEF CoverKept, ObjectKept, Holding
    <2>10. StoreOK'
        BY Zenon, <1>1 DEF IInv, TypeOK, StoreOK
    <2> QED
        BY Zenon, <1>1, <2>6, <2>7, <2>8, <2>9, <2>10, WriteKept
<1>6. CASE \E t \in CandidatesIn(R, at) : Room(R, at) /\ ~Occupied(R, t) /\ Granted(w, t, R, at)
    <2>1. PICK t \in CandidatesIn(R, at) : Room(R, at) /\ ~Occupied(R, t) /\ Granted(w, t, R, at)
        BY Zenon, <1>6
    <2>2. t \in Task /\ Claimable(R[t], at)
        BY Zenon DEF CandidatesIn
    <2> QED
        BY Zenon, <1>1, <2>1, <2>2, GrantedKept
<1> QED
    BY Zenon, <1>2, <1>4, <1>5, <1>6

-------------------------------------------------------------------------------
(* Requests                                                                  *)

\* Steps that leave the workers, the results and every existing row alone.
LEMMA WorkersSame ==
    ASSUME IInv, UNCHANGED <<wpc, hold, wage, wdl, wdead, wseen, artifacts, objects, life>>,
           \A t \in Task : rows[t].status # "none" => rows'[t] = rows[t]
    PROVE  AllKept'
<1>1. ASSUME NEW v \in Worker PROVE WorkerKept(v)'
    <2>1. WorkerKept(v) /\ (Holding(v) <=> Holding(v)')
        BY Zenon DEF IInv, AllKept, Holding
    <2>2. Holding(v) => Mine(v) \in Task /\ rows'[Mine(v)] = rows[Mine(v)]
        BY Zenon DEF IInv, AllKept, WorkerKept, HoldKept
    <2>3. HoldKept(v)'
        BY Zenon, <2>1, <2>2 DEF WorkerKept, HoldKept, Mine, Holding
    <2>4. LockKept(v)'
        <3>1. wdead[v] \subseteq Task
            BY Zenon DEF IInv, TypeOK
        <3> QED
            BY Zenon, <2>1, <3>1 DEF WorkerKept, LockKept
    <2>5. CoverKept(v)'
        BY Zenon, <2>1, <2>2 DEF WorkerKept, CoverKept, Owns, Mine, Sess, Holding
    <2>6. ObjectKept(v)'
        BY Zenon, <2>1, <2>2 DEF WorkerKept, ObjectKept, ObjectKey, Mine, Holding
    <2> QED
        BY Zenon, <2>3, <2>4, <2>5, <2>6 DEF WorkerKept
<1> QED
    BY Zenon, <1>1 DEF AllKept

\* A step of a request that inserts nothing.
LEMMA RequestKept ==
    ASSUME IInv, UNCHANGED <<rows, artifacts, objects>>, UNCHANGED svars, UNCHANGED wvars,
           UNCHANGED faults \/ Fault, CallerOK', AnswerInv'
    PROVE  IInv'
<1>1. EnvOK' /\ maxRunning' = maxRunning /\ life' = life
    BY Zenon, EnvSame
<1>2. RowsOK' /\ StoreOK' /\ StopOK' /\ WorkerOK'
    BY Zenon, TypeParts DEF IInv, RowsOK, StoreOK, StopOK, WorkerOK, wvars
<1>3. TypeOK'
    BY Zenon, <1>1, <1>2, TypePartsNext
<1>4. RowInv' /\ QuotasRespected'
    <2>1. \A t \in Task : artifacts[t] # <<>> => artifacts[t] \in objects'
        BY Zenon DEF IInv, RowInv, ResultKept
    <2> QED
        BY Zenon, <1>1, <1>3, <2>1, RowsSame
<1>5. AllKept'
    BY Zenon, <1>1, WorkersSame DEF wvars
<1> QED
    BY Zenon, <1>3, <1>4, <1>5 DEF IInv

\* Request a takes position p and is answered task n; the records stay.
LEMMA RequestMoves ==
    ASSUME IInv, NEW a \in Caller, NEW p \in CallerPc, NEW n \in 0..MaxTasks,
           apc' = [apc EXCEPT ![a] = p], atask' = [atask EXCEPT ![a] = n],
           UNCHANGED idem, DOMAIN areq' = Caller, areq'[a] \in TaskRequest,
           \A b \in Caller \ {a} : areq'[b] = areq[b],
           p # "created",
           p = "existing" => LET r == idem[<<areq'[a].session, areq'[a].key>>] IN
                             r.task = n /\ n # 0 /\ r.body = areq'[a].body
    PROVE  CallerOK' /\ AnswerInv'
<1>1. /\ apc' \in [Caller -> CallerPc] /\ atask' \in [Caller -> 0..MaxTasks]
      /\ apc'[a] = p /\ atask'[a] = n
      /\ \A b \in Caller \ {a} : apc'[b] = apc[b] /\ atask'[b] = atask[b]
    BY Zenon DEF IInv, TypeOK
<1>2. CallerOK'
    <2>1. \A b \in Caller : apc'[b] # "idle" => areq'[b] \in TaskRequest
        BY Zenon, <1>1 DEF IInv, TypeOK
    <2>2. idem' \in [Session \X Key -> [task : 0..MaxTasks, body : Body \cup {"none"}]]
        BY Zenon DEF IInv, TypeOK
    <2> QED
        BY Zenon, <1>1, <2>1, <2>2 DEF CallerOK
<1>3. OneCreator'
    BY <1>1 DEF IInv, AnswerInv, OneCreator
<1>4. ASSUME NEW b \in Caller PROVE AnswerKept(b)'
    <2>1. CASE b = a
        BY Zenon, <1>1, <2>1 DEF AnswerKept, Record
    <2>2. CASE b # a
        BY <1>1, <2>2 DEF AnswerKept, Record, IInv, AnswerInv
    <2> QED
        BY Zenon, <2>1, <2>2
<1> QED
    BY Zenon, <1>2, <1>3, <1>4 DEF AnswerInv

\* What a record answers.
LEMMA ReplayedType ==
    ASSUME NEW r, NEW h
    PROVE  /\ Replayed(r, h) \in CallerPc /\ Replayed(r, h) # "created"
           /\ Replayed(r, h) = "existing" => r.body = h
BY Zenon DEF Replayed, CallerPc, CallerFinal

\* findIdempotentTask answers a request from the record, or lets it go on.
LEMMA SubmitKept ==
    ASSUME IInv, NEW a \in Caller, Submit(a)
    PROVE  IInv'
<1>1. /\ UNCHANGED <<rows, artifacts, objects>> /\ UNCHANGED idem /\ UNCHANGED svars
      /\ UNCHANGED wvars /\ UNCHANGED faults
    BY Zenon DEF Submit, qvars
<1>2. PICK s \in Session, k \in Key, h \in Body, d \in Kind :
          LET r == idem[<<s, k>>] IN
          /\ areq' = [areq EXCEPT ![a] = [session |-> s, key |-> k, body |-> h, kind |-> d]]
          /\ IF r.task = 0
             THEN apc' = [apc EXCEPT ![a] = "checking"] /\ UNCHANGED atask
             ELSE /\ apc' = [apc EXCEPT ![a] = Replayed(r, h)]
                  /\ atask' = [atask EXCEPT ![a] = r.task]
    BY Zenon DEF Submit
<1> DEFINE r == idem[<<s, k>>]
<1>3. r.task \in 0..MaxTasks
    BY Zenon DEF IInv, TypeOK
<1>4. /\ DOMAIN areq' = Caller /\ areq'[a] \in TaskRequest
      /\ areq'[a].session = s /\ areq'[a].key = k /\ areq'[a].body = h
      /\ \A b \in Caller \ {a} : areq'[b] = areq[b]
    BY Zenon, <1>2 DEF IInv, TypeOK, TaskRequest
<1>5. CASE r.task = 0
    <2>1. apc' = [apc EXCEPT ![a] = "checking"] /\ atask' = [atask EXCEPT ![a] = atask[a]]
          /\ atask[a] \in 0..MaxTasks
        BY Zenon, <1>2, <1>5 DEF IInv, TypeOK
    <2>2. "checking" \in CallerPc
        BY Zenon DEF CallerPc
    <2>3. CallerOK' /\ AnswerInv'
        BY Zenon, <1>1, <1>4, <2>1, <2>2, RequestMoves
    <2> QED
        BY Zenon, <1>1, <2>3, RequestKept
<1>6. CASE r.task # 0
    <2>1. apc' = [apc EXCEPT ![a] = Replayed(r, h)] /\ atask' = [atask EXCEPT ![a] = r.task]
        BY Zenon, <1>2, <1>6
    <2>2. /\ Replayed(r, h) \in CallerPc /\ Replayed(r, h) # "created"
          /\ Replayed(r, h) = "existing" => r.body = h
        BY Zenon, ReplayedType
    <2>3. CallerOK' /\ AnswerInv'
        BY Zenon, <1>1, <1>3, <1>4, <1>6, <2>1, <2>2, RequestMoves
    <2> QED
        BY <1>1, <2>3, RequestKept
<1> QED
    BY Zenon, <1>5, <1>6

\* Steps that move a request to a position without an answer.
LEMMA UnansweredKept ==
    ASSUME IInv, NEW a \in Caller, apc[a] # "idle",
           NEW p \in {"inserting", "refused", "quota", "error"},
           apc' = [apc EXCEPT ![a] = p], UNCHANGED <<areq, atask, idem>>,
           UNCHANGED <<rows, artifacts, objects>>, UNCHANGED svars, UNCHANGED wvars,
           UNCHANGED faults \/ Fault
    PROVE  IInv'
<1>1. /\ atask' = [atask EXCEPT ![a] = atask[a]] /\ atask[a] \in 0..MaxTasks
      /\ areq'[a] \in TaskRequest /\ DOMAIN areq' = Caller
    BY Zenon DEF IInv, TypeOK
<1>2. p \in CallerPc
    BY Zenon DEF CallerPc, CallerFinal
<1>3. CallerOK' /\ AnswerInv'
    BY Zenon, <1>1, <1>2, RequestMoves
<1> QED
    BY Zenon, <1>3, RequestKept

\* Tasks are numbered in the order of their insertion: the next number is free.
LEMMA NextTaskFree ==
    ASSUME IInv, NextTask \in Task
    PROVE  /\ rows[NextTask].status = "none"
           /\ \E n \in 0..MaxTasks : /\ NextTask = n + 1 /\ n + 1 \in 0..MaxTasks
                                     /\ \A t \in Task : rows[t].status # "none" <=> t <= n
<1>1. PICK n \in 0..MaxTasks : \A t \in Task : rows[t].status # "none" <=> t <= n
    BY Zenon DEF IInv, RowInv, Numbered
<1>2. n \in Nat /\ MaxTasks \in Nat
    BY <1>1, Attempts
<1> DEFINE S == {t \in Task : rows[t].status # "none"}
<1>3. S = 1..n
    BY <1>1, <1>2 DEF Task
<1>4. Cardinality(1..n) = n
    BY <1>2, FS_Interval
<1>5. NextTask = n + 1
    <2>1. NextTask = 1 + Cardinality(S)
        BY Zenon DEF NextTask
    <2> HIDE DEF S
    <2> QED
        BY <1>2, <1>3, <1>4, <2>1
<1>6. n + 1 \in 0..MaxTasks /\ ~(n + 1 <= n)
    BY <1>2, <1>5 DEF Task
<1> QED
    BY Zenon, <1>1, <1>5, <1>6

\* The task a request inserts, and the record of it: committed, whether or not
\* the request is told.
LEMMA InsertKept ==
    ASSUME IInv, NEW a \in Caller, apc[a] = "inserting", Record(a).task = 0, InsertTask(a),
           UNCHANGED <<artifacts, objects>>, UNCHANGED areq, UNCHANGED svars, UNCHANGED wvars
    PROVE  IInv'
<1> DEFINE s == areq[a].session
           k == areq[a].key
           t == NextTask
           row == NewTask(s, areq[a].kind)
           rec == [task |-> t, body |-> areq[a].body]
<1>1. /\ t \in Task /\ ~OverQuota
      /\ rows' = [rows EXCEPT ![t] = row]
      /\ idem' = [idem EXCEPT ![<<s, k>>] = rec]
      /\ \/ /\ apc' = [apc EXCEPT ![a] = "created"]
            /\ atask' = [atask EXCEPT ![a] = t]
            /\ UNCHANGED faults
         \/ /\ Fault
            /\ apc' = [apc EXCEPT ![a] = "error"]
            /\ UNCHANGED atask
    BY Zenon DEF InsertTask
<1>2. EnvOK' /\ maxRunning' = maxRunning /\ life' = life
    BY Zenon, <1>1, EnvSame
<1>3. areq[a] \in TaskRequest
    BY Zenon DEF IInv, TypeOK
<1>4. s \in Session /\ k \in Key /\ areq[a].body \in Body /\ areq[a].kind \in Kind
    BY Zenon, <1>3 DEF TaskRequest
<1>5. /\ rows[t].status = "none"
      /\ \E n \in 0..MaxTasks : /\ t = n + 1 /\ n + 1 \in 0..MaxTasks
                                /\ \A u \in Task : rows[u].status # "none" <=> u <= n
    BY Zenon, <1>1, NextTaskFree
<1>6. /\ row \in Row /\ row.status = "queued" /\ row.session = s /\ row.token = 0
      /\ row.attempts = 0
    BY <1>4, NewFields
<1> HIDE DEF t, row
<1>7. rows' \in [Task -> Row] /\ rows'[t] = row /\ \A u \in Task \ {t} : rows'[u] = rows[u]
    BY Zenon, <1>1, <1>6 DEF IInv, TypeOK
<1>8. RowsOK'
    <2>1. \A u \in Task : rows[u].status = "running" <=> rows[u].token # 0
        BY Zenon DEF IInv, TypeOK
    <2>2. ASSUME NEW u \in Task PROVE rows'[u].status = "running" <=> rows'[u].token # 0
        <3>1. CASE u = t
            BY Zenon, <1>6, <1>7, <3>1
        <3>2. CASE u # t
            <4>1. rows'[u] = rows[u]
                BY Zenon, <1>7, <3>2
            <4> QED
                BY Zenon, <2>1, <4>1
        <3> QED
            BY Zenon, <3>1, <3>2
    <2> QED
        BY Zenon, <1>7, <2>2 DEF RowsOK
<1>9. CallerOK'
    <2>1. t \in 0..MaxTasks
        BY <1>1, Attempts DEF Task
    <2>2. rec \in [task : 0..MaxTasks, body : Body \cup {"none"}]
        BY Zenon, <1>4, <2>1
    <2>3. idem' \in [Session \X Key -> [task : 0..MaxTasks, body : Body \cup {"none"}]]
        BY Zenon, <1>1, <1>4, <2>2 DEF IInv, TypeOK
    <2>4. apc' \in [Caller -> CallerPc] /\ atask' \in [Caller -> 0..MaxTasks]
        <3>1. "created" \in CallerPc /\ "error" \in CallerPc
            BY Zenon DEF CallerPc, CallerFinal
        <3>2. apc \in [Caller -> CallerPc] /\ atask \in [Caller -> 0..MaxTasks]
            BY Zenon DEF IInv, TypeOK
        <3> QED
            BY Zenon, <1>1, <2>1, <3>1, <3>2
    <2>5. \A b \in Caller : apc'[b] # "idle" => areq'[b] \in TaskRequest
        BY Zenon, <1>1, <1>3 DEF IInv, TypeOK
    <2> QED
        BY Zenon, <2>3, <2>4, <2>5 DEF CallerOK, IInv, TypeOK
<1>10. TypeOK'
    <2>1. StoreOK' /\ StopOK' /\ WorkerOK'
        BY Zenon, TypeParts DEF IInv, StoreOK, StopOK, WorkerOK, wvars
    <2> QED
        BY Zenon, <1>2, <1>8, <1>9, <2>1, TypePartsNext
<1>11. AllKept'
    BY Zenon, <1>2, <1>5, <1>7, WorkersSame DEF wvars
<1>12. Numbered'
    <2>1. PICK n \in 0..MaxTasks : /\ t = n + 1 /\ n + 1 \in 0..MaxTasks
                                   /\ \A u \in Task : rows[u].status # "none" <=> u <= n
        BY Zenon, <1>5
    <2>2. \A u \in Task : rows'[u].status # "none" <=> u <= n + 1
        <3>1. n \in Nat /\ n + 1 <= n + 1
            BY <2>1, Attempts
        <3>2. \A u \in Task : u # t => (u <= n <=> u <= n + 1)
            BY <2>1, <3>1 DEF Task
        <3>3. rows'[t].status # "none"
            BY Zenon, <1>6, <1>7
        <3>4. ASSUME NEW u \in Task \ {t} PROVE rows'[u].status # "none" <=> u <= n + 1
            BY Zenon, <1>7, <2>1, <3>2
        <3> QED
            BY Zenon, <2>1, <3>1, <3>3, <3>4
    <2> QED
        BY Zenon, <2>1, <2>2 DEF Numbered
<1>13. OneRunning'
    BY Zenon, <1>6, <1>7 DEF IInv, RowInv, OneRunning
<1>14. ASSUME NEW u \in Task PROVE RowKept(u)' /\ ResultKept(u)'
    <2>1. RowKept(u) /\ ResultKept(u)
        BY Zenon DEF IInv, RowInv
    <2>2. CASE u = t
        BY Zenon, <1>4, <1>5, <1>6, <1>7, <2>1, <2>2 DEF RowKept, ResultKept
    <2>3. CASE u # t
        BY <1>7, <2>1, <2>3 DEF RowKept, ResultKept
    <2> QED
        BY Zenon, <2>2, <2>3
<1>15. QuotasRespected'
    <2> DEFINE run == RunningIn(rows, 0)
               runNext == RunningIn(rows', 0)
               new == Recent
               newNext == {u \in Task : rows'[u].status # "none" /\ rows'[u].born < Window}
    <2>1. run \in SUBSET Task /\ runNext \in SUBSET run
        BY Zenon, <1>6, <1>7 DEF RunningIn, LiveAt
    <2>2. new \in SUBSET Task /\ newNext \in SUBSET (new \cup {t})
        BY Zenon, <1>7 DEF Recent
    <2>3. /\ ~(Cardinality(new) >= MaxRecent) /\ Cardinality(run) <= maxRunning
          /\ maxRunning \in Nat /\ MaxRecent \in Nat
        BY Zenon, <1>1, Attempts DEF OverQuota, IInv, TypeOK, QuotasRespected
    <2> HIDE DEF run, runNext, new, newNext
    <2>4. /\ Cardinality(runNext) <= Cardinality(run) /\ Cardinality(runNext) \in Nat
          /\ Cardinality(run) \in Nat
        BY Zenon, <2>1, TaskSets
    <2>5. IsFiniteSet(new) /\ Cardinality(new) \in Nat
        BY Zenon, <2>2, TaskSets
    <2>6. \/ Cardinality(new \cup {t}) = Cardinality(new)
          \/ Cardinality(new \cup {t}) = Cardinality(new) + 1
        BY Zenon, <2>5, FS_AddElement
    <2>7. new \cup {t} \in SUBSET Task
        BY Zenon, <1>1, <2>2 DEF t
    <2>8. Cardinality(newNext) <= Cardinality(new \cup {t}) /\ Cardinality(newNext) \in Nat
        BY Zenon, <2>2, <2>7, TaskSets
    <2>9. Cardinality(runNext) <= maxRunning' /\ Cardinality(newNext) <= MaxRecent
        BY <1>2, <2>3, <2>4, <2>5, <2>6, <2>8
    <2> QED
        BY Zenon, <2>9 DEF QuotasRespected, Recent, runNext, newNext
<1>16. AnswerInv'
    <2>1. \A b \in Caller : areq[b].session = s /\ areq[b].key = k =>
                               apc[b] \notin {"created", "existing"}
        BY Zenon DEF IInv, AnswerInv, AnswerKept, Record
    <2>2. /\ \A b \in Caller \ {a} : apc'[b] = apc[b] /\ atask'[b] = atask[b]
          /\ apc'[a] \in {"created", "error"} /\ (apc'[a] = "created" => atask'[a] = t)
        BY Zenon, <1>1 DEF IInv, TypeOK
    <2>3. OneCreator'
        BY <2>1, <2>2 DEF IInv, AnswerInv, OneCreator
    <2>4. idem \in [Session \X Key -> [task : 0..MaxTasks, body : Body \cup {"none"}]]
        BY Zenon DEF IInv, TypeOK
    <2>5. ASSUME NEW b \in Caller, apc'[b] \in {"created", "existing"}
          PROVE  Record(b)'.task = atask'[b] /\ atask'[b] # 0 /\ Record(b)'.body = areq'[b].body
        <3>1. CASE b = a
            <4>1. idem'[<<s, k>>] = rec
                BY Zenon, <1>1, <1>4, <2>4
            <4>2. t # 0
                BY <1>1, Attempts DEF Task
            <4> QED
                BY <2>2, <2>5, <3>1, <4>1, <4>2 DEF Record
        <3>2. CASE b # a
            <4>1. apc[b] \in {"created", "existing"} /\ atask'[b] = atask[b]
                BY Zenon, <2>2, <2>5, <3>2
            <4>2. areq[b] \in TaskRequest
                <5>1. apc[b] # "idle"
                    BY Zenon, <4>1
                <5> QED
                    BY Zenon, <5>1 DEF IInv, TypeOK
            <4>3. areq[b].session \in Session /\ areq[b].key \in Key
                BY Zenon, <4>2 DEF TaskRequest
            <4>4. <<areq[b].session, areq[b].key>> # <<s, k>>
                BY Zenon, <2>1, <4>1
            <4>5. idem'[<<areq[b].session, areq[b].key>>] = idem[<<areq[b].session, areq[b].key>>]
                BY Zenon, <1>1, <1>4, <2>4, <4>3, <4>4
            <4>6. AnswerKept(b)
                BY Zenon DEF IInv, AnswerInv
            <4> QED
                BY Zenon, <4>1, <4>5, <4>6 DEF AnswerKept, Record
        <3> QED
            BY Zenon, <3>1, <3>2
    <2> QED
        BY Zenon, <2>3, <2>5 DEF AnswerInv, AnswerKept
<1> QED
    BY Zenon, <1>10, <1>11, <1>12, <1>13, <1>14, <1>15, <1>16 DEF IInv, RowInv

\* createIdempotent: a replay, a refusal, the quota or a new task.
LEMMA CreateKept ==
    ASSUME IInv, NEW a \in Caller, CreateIdempotent(a)
    PROVE  IInv'
<1>1. /\ apc[a] = "inserting" /\ apc[a] # "idle"
      /\ UNCHANGED <<artifacts, objects>> /\ UNCHANGED areq /\ UNCHANGED svars /\ UNCHANGED wvars
    BY Zenon DEF CreateIdempotent
<1>2. CASE /\ Record(a).task # 0
           /\ apc' = [apc EXCEPT ![a] = Replayed(Record(a), areq[a].body)]
           /\ atask' = [atask EXCEPT ![a] = Record(a).task]
           /\ UNCHANGED <<rows, idem, faults>>
    <2>1. areq[a] \in TaskRequest /\ DOMAIN areq' = Caller
        BY Zenon, <1>1 DEF IInv, TypeOK
    <2>2. Record(a).task \in 0..MaxTasks
        BY Zenon, <2>1 DEF IInv, TypeOK, TaskRequest, Record
    <2>3. /\ Replayed(Record(a), areq[a].body) \in CallerPc
          /\ Replayed(Record(a), areq[a].body) # "created"
          /\ Replayed(Record(a), areq[a].body) = "existing" => Record(a).body = areq[a].body
        BY Zenon, ReplayedType
    <2>4. CallerOK' /\ AnswerInv'
        BY Zenon, <1>1, <1>2, <2>1, <2>2, <2>3, RequestMoves DEF Record
    <2> QED
        BY Zenon, <1>1, <1>2, <2>4, RequestKept
<1>3. CASE /\ apc' = [apc EXCEPT ![a] = "refused"] \/ apc' = [apc EXCEPT ![a] = "quota"]
           /\ UNCHANGED <<rows, idem, atask, faults>>
    BY Zenon, <1>1, <1>3, UnansweredKept
<1>4. CASE Record(a).task = 0 /\ InsertTask(a)
    BY Zenon, <1>1, <1>4, InsertKept
<1> QED
    BY Zenon, <1>2, <1>3, <1>4 DEF CreateIdempotent

-------------------------------------------------------------------------------
(* Sessions, storage and time                                                *)

\* The end of a session, and the outages of the storage.
LEMMA EnvironmentKept ==
    ASSUME IInv, UNCHANGED qvars, UNCHANGED <<life, maxRunning>>, UNCHANGED avars, UNCHANGED wvars,
           EnvOK'
    PROVE  IInv'
<1>1. UNCHANGED <<rows, artifacts, idem, objects>>
    BY Zenon DEF qvars
<1>2. RowsOK' /\ StoreOK' /\ StopOK' /\ WorkerOK'
    BY Zenon, <1>1, TypeParts DEF IInv, RowsOK, StoreOK, StopOK, WorkerOK, wvars
<1>3. AnswerInv' /\ CallerOK'
    BY Zenon, <1>1, AnswersSame
<1>4. TypeOK'
    BY Zenon, <1>2, <1>3, TypePartsNext
<1>5. RowInv' /\ QuotasRespected'
    <2>1. \A t \in Task : artifacts[t] # <<>> => artifacts[t] \in objects'
        BY Zenon, <1>1 DEF IInv, RowInv, ResultKept
    <2> QED
        BY Zenon, <1>1, <1>4, <2>1, RowsSame
<1>6. AllKept'
    BY Zenon, <1>1, WorkersSame DEF wvars
<1> QED
    BY Zenon, <1>3, <1>4, <1>5, <1>6 DEF IInv

\* A tick: leases and deadlines run down together, and the clock of a claim ages
\* as fast as the leases it is compared with.
LEMMA TickKept ==
    ASSUME IInv, Tick
    PROVE  IInv'
<1>1. /\ \A w \in Worker : wpc[w] \in {"claiming", "granted"} => wage[w] < ClaimDelay
      /\ \A w \in Worker : wpc[w] = "found" => wseen[w].age < QueryDelay
      /\ \A w \in Worker : wpc[w] \in {"executing", "uploading"} => wdl[w] > 0
      /\ wseen' = [w \in Worker |-> IF wpc[w] = "found" THEN [wseen[w] EXCEPT !.age = @ + 1]
                                   ELSE wseen[w]]
      /\ rows' = [t \in Task |-> Aged(rows[t])]
      /\ wage' = [w \in Worker |-> IF wpc[w] \in {"claiming", "granted"} THEN wage[w] + 1 ELSE wage[w]]
      /\ wdl' = [w \in Worker |-> IF wdl[w] > 0 THEN wdl[w] - 1 ELSE 0]
      /\ UNCHANGED <<idem, artifacts, objects, storage, active, maxRunning, wpc, hold, wdead, wstop,
                     faults>>
      /\ UNCHANGED avars
    BY Zenon DEF Tick
<1>2. \A t \in Task : rows[t] \in Row /\ rows'[t] = Aged(rows[t])
    BY Zenon, <1>1 DEF IInv, TypeOK
<1>3. ASSUME NEW t \in Task
      PROVE  /\ rows'[t] \in Row /\ rows'[t].status = rows[t].status
             /\ rows'[t].session = rows[t].session /\ rows'[t].kind = rows[t].kind
             /\ rows'[t].attempts = rows[t].attempts /\ rows'[t].version = rows[t].version
             /\ rows'[t].token = rows[t].token /\ rows[t].born <= rows'[t].born
             /\ rows'[t].lease = IF rows[t].status = "running" THEN Sooner(rows[t].lease)
                                 ELSE rows[t].lease
    BY <1>2, AgedFields
<1>4. \A t \in Task : /\ rows[t].lease \in Int /\ rows[t].attempts \in Nat
                      /\ rows[t].born \in Nat /\ rows'[t].born \in Nat
    BY <1>2, <1>3 DEF Row
<1>5. \A t \in Task : /\ rows'[t].lease \in Int /\ rows'[t].lease <= rows[t].lease
                      /\ rows'[t].lease >= rows[t].lease - 1
    BY <1>3, <1>4, Attempts DEF Sooner
<1>6. RowsOK'
    <2>1. rows' \in [Task -> Row]
        BY Zenon, <1>1, <1>3
    <2>2. \A t \in Task : rows[t].status = "running" <=> rows[t].token # 0
        BY Zenon DEF IInv, TypeOK
    <2> QED
        BY Zenon, <1>3, <2>1, <2>2 DEF RowsOK
<1>7. /\ life' \in [Session -> (-QueryDelay)..LongLife]
      /\ \A s \in Session : life[s] \in Int /\ life'[s] \in Int /\ life'[s] >= life[s] - 1
    <2>1. PICK long \in SUBSET {s \in Session : life[s] = LongLife} :
             life' = [s \in Session |-> IF s \in long \/ life[s] = -QueryDelay
                                       THEN life[s] ELSE life[s] - 1]
        BY Zenon DEF Tick
    <2>2. \A s \in Session : life[s] \in (-QueryDelay)..LongLife
        BY Zenon DEF IInv, TypeOK
    <2>3. LongLife \in Nat
        BY Attempts DEF LongLife
    <2>4. \A s \in Session : life'[s] \in (-QueryDelay)..LongLife /\ life'[s] >= life[s] - 1
        BY <2>1, <2>2, <2>3, Attempts
    <2> QED
        BY <2>1, <2>2, <2>3, <2>4, Attempts
<1>8. \A w \in Worker : /\ wage[w] \in 0..ClaimDelay /\ wdl[w] \in 0..ExecutionTimeout
                        /\ wage'[w] \in 0..ClaimDelay /\ wdl'[w] \in 0..ExecutionTimeout
                        /\ wage'[w] = IF wpc[w] \in {"claiming", "granted"} THEN wage[w] + 1
                                      ELSE wage[w]
                        /\ wdl'[w] = IF wdl[w] > 0 THEN wdl[w] - 1 ELSE 0
    <2>1. ASSUME NEW w \in Worker
          PROVE  /\ wage[w] \in 0..ClaimDelay /\ wdl[w] \in 0..ExecutionTimeout
                 /\ wage'[w] = IF wpc[w] \in {"claiming", "granted"} THEN wage[w] + 1 ELSE wage[w]
                 /\ wdl'[w] = IF wdl[w] > 0 THEN wdl[w] - 1 ELSE 0
                 /\ wpc[w] \in {"claiming", "granted"} => wage[w] < ClaimDelay
        BY Zenon, <1>1 DEF IInv, TypeOK
    <2>2. ASSUME NEW w \in Worker
          PROVE  wage'[w] \in 0..ClaimDelay /\ wdl'[w] \in 0..ExecutionTimeout
        BY <2>1, Attempts
    <2> QED
        BY Zenon, <2>1, <2>2
<1>9. TypeOK'
    <2>1. EnvOK'
        BY <1>1, <1>7 DEF EnvOK, IInv, TypeOK
    <2>2. AnswerInv' /\ CallerOK'
        BY Zenon, <1>1, AnswersSame
    <2>3. StoreOK' /\ StopOK'
        BY Zenon, <1>1, TypeParts DEF IInv, StoreOK, StopOK
    <2>4. WorkerOK'
        <3>1. WorkerOK
            BY Zenon, TypeParts DEF IInv
        <3>2. wage' \in [Worker -> 0..ClaimDelay] /\ wdl' \in [Worker -> 0..ExecutionTimeout]
            BY Zenon, <1>1, <1>8
        <3>3. wseen' \in [Worker -> Answers]
            <4>1. ASSUME NEW w \in Worker
                  PROVE  wseen'[w] \in Answers
                <5>1. wseen[w] \in Answers
                    BY Zenon, <3>1 DEF WorkerOK
                <5>2. CASE wpc[w] = "found"
                    <6>1. wseen[w].age < QueryDelay /\ wseen'[w] = [wseen[w] EXCEPT !.age = @ + 1]
                        BY Zenon, <1>1, <5>2
                    <6> QED
                        BY <5>1, <6>1, Attempts DEF Answers
                <5> QED
                    BY Zenon, <1>1, <5>1, <5>2
            <4> QED
                BY Zenon, <1>1, <4>1
        <3>4. \A w \in Worker : wpc'[w] # "found" => wseen'[w] = NoAnswer
            BY Zenon, <1>1, <3>1 DEF WorkerOK
        <3> QED
            BY Zenon, <1>1, <1>8, <3>1, <3>2, <3>3, <3>4 DEF WorkerOK
    <2> QED
        BY Zenon, <1>6, <2>1, <2>2, <2>3, <2>4, TypePartsNext
<1>10. RowFrame /\ RowsSettle
    BY <1>3, <1>4, <1>5 DEF RowFrame, RowsSettle
<1>11. Numbered' /\ OneRunning' /\ QuotasRespected'
    BY Zenon, <1>1, <1>9, <1>10, RowsKept
<1>12. \A t \in Task : RowKept(t)' /\ ResultKept(t)'
    <2>1. \A t \in Task : RowKept(t) /\ ResultKept(t)
        BY Zenon DEF IInv, RowInv
    <2>2. \A t \in Task : RowKept(t)'
        BY Zenon, <1>3, <2>1 DEF RowKept
    <2>3. \A t \in Task : ResultKept(t)'
        BY Zenon, <1>1, <1>3, <2>1 DEF ResultKept
    <2> QED
        BY Zenon, <2>2, <2>3
<1>13. ASSUME NEW v \in Worker PROVE WorkerKept(v)'
    <2>1. WorkerKept(v) /\ (Holding(v)' <=> Holding(v)) /\ Mine(v)' = Mine(v)
          /\ ObjectKey(v)' = ObjectKey(v)
        BY Zenon, <1>1 DEF IInv, AllKept, Holding, Mine, ObjectKey
    <2>2. Holding(v) => Mine(v) \in Task /\ Sess(v) \in Session
        BY Zenon, HeldRow
    <2>3. HoldKept(v)'
        BY Zenon, <1>1, <1>3, <2>1, <2>2 DEF WorkerKept, HoldKept, Mine, Holding
    <2>4. LockKept(v)'
        <3>1. ASSUME NEW t \in wdead[v]
              PROVE  /\ rows'[t].status = "running" /\ rows'[t].lease <= -wage'[v]
                     /\ rows'[t].attempts >= MaxAttempts
            <4>1. t \in Task /\ wpc[v] = "claiming"
                BY Zenon, <3>1 DEF IInv, TypeOK
            <4>2. /\ rows[t].status = "running" /\ rows[t].lease <= -wage[v]
                  /\ rows[t].attempts >= MaxAttempts
                BY Zenon, <2>1 DEF WorkerKept, LockKept
            <4>3. rows'[t].lease = Sooner(rows[t].lease) /\ wage'[v] = wage[v] + 1
                BY Zenon, <1>3, <1>8, <4>1, <4>2
            <4>4. rows'[t].lease <= -wage'[v]
                <5>1. /\ rows[t].lease \in Int /\ wage[v] \in 0..ClaimDelay
                      /\ wage'[v] \in 0..ClaimDelay
                    BY Zenon, <1>4, <1>8, <4>1
                <5> QED
                    BY <4>2, <4>3, <5>1, Attempts DEF Sooner
            <4>5. rows'[t].status = rows[t].status /\ rows'[t].attempts = rows[t].attempts
                BY Zenon, <1>3, <4>1
            <4> QED
                BY Zenon, <4>2, <4>4, <4>5
        <3> QED
            BY Zenon, <1>1, <2>1, <3>1 DEF WorkerKept, LockKept
    <2>5. CoverKept(v)'
        <3>1. ASSUME wpc[v] = "granted"
              PROVE  Owns(v)' /\ rows'[Mine(v)].lease + wage'[v] >= LeaseTTL
            <4>1. Owns(v) /\ rows[Mine(v)].lease + wage[v] >= LeaseTTL /\ Mine(v) \in Task
                BY Zenon, <2>1, <2>2, <3>1 DEF WorkerKept, CoverKept, Holding
            <4>2. rows'[Mine(v)].lease + wage'[v] >= LeaseTTL
                BY <1>4, <1>5, <1>8, <3>1, <4>1, Attempts
            <4> QED
                BY Zenon, <1>1, <1>3, <4>1, <4>2 DEF Owns, Mine
        <3>2. ASSUME wpc[v] \in {"starting", "found", "executing"}, wdl[v] > 0
              PROVE  Owns(v)' /\ wdl'[v] < rows'[Mine(v)].lease
            <4>1. Owns(v) /\ wdl[v] < rows[Mine(v)].lease /\ Mine(v) \in Task
                BY Zenon, <2>1, <2>2, <3>2 DEF WorkerKept, CoverKept, Holding
            <4>2. wdl'[v] < rows'[Mine(v)].lease
                <5>1. /\ rows[Mine(v)].lease \in Int /\ rows'[Mine(v)].lease \in Int
                      /\ rows'[Mine(v)].lease >= rows[Mine(v)].lease - 1
                    BY Zenon, <1>4, <1>5, <4>1
                <5>2. wdl[v] \in 0..ExecutionTimeout /\ wdl'[v] = IF wdl[v] > 0 THEN wdl[v] - 1 ELSE 0
                    BY Zenon, <1>8
                <5> QED
                    BY <3>2, <4>1, <5>1, <5>2, Attempts
            <4> QED
                BY Zenon, <1>1, <1>3, <4>1, <4>2 DEF Owns, Mine
        <3>3. ASSUME wpc[v] = "executing"
              PROVE  wdl[v] > 0 /\ wdl'[v] <= life'[Sess(v)'] + QueryDelay
            <4>1. /\ wdl[v] > 0 /\ wdl[v] <= life[Sess(v)] + QueryDelay
                  /\ Sess(v) \in Session /\ Mine(v) \in Task
                BY Zenon, <1>1, <2>1, <2>2, <3>3 DEF WorkerKept, CoverKept, Holding
            <4>2. Sess(v)' = Sess(v)
                BY Zenon, <1>1, <1>3, <4>1 DEF Sess, Mine
            <4> QED
                BY <1>7, <1>8, <4>1, <4>2, Attempts
        <3>5. ASSUME wpc[v] = "found", wseen'[v].life > 0
              PROVE  wseen'[v].life <= life'[Sess(v)'] + wseen'[v].age
            <4>1. Sess(v) \in Session /\ Mine(v) \in Task
                BY Zenon, <2>2, <3>5 DEF Holding
            <4>2. Sess(v)' = Sess(v)
                BY Zenon, <1>1, <1>3, <4>1 DEF Sess, Mine
            <4>3. wseen[v] \in Answers /\ wseen'[v] = [wseen[v] EXCEPT !.age = @ + 1]
                BY Zenon, <1>1, <3>5 DEF IInv, TypeOK
            <4>4. /\ wseen'[v].life = wseen[v].life /\ wseen'[v].age = wseen[v].age + 1
                  /\ wseen[v].life \in Int /\ wseen[v].age \in Int
                BY <4>3 DEF Answers
            <4>5. wseen[v].life <= life[Sess(v)] + wseen[v].age
                BY Zenon, <2>1, <3>5, <4>4 DEF WorkerKept, CoverKept
            <4> QED
                BY <1>7, <4>1, <4>2, <4>4, <4>5
        <3>4. wdl'[v] > 0 => wdl[v] > 0
            BY <1>8
        <3> QED
            BY Zenon, <1>1, <2>1, <3>1, <3>2, <3>3, <3>4, <3>5 DEF CoverKept
    <2>6. ObjectKept(v)'
        <3>1. ObjectKept(v) /\ (wpc[v] = "completing" => Holding(v))
            BY Zenon, <2>1 DEF WorkerKept, Holding
        <3>2. Holding(v) => rows'[Mine(v)].kind = rows[Mine(v)].kind
            BY Zenon, <1>3, <2>2
        <3> QED
            BY Zenon, <1>1, <2>1, <3>1, <3>2 DEF ObjectKept
    <2> QED
        BY Zenon, <2>3, <2>4, <2>5, <2>6 DEF WorkerKept
<1>14. AnswerInv'
    BY Zenon, <1>1, AnswersSame
<1> QED
    BY Zenon, <1>9, <1>11, <1>12, <1>13, <1>14 DEF IInv, RowInv, AllKept

-------------------------------------------------------------------------------
(* The invariant                                                             *)

\* Before the first request the invariant holds.
LEMMA InitKept == Init => IInv
<1> SUFFICES ASSUME Init PROVE IInv
    BY Zenon
<1>1. NoTask \in Row /\ NoTask.status = "none" /\ NoTask.token = 0 /\ NoTask.attempts = 0
    BY Attempts DEF NoTask, Row, TaskStatus
<1>2. \A t \in Task : rows[t] = NoTask /\ artifacts[t] = <<>>
    BY Zenon DEF Init
<1>3. RowsOK
    BY Zenon, <1>1, <1>2 DEF Init, RowsOK
<1>4. StoreOK /\ StopOK
    BY Zenon DEF Init, StoreOK, StopOK
<1>5. EnvOK
    BY Attempts DEF Init, EnvOK, LongLife
<1>6. CallerOK
    BY Attempts DEF Init, CallerOK, CallerPc
<1>7. WorkerOK
    BY Attempts, NoAnswerType DEF Init, WorkerOK, WorkerPc, Claims, NoHold
<1>8. TypeOK
    BY <1>3, <1>4, <1>5, <1>6, <1>7, TypeParts
<1>9. RowInv
    <2>1. Numbered
        <3>1. \A t \in Task : ~(t <= 0)
            BY Attempts DEF Task
        <3>2. 0 \in 0..MaxTasks
            BY Attempts
        <3> QED
            BY Zenon, <1>1, <1>2, <3>1, <3>2 DEF Numbered
    <2> QED
        BY Zenon, <1>1, <1>2, <2>1 DEF RowInv, OneRunning, RowKept, ResultKept
<1>10. AllKept
    BY Zenon DEF Init, AllKept, WorkerKept, HoldKept, LockKept, CoverKept, ObjectKept, Holding
<1>11. AnswerInv
    BY Zenon DEF Init, AnswerInv, OneCreator, AnswerKept
<1>12. QuotasRespected
    <2>1. RunningIn(rows, 0) = {} /\ Recent = {}
        BY Zenon, <1>1, <1>2 DEF RunningIn, LiveAt, Recent
    <2>2. Cardinality({}) = 0
        BY Zenon, FS_EmptySet
    <2> QED
        <3>1. maxRunning \in Nat /\ MaxRecent \in Nat
            BY Zenon, <1>8, Attempts DEF TypeOK
        <3> QED
            BY <2>1, <2>2, <3>1 DEF QuotasRespected
<1> QED
    BY Zenon, <1>8, <1>9, <1>10, <1>11, <1>12 DEF IInv

\* Every step keeps the invariant.
LEMMA StepKept == IInv /\ [Next]_vars => IInv'
<1> SUFFICES ASSUME IInv, [Next]_vars PROVE IInv'
    BY Zenon
<1>1. ASSUME NEW a \in Caller, CallerStep(a) PROVE IInv'
    <2>1. CASE Submit(a)
        BY Zenon, <2>1, SubmitKept
    <2>2. CASE CheckSession(a)
        BY Zenon, <2>2, UnansweredKept DEF CheckSession, qvars
    <2>3. CASE CreateIdempotent(a)
        BY <2>3, CreateKept
    <2>4. CASE CreateThrows(a)
        BY Zenon, <2>4, UnansweredKept DEF CreateThrows, qvars
    <2> QED
        BY Zenon, <1>1, <2>1, <2>2, <2>3, <2>4 DEF CallerStep
<1>2. ASSUME NEW w \in Worker, Claim(w) \/ Attempt(w) PROVE IInv'
    BY <1>2, ClaimStartKept, ClaimFinishKept, ReceiveKept, FindSessionKept, StartKept,
       ExecuteKept, UploadKept,
       CompleteKept, DeleteKept, HandleFailureKept DEF Claim, Attempt
<1>3. ASSUME NEW w \in Worker, Shutdown(w) \/ Crash(w) \/ Drained(w) \/ Restart(w) PROVE IInv'
    <2>1. CASE Crash(w) \/ Drained(w)
        BY Zenon, <2>1, ExitKept DEF Crash, Drained
    <2> QED
        BY <1>3, <2>1, ShutdownKept, RestartKept
<1>4. ASSUME NEW s \in Session, EndSession(s) PROVE IInv'
    <2>1. EnvOK'
        BY Zenon, <1>4 DEF EndSession, EnvOK, IInv, TypeOK
    <2> QED
        BY <1>4, <2>1, EnvironmentKept DEF EndSession
<1>5. ASSUME StorageDown \/ StorageUp PROVE IInv'
    <2>1. EnvOK'
        <3>1. EnvOK
            BY Zenon, TypeParts DEF IInv
        <3>2. /\ (Fault /\ storage' = "down") \/ (storage' = "up" /\ UNCHANGED faults)
              /\ UNCHANGED <<active, life, maxRunning>>
            BY Zenon, <1>5 DEF StorageDown, StorageUp
        <3> QED
            BY <3>1, <3>2, Attempts DEF Fault, EnvOK
    <2> QED
        BY Zenon, <1>5, <2>1, EnvironmentKept DEF StorageDown, StorageUp
<1>6. CASE UNCHANGED vars
    <2>1. EnvOK'
        BY Zenon, <1>6 DEF vars, svars, EnvOK, IInv, TypeOK
    <2> QED
        BY Zenon, <1>6, <2>1, EnvironmentKept DEF vars, svars
<1> QED
    BY <1>1, <1>2, <1>3, <1>4, <1>5, <1>6, TickKept DEF Next

\* The inductive invariant of the queue holds throughout.
THEOREM Invariant == Spec => []IInv
BY InitKept, StepKept, PTL DEF Spec

-------------------------------------------------------------------------------
(* What the invariant says                                                   *)

\* #execute: a worker drives the browser while it owns the row, under the lease,
\* and at most one query's answer longer than the session lives, for every latency
\* of findExecutionSession that the pool's query_timeout allows.
THEOREM ExecutionIsCovered == Spec => []ExecutionCovered
<1>1. IInv => ExecutionCovered
    BY Zenon DEF IInv, AllKept, WorkerKept, CoverKept, ExecutionCovered
<1> QED
    BY <1>1, Invariant, PTL

\* claimNext and its unique index: no two workers drive one session's browser.
THEOREM SingleBrowserUser == Spec => []OneBrowserUser
<1>1. IInv => OneBrowserUser
    <2> SUFFICES ASSUME IInv, NEW v \in Worker, NEW w \in Worker, v # w, wpc[v] = "executing",
                        wpc[w] = "executing", Sess(v) = Sess(w)
                 PROVE  FALSE
        BY Zenon DEF OneBrowserUser
    <2>1. /\ Holding(v) /\ Owns(v) /\ Mine(v) \in Task /\ rows[Mine(v)].status = "running"
          /\ Holding(w) /\ Owns(w) /\ Mine(w) \in Task /\ rows[Mine(w)].status = "running"
        BY Zenon, Covered DEF IInv
    <2>2. Mine(v) = Mine(w)
        BY Zenon, <2>1 DEF IInv, RowInv, OneRunning, Sess
    <2> QED
        BY Zenon, <2>1, <2>2, OwnersApart DEF IInv
<1> QED
    BY <1>1, Invariant, PTL

\* claimNext and createIdempotent keep the tenant's quotas.
THEOREM QuotasAreRespected == Spec => []QuotasRespected
<1>1. IInv => QuotasRespected
    BY Zenon DEF IInv
<1> QED
    BY <1>1, Invariant, PTL

\* insertArtifactAndComplete and the deletion by the loser: the artifact of a
\* succeeded task is in the storage.
THEOREM ArtifactIsStored == Spec => []ArtifactStored
<1>1. IInv => ArtifactStored
    BY Zenon DEF IInv, RowInv, ResultKept, ArtifactStored, Download
<1> QED
    BY <1>1, Invariant, PTL

\* createIdempotent: requests with one key agree on the task and the body, and one
\* of them at most created it.
THEOREM AnswersDoAgree == Spec => []AnswersAgree
<1>1. IInv => AnswersAgree
    <2> SUFFICES ASSUME IInv, NEW a \in Caller, NEW b \in Caller,
                        apc[a] \in {"created", "existing"}, apc[b] \in {"created", "existing"},
                        areq[a].session = areq[b].session, areq[a].key = areq[b].key
                 PROVE  /\ atask[a] = atask[b] /\ areq[a].body = areq[b].body
                        /\ a # b => ~(apc[a] = "created" /\ apc[b] = "created")
        BY Zenon DEF AnswersAgree
    <2>1. AnswerKept(a) /\ AnswerKept(b) /\ OneCreator
        BY Zenon DEF IInv, AnswerInv
    <2>2. Record(a) = Record(b)
        BY Zenon DEF Record
    <2> QED
        BY Zenon, <2>1, <2>2 DEF AnswerKept, OneCreator
<1> QED
    BY <1>1, Invariant, PTL

-------------------------------------------------------------------------------
(* What a step may do to a row under lease                                   *)

\* Steps other than the writes of a worker leave the version of a row, unless
\* they insert it.
LEMMA VersionSame ==
    ASSUME IInv, \/ \E a \in Caller : CallerStep(a)
                 \/ \E s \in Session : EndSession(s)
                 \/ StorageDown \/ StorageUp \/ Tick \/ UNCHANGED vars,
           NEW t \in Task, rows[t].status = "running"
    PROVE  rows'[t].version = rows[t].version
<1>1. CASE \E a \in Caller : CallerStep(a)
    <2>1. PICK a \in Caller : CallerStep(a)
        BY Zenon, <1>1
    <2>2. CASE rows' = rows
        BY Zenon, <2>2
    <2>3. CASE InsertTask(a)
        <3>1. NextTask \in Task /\ rows' = [rows EXCEPT ![NextTask] = NewTask(areq[a].session, areq[a].kind)]
            BY Zenon, <2>3 DEF InsertTask
        <3>2. NextTask # t
            BY Zenon, <3>1, NextTaskFree
        <3>3. rows \in [Task -> Row]
            BY Zenon DEF IInv, TypeOK
        <3> QED
            BY Zenon, <3>1, <3>2, <3>3
    <2> QED
        BY Zenon, <2>1, <2>2, <2>3 DEF CallerStep, Submit, CheckSession, CreateIdempotent, CreateThrows, qvars
<1>2. CASE Tick
    <2>1. rows[t] \in Row /\ rows'[t] = Aged(rows[t])
        BY Zenon, <1>2 DEF IInv, TypeOK, Tick
    <2> QED
        BY Zenon, <2>1, AgedFields
<1> QED
    BY Zenon, <1>1, <1>2 DEF EndSession, StorageDown, StorageUp, vars, qvars

\* applyTaskTransition with its version and token checks: while a lease runs, its
\* owner alone moves the row.
THEOREM OwnerAloneDecides == Spec => OwnerDecides
<1>1. ASSUME IInv, [Next]_vars, NEW t \in Task, rows[t].status = "running", rows[t].lease > 0,
             rows'[t].version # rows[t].version
      PROVE  \E w \in Worker : /\ Mine(w) = t
                               /\ hold[w].attempts = rows[t].attempts
                               /\ wpc[w] \in {"completing", "failRetry", "failFatal"}
                               /\ wpc'[w] # wpc[w]
    <2>1. PICK w \in Worker : Claim(w) \/ Attempt(w) \/ Shutdown(w) \/ Crash(w) \/ Drained(w) \/ Restart(w)
        BY Zenon, <1>1, VersionSame DEF Next
    <2>2. LeaseFrame(w)
        <3>1. CASE rows' = rows
            BY Zenon, <1>1, <3>1, SameFrames
        <3>2. CASE ClaimStart(w) \/ ClaimFinish(w) \/ Complete(w) \/ HandleFailure(w)
            BY Zenon, <1>1, <3>2, ClaimStartKept, ClaimFinishKept, CompleteKept, HandleFailureKept
        <3> QED
            BY Zenon, <2>1, <3>1, <3>2 DEF Claim, Attempt, Receive, FindSession, Start, Execute, Upload, Delete, Move,
               Shutdown, Crash, Drained, Restart, qvars
    <2>3. Mine(w) = t /\ Owns(w) /\ wpc[w] \in {"completing", "failRetry", "failFatal"} /\ wpc'[w] # wpc[w]
        BY Zenon, <1>1, <2>2 DEF LeaseFrame
    <2>4. hold[w].attempts = rows[t].attempts
        BY Zenon, <1>1, <2>3 DEF Owns, IInv, TypeOK, RowInv, RowKept
    <2> QED
        BY Zenon, <2>3, <2>4
<1>2. IInv /\ [Next]_vars =>
        [\A t \in Task :
           rows[t].status = "running" /\ rows[t].lease > 0 /\ rows'[t].version # rows[t].version
           => \E w \in Worker : /\ Mine(w) = t
                                /\ hold[w].attempts = rows[t].attempts
                                /\ wpc[w] \in {"completing", "failRetry", "failFatal"}
                                /\ wpc'[w] # wpc[w]]_vars
    BY Zenon, <1>1
<1> QED
    BY <1>2, Invariant, PTL DEF Spec, OwnerDecides

-------------------------------------------------------------------------------
(* The refinement of TaskPromise                                             *)

PromiseStep == [Promise!Next]_<<Verdict, artifacts, objects>>

\* Steps that give no verdict but failure are steps of GiveUp, or none at all.
LEMMA GiveUpStep ==
    ASSUME RowsGiveUp, UNCHANGED <<artifacts, objects>>
    PROVE  PromiseStep
<1>1. \A t \in Task : Verdict'[t] # Verdict[t] => Verdict[t] = "pending" /\ Verdict'[t] = "failed"
    BY Zenon DEF Verdict, RowsGiveUp
<1>2. CASE Verdict' # Verdict
    <2>1. Promise!GiveUp
        BY Zenon, <1>1, <1>2 DEF Promise!GiveUp
    <2> QED
        BY Zenon, <2>1 DEF PromiseStep, Promise!Next
<1>3. CASE Verdict' = Verdict
    BY Zenon, <1>3 DEF PromiseStep
<1> QED
    BY Zenon, <1>2, <1>3

\* The verdicts while no row is written.
LEMMA SameVerdict ==
    ASSUME rows' = rows
    PROVE  Verdict' = Verdict /\ RowsGiveUp
BY Zenon DEF Verdict, RowsGiveUp

\* createIdempotent accepts a task.
LEMMA AcceptStep ==
    ASSUME IInv, NEW a \in Caller, apc[a] = "inserting", InsertTask(a),
           UNCHANGED <<artifacts, objects>>
    PROVE  PromiseStep
<1> DEFINE t == NextTask
           row == NewTask(areq[a].session, areq[a].kind)
<1>1. t \in Task /\ rows' = [rows EXCEPT ![t] = row]
    BY Zenon DEF InsertTask
<1>2. rows[t].status = "none"
    BY Zenon, <1>1, NextTaskFree
<1>3. row.status = "queued"
    <2>1. areq[a].session \in Session /\ areq[a].kind \in Kind
        BY Zenon DEF IInv, TypeOK, TaskRequest
    <2> QED
        BY Zenon, <2>1, NewFields
<1>4. rows \in [Task -> Row]
    BY Zenon DEF IInv, TypeOK
<1> HIDE DEF t, row
<1>5. \A u \in Task \ {t} : rows'[u] = rows[u]
    BY Zenon, <1>1, <1>4
<1>6. rows'[t] = row
    BY Zenon, <1>1, <1>4
<1>7. Verdict[t] = "none" /\ Verdict' = [Verdict EXCEPT ![t] = "pending"]
    BY Zenon, <1>1, <1>2, <1>3, <1>5, <1>6 DEF Verdict
<1>8. Promise!Accept(t)
    BY Zenon, <1>7 DEF Promise!Accept
<1> QED
    BY Zenon, <1>1, <1>8 DEF PromiseStep, Promise!Next

\* The commit of an attempt is the one success of its task, with the attempt's
\* object or with none.
LEMMA SucceedStep ==
    ASSUME IInv, NEW w \in Worker, wpc[w] = "completing", Owns(w), Commit(w), UNCHANGED objects
    PROVE  PromiseStep
<1> DEFINE t == Mine(w)
           row == TaskApply(rows[t], "succeed", 0)
<1>1. Holding(w)
    BY Zenon DEF Holding
<1>2. t \in Task /\ hold[w].attempts \in 1..MaxAttempts
    BY Zenon, <1>1, HeldRow
<1>3. rows[t].status = "running"
    BY Zenon, <1>1, OwnedRuns
<1>4. rows \in [Task -> Row] /\ rows[t] \in Row
    BY Zenon, <1>2 DEF IInv, TypeOK
<1>5. row.status = "succeeded"
    <2>1. "succeed" \in {"succeed", "fail", "schedule_retry"} /\ 0 \in Nat
        BY Zenon
    <2> HIDE DEF t
    <2> QED
        BY Zenon, <1>4, <2>1, EndFields
<1>6. rows' = [rows EXCEPT ![t] = row]
    BY Zenon DEF Commit
<1> HIDE DEF row
<1>7. rows'[t] = row /\ \A u \in Task \ {t} : rows'[u] = rows[u]
    BY Zenon, <1>2, <1>4, <1>6
<1>8. Verdict[t] = "pending" /\ Verdict' = [Verdict EXCEPT ![t] = "succeeded"]
    BY Zenon, <1>2, <1>3, <1>5, <1>7 DEF Verdict
<1>9. \E o \in objects \cup {<<>>} : artifacts' = [artifacts EXCEPT ![t] = o]
    <2>1. CASE rows[t].kind = "artifact"
        <3>1. ObjectKey(w) \in objects
            BY Zenon, <2>1 DEF IInv, AllKept, WorkerKept, ObjectKept
        <3> QED
            BY Zenon, <2>1, <3>1 DEF Commit
    <2>2. CASE rows[t].kind # "artifact"
        <3>1. artifacts[t] = <<>>
            BY Zenon, <1>2, <1>3 DEF IInv, RowInv, ResultKept
        <3>2. artifacts \in [Task -> {<<>>} \cup (Task \X (1..MaxAttempts))]
            BY Zenon DEF IInv, TypeOK
        <3>3. artifacts' = artifacts
            BY Zenon, <2>2 DEF Commit
        <3>4. artifacts = [artifacts EXCEPT ![t] = <<>>]
            BY Zenon, <1>2, <3>1, <3>2
        <3> QED
            BY Zenon, <3>3, <3>4
    <2> QED
        BY Zenon, <2>1, <2>2
<1>10. Promise!Succeed(t)
    BY Zenon, <1>8, <1>9 DEF Promise!Succeed
<1> QED
    BY Zenon, <1>2, <1>10 DEF PromiseStep, Promise!Next

\* Uploads store the object of the attempt.
LEMMA StoreStep ==
    ASSUME IInv, NEW w \in Worker, Upload(w)
    PROVE  PromiseStep
<1>1. ObjectKey(w) \in Task \X (1..MaxAttempts)
    BY Zenon, HeldRow DEF Upload, Holding
<1>2. Verdict' = Verdict /\ artifacts' = artifacts
    BY Zenon, SameVerdict DEF Upload
<1>3. CASE objects' = objects \cup {ObjectKey(w)}
    <2>1. Promise!Store(ObjectKey(w))
        BY Zenon, <1>2, <1>3 DEF Promise!Store
    <2> QED
        BY Zenon, <1>1, <2>1 DEF PromiseStep, Promise!Next
<1>4. CASE objects' = objects
    BY Zenon, <1>2, <1>4 DEF PromiseStep
<1> QED
    BY Zenon, <1>3, <1>4 DEF Upload

\* The loser's deletion removes an object that no result names.
LEMMA DiscardStep ==
    ASSUME IInv, NEW w \in Worker, Delete(w)
    PROVE  PromiseStep
<1>1. Holding(w) /\ wpc[w] = "deleting"
    BY Zenon DEF Delete, Holding
<1>2. ObjectKey(w) \in Task \X (1..MaxAttempts) /\ ObjectKey(w) # <<>>
    BY Zenon, <1>1, HeldRow
<1>3. Verdict' = Verdict /\ artifacts' = artifacts
    BY Zenon, SameVerdict DEF Delete
<1>4. ASSUME NEW t \in Task PROVE artifacts[t] # ObjectKey(w)
    <2>1. artifacts[Mine(w)] # ObjectKey(w)
        BY Zenon, <1>1 DEF IInv, AllKept, WorkerKept, ObjectKept
    <2>2. artifacts[t] # <<>> => \E n \in 1..MaxAttempts : artifacts[t] = <<t, n>>
        BY Zenon DEF IInv, RowInv, ResultKept
    <2>3. ASSUME NEW n \in 1..MaxAttempts, artifacts[t] = <<t, n>>
          PROVE  artifacts[t] # ObjectKey(w)
        BY <2>1, <2>3 DEF ObjectKey
    <2> QED
        BY Zenon, <1>2, <2>2, <2>3
<1>5. CASE objects' = objects \ {ObjectKey(w)}
    <2>1. Promise!Discard(ObjectKey(w))
        BY Zenon, <1>3, <1>4, <1>5 DEF Promise!Discard
    <2> QED
        BY Zenon, <1>2, <2>1 DEF PromiseStep, Promise!Next
<1>6. CASE objects' = objects
    BY <1>3, <1>6 DEF PromiseStep
<1> QED
    BY Zenon, <1>5, <1>6 DEF Delete

\* Every step of the queue, the workers and the storage is a step of TaskPromise
\* or leaves it alone.
LEMMA PromiseSteps == IInv /\ [Next]_vars => PromiseStep
<1> SUFFICES ASSUME IInv, [Next]_vars PROVE PromiseStep
    BY Zenon
<1>1. CASE UNCHANGED <<rows, artifacts, objects>>
    BY Zenon, <1>1, SameVerdict, GiveUpStep
<1>2. ASSUME NEW a \in Caller, CallerStep(a), ~UNCHANGED <<rows, artifacts, objects>>
      PROVE  PromiseStep
    <2>1. apc[a] = "inserting" /\ InsertTask(a) /\ UNCHANGED <<artifacts, objects>>
        BY Zenon, <1>2 DEF CallerStep, Submit, CheckSession, CreateIdempotent, CreateThrows, qvars
    <2> QED
        BY Zenon, <2>1, AcceptStep
<1>3. ASSUME NEW w \in Worker, Claim(w) \/ Attempt(w), ~UNCHANGED <<rows, artifacts, objects>>
      PROVE  PromiseStep
    <2>1. CASE ClaimStart(w) \/ ClaimFinish(w) \/ HandleFailure(w)
        <3>1. RowsGiveUp
            BY Zenon, <2>1, ClaimStartKept, ClaimFinishKept, HandleFailureKept
        <3>2. UNCHANGED <<artifacts, objects>>
            BY Zenon, <2>1 DEF ClaimStart, ClaimFinish, HandleFailure
        <3> QED
            BY Zenon, <3>1, <3>2, GiveUpStep
    <2>2. CASE Complete(w)
        <3>1. wpc[w] = "completing" /\ Owns(w) /\ Commit(w) /\ UNCHANGED objects
            BY Zenon, <1>3, <2>2 DEF Complete
        <3> QED
            BY Zenon, <3>1, SucceedStep
    <2>3. CASE Upload(w)
        BY Zenon, <2>3, StoreStep
    <2>4. CASE Delete(w)
        BY Zenon, <2>4, DiscardStep
    <2> QED
        BY Zenon, <1>3, <2>1, <2>2, <2>3, <2>4 DEF Claim, Attempt, Receive, FindSession, Start, Execute, Move, qvars
<1>4. CASE Tick
    <2>1. \A t \in Task : rows[t] \in Row /\ rows'[t] = Aged(rows[t])
        BY Zenon, <1>4 DEF IInv, TypeOK, Tick
    <2>2. \A t \in Task : rows'[t].status = rows[t].status
        BY Zenon, <2>1, AgedFields
    <2>3. RowsGiveUp /\ UNCHANGED <<artifacts, objects>>
        BY Zenon, <1>4, <2>2 DEF RowsGiveUp, Tick
    <2> QED
        BY Zenon, <2>3, GiveUpStep
<1> QED
    BY Zenon, <1>1, <1>2, <1>3, <1>4 DEF Next, Shutdown, Crash, Drained, Restart, EndSession, StorageDown,
       StorageUp, vars, qvars

\* Workers, queue and storage keep the promise: one final verdict per task, and the
\* object of a result stored before it and for good.
THEOREM PromiseIsKept == Spec => PromiseKept
<1>1. Init => Promise!Init
    <2> SUFFICES ASSUME Init PROVE Promise!Init
        OBVIOUS
    <2>1. \A t \in Task : rows[t].status = "none"
        BY Zenon DEF Init, NoTask
    <2>2. Verdict = [t \in Task |-> "none"]
        BY Zenon, <2>1 DEF Verdict
    <2> QED
        BY Zenon, <2>2 DEF Init, Promise!Init
<1> QED
    BY <1>1, PromiseSteps, Invariant, PTL DEF Spec, PromiseKept, Promise!Spec, PromiseStep
===============================================================================
