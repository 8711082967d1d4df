----------------------------- MODULE Migrations -----------------------------
(***************************************************************************)
(* The migration job of apps/api/src/database/migrate.ts.  Several runs of *)
(* the job, of one release or of several, share a database.  A run holds a *)
(* PostgreSQL advisory lock on a dedicated connection; ordinary migrations *)
(* are transactions on other connections of the pool, online indexes are   *)
(* built on the dedicated one.  Processes crash, connections break with or *)
(* without the process noticing, and statements fail or lose their answer. *)
(*                                                                         *)
(* A migration is a number, its position in the order of file names; its   *)
(* content is a version, standing for text and checksum.                   *)
(***************************************************************************)
EXTENDS Naturals, Sequences

CONSTANTS
  Run,          \* executions of the job
  Directory,    \* Directory[r]: the content of each migration file of run r
  OnlineIndex,  \* the migrations that build an index concurrently
  MaxFaults     \* bound on crashes, broken connections and failed statements

VARIABLES
  ledger,   \* surfgate_migrations: the checksum of each applied migration
  schema,   \* what each migration left in the database
  lock,     \* the run whose dedicated connection holds the advisory lock
  pc,       \* where the process of each run is
  pos,      \* its position in the list of files
  conn,     \* whether its dedicated connection still exists
  stmt,     \* the statement the database executes for it
  outcome,  \* how it ended
  clean,    \* history: no fault has touched the run's time
  faults

vars == <<ledger, schema, lock, pc, pos, conn, stmt, outcome, clean, faults>>

None == "none"
Name == UNION {DOMAIN Directory[r] : r \in Run}
Version == UNION {{Directory[r][n] : n \in DOMAIN Directory[r]} : r \in Run}

ASSUME DirectoryAssumption ==
  \A r \in Run : /\ Len(Directory[r]) \in Nat \ {0}
                 /\ DOMAIN Directory[r] = 1..Len(Directory[r])

ASSUME MigrationsAssumption ==
  /\ Version \cap {None, "manual", "invalid"} = {}
  /\ None \notin Run
  /\ MaxFaults \in Nat

\* The statements sent on the dedicated connection; "commit" is not.
LockStatements == {"drop", "create", "insert"}

\* Mutant: the files are taken as the directory lists them.
FilenamesUnsorted ==
  [r \in Run |-> CHOOSE names \in [DOMAIN Directory[r] -> DOMAIN Directory[r]] :
                   \A i, j \in DOMAIN Directory[r] : i < j => names[i] > names[j]]

(* readdir and sort: each run's files in increasing order.                 *)
Filenames ==
  [r \in Run |-> CHOOSE names \in [DOMAIN Directory[r] -> DOMAIN Directory[r]] :
                   \A i, j \in DOMAIN Directory[r] : i < j => names[i] < names[j]]

Current(r) == Filenames[r][pos[r]]
Content(r) == Directory[r][Current(r)]

Alive(r) == pc[r] \notin {"idle", "ended", "crashed"}

(* Something outside its own lock still acts for a run: a process that has *)
(* lost the lock, or a transaction whose process is gone.                  *)
Lingering ==
  \E r \in Run : \/ Alive(r) /\ ~conn[r]
                 \/ pc[r] = "crashed" /\ stmt[r] = "commit"

Init ==
  /\ ledger = [n \in Name |-> None]
  /\ schema \in [Name -> {None, "manual"}]
  /\ \A n \in Name \ OnlineIndex : schema[n] = None
  /\ lock = None
  /\ pc = [r \in Run |-> "idle"]
  /\ pos = [r \in Run |-> 1]
  /\ conn = [r \in Run |-> TRUE]
  /\ stmt = [r \in Run |-> None]
  /\ outcome = [r \in Run |-> None]
  /\ clean = [r \in Run |-> TRUE]
  /\ faults = 0

(***************************************************************************)
(* The process: begin and end                                              *)
(***************************************************************************)
Database == <<ledger, schema, lock>>
Fixed == <<conn, clean, faults>>

Goto(r, label) == pc' = [pc EXCEPT ![r] = label]

(* The loop is left for the finally block, by an error or at its end.      *)
Leave(r, why) ==
  /\ Goto(r, "unlock")
  /\ outcome' = [outcome EXCEPT ![r] = why]
  /\ UNCHANGED pos

NextFile(r) ==
  /\ Goto(r, "file")
  /\ pos' = [pos EXCEPT ![r] = @ + 1]
  /\ UNCHANGED outcome

Start(r) ==
  /\ pc[r] = "idle"
  /\ Goto(r, "locking")
  /\ clean' = [clean EXCEPT ![r] = ~Lingering]
  /\ UNCHANGED <<Database, pos, conn, stmt, outcome, faults>>

AcquireMigrationLock(r) ==
  /\ pc[r] = "locking"
  /\ \/ /\ conn[r] /\ lock = None
        /\ lock' = r
        /\ Goto(r, "ledger")
        /\ UNCHANGED outcome
     \/ /\ conn[r] => lock # None
        /\ Goto(r, "ended")
        /\ outcome' = [outcome EXCEPT ![r] = IF conn[r] THEN "timeout" ELSE "error"]
        /\ UNCHANGED lock
  /\ UNCHANGED <<ledger, schema, pos, stmt, Fixed>>

(* A missing ledger table and an empty one are the same here.              *)
EnsureLedger(r) ==
  /\ pc[r] = "ledger"
  /\ Goto(r, "file")
  /\ UNCHANGED <<Database, pos, stmt, outcome, Fixed>>

Finish(r) ==
  /\ pc[r] = "file" /\ pos[r] > Len(Filenames[r])
  /\ Leave(r, "done")
  /\ UNCHANGED <<Database, stmt, Fixed>>

(* The unlock fails on a broken connection, and with it the run.           *)
Unlock(r) ==
  /\ pc[r] = "unlock"
  /\ lock' = IF lock = r THEN None ELSE lock
  /\ Goto(r, "ended")
  /\ outcome' = [outcome EXCEPT ![r] = IF conn[r] THEN @ ELSE "error"]
  /\ UNCHANGED <<ledger, schema, pos, stmt, Fixed>>

(***************************************************************************)
(* The process: one file                                                   *)
(***************************************************************************)
At(r, label) == pc[r] = label /\ stmt[r] = None /\ pos[r] <= Len(Filenames[r])

Send(r, s) == stmt' = [stmt EXCEPT ![r] = s] /\ Goto(r, "waiting") /\ UNCHANGED <<pos, outcome>>

(* appliedMigration and assertChecksum.                                    *)
Applied(r) ==
  CASE ledger[Current(r)] = None -> "no"
    [] ledger[Current(r)] = Content(r) -> "yes"
    [] OTHER -> "changed"

(* A file that the ledger has is passed over, or ends the run when it has  *)
(* changed.                                                                *)
PassOver(r) ==
  /\ \/ Applied(r) = "yes" /\ NextFile(r)
     \/ Applied(r) = "changed" /\ Leave(r, "changed")
  /\ UNCHANGED stmt

OrdinaryMigration(r) ==
  /\ At(r, "file") /\ Current(r) \notin OnlineIndex
  /\ PassOver(r) \/ (Applied(r) = "no" /\ Send(r, "commit"))
  /\ UNCHANGED <<Database, Fixed>>

(* A statement on the dedicated connection fails when that is broken.      *)
\* Mutant: indexes are built on whatever connection the pool offers.
OnDedicatedPooled(r) == TRUE

OnDedicated(r) == conn[r]

BrokenConnection(r) ==
  /\ \/ At(r, "file") /\ Current(r) \in OnlineIndex
     \/ At(r, "find") \/ At(r, "create") \/ At(r, "insert")
  /\ ~OnDedicated(r)
  /\ Leave(r, "error")
  /\ UNCHANGED <<Database, stmt, Fixed>>

OnlineIndexMigration(r) ==
  /\ At(r, "file") /\ Current(r) \in OnlineIndex /\ OnDedicated(r)
  /\ \/ PassOver(r)
     \/ Applied(r) = "no" /\ Goto(r, "find") /\ UNCHANGED <<pos, outcome, stmt>>
  /\ UNCHANGED <<Database, Fixed>>

\* Mutant: only an index that is not usable is dropped.
MustDropInvalid(n) == schema[n] = "invalid"

MustDrop(n) == schema[n] # None

(* DROP and CREATE INDEX CONCURRENTLY leave an invalid index from their    *)
(* first transaction to their last.                                        *)
FindIndex(r) ==
  /\ At(r, "find") /\ OnDedicated(r)
  /\ IF MustDrop(Current(r))
     THEN Send(r, "drop") /\ schema' = [schema EXCEPT ![Current(r)] = "invalid"]
     ELSE Goto(r, "create") /\ UNCHANGED <<schema, pos, outcome, stmt>>
  /\ UNCHANGED <<ledger, lock, Fixed>>

CreateIndex(r) ==
  /\ At(r, "create") /\ OnDedicated(r)
  /\ IF schema[Current(r)] = None
     THEN Send(r, "create") /\ schema' = [schema EXCEPT ![Current(r)] = "invalid"]
     ELSE Leave(r, "error") /\ UNCHANGED <<schema, stmt>>
  /\ UNCHANGED <<ledger, lock, Fixed>>

InsertLedger(r) ==
  /\ At(r, "insert") /\ OnDedicated(r)
  /\ Send(r, "insert")
  /\ UNCHANGED <<Database, Fixed>>

(***************************************************************************)
(* The database                                                            *)
(***************************************************************************)
(* The primary key of the ledger refuses a second row; the transaction of  *)
(* an ordinary migration is then rolled back.                              *)
Refused(r) == stmt[r] \in {"commit", "insert"} /\ ledger[Current(r)] # None

Effect(r) ==
  LET n == Current(r)
  IN  /\ ledger' = IF stmt[r] \in {"commit", "insert"} /\ ~Refused(r)
                   THEN [ledger EXCEPT ![n] = Content(r)] ELSE ledger
      /\ schema' = CASE stmt[r] = "drop" -> [schema EXCEPT ![n] = None]
                     [] stmt[r] = "create" -> [schema EXCEPT ![n] = Content(r)]
                     [] stmt[r] = "commit" /\ ~Refused(r) ->
                          [schema EXCEPT ![n] = Content(r)]
                     [] OTHER -> schema

Answered(r) ==
  CASE ~Alive(r) -> UNCHANGED <<pc, pos, outcome>>
    [] Alive(r) /\ Refused(r) -> Leave(r, "error")
    [] Alive(r) /\ ~Refused(r) /\ stmt[r] = "drop" ->
         Goto(r, "create") /\ UNCHANGED <<pos, outcome>>
    [] Alive(r) /\ ~Refused(r) /\ stmt[r] = "create" ->
         Goto(r, "insert") /\ UNCHANGED <<pos, outcome>>
    [] OTHER -> NextFile(r)

Execute(r) ==
  /\ stmt[r] # None
  /\ Effect(r)
  /\ Answered(r)
  /\ stmt' = [stmt EXCEPT ![r] = None]
  /\ UNCHANGED <<lock, Fixed>>

(* A backend whose client is gone finishes its statement and releases the  *)
(* lock of its session.                                                    *)
BackendExits(r) ==
  /\ pc[r] = "crashed" /\ lock = r
  /\ stmt[r] \notin LockStatements
  /\ lock' = None
  /\ UNCHANGED <<ledger, schema, pc, pos, stmt, outcome, Fixed>>

(***************************************************************************)
(* Faults                                                                  *)
(***************************************************************************)
Strike ==
  /\ faults < MaxFaults
  /\ faults' = faults + 1
  /\ clean' = [r \in Run |-> clean[r] /\ pc[r] \in {"idle", "ended"}]

Crash(r) ==
  /\ Strike
  /\ Alive(r)
  /\ Goto(r, "crashed")
  /\ UNCHANGED <<Database, pos, conn, stmt, outcome>>

(* A statement fails, with or without effect, or its transaction does.     *)
Aborted(r) ==
  /\ stmt[r] # None
  /\ stmt' = [stmt EXCEPT ![r] = None]
  /\ \/ Effect(r)
     \/ UNCHANGED <<ledger, schema>>
  /\ IF Alive(r) THEN Leave(r, "error") ELSE UNCHANGED <<pc, pos, outcome>>

FailStatement(r) ==
  /\ Strike
  /\ Aborted(r)
  /\ UNCHANGED <<lock, conn>>

(* A query without effect fails: a read or set_config, the attempt to get  *)
(* the lock, or the unlock.  Outside the try block the process ends, and   *)
(* the end of its connections frees the lock.                              *)
QueryFails(r) ==
  /\ Strike
  /\ \/ /\ pc[r] = "ledger" \/ At(r, "file") \/ At(r, "find")
        /\ Leave(r, "error")
        /\ UNCHANGED lock
     \/ /\ pc[r] \in {"locking", "unlock"}
        /\ Goto(r, "ended")
        /\ outcome' = [outcome EXCEPT ![r] = "error"]
        /\ lock' = IF lock = r THEN None ELSE lock
        /\ UNCHANGED pos
  /\ UNCHANGED <<ledger, schema, conn, stmt>>

(* The dedicated connection breaks.  A process that is not using it goes   *)
(* on; one that does sees the error.                                       *)
LoseConnection(r) ==
  /\ Strike
  /\ Alive(r) /\ conn[r]
  /\ conn' = [conn EXCEPT ![r] = FALSE]
  /\ lock' = IF lock = r THEN None ELSE lock
  /\ IF stmt[r] \in LockStatements THEN Aborted(r)
     ELSE UNCHANGED <<ledger, schema, pc, pos, stmt, outcome>>

Next ==
  \E r \in Run :
    \/ Start(r) \/ AcquireMigrationLock(r) \/ EnsureLedger(r) \/ Finish(r) \/ Unlock(r)
    \/ OrdinaryMigration(r) \/ OnlineIndexMigration(r) \/ BrokenConnection(r)
    \/ FindIndex(r) \/ CreateIndex(r) \/ InsertLedger(r)
    \/ Execute(r) \/ BackendExits(r)
    \/ Crash(r) \/ FailStatement(r) \/ QueryFails(r) \/ LoseConnection(r)

Spec == Init /\ [][Next]_vars

-----------------------------------------------------------------------------
TypeOK ==
  /\ ledger \in [Name -> Version \cup {None}]
  /\ schema \in [Name -> Version \cup {None, "manual", "invalid"}]
  /\ lock \in {r \in Run : conn[r]} \cup {None}
  /\ pc \in [Run -> {"idle", "locking", "ledger", "file", "find", "create", "insert",
                     "waiting", "unlock", "ended", "crashed"}]
  /\ pos \in [Run -> Nat]
  /\ \A r \in Run : pos[r] \in 1..(Len(Filenames[r]) + 1)
  /\ conn \in [Run -> BOOLEAN]
  /\ stmt \in [Run -> LockStatements \cup {"commit", None}]
  /\ \A r \in Run : stmt[r] # None => pc[r] \in {"waiting", "crashed"}
  /\ outcome \in [Run -> {None, "done", "changed", "timeout", "error"}]
  /\ \A r \in Run : pc[r] \in {"unlock", "ended"} => outcome[r] # None
  /\ clean \in [Run -> BOOLEAN]
  /\ faults \in 0..MaxFaults

(* The ledger tells the truth, also after crashes and while a run that has *)
(* lost its lock overlaps with the next: an ordinary migration is recorded *)
(* exactly when it is in the schema, and a recorded index is a usable one  *)
(* built by the recorded file, never a manual or invalid look-alike        *)
(* (comment at migrate.ts:78).                                             *)
LedgerTruthful ==
  \A n \in Name :
    /\ n \notin OnlineIndex => schema[n] = ledger[n]
    /\ ledger[n] # None => schema[n] = ledger[n]

(* health() of the API asks the ledger for one migration, the last of its  *)
(* release.                                                                *)
Health(required) == ledger[required] # None

(* One row is enough: an API that reports ready finds everything its       *)
(* release needs, the earlier migrations included.                         *)
ReadyMeansMigrated ==
  \A r \in Run :
    LET required == Len(Filenames[r])
    IN  Health(required) => \A n \in 1..required : schema[n] \in Version

(* Whatever state faults leave the database in, the job needs no repair by *)
(* hand: a run that no fault touches succeeds, unless a file it ships was  *)
(* applied with other content or it never gets the lock.                   *)
RerunSucceeds ==
  \A r \in Run :
    pc[r] = "ended" /\ clean[r] =>
      \/ outcome[r] \in {"done", "timeout"}
      \/ /\ outcome[r] = "changed"
         /\ \E n \in DOMAIN Directory[r] : ledger[n] \notin {None, Directory[r][n]}
=============================================================================
