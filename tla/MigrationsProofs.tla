-------------------------- MODULE MigrationsProofs ---------------------------
(***************************************************************************)
(* The safety properties of Migrations for any number of runs, releases,   *)
(* files and faults.  The argument is about the advisory lock: a run works *)
(* on an index only while its dedicated connection holds the lock, and     *)
(* what it has learnt about that index nobody else can change.             *)
(***************************************************************************)
EXTENDS Migrations, FiniteSetTheorems, TLAPS

Working(r) ==
  pc[r] \in {"ledger", "file", "find", "create", "insert", "waiting", "unlock"}

RunStep(r) ==
  \/ Start(r) \/ AcquireMigrationLock(r) \/ EnsureLedger(r) \/ Finish(r) \/ Unlock(r)
  \/ OrdinaryMigration(r) \/ OnlineIndexMigration(r) \/ BrokenConnection(r)
  \/ FindIndex(r) \/ CreateIndex(r) \/ InsertLedger(r)
  \/ Execute(r) \/ BackendExits(r)
  \/ Crash(r) \/ FailStatement(r) \/ QueryFails(r) \/ LoseConnection(r)

OnIndex(r) == pc[r] \in {"find", "create", "insert"} \/ stmt[r] \in LockStatements

\* A process between acquire and unlock holds the lock unless its connection
\* broke; a statement on the dedicated connection runs under the lock.
LockInv ==
  \A r \in Run : /\ Working(r) /\ conn[r] => lock = r
                 /\ stmt[r] \in LockStatements => lock = r

\* What a run that works on a file knows about it.
FileKnown(r) ==
  /\ stmt[r] = "commit" => pos[r] <= Len(Filenames[r]) /\ Current(r) \notin OnlineIndex
  /\ OnIndex(r) => pos[r] <= Len(Filenames[r]) /\ Current(r) \in OnlineIndex
  /\ lock = r =>
       /\ OnIndex(r) => ledger[Current(r)] = None
       /\ pc[r] = "create" => schema[Current(r)] = None
       /\ pc[r] = "insert" \/ stmt[r] = "insert" => schema[Current(r)] = Content(r)

FileInv == \A r \in Run : FileKnown(r)

\* A run has passed only files that are recorded, and the ledger has no gaps.
OrderInv ==
  /\ \A r \in Run : \A i \in 1..(pos[r] - 1) : ledger[Filenames[r][i]] # None
  /\ \A n \in Name : ledger[n] # None => \A m \in 1..(n - 1) : ledger[m] # None

\* A run that no fault touches has its connection, nothing acts outside the
\* lock while it works, and the row it is about to insert is not there.
CleanRun(r) ==
  /\ conn[r] /\ pc[r] # "crashed"
  /\ pc[r] \notin {"idle", "ended"} => ~Lingering
  /\ stmt[r] = "commit" => ledger[Current(r)] = None
  /\ pc[r] \in {"unlock", "ended"} => outcome[r] # "error"

\* A run ends with "changed" because the ledger has other content for a file.
ChangeSeen(r) ==
  outcome[r] = "changed" =>
    \E n \in DOMAIN Directory[r] : ledger[n] \notin {None, Directory[r][n]}

CleanInv ==
  \A r \in Run : /\ pc[r] = "idle" => conn[r]
                 /\ clean[r] => CleanRun(r)
                 /\ ChangeSeen(r)

IInv == TypeOK /\ LockInv /\ FileInv /\ LedgerTruthful /\ OrderInv /\ CleanInv

-----------------------------------------------------------------------------
(* The files of a run                                                      *)

\* The list of files is sorted and has every file of the directory, once.
LEMMA FilenamesSorted ==
  ASSUME NEW r \in Run
  PROVE  /\ Filenames[r] \in [1..Len(Directory[r]) -> 1..Len(Directory[r])]
         /\ Len(Filenames[r]) = Len(Directory[r])
         /\ \A i, j \in 1..Len(Directory[r]) : i < j => Filenames[r][i] < Filenames[r][j]
         /\ \A n \in DOMAIN Directory[r] :
              \E i \in 1..Len(Directory[r]) : Filenames[r][i] = n
<1> DEFINE D == 1..Len(Directory[r])
           Sorted(names) == \A i, j \in D : i < j => names[i] < names[j]
<1>1. Len(Directory[r]) \in Nat /\ DOMAIN Directory[r] = D
  BY Zenon, DirectoryAssumption
<1>2. Filenames[r] = CHOOSE names \in [D -> D] : Sorted(names)
  BY Zenon, <1>1 DEF Filenames
<1>3. [i \in D |-> i] \in [D -> D] /\ Sorted([i \in D |-> i])
  BY Zenon
<1>4. Filenames[r] \in [D -> D] /\ Sorted(Filenames[r])
  <2> HIDE DEF D, Sorted
  <2> QED
    BY Zenon, <1>2, <1>3
<1>5. Len(Filenames[r]) = Len(Directory[r])
  BY <1>1, <1>4
<1>6. Filenames[r] \in Injection(D, D)
  BY <1>1, <1>4 DEF Injection, IsInjective
<1>7. Filenames[r] \in Surjection(D, D)
  BY <1>6, <1>1, FS_Interval, FS_Injection
<1> QED
  BY Zenon, <1>1, <1>4, <1>5, <1>7 DEF Surjection

\* The file a run works on is one of its directory, and every file before it
\* in the order of names is earlier in the list.
LEMMA CurrentFile ==
  ASSUME TypeOK, NEW r \in Run, pos[r] <= Len(Filenames[r])
  PROVE  /\ Current(r) \in DOMAIN Directory[r] /\ Current(r) \in Name
         /\ Current(r) \in Nat
         /\ Content(r) = Directory[r][Current(r)] /\ Content(r) \in Version
         /\ Content(r) \notin {None, "manual", "invalid"}
         /\ \A m \in 1..(Current(r) - 1) : \E i \in 1..(pos[r] - 1) : Filenames[r][i] = m
<1>1. Len(Directory[r]) \in Nat /\ DOMAIN Directory[r] = 1..Len(Directory[r])
  BY Zenon, DirectoryAssumption
<1>2. pos[r] \in 1..Len(Directory[r])
  BY <1>1, FilenamesSorted DEF TypeOK
<1>3. Current(r) \in 1..Len(Directory[r])
  BY Zenon, <1>2, FilenamesSorted DEF Current
<1>4. Content(r) = Directory[r][Current(r)] /\ Current(r) \in Name /\ Content(r) \in Version
  BY <1>1, <1>3 DEF Content, Name, Version
<1>5. ASSUME NEW m \in 1..(Current(r) - 1)
      PROVE  \E i \in 1..(pos[r] - 1) : Filenames[r][i] = m
  <2> m \in DOMAIN Directory[r]
    BY <1>1, <1>3
  <2>1. PICK i \in 1..Len(Directory[r]) : Filenames[r][i] = m
    BY Zenon, FilenamesSorted
  <2>2. ~ (pos[r] < i) /\ pos[r] # i
    BY <1>1, <1>2, <1>3, <2>1, FilenamesSorted DEF Current
  <2> QED
    BY <1>1, <1>2, <2>1, <2>2
<1> QED
  BY <1>1, <1>3, <1>4, <1>5, MigrationsAssumption
-----------------------------------------------------------------------------
(* Type correctness                                                        *)

ControlType ==
  /\ pc \in [Run -> {"idle", "locking", "ledger", "file", "find", "create", "insert",
                     "waiting", "unlock", "ended", "crashed"}]
  /\ pos \in [Run -> Nat]
  /\ \A r \in Run : pos[r] \in 1..(Len(Filenames[r]) + 1)
  /\ stmt \in [Run -> LockStatements \cup {"commit", None}]
  /\ \A r \in Run : stmt[r] # None => pc[r] \in {"waiting", "crashed"}
  /\ outcome \in [Run -> {None, "done", "changed", "timeout", "error"}]
  /\ \A r \in Run : pc[r] \in {"unlock", "ended"} => outcome[r] # None

\* What a statement does in the database: it records the file at hand, when
\* no row is there yet, and it changes the schema at this file only.
LEMMA EffectFrame ==
  ASSUME TypeOK, FileInv, NEW r \in Run, stmt[r] # None, Effect(r)
  PROVE  /\ pos[r] <= Len(Filenames[r])
         /\ ledger' \in [Name -> Version \cup {None}]
         /\ schema' \in [Name -> Version \cup {None, "manual", "invalid"}]
         /\ \A n \in Name \ {Current(r)} : ledger'[n] = ledger[n] /\ schema'[n] = schema[n]
         /\ \/ ledger'[Current(r)] = ledger[Current(r)]
            \/ /\ stmt[r] \in {"commit", "insert"}
               /\ ledger[Current(r)] = None /\ ledger'[Current(r)] = Content(r)
         /\ stmt[r] \in {"commit", "insert"} => ledger'[Current(r)] # None
<1>1. stmt[r] \in {"drop", "create", "insert", "commit"}
  BY Zenon DEF TypeOK, LockStatements
<1>2. pos[r] <= Len(Filenames[r])
  BY Zenon, <1>1 DEF FileInv, FileKnown, OnIndex, LockStatements
<1>3. Current(r) \in Name /\ Content(r) \in Version /\ Content(r) # None
  BY Zenon, <1>2, CurrentFile
<1>4. ledger \in [Name -> Version \cup {None}]
      /\ schema \in [Name -> Version \cup {None, "manual", "invalid"}]
  BY Zenon DEF TypeOK
<1>5. /\ ledger' \in [Name -> Version \cup {None}]
      /\ \A n \in Name \ {Current(r)} : ledger'[n] = ledger[n]
      /\ \/ ledger'[Current(r)] = ledger[Current(r)]
         \/ /\ stmt[r] \in {"commit", "insert"}
            /\ ledger[Current(r)] = None /\ ledger'[Current(r)] = Content(r)
      /\ stmt[r] \in {"commit", "insert"} => ledger'[Current(r)] # None
  BY Zenon, <1>3, <1>4 DEF Effect, Refused
<1>6. /\ schema' \in [Name -> Version \cup {None, "manual", "invalid"}]
      /\ \A n \in Name \ {Current(r)} : schema'[n] = schema[n]
  BY Zenon, <1>1, <1>3, <1>4 DEF Effect
<1> QED
  BY Zenon, <1>2, <1>5, <1>6

\* A fault is counted, and every run that is under way is touched by it.
LEMMA StrikeType ==
  ASSUME TypeOK, Strike
  PROVE  clean' \in [Run -> BOOLEAN] /\ faults' \in 0..MaxFaults
<1>1. clean' \in [Run -> BOOLEAN]
  BY Zenon DEF Strike
<1>2. faults' \in 0..MaxFaults
  BY MigrationsAssumption DEF Strike, TypeOK
<1> QED
  BY Zenon, <1>1, <1>2

\* Leaving the loop and going on to the next file keep the types of the control
\* variables, once the statement has been answered.
LEMMA LeaveType ==
  ASSUME TypeOK, NEW r \in Run, NEW why \in {"done", "changed", "error"}, Leave(r, why),
         stmt' = [stmt EXCEPT ![r] = None] \/ (stmt' = stmt /\ stmt[r] = None)
  PROVE  ControlType'
BY Zenon DEF TypeOK, ControlType, Leave, Goto, None

\* The position in the list of files after one more.
LEMMA NextFileType ==
  ASSUME TypeOK, NEW r \in Run, NextFile(r), pos[r] <= Len(Filenames[r]),
         stmt' = [stmt EXCEPT ![r] = None] \/ (stmt' = stmt /\ stmt[r] = None)
  PROVE  ControlType'
<1>1. pos[r] + 1 \in 1..(Len(Filenames[r]) + 1) /\ pos[r] + 1 \in Nat
  <2>1. Len(Filenames[r]) \in Nat
    BY Zenon, FilenamesSorted, DirectoryAssumption
  <2> QED
    BY <2>1 DEF TypeOK
<1>2. /\ pos' \in [Run -> Nat]
      /\ \A q \in Run : pos'[q] \in 1..(Len(Filenames[q]) + 1)
  BY Zenon, <1>1 DEF TypeOK, NextFile
<1> QED
  BY Zenon, <1>2 DEF TypeOK, ControlType, NextFile, Goto, None

\* A statement on its way to the server.
LEMMA SendType ==
  ASSUME TypeOK, NEW r \in Run, NEW s \in LockStatements \cup {"commit"}, Send(r, s)
  PROVE  ControlType'
BY Zenon DEF TypeOK, ControlType, Send, Goto, LockStatements, None

\* Every step leaves the variables well typed.
LEMMA TypeStep ==
  ASSUME TypeOK, LockInv, FileInv, Next
  PROVE  TypeOK'
<1> USE DEF Database, Fixed
<1>1. PICK r \in Run : RunStep(r)
  BY Zenon DEF RunStep, Next
<1>2. CASE Start(r)
  <2>1. clean' \in [Run -> BOOLEAN]
    BY Zenon, <1>2 DEF Start, TypeOK
  <2> QED
    BY Zenon, <1>2, <2>1 DEF Start, Goto, TypeOK
<1>3. CASE AcquireMigrationLock(r)
  <2>1. CASE conn[r] /\ lock = None /\ lock' = r /\ Goto(r, "ledger") /\ UNCHANGED outcome
    BY Zenon, <1>3, <2>1 DEF AcquireMigrationLock, Goto, TypeOK
  <2>2. CASE Goto(r, "ended") /\ lock' = lock
             /\ \E why \in {"timeout", "error"} : outcome' = [outcome EXCEPT ![r] = why]
    BY <1>3, <2>2 DEF AcquireMigrationLock, Goto, TypeOK, None
  <2> QED
    BY Zenon, <1>3, <2>1, <2>2 DEF AcquireMigrationLock
<1>4. CASE EnsureLedger(r)
  BY Zenon, <1>4 DEF EnsureLedger, Goto, TypeOK
<1>5. CASE Finish(r)
  BY Zenon, <1>5 DEF Finish, Leave, Goto, TypeOK, None
<1>6. CASE Unlock(r)
  BY Zenon, <1>6 DEF Unlock, Goto, TypeOK, None
<1>7. CASE OrdinaryMigration(r) \/ OnlineIndexMigration(r)
  <2>1. ControlType'
    <3>1. CASE NextFile(r) /\ UNCHANGED stmt
      BY Zenon, <1>7, <3>1, NextFileType DEF OrdinaryMigration, OnlineIndexMigration, At
    <3>2. CASE Leave(r, "changed") /\ UNCHANGED stmt
      BY Zenon, <1>7, <3>2, LeaveType DEF OrdinaryMigration, OnlineIndexMigration, At
    <3>3. CASE Send(r, "commit")
      BY Zenon, <3>3, SendType
    <3>4. CASE Goto(r, "find") /\ UNCHANGED <<pos, outcome, stmt>>
      BY Zenon, <1>7, <3>4 DEF OrdinaryMigration, OnlineIndexMigration, At, Goto, TypeOK, ControlType
    <3> QED
      BY Zenon, <1>7, <3>1, <3>2, <3>3, <3>4 DEF OrdinaryMigration, OnlineIndexMigration, PassOver
  <2> QED
    BY <1>7, <2>1 DEF OrdinaryMigration, OnlineIndexMigration, TypeOK, ControlType
<1>9. CASE BrokenConnection(r)
  BY Zenon, <1>9, LeaveType DEF BrokenConnection, At, TypeOK, ControlType
<1>10. CASE FindIndex(r) \/ CreateIndex(r)
  <2>1. Current(r) \in Name
    BY Zenon, <1>10, CurrentFile DEF FindIndex, CreateIndex, At
  <2>2. schema' \in [Name -> Version \cup {None, "manual", "invalid"}]
    BY Zenon, <1>10, <2>1 DEF FindIndex, CreateIndex, TypeOK
  <2>3. ControlType'
    <3>1. CASE Leave(r, "error") /\ UNCHANGED stmt
      BY Zenon, <1>10, <3>1, LeaveType DEF FindIndex, CreateIndex, At
    <3>2. CASE Send(r, "drop") \/ Send(r, "create")
      BY Zenon, <3>2, SendType DEF LockStatements
    <3>3. CASE Goto(r, "create") /\ UNCHANGED <<pos, outcome, stmt>>
      BY Zenon, <1>10, <3>3 DEF FindIndex, CreateIndex, At, Goto, TypeOK, ControlType
    <3> QED
      BY Zenon, <1>10, <3>1, <3>2, <3>3 DEF FindIndex, CreateIndex
  <2> QED
    BY <1>10, <2>2, <2>3 DEF FindIndex, CreateIndex, TypeOK, ControlType
<1>12. CASE InsertLedger(r)
  BY <1>12 DEF InsertLedger, At, Send, Goto, LockStatements, TypeOK, None
<1>13. CASE Execute(r)
  <2>1. ControlType'
    <3>1. CASE ~Alive(r)
      BY <1>13, <3>1 DEF Execute, Answered, TypeOK, ControlType, None
    <3>2. CASE Leave(r, "error")
      BY Zenon, <1>13, <3>2, LeaveType DEF Execute
    <3>3. CASE NextFile(r)
      BY Zenon, <1>13, <3>3, NextFileType, EffectFrame DEF Execute
    <3>4. CASE \E l \in {"create", "insert"} : Goto(r, l) /\ UNCHANGED <<pos, outcome>>
      BY <1>13, <3>4 DEF Execute, Goto, TypeOK, ControlType, None
    <3> QED
      BY Zenon, <1>13, <3>1, <3>2, <3>3, <3>4 DEF Execute, Answered
  <2> QED
    BY Zenon, <1>13, <2>1, EffectFrame DEF Execute, TypeOK, ControlType
<1>14. CASE BackendExits(r)
  BY Zenon, <1>14 DEF BackendExits, TypeOK
<1>15. CASE Crash(r)
  BY Zenon, <1>15, StrikeType DEF Crash, Goto, TypeOK
<1>16. CASE Strike /\ Aborted(r) /\ UNCHANGED conn
            /\ lock' \in {lock, None}
  <2>1. ControlType'
    <3>1. CASE Alive(r)
      BY Zenon, <1>16, <3>1, LeaveType DEF Aborted
    <3>2. CASE ~Alive(r)
      <4>1. UNCHANGED <<pc, pos, outcome>> /\ stmt' = [stmt EXCEPT ![r] = None]
        BY Zenon, <1>16, <3>2 DEF Aborted
      <4> QED
        BY Zenon, <4>1 DEF TypeOK, ControlType
    <3> QED
      BY Zenon, <3>1, <3>2
  <2>2. /\ ledger' \in [Name -> Version \cup {None}]
        /\ schema' \in [Name -> Version \cup {None, "manual", "invalid"}]
    BY Zenon, <1>16, EffectFrame DEF Aborted, TypeOK
  <2> QED
    BY <1>16, <2>1, <2>2, StrikeType DEF TypeOK, ControlType
<1>17. CASE QueryFails(r)
  <2>1. clean' \in [Run -> BOOLEAN] /\ faults' \in 0..MaxFaults
    BY Zenon, <1>17, StrikeType DEF QueryFails
  <2>2. CASE (pc[r] = "ledger" \/ At(r, "file") \/ At(r, "find"))
             /\ Leave(r, "error") /\ UNCHANGED lock
    BY Zenon, <1>17, <2>1, <2>2 DEF QueryFails, At, Leave, Goto, TypeOK, None
  <2>3. CASE /\ pc[r] \in {"locking", "unlock"}
             /\ Goto(r, "ended")
             /\ outcome' = [outcome EXCEPT ![r] = "error"]
             /\ lock' = IF lock = r THEN None ELSE lock
             /\ UNCHANGED pos
    BY <1>17, <2>1, <2>3 DEF QueryFails, Goto, TypeOK, None
  <2> QED
    BY Zenon, <1>17, <2>2, <2>3 DEF QueryFails
<1>18. CASE LoseConnection(r)
  <2>1. ControlType'
    BY <1>18, LeaveType DEF LoseConnection, Aborted, LockStatements, TypeOK, ControlType, None
  <2>2. /\ ledger' \in [Name -> Version \cup {None}]
        /\ schema' \in [Name -> Version \cup {None, "manual", "invalid"}]
    BY Zenon, <1>18, EffectFrame DEF LoseConnection, Aborted, TypeOK
  <2>3. conn' \in [Run -> BOOLEAN] /\ lock' \in {q \in Run : conn'[q]} \cup {None}
    BY Zenon, <1>18, MigrationsAssumption DEF LoseConnection, TypeOK
  <2> QED
    BY Zenon, <1>18, <2>1, <2>2, <2>3, StrikeType DEF LoseConnection, TypeOK, ControlType
<1> QED
  BY Zenon, <1>1, <1>2, <1>3, <1>4, <1>5, <1>6, <1>7, <1>9, <1>10, <1>12, <1>13,
     <1>14, <1>15, <1>16, <1>17, <1>18 DEF RunStep, FailStatement
-----------------------------------------------------------------------------
(* The lock                                                                *)

\* A step of one run leaves the process of every other run where it is, and
\* gives the lock to none of them.
LEMMA OthersStay ==
  ASSUME TypeOK, NEW r \in Run, RunStep(r), NEW q \in Run \ {r}
  PROVE  /\ pc'[q] = pc[q] /\ pos'[q] = pos[q] /\ stmt'[q] = stmt[q]
         /\ conn'[q] = conn[q] /\ outcome'[q] = outcome[q]
         /\ lock' = q <=> lock = q
<1> USE DEF Goto, Leave, NextFile, Send, Database, Fixed
<1>1. /\ pc' = pc \/ \E l : pc' = [pc EXCEPT ![r] = l]
      /\ pos' = pos \/ \E l : pos' = [pos EXCEPT ![r] = l]
      /\ outcome' = outcome \/ \E l : outcome' = [outcome EXCEPT ![r] = l]
  BY Zenon DEF RunStep, Start, AcquireMigrationLock, EnsureLedger, Finish, Unlock,
       OrdinaryMigration, OnlineIndexMigration, PassOver, BrokenConnection, FindIndex,
       CreateIndex, InsertLedger, Execute, Answered, BackendExits, Crash, FailStatement,
       Aborted, QueryFails, LoseConnection
<1>2. /\ stmt' = stmt \/ \E l : stmt' = [stmt EXCEPT ![r] = l]
      /\ conn' = conn \/ \E l : conn' = [conn EXCEPT ![r] = l]
  BY Zenon DEF RunStep, Start, AcquireMigrationLock, EnsureLedger, Finish, Unlock,
       OrdinaryMigration, OnlineIndexMigration, PassOver, BrokenConnection, FindIndex,
       CreateIndex, InsertLedger, Execute, BackendExits, Crash, FailStatement,
       Aborted, QueryFails, LoseConnection
<1>3. lock' = lock \/ (lock' = r /\ lock = None) \/ (lock' = None /\ lock = r)
  BY Zenon DEF RunStep, Start, AcquireMigrationLock, EnsureLedger, Finish, Unlock,
       OrdinaryMigration, OnlineIndexMigration, PassOver, BrokenConnection, FindIndex,
       CreateIndex, InsertLedger, Execute, BackendExits, Crash, FailStatement,
       Aborted, QueryFails, LoseConnection
<1> QED
  BY <1>1, <1>2, <1>3, MigrationsAssumption DEF TypeOK
\* A run works under the lock, and its statements on the dedicated connection
\* end before the lock is given up, also when the process or the connection dies.
LEMMA LockStep ==
  ASSUME TypeOK, TypeOK', LockInv, NEW r \in Run, RunStep(r)
  PROVE  LockInv'
<1>1. ASSUME NEW q \in Run \ {r}
      PROVE  /\ Working(q)' /\ conn'[q] => lock' = q
             /\ stmt'[q] \in LockStatements => lock' = q
  BY Zenon, <1>1, OthersStay DEF LockInv, Working
<1>2. /\ Working(r)' /\ conn'[r] => lock' = r
      /\ stmt'[r] \in LockStatements => lock' = r
  <2> USE DEF Goto, Leave, NextFile, Send, Database, Fixed, LockInv, Working, TypeOK,
              LockStatements, None
  <2>1. CASE Start(r) \/ AcquireMigrationLock(r) \/ EnsureLedger(r) \/ Finish(r)
    BY <2>1 DEF Start, AcquireMigrationLock, EnsureLedger, Finish
  <2>2. CASE Unlock(r) \/ BackendExits(r)
    BY <2>2 DEF Unlock, BackendExits
  <2>3. CASE OrdinaryMigration(r) \/ OnlineIndexMigration(r)
    BY <2>3 DEF OrdinaryMigration, OnlineIndexMigration, PassOver, At
  <2>4. CASE BrokenConnection(r) \/ InsertLedger(r)
    BY <2>4 DEF BrokenConnection, InsertLedger, At, OnDedicated
  <2>5. CASE FindIndex(r) \/ CreateIndex(r)
    BY Zenon, <2>5 DEF FindIndex, CreateIndex, At, OnDedicated
  <2>6. CASE Execute(r)
    BY <2>6 DEF Execute, Answered, Alive
  <2>7. CASE Crash(r) \/ FailStatement(r)
    BY <2>7 DEF Crash, FailStatement, Aborted, Alive
  <2>8. CASE QueryFails(r)
    BY <2>8 DEF QueryFails, At
  <2>9. CASE LoseConnection(r)
    BY <2>9 DEF LoseConnection, Aborted, Alive
  <2> QED
    BY Zenon, <2>1, <2>2, <2>3, <2>4, <2>5, <2>6, <2>7, <2>8, <2>9 DEF RunStep
<1> QED
  BY Zenon, <1>1, <1>2 DEF LockInv

\* A step writes the ledger and the schema at the file at hand only, records a
\* file only when it has no row, and touches an index only under the lock.
LEMMA DataFrame ==
  ASSUME TypeOK, LockInv, FileInv, NEW r \in Run, RunStep(r), NEW n \in Name
  PROVE  /\ \/ ledger'[n] = ledger[n]
            \/ /\ n = Current(r) /\ stmt[r] \in {"commit", "insert"}
               /\ ledger[n] = None /\ ledger'[n] = Content(r) /\ Content(r) # None
         /\ n # Current(r) => schema'[n] = schema[n]
         /\ n \in OnlineIndex /\ lock # r => ledger'[n] = ledger[n] /\ schema'[n] = schema[n]
<1> DEFINE Goal ==
         /\ \/ ledger'[n] = ledger[n]
            \/ /\ n = Current(r) /\ stmt[r] \in {"commit", "insert"}
               /\ ledger[n] = None /\ ledger'[n] = Content(r) /\ Content(r) # None
         /\ n # Current(r) => schema'[n] = schema[n]
         /\ n \in OnlineIndex /\ lock # r => ledger'[n] = ledger[n] /\ schema'[n] = schema[n]
<1>1. CASE UNCHANGED <<ledger, schema>>
  BY Zenon, <1>1
<1>2. CASE stmt[r] # None /\ Effect(r)
  <2>1. Current(r) \in OnlineIndex => lock = r
    BY Zenon, <1>2 DEF LockInv, FileInv, FileKnown, TypeOK
  <2>2. Content(r) # None
    BY Zenon, <1>2, EffectFrame, CurrentFile
  <2> QED
    BY Zenon, <1>2, <2>1, <2>2, EffectFrame
<1>3. CASE FindIndex(r) \/ CreateIndex(r)
  <2>1. lock = r
    BY Zenon, <1>3 DEF FindIndex, CreateIndex, At, OnDedicated, LockInv, Working
  <2>2. ledger' = ledger /\ (schema' = schema \/ schema' = [schema EXCEPT ![Current(r)] = "invalid"])
    BY Zenon, <1>3 DEF FindIndex, CreateIndex
  <2> QED
    BY Zenon, <2>1, <2>2 DEF TypeOK
<1>4. \/ UNCHANGED <<ledger, schema>> \/ (stmt[r] # None /\ Effect(r))
      \/ FindIndex(r) \/ CreateIndex(r)
  BY Zenon DEF RunStep, Start, AcquireMigrationLock, EnsureLedger, Finish, Unlock,
       OrdinaryMigration, OnlineIndexMigration, PassOver, BrokenConnection,
       InsertLedger, Execute, BackendExits, Crash, FailStatement,
       Aborted, QueryFails, LoseConnection, Database, Fixed
<1> QED
  BY Zenon, <1>1, <1>2, <1>3, <1>4

\* What a run knows of its file outlasts the steps of the other runs.
LEMMA FileOthers ==
  ASSUME TypeOK, LockInv, FileInv, NEW r \in Run, RunStep(r), NEW q \in Run \ {r}
  PROVE  FileKnown(q)'
<1>1. FileKnown(q)
  BY Zenon DEF FileInv, FileKnown
<1>2. /\ pc'[q] = pc[q] /\ stmt'[q] = stmt[q] /\ (lock' = q <=> lock = q)
      /\ pos'[q] = pos[q] /\ Current(q)' = Current(q) /\ Content(q)' = Content(q)
      /\ OnIndex(q)' = OnIndex(q)
  BY Zenon, OthersStay DEF Current, Content, OnIndex
<1>3. CASE lock = q /\ OnIndex(q)
  <2>1. Current(q) \in Name /\ Current(q) \in OnlineIndex /\ lock # r
    BY Zenon, <1>1, <1>3, CurrentFile DEF FileKnown
  <2>2. ledger'[Current(q)] = ledger[Current(q)] /\ schema'[Current(q)] = schema[Current(q)]
    BY Zenon, <2>1, DataFrame
  <2> QED
    BY Zenon, <1>1, <1>2, <2>2 DEF FileKnown
<1> QED
  BY Zenon, <1>1, <1>2, <1>3 DEF FileKnown, OnIndex, LockStatements
\* A run itself: what it reads under the lock is what it knows next.
LEMMA FileOwn ==
  ASSUME TypeOK, TypeOK', LockInv, FileInv, NEW r \in Run, RunStep(r)
  PROVE  FileKnown(r)'
<1>1. FileKnown(r)
  BY Zenon DEF FileInv
<1>2. CASE pc'[r] \notin {"find", "create", "insert"} /\ stmt'[r] = None
  BY Zenon, <1>2 DEF FileKnown, OnIndex, LockStatements, None
<1>3. CASE OrdinaryMigration(r) /\ Send(r, "commit")
  BY <1>3 DEF OrdinaryMigration, At, Send, Goto, FileKnown, OnIndex, LockStatements,
              Current, TypeOK
<1>4. CASE OnlineIndexMigration(r) /\ Applied(r) = "no" /\ Goto(r, "find")
           /\ UNCHANGED <<pos, outcome, stmt>>
  <2>1. ledger[Current(r)] = None
    BY Zenon, <1>4 DEF Applied
  <2> QED
    BY <1>4, <2>1 DEF OnlineIndexMigration, At, Goto, FileKnown, OnIndex, Current,
                      Database, TypeOK, None
<1>5. CASE FindIndex(r)
  <2>1. lock = r /\ Current(r) \in Name
    BY Zenon, <1>5, CurrentFile DEF FindIndex, At, OnDedicated, LockInv, Working
  <2>2. pos' = pos /\ ledger' = ledger /\ lock' = lock /\ Current(r)' = Current(r)
    BY Zenon, <1>5 DEF FindIndex, Send, Current
  <2>3. \/ pc'[r] = "waiting" /\ stmt'[r] = "drop"
        \/ pc'[r] = "create" /\ stmt'[r] = None /\ schema'[Current(r)] = None
    BY <1>5 DEF FindIndex, MustDrop, Send, Goto, At, TypeOK
  <2> QED
    BY Zenon, <1>1, <1>5, <2>1, <2>2, <2>3 DEF FindIndex, At, FileKnown, OnIndex, LockStatements, None
<1>6. CASE CreateIndex(r) /\ Send(r, "create")
  <2>1. pos' = pos /\ ledger' = ledger /\ lock' = lock /\ Current(r)' = Current(r)
    BY Zenon, <1>6 DEF CreateIndex, Send, Current
  <2>2. pc'[r] = "waiting" /\ stmt'[r] = "create"
    BY <1>6 DEF Send, Goto, TypeOK
  <2> QED
    BY Zenon, <1>1, <1>6, <2>1, <2>2 DEF CreateIndex, At, FileKnown, OnIndex, LockStatements
<1>7. CASE InsertLedger(r)
  <2>1. /\ pos' = pos /\ ledger' = ledger /\ schema' = schema /\ lock' = lock
        /\ Current(r)' = Current(r) /\ Content(r)' = Content(r)
    BY Zenon, <1>7 DEF InsertLedger, Send, Current, Content, Database
  <2>2. pc'[r] = "waiting" /\ stmt'[r] = "insert"
    BY <1>7 DEF InsertLedger, Send, Goto, TypeOK
  <2> QED
    BY Zenon, <1>1, <1>7, <2>1, <2>2 DEF InsertLedger, At, FileKnown, OnIndex, LockStatements
<1>8. CASE Execute(r) /\ pc'[r] \in {"create", "insert"}
  <2>1. /\ stmt[r] = IF pc'[r] = "create" THEN "drop" ELSE "create"
        /\ pos' = pos /\ lock' = lock /\ stmt'[r] = None
    BY <1>8 DEF Execute, Answered, Alive, Leave, NextFile, Goto, TypeOK, Fixed
  <2>2. /\ Current(r)' = Current(r) /\ Content(r)' = Content(r) /\ Current(r) \in Name
        /\ OnIndex(r) /\ pos[r] <= Len(Filenames[r])
    BY Zenon, <1>1, <2>1, CurrentFile DEF Current, Content, FileKnown, OnIndex, LockStatements
  <2>3. /\ ledger' = ledger
        /\ schema'[Current(r)] = IF pc'[r] = "create" THEN None ELSE Content(r)
    BY <1>8, <2>1, <2>2 DEF Execute, Effect, TypeOK
  <2> QED
    BY Zenon, <1>1, <1>8, <2>1, <2>2, <2>3 DEF FileKnown, OnIndex, LockStatements, None
<1>9. CASE pc'[r] = pc[r] /\ pos'[r] = pos[r] /\ stmt'[r] = stmt[r]
           /\ ledger' = ledger /\ schema' = schema /\ lock' \in {lock, None}
  BY Zenon, <1>1, <1>9, MigrationsAssumption DEF FileKnown, OnIndex, Current, Content
<1>10. CASE Crash(r)
  BY <1>1, <1>10 DEF Crash, Goto, FileKnown, OnIndex, Current, Content, Database, TypeOK
<1>11. CASE \/ Start(r) \/ AcquireMigrationLock(r) \/ EnsureLedger(r) \/ Finish(r) \/ Unlock(r)
            \/ BrokenConnection(r) \/ QueryFails(r) \/ BackendExits(r)
  <2>1. CASE BackendExits(r)
    BY Zenon, <2>1, <1>9 DEF BackendExits
  <2>2. CASE ~BackendExits(r)
    <3>1. stmt' = stmt /\ pc[r] \notin {"waiting", "crashed"}
      BY Zenon, <1>11, <2>2 DEF Start, AcquireMigrationLock, EnsureLedger, Finish, Unlock,
                         BrokenConnection, QueryFails, At
    <3>2. stmt'[r] = None
      BY Zenon, <3>1 DEF TypeOK
    <3>3. pc'[r] \notin {"find", "create", "insert"}
      BY <1>11, <2>2 DEF Start, AcquireMigrationLock, EnsureLedger, Finish, Unlock,
                         BrokenConnection, QueryFails, Leave, Goto, TypeOK
    <3> QED
      BY Zenon, <1>2, <3>2, <3>3
  <2> QED
    BY Zenon, <2>1, <2>2
<1>12. CASE OrdinaryMigration(r) \/ OnlineIndexMigration(r) \/ CreateIndex(r)
  BY <1>2, <1>3, <1>4, <1>6, <1>12 DEF OrdinaryMigration, OnlineIndexMigration, PassOver,
       CreateIndex, At, NextFile, Leave, Goto, TypeOK
<1>13. CASE Execute(r)
  BY <1>2, <1>8, <1>13 DEF Execute, Answered, Alive, Leave, NextFile, Goto, TypeOK
<1>14. CASE FailStatement(r) \/ LoseConnection(r)
  <2>1. CASE Aborted(r)
    <3>1. stmt'[r] = None /\ pc'[r] \notin {"find", "create", "insert"}
      BY <2>1 DEF Aborted, Alive, Leave, Goto, TypeOK
    <3> QED
      BY Zenon, <1>2, <3>1
  <2>2. CASE ~Aborted(r)
    BY Zenon, <1>9, <1>14, <2>2 DEF FailStatement, LoseConnection
  <2> QED
    BY <2>1, <2>2
<1> QED
  BY Zenon, <1>5, <1>7, <1>10, <1>11, <1>12, <1>13, <1>14 DEF RunStep
-----------------------------------------------------------------------------
(* The ledger                                                              *)

\* An ordinary migration and its row are one transaction; an index is recorded
\* by the run that built it, before which it has no row.
LEMMA TruthStep ==
  ASSUME TypeOK, LockInv, FileInv, LedgerTruthful, NEW r \in Run, RunStep(r)
  PROVE  LedgerTruthful'
<1> SUFFICES ASSUME NEW n \in Name
             PROVE  /\ n \notin OnlineIndex => schema'[n] = ledger'[n]
                    /\ ledger'[n] # None => schema'[n] = ledger'[n]
  BY Zenon DEF LedgerTruthful
<1>0. /\ n \notin OnlineIndex => schema[n] = ledger[n]
      /\ ledger[n] # None => schema[n] = ledger[n]
      /\ ledger \in [Name -> Version \cup {None}]
      /\ schema \in [Name -> Version \cup {None, "manual", "invalid"}]
  BY Zenon DEF LedgerTruthful, TypeOK
<1>1. CASE n # Current(r) \/ UNCHANGED <<ledger, schema>>
  BY Zenon, <1>0, <1>1, DataFrame
<1>2. CASE FindIndex(r) \/ CreateIndex(r)
  <2>1. lock = r /\ OnIndex(r)
    BY Zenon, <1>2 DEF FindIndex, CreateIndex, At, OnDedicated, LockInv, Working, OnIndex
  <2>2. ledger[Current(r)] = None /\ Current(r) \in OnlineIndex
    BY Zenon, <2>1 DEF FileInv, FileKnown
  <2>3. ledger' = ledger
    BY Zenon, <1>2 DEF FindIndex, CreateIndex
  <2> QED
    BY Zenon, <1>1, <2>2, <2>3
<1>3. CASE n = Current(r) /\ stmt[r] # None /\ Effect(r)
  <2>1. CASE stmt[r] = "commit"
    BY Zenon, <1>0, <1>3, <2>1 DEF Effect, FileInv, FileKnown
  <2>2. CASE stmt[r] \in LockStatements
    <3>1. /\ n \in OnlineIndex /\ ledger[n] = None
          /\ stmt[r] = "insert" => schema[n] = Content(r)
      BY Zenon, <1>3, <2>2 DEF LockInv, FileInv, FileKnown, OnIndex
    <3> QED
      BY Zenon, <1>0, <1>3, <2>2, <3>1 DEF Effect, LockStatements
  <2> QED
    BY Zenon, <1>3, <2>1, <2>2 DEF TypeOK
<1>4. \/ UNCHANGED <<ledger, schema>> \/ (stmt[r] # None /\ Effect(r))
      \/ FindIndex(r) \/ CreateIndex(r)
  BY Zenon DEF RunStep, Start, AcquireMigrationLock, EnsureLedger, Finish, Unlock,
       OrdinaryMigration, OnlineIndexMigration, PassOver, BrokenConnection,
       InsertLedger, Execute, BackendExits, Crash, FailStatement,
       Aborted, QueryFails, LoseConnection, Database, Fixed
<1> QED
  BY Zenon, <1>1, <1>2, <1>3, <1>4

\* A run goes past a file only when it is recorded.
LEMMA PassesRecorded ==
  ASSUME TypeOK, LockInv, FileInv, NEW r \in Run, RunStep(r), pos'[r] # pos[r]
  PROVE  /\ pos'[r] = pos[r] + 1 /\ pos[r] <= Len(Filenames[r])
         /\ ledger'[Current(r)] # None
<1>1. NextFile(r)
  BY Zenon DEF RunStep, Start, AcquireMigrationLock, EnsureLedger, Finish, Unlock,
       OrdinaryMigration, OnlineIndexMigration, PassOver, BrokenConnection, FindIndex,
       CreateIndex, InsertLedger, Execute, Answered, BackendExits, Crash, FailStatement,
       Aborted, QueryFails, LoseConnection, Leave, Send, Database, Fixed
<1>2. pos'[r] = pos[r] + 1
  BY Zenon, <1>1 DEF NextFile, TypeOK
<1>3. CASE OrdinaryMigration(r) \/ OnlineIndexMigration(r)
  <2>1. /\ Applied(r) = "yes" /\ ledger' = ledger /\ pos[r] <= Len(Filenames[r])
    BY Zenon, <1>2, <1>3 DEF OrdinaryMigration, OnlineIndexMigration, PassOver, Leave, Send, At,
                      Database, TypeOK
  <2>2. ledger[Current(r)] # None
    BY Zenon, <2>1, CurrentFile DEF Applied
  <2> QED
    BY Zenon, <1>2, <2>1, <2>2
<1>4. CASE Execute(r)
  <2>1. stmt[r] \in {"commit", "insert"}
    BY Zenon, <1>2, <1>4 DEF Execute, Answered, Leave, LockStatements, TypeOK
  <2> QED
    BY Zenon, <1>2, <1>4, <2>1, EffectFrame DEF Execute
<1> QED
  BY Zenon, <1>2, <1>3, <1>4 DEF RunStep, Start, AcquireMigrationLock, EnsureLedger, Finish, Unlock,
       BrokenConnection, FindIndex,
       CreateIndex, InsertLedger, BackendExits, Crash, FailStatement,
       Aborted, QueryFails, LoseConnection, Leave, Send, Database, Fixed, TypeOK
\* The files are recorded in order, by whichever run: no run goes past a file
\* without a row, and no row is ever removed.
LEMMA OrderStep ==
  ASSUME TypeOK, TypeOK', LockInv, FileInv, OrderInv, NEW r \in Run, RunStep(r)
  PROVE  OrderInv'
<1>1. \A n \in Name : ledger[n] # None => ledger'[n] # None
  BY Zenon, DataFrame
<1>2. ASSUME NEW q \in Run, NEW i \in 1..(pos'[q] - 1)
      PROVE  ledger'[Filenames[q][i]] # None
  <2>1. pos[q] \in 1..(Len(Filenames[q]) + 1) /\ pos'[q] \in 1..(Len(Filenames[q]) + 1)
        /\ pos[q] \in Nat /\ pos'[q] \in Nat
    BY Zenon DEF TypeOK
  <2>2. i \in 1..Len(Filenames[q]) /\ Len(Filenames[q]) \in Nat
    BY <2>1, FilenamesSorted, DirectoryAssumption
  <2>3. Filenames[q][i] \in Name
    <3>1. Filenames[q][i] \in DOMAIN Directory[q]
      BY <2>2, FilenamesSorted, DirectoryAssumption
    <3> QED
      BY Zenon, <3>1 DEF Name
  <2>4. CASE i < pos[q]
    <3>1. i \in 1..(pos[q] - 1)
      BY <2>1, <2>2, <2>4
    <3> QED
      BY Zenon, <1>1, <2>3, <3>1 DEF OrderInv
  <2>5. CASE ~(i < pos[q])
    <3>1. q = r /\ pos'[r] # pos[r]
      BY <2>1, <2>2, <2>5, OthersStay
    <3>2. i = pos[r] /\ ledger'[Current(r)] # None
      BY <2>1, <2>2, <2>5, <3>1, PassesRecorded
    <3> QED
      BY Zenon, <3>1, <3>2 DEF Current
  <2> QED
    BY Zenon, <2>4, <2>5
<1>3. ASSUME NEW n \in Name, ledger'[n] # None, NEW m \in 1..(n - 1)
      PROVE  ledger'[m] # None
  <2>1. m \in Name
    <3>1. PICK q \in Run : n \in 1..Len(Directory[q]) /\ Len(Directory[q]) \in Nat
      BY Zenon, DirectoryAssumption DEF Name
    <3>2. m \in DOMAIN Directory[q]
      BY <3>1, DirectoryAssumption
    <3> QED
      BY Zenon, <3>2 DEF Name
  <2>2. CASE ledger[n] # None
    BY Zenon, <1>1, <1>3, <2>1, <2>2 DEF OrderInv
  <2>3. CASE ledger[n] = None
    <3>1. n = Current(r) /\ stmt[r] \in {"commit", "insert"}
      BY Zenon, <1>3, <2>3, DataFrame
    <3>2. pos[r] <= Len(Filenames[r])
      BY Zenon, <3>1 DEF FileInv, FileKnown, OnIndex, LockStatements
    <3>3. PICK i \in 1..(pos[r] - 1) : Filenames[r][i] = m
      BY Zenon, <3>1, <3>2, CurrentFile
    <3> QED
      BY Zenon, <1>1, <2>1, <3>3 DEF OrderInv
  <2> QED
    BY Zenon, <2>2, <2>3
<1> QED
  BY Zenon, <1>2, <1>3 DEF OrderInv

-----------------------------------------------------------------------------
(* Runs that no fault touches                                              *)

Faulty(r) == Crash(r) \/ FailStatement(r) \/ QueryFails(r) \/ LoseConnection(r)

\* A fault strikes a run that is under way, so a run it does not touch has not
\* begun or has ended, and stays as it is.
LEMMA FaultStrikes ==
  ASSUME TypeOK, NEW r \in Run, RunStep(r), Faulty(r), NEW q \in Run, clean'[q]
  PROVE  /\ q # r /\ clean[q] /\ pc[q] \in {"idle", "ended"}
         /\ pc'[q] = pc[q] /\ conn'[q] = conn[q] /\ outcome'[q] = outcome[q]
         /\ stmt'[q] = None
<1>1. Strike
  BY Zenon DEF Faulty, Crash, FailStatement, QueryFails, LoseConnection
<1>2. clean[q] /\ pc[q] \in {"idle", "ended"}
  BY Zenon, <1>1 DEF Strike
<1>3. pc[r] \notin {"idle", "ended"}
  BY Zenon DEF Faulty, Crash, FailStatement, QueryFails, LoseConnection, Aborted, Alive, At, TypeOK
<1>4. stmt[q] = None
  BY Zenon, <1>2 DEF TypeOK
<1> QED
  BY Zenon, <1>2, <1>3, <1>4, OthersStay

\* Without a fault no connection breaks and no process dies.
LEMMA QuietStep ==
  ASSUME TypeOK, NEW r \in Run, RunStep(r), ~Faulty(r)
  PROVE  /\ conn' = conn
         /\ clean' = clean \/ Start(r)
         /\ pc'[r] = "crashed" => pc[r] = "crashed" /\ stmt'[r] \in {stmt[r], None}
         /\ pc[r] = "ended" => pc'[r] = "ended"
         /\ pc[r] = "idle" => Start(r)
         /\ stmt'[r] = "commit" => \/ stmt[r] = "commit"
                                   \/ OrdinaryMigration(r) /\ Applied(r) = "no"
<1> USE DEF Goto, Leave, NextFile, Send, Database, Fixed
<1>1. conn' = conn /\ (clean' = clean \/ Start(r)) /\ (pc[r] = "idle" => Start(r))
  <2>1. conn' = conn /\ (clean' = clean \/ Start(r))
    BY Zenon DEF RunStep, Faulty, Start, AcquireMigrationLock, EnsureLedger, Finish, Unlock,
       OrdinaryMigration, OnlineIndexMigration, PassOver, BrokenConnection, FindIndex,
       CreateIndex, InsertLedger, Execute, BackendExits
  <2>2. pc[r] = "idle" => Start(r)
    BY Zenon DEF RunStep, Faulty, Start, AcquireMigrationLock, EnsureLedger, Finish, Unlock,
       OrdinaryMigration, OnlineIndexMigration, PassOver, BrokenConnection, FindIndex,
       CreateIndex, InsertLedger, Execute, BackendExits, At, TypeOK
  <2> QED
    BY Zenon, <2>1, <2>2
<1>2. pc'[r] = "crashed" => pc[r] = "crashed" /\ stmt'[r] \in {stmt[r], None}
  BY Zenon DEF RunStep, Faulty, Start, AcquireMigrationLock, EnsureLedger, Finish, Unlock,
       OrdinaryMigration, OnlineIndexMigration, PassOver, BrokenConnection, FindIndex,
       CreateIndex, InsertLedger, Execute, Answered, BackendExits, At, TypeOK
<1>3. pc[r] = "ended" => pc'[r] = "ended"
  BY Zenon DEF RunStep, Faulty, Start, AcquireMigrationLock, EnsureLedger, Finish, Unlock,
       OrdinaryMigration, OnlineIndexMigration, PassOver, BrokenConnection, FindIndex,
       CreateIndex, InsertLedger, Execute, BackendExits, At, TypeOK
<1>4. stmt'[r] = "commit" => \/ stmt[r] = "commit"
                             \/ OrdinaryMigration(r) /\ Applied(r) = "no"
  BY DEF RunStep, Faulty, Start, AcquireMigrationLock, EnsureLedger, Finish, Unlock,
       OrdinaryMigration, OnlineIndexMigration, PassOver, BrokenConnection, FindIndex,
       CreateIndex, InsertLedger, Execute, BackendExits, At, TypeOK, None
<1> QED
  BY Zenon, <1>1, <1>2, <1>3, <1>4

\* Hence without a fault nothing begins to act outside the lock.
LEMMA NothingLingers ==
  ASSUME TypeOK, CleanInv, NEW r \in Run, RunStep(r), ~Faulty(r), ~Lingering
  PROVE  ~Lingering'
<1> SUFFICES ASSUME NEW q \in Run,
                    \/ Alive(q)' /\ ~conn'[q]
                    \/ pc'[q] = "crashed" /\ stmt'[q] = "commit"
             PROVE  FALSE
  BY Zenon DEF Lingering
<1>1. ~(Alive(q) /\ ~conn[q]) /\ ~(pc[q] = "crashed" /\ stmt[q] = "commit")
  BY Zenon DEF Lingering
<1>2. conn'[q] = conn[q]
  BY Zenon, QuietStep
<1>3. CASE q # r
  BY Zenon, <1>1, <1>2, <1>3, OthersStay DEF Alive
<1>4. CASE q = r
  <2>1. CASE pc'[q] = "crashed" /\ stmt'[q] = "commit"
    BY Zenon, <1>1, <1>4, <2>1, QuietStep DEF None
  <2>2. CASE Alive(q)' /\ ~conn'[q]
    <3>1. pc[r] \notin {"ended", "crashed"} \/ (pc[r] = "crashed" /\ pc'[r] # "crashed")
      BY Zenon, <1>4, <2>2, QuietStep DEF Alive
    <3>2. pc[r] # "crashed"
      BY Zenon, <1>4, <2>2 DEF RunStep, Faulty, Start, AcquireMigrationLock, EnsureLedger, Finish,
         Unlock, OrdinaryMigration, OnlineIndexMigration, BrokenConnection, FindIndex,
         CreateIndex, InsertLedger, Execute, Answered, BackendExits, At, Alive, TypeOK
    <3>3. pc[r] # "idle"
      BY Zenon, <1>2, <1>4, <2>2 DEF CleanInv
    <3> QED
      BY Zenon, <1>1, <1>2, <1>4, <2>2, <3>1, <3>2, <3>3 DEF Alive
  <2> QED
    BY Zenon, <2>1, <2>2
<1> QED
  BY Zenon, <1>3, <1>4
\* The row of an ordinary migration that a clean run is about to commit is
\* inserted by nobody else: whoever else commits would hold the lock or linger.
LEMMA CommitAlone ==
  ASSUME TypeOK, LockInv, FileInv, CleanInv, NEW r \in Run, RunStep(r),
         NEW q \in Run \ {r}, clean[q], stmt[q] = "commit"
  PROVE  ledger'[Current(q)] = ledger[Current(q)]
<1>1. pc[q] = "waiting" /\ conn[q] /\ ~Lingering
  BY Zenon DEF CleanInv, CleanRun, TypeOK, None
<1>2. lock = q
  BY Zenon, <1>1 DEF LockInv, Working
<1>3. pos[q] <= Len(Filenames[q]) /\ Current(q) \notin OnlineIndex /\ Current(q) \in Name
  BY Zenon, CurrentFile DEF FileInv, FileKnown
<1>4. stmt[r] \notin LockStatements
  BY Zenon, <1>2 DEF LockInv
<1>5. stmt[r] # "commit"
  <2> SUFFICES ASSUME stmt[r] = "commit" PROVE FALSE
    BY Zenon
  <2>1. pc[r] \in {"waiting", "crashed"}
    BY Zenon DEF TypeOK, None
  <2>2. pc[r] # "crashed"
    BY Zenon, <1>1 DEF Lingering
  <2>3. Alive(r) /\ Working(r)
    BY Zenon, <2>1, <2>2 DEF Alive, Working
  <2>4. conn[r]
    BY Zenon, <1>1, <2>3 DEF Lingering
  <2> QED
    BY Zenon, <1>2, <2>3, <2>4 DEF LockInv
<1> QED
  BY Zenon, <1>3, <1>4, <1>5, DataFrame DEF LockStatements

\* A clean run that ends its loop does so without an error.
LEMMA CleanLeaves ==
  ASSUME TypeOK, LockInv, FileInv, CleanInv, NEW r \in Run, RunStep(r), ~Faulty(r),
         clean[r], pc'[r] \in {"unlock", "ended"}
  PROVE  outcome'[r] # "error"
<1>1. CleanRun(r)
  BY Zenon DEF CleanInv
<1>2. CASE pc[r] \in {"unlock", "ended"} /\ outcome'[r] = outcome[r]
  BY Zenon, <1>1, <1>2 DEF CleanRun
<1>3. CASE Unlock(r) \/ AcquireMigrationLock(r)
  BY <1>1, <1>3 DEF Unlock, AcquireMigrationLock, CleanRun, Goto, TypeOK
<1>4. CASE OrdinaryMigration(r) \/ OnlineIndexMigration(r) \/ Finish(r)
  BY Zenon, <1>4 DEF OrdinaryMigration, OnlineIndexMigration, Finish, PassOver, Leave, NextFile,
              Send, Goto, TypeOK
<1>5. CASE CreateIndex(r)
  <2>1. schema[Current(r)] = None
    BY Zenon, <1>1, <1>5 DEF CreateIndex, At, CleanRun, LockInv, Working, FileInv, FileKnown
  <2> QED
    BY Zenon, <1>5, <2>1 DEF CreateIndex, Send, Goto, TypeOK
<1>6. CASE Execute(r)
  <2>1. stmt[r] \in {"commit", "insert"} => ledger[Current(r)] = None
    BY Zenon, <1>1 DEF CleanRun, LockInv, FileInv, FileKnown, OnIndex, LockStatements
  <2>2. ~Refused(r)
    BY Zenon, <2>1 DEF Refused
  <2>3. Alive(r)
    BY Zenon, <1>1, <1>6 DEF Execute, CleanRun, Alive, TypeOK
  <2> QED
    BY Zenon, <1>6, <2>2, <2>3 DEF Execute, Answered, NextFile, Goto, TypeOK
<1>7. CASE BackendExits(r) \/ BrokenConnection(r)
  BY Zenon, <1>1, <1>7 DEF BackendExits, BrokenConnection, OnDedicated, CleanRun
<1> QED
  BY <1>3, <1>4, <1>5, <1>6, <1>7 DEF RunStep, Faulty, Start, EnsureLedger,
     FindIndex, InsertLedger, Send, Goto, TypeOK

\* A file that was found to be changed stays so: rows are never rewritten.
LEMMA ChangeStep ==
  ASSUME TypeOK, LockInv, FileInv, CleanInv, NEW r \in Run, RunStep(r), NEW q \in Run
  PROVE  ChangeSeen(q)'
<1> SUFFICES ASSUME outcome'[q] = "changed"
             PROVE  \E n \in DOMAIN Directory[q] : ledger'[n] \notin {None, Directory[q][n]}
  BY Zenon DEF ChangeSeen
<1>1. CASE outcome[q] = "changed"
  <2>1. PICK n \in DOMAIN Directory[q] : ledger[n] \notin {None, Directory[q][n]}
    BY Zenon, <1>1 DEF CleanInv, ChangeSeen
  <2>2. n \in Name
    BY Zenon DEF Name
  <2>3. ledger'[n] = ledger[n]
    BY Zenon, <2>1, <2>2, DataFrame
  <2> QED
    BY Zenon, <2>1, <2>3
<1>2. CASE outcome[q] # "changed"
  <2>1. q = r
    BY Zenon, <1>2, OthersStay
  <2>2. (OrdinaryMigration(r) \/ OnlineIndexMigration(r)) /\ Applied(r) = "changed"
    BY <1>2, <2>1 DEF RunStep, Start, AcquireMigrationLock, EnsureLedger, Finish, Unlock,
       OrdinaryMigration, OnlineIndexMigration, PassOver, BrokenConnection, FindIndex,
       CreateIndex, InsertLedger, Execute, Answered, BackendExits, Crash, FailStatement,
       Aborted, QueryFails, LoseConnection, Leave, NextFile, Send, Database, Fixed, TypeOK
  <2>3. pos[r] <= Len(Filenames[r]) /\ ledger' = ledger
    BY Zenon, <2>2 DEF OrdinaryMigration, OnlineIndexMigration, At, Database
  <2>4. ledger[Current(r)] \notin {None, Content(r)}
    BY Zenon, <2>2 DEF Applied
  <2> QED
    BY Zenon, <2>1, <2>3, <2>4, CurrentFile
<1> QED
  BY Zenon, <1>1, <1>2

\* A run that meets no failure comes to its end with its connection.
LEMMA CleanStep ==
  ASSUME TypeOK, TypeOK', LockInv, FileInv, CleanInv, NEW r \in Run, RunStep(r)
  PROVE  CleanInv'
<1>1. ASSUME NEW q \in Run, pc'[q] = "idle"
      PROVE  conn'[q]
  <2>1. q # r
    <3>1. \/ pc' = pc /\ (stmt[r] # None \/ Alive(r) \/ pc[r] = "crashed")
          \/ \E l : l # "idle" /\ pc' = [pc EXCEPT ![r] = l]
      BY Zenon DEF RunStep, Start, AcquireMigrationLock, EnsureLedger, Finish, Unlock,
         OrdinaryMigration, OnlineIndexMigration, PassOver, BrokenConnection, FindIndex,
         CreateIndex, InsertLedger, Execute, Answered, BackendExits, Crash, FailStatement,
         Aborted, QueryFails, LoseConnection, Leave, NextFile, Send, Goto
    <3>2. DOMAIN pc = Run /\ (stmt[r] # None => pc[r] # "idle")
      BY Zenon DEF TypeOK
    <3>3. pc'[r] # "idle"
      BY Zenon, <3>1, <3>2 DEF Alive
    <3> QED
      BY Zenon, <1>1, <3>3
  <2> QED
    BY Zenon, <1>1, <2>1, OthersStay DEF CleanInv
<1>2. ASSUME NEW q \in Run, clean'[q], Faulty(r)
      PROVE  CleanRun(q)'
  <2>1. /\ q # r /\ clean[q] /\ pc[q] \in {"idle", "ended"}
        /\ pc'[q] = pc[q] /\ conn'[q] = conn[q] /\ outcome'[q] = outcome[q]
        /\ stmt'[q] = None
    BY Zenon, <1>2, FaultStrikes
  <2> QED
    BY Zenon, <2>1 DEF CleanInv, CleanRun, None
<1>3. ASSUME NEW q \in Run, clean'[q], ~Faulty(r)
      PROVE  CleanRun(q)'
  <2>1. CASE q = r /\ Start(r)
    <3>1. clean'[r] = ~Lingering
      BY Zenon, <2>1 DEF Start, TypeOK
    <3>2. ~Lingering'
      BY Zenon, <1>3, <2>1, <3>1, NothingLingers
    <3>3. pc'[r] = "locking" /\ conn'[r] /\ stmt'[r] = None
      BY <2>1 DEF Start, Goto, CleanInv, TypeOK
    <3> QED
      BY Zenon, <2>1, <3>2, <3>3 DEF CleanRun, None
  <2>2. CASE q # r \/ ~Start(r)
    <3>1. clean[q]
      <4>1. clean' = clean \/ (q # r /\ Start(r))
        BY Zenon, <1>3, <2>2, QuietStep
      <4>2. q # r /\ Start(r) => clean'[q] = clean[q]
        BY Zenon DEF Start, TypeOK
      <4> QED
        BY Zenon, <1>3, <4>1, <4>2
    <3>2. CleanRun(q) /\ conn'[q] = conn[q]
      BY Zenon, <1>3, <3>1, QuietStep DEF CleanInv
    <3>3. pc'[q] # "crashed" /\ (pc'[q] \notin {"idle", "ended"} => pc[q] \notin {"idle", "ended"})
      BY Zenon, <1>3, <2>2, <3>2, QuietStep, OthersStay DEF CleanRun
    <3>4. pc'[q] \notin {"idle", "ended"} => ~Lingering'
      BY Zenon, <1>3, <3>2, <3>3, NothingLingers DEF CleanRun
    <3>5. stmt'[q] = "commit" => ledger'[Current(q)'] = None
      <4>1. CASE q # r
        BY <3>1, <3>2, <4>1, CommitAlone, OthersStay DEF CleanRun, Current
      <4>2. CASE q = r /\ OrdinaryMigration(r) /\ Applied(r) = "no" /\ stmt'[r] = "commit"
        <5>1. ledger[Current(r)] = None
          BY Zenon, <4>2 DEF Applied
        <5> QED
          BY Zenon, <4>2, <5>1 DEF OrdinaryMigration, PassOver, NextFile, Leave, Send, At, Database,
                            Current, None
      <4>3. CASE q = r /\ stmt[r] = "commit" /\ stmt'[r] = "commit"
        <5>1. BackendExits(r) \/ Crash(r) \/ LoseConnection(r)
          <6>1. pc[r] \in {"waiting", "crashed"}
            BY Zenon, <4>3 DEF TypeOK, None
          <6>2. stmt' # [stmt EXCEPT ![r] = None]
            <7>1. [stmt EXCEPT ![r] = None][r] = None
              BY Zenon DEF TypeOK
            <7> QED
              BY Zenon, <4>3, <7>1 DEF None
          <6> QED
            BY Zenon, <6>1, <6>2 DEF RunStep, Start, AcquireMigrationLock, EnsureLedger, Finish,
               Unlock, OrdinaryMigration, OnlineIndexMigration, BrokenConnection, FindIndex,
               CreateIndex, InsertLedger, Execute, FailStatement, Aborted, QueryFails, At
        <5> QED
          BY Zenon, <1>3, <3>2, <4>3, <5>1 DEF BackendExits, Faulty, CleanRun
      <4> QED
        BY Zenon, <1>3, <4>1, <4>2, <4>3, QuietStep
    <3>6. pc'[q] \in {"unlock", "ended"} => outcome'[q] # "error"
      BY Zenon, <1>3, <3>1, <3>2, CleanLeaves, OthersStay DEF CleanRun
    <3> QED
      BY Zenon, <3>2, <3>3, <3>4, <3>5, <3>6 DEF CleanRun
  <2> QED
    BY Zenon, <2>1, <2>2
<1> QED
  BY Zenon, <1>1, <1>2, <1>3, ChangeStep DEF CleanInv

-----------------------------------------------------------------------------
(* The inductive invariant and what follows from it                        *)

\* Before the first run the invariant holds.
LEMMA InitIInv == Init => IInv
<1> SUFFICES ASSUME Init PROVE IInv
  BY Zenon
<1>1. TypeOK
  <2>1. ASSUME NEW r \in Run PROVE 1 \in 1..(Len(Filenames[r]) + 1)
    <3>1. Len(Filenames[r]) \in Nat
      BY Zenon, FilenamesSorted, DirectoryAssumption
    <3> QED
      BY <3>1
  <2> QED
    BY <2>1, MigrationsAssumption DEF Init, TypeOK, None
<1>2. LockInv /\ FileInv /\ LedgerTruthful
  BY Zenon DEF Init, LockInv, FileInv, FileKnown, LedgerTruthful, Working, OnIndex, LockStatements, None
<1>3. OrderInv
  BY DEF Init, OrderInv
<1>4. CleanInv
  BY Zenon DEF Init, CleanInv, CleanRun, ChangeSeen, None
<1> QED
  BY Zenon, <1>1, <1>2, <1>3, <1>4 DEF IInv

\* Every step of a run keeps the invariant.
LEMMA StepIInv == IInv /\ [Next]_vars => IInv'
<1> SUFFICES ASSUME IInv, [Next]_vars PROVE IInv'
  BY Zenon
<1> USE DEF IInv
<1>1. CASE Next
  <2>1. PICK r \in Run : RunStep(r)
    BY Zenon, <1>1 DEF Next, RunStep
  <2>2. TypeOK'
    BY Zenon, <1>1, TypeStep
  <2>3. LockInv'
    BY Zenon, <2>1, <2>2, LockStep
  <2>4. FileInv'
    BY Zenon, <2>1, <2>2, FileOthers, FileOwn DEF FileInv
  <2> QED
    BY Zenon, <2>1, <2>2, <2>3, <2>4, TruthStep, OrderStep, CleanStep
<1>2. CASE UNCHANGED vars
  <2>1. TypeOK' /\ OrderInv' /\ LedgerTruthful'
    BY Zenon, <1>2 DEF vars, TypeOK, OrderInv, LedgerTruthful
  <2>2. LockInv' /\ FileInv'
    BY Zenon, <1>2 DEF vars, LockInv, FileInv, FileKnown, Working, OnIndex, Current, Content
  <2>3. CleanInv'
    BY Zenon, <1>2 DEF vars, CleanInv, CleanRun, ChangeSeen, Lingering, Alive, Current, Content
  <2> QED
    BY Zenon, <2>1, <2>2, <2>3
<1> QED
  BY Zenon, <1>1, <1>2

\* The strengthened invariant holds in every state the migration job reaches.
THEOREM Invariant == Spec => []IInv
BY InitIInv, StepIInv, PTL DEF Spec

\* Whatever crashes, breaks or overlaps, the ledger tells the truth: a recorded
\* migration is in the schema with the recorded content, and an ordinary one is
\* never in the schema without its row (applyMigration and the index branch of
\* migrate.ts).
THEOREM LedgerIsTruthful == Spec => []LedgerTruthful
<1>1. IInv => LedgerTruthful
  BY Zenon DEF IInv
<1> QED
  BY <1>1, Invariant, PTL

\* The API's health check asks for one row, that of the last migration of its
\* release; when that is there, so is everything the release needs.
THEOREM ReadyIsMigrated == Spec => []ReadyMeansMigrated
<1>1. IInv => ReadyMeansMigrated
  <2> SUFFICES ASSUME IInv, NEW r \in Run, Health(Len(Filenames[r])),
                      NEW n \in 1..Len(Filenames[r])
               PROVE  schema[n] \in Version
    BY Zenon DEF ReadyMeansMigrated
  <2>1. /\ Len(Filenames[r]) = Len(Directory[r]) /\ Len(Directory[r]) \in Nat \ {0}
        /\ DOMAIN Directory[r] = 1..Len(Directory[r])
    BY Zenon, FilenamesSorted, DirectoryAssumption
  <2>2. n \in Name /\ Len(Filenames[r]) \in Name
    BY <2>1 DEF Name
  <2>3. ledger[n] # None
    <3>1. CASE n = Len(Filenames[r])
      BY Zenon, <3>1 DEF Health
    <3>2. CASE n # Len(Filenames[r])
      <4>1. n \in 1..(Len(Filenames[r]) - 1)
        BY <2>1, <3>2
      <4> QED
        BY Zenon, <2>2, <4>1 DEF Health, IInv, OrderInv
    <3> QED
      BY Zenon, <3>1, <3>2
  <2> QED
    BY <2>2, <2>3 DEF IInv, TypeOK, LedgerTruthful
<1> QED
  BY <1>1, Invariant, PTL

\* Whatever state faults have left behind, a later run that no fault touches
\* ends well, or finds a file whose content has changed, or never gets the lock.
THEOREM CleanRunsSucceed == Spec => []RerunSucceeds
<1>1. IInv => RerunSucceeds
  <2> SUFFICES ASSUME IInv, NEW r \in Run, pc[r] = "ended", clean[r]
               PROVE  \/ outcome[r] \in {"done", "timeout"}
                      \/ /\ outcome[r] = "changed"
                         /\ \E n \in DOMAIN Directory[r] : ledger[n] \notin {None, Directory[r][n]}
    BY Zenon DEF RerunSucceeds
  <2>1. outcome[r] \in {"done", "changed", "timeout", "error"} /\ outcome[r] # "error"
    BY Zenon DEF IInv, TypeOK, CleanInv, CleanRun
  <2>2. ChangeSeen(r)
    BY Zenon DEF IInv, CleanInv
  <2> QED
    BY Zenon, <2>1, <2>2 DEF ChangeSeen
<1> QED
  BY <1>1, Invariant, PTL
=============================================================================
