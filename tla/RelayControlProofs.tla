-------------------------- MODULE RelayControlProofs --------------------------
(***************************************************************************)
(* The safety properties of RelayControl for any number of connections and *)
(* relays and any timeouts.  What a connection may still do is bounded by  *)
(* its clocks: every bound on how long a session has ended, how long a     *)
(* lease is lost or how long it still runs is a bound on those clocks.     *)
(***************************************************************************)
EXTENDS RelayControl, FiniteSetTheorems, TLAPS

\* No timer and no call is overdue, and checks belong to pairs.
ClockKept(c) ==
    /\ pc[c] = "open" => clock[c] <= CheckInterval
    /\ pc[c] = "connecting" => clock[c] <= ConnectTimeout
    /\ pc[c] \in {"authRow", "authKey", "acquiring", "acquired", "reauthRow", "reauthKey"} =>
         clock[c] <= CallDelay
    /\ pc[c] \in {"idle"} \cup Upgrading => chk[c] = "none" /\ ren[c] = "none"

\* How long the session may have ended, by what was read of it last.
EndKept(c) ==
    /\ pc[c] \in {"authKey", "reauthKey"} => ended <= clock[c]
    /\ pc[c] = "connecting" => ended <= CallDelay + clock[c]
    /\ pc[c] = "open" =>
         /\ chk[c] = "none" => ended <= CallDelay + ConnectTimeout + clock[c]
         /\ chk[c] = "row" => ended <= CallDelay + ConnectTimeout + CheckInterval + cage[c]
         /\ chk[c] \in {"key", "ok"} => ended <= cage[c]

\* How long an open pair may be without the lease, by its last renewal.
LossKept(c) ==
    /\ pc[c] \in {"idle", "abandoned"} \cup Upgrading => lost[c] = 0
    /\ lost[c] <= LossGrace
    /\ pc[c] = "open" =>
         /\ lease.owner = c => lost[c] = 0
         /\ chk[c] = "none" => lost[c] <= CallDelay + clock[c]
         /\ chk[c] # "none" /\ ren[c] = "yes" => lost[c] <= cage[c]
         /\ chk[c] # "none" /\ ren[c] # "yes" => lost[c] <= CallDelay + CheckInterval + cage[c]

\* The positions of a connection that counts on the lease.
Holding == {"acquired", "reauthRow", "reauthKey", "connecting", "open"}

\* From its acquisition until the pair closes the lease is held, ...
OwnedKept(c) == pc[c] \in Holding => lease.owner = c

\* ... and its time is what has passed since it was acquired or renewed.
HeldKept(c) ==
    /\ OwnedKept(c)
    /\ pc[c] = "acquired" => LeaseTTL <= lease.ttl + clock[c]
    /\ pc[c] \in {"reauthRow", "reauthKey"} => LeaseTTL <= lease.ttl + CallDelay + clock[c]
    /\ pc[c] = "connecting" => LeaseTTL <= lease.ttl + 2 * CallDelay + clock[c]
    /\ pc[c] = "open" =>
         /\ chk[c] = "none" => LeaseTTL <= lease.ttl + 2 * CallDelay + ConnectTimeout + clock[c]
         /\ chk[c] # "none" /\ ren[c] = "yes" => LeaseTTL <= lease.ttl + cage[c]
         /\ chk[c] # "none" /\ ren[c] # "yes" =>
              LeaseTTL <= lease.ttl + 2 * CallDelay + ConnectTimeout + CheckInterval + cage[c]

\* The lease is young while its owner is being authorized: nobody owns it before
\* it is acquired, and a registered connection is registered at its own relay.
OwnerKept ==
    /\ lease.owner # "none" => pc[lease.owner] \notin {"idle", "authRow", "authKey", "acquiring"}
    /\ \A r \in Relay : active[r] # "none" => home[active[r]] = r
    /\ sess = "active" => ended = 0

Timely(c) == ClockKept(c) /\ EndKept(c) /\ LossKept(c)

\* What holds whatever happens to Redis and however the timeouts are chosen.
BaseInv == TypeOK /\ OwnerKept /\ LeaseAccounted /\ \A c \in Conn : Timely(c)

\* A lease runs out, or is lost with the data in Redis, under a connection that
\* counts on it.
Lapses ==
    /\ Tick \/ Flush
    /\ lease' = Free
    /\ lease.owner # "none" /\ pc[lease.owner] \in Holding

\* What the lease adds, while none has lapsed.
OwnedInv == (\A c \in Conn : OwnedKept(c)) /\ OpenIsRegistered /\ DrainingClosesAll

\* The lease outlasts the answer to its acquisition, the rest of the upgrade and the
\* first check after it.
LeaseOutlasts == LeaseTTL > ConnectTimeout + CheckInterval + 3 * CallDelay

\* How long a lease still runs, until Redis loses it.
HeldInv == flushes = 0 => \A c \in Conn : HeldKept(c)

-------------------------------------------------------------------------------
(* Types                                                                     *)

\* What the types say of the numbers.
LEMMA Numbers ==
    ASSUME TypeOK
    PROVE  /\ faults \in Nat /\ flushes \in Nat /\ ended \in Nat
           /\ LeaseTTL \in Nat /\ CallDelay \in Nat /\ ConnectTimeout \in Nat
           /\ CheckInterval \in Nat
           /\ lease.owner \in Conn \cup {"none"} /\ lease.ttl \in 0..LeaseTTL /\ lease.ttl \in Nat
           /\ \A c \in Conn : /\ clock[c] \in Nat /\ cage[c] \in 0..CallDelay /\ cage[c] \in Nat
                              /\ lost[c] \in Nat
<1>1. /\ faults \in Nat /\ flushes \in Nat /\ ended \in Nat
      /\ LeaseTTL \in Nat /\ CallDelay \in Nat /\ ConnectTimeout \in Nat /\ CheckInterval \in Nat
    BY RelayControlAssumption DEF TypeOK, EndGrace
<1>2. lease.owner \in Conn \cup {"none"} /\ lease.ttl \in 0..LeaseTTL
    BY Zenon DEF TypeOK
<1>3. \A c \in Conn : clock[c] \in Nat /\ cage[c] \in 0..CallDelay /\ lost[c] \in 0..(LossGrace + 1)
    BY Zenon DEF TypeOK
<1> QED
    BY <1>1, <1>2, <1>3 DEF LossGrace

\* A connection moves to another position and restarts its clock.
LEMMA GotoType ==
    ASSUME TypeOK, NEW c \in Conn, NEW p \in Pc, Goto(c, p)
    PROVE  /\ pc' \in [Conn -> Pc] /\ clock' \in [Conn -> Nat]
           /\ pc'[c] = p /\ clock'[c] = 0
           /\ \A d \in Conn \ {c} : pc'[d] = pc[d] /\ clock'[d] = clock[d]
BY DEF TypeOK, Goto

\* closeBoth takes open connections of the set to "closing" and nothing else.
LEMMA CloseBothType ==
    ASSUME TypeOK, NEW S, CloseBoth(S)
    PROVE  /\ pc' \in [Conn -> Pc] /\ clock' \in [Conn -> Nat]
           /\ \A d \in Conn : \/ pc[d] = "open" /\ pc'[d] = "closing" /\ d \in S
                              \/ /\ pc'[d] = pc[d] /\ clock'[d] = clock[d]
                                 /\ ~(pc[d] = "open" /\ d \in S)
BY Zenon DEF TypeOK, CloseBoth, Pc, Paired

\* finalizeIfClosed leaves a connection without transports and without a check.
LEMMA FinalizeType ==
    ASSUME TypeOK, NEW c \in Conn, Finalize(c)
    PROVE  /\ pc' \in [Conn -> Pc] /\ clock' \in [Conn -> Nat] /\ pc'[c] = "releasing"
           /\ \A d \in Conn \ {c} : /\ pc'[d] = pc[d] /\ clock'[d] = clock[d] /\ chk'[d] = chk[d]
                                    /\ ren'[d] = ren[d] /\ cage'[d] = cage[d]
           /\ sides' \in [Conn -> SUBSET {"client", "upstream"}]
           /\ \A d \in Conn : sides'[d] # {} <=> pc'[d] \in Paired
           /\ chk' \in [Conn -> {"none", "row", "key", "ok"}]
           /\ ren' \in [Conn -> {"none", "sent", "yes", "no"}]
           /\ cage' \in [Conn -> 0..CallDelay]
           /\ active' \in [Relay -> Conn \cup {"none"}]
<1>1. /\ pc' \in [Conn -> Pc] /\ clock' \in [Conn -> Nat] /\ pc'[c] = "releasing"
      /\ \A d \in Conn \ {c} : pc'[d] = pc[d] /\ clock'[d] = clock[d]
    BY Zenon, GotoType DEF Finalize, Pc
<1>2. /\ sides' \in [Conn -> SUBSET {"client", "upstream"}] /\ sides'[c] = {}
      /\ \A d \in Conn \ {c} : sides'[d] = sides[d]
    BY Zenon DEF Finalize, TypeOK
<1>3. \A d \in Conn : sides'[d] # {} <=> pc'[d] \in Paired
    BY <1>1, <1>2 DEF TypeOK, Paired
<1>4. /\ chk' \in [Conn -> {"none", "row", "key", "ok"}]
      /\ ren' \in [Conn -> {"none", "sent", "yes", "no"}]
      /\ \A d \in Conn \ {c} : chk'[d] = chk[d] /\ ren'[d] = ren[d] /\ cage'[d] = cage[d]
    BY Zenon DEF Finalize, TypeOK
<1>5. cage' \in [Conn -> 0..CallDelay] /\ active' \in [Relay -> Conn \cup {"none"}]
    BY RelayControlAssumption DEF Finalize, TypeOK, Unregister
<1> QED
    BY Zenon, <1>1, <1>2, <1>3, <1>4, <1>5

\* The lease after a command of its owner, or of anybody else.
LEMMA LeaseType ==
    ASSUME TypeOK, NEW c \in Conn
    PROVE  /\ Freed(c) \in [owner : Conn \cup {"none"}, ttl : 0..LeaseTTL]
           /\ Freed(c).owner = "none" <=> Freed(c).ttl = 0
           /\ Renewed(c) \in [owner : Conn \cup {"none"}, ttl : 0..LeaseTTL]
           /\ Renewed(c).owner = lease.owner
           /\ Renewed(c).ttl = IF lease.owner = c THEN LeaseTTL ELSE lease.ttl
           /\ Free \in [owner : Conn \cup {"none"}, ttl : 0..LeaseTTL]
           /\ Free.owner = "none" /\ Free.ttl = 0
<1>1. /\ lease \in [owner : Conn \cup {"none"}, ttl : 0..LeaseTTL]
      /\ lease.owner = "none" <=> lease.ttl = 0
    BY Zenon DEF TypeOK
<1>2. LeaseTTL \in 0..LeaseTTL /\ 0 \in 0..LeaseTTL
    BY RelayControlAssumption
<1> QED
    BY Zenon, <1>1, <1>2 DEF Freed, Renewed, Free

\* A step of an upgrade or a release: no transport is involved.
LEMMA UpgradeType ==
    ASSUME TypeOK, NEW c \in Conn,
           \/ Upgrade(c) \/ AuthorizeRow(c) \/ AuthorizeKey(c) \/ Acquire(c)
           \/ AcquireAnswered(c) \/ AcquireUnanswered(c) \/ Abandon(c) \/ Release(c) \/ ReleaseFails(c)
    PROVE  TypeOK'
<1>1. /\ UNCHANGED <<sess, revoked, msgs, home, sides, chk, ren, cage, active, drain, dclock,
                     ended, lost, flushes>>
      /\ faults' \in 0..MaxFaults
    BY RelayControlAssumption
    DEF TypeOK, Upgrade, AuthorizeRow, AuthorizeKey, Acquire, AcquireAnswered, AcquireUnanswered, Abandon, Release,
        ReleaseFails, rvars, pvars, hvars, Fault
<1>2. \E p \in Pc \ Paired : \/ Goto(c, p)
                             \/ pc' = [pc EXCEPT ![c] = p] /\ clock' = clock
    BY Zenon DEF Upgrade, AuthorizeRow, AuthorizeKey, Acquire, AcquireAnswered, AcquireUnanswered, Abandon, Release,
           ReleaseFails, OnRefusal, Pc, Paired, Upgrading, Finished
<1>3. pc' \in [Conn -> Pc] /\ clock' \in [Conn -> Nat] /\ pc'[c] \notin Paired
      /\ \A d \in Conn \ {c} : pc'[d] = pc[d]
    BY <1>2, GotoType DEF TypeOK
<1>4. pc[c] \notin Paired
    BY Zenon DEF Upgrade, AuthorizeRow, AuthorizeKey, Acquire, AcquireAnswered, AcquireUnanswered, Abandon, Release,
           ReleaseFails, Paired
<1>5. /\ lease' \in [owner : Conn \cup {"none"}, ttl : 0..LeaseTTL]
      /\ lease'.owner = "none" <=> lease'.ttl = 0
    <2>1. lease' \in {lease, Freed(c), [owner |-> c, ttl |-> LeaseTTL]}
        BY Zenon DEF Upgrade, AuthorizeRow, AuthorizeKey, Acquire, AcquireAnswered, AcquireUnanswered, Abandon, Release,
               ReleaseFails, rvars
    <2>2. /\ lease \in [owner : Conn \cup {"none"}, ttl : 0..LeaseTTL]
          /\ lease.owner = "none" <=> lease.ttl = 0
        BY Zenon DEF TypeOK
    <2> QED
        BY <2>1, <2>2, LeaseType, RelayControlAssumption
<1> QED
    BY Zenon, <1>1, <1>3, <1>4, <1>5 DEF TypeOK

\* A step of a pair.
LEMMA PairType ==
    ASSUME TypeOK, NEW c \in Conn,
           \/ Connect(c) \/ SideCloses(c) \/ StreamFails(c) \/ SessionDeadline(c) \/ HardClose(c)
    PROVE  TypeOK'
<1>1. UNCHANGED <<rvars, home, drain, dclock, ended, lost, faults, flushes>>
    BY Zenon DEF Connect, SideCloses, StreamFails, SessionDeadline, HardClose, pvars, hvars
<1>2. ASSUME UNCHANGED <<active, chk, ren, cage>>, CloseBoth({c}),
             sides' \in [Conn -> SUBSET {"client", "upstream"}],
             \A d \in Conn : sides'[d] = {} <=> sides[d] = {}
      PROVE  TypeOK'
    <2>1. \A d \in Conn : sides'[d] # {} <=> pc'[d] \in Paired
        BY Zenon, <1>2, CloseBothType DEF TypeOK, Paired
    <2> QED
        BY Zenon, <1>1, <1>2, <2>1, CloseBothType DEF TypeOK, rvars
<1>3. CASE Finalize(c)
    BY Zenon, <1>1, <1>3, FinalizeType DEF TypeOK, rvars
<1>4. CASE Connect(c)
    <2>1. CASE Goto(c, "releasing") /\ UNCHANGED <<sides, active, chk, ren, cage>>
        BY <1>1, <1>4, <2>1, GotoType DEF TypeOK, rvars, Connect, Pc, Paired
    <2>2. CASE Goto(c, "open") /\ sides' = [sides EXCEPT ![c] = {"client", "upstream"}]
        <3>1. /\ pc' \in [Conn -> Pc] /\ clock' \in [Conn -> Nat] /\ pc'[c] = "open"
              /\ \A d \in Conn \ {c} : pc'[d] = pc[d]
            BY Zenon, <2>2, GotoType DEF Pc, Paired
        <3>2. sides' \in [Conn -> SUBSET {"client", "upstream"}]
              /\ active' \in [Relay -> Conn \cup {"none"}] /\ UNCHANGED <<chk, ren, cage>>
            BY <1>4, <2>2 DEF TypeOK, Connect
        <3>3. sides'[c] # {} /\ \A d \in Conn \ {c} : sides'[d] = sides[d]
            BY Zenon, <2>2 DEF TypeOK
        <3>4. \A d \in Conn : sides'[d] # {} <=> pc'[d] \in Paired
            BY <3>1, <3>3 DEF TypeOK, Paired
        <3> QED
            BY Zenon, <1>1, <3>1, <3>2, <3>4 DEF TypeOK, rvars
    <2> QED
        BY Zenon, <1>4, <2>1, <2>2 DEF Connect
<1>5. CASE SideCloses(c) /\ ~Finalize(c)
    <2>1. PICK x \in sides[c] : /\ sides[c] # {x} /\ sides' = [sides EXCEPT ![c] = @ \ {x}]
                                /\ CloseBoth({c}) /\ UNCHANGED <<active, chk, ren, cage>>
        BY Zenon, <1>5 DEF SideCloses
    <2> QED
        BY <1>2, <2>1 DEF TypeOK
<1>6. CASE StreamFails(c) \/ SessionDeadline(c)
    BY Zenon, <1>2, <1>6 DEF StreamFails, SessionDeadline, pvars, TypeOK
<1> QED
    BY Zenon, <1>3, <1>4, <1>5, <1>6 DEF HardClose

\* A step of a running check.
LEMMA CheckType ==
    ASSUME TypeOK, NEW c \in Conn,
           \/ CheckTimer(c) \/ CheckAuthorizes(c) \/ CheckRenews(c) \/ RenewFails(c) \/ CheckEnds(c)
    PROVE  TypeOK'
<1>1. UNCHANGED <<sess, revoked, msgs, home, sides, active, drain, dclock, ended, lost, faults,
                  flushes>>
    BY Zenon DEF CheckTimer, CheckAuthorizes, CheckRenews, RenewFails, CheckEnds, rvars, pvars, hvars
<1>2. /\ pc' \in [Conn -> Pc] /\ clock' \in [Conn -> Nat]
      /\ \A d \in Conn : sides[d] # {} <=> pc'[d] \in Paired
    <2>1. CASE CloseBoth({c})
        BY Zenon, <2>1, CloseBothType DEF TypeOK, Paired
    <2>2. CASE pc' = pc /\ clock' \in [Conn -> Nat]
        BY Zenon, <2>2 DEF TypeOK
    <2> QED
        BY <2>1, <2>2 DEF TypeOK, CheckTimer, CheckAuthorizes, CheckRenews, RenewFails, CheckEnds
<1>3. chk' \in [Conn -> {"none", "row", "key", "ok"}]
    BY DEF TypeOK, CheckTimer, CheckAuthorizes, CheckRenews, RenewFails, CheckEnds
<1>4. ren' \in [Conn -> {"none", "sent", "yes", "no"}]
    BY DEF TypeOK, CheckTimer, CheckAuthorizes, CheckRenews, RenewFails, CheckEnds
<1>5. cage' \in [Conn -> 0..CallDelay]
    BY RelayControlAssumption
    DEF TypeOK, CheckTimer, CheckAuthorizes, CheckRenews, RenewFails, CheckEnds
<1>6. /\ lease' \in [owner : Conn \cup {"none"}, ttl : 0..LeaseTTL]
      /\ lease'.owner = "none" <=> lease'.ttl = 0
    <2>1. lease' \in {lease, Renewed(c)}
        BY Zenon DEF CheckTimer, CheckAuthorizes, CheckRenews, RenewFails, CheckEnds, rvars
    <2>2. /\ lease \in [owner : Conn \cup {"none"}, ttl : 0..LeaseTTL]
          /\ lease.owner = "none" <=> lease.ttl = 0
        BY Zenon DEF TypeOK
    <2> QED
        BY <2>1, <2>2, LeaseType, RelayControlAssumption
<1> QED
    BY Zenon, <1>1, <1>2, <1>3, <1>4, <1>5, <1>6 DEF TypeOK

\* A process that ends takes its connections along.
LEMMA DieType ==
    ASSUME TypeOK, NEW r \in Relay, Die(r)
    PROVE  /\ pc' \in [Conn -> Pc] /\ clock' \in [Conn -> Nat]
           /\ sides' \in [Conn -> SUBSET {"client", "upstream"}]
           /\ \A d \in Conn : sides'[d] # {} <=> pc'[d] \in Paired
           /\ chk' \in [Conn -> {"none", "row", "key", "ok"}]
           /\ ren' \in [Conn -> {"none", "sent", "yes", "no"}]
           /\ cage' \in [Conn -> 0..CallDelay]
           /\ active' \in [Relay -> Conn \cup {"none"}]
           /\ drain' \in [Relay -> {"up", "draining", "terminating", "stopped", "dead"}]
           /\ dclock' \in [Relay -> 0..DrainTimeout]
<1> DEFINE S == {c \in Conn : home[c] = r /\ pc[c] # "idle" /\ pc[c] \notin Finished}
<1>1. /\ pc' = [c \in Conn |-> IF c \in S THEN "done" ELSE pc[c]]
      /\ clock' = [c \in Conn |-> IF c \in S THEN 0 ELSE clock[c]]
      /\ sides' = [c \in Conn |-> IF c \in S THEN {} ELSE sides[c]]
      /\ chk' = [c \in Conn |-> IF c \in S THEN "none" ELSE chk[c]]
      /\ ren' = [c \in Conn |-> IF c \in S THEN "none" ELSE ren[c]]
      /\ cage' = [c \in Conn |-> IF c \in S THEN 0 ELSE cage[c]]
    BY Zenon DEF Die
<1> HIDE DEF S
<1>2. /\ pc' \in [Conn -> Pc] /\ clock' \in [Conn -> Nat]
      /\ chk' \in [Conn -> {"none", "row", "key", "ok"}]
      /\ ren' \in [Conn -> {"none", "sent", "yes", "no"}]
    BY Zenon, <1>1 DEF TypeOK, Pc, Finished
<1>3. /\ sides' \in [Conn -> SUBSET {"client", "upstream"}]
      /\ \A d \in Conn : sides'[d] # {} <=> pc'[d] \in Paired
    BY Zenon, <1>1 DEF TypeOK, Paired
<1>4. cage' \in [Conn -> 0..CallDelay]
    BY <1>1, RelayControlAssumption DEF TypeOK
<1>5. /\ active' \in [Relay -> Conn \cup {"none"}]
      /\ drain' \in [Relay -> {"up", "draining", "terminating", "stopped", "dead"}]
      /\ dclock' \in [Relay -> 0..DrainTimeout]
    BY RelayControlAssumption DEF TypeOK, Die, Stage
<1> QED
    BY Zenon, <1>2, <1>3, <1>4, <1>5

\* A step of a relay process.
LEMMA RelayType ==
    ASSUME TypeOK, NEW r \in Relay, Deliver(r) \/ Shutdown(r) \/ Drain(r) \/ Crash(r)
    PROVE  TypeOK'
<1>1. /\ UNCHANGED <<sess, revoked, lease, home, ended, lost, flushes>>
      /\ msgs' \subseteq Relay /\ faults' \in 0..MaxFaults
    BY RelayControlAssumption
    DEF TypeOK, Deliver, Shutdown, Drain, DrainTerminates, DrainStops, DrainForced, Crash, Fault,
        rvars, cvars, hvars
<1>2. ASSUME NEW S, CloseBoth(S) \/ UNCHANGED <<pc, clock>>, UNCHANGED <<sides, chk, ren, cage>>,
             active' \in [Relay -> Conn \cup {"none"}],
             drain' \in [Relay -> {"up", "draining", "terminating", "stopped", "dead"}],
             dclock' \in [Relay -> 0..DrainTimeout]
      PROVE  TypeOK'
    <2>1. pc' \in [Conn -> Pc] /\ clock' \in [Conn -> Nat]
          /\ \A d \in Conn : pc'[d] \in Paired <=> pc[d] \in Paired
        BY <1>2, CloseBothType DEF TypeOK, Paired
    <2> QED
        BY Zenon, <1>1, <1>2, <2>1 DEF TypeOK
<1>3. ASSUME NEW d \in {"draining", "terminating", "stopped", "dead"}, Stage(r, d)
      PROVE  /\ drain' \in [Relay -> {"up", "draining", "terminating", "stopped", "dead"}]
             /\ dclock' \in [Relay -> 0..DrainTimeout]
    BY <1>3, RelayControlAssumption DEF TypeOK, Stage
<1>4. CASE Deliver(r)
    BY Zenon, <1>2, <1>4 DEF Deliver, pvars, TypeOK
<1>5. CASE Shutdown(r)
    BY Zenon, <1>2, <1>3, <1>5 DEF Shutdown, TypeOK
<1>6. CASE DrainTerminates(r)
    <2>1. CASE active[r] = "none"
        BY <1>2, <1>3, <1>6, <2>1 DEF DrainTerminates, TypeOK
    <2>2. CASE active[r] # "none"
        <3>1. active[r] \in Conn /\ Finalize(active[r]) /\ Stage(r, "terminating")
            BY Zenon, <1>6, <2>2 DEF DrainTerminates, TypeOK
        <3> QED
            BY Zenon, <1>1, <1>3, <3>1, FinalizeType DEF TypeOK
    <2> QED
        BY Zenon, <2>1, <2>2
<1>7. CASE DrainStops(r)
    <2>1. active' \in [Relay -> Conn \cup {"none"}] /\ UNCHANGED cvars /\ Stage(r, "stopped")
        BY Zenon, <1>7 DEF DrainStops, TypeOK
    <2> QED
        BY Zenon, <1>2, <1>3, <2>1 DEF cvars
<1>8. CASE Die(r)
    BY Zenon, <1>1, <1>8, DieType DEF TypeOK
<1> QED
    BY Zenon, <1>4, <1>5, <1>6, <1>7, <1>8 DEF Drain, DrainForced, Crash

\* Time passes, within the bounds of every timer.
LEMMA TickType ==
    ASSUME TypeOK, Tick
    PROVE  TypeOK'
<1>1. UNCHANGED <<sess, revoked, msgs, pc, home, sides, chk, ren, active, drain, faults, flushes>>
    BY Zenon DEF Tick
<1>2. clock' \in [Conn -> Nat]
    BY DEF Tick, TypeOK
<1>3. cage' \in [Conn -> 0..CallDelay]
    BY RelayControlAssumption DEF Tick, TypeOK
<1>4. dclock' \in [Relay -> 0..DrainTimeout]
    BY RelayControlAssumption DEF Tick, TypeOK
<1>5. /\ lease' \in [owner : Conn \cup {"none"}, ttl : 0..LeaseTTL]
      /\ lease'.owner = "none" <=> lease'.ttl = 0
    <2>1. /\ lease \in [owner : Conn \cup {"none"}, ttl : 0..LeaseTTL] /\ LeaseTTL \in Nat
          /\ lease.owner = "none" <=> lease.ttl = 0
        BY Zenon, RelayControlAssumption DEF TypeOK
    <2>2. lease' = IF lease.ttl <= 1 THEN Free ELSE [lease EXCEPT !.ttl = lease.ttl - 1]
        BY Zenon DEF Tick
    <2> QED
        BY <2>1, <2>2 DEF Free
<1>6. ended' \in 0..(EndGrace + 1)
    BY RelayControlAssumption DEF Tick, TypeOK, Least, EndGrace
<1>7. lost' \in [Conn -> 0..(LossGrace + 1)]
    <2>1. LossGrace \in Nat
        BY RelayControlAssumption DEF LossGrace
    <2> QED
        BY <2>1 DEF Tick, TypeOK, Least
<1> QED
    BY Zenon, <1>1, <1>2, <1>3, <1>4, <1>5, <1>6, <1>7 DEF TypeOK

\* The session, its revocation and the loss of the data in Redis.
LEMMA SessionType ==
    ASSUME TypeOK, EndSession \/ RevokeKey \/ Publish \/ Flush
    PROVE  TypeOK'
<1>1. UNCHANGED <<cvars, pvars, hvars, faults>>
    BY Zenon DEF EndSession, RevokeKey, Publish, Flush
<1>2. /\ sess' \in {"active", "ended", "expired"} /\ msgs' \subseteq Relay
      /\ flushes' \in 0..MaxFlushes
    BY RelayControlAssumption DEF TypeOK, EndSession, RevokeKey, Publish, Flush
<1>4. revoked' \in BOOLEAN
    BY Zenon DEF TypeOK, EndSession, RevokeKey, Publish, Flush
<1>3. /\ lease' \in [owner : Conn \cup {"none"}, ttl : 0..LeaseTTL]
      /\ lease'.owner = "none" <=> lease'.ttl = 0
    BY RelayControlAssumption DEF TypeOK, EndSession, RevokeKey, Publish, Flush, Free
<1> QED
    BY Zenon, <1>1, <1>2, <1>3, <1>4 DEF TypeOK, cvars, pvars, hvars

-------------------------------------------------------------------------------
(* Time bounds                                                               *)

Same(d) ==
    /\ pc'[d] = pc[d] /\ clock'[d] = clock[d] /\ chk'[d] = chk[d] /\ ren'[d] = ren[d]
    /\ cage'[d] = cage[d] /\ lost'[d] = lost[d]

\* A connection that does not take part in a step keeps its bounds, ...
LEMMA SameTimely ==
    ASSUME NEW d \in Conn, Timely(d), Same(d), ended' = ended, lease'.owner = d => lease.owner = d
    PROVE  Timely(d)'
<1>1. ClockKept(d)'
    BY Zenon DEF Timely, Same, ClockKept
<1>2. EndKept(d)'
    BY Zenon DEF Timely, Same, EndKept
<1>3. LossKept(d)'
    BY Zenon DEF Timely, Same, LossKept
<1> QED
    BY Zenon, <1>1, <1>2, <1>3 DEF Timely

\* ... and one that stops has none but its past.
LEMMA StoppedTimely ==
    ASSUME NEW d \in Conn, Timely(d), lost'[d] = lost[d],
           pc'[d] \in {"closing", "releasing", "done"}
    PROVE  Timely(d)'
BY Zenon DEF Timely, ClockKept, EndKept, LossKept, Upgrading

\* The positions the upgrade handler takes a connection through, and what becomes
\* of the lease.
Early == {"idle", "authRow", "authKey", "acquiring"}

Late == {"reauthRow", "reauthKey", "connecting"}

Moves(c, p, q) == pc[c] = p /\ pc'[c] = q /\ lease' = lease /\ faults' = faults

Takes(c) == pc[c] = "acquiring" /\ lease = Free /\ lease' = [owner |-> c, ttl |-> LeaseTTL]

UpgradeMove(c) ==
    \/ \E p \in Early : Moves(c, p, "done")
    \/ \E p \in Late : Moves(c, p, "releasing")
    \/ Moves(c, "idle", "authRow") /\ clock'[c] = 0
    \/ Moves(c, "authRow", "authKey") /\ clock'[c] = clock[c] /\ sess = "active"
    \/ Moves(c, "reauthRow", "reauthKey") /\ clock'[c] = clock[c] /\ sess = "active"
    \/ Moves(c, "authKey", "acquiring") /\ clock'[c] = 0
    \/ Moves(c, "reauthKey", "connecting") /\ clock'[c] = 0
    \/ Moves(c, "connecting", "open") /\ clock'[c] = 0
    \/ Moves(c, "connecting", "abandoned") /\ clock'[c] = 0
    \/ Takes(c) /\ pc'[c] = "acquired" /\ clock'[c] = clock[c] /\ faults' = faults
    \/ Moves(c, "acquired", "reauthRow") /\ clock'[c] = 0
    \/ pc[c] = "acquired" /\ pc'[c] = "done" /\ lease' = lease /\ faults' = faults + 1
    \/ pc[c] = "releasing" /\ pc'[c] = "done" /\ lease' = Freed(c) /\ faults' = faults
    \/ pc[c] = "releasing" /\ pc'[c] = "done" /\ lease' = lease /\ faults' = faults + 1

\* Every step of the upgrade handler is one of these moves.
LEMMA UpgradeMoves ==
    ASSUME TypeOK, NEW c \in Conn,
           \/ Upgrade(c) \/ AuthorizeRow(c) \/ AuthorizeKey(c) \/ Acquire(c)
           \/ AcquireAnswered(c) \/ AcquireUnanswered(c) \/ Abandon(c) \/ Release(c) \/ ReleaseFails(c) \/ Connect(c)
    PROVE  UpgradeMove(c) /\ \A d \in Conn \ {c} : pc'[d] = pc[d] /\ clock'[d] = clock[d]
<1>1. pc \in [Conn -> Pc] /\ clock \in [Conn -> Nat]
    BY Zenon DEF TypeOK
<1>2. ASSUME NEW p, Goto(c, p)
      PROVE  /\ pc'[c] = p /\ clock'[c] = 0
             /\ \A d \in Conn \ {c} : pc'[d] = pc[d] /\ clock'[d] = clock[d]
    BY Zenon, <1>1, <1>2 DEF Goto
<1>3. ASSUME NEW p, pc' = [pc EXCEPT ![c] = p], clock' = clock
      PROVE  /\ pc'[c] = p /\ clock'[c] = clock[c]
             /\ \A d \in Conn \ {c} : pc'[d] = pc[d] /\ clock'[d] = clock[d]
    BY Zenon, <1>1, <1>3
<1>4. CASE Upgrade(c)
    BY Zenon, <1>2, <1>4 DEF Upgrade, UpgradeMove, Moves, Early, rvars
<1>5. CASE AuthorizeRow(c)
    BY Zenon, <1>2, <1>3, <1>5 DEF AuthorizeRow, OnRefusal, UpgradeMove, Moves, Early, Late, rvars
<1>6. CASE AuthorizeKey(c)
    BY Zenon, <1>2, <1>6 DEF AuthorizeKey, OnRefusal, UpgradeMove, Moves, Early, Late, rvars
<1>7. CASE Acquire(c)
    BY Zenon, <1>2, <1>3, <1>7 DEF Acquire, UpgradeMove, Moves, Takes, Early
<1>8. CASE AcquireAnswered(c) \/ AcquireUnanswered(c)
    BY Zenon, <1>2, <1>8 DEF AcquireAnswered, AcquireUnanswered, UpgradeMove, Moves, Fault, rvars
<1>9. CASE Abandon(c)
    BY Zenon, <1>2, <1>9 DEF Abandon, UpgradeMove, Moves, rvars
<1>10. CASE Release(c)
    BY Zenon, <1>2, <1>10 DEF Release, UpgradeMove
<1>11. CASE ReleaseFails(c)
    BY Zenon, <1>2, <1>11 DEF ReleaseFails, UpgradeMove, Fault, rvars
<1>12. CASE Connect(c)
    BY Zenon, <1>2, <1>12 DEF Connect, UpgradeMove, Moves, Late, rvars
<1> QED
    BY Zenon, <1>4, <1>5, <1>6, <1>7, <1>8, <1>9, <1>10, <1>11, <1>12

\* The upgrade handler, until the pair is open.
LEMMA UpgradeTimely ==
    ASSUME BaseInv, NEW c \in Conn,
           \/ Upgrade(c) \/ AuthorizeRow(c) \/ AuthorizeKey(c) \/ Acquire(c)
           \/ AcquireAnswered(c) \/ AcquireUnanswered(c) \/ Abandon(c) \/ Release(c) \/ ReleaseFails(c) \/ Connect(c)
    PROVE  Timely(c)'
<1>1. UNCHANGED <<chk, ren, cage, lost, ended>>
    BY Zenon DEF Upgrade, AuthorizeRow, AuthorizeKey, Acquire, AcquireAnswered, AcquireUnanswered, Abandon, Release,
        ReleaseFails, Connect, hvars
<1>2. Timely(c) /\ TypeOK /\ (sess = "active" => ended = 0)
    BY Zenon DEF BaseInv, OwnerKept
<1>3. CASE pc'[c] \in {"closing", "releasing", "done"}
    BY Zenon, <1>1, <1>2, <1>3, StoppedTimely
<1>4. ended \in Nat /\ clock[c] \in Nat /\ cage[c] \in Nat /\ CallDelay \in Nat
      /\ ConnectTimeout \in Nat /\ CheckInterval \in Nat
    BY Zenon, <1>2, Numbers
<1>5. CASE pc'[c] \notin {"closing", "releasing", "done"}
    <2>1. \/ pc[c] = "idle" /\ pc'[c] = "authRow" /\ clock'[c] = 0
          \/ pc[c] = "authRow" /\ pc'[c] = "authKey" /\ clock'[c] = clock[c] /\ sess = "active"
          \/ pc[c] = "reauthRow" /\ pc'[c] = "reauthKey" /\ clock'[c] = clock[c] /\ sess = "active"
          \/ pc[c] = "authKey" /\ pc'[c] = "acquiring" /\ clock'[c] = 0
          \/ pc[c] = "reauthKey" /\ pc'[c] = "connecting" /\ clock'[c] = 0
          \/ pc[c] = "acquiring" /\ pc'[c] = "acquired" /\ clock'[c] = clock[c]
          \/ pc[c] = "acquired" /\ pc'[c] = "reauthRow" /\ clock'[c] = 0
          \/ pc[c] = "connecting" /\ pc'[c] = "open" /\ clock'[c] = 0
          \/ pc[c] = "connecting" /\ pc'[c] = "abandoned" /\ clock'[c] = 0
        <3>1. UpgradeMove(c)
            BY Zenon, <1>2, UpgradeMoves
        <3> QED
            BY Zenon, <1>5, <3>1 DEF UpgradeMove, Moves, Takes
    <2>2. /\ chk[c] = "none" /\ ren[c] = "none" /\ lost[c] = 0
          /\ chk'[c] = "none" /\ ren'[c] = "none" /\ lost'[c] = 0 /\ ended' = ended
        BY Zenon, <1>1, <1>2, <2>1 DEF Timely, ClockKept, LossKept, Upgrading
    <2>3. /\ clock'[c] \in Nat
          /\ pc[c] = "authRow" \/ pc[c] = "reauthRow" \/ pc[c] = "acquiring" => clock[c] <= CallDelay
        BY <1>2, <1>4, <2>1 DEF Timely, ClockKept
    <2>4. ClockKept(c)'
        BY <1>4, <2>1, <2>2, <2>3 DEF ClockKept
    <2>5. EndKept(c)'
        <3>1. /\ pc[c] = "reauthKey" => ended <= clock[c] /\ clock[c] <= CallDelay
              /\ pc[c] = "connecting" => /\ ended <= CallDelay + clock[c]
                                        /\ clock[c] <= ConnectTimeout
            BY Zenon, <1>2 DEF Timely, ClockKept, EndKept
        <3> QED
            BY <1>2, <1>4, <2>1, <2>2, <3>1 DEF EndKept
    <2>6. LossKept(c)'
        BY <1>4, <2>2, <2>3 DEF LossKept, LossGrace
    <2> QED
        BY Zenon, <2>4, <2>5, <2>6 DEF Timely
<1> QED
    BY Zenon, <1>3, <1>5

\* The moves of a check of a pair that stays open.
CheckStarts(c) ==
    /\ chk[c] = "none" /\ clock[c] = CheckInterval /\ lease' = lease
    /\ clock'[c] = 0 /\ chk'[c] = "row" /\ ren'[c] = "sent" /\ cage'[c] = 0

CheckSkips(c) ==
    /\ chk[c] # "none" /\ lease' = lease
    /\ clock'[c] = 0 /\ chk'[c] = chk[c] /\ ren'[c] = ren[c] /\ cage'[c] = cage[c]

CheckGoesOn(c) ==
    /\ chk[c] \in {"row", "key"} /\ (chk[c] = "row" => sess = "active") /\ lease' = lease
    /\ chk'[c] = (IF chk[c] = "row" THEN "key" ELSE "ok")
    /\ clock'[c] = clock[c] /\ ren'[c] = ren[c] /\ cage'[c] = cage[c]

CheckRenewed(c) ==
    /\ ren[c] = "sent" /\ chk[c] # "none" /\ lease' = Renewed(c)
    /\ chk'[c] = chk[c] /\ clock'[c] = clock[c] /\ cage'[c] = cage[c]
    /\ ren'[c] = IF lease.owner = c THEN "yes" ELSE "no"

CheckForgets(c) ==
    /\ chk[c] = "none" /\ chk'[c] = "none" /\ ren'[c] = "none" /\ cage'[c] = 0
    /\ clock'[c] = clock[c] /\ lease' = Renewed(c)

CheckDone(c) ==
    /\ chk[c] = "ok" /\ ren[c] = "yes" /\ lease' = lease
    /\ chk'[c] = "none" /\ ren'[c] = "none" /\ cage'[c] = 0 /\ clock'[c] = clock[c]

\* Every step of a check that leaves the pair open is one of these moves.
LEMMA CheckMoves ==
    ASSUME TypeOK, NEW c \in Conn, pc[c] = "open", pc'[c] = "open",
           \/ CheckTimer(c) \/ CheckAuthorizes(c) \/ CheckRenews(c) \/ RenewFails(c) \/ CheckEnds(c)
    PROVE  \/ CheckStarts(c) \/ CheckSkips(c) \/ CheckGoesOn(c)
           \/ CheckRenewed(c) \/ CheckForgets(c) \/ CheckDone(c)
<1>1. ~CloseBoth({c})
    BY Zenon, CloseBothType
<1>2. /\ clock \in [Conn -> Nat] /\ chk \in [Conn -> {"none", "row", "key", "ok"}]
      /\ ren \in [Conn -> {"none", "sent", "yes", "no"}] /\ cage \in [Conn -> 0..CallDelay]
    BY Zenon DEF TypeOK
<1>3. CASE CheckTimer(c)
    BY Zenon, <1>2, <1>3 DEF CheckTimer, CheckStarts, CheckSkips, rvars
<1>4. CASE CheckAuthorizes(c)
    BY Zenon, <1>1, <1>2, <1>4 DEF CheckAuthorizes, CheckGoesOn, rvars
<1>5. CASE CheckRenews(c)
    BY Zenon, <1>2, <1>5 DEF CheckRenews, CheckRenewed, CheckForgets
<1>6. CASE RenewFails(c)
    BY Zenon, <1>1, <1>6 DEF RenewFails
<1>7. CASE CheckEnds(c)
    BY Zenon, <1>1, <1>2, <1>7 DEF CheckEnds, CheckDone, rvars
<1> QED
    BY Zenon, <1>3, <1>4, <1>5, <1>6, <1>7

\* The periodic check.
LEMMA CheckTimely ==
    ASSUME BaseInv, NEW c \in Conn,
           \/ CheckTimer(c) \/ CheckAuthorizes(c) \/ CheckRenews(c) \/ RenewFails(c) \/ CheckEnds(c)
    PROVE  Timely(c)'
<1>1. UNCHANGED <<lost, ended>> /\ lease'.owner = lease.owner
    <2>1. lease' \in {lease, Renewed(c)}
        BY Zenon DEF CheckTimer, CheckAuthorizes, CheckRenews, RenewFails, CheckEnds, rvars
    <2>2. lease'.owner = lease.owner
        BY Zenon, <2>1, LeaseType DEF BaseInv
    <2> QED
        BY Zenon, <2>2 DEF CheckTimer, CheckAuthorizes, CheckRenews, RenewFails, CheckEnds, hvars
<1>2. Timely(c) /\ TypeOK /\ (sess = "active" => ended = 0)
    BY Zenon DEF BaseInv, OwnerKept
<1>3. CASE pc'[c] \in {"closing", "releasing", "done"}
    BY Zenon, <1>1, <1>2, <1>3, StoppedTimely
<1>4. /\ ended \in Nat /\ lost[c] \in Nat /\ clock[c] \in Nat /\ cage[c] \in 0..CallDelay
      /\ CallDelay \in Nat /\ ConnectTimeout \in Nat /\ CheckInterval \in Nat
    BY Zenon, <1>2, Numbers
<1>5. CASE pc'[c] = pc[c] /\ pc[c] # "open"
    <2>1. pc[c] \notin {"idle"} \cup Upgrading
        BY Zenon, <1>2, <1>5 DEF Timely, ClockKept, Upgrading, CheckTimer, CheckAuthorizes, CheckRenews,
           RenewFails, CheckEnds
    <2> QED
        BY Zenon, <1>1, <1>2, <1>5, <2>1 DEF Timely, ClockKept, EndKept, LossKept, Upgrading
<1>6. CASE pc[c] = "open" /\ pc'[c] = "open"
    <2>1. /\ clock[c] <= CheckInterval /\ lost[c] <= LossGrace
          /\ chk[c] = "none" => ended <= CallDelay + ConnectTimeout + clock[c]
          /\ chk[c] = "row" => ended <= CallDelay + ConnectTimeout + CheckInterval + cage[c]
          /\ chk[c] \in {"key", "ok"} => ended <= cage[c]
          /\ lease.owner = c => lost[c] = 0
          /\ chk[c] = "none" => lost[c] <= CallDelay + clock[c]
          /\ chk[c] # "none" /\ ren[c] = "yes" => lost[c] <= cage[c]
          /\ chk[c] # "none" /\ ren[c] # "yes" => lost[c] <= CallDelay + CheckInterval + cage[c]
        BY Zenon, <1>2, <1>6 DEF Timely, ClockKept, EndKept, LossKept
    <2>2. ASSUME /\ clock'[c] <= CheckInterval
                 /\ chk'[c] = "none" => ended <= CallDelay + ConnectTimeout + clock'[c]
                 /\ chk'[c] = "row" => ended <= CallDelay + ConnectTimeout + CheckInterval + cage'[c]
                 /\ chk'[c] \in {"key", "ok"} => ended <= cage'[c]
                 /\ chk'[c] = "none" => lost[c] <= CallDelay + clock'[c]
                 /\ chk'[c] # "none" /\ ren'[c] = "yes" => lost[c] <= cage'[c]
                 /\ chk'[c] # "none" /\ ren'[c] # "yes" => lost[c] <= CallDelay + CheckInterval + cage'[c]
          PROVE  Timely(c)'
        BY Zenon, <1>1, <1>6, <2>1, <2>2 DEF Timely, ClockKept, EndKept, LossKept, Upgrading
    <2>3. chk[c] \in {"none", "row", "key", "ok"}
        BY Zenon, <1>2 DEF TypeOK
    <2>4. CASE CheckStarts(c)
        BY <1>4, <2>1, <2>2, <2>4 DEF CheckStarts
    <2>5. CASE CheckSkips(c)
        BY <1>4, <2>1, <2>2, <2>3, <2>5 DEF CheckSkips
    <2>6. CASE CheckGoesOn(c)
        BY <1>2, <1>4, <2>1, <2>2, <2>6 DEF CheckGoesOn
    <2>7. CASE CheckRenewed(c)
        BY <1>4, <2>1, <2>2, <2>3, <2>7 DEF CheckRenewed
    <2>8. CASE CheckForgets(c) \/ CheckDone(c)
        BY <1>4, <2>1, <2>2, <2>8 DEF CheckForgets, CheckDone
    <2> QED
        BY Zenon, <1>2, <1>6, <2>4, <2>5, <2>6, <2>7, <2>8, CheckMoves
<1>7. pc'[c] = pc[c] \/ (pc[c] = "open" /\ pc'[c] = "closing")
    BY Zenon, <1>2, CloseBothType
    DEF CheckTimer, CheckAuthorizes, CheckRenews, RenewFails, CheckEnds
<1> QED
    BY Zenon, <1>3, <1>5, <1>6, <1>7

\* Time passes only while it is within the bounds.
LEMMA TickTimely ==
    ASSUME BaseInv, Tick, NEW c \in Conn
    PROVE  Timely(c)'
<1>1. UNCHANGED <<pc, chk, ren>> /\ TypeOK /\ Timely(c)
    BY Zenon DEF Tick, BaseInv
<1>2. /\ clock'[c] = IF Waits(c) THEN clock[c] + 1 ELSE 0
      /\ cage'[c] = IF chk[c] # "none" \/ ren[c] # "none" THEN cage[c] + 1 ELSE 0
      /\ ended' <= ended + 1
      /\ lost'[c] = IF pc[c] = "open" /\ lease.owner # c
                    THEN Least(lost[c] + 1, LossGrace + 1) ELSE 0
      /\ Waits(c) => clock[c] < Limit(c)
      /\ chk[c] # "none" \/ ren[c] # "none" => cage[c] < CallDelay
    <2>1. ended' <= ended + 1
        BY <1>1, RelayControlAssumption DEF Tick, Least, TypeOK, EndGrace
    <2> QED
        BY Zenon, <2>1 DEF Tick
<1>3. /\ ended \in Nat /\ ended' \in Nat /\ lost[c] \in Nat /\ clock[c] \in Nat
      /\ cage[c] \in 0..CallDelay
      /\ CallDelay \in Nat /\ ConnectTimeout \in Nat /\ CheckInterval \in Nat
    <2>1. ended' \in Nat
        BY TickType, <1>1, RelayControlAssumption DEF TypeOK, EndGrace
    <2> QED
        BY Zenon, <1>1, <2>1, Numbers
<1>4. ClockKept(c)'
    BY <1>1, <1>2, <1>3 DEF Timely, ClockKept, Upgrading, Waits, Limit, Finished
<1>5. EndKept(c)'
    BY <1>1, <1>2, <1>3 DEF Timely, EndKept, Waits, Finished, TypeOK
<1>6. LossKept(c)'
    <2>1. CASE pc[c] = "open" /\ lease.owner # c
        <3>1. lost'[c] <= lost[c] + 1 /\ clock[c] < CheckInterval /\ clock'[c] = clock[c] + 1
            BY <1>2, <1>3, <2>1 DEF Least, LossGrace, Waits, Limit, Finished
        <3>2. lost'[c] \in Nat /\ lease'.owner # c
            BY <1>1, <1>2, <1>3, <2>1, RelayControlAssumption
            DEF Least, LossGrace, Tick, Free, TypeOK
        <3> QED
            <4>1. /\ chk[c] = "none" => lost[c] <= CallDelay + clock[c]
                  /\ chk[c] # "none" /\ ren[c] = "yes" => lost[c] <= cage[c]
                  /\ chk[c] # "none" /\ ren[c] # "yes" => lost[c] <= CallDelay + CheckInterval + cage[c]
                BY Zenon, <1>1, <2>1 DEF Timely, LossKept
            <4>2. /\ chk[c] = "none" => lost'[c] <= CallDelay + clock'[c]
                  /\ chk[c] # "none" => cage'[c] = cage[c] + 1 /\ cage[c] < CallDelay
                BY <1>2, <1>3, <3>1, <3>2, <4>1
            <4>3. /\ chk[c] # "none" /\ ren[c] = "yes" => lost'[c] <= cage'[c]
                  /\ chk[c] # "none" /\ ren[c] # "yes" => lost'[c] <= CallDelay + CheckInterval + cage'[c]
                BY <1>3, <3>1, <3>2, <4>1, <4>2
            <4>4. lost'[c] <= LossGrace
                BY <1>3, <3>1, <3>2, <4>1, <4>2 DEF LossGrace
            <4> QED
                BY Zenon, <1>1, <2>1, <3>2, <4>2, <4>3, <4>4 DEF LossKept, Upgrading
    <2>2. CASE ~(pc[c] = "open" /\ lease.owner # c)
        <3>1. lost'[c] = 0 /\ cage'[c] \in Nat /\ clock'[c] \in Nat
            BY <1>2, <1>3, <2>2
        <3> QED
            BY <1>3, <3>1 DEF LossKept, LossGrace
    <2> QED
        BY Zenon, <2>1, <2>2
<1> QED
    BY Zenon, <1>4, <1>5, <1>6 DEF Timely

-------------------------------------------------------------------------------
(* Ownership of the lease                                                    *)

\* A position from which the lease is still released, or that never will be.
Entitled == Upgrading \cup Paired \cup {"releasing", "abandoned"}

\* A step of one connection: only its own lease and registration are concerned.
LEMMA OwnLease ==
    ASSUME BaseInv, NEW c \in Conn, UNCHANGED <<home, drain, sess, ended>>, faults <= faults',
           faults' \in Nat, \A d \in Conn \ {c} : pc'[d] = pc[d],
           lease'.owner \in {lease.owner, "none", c},
           lease'.owner = c => /\ pc'[c] \notin Early
                               /\ faults' = 0 => pc'[c] \in Entitled \/ drain[home[c]] = "dead",
           \A r \in Relay : active'[r] \in {active[r], "none"} \/ (active'[r] = c /\ r = home[c])
    PROVE  OwnerKept' /\ LeaseAccounted'
<1>1. TypeOK /\ OwnerKept /\ LeaseAccounted /\ lease.owner \in Conn \cup {"none"} /\ faults \in Nat
    BY Zenon, Numbers DEF BaseInv
<1>2. CASE lease'.owner = c
    BY Zenon, <1>1, <1>2 DEF OwnerKept, LeaseAccounted, Early, Entitled
<1>3. CASE lease'.owner # c
    BY <1>1, <1>3 DEF OwnerKept, LeaseAccounted
<1> QED
    BY Zenon, <1>2, <1>3

\* The upgrade handler gives back what it acquired unless a call fails.
LEMMA UpgradeOwner ==
    ASSUME BaseInv, NEW c \in Conn,
           \/ Upgrade(c) \/ AuthorizeRow(c) \/ AuthorizeKey(c) \/ Acquire(c)
           \/ AcquireAnswered(c) \/ AcquireUnanswered(c) \/ Abandon(c) \/ Release(c) \/ ReleaseFails(c) \/ Connect(c)
    PROVE  OwnerKept' /\ LeaseAccounted'
<1>1. UNCHANGED <<home, drain, sess, ended>>
    BY Zenon DEF Upgrade, AuthorizeRow, AuthorizeKey, Acquire, AcquireAnswered, AcquireUnanswered, Abandon, Release,
       ReleaseFails, Connect, hvars, pvars, rvars
<1>2. \A r \in Relay : active'[r] = active[r] \/ (active'[r] = c /\ r = home[c])
    <2>1. active' = active \/ active' = [active EXCEPT ![home[c]] = c]
        BY Zenon DEF Upgrade, AuthorizeRow, AuthorizeKey, Acquire, AcquireAnswered, AcquireUnanswered, Abandon,
           Release, ReleaseFails, Connect, pvars
    <2>2. active \in [Relay -> Conn \cup {"none"}]
        BY Zenon DEF BaseInv, TypeOK
    <2> QED
        BY Zenon, <2>1, <2>2
<1>3. TypeOK /\ faults \in Nat /\ (lease.owner = c => pc[c] \notin Early) /\ c # "none"
    BY Zenon, Numbers, RelayControlAssumption DEF BaseInv, OwnerKept, Early
<1>4. UpgradeMove(c) /\ \A d \in Conn \ {c} : pc'[d] = pc[d]
    BY Zenon, <1>3, UpgradeMoves
<1>5. faults' = faults \/ faults' = faults + 1
    BY Zenon, <1>4 DEF UpgradeMove, Moves
<1>6. faults' \in Nat /\ faults <= faults' /\ (faults' = faults + 1 => faults' # 0)
    BY <1>3, <1>5
<1>7. lease'.owner \in {lease.owner, "none", c}
    <2>1. \/ lease' = lease \/ lease' = [owner |-> c, ttl |-> LeaseTTL] \/ lease' = Freed(c)
        BY Zenon, <1>4 DEF UpgradeMove, Moves, Takes
    <2> QED
        BY <2>1 DEF Freed, Free
<1>8. ASSUME lease'.owner = c
      PROVE  pc'[c] \notin Early /\ (faults' = 0 => pc'[c] \in Entitled)
    <2>1. CASE Takes(c)
        <3>1. lease' # lease /\ pc[c] = "acquiring"
            BY <1>3, <2>1 DEF Takes, Free
        <3>2. pc'[c] = "acquired"
            BY Zenon, <1>4, <3>1 DEF UpgradeMove, Moves
        <3> QED
            BY Zenon, <3>2 DEF Early, Entitled, Upgrading
    <2>2. CASE ~Takes(c)
        <3>1. lease' # Freed(c)
            BY <1>3, <1>8 DEF Freed, Free
        <3>2. lease' = lease
            BY Zenon, <1>4, <2>2, <3>1 DEF UpgradeMove, Moves
        <3>3. pc[c] \notin Early
            BY Zenon, <1>3, <1>8, <3>2
        <3>4. \/ pc'[c] \in {"releasing", "reauthRow", "reauthKey", "connecting", "open",
                            "abandoned"}
              \/ pc'[c] = "done" /\ faults' = faults + 1
            BY Zenon, <1>4, <2>2, <3>1, <3>3 DEF UpgradeMove, Moves, Early
        <3> QED
            BY Zenon, <1>6, <3>4 DEF Early, Entitled, Upgrading, Paired
    <2> QED
        BY Zenon, <2>1, <2>2
<1> QED
    BY Zenon, <1>1, <1>2, <1>4, <1>6, <1>7, <1>8, OwnLease

\* A pair and its checks never let go of a lease without releasing it.
LEMMA PairOwner ==
    ASSUME BaseInv, NEW c \in Conn,
           \/ SideCloses(c) \/ StreamFails(c) \/ SessionDeadline(c) \/ HardClose(c)
           \/ CheckTimer(c) \/ CheckAuthorizes(c) \/ CheckRenews(c) \/ RenewFails(c) \/ CheckEnds(c)
    PROVE  OwnerKept' /\ LeaseAccounted'
<1>1. UNCHANGED <<home, drain, sess, ended, faults>>
    BY Zenon DEF SideCloses, StreamFails, SessionDeadline, HardClose, CheckTimer, CheckAuthorizes,
        CheckRenews, RenewFails, CheckEnds, hvars, pvars, rvars
<1>2. lease' = lease \/ lease' = Renewed(c)
    BY Zenon DEF SideCloses, StreamFails, SessionDeadline, HardClose, CheckTimer, CheckAuthorizes,
        CheckRenews, RenewFails, CheckEnds, rvars
<1>3. TypeOK /\ faults \in Nat /\ faults <= faults
    <2>1. TypeOK /\ faults \in Nat
        BY Zenon, Numbers DEF BaseInv
    <2> QED
        BY <2>1
<1>4. lease'.owner = lease.owner
    BY Zenon, <1>2, <1>3, LeaseType
<1>5. /\ \A d \in Conn \ {c} : pc'[d] = pc[d]
      /\ pc'[c] \in {pc[c], "closing", "releasing"}
      /\ \A r \in Relay : active'[r] \in {active[r], "none"}
    <2>1. CASE Finalize(c)
        <3>1. \A r \in Relay : active'[r] \in {active[r], "none"}
            BY Zenon, <1>3, <2>1 DEF Finalize, Unregister, TypeOK
        <3> QED
            BY Zenon, <1>3, <2>1, <3>1, FinalizeType
    <2>2. CASE CloseBoth({c}) /\ active' = active
        BY Zenon, <1>3, <2>2, CloseBothType
    <2>3. CASE pc' = pc /\ active' = active
        BY Zenon, <2>3
    <2> QED
        BY Zenon, <2>1, <2>2, <2>3 DEF SideCloses, StreamFails, SessionDeadline, HardClose, CheckTimer,
           CheckAuthorizes, CheckRenews, RenewFails, CheckEnds, pvars
<1>6. lease.owner = c => /\ pc[c] \notin Early
                         /\ faults = 0 => pc[c] \in Entitled \/ drain[home[c]] = "dead"
    BY Zenon, RelayControlAssumption DEF BaseInv, OwnerKept, LeaseAccounted, Early, Entitled
<1> QED
    <2>1. lease'.owner = c => /\ pc'[c] \notin Early
                              /\ faults' = 0 => pc'[c] \in Entitled \/ drain[home[c]] = "dead"
        BY Zenon, <1>1, <1>4, <1>5, <1>6 DEF Early, Entitled, Paired
    <2> QED
        BY Zenon, <1>1, <1>3, <1>4, <1>5, <2>1, OwnLease

\* What a relay process does to its connections: they go on, close, or end with
\* the process.
LEMMA RelayEffect ==
    ASSUME BaseInv, NEW r \in Relay, Deliver(r) \/ Shutdown(r) \/ Drain(r) \/ Crash(r)
    PROVE  /\ UNCHANGED <<lease, home, sess, ended, lost, flushes>> /\ faults <= faults'
           /\ \A d \in Conn : \/ Same(d)
                              \/ pc'[d] \in {"closing", "releasing"}
                              \/ pc'[d] = "done" /\ drain'[home[d]] = "dead"
           /\ \A x \in Relay : /\ active'[x] \in {active[x], "none"}
                               /\ drain[x] = "dead" => drain'[x] = "dead"
<1>1. TypeOK /\ faults \in Nat
    BY Zenon, Numbers DEF BaseInv
<1>2. UNCHANGED <<lease, home, sess, ended, lost, flushes>> /\ faults <= faults'
    BY <1>1 DEF Deliver, Shutdown, Drain, DrainTerminates, DrainStops, DrainForced, Crash, Fault,
        rvars, cvars, hvars
<1>3. \A x \in Relay : drain[x] = "dead" => drain'[x] = "dead"
    BY <1>1 DEF TypeOK, Deliver, Shutdown, Drain, DrainTerminates, DrainStops, DrainForced, Crash,
        Die, Stage, pvars
<1>4. CASE Deliver(r) \/ Shutdown(r)
    <2>1. /\ UNCHANGED <<active, chk, ren, cage>>
          /\ UNCHANGED <<pc, clock>> \/ CloseBoth({c \in Conn : active[r] = c})
        BY Zenon, <1>4 DEF Deliver, Shutdown, pvars
    <2> QED
        BY Zenon, <1>1, <1>2, <1>3, <2>1, CloseBothType DEF Same
<1>5. CASE DrainTerminates(r) \/ DrainStops(r)
    <2>1. CASE active[r] \in Conn /\ Finalize(active[r])
        <3>1. \A x \in Relay : active'[x] \in {active[x], "none"}
            BY Zenon, <1>1, <2>1 DEF TypeOK, Finalize, Unregister
        <3> QED
            BY <1>1, <1>2, <1>3, <2>1, <3>1, FinalizeType DEF Same
    <2>2. CASE UNCHANGED <<pc, clock, chk, ren, cage>> /\ active' \in {active, [active EXCEPT ![r] = "none"]}
        <3>1. \A x \in Relay : active'[x] \in {active[x], "none"}
            BY Zenon, <1>1, <2>2 DEF TypeOK
        <3> QED
            BY Zenon, <1>2, <1>3, <2>2, <3>1 DEF Same
    <2> QED
        BY Zenon, <1>1, <1>5, <2>1, <2>2 DEF TypeOK, DrainTerminates, DrainStops, cvars
<1>6. CASE Die(r)
    <2>1. drain'[r] = "dead" /\ \A x \in Relay : active'[x] \in {active[x], "none"}
        BY <1>1, <1>6 DEF TypeOK, Die, Stage
    <2>2. ASSUME NEW d \in Conn
          PROVE  Same(d) \/ (pc'[d] = "done" /\ drain'[home[d]] = "dead")
        BY Zenon, <1>1, <1>2, <1>6, <2>1 DEF TypeOK, Die, Same
    <2> QED
        BY Zenon, <1>2, <1>3, <2>1, <2>2
<1> QED
    BY Zenon, <1>4, <1>5, <1>6 DEF Drain, DrainForced, Crash

\* A relay process leaves no lease behind that nobody answers for.
LEMMA RelayOwner ==
    ASSUME BaseInv, NEW r \in Relay, Deliver(r) \/ Shutdown(r) \/ Drain(r) \/ Crash(r)
    PROVE  OwnerKept' /\ LeaseAccounted'
<1>1. TypeOK /\ OwnerKept /\ LeaseAccounted /\ faults \in Nat /\ faults' \in Nat
    <2>1. TypeOK /\ OwnerKept /\ LeaseAccounted /\ faults \in Nat
        BY Zenon, Numbers DEF BaseInv
    <2>2. faults' \in 0..MaxFaults
        BY Zenon, <2>1, RelayType DEF TypeOK
    <2> QED
        BY <2>1, <2>2, RelayControlAssumption
<1>2. OwnerKept'
    <2>1. lease'.owner # "none" => pc'[lease'.owner] \notin Early
        BY ZenonT(30), <1>1, Numbers, RelayEffect DEF OwnerKept, Same, Early
    <2>2. \A x \in Relay : active'[x] # "none" => home'[active'[x]] = x
        BY Zenon, <1>1, RelayEffect DEF OwnerKept
    <2> QED
        BY Zenon, <1>1, <2>1, <2>2, RelayEffect DEF OwnerKept, Early
<1>3. LeaseAccounted'
    <2>1. faults <= faults'
        BY Zenon, RelayEffect
    <2>2. faults' = 0 => faults = 0
        BY <1>1, <2>1
    <2> SUFFICES ASSUME faults' = 0, lease.owner # "none"
                 PROVE  \/ pc'[lease.owner] \in Upgrading \cup Paired \cup {"releasing", "abandoned"}
                        \/ drain'[home[lease.owner]] = "dead"
        BY Zenon, RelayEffect DEF LeaseAccounted
    <2>3. lease.owner \in Conn /\ home[lease.owner] \in Relay
        BY Zenon, <1>1, Numbers DEF TypeOK
    <2>4. \/ pc[lease.owner] \in Upgrading \cup Paired \cup {"releasing", "abandoned"}
          \/ drain[home[lease.owner]] = "dead"
        BY Zenon, <1>1, <2>2 DEF LeaseAccounted
    <2>5. /\ \/ pc'[lease.owner] = pc[lease.owner]
             \/ pc'[lease.owner] \in {"closing", "releasing"}
             \/ drain'[home[lease.owner]] = "dead"
          /\ drain[home[lease.owner]] = "dead" => drain'[home[lease.owner]] = "dead"
        BY Zenon, <2>3, RelayEffect DEF Same
    <2> QED
        BY Zenon, <2>4, <2>5 DEF Paired
<1> QED
    BY Zenon, <1>2, <1>3

\* The session and time change nothing that ownership depends on.
LEMMA RestOwner ==
    ASSUME BaseInv, EndSession \/ RevokeKey \/ Publish \/ Flush \/ Tick
    PROVE  OwnerKept' /\ LeaseAccounted'
<1>1. UNCHANGED <<pc, home, active, drain, faults>> /\ lease'.owner \in {lease.owner, "none"}
      /\ (sess' = "active" => sess = "active")
    <2>1. lease.owner \in Conn \cup {"none"} /\ lease.ttl \in Nat
          /\ lease \in [owner : Conn \cup {"none"}, ttl : 0..LeaseTTL]
        BY RelayControlAssumption DEF BaseInv, TypeOK
    <2> QED
        BY <2>1 DEF EndSession, RevokeKey, Publish, Flush, Tick, cvars, pvars, Free
<1>2. sess' = "active" => ended' = 0
    BY Zenon, <1>1 DEF BaseInv, OwnerKept, EndSession, RevokeKey, Publish, Flush, Tick, hvars
<1> QED
    BY Zenon, <1>1, <1>2 DEF BaseInv, OwnerKept, LeaseAccounted

-------------------------------------------------------------------------------
(* What holds whatever Redis loses                                           *)

\* Initially nothing is under way.
LEMMA InitBase == Init => BaseInv
<1> SUFFICES ASSUME Init PROVE BaseInv
    BY Zenon
<1>1. EndGrace \in Nat /\ LossGrace \in Nat
    BY RelayControlAssumption DEF EndGrace, LossGrace
<1>2. TypeOK
    <2>1. /\ lease \in [owner : Conn \cup {"none"}, ttl : 0..LeaseTTL]
          /\ lease.owner = "none" <=> lease.ttl = 0
        BY RelayControlAssumption DEF Init, Free
    <2>2. /\ sides \in [Conn -> SUBSET {"client", "upstream"}] /\ pc \in [Conn -> Pc]
          /\ \A c \in Conn : sides[c] # {} <=> pc[c] \in Paired
        BY Zenon DEF Init, Pc, Paired
    <2>3. /\ clock \in [Conn -> Nat] /\ cage \in [Conn -> 0..CallDelay]
          /\ dclock \in [Relay -> 0..DrainTimeout] /\ lost \in [Conn -> 0..(LossGrace + 1)]
          /\ ended \in 0..(EndGrace + 1) /\ faults \in 0..MaxFaults /\ flushes \in 0..MaxFlushes
        BY <1>1, RelayControlAssumption DEF Init
    <2>4. revoked \in BOOLEAN
        BY Zenon DEF Init
    <2> QED
        BY Zenon, <2>1, <2>2, <2>3, <2>4 DEF Init, TypeOK
<1>3. OwnerKept /\ LeaseAccounted
    BY Zenon, RelayControlAssumption DEF Init, OwnerKept, LeaseAccounted, Free
<1>4. ASSUME NEW c \in Conn PROVE Timely(c)
    BY <1>1, RelayControlAssumption DEF Init, Timely, ClockKept, EndKept, LossKept, Upgrading
<1> QED
    BY Zenon, <1>2, <1>3, <1>4 DEF BaseInv

\* A connection's own steps concern no other connection.
LEMMA OthersSame ==
    ASSUME BaseInv, NEW c \in Conn, NEW d \in Conn \ {c},
           \/ Upgrade(c) \/ Handler(c) \/ AcquireUnanswered(c) \/ Abandon(c) \/ ReleaseFails(c)
           \/ SideCloses(c) \/ StreamFails(c) \/ SessionDeadline(c) \/ RenewFails(c)
    PROVE  /\ Same(d) /\ UNCHANGED <<sess, ended, home, drain, flushes>>
           /\ lease'.owner = d => lease.owner = d
           /\ lease.owner = d => lease' = lease
<1>1. TypeOK
    BY Zenon DEF BaseInv
<1>2. UNCHANGED <<sess, ended, home, drain, flushes, lost>>
    BY Zenon DEF Upgrade, Handler, AuthorizeRow, AuthorizeKey, Acquire, AcquireAnswered, AcquireUnanswered, Abandon,
       Release, ReleaseFails, Connect, SideCloses, StreamFails, SessionDeadline, HardClose,
       CheckTimer, CheckAuthorizes, CheckRenews, RenewFails, CheckEnds, hvars, pvars, rvars
<1>3. lease' = lease \/ lease' = Renewed(c) \/ lease' = Freed(c)
      \/ (lease' = [owner |-> c, ttl |-> LeaseTTL] /\ lease = Free)
    BY Zenon DEF Upgrade, Handler, AuthorizeRow, AuthorizeKey, Acquire, AcquireAnswered, AcquireUnanswered, Abandon,
       Release, ReleaseFails, Connect, SideCloses, StreamFails, SessionDeadline, HardClose,
       CheckTimer, CheckAuthorizes, CheckRenews, RenewFails, CheckEnds, rvars
<1>4. (lease'.owner = d => lease.owner = d) /\ (lease.owner = d => lease' = lease)
    BY <1>1, <1>3, RelayControlAssumption DEF TypeOK, Renewed, Freed, Free
<1>5. pc'[d] = pc[d] /\ clock'[d] = clock[d]
    <2>1. /\ pc' = pc \/ (\E p : pc' = [pc EXCEPT ![c] = p]) \/ CloseBoth({c})
          /\ clock' = clock \/ clock' = [clock EXCEPT ![c] = 0] \/ CloseBoth({c})
        BY Zenon DEF Goto, Finalize, Upgrade, Handler, AuthorizeRow, AuthorizeKey, Acquire, AcquireAnswered, AcquireUnanswered, Abandon,
           Release, ReleaseFails, Connect, SideCloses, StreamFails, SessionDeadline, HardClose,
           CheckTimer, CheckAuthorizes, CheckRenews, RenewFails, CheckEnds
    <2>2. pc \in [Conn -> Pc] /\ clock \in [Conn -> Nat]
        BY Zenon, <1>1 DEF TypeOK
    <2>3. CloseBoth({c}) => pc'[d] = pc[d] /\ clock'[d] = clock[d]
        BY Zenon, <1>1, CloseBothType
    <2> QED
        BY Zenon, <2>1, <2>2, <2>3
<1>6. chk'[d] = chk[d] /\ ren'[d] = ren[d] /\ cage'[d] = cage[d]
    <2>1. /\ chk' = chk \/ \E x : chk' = [chk EXCEPT ![c] = x]
          /\ ren' = ren \/ \E x : ren' = [ren EXCEPT ![c] = x]
          /\ cage' = cage \/ \E x : cage' = [cage EXCEPT ![c] = x]
        BY Zenon DEF Finalize, Upgrade, Handler, AuthorizeRow, AuthorizeKey, Acquire, AcquireAnswered, AcquireUnanswered, Abandon,
           Release, ReleaseFails, Connect, SideCloses, StreamFails, SessionDeadline, HardClose,
           CheckTimer, CheckAuthorizes, CheckRenews, RenewFails, CheckEnds
    <2>2. DOMAIN chk = Conn /\ DOMAIN ren = Conn /\ DOMAIN cage = Conn
        BY Zenon, <1>1 DEF TypeOK
    <2> QED
        BY Zenon, <2>1, <2>2
<1> QED
    BY Zenon, <1>2, <1>4, <1>5, <1>6 DEF Same

\* The invariant is inductive.
LEMMA StepBase == BaseInv /\ [Next]_vars => BaseInv'
<1> SUFFICES ASSUME BaseInv, [Next]_vars PROVE BaseInv'
    BY Zenon
<1>1. ASSUME NEW c \in Conn,
             \/ Upgrade(c) \/ Handler(c) \/ AcquireUnanswered(c) \/ Abandon(c) \/ ReleaseFails(c)
             \/ SideCloses(c) \/ StreamFails(c) \/ SessionDeadline(c) \/ RenewFails(c)
      PROVE  BaseInv'
    <2>1. TypeOK'
        BY Zenon, <1>1, UpgradeType, PairType, CheckType DEF BaseInv, Handler
    <2>2. OwnerKept' /\ LeaseAccounted'
        BY Zenon, <1>1, UpgradeOwner, PairOwner DEF Handler
    <2>3. Timely(c)'
        <3>1. CASE SideCloses(c) \/ StreamFails(c) \/ SessionDeadline(c) \/ HardClose(c)
            <4>1. pc'[c] \in {"closing", "releasing"} /\ lost' = lost
                BY Zenon, <3>1, CloseBothType, FinalizeType DEF BaseInv, TypeOK, SideCloses, StreamFails,
                   SessionDeadline, HardClose, Paired, hvars
            <4> QED
                BY Zenon, <4>1, StoppedTimely DEF BaseInv
        <3> QED
            BY Zenon, <1>1, <3>1, UpgradeTimely, CheckTimely DEF Handler
    <2>4. ASSUME NEW d \in Conn \ {c} PROVE Timely(d)'
        BY Zenon, <1>1, OthersSame, SameTimely DEF BaseInv
    <2> QED
        BY Zenon, <2>1, <2>2, <2>3, <2>4 DEF BaseInv
<1>2. ASSUME NEW r \in Relay, Deliver(r) \/ Shutdown(r) \/ Drain(r) \/ Crash(r) PROVE BaseInv'
    <2>1. ASSUME NEW d \in Conn PROVE Timely(d)'
        BY Zenon, <1>2, RelayEffect, SameTimely, StoppedTimely DEF BaseInv
    <2> QED
        BY Zenon, <1>2, <2>1, RelayType, RelayOwner DEF BaseInv
<1>3. CASE EndSession \/ RevokeKey \/ Publish \/ Flush
    <2>1. ASSUME NEW d \in Conn PROVE Timely(d)'
        <3>1. UNCHANGED <<cvars, hvars>> /\ (lease' = lease \/ lease' = Free)
            BY Zenon, <1>3 DEF EndSession, RevokeKey, Publish, Flush
        <3> QED
            <4>1. Same(d) /\ ended' = ended
                BY Zenon, <3>1 DEF cvars, hvars, Same
            <4>2. lease'.owner = d => lease.owner = d
                BY <3>1, RelayControlAssumption DEF Free
            <4> QED
                BY Zenon, <4>1, <4>2, SameTimely DEF BaseInv
    <2> QED
        BY Zenon, <1>3, <2>1, SessionType, RestOwner DEF BaseInv
<1>4. CASE Tick
    BY Zenon, <1>4, TickType, RestOwner, TickTimely DEF BaseInv
<1>5. CASE UNCHANGED vars
    <2>1. ASSUME NEW d \in Conn PROVE Timely(d)'
        BY Zenon, <1>5, SameTimely DEF BaseInv, vars, rvars, cvars, hvars, Same
    <2>2. TypeOK'
        BY Zenon, <1>5 DEF BaseInv, TypeOK, vars, rvars, cvars, pvars, hvars
    <2>3. OwnerKept' /\ LeaseAccounted'
        BY Zenon, <1>5 DEF BaseInv, OwnerKept, LeaseAccounted, vars, rvars, cvars, pvars, hvars
    <2> QED
        BY Zenon, <2>1, <2>2, <2>3 DEF BaseInv
<1> QED
    BY Zenon, <1>1, <1>2, <1>3, <1>4, <1>5 DEF Next

\* Types, ownership and the time bounds hold in every reachable state, whatever
\* the timeouts are and whatever fails.
THEOREM Invariant == Spec => []BaseInv
BY InitBase, StepBase, PTL DEF Spec

\* A session that has ended is disconnected, and a pair without its lease is
\* closed, within EndGrace and LossGrace: by the periodic check of an open pair,
\* whether or not a revocation is written, published or delivered.
THEOREM StaleIsBounded == Spec => []StalePairsClose
<1>1. BaseInv => StalePairsClose
    <2> SUFFICES ASSUME BaseInv PROVE StalePairsClose
        BY Zenon
    <2>1. ASSUME NEW c \in Conn, pc[c] = "open" PROVE ended <= EndGrace
        <3>1. /\ ended \in Nat /\ clock[c] \in Nat /\ cage[c] \in 0..CallDelay
              /\ chk[c] \in {"none", "row", "key", "ok"}
              /\ CallDelay \in Nat /\ ConnectTimeout \in Nat /\ CheckInterval \in Nat
            BY RelayControlAssumption DEF BaseInv, TypeOK, EndGrace
        <3>2. ClockKept(c) /\ EndKept(c)
            BY Zenon DEF BaseInv, Timely
        <3> QED
            BY <2>1, <3>1, <3>2 DEF ClockKept, EndKept, EndGrace
    <2>2. ended \in Nat /\ EndGrace \in Nat
        BY RelayControlAssumption DEF BaseInv, TypeOK, EndGrace
    <2>3. \A c \in Conn : lost[c] <= LossGrace
        BY Zenon DEF BaseInv, Timely, LossKept
    <2> QED
        BY <2>1, <2>2, <2>3 DEF StalePairsClose, Open
<1> QED
    BY <1>1, Invariant, PTL

\* Without a failure, a lease belongs to an upgrade, a pair or a release under
\* way, to a client that left during its upgrade or to a process made to exit:
\* no path through handleUpgrade, the drain and the closing handshake drops it.
THEOREM LeaseIsAccounted == Spec => []LeaseAccounted
<1>1. BaseInv => LeaseAccounted
    BY Zenon DEF BaseInv
<1> QED
    BY <1>1, Invariant, PTL

-------------------------------------------------------------------------------
(* What the lease guarantees while it does not lapse                         *)

\* Two connections never hold the lease together.
LEMMA OwnedByOne ==
    ASSUME \A c \in Conn : OwnedKept(c), NEW c \in Conn, NEW d \in Conn,
           pc[c] \in {"connecting", "open"}, pc[d] \in {"connecting", "open"}
    PROVE  c = d
BY Zenon DEF OwnedKept, Holding

\* A connection that does not take part in a step keeps what it holds, ...
LEMMA SameOwned ==
    ASSUME NEW d \in Conn, OwnedKept(d), Same(d), lease.owner = d => lease' = lease
    PROVE  OwnedKept(d)'
BY Zenon DEF OwnedKept, Same

\* ... and one that stops need not hold anything.
LEMMA StoppedOwned ==
    ASSUME NEW d \in Conn, pc'[d] \in {"closing", "releasing", "done"}
    PROVE  OwnedKept(d)'
BY Zenon DEF OwnedKept, Holding

\* The upgrade handler holds the lease from its acquisition on.
LEMMA UpgradeOwned ==
    ASSUME TypeOK, NEW c \in Conn, OwnedKept(c), UpgradeMove(c)
    PROVE  OwnedKept(c)'
<1>1. \/ pc'[c] \notin Holding
      \/ pc[c] \in Holding /\ lease' = lease
      \/ lease' = [owner |-> c, ttl |-> LeaseTTL]
    BY Zenon DEF UpgradeMove, Moves, Takes, Early, Late, Holding
<1> QED
    BY <1>1 DEF OwnedKept

\* The steps of a check take nothing from its connection.
LEMMA CheckOwned ==
    ASSUME TypeOK, NEW c \in Conn, OwnedKept(c),
           \/ CheckTimer(c) \/ CheckAuthorizes(c) \/ CheckRenews(c) \/ RenewFails(c) \/ CheckEnds(c)
    PROVE  OwnedKept(c)'
<1>1. pc'[c] = pc[c] \/ pc'[c] = "closing"
    BY Zenon, CloseBothType
    DEF CheckTimer, CheckAuthorizes, CheckRenews, RenewFails, CheckEnds
<1>2. lease' = lease \/ lease' = Renewed(c)
    BY Zenon DEF CheckTimer, CheckAuthorizes, CheckRenews, RenewFails, CheckEnds, rvars
<1>3. lease'.owner = lease.owner
    BY Zenon, <1>2, LeaseType
<1> QED
    BY Zenon, <1>1, <1>3 DEF OwnedKept, Holding

\* A connection registers when it opens, and unregisters nobody but itself.
LEMMA ConnRegistered ==
    ASSUME BaseInv, OwnedInv, NEW c \in Conn,
           \/ Upgrade(c) \/ Handler(c) \/ AcquireUnanswered(c) \/ Abandon(c) \/ ReleaseFails(c)
           \/ SideCloses(c) \/ StreamFails(c) \/ SessionDeadline(c) \/ RenewFails(c)
    PROVE  OpenIsRegistered' /\ DrainingClosesAll'
<1>1. TypeOK /\ UNCHANGED <<home, drain>>
    BY Zenon DEF BaseInv, Upgrade, Handler, AuthorizeRow, AuthorizeKey, Acquire, AcquireAnswered, AcquireUnanswered,
       Abandon, Release, ReleaseFails, Connect, SideCloses, StreamFails, SessionDeadline, HardClose,
       CheckTimer, CheckAuthorizes, CheckRenews, RenewFails, CheckEnds, pvars
<1>2. \/ active' = active /\ (pc'[c] = "open" => pc[c] = "open")
      \/ active' = Unregister(c) /\ pc'[c] = "releasing"
      \/ /\ pc[c] = "connecting" /\ drain[home[c]] = "up"
         /\ active' = [active EXCEPT ![home[c]] = c]
    <2>1. CASE CloseBoth({c}) /\ active' = active
        BY Zenon, <1>1, <2>1, CloseBothType
    <2>2. CASE Finalize(c)
        BY Zenon, <1>1, <2>2, FinalizeType DEF Finalize
    <2>3. CASE /\ \/ Upgrade(c) \/ AuthorizeRow(c) \/ AuthorizeKey(c) \/ Acquire(c)
                  \/ AcquireAnswered(c) \/ AcquireUnanswered(c) \/ Abandon(c) \/ Release(c) \/ ReleaseFails(c)
                  \/ Connect(c)
        <3>1. UpgradeMove(c)
            BY Zenon, <1>1, <2>3, UpgradeMoves
        <3>2. pc'[c] = "open" => pc[c] = "connecting"
            BY Zenon, <3>1 DEF UpgradeMove, Moves
        <3>3. CASE Connect(c)
            <4>1. Goto(c, "releasing") => pc'[c] = "releasing"
                BY Zenon, <1>1, GotoType DEF Pc
            <4> QED
                BY Zenon, <3>3, <4>1 DEF Connect
        <3>4. CASE ~Connect(c)
            <4>1. active' = active
                BY Zenon, <2>3, <3>4 DEF Upgrade, AuthorizeRow, AuthorizeKey, Acquire,
                   AcquireAnswered, AcquireUnanswered, Abandon, Release, ReleaseFails, pvars
            <4>2. ASSUME pc[c] = "connecting" PROVE pc'[c] # "open"
                <5>1. Goto(c, "abandoned")
                    BY Zenon, <2>3, <3>4, <4>2 DEF Upgrade, AuthorizeRow, AuthorizeKey, Acquire,
                       AcquireAnswered, AcquireUnanswered, Abandon, Release, ReleaseFails
                <5>2. "abandoned" \in Pc
                    BY Zenon DEF Pc, Finished
                <5>3. pc'[c] = "abandoned"
                    BY Zenon, <1>1, <5>1, <5>2, GotoType
                <5> QED
                    BY Zenon, <5>3
            <4> QED
                BY Zenon, <3>2, <4>1, <4>2
        <3> QED
            BY Zenon, <3>3, <3>4
    <2>4. CASE pc' = pc /\ active' = active
        BY Zenon, <2>4
    <2> QED
        BY Zenon, <2>1, <2>2, <2>3, <2>4 DEF Handler, SideCloses, StreamFails, SessionDeadline,
           HardClose, CheckTimer, CheckAuthorizes, CheckRenews, RenewFails, CheckEnds, pvars
<1>3. \A d \in Conn \ {c} : pc'[d] = pc[d]
    BY Zenon, OthersSame DEF Same
<1>4. ASSUME NEW d \in Conn, pc'[d] = "open"
      PROVE  active'[home[d]] = d /\ drain[home[d]] = "up"
    <2>1. home[d] \in Relay /\ home[c] \in Relay
        BY Zenon, <1>1 DEF TypeOK
    <2>2. CASE pc[d] = "open"
        <3>1. active[home[d]] = d /\ drain[home[d]] = "up"
            BY Zenon, <2>2 DEF OwnedInv, OpenIsRegistered, DrainingClosesAll, Open
        <3>2. ~(pc[c] = "connecting" /\ active' = [active EXCEPT ![home[c]] = c])
            BY Zenon, <2>2, OwnedByOne DEF OwnedInv
        <3> QED
            BY <1>1, <1>2, <1>4, <2>1, <3>1, <3>2 DEF TypeOK, Unregister
    <2>3. CASE pc[d] # "open"
        BY <1>1, <1>2, <1>3, <1>4, <2>1, <2>3 DEF TypeOK
    <2> QED
        BY Zenon, <2>2, <2>3
<1> QED
    BY Zenon, <1>1, <1>4 DEF OpenIsRegistered, DrainingClosesAll, Open

\* The drain reaches every open pair, and takes no registration from another.
LEMMA RelayRegistered ==
    ASSUME BaseInv, OwnedInv, NEW r \in Relay,
           Deliver(r) \/ Shutdown(r) \/ Drain(r) \/ Crash(r)
    PROVE  OpenIsRegistered' /\ DrainingClosesAll'
<1>1. TypeOK /\ UNCHANGED home
    BY Zenon, RelayEffect DEF BaseInv
<1>2. ASSUME NEW d \in Conn, pc'[d] = "open"
      PROVE  active'[home[d]] = d /\ drain'[home[d]] = "up"
    <2>1. pc[d] = "open" /\ home[d] \in Relay
        BY Zenon, <1>1, <1>2, RelayEffect DEF Same, TypeOK
    <2>2. active[home[d]] = d /\ drain[home[d]] = "up"
        BY Zenon, <2>1 DEF OwnedInv, OpenIsRegistered, DrainingClosesAll, Open
    <2>3. CASE Deliver(r)
        BY Zenon, <2>2, <2>3 DEF Deliver, pvars
    <2>4. CASE Shutdown(r)
        <3>1. home[d] # r
            <4> SUFFICES ASSUME home[d] = r PROVE FALSE
                BY Zenon
            <4>1. d \in {x \in Conn : active[r] = x}
                BY Zenon, <2>2
            <4>2. CloseBoth({x \in Conn : active[r] = x})
                BY Zenon, <2>4 DEF Shutdown
            <4>3. pc'[d] # "open"
                BY Zenon, <1>1, <2>1, <4>1, <4>2, CloseBothType
            <4> QED
                BY Zenon, <1>2, <4>3
        <3> QED
            BY <1>1, <2>1, <2>2, <2>4, <3>1 DEF Shutdown, Stage, TypeOK
    <2>5. CASE DrainTerminates(r) \/ DrainStops(r)
        <3>1. home[d] # r
            BY Zenon, <2>2, <2>5 DEF DrainTerminates, DrainStops
        <3>2. active[r] # d
            BY Zenon, <1>1, <2>2, <3>1, RelayControlAssumption DEF BaseInv, OwnerKept
        <3>3. drain'[home[d]] = "up"
            BY <1>1, <2>1, <2>2, <2>5, <3>1 DEF DrainTerminates, DrainStops, Stage, TypeOK
        <3>4. active'[home[d]] = d
            BY <1>1, <2>1, <2>2, <2>5, <3>1, <3>2
            DEF DrainTerminates, DrainStops, Finalize, Unregister, TypeOK
        <3> QED
            BY Zenon, <3>3, <3>4
    <2>6. CASE Die(r)
        <3>1. home[d] # r
            BY Zenon, <1>1, <1>2, <2>1, <2>6 DEF Die, Finished
        <3> QED
            BY <1>1, <2>1, <2>2, <2>6, <3>1 DEF Die, Stage, TypeOK
    <2> QED
        BY Zenon, <2>3, <2>4, <2>5, <2>6 DEF Drain, DrainForced, Crash
<1> QED
    BY Zenon, <1>1, <1>2 DEF OpenIsRegistered, DrainingClosesAll, Open

\* What the lease guarantees is inductive while no lease lapses, whatever the
\* timeouts are.
LEMMA StepOwned ==
    ASSUME BaseInv, OwnedInv, [Next]_vars, [~Lapses]_vars
    PROVE  OwnedInv'
<1>1. ASSUME NEW c \in Conn,
             \/ Upgrade(c) \/ Handler(c) \/ AcquireUnanswered(c) \/ Abandon(c) \/ ReleaseFails(c)
             \/ SideCloses(c) \/ StreamFails(c) \/ SessionDeadline(c) \/ RenewFails(c)
      PROVE  OwnedInv'
    <2>1. TypeOK /\ OwnedKept(c)
        BY Zenon DEF BaseInv, OwnedInv
    <2>2. OwnedKept(c)'
        <3>1. CASE SideCloses(c) \/ StreamFails(c) \/ SessionDeadline(c) \/ HardClose(c)
            <4>1. pc'[c] \in {"closing", "releasing"}
                BY Zenon, <3>1, CloseBothType, FinalizeType DEF BaseInv, TypeOK, SideCloses, StreamFails,
                   SessionDeadline, HardClose, Paired
            <4> QED
                BY Zenon, <4>1, StoppedOwned
        <3> QED
            BY Zenon, <1>1, <2>1, <3>1, UpgradeMoves, UpgradeOwned, CheckOwned DEF Handler
    <2>3. ASSUME NEW d \in Conn \ {c} PROVE OwnedKept(d)'
        BY Zenon, <1>1, OthersSame, SameOwned DEF OwnedInv
    <2> QED
        BY Zenon, <1>1, <2>2, <2>3, ConnRegistered DEF OwnedInv
<1>2. ASSUME NEW r \in Relay, Deliver(r) \/ Shutdown(r) \/ Drain(r) \/ Crash(r)
      PROVE  OwnedInv'
    <2>1. ASSUME NEW d \in Conn PROVE OwnedKept(d)'
        BY Zenon, <1>2, RelayEffect, SameOwned, StoppedOwned DEF OwnedInv
    <2> QED
        BY Zenon, <1>2, <2>1, RelayRegistered DEF OwnedInv
<1>3. CASE Tick \/ Flush
    <2>1. UNCHANGED <<pc, home, active, drain>>
        BY Zenon, <1>3 DEF Tick, Flush, cvars, pvars
    <2>2. lease' = Free \/ lease'.owner = lease.owner
        <3>1. lease \in [owner : Conn \cup {"none"}, ttl : 0..LeaseTTL]
            BY Zenon DEF BaseInv, TypeOK
        <3> QED
            BY <1>3, <3>1 DEF Tick, Flush
    <2>3. ASSUME NEW d \in Conn PROVE OwnedKept(d)'
        <3>1. CASE pc[d] \in Holding
            <4>1. lease.owner = d /\ d # "none"
                BY Zenon, <3>1, RelayControlAssumption DEF OwnedInv, OwnedKept
            <4>2. lease' # Free
                <5>1. ASSUME lease' = Free PROVE FALSE
                    <6>1. Lapses
                        BY Zenon, <1>3, <3>1, <4>1, <5>1 DEF Lapses
                    <6>2. lease'.owner # lease.owner
                        BY <4>1, <5>1 DEF Free
                    <6> QED
                        BY Zenon, <6>1, <6>2 DEF vars, rvars
                <5> QED
                    BY Zenon, <5>1
            <4> QED
                BY Zenon, <2>2, <4>1, <4>2 DEF OwnedKept
        <3> QED
            BY Zenon, <2>1, <3>1 DEF OwnedKept
    <2> QED
        BY Zenon, <2>1, <2>3 DEF OwnedInv, OpenIsRegistered, DrainingClosesAll, Open
<1>4. CASE EndSession \/ RevokeKey \/ Publish \/ UNCHANGED vars
    <2>1. UNCHANGED <<lease, cvars, pvars>>
        BY Zenon, <1>4 DEF EndSession, RevokeKey, Publish, vars, rvars
    <2> QED
        BY Zenon, <2>1 DEF OwnedInv, OwnedKept, OpenIsRegistered, DrainingClosesAll, Open, cvars, pvars
<1> QED
    BY Zenon, <1>1, <1>2, <1>3, <1>4 DEF Next

\* While no lease lapses, every connection that counts on the lease has it: no
\* acquisition, renewal or release of another one takes it.
LEMMA LeaseIsOwned == Spec /\ [][~Lapses]_vars => []OwnedInv
<1>1. Init => OwnedInv
    BY DEF Init, OwnedInv, OwnedKept, Holding, OpenIsRegistered, DrainingClosesAll, Open
<1>2. BaseInv /\ OwnedInv /\ [Next]_vars /\ [~Lapses]_vars => OwnedInv'
    BY Zenon, StepOwned
<1> QED
    BY <1>1, <1>2, Invariant, PTL DEF Spec

\* Whatever the timeouts are and whatever fails: at most one pair of a session
\* forwards messages, on any number of relays, until a lease runs out under an
\* upgrade or a pair, or is lost with the data in Redis.
THEOREM SingleController == Spec /\ [][~Lapses]_vars => []OneController
<1>1. OwnedInv => OneController
    <2> SUFFICES ASSUME OwnedInv PROVE Cardinality(Open) <= 1
        BY Zenon DEF OneController
    <2>1. \A c, d \in Open : c = d
        BY Zenon, OwnedByOne DEF OwnedInv, Open
    <2>2. CASE Open = {}
        BY <2>2, FS_EmptySet
    <2>3. CASE Open # {}
        <3>1. PICK c \in Open : Open = {c}
            BY Zenon, <2>1, <2>3
        <3>2. Cardinality({c}) = 1
            BY FS_Singleton
        <3> QED
            BY <3>1, <3>2
    <2> QED
        BY Zenon, <2>2, <2>3
<1> QED
    BY <1>1, LeaseIsOwned, PTL

\* As long, the map of active connections knows every open pair, so that no
\* revocation and no drain misses one, also when an older pair closes late, ...
THEOREM OpenPairsAreRegistered == Spec /\ [][~Lapses]_vars => []OpenIsRegistered
<1>1. OwnedInv => OpenIsRegistered
    BY Zenon DEF OwnedInv
<1> QED
    BY <1>1, LeaseIsOwned, PTL

\* ... and close() leaves no pair open on a draining relay.
THEOREM DrainClosesPairs == Spec /\ [][~Lapses]_vars => []DrainingClosesAll
<1>1. OwnedInv => DrainingClosesAll
    BY Zenon DEF OwnedInv
<1> QED
    BY <1>1, LeaseIsOwned, PTL

-------------------------------------------------------------------------------
(* When no lease lapses                                                      *)

\* A connection that does not take part in a step keeps the time it has, ...
LEMMA SameHeld ==
    ASSUME NEW d \in Conn, HeldKept(d), Same(d), lease.owner = d => lease' = lease
    PROVE  HeldKept(d)'
<1>1. OwnedKept(d)'
    BY Zenon, SameOwned DEF HeldKept
<1>2. pc[d] \in Holding => lease' = lease
    BY Zenon DEF HeldKept, OwnedKept
<1> QED
    BY Zenon, <1>1, <1>2 DEF HeldKept, Same, Holding

\* ... and one that stops needs none.
LEMMA StoppedHeld ==
    ASSUME NEW d \in Conn, pc'[d] \in {"closing", "releasing", "done"}
    PROVE  HeldKept(d)'
BY Zenon, StoppedOwned DEF HeldKept

\* The time of the upgrade handler counts from its acquisition on.
LEMMA UpgradeHeld ==
    ASSUME BaseInv, NEW c \in Conn, HeldKept(c),
           \/ Upgrade(c) \/ AuthorizeRow(c) \/ AuthorizeKey(c) \/ Acquire(c)
           \/ AcquireAnswered(c) \/ AcquireUnanswered(c) \/ Abandon(c) \/ Release(c) \/ ReleaseFails(c) \/ Connect(c)
    PROVE  HeldKept(c)'
<1>1. UNCHANGED <<chk, ren, cage>>
    BY Zenon DEF Upgrade, AuthorizeRow, AuthorizeKey, Acquire, AcquireAnswered, AcquireUnanswered, Abandon, Release,
        ReleaseFails, Connect
<1>2. ClockKept(c) /\ TypeOK
    BY Zenon DEF BaseInv, Timely
<1>3. CASE pc'[c] \in {"closing", "releasing", "done"}
    BY Zenon, <1>3, StoppedHeld
<1>4. /\ lease.ttl \in Nat /\ clock[c] \in Nat /\ LeaseTTL \in Nat
      /\ CallDelay \in Nat /\ ConnectTimeout \in Nat /\ CheckInterval \in Nat
    BY Zenon, <1>2, Numbers
<1>5. CASE pc'[c] \notin {"closing", "releasing", "done"}
    <2>0. OwnedKept(c)' /\ UpgradeMove(c)
        BY Zenon, <1>2, UpgradeMoves, UpgradeOwned DEF HeldKept
    <2>1. \/ pc'[c] \in {"authRow", "authKey", "acquiring", "abandoned"}
          \/ /\ pc'[c] = "acquired" /\ clock'[c] = clock[c] /\ lease' = [owner |-> c, ttl |-> LeaseTTL]
          \/ pc[c] = "acquired" /\ pc'[c] = "reauthRow" /\ clock'[c] = 0 /\ lease' = lease
          \/ /\ pc[c] = "reauthRow" /\ pc'[c] = "reauthKey" /\ clock'[c] = clock[c] /\ lease' = lease
          \/ pc[c] = "reauthKey" /\ pc'[c] = "connecting" /\ clock'[c] = 0 /\ lease' = lease
          \/ pc[c] = "connecting" /\ pc'[c] = "open" /\ clock'[c] = 0 /\ lease' = lease
        BY Zenon, <1>5, <2>0 DEF UpgradeMove, Moves, Takes
    <2>2. CASE pc'[c] \in {"authRow", "authKey", "acquiring", "abandoned"}
        BY Zenon, <2>0, <2>2 DEF HeldKept
    <2>3. CASE /\ pc'[c] = "acquired" /\ clock'[c] = clock[c]
               /\ lease' = [owner |-> c, ttl |-> LeaseTTL]
        <3>1. LeaseTTL <= lease'.ttl + clock'[c]
            BY <1>4, <2>3
        <3> QED
            BY Zenon, <2>0, <2>3, <3>1 DEF HeldKept
    <2>4. CASE pc[c] = "acquired" /\ pc'[c] = "reauthRow" /\ clock'[c] = 0 /\ lease' = lease
        <3>1. LeaseTTL <= lease.ttl + clock[c] /\ clock[c] <= CallDelay
            BY Zenon, <1>2, <2>4 DEF HeldKept, ClockKept
        <3>2. LeaseTTL <= lease.ttl + CallDelay + 0
            BY <1>4, <3>1
        <3> QED
            BY Zenon, <2>0, <2>4, <3>2 DEF HeldKept
    <2>5. CASE /\ pc[c] = "reauthRow" /\ pc'[c] = "reauthKey" /\ clock'[c] = clock[c]
               /\ lease' = lease
        BY Zenon, <2>0, <2>5 DEF HeldKept
    <2>6. CASE pc[c] = "reauthKey" /\ pc'[c] = "connecting" /\ clock'[c] = 0 /\ lease' = lease
        <3>1. LeaseTTL <= lease.ttl + CallDelay + clock[c] /\ clock[c] <= CallDelay
            BY Zenon, <1>2, <2>6 DEF HeldKept, ClockKept
        <3>2. LeaseTTL <= lease.ttl + 2 * CallDelay + 0
            BY <1>4, <3>1
        <3> QED
            BY Zenon, <2>0, <2>6, <3>2 DEF HeldKept
    <2>7. CASE pc[c] = "connecting" /\ pc'[c] = "open" /\ clock'[c] = 0 /\ lease' = lease
        <3>1. /\ LeaseTTL <= lease.ttl + 2 * CallDelay + clock[c]
              /\ clock[c] <= ConnectTimeout /\ chk[c] = "none"
            BY Zenon, <1>2, <2>7 DEF HeldKept, ClockKept, Upgrading
        <3>2. LeaseTTL <= lease.ttl + 2 * CallDelay + ConnectTimeout + 0
            BY <1>4, <3>1
        <3> QED
            BY Zenon, <1>1, <2>0, <2>7, <3>1, <3>2 DEF HeldKept
    <2> QED
        BY Zenon, <2>1, <2>2, <2>3, <2>4, <2>5, <2>6, <2>7
<1> QED
    BY Zenon, <1>3, <1>5

\* The periodic check renews it in time.
LEMMA CheckHeld ==
    ASSUME BaseInv, NEW c \in Conn, HeldKept(c),
           \/ CheckTimer(c) \/ CheckAuthorizes(c) \/ CheckRenews(c) \/ RenewFails(c) \/ CheckEnds(c)
    PROVE  HeldKept(c)'
<1>1. ClockKept(c) /\ TypeOK
    BY Zenon DEF BaseInv, Timely
<1>2. pc'[c] = pc[c] \/ (pc[c] = "open" /\ pc'[c] = "closing")
    BY Zenon, <1>1, CloseBothType
    DEF CheckTimer, CheckAuthorizes, CheckRenews, RenewFails, CheckEnds
<1>3. CASE pc'[c] # "open"
    <2>1. pc[c] \notin Upgrading
        BY Zenon, <1>1, <1>2 DEF ClockKept, Upgrading, CheckTimer, CheckAuthorizes, CheckRenews,
           RenewFails, CheckEnds
    <2>2. pc'[c] \notin Holding
        BY Zenon, <1>2, <1>3, <2>1 DEF Holding, Upgrading
    <2> QED
        BY Zenon, <2>2 DEF HeldKept, OwnedKept, Holding
<1>4. CASE pc'[c] = "open"
    <2>1. pc[c] = "open" /\ lease.owner = c
        BY Zenon, <1>2, <1>4 DEF HeldKept, OwnedKept, Holding
    <2>2. /\ lease.ttl \in 0..LeaseTTL /\ clock[c] \in Nat /\ cage[c] \in 0..CallDelay
          /\ LeaseTTL \in Nat /\ CallDelay \in Nat /\ ConnectTimeout \in Nat /\ CheckInterval \in Nat
        BY Zenon, <1>1, Numbers
    <2>3. Renewed(c).owner = c /\ Renewed(c).ttl = LeaseTTL
        BY Zenon, <1>1, <2>1, LeaseType
    <2>4. /\ clock[c] <= CheckInterval
          /\ chk[c] = "none" => LeaseTTL <= lease.ttl + 2 * CallDelay + ConnectTimeout + clock[c]
          /\ chk[c] # "none" /\ ren[c] = "yes" => LeaseTTL <= lease.ttl + cage[c]
          /\ chk[c] # "none" /\ ren[c] # "yes" =>
               LeaseTTL <= lease.ttl + 2 * CallDelay + ConnectTimeout + CheckInterval + cage[c]
        BY Zenon, <1>1, <2>1 DEF HeldKept, ClockKept
    <2>5. ASSUME lease'.owner = c,
                 chk'[c] = "none" => LeaseTTL <= lease'.ttl + 2 * CallDelay + ConnectTimeout + clock'[c],
                 chk'[c] # "none" /\ ren'[c] = "yes" => LeaseTTL <= lease'.ttl + cage'[c],
                 chk'[c] # "none" /\ ren'[c] # "yes" =>
                   LeaseTTL <= lease'.ttl + 2 * CallDelay + ConnectTimeout + CheckInterval + cage'[c]
          PROVE  HeldKept(c)'
        BY Zenon, <1>4, <2>5 DEF HeldKept, OwnedKept
    <2>6. CASE CheckStarts(c)
        BY <2>1, <2>2, <2>4, <2>5, <2>6 DEF CheckStarts
    <2>7. CASE CheckSkips(c)
        BY Zenon, <2>1, <2>4, <2>5, <2>7 DEF CheckSkips
    <2>8. CASE CheckGoesOn(c)
        BY Zenon, <2>1, <2>4, <2>5, <2>8 DEF CheckGoesOn
    <2>9. CASE CheckRenewed(c)
        BY <2>1, <2>2, <2>3, <2>5, <2>9 DEF CheckRenewed
    <2>10. CASE CheckForgets(c)
        BY <2>2, <2>3, <2>5, <2>10 DEF CheckForgets
    <2>11. CASE CheckDone(c)
        BY <2>1, <2>2, <2>4, <2>5, <2>11 DEF CheckDone
    <2> QED
        BY Zenon, <1>1, <1>4, <2>1, <2>6, <2>7, <2>8, <2>9, <2>10, <2>11, CheckMoves
<1> QED
    BY Zenon, <1>3, <1>4

\* No tick ends a lease that is held.
LEMMA TickHeld ==
    ASSUME LeaseOutlasts, BaseInv, Tick, NEW c \in Conn, HeldKept(c)
    PROVE  HeldKept(c)'
<1>1. UNCHANGED <<pc, chk, ren>> /\ TypeOK
    BY Zenon DEF Tick, BaseInv
<1>2. /\ Waits(c) => clock[c] < Limit(c)
      /\ clock'[c] = IF Waits(c) THEN clock[c] + 1 ELSE 0
      /\ cage'[c] = IF chk[c] # "none" \/ ren[c] # "none" THEN cage[c] + 1 ELSE 0
      /\ chk[c] # "none" \/ ren[c] # "none" => cage[c] < CallDelay
    BY Zenon DEF Tick
<1>3. /\ lease.ttl \in 0..LeaseTTL /\ clock[c] \in Nat /\ cage[c] \in 0..CallDelay
      /\ LeaseTTL \in Nat /\ CallDelay \in Nat /\ ConnectTimeout \in Nat /\ CheckInterval \in Nat
      /\ LeaseTTL > ConnectTimeout + CheckInterval + 3 * CallDelay
    <2>1. LeaseTTL > ConnectTimeout + CheckInterval + 3 * CallDelay
        BY Zenon DEF LeaseOutlasts
    <2>2. /\ lease.ttl \in 0..LeaseTTL /\ clock[c] \in Nat /\ cage[c] \in 0..CallDelay
          /\ LeaseTTL \in Nat /\ CallDelay \in Nat /\ ConnectTimeout \in Nat
          /\ CheckInterval \in Nat
        BY Zenon, <1>1, Numbers
    <2> QED
        BY Zenon, <2>1, <2>2
<1>4. CASE pc[c] \in Holding
    <2>1. lease.owner = c /\ lease.ttl > 1
        <3>1. lease.owner = c
            BY Zenon, <1>4 DEF HeldKept, OwnedKept
        <3>2. lease.ttl > 1
            BY <1>2, <1>3, <1>4 DEF HeldKept, Holding, Waits, Limit, Finished
        <3> QED
            BY Zenon, <3>1, <3>2
    <2>2. lease'.owner = c /\ lease'.ttl = lease.ttl - 1
        <3>1. lease \in [owner : Conn \cup {"none"}, ttl : 0..LeaseTTL]
            BY Zenon, <1>1 DEF TypeOK
        <3>2. lease' = [lease EXCEPT !.ttl = lease.ttl - 1]
            BY <1>3, <2>1 DEF Tick
        <3> QED
            BY Zenon, <2>1, <3>1, <3>2
    <2>3. clock'[c] = clock[c] + 1
        BY Zenon, <1>2, <1>4 DEF Waits, Finished, Holding
    <2> QED
        <3>0. OwnedKept(c)'
            BY Zenon, <2>2 DEF OwnedKept
        <3>1. /\ chk[c] # "none" => cage'[c] = cage[c] + 1
              /\ chk'[c] = chk[c] /\ ren'[c] = ren[c] /\ pc'[c] = pc[c]
            BY Zenon, <1>1, <1>2
        <3>2. ASSUME NEW x \in Nat, LeaseTTL <= lease.ttl + x
              PROVE  LeaseTTL <= lease'.ttl + (x + 1)
            BY <1>3, <2>2, <3>2
        <3>3. CASE pc[c] = "acquired"
            <4>1. LeaseTTL <= lease.ttl + clock[c]
                BY Zenon, <3>3 DEF HeldKept
            <4> QED
                BY Zenon, <1>3, <2>3, <3>0, <3>1, <3>2, <3>3, <4>1 DEF HeldKept
        <3>4. CASE pc[c] \in {"reauthRow", "reauthKey"}
            <4>1. LeaseTTL <= lease.ttl + CallDelay + clock[c]
                BY Zenon, <3>4 DEF HeldKept
            <4>2. LeaseTTL <= lease'.ttl + CallDelay + clock'[c]
                BY <1>3, <2>2, <2>3, <4>1
            <4> QED
                BY Zenon, <3>0, <3>1, <3>4, <4>2 DEF HeldKept
        <3>5. CASE pc[c] = "connecting"
            <4>1. LeaseTTL <= lease.ttl + 2 * CallDelay + clock[c]
                BY Zenon, <3>5 DEF HeldKept
            <4>2. LeaseTTL <= lease'.ttl + 2 * CallDelay + clock'[c]
                BY <1>3, <2>2, <2>3, <4>1
            <4> QED
                BY Zenon, <3>0, <3>1, <3>5, <4>2 DEF HeldKept
        <3>6. CASE pc[c] = "open"
            <4>1. /\ chk[c] = "none" => LeaseTTL <= lease.ttl + 2 * CallDelay + ConnectTimeout + clock[c]
                  /\ chk[c] # "none" /\ ren[c] = "yes" => LeaseTTL <= lease.ttl + cage[c]
                  /\ chk[c] # "none" /\ ren[c] # "yes" =>
                       LeaseTTL <= lease.ttl + 2 * CallDelay + ConnectTimeout + CheckInterval + cage[c]
                BY Zenon, <3>6 DEF HeldKept
            <4>2. /\ chk[c] = "none" => LeaseTTL <= lease'.ttl + 2 * CallDelay + ConnectTimeout + clock'[c]
                  /\ chk[c] # "none" /\ ren[c] = "yes" => LeaseTTL <= lease'.ttl + cage'[c]
                  /\ chk[c] # "none" /\ ren[c] # "yes" =>
                       LeaseTTL <= lease'.ttl + 2 * CallDelay + ConnectTimeout + CheckInterval + cage'[c]
                BY <1>3, <2>2, <2>3, <3>1, <4>1
            <4> QED
                BY Zenon, <3>0, <3>1, <3>6, <4>2 DEF HeldKept
        <3> QED
            BY Zenon, <1>4, <3>3, <3>4, <3>5, <3>6 DEF Holding
<1>5. CASE pc[c] \notin Holding
    BY Zenon, <1>1, <1>5 DEF HeldKept, OwnedKept, Holding
<1> QED
    BY Zenon, <1>4, <1>5

\* The time of the lease is what the clocks say, if it is long enough and Redis
\* keeps its data.
LEMMA StepHeld ==
    ASSUME LeaseOutlasts, BaseInv, HeldInv, [Next]_vars
    PROVE  HeldInv'
<1>1. SUFFICES ASSUME flushes' = 0
               PROVE  \A c \in Conn : HeldKept(c)'
    BY Zenon DEF HeldInv
<1>2. ASSUME NEW c \in Conn,
             \/ Upgrade(c) \/ Handler(c) \/ AcquireUnanswered(c) \/ Abandon(c) \/ ReleaseFails(c)
             \/ SideCloses(c) \/ StreamFails(c) \/ SessionDeadline(c) \/ RenewFails(c)
      PROVE  flushes' = flushes
    BY Zenon, <1>2 DEF Upgrade, Handler, AuthorizeRow, AuthorizeKey, Acquire, AcquireAnswered,
       AcquireUnanswered, Abandon, Release, ReleaseFails, Connect, SideCloses, StreamFails,
       SessionDeadline, HardClose, CheckTimer, CheckAuthorizes, CheckRenews, RenewFails, CheckEnds
<1>3. ~Flush /\ \A c \in Conn : HeldKept(c)
    <2>1. flushes \in Nat
        BY Zenon, Numbers DEF BaseInv
    <2>2. ~Flush
        BY <1>1, <2>1 DEF Flush
    <2>3. EndSession \/ RevokeKey \/ Publish \/ Tick \/ UNCHANGED vars => flushes' = flushes
        BY Zenon DEF EndSession, RevokeKey, Publish, Tick, vars
    <2>4. flushes' = flushes
        BY Zenon, <1>2, <2>2, <2>3, RelayEffect DEF Next
    <2> QED
        BY Zenon, <1>1, <2>2, <2>4 DEF HeldInv
<1>4. ASSUME NEW c \in Conn,
             \/ Upgrade(c) \/ Handler(c) \/ AcquireUnanswered(c) \/ Abandon(c) \/ ReleaseFails(c)
             \/ SideCloses(c) \/ StreamFails(c) \/ SessionDeadline(c) \/ RenewFails(c)
      PROVE  \A d \in Conn : HeldKept(d)'
    <2>1. HeldKept(c)'
        <3>1. CASE SideCloses(c) \/ StreamFails(c) \/ SessionDeadline(c) \/ HardClose(c)
            <4>1. pc'[c] \in {"closing", "releasing"}
                BY Zenon, <3>1, CloseBothType, FinalizeType DEF BaseInv, TypeOK, SideCloses, StreamFails,
                   SessionDeadline, HardClose, Paired
            <4> QED
                BY Zenon, <4>1, StoppedHeld
        <3> QED
            BY Zenon, <1>3, <1>4, <3>1, UpgradeHeld, CheckHeld DEF Handler
    <2>2. ASSUME NEW d \in Conn \ {c} PROVE HeldKept(d)'
        BY Zenon, <1>3, <1>4, OthersSame, SameHeld
    <2> QED
        BY Zenon, <2>1, <2>2
<1>5. ASSUME NEW r \in Relay, Deliver(r) \/ Shutdown(r) \/ Drain(r) \/ Crash(r), NEW d \in Conn
      PROVE  HeldKept(d)'
    BY Zenon, <1>3, <1>5, RelayEffect, SameHeld, StoppedHeld
<1>6. ASSUME Tick, NEW d \in Conn
      PROVE  HeldKept(d)'
    BY Zenon, <1>3, <1>6, TickHeld
<1>7. CASE EndSession \/ RevokeKey \/ Publish \/ UNCHANGED vars
    <2>1. UNCHANGED <<lease, cvars>>
        BY Zenon, <1>7 DEF EndSession, RevokeKey, Publish, vars, rvars
    <2> QED
        BY Zenon, <1>3, <2>1 DEF HeldKept, OwnedKept, cvars
<1> QED
    BY Zenon, <1>3, <1>4, <1>5, <1>6, <1>7 DEF Next

\* With a lease longer than an upgrade, a check and the three calls on the way, the
\* first lapse, if there is one, is a loss of the data in Redis: time alone takes
\* the lease from no upgrade and from no pair.
THEOREM LongLeaseLasts ==
    ASSUME LeaseOutlasts
    PROVE  Spec => [][flushes = 0 /\ Lapses => Flush]_vars
<1>1. Init => HeldInv
    BY DEF Init, HeldInv, HeldKept, OwnedKept, Holding
<1>2. BaseInv /\ HeldInv /\ [Next]_vars => HeldInv'
    BY Zenon, StepHeld
<1>3. BaseInv /\ HeldInv /\ [Next]_vars => [flushes = 0 /\ Lapses => Flush]_vars
    <2> SUFFICES ASSUME BaseInv, HeldInv, flushes = 0, Lapses, Tick PROVE FALSE
        BY Zenon DEF Lapses
    <2>1. PICK c \in Conn : c = lease.owner
        BY Zenon, Numbers DEF Lapses, BaseInv
    <2>2. HeldKept(c) /\ pc[c] \in Holding /\ pc' = pc
        BY Zenon, <2>1 DEF HeldInv, Lapses, Tick
    <2>3. OwnedKept(c)'
        BY Zenon, <2>2, TickHeld DEF HeldKept
    <2>4. lease'.owner = c
        BY Zenon, <2>2, <2>3 DEF OwnedKept
    <2> QED
        BY <2>1, <2>4 DEF Lapses, Free
<1> QED
    BY <1>1, <1>2, <1>3, Invariant, PTL DEF Spec
===============================================================================
