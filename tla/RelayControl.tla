------------------------------ MODULE RelayControl ------------------------------
(***************************************************************************)
(* The CDP relay, for the connections to one session: the upgrade handler, *)
(* the controller lease in Redis, the periodic authorization check,        *)
(* revocation by message, the closing handshake, and the drain of a relay  *)
(* process.                                                                *)
(*                                                                         *)
(* Time runs in ticks.  Timers of a process and the bounds on its awaited  *)
(* calls are enforced by not letting time pass beyond them.  Every awaited *)
(* call is a step of its own.  An authorization may be refused at any time *)
(* (an expired token, an unreachable database), so its failures cost       *)
(* nothing; killed processes, answers lost after the call took effect,     *)
(* failed releases and a Redis that loses its data draw on budgets.        *)
(***************************************************************************)
EXTENDS Naturals, FiniteSets

CONSTANTS Conn,            \* upgrade requests; each has its own ownerID
          Relay,           \* relay processes
          LeaseTTL,        \* config.leaseTTLms
          CheckInterval,   \* config.authorizationCheckIntervalMs
          ConnectTimeout,  \* config.connectTimeoutMs
          DrainTimeout,    \* config.drainTimeoutMs
          CallDelay,       \* bound on one authorization or Redis command
          MaxFaults,       \* bound on crashes, lost answers and failed releases
          MaxFlushes       \* bound on losses of the data in Redis

ASSUME RelayControlAssumption ==
    /\ {ConnectTimeout, DrainTimeout, CallDelay, MaxFaults, MaxFlushes} \subseteq Nat
    /\ {LeaseTTL, CheckInterval} \subseteq Nat \ {0}
    /\ "none" \notin Conn

VARIABLES sess,     \* the session row, as authorizeRelaySession reads it
          revoked,  \* the revocation key in Redis
          lease,    \* the controller key in Redis: owner and remaining time
          msgs,     \* relays with a revocation message on its way to them
          pc, home, \* connection: position, and the relay it reached
          clock,    \* time in the call, since the check timer fired, or since closeBoth
          sides,    \* transports of the pair that are not closed
          chk, ren, \* the running check: authorization and renewal
          cage,     \* and the time since it started
          active,   \* per relay: the map of registered connections
          drain, dclock,    \* per relay: progress of close(), time in it
          ended, lost,      \* history: time since the session ended, and since
                            \* an open connection last held the lease
          faults, flushes

rvars == <<sess, revoked, lease, msgs>>
cvars == <<pc, home, clock, sides, chk, ren, cage>>
pvars == <<active, drain, dclock>>
hvars == <<ended, lost>>
vars  == <<rvars, cvars, pvars, hvars, faults, flushes>>

Upgrading == {"authRow", "authKey", "acquiring", "acquired", "reauthRow", "reauthKey",
              "connecting"}
Paired    == {"open", "closing"}
Finished  == {"done", "abandoned"}
Pc        == {"idle", "releasing"} \cup Upgrading \cup Paired \cup Finished

Free == [owner |-> "none", ttl |-> 0]

\* An open connection to an ended session, or without the lease, is closed
\* within these times.
EndGrace  == ConnectTimeout + CheckInterval + 2 * CallDelay
LossGrace == CheckInterval + 2 * CallDelay

Least(a, b) == IF a < b THEN a ELSE b

Init ==
    /\ sess = "active"
    /\ revoked = FALSE
    /\ lease = Free
    /\ msgs = {}
    /\ pc = [c \in Conn |-> "idle"]
    /\ home \in [Conn -> Relay]
    /\ clock = [c \in Conn |-> 0]
    /\ sides = [c \in Conn |-> {}]
    /\ chk = [c \in Conn |-> "none"]
    /\ ren = [c \in Conn |-> "none"]
    /\ cage = [c \in Conn |-> 0]
    /\ active = [r \in Relay |-> "none"]
    /\ drain = [r \in Relay |-> "up"]
    /\ dclock = [r \in Relay |-> 0]
    /\ ended = 0
    /\ lost = [c \in Conn |-> 0]
    /\ faults = 0
    /\ flushes = 0

Fault ==
    /\ faults < MaxFaults
    /\ faults' = faults + 1

Goto(c, p) ==
    /\ pc' = [pc EXCEPT ![c] = p]
    /\ clock' = [clock EXCEPT ![c] = 0]

-------------------------------------------------------------------------------
(* The session, as the API changes it                                        *)

\* A termination request or the reconciler takes the row out of "active", or
\* its expiry passes.
EndSession ==
    /\ sess = "active"
    /\ sess' \in {"ended", "expired"}
    /\ UNCHANGED <<revoked, lease, msgs, cvars, pvars, hvars, faults, flushes>>

\* revokeSession sets the key, then publishes; either may fail, and the
\* reconciler does neither.
RevokeKey ==
    /\ sess = "ended"
    /\ ~revoked
    /\ revoked' = TRUE
    /\ UNCHANGED <<sess, lease, msgs, cvars, pvars, hvars, faults, flushes>>

Publish ==
    /\ revoked
    /\ msgs' \in SUBSET {r \in Relay : drain[r] \in {"up", "draining", "terminating"}}
    /\ UNCHANGED <<sess, revoked, lease, cvars, pvars, hvars, faults, flushes>>

-------------------------------------------------------------------------------
(* handleUpgrade                                                             *)

Upgrade(c) ==
    /\ pc[c] = "idle"
    /\ IF drain[home[c]] # "up" THEN Goto(c, "done") ELSE Goto(c, "authRow")
    /\ UNCHANGED <<rvars, home, sides, chk, ren, cage, pvars, hvars, faults, flushes>>

\* Where a refused authorization leaves the handler: the second one holds the
\* lease.
OnRefusal(p) == IF p \in {"authRow", "authKey"} THEN "done" ELSE "releasing"

\* authorizeRelaySession verifies the token and reads the row, ...
AuthorizeRow(c) ==
    /\ pc[c] \in {"authRow", "reauthRow"}
    /\ \/ Goto(c, OnRefusal(pc[c]))
       \/ /\ sess = "active"
          /\ pc' = [pc EXCEPT ![c] = IF @ = "authRow" THEN "authKey" ELSE "reauthKey"]
          /\ UNCHANGED clock
    /\ UNCHANGED <<rvars, home, sides, chk, ren, cage, pvars, hvars, faults, flushes>>

\* ... and then the revocation key.
AuthorizeKey(c) ==
    /\ pc[c] \in {"authKey", "reauthKey"}
    /\ \/ Goto(c, OnRefusal(pc[c]))
       \/ /\ ~revoked
          /\ Goto(c, IF pc[c] = "authKey" THEN "acquiring" ELSE "connecting")
    /\ UNCHANGED <<rvars, home, sides, chk, ren, cage, pvars, hvars, faults, flushes>>

\* SET NX PX, at Redis: the lease runs from here, the answer is still to come.
\* CONNECTION_CONFLICT, and a failed call, leave acquired false.
Acquire(c) ==
    /\ pc[c] = "acquiring"
    /\ \/ /\ lease = Free
          /\ lease' = [owner |-> c, ttl |-> LeaseTTL]
          /\ pc' = [pc EXCEPT ![c] = "acquired"]
          /\ UNCHANGED clock
       \/ Goto(c, "done") /\ UNCHANGED lease
    /\ UNCHANGED <<sess, revoked, msgs, home, sides, chk, ren, cage, pvars, hvars,
                   faults, flushes>>

\* The answer to it arrives within the time of the command.
AcquireAnswered(c) ==
    /\ pc[c] = "acquired"
    /\ Goto(c, "reauthRow")
    /\ UNCHANGED <<rvars, home, sides, chk, ren, cage, pvars, hvars, faults, flushes>>

\* The answer does not arrive in time: nothing releases the key.
AcquireUnanswered(c) ==
    /\ pc[c] = "acquired"
    /\ Goto(c, "done")
    /\ Fault
    /\ UNCHANGED <<rvars, home, sides, chk, ren, cage, pvars, hvars, flushes>>

\* Mutant: draining is not looked at again once the upstream is connected.
ConnectUnchecked(c) ==
    /\ pc[c] = "connecting"
    /\ \/ /\ Goto(c, "releasing")
          /\ UNCHANGED <<sides, active>>
       \/ /\ Goto(c, "open")
          /\ sides' = [sides EXCEPT ![c] = {"client", "upstream"}]
          /\ active' = [active EXCEPT ![home[c]] = c]
    /\ UNCHANGED <<rvars, home, chk, ren, cage, drain, dclock, hvars, faults, flushes>>

\* Mutant: the drain's rejection of a connected upgrade keeps the lease.
ConnectKeepsLease(c) ==
    /\ pc[c] = "connecting"
    /\ \/ /\ Goto(c, IF drain[home[c]] = "up" THEN "releasing" ELSE "done")
          /\ UNCHANGED <<sides, active>>
       \/ /\ drain[home[c]] = "up"
          /\ Goto(c, "open")
          /\ sides' = [sides EXCEPT ![c] = {"client", "upstream"}]
          /\ active' = [active EXCEPT ![home[c]] = c]
    /\ UNCHANGED <<rvars, home, chk, ren, cage, drain, dclock, hvars, faults, flushes>>

\* The upstream is resolved and connected, or that fails; with draining checked
\* once more, the pair is built and registered without another await.
Connect(c) ==
    /\ pc[c] = "connecting"
    /\ \/ /\ Goto(c, "releasing")
          /\ UNCHANGED <<sides, active>>
       \/ /\ drain[home[c]] = "up"
          /\ Goto(c, "open")
          /\ sides' = [sides EXCEPT ![c] = {"client", "upstream"}]
          /\ active' = [active EXCEPT ![home[c]] = c]
    /\ UNCHANGED <<rvars, home, chk, ren, cage, drain, dclock, hvars, faults, flushes>>

\* The client left while the upstream was connecting: the WebSocket library
\* destroys its socket and never calls back, so neither the upstream nor the
\* lease has a handler left.
Abandon(c) ==
    /\ pc[c] = "connecting"
    /\ drain[home[c]] = "up"
    /\ Goto(c, "abandoned")
    /\ UNCHANGED <<rvars, home, sides, chk, ren, cage, pvars, hvars, faults, flushes>>

\* Mutant: the release script deletes the key whoever owns it.
FreedByAnyone(c) == Free

\* The release script deletes the key if it holds this ownerID.
Freed(c) == IF lease.owner = c THEN Free ELSE lease

Release(c) ==
    /\ pc[c] = "releasing"
    /\ lease' = Freed(c)
    /\ Goto(c, "done")
    /\ UNCHANGED <<sess, revoked, msgs, home, sides, chk, ren, cage, pvars, hvars,
                   faults, flushes>>

ReleaseFails(c) ==
    /\ pc[c] = "releasing"
    /\ Goto(c, "done")
    /\ Fault
    /\ UNCHANGED <<rvars, home, sides, chk, ren, cage, pvars, hvars, flushes>>

-------------------------------------------------------------------------------
(* An established pair                                                       *)

\* closeBoth, for a set of connections, when all that happens is that they
\* begin to close.
CloseBoth(S) ==
    LET T == {c \in S : pc[c] = "open"} IN
    /\ pc' = [c \in Conn |-> IF c \in T THEN "closing" ELSE pc[c]]
    /\ clock' = [c \in Conn |-> IF c \in T THEN 0 ELSE clock[c]]

\* Mutant: finalizeIfClosed unregisters whatever connection is in the map.
UnregisterAny(c) == [active EXCEPT ![home[c]] = "none"]

Unregister(c) == [active EXCEPT ![home[c]] = IF @ = c THEN "none" ELSE @]

\* finalizeIfClosed, once both transports are closed: no check goes on, the map
\* forgets this connection, and its lease is released.
Finalize(c) ==
    /\ Goto(c, "releasing")
    /\ sides' = [sides EXCEPT ![c] = {}]
    /\ active' = Unregister(c)
    /\ chk' = [chk EXCEPT ![c] = "none"]
    /\ ren' = [ren EXCEPT ![c] = "none"]
    /\ cage' = [cage EXCEPT ![c] = 0]

\* One transport closes: a peer left, or answered a closing handshake.
SideCloses(c) ==
    /\ pc[c] \in Paired
    /\ \E s \in sides[c] :
         IF sides[c] = {s}
         THEN Finalize(c)
         ELSE /\ sides' = [sides EXCEPT ![c] = @ \ {s}]
              /\ CloseBoth({c})
              /\ UNCHANGED <<active, chk, ren, cage>>
    /\ UNCHANGED <<rvars, home, drain, dclock, hvars, faults, flushes>>

\* A transport error, a stream limit, the idle or the absolute timeout.
StreamFails(c) ==
    /\ pc[c] = "open"
    /\ CloseBoth({c})
    /\ UNCHANGED <<rvars, home, sides, chk, ren, cage, pvars, hvars, faults, flushes>>

\* The deadline timer.
SessionDeadline(c) ==
    /\ pc[c] = "open"
    /\ sess = "expired"
    /\ CloseBoth({c})
    /\ UNCHANGED <<rvars, home, sides, chk, ren, cage, pvars, hvars, faults, flushes>>

HardClose(c) ==
    /\ pc[c] = "closing"
    /\ clock[c] = DrainTimeout
    /\ Finalize(c)
    /\ UNCHANGED <<rvars, home, drain, dclock, hvars, faults, flushes>>

\* Mutant: the periodic check renews the lease and authorizes nothing.
CheckTimerRenewsOnly(c) ==
    /\ pc[c] = "open"
    /\ clock[c] = CheckInterval
    /\ clock' = [clock EXCEPT ![c] = 0]
    /\ IF chk[c] = "none"
       THEN /\ chk' = [chk EXCEPT ![c] = "ok"]
            /\ ren' = [ren EXCEPT ![c] = "sent"]
            /\ cage' = [cage EXCEPT ![c] = 0]
       ELSE UNCHANGED <<chk, ren, cage>>
    /\ UNCHANGED <<rvars, pc, home, sides, pvars, hvars, faults, flushes>>

\* The check timer fires; a check that still runs makes it skip a turn.
CheckTimer(c) ==
    /\ pc[c] = "open"
    /\ clock[c] = CheckInterval
    /\ clock' = [clock EXCEPT ![c] = 0]
    /\ IF chk[c] = "none"
       THEN /\ chk' = [chk EXCEPT ![c] = "row"]
            /\ ren' = [ren EXCEPT ![c] = "sent"]
            /\ cage' = [cage EXCEPT ![c] = 0]
       ELSE UNCHANGED <<chk, ren, cage>>
    /\ UNCHANGED <<rvars, pc, home, sides, pvars, hvars, faults, flushes>>

\* The check's authorization goes on, or rejects Promise.all at once; a renewal
\* that is under way is then still carried out, and its answer ignored.
CheckAuthorizes(c) ==
    /\ chk[c] \in {"row", "key"}
    /\ \/ /\ chk' = [chk EXCEPT ![c] = "none"]
          /\ ren' = [ren EXCEPT ![c] = IF @ = "sent" THEN @ ELSE "none"]
          /\ cage' = [cage EXCEPT ![c] = IF ren[c] = "sent" THEN @ ELSE 0]
          /\ CloseBoth({c})
       \/ /\ chk[c] = "row" => sess = "active"
          /\ chk[c] = "key" => ~revoked
          /\ chk' = [chk EXCEPT ![c] = IF @ = "row" THEN "key" ELSE "ok"]
          /\ UNCHANGED <<pc, clock, ren, cage>>
    /\ UNCHANGED <<rvars, home, sides, pvars, hvars, faults, flushes>>

\* The renewal script extends the key if it holds this ownerID.
Renewed(c) == IF lease.owner = c THEN [lease EXCEPT !.ttl = LeaseTTL] ELSE lease

CheckRenews(c) ==
    /\ ren[c] = "sent"
    /\ lease' = Renewed(c)
    /\ ren' = [ren EXCEPT ![c] = IF chk[c] = "none" THEN "none"
                                 ELSE IF lease.owner = c THEN "yes" ELSE "no"]
    /\ cage' = [cage EXCEPT ![c] = IF chk[c] = "none" THEN 0 ELSE @]
    /\ UNCHANGED <<sess, revoked, msgs, pc, home, clock, sides, chk, pvars, hvars,
                   faults, flushes>>

\* The renewal fails, before or after it took effect, and rejects Promise.all.
RenewFails(c) ==
    /\ ren[c] = "sent"
    /\ lease' \in {lease, Renewed(c)}
    /\ ren' = [ren EXCEPT ![c] = "none"]
    /\ chk' = [chk EXCEPT ![c] = "none"]
    /\ cage' = [cage EXCEPT ![c] = 0]
    /\ CloseBoth({c})
    /\ UNCHANGED <<sess, revoked, msgs, home, sides, pvars, hvars, faults, flushes>>

\* Mutant: a renewal that finds another owner is taken for a success.
CheckEndsRegardless(c) ==
    /\ chk[c] = "ok" /\ ren[c] \in {"yes", "no"}
    /\ chk' = [chk EXCEPT ![c] = "none"]
    /\ ren' = [ren EXCEPT ![c] = "none"]
    /\ cage' = [cage EXCEPT ![c] = 0]
    /\ UNCHANGED <<rvars, pc, home, clock, sides, pvars, hvars, faults, flushes>>

\* Both promises have settled.
CheckEnds(c) ==
    /\ chk[c] = "ok" /\ ren[c] \in {"yes", "no"}
    /\ chk' = [chk EXCEPT ![c] = "none"]
    /\ ren' = [ren EXCEPT ![c] = "none"]
    /\ cage' = [cage EXCEPT ![c] = 0]
    /\ IF ren[c] = "yes" THEN UNCHANGED <<pc, clock>> ELSE CloseBoth({c})
    /\ UNCHANGED <<rvars, home, sides, pvars, hvars, faults, flushes>>

-------------------------------------------------------------------------------
(* The relay process                                                         *)

\* closeForRevocation reaches the registered connection only.
Deliver(r) ==
    /\ r \in msgs
    /\ msgs' = msgs \ {r}
    /\ IF drain[r] \in {"up", "draining", "terminating"}
       THEN CloseBoth({c \in Conn : active[r] = c})
       ELSE UNCHANGED <<pc, clock>>
    /\ UNCHANGED <<sess, revoked, lease, home, sides, chk, ren, cage, pvars, hvars,
                   faults, flushes>>

Stage(r, d) ==
    /\ drain' = [drain EXCEPT ![r] = d]
    /\ dclock' = [dclock EXCEPT ![r] = 0]

\* close() stops upgrades and closes the registered connections; ...
Shutdown(r) ==
    /\ drain[r] = "up"
    /\ Stage(r, "draining")
    /\ CloseBoth({c \in Conn : active[r] = c})
    /\ UNCHANGED <<rvars, home, sides, chk, ren, cage, active, hvars, faults, flushes>>

\* ... terminates those that remain after the drain timeout; ...
DrainTerminates(r) ==
    /\ drain[r] = "draining"
    /\ active[r] = "none" \/ dclock[r] = DrainTimeout
    /\ Stage(r, "terminating")
    /\ IF active[r] = "none"
       THEN UNCHANGED <<pc, clock, sides, active, chk, ren, cage>>
       ELSE Finalize(active[r])
    /\ UNCHANGED <<rvars, home, hvars, faults, flushes>>

\* ... clears the map, unsubscribes and closes its Redis client once the HTTP
\* server has no sockets left, ...
Sockets(r) == {c \in Conn : home[c] = r /\ pc[c] \in Upgrading \cup Paired}

DrainStops(r) ==
    /\ drain[r] = "terminating"
    /\ Sockets(r) = {}
    /\ Stage(r, "stopped")
    /\ active' = [active EXCEPT ![r] = "none"]
    /\ UNCHANGED <<rvars, cvars, hvars, faults, flushes>>

\* The end of a process: its sockets close, its calls are never answered.
Die(r) ==
    LET S == {c \in Conn : home[c] = r /\ pc[c] # "idle" /\ pc[c] \notin Finished} IN
    /\ Stage(r, "dead")
    /\ pc' = [c \in Conn |-> IF c \in S THEN "done" ELSE pc[c]]
    /\ clock' = [c \in Conn |-> IF c \in S THEN 0 ELSE clock[c]]
    /\ sides' = [c \in Conn |-> IF c \in S THEN {} ELSE sides[c]]
    /\ chk' = [c \in Conn |-> IF c \in S THEN "none" ELSE chk[c]]
    /\ ren' = [c \in Conn |-> IF c \in S THEN "none" ELSE ren[c]]
    /\ cage' = [c \in Conn |-> IF c \in S THEN 0 ELSE cage[c]]
    /\ active' = [active EXCEPT ![r] = "none"]

\* ... or fails after the drain timeout, and the process is made to exit.
DrainForced(r) ==
    /\ drain[r] = "terminating"
    /\ dclock[r] = DrainTimeout
    /\ Die(r)
    /\ UNCHANGED <<rvars, home, hvars, faults, flushes>>

Crash(r) ==
    /\ drain[r] # "dead"
    /\ Fault
    /\ Die(r)
    /\ UNCHANGED <<rvars, home, hvars, flushes>>

-------------------------------------------------------------------------------
(* Redis and time                                                            *)

Flush ==
    /\ flushes < MaxFlushes
    /\ flushes' = flushes + 1
    /\ lease' = Free
    /\ revoked' = FALSE
    /\ UNCHANGED <<sess, msgs, cvars, pvars, hvars, faults>>

\* What a connection's timers and the bounds on its calls allow it to wait.
Limit(c) == CASE pc[c] = "open"       -> CheckInterval
              [] pc[c] = "closing"    -> DrainTimeout
              [] pc[c] = "connecting" -> ConnectTimeout
              [] OTHER                -> CallDelay

Waits(c) == pc[c] # "idle" /\ pc[c] \notin Finished

Tick ==
    /\ \A c \in Conn : Waits(c) => clock[c] < Limit(c)
    /\ \A c \in Conn : chk[c] # "none" \/ ren[c] # "none" => cage[c] < CallDelay
    /\ \A r \in Relay : drain[r] \in {"draining", "terminating"} => dclock[r] < DrainTimeout
    /\ clock' = [c \in Conn |-> IF Waits(c) THEN clock[c] + 1 ELSE 0]
    /\ cage' = [c \in Conn |-> IF chk[c] # "none" \/ ren[c] # "none" THEN cage[c] + 1 ELSE 0]
    /\ dclock' = [r \in Relay |-> IF drain[r] \in {"draining", "terminating"}
                                  THEN dclock[r] + 1 ELSE 0]
    /\ lease' = IF lease.ttl <= 1 THEN Free ELSE [lease EXCEPT !.ttl = @ - 1]
    /\ ended' = IF sess = "active" THEN 0 ELSE Least(ended + 1, EndGrace + 1)
    /\ lost' = [c \in Conn |-> IF pc[c] = "open" /\ lease.owner # c
                               THEN Least(lost[c] + 1, LossGrace + 1) ELSE 0]
    /\ UNCHANGED <<sess, revoked, msgs, pc, home, sides, chk, ren, active, drain,
                   faults, flushes>>

Handler(c) ==
    \/ AuthorizeRow(c) \/ AuthorizeKey(c) \/ Acquire(c) \/ AcquireAnswered(c)
    \/ Connect(c) \/ Release(c)
    \/ CheckTimer(c) \/ CheckAuthorizes(c) \/ CheckRenews(c) \/ CheckEnds(c) \/ HardClose(c)

Drain(r) == DrainTerminates(r) \/ DrainStops(r) \/ DrainForced(r)

Next ==
    \/ EndSession \/ RevokeKey \/ Publish \/ Flush \/ Tick
    \/ \E c \in Conn : \/ Upgrade(c) \/ Handler(c) \/ AcquireUnanswered(c) \/ Abandon(c)
                       \/ ReleaseFails(c) \/ SideCloses(c) \/ StreamFails(c)
                       \/ SessionDeadline(c) \/ RenewFails(c)
    \/ \E r \in Relay : Deliver(r) \/ Shutdown(r) \/ Drain(r) \/ Crash(r)

Spec == Init /\ [][Next]_vars

\* Calls return, timers fire and time passes.  Nothing is assumed of clients,
\* of messages or of the upstream.
FairSpec ==
    /\ Spec
    /\ WF_vars(Tick)
    /\ \A c \in Conn : WF_vars(Handler(c))
    /\ \A r \in Relay : WF_vars(Drain(r))

-------------------------------------------------------------------------------
(* Properties                                                                *)

\* The variables keep their types.
TypeOK ==
    /\ sess \in {"active", "ended", "expired"}
    /\ revoked \in BOOLEAN
    /\ lease \in [owner : Conn \cup {"none"}, ttl : 0..LeaseTTL]
    /\ lease.owner = "none" <=> lease.ttl = 0
    /\ msgs \subseteq Relay
    /\ pc \in [Conn -> Pc]
    /\ home \in [Conn -> Relay]
    /\ clock \in [Conn -> Nat]
    /\ sides \in [Conn -> SUBSET {"client", "upstream"}]
    /\ \A c \in Conn : sides[c] # {} <=> pc[c] \in Paired
    /\ chk \in [Conn -> {"none", "row", "key", "ok"}]
    /\ ren \in [Conn -> {"none", "sent", "yes", "no"}]
    /\ cage \in [Conn -> 0..CallDelay]
    /\ active \in [Relay -> Conn \cup {"none"}]
    /\ drain \in [Relay -> {"up", "draining", "terminating", "stopped", "dead"}]
    /\ dclock \in [Relay -> 0..DrainTimeout]
    /\ ended \in 0..(EndGrace + 1)
    /\ lost \in [Conn -> 0..(LossGrace + 1)]
    /\ faults \in 0..MaxFaults
    /\ flushes \in 0..MaxFlushes

Open == {c \in Conn : pc[c] = "open"}

\* One controller per session: at most one pair forwards messages, on any relay.
\* The lease is what keeps a second upgrade out, also after the first pair's
\* lease ran out while it was closing and its release came late.
OneController == Cardinality(Open) <= 1

\* No pair outlives what entitled it.  A session that ended is disconnected within
\* EndGrace, whether or not its revocation was written or its message arrived: an
\* upgrade that was authorized just before, or one the message missed, is found by
\* the periodic check.  A pair that lost its lease is closed within LossGrace, by
\* the renewal that does not find its ownerID.
StalePairsClose ==
    /\ ended > EndGrace => Open = {}
    /\ \A c \in Conn : lost[c] <= LossGrace

\* A draining relay forwards nothing: close() reaches every open pair through
\* the map, and an upgrade that was under way is turned away.
DrainingClosesAll == \A c \in Open : drain[home[c]] = "up"

\* The map that revocation and drain go through knows every open pair, also
\* when an older pair of the session closes after it.
OpenIsRegistered == \A c \in Open : active[home[c]] = c

\* Without a failure or a forced exit, a lease belongs to an upgrade or a pair
\* that is alive, or to a client that left during the upgrade: every other way
\* out of handleUpgrade, the drain's included, and every close releases it.
LeaseAccounted ==
    faults = 0 /\ lease.owner # "none" =>
        \/ pc[lease.owner] \in Upgrading \cup Paired \cup {"releasing", "abandoned"}
        \/ drain[home[lease.owner]] = "dead"

\* Ownership never leaks: without a failure or a forced exit, a lease belongs to an upgrade or a
\* pair that is alive (test/load/relay-load.load.test.ts: "without leaked ownership").
NoLeakedOwnership ==
    faults = 0 /\ lease.owner # "none" =>
        \/ pc[lease.owner] \in Upgrading \cup Paired \cup {"releasing"}
        \/ drain[home[lease.owner]] = "dead"

Quiet == lease = Free /\ \A c \in Conn : pc[c] \in {"idle"} \cup Finished

\* Once the session has ended, every pair is closed and the lease is free, even
\* if its release failed, its process died or an answer was lost.
EndedSettles == sess # "active" ~> Quiet
=============================================================================
