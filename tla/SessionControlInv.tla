-------------------------- MODULE SessionControlInv --------------------------
(***************************************************************************)
(* The inductive invariant behind the safety properties of SessionControl: *)
(* what each handler may rely on at each position, although any other      *)
(* handler may have changed the row since it was read.                     *)
(***************************************************************************)
EXTENDS SessionControl

\* A copy is either the current row or an older version of it, and the
\* reference it carries, if any, is the one the row still carries.
Known(copy, row) ==
    /\ copy.status # "absent"
    /\ row.status # "absent"
    /\ copy.version <= row.version
    /\ copy.version = row.version => copy = row
    /\ copy.ref # None => copy.ref = row.ref

\* A row has a reference exactly when it is in the active lifecycle; the
\* reference names a browser that was received; it is gone once terminated.
RowInv(s) ==
    /\ rows[s].status # "expired"
    /\ rows[s].status \in PreActive \cup {"absent", "failed"} => rows[s].ref = None
    /\ rows[s].status \in {"active", "terminating", "terminated"} =>
          /\ rows[s].ref \in Attempt
          /\ provider[s][rows[s].ref] \in {"live", "gone"}
    /\ rows[s].status = "terminated" => provider[s][rows[s].ref] = "gone"
    /\ \A n \in Attempt :
          provider[s][n] = "live" =>
              \/ rows[s].status \in {"active", "terminating"} /\ rows[s].ref = n
              \/ attempts[s][n] = "started"

Early == {"owner", "routing", "start", "calling", "providerError", "fallback"}

Holding == {"received", "activated", "recover", "mark", "cleanup", "orphan", "finish"}

\* What the handler of create request c knows at each position.
CreateInv(c) ==
    LET pc == cpc[c] IN
    /\ pc \in {"idle", "waiting"} => rows[c].status = "absent"
    /\ rows[c].status = "absent" =>
          \A n \in Attempt : attempts[c][n] = "none" /\ provider[c][n] = "none"
    /\ rows[c].status = "absent" => cn[c] = "primary"
    /\ pc \in CreateWork => Known(csess[c], rows[c])
    /\ rows[c].ref # None => rows[c].ref = cn[c]
    /\ cn[c] = "primary" =>
          attempts[c]["fallback"] = "none" /\ provider[c]["fallback"] = "none"
    /\ cn[c] = "fallback" =>
          attempts[c]["primary"] = "failed" /\ provider[c]["primary"] # "live"
    /\ pc \in Early => rows[c].ref = None
    /\ pc \in {"owner", "routing"} => cn[c] = "primary"
    /\ pc \in {"owner", "routing", "start"} =>
          attempts[c][cn[c]] = "none" /\ provider[c][cn[c]] = "none"
    /\ pc = "routing" => csess[c].status = "routing"
    /\ pc = "calling" => attempts[c][cn[c]] = "started" /\ provider[c][cn[c]] = "none"
    /\ pc = "providerError" => attempts[c][cn[c]] = "started" /\ provider[c][cn[c]] # "live"
    /\ pc = "fallback" =>
          /\ cn[c] = "primary"
          /\ attempts[c]["primary"] = "failed"
          /\ provider[c]["primary"] # "live"
    /\ pc \in Holding => provider[c][cn[c]] \in {"live", "gone"}
    /\ pc \in {"received", "activated"} => attempts[c][cn[c]] = "started"
    /\ pc = "activated" => rows[c].ref = cn[c]
    /\ pc \in {"settled", "respond"} => rows[c].ref = cn[c] /\ attempts[c][cn[c]] = "succeeded"
    /\ pc = "mark" => csess[c].status \in {"active", "allocating", "fallback_allocating"}
    /\ pc \in {"cleanup", "finish"} => csess[c].status = "terminating" /\ csess[c].ref = cn[c]
    /\ pc = "finish" => provider[c][cn[c]] = "gone"
    /\ pc = "failRow" => csess[c].status \in PreActive
    /\ pc = "rollback" => csess[c].status \in {"active", "terminating"} /\ csess[c].ref = cn[c]
    /\ pc \in {"rollbackCleanup", "rollbackFinish"} => csess[c].ref = cn[c]
    /\ pc = "rollbackFinish" => provider[c][cn[c]] = "gone"

\* What a delete request knows.
DeleteInv(t) ==
    /\ tpc[t] \in TerminateWork =>
          ttgt[t] \in Creator /\ Known(tsess[t], rows[ttgt[t]])
    /\ tpc[t] = "complete" =>
          tsess[t].ref # None /\ provider[ttgt[t]][tsess[t].ref] = "gone"

\* What the reconciler knows of its candidate.
ReconcileInv(r) ==
    /\ rpc[r] # "idle" => rtgt[r] \in Creator /\ Known(rsess[r], rows[rtgt[r]])
    /\ rpc[r] = "candidate" => rsess[r].status \in PreActive \cup {"active"}
    /\ rpc[r] \in {"terminate", "complete"} =>
          rsess[r].status = "terminating" /\ rsess[r].ref \in Attempt
    /\ rpc[r] = "complete" => provider[rtgt[r]][rsess[r].ref] = "gone"

\* Claims and sessions name each other: a claim belongs to the one request that
\* inserted its session, and a settled claim agrees with that session.
ClaimInv ==
    /\ \A k \in Key : claims[k].state # "free" =>
          /\ claims[k].owner \in Creator
          /\ key[claims[k].owner] = k
          /\ rows[claims[k].owner].status # "absent"
    /\ \A c \in Creator :
          /\ cpc[c] \in CreateWork => key[c] \in Key /\ claims[key[c]].owner = c
          /\ cpc[c] \in {"waiting", "created"} =>
                key[c] \in Key /\ claims[key[c]].state # "free"
          /\ rows[c].status # "absent" =>
                /\ key[c] \in Key
                /\ claims[key[c]].owner = c
                /\ claims[key[c]].state # "free"

\* The whole knowledge of all handlers, an invariant of the control plane.
HandlerKnowledge ==
    /\ \A s \in Creator : RowInv(s) /\ CreateInv(s)
    /\ \A t \in Terminator : DeleteInv(t)
    /\ \A r \in Reconciler : ReconcileInv(r)
    /\ ClaimInv

\* A claim settled as succeeded stands for a session that holds a reference
\* from an attempt recorded as successful, and every 201 stands on such a claim.
SettledInv ==
    /\ \A k \in Key : claims[k].state = "succeeded" =>
          LET s == claims[k].owner
          IN  rows[s].ref # None /\ attempts[s][rows[s].ref] = "succeeded"
    /\ \A c \in Creator : cpc[c] \in {"respond", "created"} => claims[key[c]].state = "succeeded"

-------------------------------------------------------------------------------
(* While nothing failed, a create request that gives up cleans up.           *)

Ending == {"catch", "failRow", "rollback", "rollbackCleanup", "rollbackFinish", "failClaim"}

\* Where other processes may take a session once its create request has given up.
Later(status) ==
    CASE status \in PreActive    -> {"failed"}
      [] status = "active"       -> {"terminating", "terminated"}
      [] status = "terminating"  -> {"terminated"}
      [] OTHER                   -> {}

\* The browser of a create request that gives up ended, or its row names it; the
\* row is the one the request read, or another process ended it since; and
\* when the request ends, so has its session.
Tidy(c) ==
    LET pc == cpc[c] IN
    /\ pc \in Ending \/ (pc = "failed" /\ rows[c].status # "absent") =>
          (rows[c].status \in PreActive \cup {"failed"} => provider[c][cn[c]] # "live")
    /\ pc \in {"failRow", "rollback", "rollbackCleanup", "rollbackFinish"} =>
          rows[c] = csess[c] \/ rows[c].status \in Later(csess[c].status)
    /\ pc \in {"rollbackCleanup", "rollbackFinish"} => csess[c].status \in {"terminating", "terminated"}
    /\ pc = "failClaim" => rows[c].status \in Terminal
    /\ pc = "failed" =>
          /\ key[c] \in Key /\ claims[key[c]].state # "free"
          /\ rows[c].status # "absent" => rows[c].status \in Terminal /\ claims[key[c]].state = "failed"

CleanInv ==
    faults = 0 =>
        /\ \A c \in Creator : Tidy(c)
        /\ \A k \in Key : claims[k].state = "succeeded" =>
              cpc[claims[k].owner] \in {"respond", "created"}
==============================================================================
