---------------------------- MODULE SessionStates ----------------------------
(***************************************************************************)
(* The session state machine of apps/api/src/domain/session.ts: statuses,  *)
(* transition events and the pure function that applies an event to a row. *)
(*                                                                         *)
(* A session allocates at most twice: the candidate the router selected    *)
(* ("primary", attempt 0) and one candidate of another runtime class       *)
(* ("fallback", attempt 1).  The runtime a row selected and the provider   *)
(* session its protected reference names are therefore identified by the   *)
(* attempt they come from.  Timestamps are left out: an event older than   *)
(* the row is rejected by the code, and a caller sees the same exception   *)
(* as for a failed query, which the specifications let happen anywhere.    *)
(***************************************************************************)
EXTENDS Naturals

None == "none"

Attempt == {"primary", "fallback"}

PreActive == {"pending", "routing", "allocating", "fallback_allocating"}

Terminal == {"terminated", "expired", "failed"}

ActiveQuotaStatuses == PreActive \cup {"active", "terminating"}

SessionStatuses == ActiveQuotaStatuses \cup Terminal

\* The statuses whose rows carry complete protected runtime metadata.
ActiveLifecycle == {"active", "terminating", "terminated", "expired"}

Session == [status  : SessionStatuses \cup {"absent"},
            version : Nat,
            runtime : Attempt \cup {None},
            ref     : Attempt \cup {None}]

\* No row has been inserted under this session identifier.
Absent == [status |-> "absent", version |-> 0, runtime |-> None, ref |-> None]

\* The row a create request inserts.
Initial == [Absent EXCEPT !.status = "pending"]

Events == {"begin_routing", "begin_allocation", "begin_fallback_allocation",
           "activate", "retain_for_cleanup", "request_termination",
           "complete_termination", "expire", "fail"}

\* The statuses from which an event moves a row on.
Sources(e) ==
    CASE e = "begin_routing"             -> {"pending"}
      [] e = "begin_allocation"          -> {"routing"}
      [] e = "begin_fallback_allocation" -> {"allocating"}
      [] e = "activate"                  -> {"allocating", "fallback_allocating"}
      [] e = "retain_for_cleanup"        -> {"allocating", "fallback_allocating"}
      [] e = "request_termination"       -> {"active"}
      [] e = "complete_termination"      -> {"terminating"}
      [] e = "expire"                    -> {"active"}
      [] e = "fail"                      -> ActiveQuotaStatuses

\* Every event leads to one status.
Target(e) ==
    CASE e = "begin_routing"             -> "routing"
      [] e = "begin_allocation"          -> "allocating"
      [] e = "begin_fallback_allocation" -> "fallback_allocating"
      [] e = "activate"                  -> "active"
      [] e = "retain_for_cleanup"        -> "terminating"
      [] e = "request_termination"       -> "terminating"
      [] e = "complete_termination"      -> "terminated"
      [] e = "expire"                    -> "expired"
      [] e = "fail"                      -> "failed"

\* Only the pre-active, active and terminating statuses move on event e.
Accepts(row, e) == row.status \in Sources(e)

\* A repeated termination request returns the row as it is.
Ignores(row, e) ==
    /\ e = "request_termination"
    /\ row.status \in {"terminating"} \cup Terminal

\* The row after an accepted event that concerns attempt n.
Apply(row, e, n) ==
    [status  |-> Target(e),
     version |-> row.version + 1,
     runtime |-> IF e \in {"begin_allocation", "begin_fallback_allocation"}
                 THEN n ELSE row.runtime,
     ref     |-> IF e \in {"activate", "retain_for_cleanup"}
                 THEN n ELSE row.ref]
==============================================================================
