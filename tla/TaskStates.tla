------------------------------ MODULE TaskStates ------------------------------
(***************************************************************************)
(* The managed-task row and applyTaskTransition.                           *)
(*                                                                         *)
(* A point in time is the number of ticks until it (lease, next) or since  *)
(* it (age, born), so that rows stay finite while the clock runs.  An      *)
(* event carries the time at which its caller read the database clock: the *)
(* parameter at is how many ticks ago that was.  A remaining time r lies   *)
(* at or before that moment when r <= -at.                                 *)
(***************************************************************************)
EXTENDS Integers

CONSTANTS MaxAttempts,       \* config.tasks.maxAttempts
          LeaseTTL,          \* config.tasks.leaseTTLms
          MaxRetryDelay      \* the 30 s ceiling of the retry delay

TerminalTaskStatuses == {"succeeded", "failed", "cancelled"}

TaskEvents == {"claim", "reclaim", "cancel", "succeed", "schedule_retry", "fail"}

NoTask == [status |-> "none", session |-> "none", kind |-> "none", attempts |-> 0,
           version |-> 0, token |-> 0, lease |-> 0, next |-> 0, age |-> 0, born |-> 0]

NewTask(s, k) ==
    [NoTask EXCEPT !.status = "queued", !.session = s, !.kind = k]

\* Mutant: expired claims are not taken over.
ClaimableFresh(row, at) ==
    /\ \/ row.status = "queued"
       \/ row.status = "retry_pending" /\ row.next <= -at
    /\ row.attempts < MaxAttempts

\* The claim tests of applyTaskTransition and of the queries of claimNext.
Claimable(row, at) ==
    /\ \/ row.status = "queued"
       \/ row.status = "retry_pending" /\ row.next <= -at
       \/ row.status = "running" /\ row.lease <= -at
    /\ row.attempts < MaxAttempts

LiveAt(row, at) == row.status = "running" /\ row.lease > -at

\* min(30000, 1000 * 2 ** (attemptCount - 1)), one second being one tick.
RetryDelay(n) ==
    LET d == 2 ^ (n - 1) IN IF d < MaxRetryDelay THEN d ELSE MaxRetryDelay

TaskAccepts(row, e, at) ==
    /\ row.age >= at
    /\ row.status \notin TerminalTaskStatuses \cup {"none"}
    /\ e = "claim" => row.status \in {"queued", "retry_pending"} /\ Claimable(row, at)
    /\ e = "reclaim" => row.status = "running" /\ Claimable(row, at)
    /\ e \in {"succeed", "schedule_retry", "fail"} => row.status = "running"
    /\ e = "schedule_retry" => row.attempts < MaxAttempts

\* The token of a claim is random; the number of the attempt it starts is as unique.
TaskApply(row, e, at) ==
    LET r == [row EXCEPT !.version = @ + 1, !.age = at, !.token = 0, !.lease = 0, !.next = 0]
    IN  CASE e \in {"claim", "reclaim"} ->
                 [r EXCEPT !.status = "running", !.attempts = @ + 1,
                           !.token = row.attempts + 1, !.lease = LeaseTTL - at]
          [] e = "schedule_retry" ->
                 [r EXCEPT !.status = "retry_pending", !.next = RetryDelay(row.attempts)]
          [] e = "succeed" -> [r EXCEPT !.status = "succeeded"]
          [] e = "fail"    -> [r EXCEPT !.status = "failed"]
          [] e = "cancel"  -> [r EXCEPT !.status = "cancelled"]
===============================================================================
