----------------------------- MODULE TaskPromise -----------------------------
(***************************************************************************)
(* What managed tasks promise, whatever workers do: a task is accepted     *)
(* once and gets one verdict, which is final; a result that names an       *)
(* object is given only once that object is stored, and the object then    *)
(* stays.  Objects no result names may come and go.                        *)
(***************************************************************************)
CONSTANTS Task, Object, NoObject

VARIABLES verdict,  \* of each task: "none", "pending", "succeeded" or "failed"
          result,   \* the object named by each task's result
          stored    \* objects in storage

Init ==
    /\ verdict = [t \in Task |-> "none"]
    /\ result = [t \in Task |-> NoObject]
    /\ stored = {}

Accept(t) ==
    /\ verdict[t] = "none"
    /\ verdict' = [verdict EXCEPT ![t] = "pending"]
    /\ UNCHANGED <<result, stored>>

Succeed(t) ==
    /\ verdict[t] = "pending"
    /\ verdict' = [verdict EXCEPT ![t] = "succeeded"]
    /\ result' \in {[result EXCEPT ![t] = o] : o \in stored \cup {NoObject}}
    /\ UNCHANGED stored

\* One look at the queue may give up on several tasks.
GiveUp ==
    /\ verdict' # verdict
    /\ \A t \in Task : verdict'[t] # verdict[t] => verdict[t] = "pending" /\ verdict'[t] = "failed"
    /\ UNCHANGED <<result, stored>>

Store(o) ==
    /\ stored' = stored \cup {o}
    /\ UNCHANGED <<verdict, result>>

Discard(o) ==
    /\ \A t \in Task : result[t] # o
    /\ stored' = stored \ {o}
    /\ UNCHANGED <<verdict, result>>

Next ==
    \/ \E t \in Task : Accept(t) \/ Succeed(t)
    \/ GiveUp
    \/ \E o \in Object : Store(o) \/ Discard(o)

Spec == Init /\ [][Next]_<<verdict, result, stored>>
===============================================================================
