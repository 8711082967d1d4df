----------------------------- MODULE MCTaskQueue -----------------------------
(* Symmetry of workers, callers, sessions, keys and bodies for the safety run. *)
EXTENDS TaskQueue, TLC

Symmetry == Permutations(Worker) \cup Permutations(Caller)
            \cup Permutations(Session) \cup Permutations(Key) \cup Permutations(Body)
===============================================================================
