---------------------------- MODULE SessionPromise ----------------------------
(***************************************************************************)
(* What the control plane promises about each session, whatever requests,  *)
(* jobs and failures act on it: a session opens, is bound once to one      *)
(* browser of one runtime, and never moves to another; it fails only       *)
(* before it is bound; once bound it ends only by closing, and it is       *)
(* closed only when its browser has been released; an ended session never  *)
(* changes again.                                                          *)
(***************************************************************************)
CONSTANTS Sessions, Runtimes, Unbound

VARIABLES phase,    \* where the session is in its life
          binding,  \* the browser the session is bound to
          browser   \* whether that browser is held or released

vars == <<phase, binding, browser>>

Init ==
    /\ phase = [s \in Sessions |-> "absent"]
    /\ binding = [s \in Sessions |-> Unbound]
    /\ browser = [s \in Sessions |-> "none"]

\* Session s is in one of the phases from and moves to phase to.
Move(s, from, to) ==
    /\ phase[s] \in from
    /\ phase' = [phase EXCEPT ![s] = to]

Open(s) ==
    /\ Move(s, {"absent"}, "opening")
    /\ UNCHANGED <<binding, browser>>

\* The browser may be bound for use, or only to be closed, and its own
\* lifetime may have ended by then.
Bind(s) ==
    /\ \E to \in {"live", "closing"} : Move(s, {"opening"}, to)
    /\ \E n \in Runtimes : binding' = [binding EXCEPT ![s] = n]
    /\ \E b \in {"held", "released"} : browser' = [browser EXCEPT ![s] = b]

Fail(s) ==
    /\ Move(s, {"opening"}, "failed")
    /\ UNCHANGED <<binding, browser>>

Close(s) ==
    /\ Move(s, {"live"}, "closing")
    /\ UNCHANGED <<binding, browser>>

\* The browser is terminated, or reaches the end of its lifetime.
Release(s) ==
    /\ browser[s] = "held"
    /\ browser' = [browser EXCEPT ![s] = "released"]
    /\ UNCHANGED <<phase, binding>>

End(s) ==
    /\ browser[s] = "released"
    /\ Move(s, {"closing"}, "closed")
    /\ UNCHANGED <<binding, browser>>

Next == \E s \in Sessions :
    Open(s) \/ Bind(s) \/ Fail(s) \/ Close(s) \/ Release(s) \/ End(s)

Spec == Init /\ [][Next]_vars
===============================================================================
