------------------------------ MODULE DedupTask ------------------------------
(***************************************************************************)
(* What the OperationScheduler promises its owner (spec 4.1 and 5): a      *)
(* registered task is either idle or pending; asking for it while it is    *)
(* pending changes nothing; a pending task eventually runs, once, and is   *)
(* idle again.  A task never runs unless it is pending.  parity flips on   *)
(* every run, so that a run is a visible step.                             *)
(***************************************************************************)
CONSTANT Tasks

VARIABLES pending, parity

dtVars == <<pending, parity>>

Init ==
    /\ pending = {}
    /\ parity = [t \in Tasks |-> FALSE]

\* Schedule: the task becomes pending (a no-op if it already is).
Request(t) ==
    /\ pending' = pending \cup {t}
    /\ UNCHANGED parity

\* The task runs once and is idle again.
Fire(t) ==
    /\ t \in pending
    /\ pending' = pending \ {t}
    /\ parity' = [parity EXCEPT ![t] = ~@]

Next == \E t \in Tasks : Request(t) \/ Fire(t)

Spec == Init /\ [][Next]_dtVars /\ \A t \in Tasks : WF_dtVars(Fire(t))
=============================================================================
