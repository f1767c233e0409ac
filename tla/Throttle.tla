------------------------------- MODULE Throttle -------------------------------
(***************************************************************************)
(* The rate limiter NetworkManager::throttle_ routes its listener calls    *)
(* through (spec 2 and 5: "bounds the maximum firing rate of a callback;  *)
(* within its window additional requests to fire are collapsed").  The    *)
(* class is not in the repository.  A request fires the callback at once  *)
(* if the window since the last firing has passed; otherwise it is        *)
(* deferred to the end of the window, and requests made while a deferred  *)
(* firing is pending are collapsed into it.                                *)
(*                                                                         *)
(* This module is a component: its actions change only its own variables  *)
(* and a composing module conjoins them with the callback's effect.       *)
(*                                                                         *)
(*  sinceFire  clock units since the callback last fired (saturating)      *)
(*  deferred   a firing is pending on the scheduler                        *)
(*  wait       units until the pending firing is due                       *)
(***************************************************************************)
LOCAL INSTANCE Naturals

CONSTANT Window     \* the minimum spacing of two firings, in clock units

ASSUME Window \in Nat \ {0}

VARIABLES sinceFire, deferred, wait

thVars == <<sinceFire, deferred, wait>>

TypeOK ==
    /\ sinceFire \in 0..Window
    /\ deferred \in BOOLEAN
    /\ wait \in 0..Window

\* A fresh throttle has never fired, so its first request fires at once.
Init ==
    /\ sinceFire = Window
    /\ deferred = FALSE
    /\ wait = 0

\* A request outside the window, with nothing pending: fire now.
FireNow ==
    /\ ~deferred
    /\ sinceFire >= Window
    /\ sinceFire' = 0
    /\ UNCHANGED <<deferred, wait>>

\* Mutant of Defer: a request inside the window is dropped.
DeferDropped ==
    /\ ~deferred
    /\ sinceFire < Window
    /\ UNCHANGED thVars

\* Mutant of Defer: the deferred firing waits one unit too long.
DeferLate ==
    /\ ~deferred
    /\ sinceFire < Window
    /\ deferred' = TRUE
    /\ wait' = Window - sinceFire + 1
    /\ UNCHANGED sinceFire

\* A request inside the window: defer the firing to the window's end.
Defer ==
    /\ ~deferred
    /\ sinceFire < Window
    /\ deferred' = TRUE
    /\ wait' = Window - sinceFire
    /\ UNCHANGED sinceFire

\* A request while a firing is pending: collapsed into that firing.
Collapse ==
    /\ deferred
    /\ UNCHANGED thVars

\* The deferred firing comes due and fires the callback.
TimerFires ==
    /\ deferred
    /\ wait = 0
    /\ deferred' = FALSE
    /\ sinceFire' = 0
    /\ UNCHANGED wait

\* Nothing of the throttle is due: time may pass.
Idle == ~(deferred /\ wait = 0)

\* One clock unit passes.
Tick ==
    /\ sinceFire' = IF sinceFire < Window THEN sinceFire + 1 ELSE Window
    /\ wait' = IF deferred THEN wait - 1 ELSE wait
    /\ UNCHANGED deferred
=============================================================================
