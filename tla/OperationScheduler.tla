------------------------- MODULE OperationScheduler -------------------------
(***************************************************************************)
(* The deduplicating scheduler of src/google/cacheinvalidation/v2/         *)
(* operation-scheduler.cc, together with the part of the internal          *)
(* scheduler it hands its wrapper closures to.                             *)
(*                                                                         *)
(*  operations  models operations_ : the map from a registered operation   *)
(*              to its OperationScheduleInfo (delay, has_been_scheduled).  *)
(*  timers      the RunAndClearScheduled wrappers handed to the internal   *)
(*              scheduler and not yet run, per operation, each with the    *)
(*              time still to wait and the delay it was scheduled with.    *)
(*  sinceRun    time since the operation last ran (saturating), a history  *)
(*              variable for the "once per window" property.               *)
(*  crashed     a CHECK has failed and the process has aborted.            *)
(*                                                                         *)
(* Time is relative: Tick is one unit of the scheduler's clock passing.    *)
(* The closure an operation runs is left abstract here; a module that      *)
(* composes this one conjoins the closure's effect to RunAndClearScheduled.*)
(***************************************************************************)
EXTENDS Naturals, Sequences, SequencesExt, FiniteSets

CONSTANTS
    Ops,      \* the closures that may be registered (model values)
    Delays    \* the delays they may be given, in clock units

ASSUME Delays \subseteq Nat /\ Delays # {}

MaxDelay == CHOOSE d \in Delays : \A e \in Delays : d >= e

VARIABLES operations, timers, sinceRun, crashed

osVars == <<operations, timers, sinceRun, crashed>>

ScheduleInfo == [delay : Delays, has_been_scheduled : BOOLEAN]
Timer == [wait : 0..MaxDelay, delay : Delays]

\* OperationScheduleInfo(delay): a fresh entry, not yet scheduled.
OperationScheduleInfo(d) == [delay |-> d, has_been_scheduled |-> FALSE]

TypeOK ==
    /\ DOMAIN operations \subseteq Ops
    /\ \A op \in DOMAIN operations : operations[op] \in ScheduleInfo
    /\ timers \in [Ops -> Seq(Timer)]
    /\ sinceRun \in [Ops -> 0..MaxDelay]
    /\ crashed \in BOOLEAN

\* A freshly constructed OperationScheduler: operations_ is empty.
Init ==
    /\ operations = [op \in {} |-> OperationScheduleInfo(MaxDelay)]
    /\ timers = [op \in Ops |-> <<>>]
    /\ sinceRun = [op \in Ops |-> MaxDelay]
    /\ crashed = FALSE

(***************************************************************************)
(* SetOperation (lines 25-34).  The first CHECK is written with != where *)
(* the message ("already set") and the spec call for ==: it aborts unless  *)
(* the operation is ALREADY registered.  The assignment inserts or         *)
(* overwrites the entry, resetting has_been_scheduled.                     *)
(***************************************************************************)
SetOperation(op, d) ==
    /\ ~crashed
    /\ IF op \notin DOMAIN operations \/ ~(d > 0)
         THEN /\ crashed' = TRUE
              /\ UNCHANGED <<operations, timers, sinceRun>>
         ELSE /\ operations' = (op :> OperationScheduleInfo(d)) @@ operations
              /\ UNCHANGED <<timers, sinceRun, crashed>>

\* ChangeDelayForTest (lines 36-45): only later Schedule calls see it.
ChangeDelayForTest(op, d) ==
    /\ ~crashed
    /\ op \in DOMAIN operations
    /\ operations' = [operations EXCEPT ![op].delay = d]
    /\ UNCHANGED <<timers, sinceRun, crashed>>

\* Mutant of Schedule: the has_been_scheduled test is dropped.
ScheduleUnguarded(op) ==
    /\ ~crashed
    /\ op \in DOMAIN operations
    /\ operations' = [operations EXCEPT ![op].has_been_scheduled = TRUE]
    /\ timers' = [timers EXCEPT ![op] =
         Append(@, [wait |-> operations[op].delay, delay |-> operations[op].delay])]
    /\ UNCHANGED <<sinceRun, crashed>>

\* Mutant of PostedWrapper: the wrapper is posted with no delay.
PostedWrapperNow(op) == [wait |-> 0, delay |-> operations[op].delay]

\* Mutant of PostedWrapper: the wrapper waits one unit longer than the delay.
PostedWrapperLate(op) == [wait |-> operations[op].delay + 1, delay |-> operations[op].delay]

\* The wrapper scheduler_->Schedule posts (lines 59-62), due after the
\* operation's delay as it stands now.
PostedWrapper(op) == [wait |-> operations[op].delay, delay |-> operations[op].delay]

\* Mutant of RunAndClearScheduled: has_been_scheduled is never cleared.
RunWithoutClear(op) ==
    /\ ~crashed
    /\ \E i \in DOMAIN timers[op] :
         /\ timers[op][i].wait = 0
         /\ timers' = [timers EXCEPT ![op] = RemoveAt(@, i)]
    /\ sinceRun' = [sinceRun EXCEPT ![op] = 0]
    /\ UNCHANGED <<operations, crashed>>

\* Schedule (lines 47-64): post one wrapper unless one is outstanding.
\* The CHECK on line 50 holds for every caller (they pass a set operation).
Schedule(op) ==
    /\ ~crashed
    /\ op \in DOMAIN operations
    /\ IF ~operations[op].has_been_scheduled
         THEN /\ operations' = [operations EXCEPT ![op].has_been_scheduled = TRUE]
              /\ timers' = [timers EXCEPT ![op] = Append(@, PostedWrapper(op))]
         ELSE UNCHANGED <<operations, timers>>
    /\ UNCHANGED <<sinceRun, crashed>>

\* RunAndClearScheduled (lines 66-70): the internal scheduler runs a due
\* wrapper, which runs the closure and then clears has_been_scheduled.
RunAndClearScheduled(op) ==
    /\ ~crashed
    /\ \E i \in DOMAIN timers[op] :
         /\ timers[op][i].wait = 0
         /\ timers' = [timers EXCEPT ![op] = RemoveAt(@, i)]
    /\ operations' = [operations EXCEPT ![op].has_been_scheduled = FALSE]
    /\ sinceRun' = [sinceRun EXCEPT ![op] = 0]
    /\ UNCHANGED crashed

\* One unit of the internal scheduler's clock passes.
Tick ==
    /\ ~crashed
    /\ timers' = [op \in Ops |->
                   [i \in DOMAIN timers[op] |->
                      [timers[op][i] EXCEPT !.wait = IF @ > 0 THEN @ - 1 ELSE 0]]]
    /\ sinceRun' = [op \in Ops |-> IF sinceRun[op] < MaxDelay
                                     THEN sinceRun[op] + 1 ELSE MaxDelay]
    /\ UNCHANGED <<operations, crashed>>

\* The constructor of the owner calls SetOperation once per operation.
SetupNext ==
    \E op \in Ops \ DOMAIN operations, d \in Delays : SetOperation(op, d)

Next ==
    \/ \E op \in Ops, d \in Delays : ChangeDelayForTest(op, d)
    \/ \E op \in Ops : Schedule(op)
    \/ \E op \in Ops : RunAndClearScheduled(op)
    \/ Tick

\* The internal scheduler is a live single-threaded executor: its clock
\* advances and a due closure is eventually run.  Callers are not fair.
Fairness ==
    /\ WF_osVars(Tick)
    /\ \A op \in Ops : WF_osVars(RunAndClearScheduled(op))

SetupSpec == Init /\ [][SetupNext \/ Next]_osVars

-----------------------------------------------------------------------------
(* Properties *)

\* Constructing an owner never trips a CHECK: registering each operation
\* once, with a positive delay, is the documented use of SetOperation.
NoCheckFailure == ~crashed

\* The has_been_scheduled flag of every registered operation is TRUE exactly
\* while one RunAndClearScheduled wrapper for it sits in the internal
\* scheduler, so Schedule calls between two runs never post a second one.
AtMostOneOutstanding ==
    \A op \in DOMAIN operations :
        Len(timers[op]) = IF operations[op].has_been_scheduled THEN 1 ELSE 0

\* An operation never runs twice within a window shorter than the delay it
\* was scheduled with, however Schedule and ChangeDelayForTest calls
\* interleave with its runs (spec: fires at most once per window).
RunsSpacedByDelay ==
    [][\A op \in Ops :
         \A i \in DOMAIN timers[op] :
            (/\ timers[op][i].wait = 0
             /\ Len(timers'[op]) < Len(timers[op])
             /\ sinceRun'[op] = 0)
               => sinceRun[op] >= timers[op][i].delay]_osVars
=============================================================================
