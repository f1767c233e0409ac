------------------------ MODULE MCOperationScheduler ------------------------
(***************************************************************************)
(* Model-checking instance of OperationScheduler.                          *)
(***************************************************************************)
EXTENDS OperationScheduler

\* History: flips each time the internal scheduler runs an operation's
\* wrapper, so that the refinement mapping can see every run.
VARIABLE runParity

mcVars == <<osVars, runParity>>

\* The state the owner's constructor leaves once every operation has been
\* registered with SetOperation: this requires the CHECK on line 26 to read
\* == end(); as written it aborts (see the run os_setup).
InitConstructed ==
    /\ operations \in [Ops -> {OperationScheduleInfo(d) : d \in Delays}]
    /\ timers = [op \in Ops |-> <<>>]
    /\ sinceRun = [op \in Ops |-> MaxDelay]
    /\ crashed = FALSE

RecordRuns ==
    runParity' = [op \in Ops |->
                    IF Len(timers'[op]) < Len(timers[op]) THEN ~runParity[op]
                    ELSE runParity[op]]

MCInit == InitConstructed /\ runParity = [op \in Ops |-> FALSE]

ConstructedSpec == MCInit /\ [][Next /\ RecordRuns]_mcVars /\ Fairness

\* The owner's constructor registering each operation once (SetupSpec).
MCSetupSpec ==
    /\ Init /\ runParity = [op \in Ops |-> FALSE]
    /\ [][(SetupNext \/ Next) /\ RecordRuns]_mcVars

\* The refinement mapping: an operation is pending while its
\* has_been_scheduled flag is set.
Dedup == INSTANCE DedupTask WITH
    Tasks <- Ops,
    pending <- {op \in DOMAIN operations : operations[op].has_been_scheduled},
    parity <- runParity

\* The OperationScheduler implements DedupTask: Schedule only makes an
\* operation pending, every run of a wrapper is the single run of a pending
\* operation (never a second run for one Schedule, never a run that leaves
\* it pending), and every pending operation eventually runs.
RefinesDedupTask == Dedup!Spec
=============================================================================
