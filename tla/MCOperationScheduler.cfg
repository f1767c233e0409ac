CONSTANTS
    Ops = {opA, opB}
    Delays = {1, 2}
SPECIFICATION ConstructedSpec
INVARIANT TypeOK
INVARIANT AtMostOneOutstanding
PROPERTY RunsSpacedByDelay
PROPERTY RefinesDedupTask
