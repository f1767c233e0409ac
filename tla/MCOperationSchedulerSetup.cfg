CONSTANTS
    Ops = {opA}
    Delays = {1, 2}
SPECIFICATION MCSetupSpec
INVARIANT NoCheckFailure
