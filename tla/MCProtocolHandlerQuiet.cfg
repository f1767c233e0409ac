\* Two quiet delays, so that a later ConfigChangeMessage can carry a
\* shorter delay than one handled before it.
CONSTANTS
    t1 = t1
    t2 = t2
    i1 = i1
    i2 = i2
    Tokens = {t1, t2}
    NoToken = NoToken
    InvToken <- MCInvToken
    Invalidations = {i1, i2}
    Objects = {o1}
    Subtrees = {s1}
    ServerTimes = {1, 2}
    QuietDelays = {1, 2}
    MajorVersions = {2, 3}
    kProtocolMajorVersion = 3
    BatchingTask = BatchingTask
    BatchingDelay = 1
    OutgoingVerdicts = {TRUE}
    MaxEvents = 3
SPECIFICATION Spec
PROPERTY QuietPeriodHonoured
