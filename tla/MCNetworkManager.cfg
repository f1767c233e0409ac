\* Two listeners, so one can replace the other while an inform task is
\* pending; poll and heartbeat intervals of 1 to 3 units, so the server can
\* make either the shorter; a throttle window of 2, so a request can be
\* deferred and a second one collapsed into it; a heartbeat timer period of
\* 2, longer than the shortest heartbeat interval.
CONSTANTS
    Listeners = {l1, l2}
    NoListener = NoListener
    Delays = {1, 2, 3}
    Window = 2
    TimerDelay = 2
SPECIFICATION Spec
INVARIANT TypeOK
PROPERTIES ListenerEventuallyInformed KeepsPolling
