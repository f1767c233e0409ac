---------------------------- MODULE NetworkManager ----------------------------
(***************************************************************************)
(* NetworkManager of src/google/cacheinvalidation/network-manager.h, with  *)
(* the Throttle it owns (module Throttle) and the parts of its friend      *)
(* InvalidationClientImpl (the Ticl) that drive it: the heartbeat timer,   *)
(* the session, and the drain of an outbound message.  The repository     *)
(* holds the class declaration only; each operation is translated from    *)
(* its documented contract in the header and spec 4.4, HeartbeatNeeded    *)
(* from its inline body.  The header declares no "listener informed"      *)
(* member: the listener has been informed since the last drain exactly    *)
(* when has_outbound_data_ was already set, because the Ticl's drain       *)
(* clears it.                                                              *)
(*                                                                         *)
(*  hasOutboundData  has_outbound_data_                                    *)
(*  outboundListener outbound_listener_ (NoListener is null)               *)
(*  sinceSend, sincePoll  now - last_send_, now - last_poll_ (saturating)  *)
(*  pollDelay, heartbeatDelay  poll_delay_, heartbeat_delay_               *)
(*  informTasks      listener-inform tasks posted to the internal          *)
(*                   scheduler and not yet run                             *)
(*  told             history: the listener has run while data was waiting  *)
(*                   since has_outbound_data_ was last set                 *)
(*  haveSession      the Ticl holds a session (a client token)             *)
(*  hbWait           units until the Ticl's heartbeat timer is due         *)
(***************************************************************************)
EXTENDS Naturals

CONSTANTS
    Listeners,      \* the network callbacks the application may register
    NoListener,     \* null
    Delays,         \* poll and heartbeat intervals the server may set
    Window,         \* the throttle's window
    TimerDelay      \* MAX_TIMER_DELAY_MS: period of the heartbeat timer

ASSUME Delays \subseteq Nat \ {0} /\ Delays # {}
ASSUME TimerDelay \in Nat \ {0}
ASSUME NoListener \notin Listeners

MaxDelay == CHOOSE d \in Delays : \A e \in Delays : d >= e

VARIABLES hasOutboundData, outboundListener, sinceSend, sincePoll,
          pollDelay, heartbeatDelay, informTasks, told, haveSession, hbWait,
          sinceFire, deferred, wait

Th == INSTANCE Throttle

nmVars == <<hasOutboundData, outboundListener, sinceSend, sincePoll,
            pollDelay, heartbeatDelay, informTasks, told, haveSession, hbWait,
            sinceFire, deferred, wait>>

timeVars == <<sinceSend, sincePoll, pollDelay, heartbeatDelay, haveSession, hbWait>>

TypeOK ==
    /\ hasOutboundData \in BOOLEAN
    /\ outboundListener \in Listeners \cup {NoListener}
    /\ sinceSend \in 0..MaxDelay /\ sincePoll \in 0..MaxDelay
    /\ pollDelay \in Delays /\ heartbeatDelay \in Delays
    /\ informTasks \in Nat
    /\ told \in BOOLEAN /\ haveSession \in BOOLEAN
    /\ hbWait \in 0..TimerDelay
    /\ Th!TypeOK

\* A constructed NetworkManager: no data, no listener, the configured
\* intervals; the times of the last send and poll are whatever the
\* constructor recorded.  The Ticl starts its heartbeat timer.
Init ==
    /\ hasOutboundData = FALSE
    /\ outboundListener = NoListener
    /\ sinceSend \in 0..MaxDelay /\ sincePoll \in 0..MaxDelay
    /\ pollDelay \in Delays /\ heartbeatDelay \in Delays
    /\ informTasks = 0
    /\ told = FALSE
    /\ haveSession = FALSE
    /\ hbWait = TimerDelay
    /\ Th!Init

-----------------------------------------------------------------------------
(* NetworkManager operations.  Those that a caller composes leave the      *)
(* variables they do not mention to the caller.                            *)

\* DoInformOutboundListener: schedule a task that informs the listener.
DoInformOutboundListener == informTasks' = informTasks + 1

\* InformOutboundListener: call DoInformOutboundListener through throttle_.
InformOutboundListener ==
    \/ Th!FireNow /\ DoInformOutboundListener
    \/ (Th!Defer \/ Th!Collapse) /\ UNCHANGED informTasks

\* OutboundDataReady: a listener not informed since it last pulled a
\* message (has_outbound_data_ was clear) is informed.
OutboundDataReady ==
    /\ hasOutboundData' = TRUE
    /\ told' = (told /\ hasOutboundData)
    /\ IF outboundListener # NoListener /\ ~hasOutboundData
         THEN InformOutboundListener
         ELSE UNCHANGED <<informTasks, sinceFire, deferred, wait>>

\* Mutant of RegisterOutboundListener: data already waiting is not announced.
RegisterOutboundListenerSilent(l) ==
    /\ outboundListener' = l
    /\ UNCHANGED <<hasOutboundData, informTasks, told, sinceFire, deferred, wait>>
    /\ UNCHANGED timeVars

\* RegisterOutboundListener: record the listener; if outbound data is
\* already waiting, inform it at once.
RegisterOutboundListener(l) ==
    /\ outboundListener' = l
    /\ IF hasOutboundData
         THEN InformOutboundListener
         ELSE UNCHANGED <<informTasks, sinceFire, deferred, wait>>
    /\ UNCHANGED <<hasOutboundData, told>>
    /\ UNCHANGED timeVars

\* The task DoInformOutboundListener posted runs: it calls the listener.
InformTaskRuns ==
    /\ informTasks > 0
    /\ informTasks' = informTasks - 1
    /\ told' = (told \/ hasOutboundData)
    /\ UNCHANGED <<hasOutboundData, outboundListener, sinceFire, deferred, wait>>
    /\ UNCHANGED timeVars

\* The throttle's deferred firing comes due and calls DoInformOutboundListener.
ThrottleFires ==
    /\ Th!TimerFires
    /\ DoInformOutboundListener
    /\ UNCHANGED <<hasOutboundData, outboundListener, told>>
    /\ UNCHANGED timeVars

\* HeartbeatNeeded: now >= last_send_ + heartbeat_delay_.
HeartbeatNeeded == sinceSend >= heartbeatDelay

\* HandleOutboundMessage stamps POLL_INVALIDATIONS when this holds.
PollDue == haveSession /\ sincePoll >= pollDelay

\* Mutant of HandleOutboundMessage: last_poll_ is set on every message.
HandleOutboundMessageResetsPoll ==
    /\ sincePoll' = 0
    /\ sinceSend' = 0

\* HandleOutboundMessage: stamp a poll (and record it in last_poll_) when
\* one is due; the message is transmitted, so last_send_ is now.
HandleOutboundMessage ==
    /\ sincePoll' = IF PollDue THEN 0 ELSE sincePoll
    /\ sinceSend' = 0

\* HandleInboundMessage: adopt the intervals the server's bundle carries
\* (a bundle without them leaves the current values, which are in Delays).
HandleInboundMessage ==
    /\ \E hb, pd \in Delays :
         /\ heartbeatDelay' = hb
         /\ pollDelay' = pd
    /\ UNCHANGED <<hasOutboundData, outboundListener, sinceSend, sincePoll,
                   informTasks, told, haveSession, hbWait, sinceFire, deferred, wait>>

-----------------------------------------------------------------------------
(* The Ticl and the application around the NetworkManager.                 *)

\* The Ticl has something to send (a registration, an ack, ...).
DataReady ==
    /\ OutboundDataReady
    /\ UNCHANGED outboundListener
    /\ UNCHANGED timeVars

\* The application pulls the outbound message: the Ticl builds it, clears
\* has_outbound_data_ and lets HandleOutboundMessage stamp it.
TakeOutboundMessage ==
    /\ hasOutboundData
    /\ hasOutboundData' = FALSE
    /\ told' = FALSE
    /\ HandleOutboundMessage
    /\ UNCHANGED <<outboundListener, pollDelay, heartbeatDelay, informTasks,
                   haveSession, hbWait, sinceFire, deferred, wait>>

\* The Ticl's heartbeat timer: when HeartbeatNeeded, announce a (heartbeat)
\* message; the timer is rescheduled either way.
HeartbeatTimer ==
    /\ hbWait = 0
    /\ hbWait' = TimerDelay
    /\ IF HeartbeatNeeded
         THEN OutboundDataReady
         ELSE UNCHANGED <<hasOutboundData, told, informTasks, sinceFire, deferred, wait>>
    /\ UNCHANGED <<outboundListener, sinceSend, sincePoll, pollDelay,
                   heartbeatDelay, haveSession>>

\* The Ticl gains or loses its session.
SessionChange ==
    /\ haveSession' = ~haveSession
    /\ UNCHANGED <<hasOutboundData, outboundListener, sinceSend, sincePoll,
                   pollDelay, heartbeatDelay, informTasks, told, hbWait,
                   sinceFire, deferred, wait>>

\* One clock unit passes once the internal scheduler has run what is due.
Tick ==
    /\ informTasks = 0 /\ Th!Idle /\ hbWait > 0
    /\ Th!Tick
    /\ sinceSend' = IF sinceSend < MaxDelay THEN sinceSend + 1 ELSE MaxDelay
    /\ sincePoll' = IF sincePoll < MaxDelay THEN sincePoll + 1 ELSE MaxDelay
    /\ hbWait' = hbWait - 1
    /\ UNCHANGED <<hasOutboundData, outboundListener, pollDelay, heartbeatDelay,
                   informTasks, told, haveSession>>

Next ==
    \/ DataReady
    \/ \E l \in Listeners : RegisterOutboundListener(l)
    \/ TakeOutboundMessage
    \/ HandleInboundMessage
    \/ SessionChange
    \/ InformTaskRuns
    \/ ThrottleFires
    \/ HeartbeatTimer
    \/ Tick

\* The internal scheduler is live: its clock advances and what is due on
\* it runs (the inform tasks, the throttle's deferred firing, the heartbeat
\* timer).  The application, the server and the session are not fair.
Fairness ==
    /\ WF_nmVars(Tick)
    /\ WF_nmVars(InformTaskRuns)
    /\ WF_nmVars(ThrottleFires)
    /\ WF_nmVars(HeartbeatTimer)

Spec == Init /\ [][Next]_nmVars /\ Fairness

-----------------------------------------------------------------------------
(* Properties *)

\* Spec 4.4: outbound data is announced to a registered listener, also data
\* that was waiting before the listener registered and data announced while
\* the throttle holds the call back; the listener runs while the data is
\* still waiting unless the application pulled it first.
ListenerEventuallyInformed ==
    (hasOutboundData /\ outboundListener # NoListener) ~> (told \/ ~hasOutboundData)

\* An application that pulls a message whenever its listener has been told.
AppDrainsWhenTold == WF_nmVars(told /\ TakeOutboundMessage)

\* Heartbeats and polling: if the application pulls when told, a client
\* that keeps its session and listener sends, infinitely often, a message
\* that polls for invalidations, however the server changes the intervals.
KeepsPolling ==
    AppDrainsWhenTold =>
        (<>[](haveSession /\ outboundListener # NoListener)
            => []<><<TakeOutboundMessage /\ PollDue>>_nmVars)
=============================================================================
