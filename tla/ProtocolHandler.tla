--------------------------- MODULE ProtocolHandler ---------------------------
(***************************************************************************)
(* The ProtocolHandler of src/google/cacheinvalidation/v2/                 *)
(* protocol-handler.cc: inbound gating and dispatch, outbound batching and *)
(* assembly, composed with the OperationScheduler that runs its batching   *)
(* task and with the parts of its ProtocolListener (the Ticl, not in this  *)
(* repository) that its upcalls reach.                                     *)
(*                                                                         *)
(* Everything runs on the single internal scheduler thread, so every       *)
(* handler is one atomic step.  A server message is received and handled   *)
(* in one step: MessageReceiver only posts HandleIncomingMessage with no   *)
(* delay, and messages may arrive in any order, so the interleavings are   *)
(* the same.  Time is relative: quietLeft is next_message_send_time_ms_    *)
(* minus the current time, floored at 0, and Tick is one unit passing.     *)
(***************************************************************************)
EXTENDS Naturals, Sequences, FiniteSets, TLC

CONSTANTS
    Tokens,               \* client tokens the server may issue (model values)
    NoToken,              \* the empty token: no session
    InvToken,             \* [Invalidations -> Tokens]: session an invalidation is sent to
    Invalidations,        \* invalidations (model values)
    Objects,              \* object ids (model values)
    Subtrees,             \* registration subtrees the listener may produce
    ServerTimes,          \* server_time_ms values in server headers
    QuietDelays,          \* next_message_delay_ms values (positive, in clock units)
    MajorVersions,        \* protocol major versions a server header may carry
    kProtocolMajorVersion,
    BatchingTask,         \* the batching closure registered with the scheduler
    BatchingDelay,        \* config.batching_delay
    OutgoingVerdicts,     \* what msg_validator_->IsValid may answer for outbound
    MaxEvents             \* bound on calls from the application and the server

ASSUME InvToken \in [Invalidations -> Tokens]
ASSUME NoToken \notin Tokens
ASSUME kProtocolMajorVersion \in MajorVersions
ASSUME QuietDelays \subseteq Nat \ {0} /\ BatchingDelay \in Nat \ {0}
ASSUME OutgoingVerdicts \subseteq BOOLEAN /\ OutgoingVerdicts # {}

OpTypes == {"REGISTER", "UNREGISTER"}
NoOp == "NONE"
AnyToken == Tokens \cup {NoToken}
NoTokenControl == "NO_TOKEN_CONTROL"

VARIABLES
    operations, timers, sinceRun, crashed,  \* the OperationScheduler
    clientToken,          \* listener_->GetClientToken()
    quietLeft,            \* next_message_send_time_ms_ - now, floored at 0
    lastKnownServerTime,  \* last_known_server_time_ms_
    messageId,            \* message_id_
    pendingRegistrations, \* pending_registrations_ : object -> op (NoOp if absent)
    ackedInvalidations,   \* acked_invalidations_
    registrationSubtrees, \* registration_subtrees_
    network,              \* messages handed to network()->SendMessage, in order
    delivered,            \* invalidations handed to the application, not yet acked
    ackRequested,         \* history: every invalidation passed to SendInvalidationAck
    lastRequested,        \* history: the op last passed to SendRegistrations per object
    subtreesRequested,    \* history: every subtree passed to SendRegistrationSyncSubtree
    quietOwed,            \* history: the longest quiet period still owed to a
                          \* ConfigChangeMessage handled so far
    events                \* calls made so far by the application and the server

osVars == <<operations, timers, sinceRun, crashed>>
batchVars == <<pendingRegistrations, ackedInvalidations, registrationSubtrees>>
historyVars == <<ackRequested, lastRequested, subtreesRequested, quietOwed>>
vars == <<osVars, clientToken, quietLeft, lastKnownServerTime, messageId,
          batchVars, network, delivered, historyVars, events>>

OS == INSTANCE OperationScheduler WITH Ops <- {BatchingTask}, Delays <- {BatchingDelay}

(***************************************************************************)
(* Messages.  A ServerToClientMessage keeps the fields the handler reads;  *)
(* valid = FALSE stands for bytes that do not parse or fail the validator. *)
(* An invalidation is only sent in a message addressed (by header token)   *)
(* to its session.  A ClientToServerMessage keeps its header fields and    *)
(* the batched contents.                                                   *)
(***************************************************************************)
ServerMessages ==
    {[valid |-> FALSE, major |-> kProtocolMajorVersion, token |-> NoToken,
      serverTime |-> 0, config |-> 0, tokenControl |-> NoTokenControl,
      invalidations |-> {}, syncRequest |-> FALSE, infoRequest |-> FALSE]}
    \cup
    {m \in [valid : {TRUE}, major : MajorVersions, token : AnyToken,
            serverTime : ServerTimes, config : {0} \cup QuietDelays,
            tokenControl : {NoTokenControl} \cup AnyToken,
            invalidations : {{}} \cup {{i} : i \in Invalidations},
            syncRequest : BOOLEAN, infoRequest : BOOLEAN] :
        /\ \A i \in m.invalidations : InvToken[i] = m.token
        \* a bad version or a config change ends handling: vary nothing else
        /\ m.major # kProtocolMajorVersion \/ m.config # 0 =>
             /\ m.tokenControl = NoTokenControl
             /\ m.serverTime = CHOOSE t \in ServerTimes : \A u \in ServerTimes : t <= u
             /\ ~m.syncRequest /\ ~m.infoRequest
        /\ m.major # kProtocolMajorVersion => m.config = 0 /\ m.invalidations = {}}

ClientHeader == [id : Nat, token : AnyToken, maxKnownServerTime : Nat]

TypeOK ==
    /\ OS!TypeOK
    /\ clientToken \in AnyToken
    /\ quietLeft \in 0..(CHOOSE d \in QuietDelays : \A e \in QuietDelays : d >= e)
    /\ lastKnownServerTime \in {0} \cup ServerTimes
    /\ messageId \in Nat \ {0}
    /\ pendingRegistrations \in [Objects -> OpTypes \cup {NoOp}]
    /\ ackedInvalidations \subseteq Invalidations
    /\ registrationSubtrees \subseteq Subtrees
    /\ \A k \in DOMAIN network :
         /\ [id |-> network[k].id, token |-> network[k].token,
             maxKnownServerTime |-> network[k].maxKnownServerTime] \in ClientHeader
         /\ network[k].acks \subseteq Invalidations
         /\ network[k].regs \subseteq Objects \X OpTypes
         /\ network[k].subtrees \subseteq Subtrees
    /\ delivered \subseteq Invalidations
    /\ quietOwed \in 0..(CHOOSE d \in QuietDelays : \A e \in QuietDelays : d >= e)
    /\ events \in 0..MaxEvents

(***************************************************************************)
(* The constructor (lines 38-73): message_id_ = 1, both times 0, the       *)
(* batching task registered with the OperationScheduler (assuming the      *)
(* CHECK of SetOperation corrected, see OperationScheduler), no session.   *)
(***************************************************************************)
Init ==
    /\ operations = (BatchingTask :> OS!OperationScheduleInfo(BatchingDelay))
    /\ timers = (BatchingTask :> <<>>)
    /\ sinceRun = (BatchingTask :> BatchingDelay)
    /\ crashed = FALSE
    /\ clientToken = NoToken
    /\ quietLeft = 0
    /\ lastKnownServerTime = 0
    /\ messageId = 1
    /\ pendingRegistrations = [o \in Objects |-> NoOp]
    /\ ackedInvalidations = {}
    /\ registrationSubtrees = {}
    /\ network = <<>>
    /\ delivered = {}
    /\ ackRequested = {}
    /\ lastRequested = [o \in Objects |-> NoOp]
    /\ subtreesRequested = {}
    /\ quietOwed = 0
    /\ events = 0

-----------------------------------------------------------------------------
(* Outbound path *)

\* InitClientHeader (lines 368-384), given the token and server time the
\* caller sees; the post-increment of message_id_ is in SendMessageToServer.
InitClientHeader(tok, lkst) ==
    [id |-> messageId, token |-> tok, maxKnownServerTime |-> lkst]

\* The registration message built from pending_registrations_ (322-334).
RegistrationMessage ==
    {<<o, pendingRegistrations[o]>> : o \in {x \in Objects : pendingRegistrations[x] # NoOp}}

\* The message assembled from the header and the three batches (lines
\* 302-348): one entry per acked invalidation, pending registration and
\* subtree.
ClientMessage(tok, lkst, subs, isInit, isInfo) ==
    InitClientHeader(tok, lkst) @@
        [initialize |-> isInit, info |-> isInfo, acks |-> ackedInvalidations,
         regs |-> RegistrationMessage, subtrees |-> subs]

\* Mutant of DrainBatches: acked_invalidations_ is not cleared.
DrainBatchesKeepsAcks ==
    /\ pendingRegistrations' = [o \in Objects |-> NoOp]
    /\ registrationSubtrees' = {}
    /\ UNCHANGED ackedInvalidations

\* Each batch is cleared once it is copied into the message (316, 332, 345).
DrainBatches ==
    /\ ackedInvalidations' = {}
    /\ pendingRegistrations' = [o \in Objects |-> NoOp]
    /\ registrationSubtrees' = {}

\* The quiet-period check (line 281) and the token check (lines 292-300).
SendBlocked(tok, isInit) == quietLeft > 0 \/ (tok = NoToken /\ ~isInit)

(***************************************************************************)
(* SendMessageToServer (lines 277-366) with the token the listener holds,  *)
(* the server time and the subtree set as the caller sees them.  Quiet     *)
(* period and missing token drop the message and leave the batches.        *)
(* Otherwise the header is built, the three batches are drained into the   *)
(* message, message_id_ is incremented (once in InitClientHeader, once on  *)
(* line 351), and the validator's verdict decides whether the transport    *)
(* gets the message.                                                       *)
(***************************************************************************)
SendMessageToServer(tok, lkst, subs, isInit, isInfo) ==
    IF SendBlocked(tok, isInit)
      THEN /\ registrationSubtrees' = subs
           /\ UNCHANGED <<pendingRegistrations, ackedInvalidations, messageId, network>>
      ELSE /\ DrainBatches
           /\ messageId' = messageId + 2
           /\ \E valid \in OutgoingVerdicts :
                network' = IF valid
                             THEN Append(network, ClientMessage(tok, lkst, subs, isInit, isInfo))
                             ELSE network

\* SendInfoMessage (lines 225-249): an info message, sent at once.
SendInfoMessage(tok, lkst, subs) == SendMessageToServer(tok, lkst, subs, FALSE, TRUE)

\* BatchingTask (lines 386-389) run by the OperationScheduler's wrapper.
BatchingTaskRuns ==
    /\ OS!RunAndClearScheduled(BatchingTask)
    /\ SendMessageToServer(clientToken, lastKnownServerTime, registrationSubtrees, FALSE, FALSE)
    /\ UNCHANGED <<clientToken, quietLeft, lastKnownServerTime, delivered,
                   historyVars, events>>

\* One unit of time: scheduler timers and the quiet period count down.
Tick ==
    /\ OS!Tick
    /\ quietLeft' = IF quietLeft > 0 THEN quietLeft - 1 ELSE 0
    /\ quietOwed' = IF quietOwed > 0 THEN quietOwed - 1 ELSE 0
    /\ UNCHANGED <<clientToken, lastKnownServerTime, messageId, batchVars,
                   network, delivered, ackRequested, lastRequested,
                   subtreesRequested, events>>

-----------------------------------------------------------------------------
(* Calls from the application through the Ticl *)

\* The Ticl starts a session: SendInitializeMessage (lines 207-223).
SendInitializeMessage ==
    /\ events < MaxEvents /\ events' = events + 1
    /\ clientToken = NoToken
    /\ SendMessageToServer(clientToken, lastKnownServerTime, registrationSubtrees, TRUE, FALSE)
    /\ UNCHANGED <<osVars, clientToken, quietLeft, lastKnownServerTime,
                   delivered, historyVars>>

\* SendRegistrations (lines 251-258): the latest op per object wins.
SendRegistrations(objs, op) ==
    /\ events < MaxEvents /\ events' = events + 1
    /\ pendingRegistrations' = [o \in Objects |->
                                  IF o \in objs THEN op ELSE pendingRegistrations[o]]
    /\ lastRequested' = [o \in Objects |-> IF o \in objs THEN op ELSE lastRequested[o]]
    /\ OS!Schedule(BatchingTask)
    /\ UNCHANGED <<clientToken, quietLeft, lastKnownServerTime, messageId,
                   ackedInvalidations, registrationSubtrees, network, delivered,
                   ackRequested, subtreesRequested, quietOwed>>

\* The application acknowledges a delivered invalidation: SendInvalidationAck
\* (lines 260-266) adds it to the acked set and schedules the batching task.
SendInvalidationAck(inv) ==
    /\ events < MaxEvents /\ events' = events + 1
    /\ inv \in delivered
    /\ delivered' = delivered \ {inv}
    /\ ackedInvalidations' = ackedInvalidations \cup {inv}
    /\ ackRequested' = ackRequested \cup {inv}
    /\ OS!Schedule(BatchingTask)
    /\ UNCHANGED <<clientToken, quietLeft, lastKnownServerTime, messageId,
                   pendingRegistrations, registrationSubtrees, network,
                   lastRequested, subtreesRequested, quietOwed>>

-----------------------------------------------------------------------------
(* Inbound path *)

\* CheckServerToken (lines 184-205).
CheckServerToken(serverToken) ==
    clientToken = NoToken \/ clientToken = serverToken

\* The listener's token after HandleTokenChanged: the new token (or none, for
\* a destroy) if it accepts, the old one if it rejects (e.g. a wrong nonce).
TokenAfterTokenControl(m) ==
    IF m.tokenControl = NoTokenControl THEN {clientToken}
    ELSE {clientToken, m.tokenControl}

\* SendRegistrationSyncSubtree (lines 268-275), as called by the listener's
\* HandleRegistrationSyncRequest: the subtree sets it may leave.
SubtreesAfterSyncRequest(m) ==
    IF m.syncRequest THEN {registrationSubtrees \cup {s} : s \in Subtrees}
    ELSE {registrationSubtrees}

\* last_known_server_time_ms_ after the header is read (lines 135-137).
ServerTimeAfter(m) ==
    IF m.serverTime > lastKnownServerTime THEN m.serverTime ELSE lastKnownServerTime

(***************************************************************************)
(* The dispatch part of HandleIncomingMessage (lines 135-181), reached     *)
(* once the message passed the checks: server time, token control upcall,  *)
(* the re-check of the token, then invalidations, sync request (the        *)
(* listener adds a subtree and the batching task is scheduled) and info    *)
(* request (the listener sends an info message at once).                   *)
(***************************************************************************)
Dispatch(m) ==
    LET lkst == ServerTimeAfter(m)
    IN /\ lastKnownServerTime' = lkst
       /\ \E tok \in TokenAfterTokenControl(m) :
            /\ clientToken' = tok
            /\ IF tok = NoToken
                 THEN UNCHANGED <<osVars, messageId, batchVars, network, delivered,
                                  subtreesRequested>>
                 ELSE \E subs \in SubtreesAfterSyncRequest(m) :
                        /\ delivered' = delivered \cup m.invalidations
                        /\ subtreesRequested' = subtreesRequested \cup subs
                        /\ IF m.syncRequest THEN OS!Schedule(BatchingTask)
                                            ELSE UNCHANGED osVars
                        /\ IF m.infoRequest
                             THEN SendInfoMessage(tok, lkst, subs)
                             ELSE /\ registrationSubtrees' = subs
                                  /\ UNCHANGED <<pendingRegistrations,
                                                 ackedInvalidations, messageId, network>>
       /\ UNCHANGED <<quietLeft, ackRequested, lastRequested, quietOwed>>

\* Mutant of HandleConfigChange: the quiet period is one unit too long.
HandleConfigChangeLong(m) ==
    /\ quietLeft' = m.config + 1
    /\ quietOwed' = IF m.config > quietOwed THEN m.config ELSE quietOwed
    /\ UNCHANGED <<osVars, clientToken, lastKnownServerTime, messageId, batchVars,
                   network, delivered, ackRequested, lastRequested, subtreesRequested>>

\* A ConfigChangeMessage (lines 119-128) sets the quiet period and ends
\* the handling; quietOwed records the longest period owed so far.
HandleConfigChange(m) ==
    /\ quietLeft' = m.config
    /\ quietOwed' = IF m.config > quietOwed THEN m.config ELSE quietOwed
    /\ UNCHANGED <<osVars, clientToken, lastKnownServerTime, messageId, batchVars,
                   network, delivered, ackRequested, lastRequested, subtreesRequested>>

\* HandleIncomingMessage (lines 75-182).
HandleIncomingMessage(m) ==
    /\ events < MaxEvents /\ events' = events + 1
    /\ IF ~m.valid \/ m.major # kProtocolMajorVersion
         THEN UNCHANGED <<osVars, clientToken, quietLeft, lastKnownServerTime,
                          messageId, batchVars, network, delivered, historyVars>>
       ELSE IF m.config # 0 THEN HandleConfigChange(m)
       ELSE IF ~CheckServerToken(m.token)
         THEN UNCHANGED <<osVars, clientToken, quietLeft, lastKnownServerTime,
                          messageId, batchVars, network, delivered, historyVars>>
       ELSE Dispatch(m)

\* MessageReceiver (lines 391-394) posts HandleIncomingMessage with no delay;
\* since closures run one at a time and messages arrive in any order, the
\* post and the run are one step.
MessageReceiver(m) == HandleIncomingMessage(m)

-----------------------------------------------------------------------------
Next ==
    \/ SendInitializeMessage
    \/ \E o \in Objects, op \in OpTypes : SendRegistrations({o}, op)
    \/ \E i \in Invalidations : SendInvalidationAck(i)
    \/ \E m \in ServerMessages : MessageReceiver(m)
    \/ BatchingTaskRuns
    \/ Tick

\* The internal scheduler is live: time passes and a due batching task runs.
\* The application and the server owe the client nothing.
Fairness == WF_vars(Tick) /\ WF_vars(BatchingTaskRuns)

Spec == Init /\ [][Next]_vars /\ Fairness

-----------------------------------------------------------------------------
(* Properties *)

SentAcks == UNION {network[k].acks : k \in DOMAIN network}
SentRegs == UNION {network[k].regs : k \in DOMAIN network}
SentSubtrees == UNION {network[k].subtrees : k \in DOMAIN network}

\* Nothing handed to SendInvalidationAck, SendRegistrations or
\* SendRegistrationSyncSubtree is lost: it is still batched or it went out
\* in a message, and for a registration it is the op last requested for
\* that object, however sends, drops in a quiet period or without a token,
\* and repeated requests interleave.
NothingLost ==
    /\ ackRequested \subseteq ackedInvalidations \cup SentAcks
    /\ subtreesRequested \subseteq registrationSubtrees \cup SentSubtrees
    /\ \A o \in Objects :
         lastRequested[o] # NoOp =>
            \/ pendingRegistrations[o] = lastRequested[o]
            \/ <<o, lastRequested[o]>> \in SentRegs

\* Spec 8.3: for every ConfigChangeMessage the client handled, no message
\* reaches the transport until that message's delay has passed, whatever
\* order the server's messages arrive in.
QuietPeriodHonoured ==
    [][Len(network') > Len(network) => quietOwed = 0]_vars

\* While the client keeps its session, what the application batched is
\* eventually sent to the server: an acknowledged invalidation once the
\* quiet period is over (spec scenario S2), and a registration also when it
\* was requested before the session began (batched pending sets live until
\* the next successful assembly, spec 3).
BatchedEventuallySent ==
    /\ \A i \in Invalidations :
         (i \in ackedInvalidations /\ clientToken # NoToken)
             ~> (i \notin ackedInvalidations \/ clientToken = NoToken)
    /\ \A o \in Objects :
         (pendingRegistrations[o] # NoOp /\ clientToken # NoToken)
             ~> (pendingRegistrations[o] = NoOp \/ clientToken = NoToken)
=============================================================================
