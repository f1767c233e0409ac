------------------------- MODULE RegistrationManager -------------------------
(***************************************************************************)
(* The RegistrationManager of src/google/cacheinvalidation/v2/             *)
(* registration-manager.cc, the client's desired-registration set, in its  *)
(* environment: the application's requests, the server that applies them  *)
(* and answers with registration statuses, and the summary / sync exchange *)
(* that repairs disagreement.  The Ticl that connects them and the server  *)
(* are not in this repository; their parts are modelled from the spec.     *)
(*                                                                         *)
(* The Ticl hands a request to ProtocolHandler::SendRegistrations and a   *)
(* sync answer to SendRegistrationSyncSubtree; both are batched until the  *)
(* next message is assembled.  The batching is BatchChannel, which         *)
(* ProtocolHandler implements (run ph_core): the latest op per object wins *)
(* and a message carries all that is batched.  Every client message also  *)
(* carries, in its header, the summary GetClientSummary returns when it is *)
(* assembled (InitClientHeader, protocol-handler.cc line 377).  The server *)
(* answers a summary that differs from its own with a                      *)
(* RegistrationSyncRequest; the Ticl answers that with the subtree         *)
(* GetRegistrations(kEmptyPrefix) returns, and the server adopts it.       *)
(* Messages may be reordered, and up to MaxLosses of them lost.            *)
(***************************************************************************)
EXTENDS Naturals, Sequences, FiniteSets, SequencesExt

CONSTANTS
    Objects,          \* object ids (model values)
    ServerCodes,      \* status codes the server may answer with
    MaxAppOps,        \* bound on the application's registration requests
    MaxLosses,        \* bound on lost messages
    MaxInFlight       \* bound on client messages in flight at once

OpTypes == {"REGISTER", "UNREGISTER"}
SUCCESS == "SUCCESS"

ASSUME ServerCodes \subseteq {SUCCESS, "FAILURE"} /\ SUCCESS \in ServerCodes

VARIABLES
    desired,        \* desired_registrations_
    pendingRegs,    \* ProtocolHandler's pending_registrations_ (tagged ops)
    pendingSubtrees,\* ProtocolHandler's registration_subtrees_
    serverRegs,     \* the server's registrations for this client
    toServer,       \* client messages in flight to the server, oldest first
    statusMsgs,     \* RegistrationStatusMessages in flight to the client
    syncRequested,  \* a RegistrationSyncRequest is in flight to the client
    latestReq,      \* history: the application's latest request per object
    toldFailure,    \* history: objects the application was told failed since then
    reports,        \* history: every status reported to the application
    appOps, losses

vars == <<desired, pendingRegs, pendingSubtrees, serverRegs, toServer, statusMsgs,
          syncRequested, latestReq, toldFailure, reports, appOps, losses>>

\* A batched op carries the number of the request it came from (history).
NoReq == [req |-> 0, op |-> "NONE"]
Tag == [req : 1..MaxAppOps, op : OpTypes]

\* The client's outbound batches; this component sends no acks.
Ch == INSTANCE BatchChannel WITH
    Acks <- {}, Ops <- Tag, NoOp <- NoReq, Subtrees <- SUBSET Objects,
    acks <- {}, regs <- pendingRegs, subtrees <- pendingSubtrees, wire <- <<>>

\* GetClientSummary (lines 109-112): the size and the digest of the desired
\* set.  The digest (of SimpleRegistrationStore, not in this repository) is
\* taken to be collision-free, so the set stands for it.
GetClientSummary(d) == [num_registrations |-> Cardinality(d), registration_digest |-> d]

\* The server summarises its own registrations with the same digest.
ServerSummary(s) == [num_registrations |-> Cardinality(s), registration_digest |-> s]

\* Mutant of GetRegistrations: the prefix never matches, so no object is copied.
GetRegistrationsNone(d) == {o \in d : FALSE}

\* GetRegistrations (lines 48-55) for kEmptyPrefix, the prefix the Ticl's
\* answer to a sync request uses: every element of the desired set.
GetRegistrations(d) == {o \in d : TRUE}

\* PerformOperations (lines 39-46): set-add or set-remove.
PerformOperations(d, objs, op) == IF op = "REGISTER" THEN d \cup objs ELSE d \ objs

\* One iteration of the loop of HandleRegistrationStatus (lines 66-105):
\* a successful server op that disagrees with the desired set (the XOR on
\* line 83), or a failed server op, removes the object and reports failure.
ReconcileOne(d, st) ==
    IF st.code = SUCCESS
      THEN LET in_requested_map == st.obj \in d
               is_register == st.op = "REGISTER"
           IN IF is_register # in_requested_map
                THEN [desired |-> d \ {st.obj}, success |-> FALSE]
                ELSE [desired |-> d, success |-> TRUE]
      ELSE [desired |-> d \ {st.obj}, success |-> FALSE]

\* The loop of HandleRegistrationStatus (lines 65-106): the statuses in
\* order, each against the desired set the earlier ones left.
RECURSIVE Reconcile(_, _)
Reconcile(d, statuses) ==
    IF statuses = <<>> THEN [desired |-> d, success |-> <<>>]
    ELSE LET one == ReconcileOne(d, Head(statuses))
             rest == Reconcile(one.desired, Tail(statuses))
         IN [desired |-> rest.desired, success |-> <<one.success>> \o rest.success]

\* The constructor (lines 28-37): an empty desired set.
Init ==
    /\ desired = {}
    /\ pendingRegs = Ch!Empty /\ pendingSubtrees = {}
    /\ serverRegs = {}
    /\ toServer = <<>> /\ statusMsgs = {}
    /\ syncRequested = FALSE
    /\ latestReq = [o \in Objects |-> NoReq]
    /\ toldFailure = {}
    /\ reports = {}
    /\ appOps = 0 /\ losses = 0

-----------------------------------------------------------------------------
(* The client: the Ticl's handlers that call into the RegistrationManager *)

\* The application registers or unregisters objs: the Ticl calls
\* PerformOperations and SendRegistrations, which batches the ops.
AppRequest(objs, op) ==
    /\ appOps < MaxAppOps
    /\ desired' = PerformOperations(desired, objs, op)
    /\ Ch!Register(objs, [req |-> appOps + 1, op |-> op])
    /\ latestReq' = [o \in Objects |->
                       IF o \in objs THEN [req |-> appOps + 1, op |-> op] ELSE latestReq[o]]
    /\ toldFailure' = toldFailure \ objs
    /\ appOps' = appOps + 1
    /\ UNCHANGED <<serverRegs, toServer, statusMsgs, syncRequested, reports, losses>>

\* A client message is assembled (by the batching task, or for a heartbeat):
\* it drains the batches and carries the summary of the desired set.
ClientSends ==
    /\ Len(toServer) < MaxInFlight
    /\ toServer' = Append(toServer,
         [regs |-> Ch!Message({}).regs, subtrees |-> pendingSubtrees,
          summary |-> GetClientSummary(desired)])
    /\ Ch!Drain
    /\ UNCHANGED <<desired, serverRegs, statusMsgs, syncRequested,
                   latestReq, toldFailure, reports, appOps, losses>>

\* A RegistrationStatusMessage: HandleRegistrationStatus reconciles the
\* desired set, and the Ticl reports each entry's result to the application.
HandleRegistrationStatus(sm) ==
    /\ sm \in statusMsgs
    /\ LET result == Reconcile(desired, sm)
           failed == {sm[i].obj : i \in {j \in DOMAIN sm : ~result.success[j]}}
       IN /\ desired' = result.desired
          /\ toldFailure' = toldFailure \cup failed
          /\ reports' = reports \cup
               {[obj |-> sm[i].obj, code |-> sm[i].code, success |-> result.success[i],
                 latest |-> latestReq[sm[i].obj].req = sm[i].req] : i \in DOMAIN sm}
    /\ statusMsgs' = statusMsgs \ {sm}
    /\ UNCHANGED <<pendingRegs, pendingSubtrees, serverRegs, toServer, syncRequested,
                   latestReq, appOps, losses>>

\* A RegistrationSyncRequest: the Ticl batches GetRegistrations(kEmptyPrefix)
\* as a registration subtree.
HandleSyncRequest ==
    /\ syncRequested
    /\ syncRequested' = FALSE
    /\ Ch!AddSubtrees({GetRegistrations(desired)})
    /\ UNCHANGED <<desired, serverRegs, toServer, statusMsgs,
                   latestReq, toldFailure, reports, appOps, losses>>

(* The server *)

\* The server's registrations after it applies the successful ops of regs.
ServerApply(s, regs, code) ==
    LET ok(op) == {p[1] : p \in {q \in regs : code[q] = SUCCESS /\ q[2].op = op}}
    IN (s \ ok("UNREGISTER")) \cup ok("REGISTER")

\* The server handles a client message: it applies or fails each
\* registration and answers with one status per registration; it adopts a
\* subtree for the empty prefix (before or after the registrations); and
\* it asks for a sync if the header's summary differs from its own.  Any
\* message in flight may be the next one handled.
ServerHandleMessage(i) ==
    /\ i \in 1..Len(toServer)
    /\ LET m == toServer[i] IN
       \E code \in [m.regs -> ServerCodes] :
         /\ serverRegs' \in
              IF m.subtrees = {} THEN {ServerApply(serverRegs, m.regs, code)}
              ELSE m.subtrees \cup {ServerApply(t, m.regs, code) : t \in m.subtrees}
         /\ statusMsgs' = IF m.regs = {} THEN statusMsgs ELSE statusMsgs \cup
              {SetToSeq({[obj |-> p[1], op |-> p[2].op, req |-> p[2].req, code |-> code[p]]
                           : p \in m.regs})}
         /\ syncRequested' = (syncRequested \/ m.summary # ServerSummary(serverRegs'))
    /\ toServer' = RemoveAt(toServer, i)
    /\ UNCHANGED <<desired, pendingRegs, pendingSubtrees,
                   latestReq, toldFailure, reports, appOps, losses>>

(* The network loses a client message, a status or a sync request. *)
Lose ==
    /\ losses < MaxLosses
    /\ losses' = losses + 1
    /\ \/ \E i \in 1..Len(toServer) : toServer' = RemoveAt(toServer, i)
            /\ UNCHANGED <<statusMsgs, syncRequested>>
       \/ \E sm \in statusMsgs : statusMsgs' = statusMsgs \ {sm}
            /\ UNCHANGED <<toServer, syncRequested>>
       \/ syncRequested /\ syncRequested' = FALSE
            /\ UNCHANGED <<toServer, statusMsgs>>
    /\ UNCHANGED <<desired, pendingRegs, pendingSubtrees, serverRegs,
                   latestReq, toldFailure, reports, appOps>>

Next ==
    \/ \E objs \in SUBSET Objects \ {{}}, op \in OpTypes : AppRequest(objs, op)
    \/ ClientSends
    \/ \E sm \in statusMsgs : HandleRegistrationStatus(sm)
    \/ HandleSyncRequest
    \/ \E i \in 1..Len(toServer) : ServerHandleMessage(i)
    \/ Lose

\* The internal scheduler runs every handler posted to it (the Ticl's
\* scheduler runs what is posted), the network delivers what it does not
\* lose, and the server answers.  The application is not fair.  Nothing in
\* the repository makes the client send for ever: a message is assembled
\* only after a Send* call or a heartbeat of the Ticl, which is not here.
\* So sending is not a fairness assumption of Spec; ClientKeepsSending
\* names it, and the properties that need it take it as a hypothesis.
Fairness ==
    /\ WF_vars(\E sm \in statusMsgs : HandleRegistrationStatus(sm))
    /\ WF_vars(HandleSyncRequest)
    /\ WF_vars(ServerHandleMessage(1))

\* The client keeps assembling messages while it can (heartbeats).
ClientKeepsSending == WF_vars(ClientSends)

Spec == Init /\ [][Next]_vars /\ Fairness

-----------------------------------------------------------------------------
(* Properties *)

\* Once the application stops, and provided the client keeps sending
\* messages, the client's desired set and the server's registrations agree
\* for good, whatever statuses were stale or lost: the summary in every
\* header (InitClientHeader, line 377) and the sync exchange
\* (GetRegistrations) repair every disagreement the reconciliation of
\* HandleRegistrationStatus leaves.  Without the hypothesis it fails: a
\* REGISTER and an UNREGISTER handled by the server in reverse order leave
\* the two apart until some later message carries a summary.
RegistrationsConverge == ClientKeepsSending => <>[](desired = serverRegs)

\* Spec 4.2 (rationale of the XOR): a failure is reported only for a server
\* confirmation that disagrees with what the client wants; a server success
\* for the application's latest request is reported as a success.
LatestConfirmedReportedSuccess ==
    \A r \in reports : (r.latest /\ r.code = SUCCESS) => r.success
=============================================================================
