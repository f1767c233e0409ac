------------------------- MODULE MCProtocolHandler --------------------------
(***************************************************************************)
(* Model-checking instance of ProtocolHandler: two sessions, one           *)
(* invalidation per session, one object, one subtree.                      *)
(***************************************************************************)
EXTENDS ProtocolHandler

CONSTANTS t1, t2, i1, i2

\* Invalidation i1 belongs to session t1 and i2 to session t2.
MCInvToken == (i1 :> t1) @@ (i2 :> t2)

\* The refinement mapping: the batches are the handler's three pending
\* collections, and the wire is what the transport received, seen as the
\* batched contents of each message (headers are not part of the promise).
Channel == INSTANCE BatchChannel WITH
    Acks <- Invalidations,
    Ops <- OpTypes,
    acks <- ackedInvalidations,
    regs <- pendingRegistrations,
    subtrees <- registrationSubtrees,
    wire <- [k \in DOMAIN network |->
               [acks |-> network[k].acks, regs |-> network[k].regs,
                subtrees |-> network[k].subtrees]]

\* The ProtocolHandler implements BatchChannel: every message the transport
\* gets from SendMessageToServer carries all of acked_invalidations_,
\* pending_registrations_ and registration_subtrees_ as they stood, which
\* are then empty, and carries nothing that was not requested, whatever
\* order sends, drops in a quiet period or without a token, info replies
\* and repeated requests happen in.
RefinesBatchChannel == Channel!Spec
=============================================================================
