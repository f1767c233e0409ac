----------------------------- MODULE BatchChannel -----------------------------
(***************************************************************************)
(* What the ProtocolHandler promises the callers of its Send* operations   *)
(* (spec 3, 4.5 and invariant 4): acks, registrations and registration     *)
(* subtrees are batched; an ack or a subtree is kept once however often    *)
(* it is requested, and for an object the latest op wins.  A message is    *)
(* assembled from ALL that is batched, which leaves the batches empty, so  *)
(* every batched item appears in exactly one message.  Nothing appears in  *)
(* a message that was not requested, except subtrees the listener produces *)
(* in the step that sends them (an info reply to a sync request).  When a  *)
(* message may be sent is not part of the promise.                         *)
(*                                                                         *)
(*  acks, regs, subtrees  the three batches                                *)
(*  wire                  the messages assembled, in order, as their       *)
(*                        batched contents                                 *)
(***************************************************************************)
EXTENDS Sequences

CONSTANTS Acks, Objects, Ops, NoOp, Subtrees

VARIABLES acks, regs, subtrees, wire

bcVars == <<acks, regs, subtrees, wire>>

\* The registration part of a message: the object/op pairs batched.
RegPairs(r) == {<<o, r[o]>> : o \in {x \in Objects : r[x] # NoOp}}

Empty == [o \in Objects |-> NoOp]

Init ==
    /\ acks = {}
    /\ regs = Empty
    /\ subtrees = {}
    /\ wire = <<>>

\* An invalidation is acknowledged.
Ack(i) ==
    /\ acks' = acks \cup {i}
    /\ UNCHANGED <<regs, subtrees, wire>>

\* An (un)registration is requested for some objects.
Register(objs, op) ==
    /\ regs' = [o \in Objects |-> IF o \in objs THEN op ELSE regs[o]]
    /\ UNCHANGED <<acks, subtrees, wire>>

\* A registration subtree is batched for the next message.
AddSubtrees(s) ==
    /\ subtrees' = subtrees \cup s
    /\ UNCHANGED <<acks, regs, wire>>

\* The message assembled from everything batched and the subtrees
\* produced with it.
Message(extra) ==
    [acks |-> acks, regs |-> RegPairs(regs), subtrees |-> subtrees \cup extra]

\* Assembly empties the batches.
Drain ==
    /\ acks' = {}
    /\ regs' = Empty
    /\ subtrees' = {}

\* A message is assembled and put on the wire.
Emit(extra) ==
    /\ wire' = Append(wire, Message(extra))
    /\ Drain

Next ==
    \/ \E i \in Acks : Ack(i)
    \/ \E objs \in SUBSET Objects, op \in Ops : Register(objs, op)
    \/ \E s \in SUBSET Subtrees : AddSubtrees(s) \/ Emit(s)

Spec == Init /\ [][Next]_bcVars
=============================================================================
