----------------------------- MODULE SafeStorage -----------------------------
(***************************************************************************)
(* SafeStorage of src/google/cacheinvalidation/impl/safe-storage.cc: each  *)
(* storage call is forwarded to the delegate store with a permanent        *)
(* callback; whenever the delegate invokes it (on any thread), SafeStorage *)
(* posts a CallbackWrapper holding the caller's completion and the result  *)
(* onto the internal scheduler with no delay.  The internal scheduler runs *)
(* a posted closure and then deletes it; the wrapper's destructor deletes  *)
(* the completion.                                                         *)
(*                                                                         *)
(*  issued     calls forwarded to the delegate                             *)
(*  produced   history: the results the delegate has passed back, per call *)
(*  queue      the CallbackWrappers posted and not yet run (FIFO)          *)
(*  observed   history: the arguments each completion has run with         *)
(*  deletes    how many times each completion has been deleted             *)
(*  useAfterFree  a completion ran after it had been deleted               *)
(***************************************************************************)
EXTENDS Naturals, Sequences, TLC

CONSTANTS
    Calls,          \* storage calls made by the client (model values)
    Kind,           \* [Calls -> {"Write", "Read", "Delete", "ReadAll"}]
    Results,        \* results the delegate may pass back (model values)
    ReadAllResults  \* how many times the delegate invokes a ReadAllKeys callback

ASSUME Kind \in [Calls -> {"Write", "Read", "Delete", "ReadAll"}]
ASSUME ReadAllResults \in Nat \ {0}

VARIABLES issued, produced, queue, observed, deletes, useAfterFree

vars == <<issued, produced, queue, observed, deletes, useAfterFree>>

\* The delegate's contract: a write, read or delete completes once; a
\* ReadAllKeys callback is invoked once per key read.
Completions(c) == IF Kind[c] = "ReadAll" THEN ReadAllResults ELSE 1

TypeOK ==
    /\ issued \subseteq Calls
    /\ produced \in [Calls -> Seq(Results)]
    /\ queue \in Seq([call : Calls, arg : Results])
    /\ observed \in [Calls -> Seq(Results)]
    /\ deletes \in [Calls -> Nat]
    /\ useAfterFree \in [Calls -> BOOLEAN]

Init ==
    /\ issued = {}
    /\ produced = [c \in Calls |-> <<>>]
    /\ queue = <<>>
    /\ observed = [c \in Calls |-> <<>>]
    /\ deletes = [c \in Calls |-> 0]
    /\ useAfterFree = [c \in Calls |-> FALSE]

-----------------------------------------------------------------------------
(* Calls from the client, on the internal thread: the four entry points   *)
(* only hand the delegate NewPermanentCallback(this, &XCallback, done).   *)

ForwardToDelegate(c) ==
    /\ c \notin issued
    /\ issued' = issued \cup {c}
    /\ UNCHANGED <<produced, queue, observed, deletes, useAfterFree>>

WriteKey(c) == Kind[c] = "Write" /\ ForwardToDelegate(c)

ReadKey(c) == Kind[c] = "Read" /\ ForwardToDelegate(c)

DeleteKey(c) == Kind[c] = "Delete" /\ ForwardToDelegate(c)

ReadAllKeys(c) == Kind[c] = "ReadAll" /\ ForwardToDelegate(c)

(* The delegate invokes the permanent callback on some thread; the        *)
(* callback posts new CallbackWrapper(done, result) with NoDelay.          *)

\* Mutant of Posted: the wrapper holds a default-constructed result.
PostedDefault(c, r) == <<[call |-> c, arg |-> "DEFAULT"]>>

\* The wrappers one callback posts: new CallbackWrapper(done, result)
\* (lines 30-32), which takes ownership of done.
Posted(c, r) == <<[call |-> c, arg |-> r]>>

\* The delegate completes call c with result r.
Repost(c, r) ==
    /\ c \in issued
    /\ Len(produced[c]) < Completions(c)
    /\ produced' = [produced EXCEPT ![c] = Append(@, r)]
    /\ queue' = queue \o Posted(c, r)
    /\ UNCHANGED <<issued, observed, deletes, useAfterFree>>

WriteCallback(c, r) == Kind[c] = "Write" /\ Repost(c, r)

ReadCallback(c, r) == Kind[c] = "Read" /\ Repost(c, r)

DeleteCallback(c, r) == Kind[c] = "Delete" /\ Repost(c, r)

ReadAllCallback(c, r) == Kind[c] = "ReadAll" /\ Repost(c, r)

(* The internal scheduler runs the oldest posted wrapper: Run calls the   *)
(* completion with the stored argument, then the scheduler deletes the    *)
(* wrapper, whose destructor deletes the completion.                      *)

RunWrapper ==
    /\ queue # <<>>
    /\ LET w == Head(queue) IN
         /\ observed' = [observed EXCEPT ![w.call] = Append(@, w.arg)]
         /\ useAfterFree' = [useAfterFree EXCEPT ![w.call] = @ \/ deletes[w.call] > 0]
         /\ deletes' = [deletes EXCEPT ![w.call] = @ + 1]
    /\ queue' = Tail(queue)
    /\ UNCHANGED <<issued, produced>>

Next ==
    \/ \E c \in Calls : WriteKey(c) \/ ReadKey(c) \/ DeleteKey(c) \/ ReadAllKeys(c)
    \/ \E c \in Calls, r \in Results :
         WriteCallback(c, r) \/ ReadCallback(c, r)
           \/ DeleteCallback(c, r) \/ ReadAllCallback(c, r)
    \/ RunWrapper

\* The internal scheduler runs what is posted to it.  Neither the client's
\* calls nor the delegate's completions are assumed to happen.
Spec == Init /\ [][Next]_vars /\ WF_vars(RunWrapper)

-----------------------------------------------------------------------------
(* Properties *)

\* Spec 4.3 and 5: the wrapper owns the completion and it is delivered once
\* or dropped once, never twice: no completion is deleted twice, and none
\* runs after CallbackWrapper's destructor has deleted it.
CompletionOwnedOnce ==
    \A c \in Calls : deletes[c] <= 1 /\ ~useAfterFree[c]
=============================================================================
