---------------------------- MODULE CompletionFifo ----------------------------
(***************************************************************************)
(* What the native completion queue of src/aio_engine.h promises to the    *)
(* event loop: a first-in first-out queue of completed entries, each of    *)
(* them queued at most once, that hands out at most MaxBatch of them at a  *)
(* time, and that hands out fewer only when nothing is left behind.        *)
(*                                                                         *)
(* The ring buffer, its growth, reference counts and memory are the        *)
(* business of CompletionQueue, which implements this specification.       *)
(***************************************************************************)
EXTENDS Naturals, Sequences, FiniteSets

CONSTANTS
  Entry,      \* the completion entries
  MaxBatch    \* slots the caller's buffer holds

VARIABLES
  pending,    \* entries that completed, oldest first
  open,       \* FALSE once the queue is closed
  batch       \* entries handed out and not yet acted upon

vars == <<pending, open, batch>>

Queued == {pending[i] : i \in 1..Len(pending)}

FirstN(n) == {pending[i] : i \in 1..n}

Init ==
  /\ pending = <<>>
  /\ open = TRUE
  /\ batch = {}

(* A completion enters the queue once, however often nng reports it.       *)
Complete(e) ==
  /\ open
  /\ e \notin Queued
  /\ pending' = Append(pending, e)
  /\ UNCHANGED <<open, batch>>

(* The oldest n entries leave.  Some of them may have no waiter any more,  *)
(* so the batch is a part of them; it stays short of MaxBatch only if the  *)
(* whole queue was taken.                                                  *)
Drain ==
  \E n \in 0..Len(pending) :
    /\ pending' = SubSeq(pending, n + 1, Len(pending))
    /\ batch' \in SUBSET FirstN(n)
    /\ Cardinality(batch') =< MaxBatch
    /\ n < Len(pending) => Cardinality(batch') = MaxBatch
    /\ UNCHANGED open

(* The loop acts on the batch.                                             *)
Resolve ==
  /\ batch' = {}
  /\ UNCHANGED <<pending, open>>

(* Closing forgets what was queued; nothing enters afterwards.             *)
Close ==
  /\ open' = FALSE
  /\ pending' = <<>>
  /\ UNCHANGED batch

Next ==
  \/ \E e \in Entry : Complete(e)
  \/ Drain
  \/ Resolve
  \/ Close

Spec == Init /\ [][Next]_vars
=============================================================================
