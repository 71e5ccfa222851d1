---------------------------- MODULE BoundedQueue ----------------------------
(***************************************************************************)
(* What a fixed-length queue of the SDK promises its caller: items leave   *)
(* in the order they entered, each exactly once, and never more than       *)
(* Length of them are held.  No index, no array, no half-done operation.   *)
(***************************************************************************)
EXTENDS Naturals, Sequences

CONSTANTS Length,  \* capacity of the queue
          Item,    \* what can be queued
          NoItem   \* what "out" shows before the first get

VARIABLES queue,   \* the items held, oldest first
          out      \* the item the last successful get handed to its caller

queueVars == <<queue, out>>

QueueInit == queue = <<>> /\ out = NoItem

Enqueue == /\ Len(queue) < Length
           /\ \E d \in Item : queue' = Append(queue, d)
           /\ UNCHANGED out

Dequeue == /\ queue # <<>>
           /\ out' = Head(queue)
           /\ queue' = Tail(queue)

Clear == queue' = <<>> /\ UNCHANGED out

QueueNext == Enqueue \/ Dequeue \/ Clear

QueueSpec == QueueInit /\ [][QueueNext]_queueVars
=============================================================================
