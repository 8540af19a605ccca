----------------------------- MODULE BoundedFifo -----------------------------
(***************************************************************************)
(* What SpscRing (include/gtpm/spsc_ring.hpp) promises its two callers: a  *)
(* first-in first-out queue of at most Capacity elements.  A push appends  *)
(* a prefix of what the producer offers or is refused at a moment when the *)
(* queue is full; a pop takes a prefix of the queue or is refused at a     *)
(* moment when the queue is empty.                                         *)
(***************************************************************************)
EXTENDS Naturals, Sequences

CONSTANTS Values,     \* the elements that travel through the queue
          Capacity    \* SpscRing::capacity_

VARIABLES queue,      \* published and not yet consumed, oldest first
          accepted,   \* what the last completed push added
          delivered   \* what the last completed pop returned

fifoVars == <<queue, accepted, delivered>>

FifoInit ==
  /\ queue = << >>
  /\ accepted = << >>
  /\ delivered = << >>

Push(batch) ==
  /\ Len(queue) + Len(batch) <= Capacity
  /\ queue' = queue \o batch
  /\ accepted' = batch
  /\ UNCHANGED delivered

PushRefused ==
  /\ Len(queue) = Capacity
  /\ accepted' = << >>
  /\ UNCHANGED <<queue, delivered>>

Pop(n) ==
  /\ n \in 1 .. Len(queue)
  /\ queue' = SubSeq(queue, n + 1, Len(queue))
  /\ delivered' = SubSeq(queue, 1, n)
  /\ UNCHANGED accepted

PopRefused ==
  /\ queue = << >>
  /\ delivered' = << >>
  /\ UNCHANGED <<queue, accepted>>

\* Every batch is bounded by the free room, so the quantifier stays finite.
Batches == UNION { [1 .. n -> Values] : n \in 1 .. Capacity }

FifoNext ==
  \/ \E batch \in Batches : Push(batch)
  \/ PushRefused
  \/ \E n \in 1 .. Capacity : Pop(n)
  \/ PopRefused

FifoSpec == FifoInit /\ [][FifoNext]_fifoVars
=============================================================================
