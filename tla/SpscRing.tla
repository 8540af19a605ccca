------------------------------ MODULE SpscRing ------------------------------
(***************************************************************************)
(* The single-producer single-consumer ring of include/gtpm/spsc_ring.hpp, *)
(* one shared access per step.  Each side owns its index and a stale copy  *)
(* of the other side's index, and looks at the shared one only when the    *)
(* copy says the ring is full (empty).  The 64-bit indices are never       *)
(* reset: they run modulo 2^64, here modulo IndexModulus, a multiple of    *)
(* the capacity because the capacity is a power of two.                    *)
(*                                                                         *)
(* Loads and stores of head_ and tail_ are single steps: the acquire loads *)
(* and release stores of the code order the slot accesses around them, and *)
(* each index has one writer.  Slot accesses are one element per step.     *)
(***************************************************************************)
EXTENDS Naturals, Sequences

CONSTANTS Values,        \* the elements that travel through the ring
          Empty,         \* content of a slot never written
          Capacity,      \* capacity_, a power of two, at least 2
          IndexModulus,  \* 2^64 in the code
          MaxBatch       \* longest batch a caller offers or asks for

ASSUME CapacityAssumption == Capacity \in Nat /\ Capacity >= 2

ASSUME ModulusAssumption ==
  /\ IndexModulus \in Nat
  /\ IndexModulus > Capacity
  /\ IndexModulus % Capacity = 0

ASSUME BatchAssumption == MaxBatch \in Nat \ {0}

ASSUME EmptyAssumption == Empty \notin Values

VARIABLES
  head, tail,              \* head_, tail_
  cachedTail, cachedHead,  \* cached_tail_ (producer), cached_head_ (consumer)
  slots,                   \* slots_[0 .. capacity_ - 1]
  pushPc, pushIn, pushed,  \* the push in progress: step, its elements, how many are written
  popPc, popLeft, popOut,  \* the pop in progress: step, elements still to copy, copied so far
  accepted, delivered      \* what the last completed push and pop returned

producerVars == <<head, cachedTail, pushPc, pushIn, pushed, accepted>>
consumerVars == <<tail, cachedHead, popPc, popLeft, popOut, delivered>>
vars == <<producerVars, consumerVars, slots>>

Indices == 0 .. IndexModulus - 1
Slots == 0 .. Capacity - 1

\* Unsigned subtraction and addition of indices.
Diff(a, b) == IF a >= b THEN a - b ELSE (a + IndexModulus) - b
Plus(a, n) == IF a + n < IndexModulus THEN a + n ELSE (a + n) - IndexModulus

\* slots_[i & mask_]
SlotOf(i) == i % Capacity

SmallerOf(m, n) == IF m <= n THEN m ELSE n

Init ==
  /\ head = 0
  /\ tail = 0
  /\ cachedTail = 0
  /\ cachedHead = 0
  /\ slots = [s \in Slots |-> Empty]
  /\ pushPc = "idle" /\ pushIn = << >> /\ pushed = 0
  /\ popPc = "idle" /\ popLeft = 0 /\ popOut = << >>
  /\ accepted = << >>
  /\ delivered = << >>

-----------------------------------------------------------------------------
(* Producer *)

\* Start writing the first n elements of in.
StartWrite(in, n) ==
  /\ pushPc' = "write"
  /\ pushIn' = SubSeq(in, 1, n)
  /\ pushed' = 0
  /\ UNCHANGED accepted

\* Return without writing anything.
RefusePush ==
  /\ accepted' = << >>
  /\ UNCHANGED <<pushPc, pushIn, pushed>>

\* Mutant: the fullness test of try_push is off by one.
TryPushOffByOne(value) ==
  /\ pushPc = "idle"
  /\ cachedTail' = IF Diff(head, cachedTail) > Capacity THEN tail ELSE cachedTail
  /\ IF Diff(head, cachedTail') > Capacity
       THEN RefusePush
       ELSE StartWrite(<<value>>, 1)
  /\ UNCHANGED <<head, slots, consumerVars>>

\* try_push up to the slot write: reload cached_tail_ only when it says full.
TryPush(value) ==
  /\ pushPc = "idle"
  /\ cachedTail' = IF Diff(head, cachedTail) >= Capacity THEN tail ELSE cachedTail
  /\ IF Diff(head, cachedTail') >= Capacity
       THEN RefusePush
       ELSE StartWrite(<<value>>, 1)
  /\ UNCHANGED <<head, slots, consumerVars>>

\* Mutant: the batch is not cut down to the free slots.
TryPushBulkUnclamped(in) ==
  /\ pushPc = "idle"
  /\ cachedTail' = IF Capacity - Diff(head, cachedTail) < Len(in) THEN tail ELSE cachedTail
  /\ IF Diff(head, cachedTail') >= Capacity THEN RefusePush ELSE StartWrite(in, Len(in))
  /\ UNCHANGED <<head, slots, consumerVars>>

\* try_push_bulk up to the slot writes: accept as many as are known to fit.
TryPushBulk(in) ==
  /\ pushPc = "idle"
  /\ cachedTail' = IF Capacity - Diff(head, cachedTail) < Len(in) THEN tail ELSE cachedTail
  /\ LET n == SmallerOf(Capacity - Diff(head, cachedTail'), Len(in))
     IN  IF n = 0 THEN RefusePush ELSE StartWrite(in, n)
  /\ UNCHANGED <<head, slots, consumerVars>>

\* slots_[(head + i) & mask_] = in[i]
WriteSlot ==
  /\ pushPc = "write"
  /\ pushed < Len(pushIn)
  /\ slots' = [slots EXCEPT ![SlotOf(Plus(head, pushed))] = pushIn[pushed + 1]]
  /\ pushed' = pushed + 1
  /\ UNCHANGED <<head, cachedTail, pushPc, pushIn, accepted, consumerVars>>

\* Mutant: head_ is stored before the slots are written.
PublishHeadEarly ==
  /\ pushPc = "write"
  /\ head' = Plus(head, Len(pushIn))
  /\ accepted' = pushIn
  /\ pushPc' = "idle"
  /\ pushIn' = << >>
  /\ pushed' = 0
  /\ UNCHANGED <<cachedTail, slots, consumerVars>>

\* The release store of head_ that publishes the batch, and the return.
PublishHead ==
  /\ pushPc = "write"
  /\ pushed = Len(pushIn)
  /\ head' = Plus(head, pushed)
  /\ accepted' = pushIn
  /\ pushPc' = "idle"
  /\ pushIn' = << >>
  /\ pushed' = 0
  /\ UNCHANGED <<cachedTail, slots, consumerVars>>

-----------------------------------------------------------------------------
(* Consumer *)

\* Both pops up to the first copy: reload cached_head_ only when it says empty.
StartPop(max) ==
  /\ popPc = "idle"
  /\ cachedHead' = IF tail = cachedHead THEN head ELSE cachedHead
  /\ IF tail = cachedHead'
       THEN /\ delivered' = << >>
            /\ UNCHANGED <<popPc, popLeft>>
       ELSE /\ popPc' = "read"
            /\ popLeft' = SmallerOf(Diff(cachedHead', tail), max)
            /\ UNCHANGED delivered
  /\ UNCHANGED <<tail, popOut, slots, producerVars>>

TryPop == StartPop(1)

TryPopBulk(max) == StartPop(max)

\* out[i] = slots_[(tail + i) & mask_]
ReadSlot ==
  /\ popPc = "read"
  /\ popLeft > 0
  /\ popOut' = Append(popOut, slots[SlotOf(Plus(tail, Len(popOut)))])
  /\ popLeft' = popLeft - 1
  /\ UNCHANGED <<tail, cachedHead, popPc, delivered, slots, producerVars>>

\* The one release store of tail_ that frees the batch, and the return.
PublishTail ==
  /\ popPc = "read"
  /\ popLeft = 0
  /\ tail' = Plus(tail, Len(popOut))
  /\ delivered' = popOut
  /\ popPc' = "idle"
  /\ popOut' = << >>
  /\ UNCHANGED <<cachedHead, popLeft, slots, producerVars>>

-----------------------------------------------------------------------------
InputBatches == UNION { [1 .. n -> Values] : n \in 1 .. MaxBatch }

Producer ==
  \/ \E value \in Values : TryPush(value)
  \/ \E in \in InputBatches : TryPushBulk(in)
  \/ WriteSlot
  \/ PublishHead

Consumer ==
  \/ TryPop
  \/ \E max \in 1 .. MaxBatch : TryPopBulk(max)
  \/ ReadSlot
  \/ PublishTail

Next == Producer \/ Consumer

Spec == Init /\ [][Next]_vars

-----------------------------------------------------------------------------
(* Properties *)

\* size_approx(): both callers of the code own one of the two indices, so
\* the two loads see one instant.
SizeApprox == Diff(head, tail)

\* Every variable has its type, and both indices and their stale copies stay
\* within the range of the index type.
TypeOK ==
  /\ head \in Indices /\ tail \in Indices
  /\ cachedTail \in Indices /\ cachedHead \in Indices
  /\ slots \in [Slots -> Values \cup {Empty}]
  /\ pushPc \in {"idle", "write"}
  /\ pushIn \in Seq(Values) /\ pushed \in 0 .. Len(pushIn)
  /\ popPc \in {"idle", "read"}
  /\ popLeft \in 0 .. Capacity
  /\ popOut \in Seq(Values \cup {Empty})
  /\ accepted \in Seq(Values)
  /\ delivered \in Seq(Values \cup {Empty})

\* ct <= t <= ch <= h <= ct + Capacity, counted around the ring.
InOrder(ct, t, ch, h) ==
  /\ Diff(h, ct) <= Capacity
  /\ Diff(t, ct) + Diff(ch, t) + Diff(h, ch) = Diff(h, ct)

\* A stale copy is never ahead of the index it copies, no matter how the
\* indices wrap, and a push that trusts its stale copy cannot exceed the
\* capacity (spsc_ring.hpp:51, 63, 77, 93).
IndexOrder == InOrder(cachedTail, tail, cachedHead, head)

\* What a side in the middle of an operation has reserved: the producer's
\* batch fits in the room it saw, the consumer's was published.
Reserved ==
  /\ Diff(head, cachedTail) + Len(pushIn) <= Capacity
  /\ popLeft + Len(popOut) <= Diff(cachedHead, tail)
  /\ pushPc = "idle" => pushIn = << >>
  /\ popPc = "idle" => popLeft = 0 /\ popOut = << >>

\* The slots the producer is about to overwrite and the slots the consumer is
\* copying are disjoint: the plain, non-atomic slot accesses of the two
\* threads never race (spsc_ring.hpp:55, 67, 84, 100).
WriteWindow == { SlotOf(Plus(head, i)) : i \in 0 .. Len(pushIn) - 1 }
ReadWindow == { SlotOf(Plus(tail, i)) : i \in 0 .. (popLeft + Len(popOut)) - 1 }
NoSlotRace == WriteWindow \cap ReadWindow = {}

\* The queue a ring stands for: the elements between tail_ and head_.
Contents == [i \in 1 .. SizeApprox |-> slots[SlotOf(Plus(tail, i - 1))]]

\* The ring implements a bounded first-in first-out queue: nothing is lost,
\* duplicated, reordered or read before it was written, a push is refused only
\* at an instant when the ring is full and a pop only when it is empty.
Fifo == INSTANCE BoundedFifo WITH queue <- Contents
RefinesBoundedFifo == Fifo!FifoSpec
=============================================================================
