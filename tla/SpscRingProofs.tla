--------------------------- MODULE SpscRingProofs ---------------------------
(***************************************************************************)
(* Proofs about the SPSC ring, for every capacity, every index width whose *)
(* modulus the capacity divides, and every set of elements.                *)
(***************************************************************************)
EXTENDS SpscRing, NumberFacts, SequenceTheorems, TLAPS

-----------------------------------------------------------------------------
(* Arithmetic of slot numbers *)

\* An index within one capacity of i is an index, and its slot is the one the
\* unwrapped sum names.
LEMMA PlusSlot ==
  ASSUME NEW i \in Indices, NEW n \in 0 .. Capacity
  PROVE  /\ Plus(i, n) \in Indices
         /\ SlotOf(Plus(i, n)) = (i + n) % Capacity
         /\ SlotOf(Plus(i, n)) \in Slots
<1> USE CapacityAssumption, ModulusAssumption
<1>1. Plus(i, n) \in Indices
  BY DEF Plus, Indices
<1>2. CASE i + n < IndexModulus
  BY <1>2, DivMod DEF Plus, SlotOf, Indices, Slots
<1>3. CASE i + n >= IndexModulus
  <2> DEFINE j == (i + n) - IndexModulus
  <2>1. j \in Nat /\ Plus(i, n) = j /\ i + n = j + IndexModulus
    BY <1>3 DEF Plus, Indices
  <2> HIDE DEF j
  <2>0. Capacity > 0
    OBVIOUS
  <2>2. (j + IndexModulus) % Capacity = j % Capacity
    BY <2>0, <2>1, WrapKeepsRemainder, Zenon
  <2>3. j % Capacity \in 0 .. Capacity - 1
    BY <2>1, DivMod
  <2> QED BY <1>1, <2>1, <2>2, <2>3 DEF SlotOf, Slots
<1> QED BY <1>1, <1>2, <1>3 DEF Indices

\* Two positions less than a capacity apart occupy different slots.
LEMMA SlotsDiffer ==
  ASSUME NEW i \in Indices, NEW m \in 0 .. Capacity, NEW n \in 0 .. Capacity,
         m < n, n < m + Capacity
  PROVE  SlotOf(Plus(i, m)) # SlotOf(Plus(i, n))
<1>1. i \in Nat /\ i + m < i + n /\ i + n < (i + m) + Capacity
  BY CapacityAssumption, ModulusAssumption DEF Indices
<1>2. (i + m) % Capacity # (i + n) % Capacity
  <2>1. i + m \in Nat /\ i + n \in Nat /\ Capacity \in Nat /\ Capacity > 0
    BY <1>1, CapacityAssumption
  <2>. QED  BY <1>1, <2>1, RemaindersDiffer, Zenon
<1> QED BY <1>2, PlusSlot

\* Distances around the ring and sums of indices.
LEMMA PlusDiff ==
  ASSUME NEW i \in Indices, NEW j \in Indices
  PROVE  /\ Diff(i, j) \in 0 .. IndexModulus - 1
         /\ Plus(j, Diff(i, j)) = i
         /\ Diff(i, i) = 0
BY ModulusAssumption DEF Diff, Plus, Indices

\* Different indices are at least one apart.
LEMMA DiffApart ==
  ASSUME NEW i \in Indices, NEW j \in Indices, i # j
  PROVE  Diff(i, j) \in Nat /\ Diff(i, j) >= 1
BY ModulusAssumption DEF Diff, Indices

\* Wrapping index arithmetic: advancing twice, by nothing, and back.
LEMMA PlusPlus ==
  ASSUME NEW i \in Indices, NEW m \in 0 .. Capacity, NEW n \in 0 .. Capacity,
         m + n <= Capacity
  PROVE  /\ Plus(Plus(i, m), n) = Plus(i, m + n)
         /\ Plus(i, 0) = i
         /\ Diff(Plus(i, m), i) = m
BY CapacityAssumption, ModulusAssumption DEF Plus, Diff, Indices

\* The assumptions on the constants, in one fact.
LEMMA Bounds == Capacity \in Nat /\ IndexModulus \in Nat /\ 2 <= Capacity /\ Capacity < IndexModulus
BY CapacityAssumption, ModulusAssumption

\* Distances between ordered indices fit in the ring and add up.
LEMMA OrderFacts ==
  ASSUME NEW ct \in Indices, NEW t \in Indices, NEW ch \in Indices, NEW h \in Indices,
         InOrder(ct, t, ch, h)
  PROVE  /\ Diff(h, ct) \in 0 .. Capacity
         /\ Diff(ch, t) \in 0 .. Capacity
         /\ Diff(h, t) \in 0 .. Capacity
         /\ Diff(h, t) = Diff(h, ct) - Diff(t, ct)
         /\ Diff(h, t) = Diff(ch, t) + Diff(h, ch)
         /\ Diff(t, ct) \in 0 .. Capacity
         /\ Diff(h, ch) \in 0 .. Capacity
BY Bounds DEF InOrder, Indices, Diff

\* Reloading cached_tail_ from tail_ keeps the indices in order.
LEMMA ReloadTail ==
  ASSUME NEW ct \in Indices, NEW t \in Indices, NEW ch \in Indices, NEW h \in Indices,
         InOrder(ct, t, ch, h)
  PROVE  InOrder(t, t, ch, h)
BY Bounds DEF InOrder, Indices, Diff

\* Reloading cached_head_ from head_ keeps the indices in order.
LEMMA ReloadHead ==
  ASSUME NEW ct \in Indices, NEW t \in Indices, NEW ch \in Indices, NEW h \in Indices,
         InOrder(ct, t, ch, h)
  PROVE  InOrder(ct, t, h, h)
BY Bounds DEF InOrder, Indices, Diff

\* Publishing n elements keeps the order if the stale tail left room for n.
LEMMA AdvanceHead ==
  ASSUME NEW ct \in Indices, NEW t \in Indices, NEW ch \in Indices, NEW h \in Indices,
         InOrder(ct, t, ch, h), NEW n \in Nat, Diff(h, ct) + n <= Capacity
  PROVE  /\ Plus(h, n) \in Indices
         /\ InOrder(ct, t, ch, Plus(h, n))
         /\ Diff(Plus(h, n), t) = Diff(h, t) + n
BY Bounds DEF InOrder, Indices, Diff, Plus

\* Consuming n elements keeps the order if the stale head offered n.
LEMMA AdvanceTail ==
  ASSUME NEW ct \in Indices, NEW t \in Indices, NEW ch \in Indices, NEW h \in Indices,
         InOrder(ct, t, ch, h), NEW n \in Nat, n <= Diff(ch, t)
  PROVE  /\ Plus(t, n) \in Indices
         /\ InOrder(ct, Plus(t, n), ch, h)
         /\ Diff(h, Plus(t, n)) = Diff(h, t) - n
         /\ Diff(ch, Plus(t, n)) \in Nat
BY Bounds DEF InOrder, Indices, Diff, Plus

-----------------------------------------------------------------------------
(* The inductive invariant: the index order alone is not inductive, since  *)
(* a publish is safe only because of what the operation reserved earlier.  *)

RingInv == TypeOK /\ IndexOrder /\ Reserved

\* An empty ring satisfies the invariant.
LEMMA RingInvInit == Init => RingInv
<1> SUFFICES ASSUME Init PROVE RingInv
  OBVIOUS
<1>1. 0 \in Indices /\ Diff(0, 0) = 0 /\ InOrder(0, 0, 0, 0)
  BY Bounds DEF Indices, Diff, InOrder
<1> QED BY <1>1, Bounds DEF Init, RingInv, TypeOK, IndexOrder, Reserved

\* Reloading cached_tail_, or keeping it, leaves the indices in order.
LEMMA CachedTailInv ==
  ASSUME RingInv, cachedTail' \in {cachedTail, tail}, UNCHANGED <<head, consumerVars>>
  PROVE  cachedTail' \in Indices /\ IndexOrder' /\ Diff(head, cachedTail') \in 0 .. Capacity
<1>1. cachedTail' \in Indices /\ InOrder(cachedTail', tail, cachedHead, head)
  BY ReloadTail DEF RingInv, TypeOK, IndexOrder
<1>2. Diff(head, cachedTail') \in 0 .. Capacity
  BY <1>1, OrderFacts DEF RingInv, TypeOK
<1> QED BY <1>1, <1>2 DEF IndexOrder, consumerVars

\* What an accepted push leaves behind, whichever operation accepted it.
LEMMA StartWriteInv ==
  ASSUME RingInv,
         NEW in \in Seq(Values), NEW n \in 1 .. Len(in),
         cachedTail' \in {cachedTail, tail},
         n <= Capacity - Diff(head, cachedTail'),
         StartWrite(in, n), pushPc = "idle",
         UNCHANGED <<head, slots, consumerVars>>
  PROVE  RingInv'
<1>1. pushIn' \in Seq(Values) /\ Len(pushIn') = n
  BY SubSeqProperties DEF StartWrite
<1>2. cachedTail' \in Indices /\ IndexOrder' /\ Diff(head, cachedTail') \in 0 .. Capacity
  BY CachedTailInv
<1>3. TypeOK'
  BY <1>1, <1>2 DEF RingInv, TypeOK, StartWrite, consumerVars
<1>4. Diff(head, cachedTail') + Len(pushIn') <= Capacity
  BY <1>1, <1>2, Bounds
<1>5. Reserved'
  BY <1>1, <1>4 DEF RingInv, Reserved, StartWrite, consumerVars
<1> QED BY <1>2, <1>3, <1>5 DEF RingInv

\* A push that finds the ring full preserves the invariant.
LEMMA RefusePushInv ==
  ASSUME RingInv, cachedTail' \in {cachedTail, tail}, RefusePush, pushPc = "idle",
         UNCHANGED <<head, slots, consumerVars>>
  PROVE  RingInv'
<1>1. cachedTail' \in Indices /\ IndexOrder' /\ Diff(head, cachedTail') \in 0 .. Capacity
  BY CachedTailInv
<1>2. TypeOK'
  BY <1>1 DEF RingInv, TypeOK, RefusePush, consumerVars
<1>3. Diff(head, cachedTail') + Len(pushIn') <= Capacity
  BY <1>1, Bounds DEF RingInv, Reserved, RefusePush
<1>4. Reserved'
  BY <1>3 DEF RingInv, Reserved, RefusePush, consumerVars
<1> QED BY <1>1, <1>2, <1>4 DEF RingInv

\* try_push() up to its slot write preserves the invariant.
LEMMA TryPushInv ==
  ASSUME RingInv, NEW value \in Values, TryPush(value)
  PROVE  RingInv'
<1>1. cachedTail' \in {cachedTail, tail} /\ UNCHANGED <<head, slots, consumerVars>> /\ pushPc = "idle"
  BY DEF TryPush
<1>2. Diff(head, cachedTail') \in 0 .. Capacity
  BY <1>1, CachedTailInv
<1>3. CASE Diff(head, cachedTail') >= Capacity
  BY <1>1, <1>3, RefusePushInv DEF TryPush
<1>4. CASE ~(Diff(head, cachedTail') >= Capacity)
  <2>1. <<value>> \in Seq(Values) /\ Len(<<value>>) = 1 /\ 1 \in 1 .. Len(<<value>>)
    OBVIOUS
  <2>2. 1 <= Capacity - Diff(head, cachedTail')
    BY <1>2, <1>4, Bounds
  <2>3. StartWrite(<<value>>, 1)
    BY <1>4 DEF TryPush
  <2> QED BY <1>1, <2>1, <2>2, <2>3, StartWriteInv
<1> QED BY <1>3, <1>4

\* try_push_bulk() up to its slot writes preserves the invariant.
LEMMA TryPushBulkInv ==
  ASSUME RingInv, NEW in \in InputBatches, TryPushBulk(in)
  PROVE  RingInv'
<1> DEFINE room == Capacity - Diff(head, cachedTail')
           n == SmallerOf(room, Len(in))
<1>1. in \in Seq(Values) /\ Len(in) \in Nat
  BY BatchAssumption DEF InputBatches
<1>2. cachedTail' \in {cachedTail, tail} /\ UNCHANGED <<head, slots, consumerVars>> /\ pushPc = "idle"
  BY DEF TryPushBulk
<1>3. room \in Nat
  BY <1>2, CachedTailInv, Bounds
<1>4. n \in 0 .. Len(in) /\ n <= room
  BY <1>1, <1>3 DEF SmallerOf
<1>5. CASE n = 0
  BY <1>2, <1>5, RefusePushInv DEF TryPushBulk
<1>6. CASE n # 0
  <2>1. StartWrite(in, n)
    BY <1>6 DEF TryPushBulk
  <2>2. n \in 1 .. Len(in)
    BY <1>1, <1>4, <1>6
  <2> QED BY <1>1, <1>2, <1>4, <2>1, <2>2, StartWriteInv
<1> QED BY <1>5, <1>6

\* Writing a slot preserves the invariant.
LEMMA WriteSlotInv ==
  ASSUME RingInv, WriteSlot
  PROVE  RingInv'
<1>1. pushIn[pushed + 1] \in Values
  BY DEF RingInv, TypeOK, WriteSlot
<1>2. pushed' \in 0 .. Len(pushIn)
  BY DEF RingInv, TypeOK, WriteSlot
<1>3. slots' \in [Slots -> Values \cup {Empty}]
  BY <1>1, Zenon DEF RingInv, TypeOK, WriteSlot
<1>4. TypeOK'
  BY <1>2, <1>3 DEF RingInv, TypeOK, WriteSlot, consumerVars
<1>5. IndexOrder' /\ Reserved'
  BY DEF RingInv, IndexOrder, Reserved, WriteSlot, consumerVars
<1> QED BY <1>4, <1>5 DEF RingInv

\* The release store of head_ preserves the invariant.
LEMMA PublishHeadInv ==
  ASSUME RingInv, PublishHead
  PROVE  RingInv'
<1>1. pushed = Len(pushIn) /\ Len(pushIn) \in Nat /\ head' = Plus(head, Len(pushIn))
  BY DEF RingInv, TypeOK, PublishHead
<1>2. head' \in Indices /\ InOrder(cachedTail, tail, cachedHead, head')
  BY <1>1, AdvanceHead DEF RingInv, TypeOK, IndexOrder, Reserved
<1>3. Diff(head', cachedTail) \in 0 .. Capacity
  BY <1>2, OrderFacts DEF RingInv, TypeOK
<1>4. TypeOK'
  BY <1>2 DEF RingInv, TypeOK, PublishHead, consumerVars
<1>5. IndexOrder'
  BY <1>2 DEF IndexOrder, PublishHead, consumerVars
<1>6. Diff(head', cachedTail') + Len(pushIn') <= Capacity
  BY <1>3, Bounds DEF PublishHead
<1>7. Reserved'
  BY <1>6 DEF RingInv, Reserved, PublishHead, consumerVars
<1> QED BY <1>4, <1>5, <1>7 DEF RingInv

\* try_pop() and try_pop_bulk() up to their slot reads preserve the invariant.
LEMMA StartPopInv ==
  ASSUME RingInv, NEW max \in Nat \ {0}, StartPop(max)
  PROVE  RingInv'
<1>1. cachedHead' \in Indices /\ InOrder(cachedTail, tail, cachedHead', head)
  BY ReloadHead DEF RingInv, TypeOK, IndexOrder, StartPop
<1>2. Diff(cachedHead', tail) \in 0 .. Capacity
  BY <1>1, OrderFacts DEF RingInv, TypeOK
<1>3. IndexOrder'
  BY <1>1 DEF IndexOrder, StartPop, producerVars
<1>4. popPc = "idle" /\ popLeft = 0 /\ popOut = << >> /\ UNCHANGED <<tail, popOut, slots, producerVars>>
  BY DEF RingInv, Reserved, StartPop
<1>5. CASE tail = cachedHead'
  <2>1. delivered' = << >> /\ UNCHANGED <<popPc, popLeft>>
    BY <1>5 DEF StartPop
  <2>2. TypeOK'
    BY <1>1, <1>4, <2>1 DEF RingInv, TypeOK, producerVars
  <2>3. popLeft' + Len(popOut') <= Diff(cachedHead', tail')
    BY <1>2, <1>4, <2>1, Bounds
  <2>4. Reserved'
    BY <1>4, <2>1, <2>3 DEF RingInv, Reserved, producerVars
  <2> QED BY <1>3, <2>2, <2>4 DEF RingInv
<1>6. CASE tail # cachedHead'
  <2>1. popPc' = "read" /\ popLeft' = SmallerOf(Diff(cachedHead', tail), max) /\ UNCHANGED delivered
    BY <1>6 DEF StartPop
  <2>2. popLeft' \in 0 .. Capacity /\ popLeft' <= Diff(cachedHead', tail)
    BY <1>2, <2>1, Bounds DEF SmallerOf
  <2>3. TypeOK'
    BY <1>1, <1>4, <2>1, <2>2 DEF RingInv, TypeOK, producerVars
  <2>4. popLeft' + Len(popOut') <= Diff(cachedHead', tail')
    BY <1>2, <1>4, <2>2, Bounds
  <2>5. Reserved'
    BY <1>4, <2>1, <2>4 DEF RingInv, Reserved, producerVars
  <2> QED BY <1>3, <2>3, <2>5 DEF RingInv
<1> QED BY <1>5, <1>6

\* The slot the consumer copies next was published.
LEMMA ReadSlotRange ==
  ASSUME RingInv, NEW n \in 0 .. Capacity
  PROVE  SlotOf(Plus(tail, n)) \in Slots
BY PlusSlot DEF RingInv, TypeOK

\* Reading a slot preserves the invariant.
LEMMA ReadSlotInv ==
  ASSUME RingInv, ReadSlot
  PROVE  RingInv'
<1>1. Len(popOut) \in 0 .. Capacity
  <2>1. Diff(cachedHead, tail) \in 0 .. Capacity
    BY OrderFacts DEF RingInv, TypeOK, IndexOrder
  <2>2. popLeft \in Nat /\ Len(popOut) \in Nat /\ popLeft + Len(popOut) <= Diff(cachedHead, tail)
    BY DEF RingInv, TypeOK, Reserved
  <2> QED BY <2>1, <2>2, Bounds
<1>2. slots[SlotOf(Plus(tail, Len(popOut)))] \in Values \cup {Empty}
  BY <1>1, ReadSlotRange DEF RingInv, TypeOK
<1>3. popOut' \in Seq(Values \cup {Empty}) /\ Len(popOut') = Len(popOut) + 1
  BY <1>2 DEF RingInv, TypeOK, ReadSlot
<1>4. popLeft' \in 0 .. Capacity /\ popLeft' = popLeft - 1
  BY Bounds DEF RingInv, TypeOK, ReadSlot
<1>5. TypeOK'
  BY <1>3, <1>4 DEF RingInv, TypeOK, ReadSlot, producerVars
<1>6. IndexOrder'
  BY DEF RingInv, IndexOrder, ReadSlot, producerVars
<1>7. popLeft' + Len(popOut') = popLeft + Len(popOut)
  BY <1>1, <1>3, <1>4 DEF RingInv, TypeOK
<1>8. Reserved'
  BY <1>7 DEF RingInv, Reserved, ReadSlot, producerVars
<1> QED BY <1>5, <1>6, <1>8 DEF RingInv

\* The release store of tail_ preserves the invariant.
LEMMA PublishTailInv ==
  ASSUME RingInv, PublishTail
  PROVE  RingInv'
<1>1. Len(popOut) \in Nat /\ Len(popOut) <= Diff(cachedHead, tail) /\ tail' = Plus(tail, Len(popOut))
  BY DEF RingInv, TypeOK, Reserved, PublishTail
<1>2. /\ tail' \in Indices
      /\ InOrder(cachedTail, tail', cachedHead, head)
      /\ Diff(cachedHead, tail') \in Nat
  BY <1>1, AdvanceTail DEF RingInv, TypeOK, IndexOrder
<1>3. TypeOK'
  BY <1>2 DEF RingInv, TypeOK, PublishTail, producerVars
<1>4. IndexOrder'
  BY <1>2 DEF IndexOrder, PublishTail, producerVars
<1>5. popLeft' + Len(popOut') <= Diff(cachedHead', tail')
  BY <1>2 DEF PublishTail
<1>6. Reserved'
  BY <1>5 DEF RingInv, Reserved, PublishTail, producerVars
<1> QED BY <1>3, <1>4, <1>6 DEF RingInv

\* Every step of either side preserves the invariant.
LEMMA RingInvNext == RingInv /\ [Next]_vars => RingInv'
<1> SUFFICES ASSUME RingInv, [Next]_vars PROVE RingInv'
  OBVIOUS
<1>1. ASSUME NEW value \in Values, TryPush(value) PROVE RingInv'
  BY <1>1, TryPushInv
<1>2. ASSUME NEW in \in InputBatches, TryPushBulk(in) PROVE RingInv'
  BY <1>2, TryPushBulkInv
<1>3. CASE WriteSlot
  BY <1>3, WriteSlotInv
<1>4. CASE PublishHead
  BY <1>4, PublishHeadInv
<1>5. CASE TryPop
  BY <1>5, StartPopInv DEF TryPop
<1>6. ASSUME NEW max \in 1 .. MaxBatch, TryPopBulk(max) PROVE RingInv'
  BY <1>6, StartPopInv, BatchAssumption DEF TryPopBulk
<1>7. CASE ReadSlot
  BY <1>7, ReadSlotInv
<1>8. CASE PublishTail
  BY <1>8, PublishTailInv
<1>9. CASE UNCHANGED vars
  BY <1>9 DEF vars, producerVars, consumerVars, RingInv, TypeOK, IndexOrder, Reserved
<1> QED
  BY <1>1, <1>2, <1>3, <1>4, <1>5, <1>6, <1>7, <1>8, <1>9 DEF Next, Producer, Consumer

\* Every behaviour of the ring keeps its variables in type, its indices and
\* their stale copies in order around the wrapping index space, and its
\* reservations within the capacity (try_push, try_pop and the bulk forms).
THEOREM RingInvariant == Spec => [](TypeOK /\ IndexOrder /\ Reserved)
<1>1. RingInv => TypeOK /\ IndexOrder /\ Reserved
  BY DEF RingInv
<1> QED BY <1>1, RingInvInit, RingInvNext, PTL DEF Spec

-----------------------------------------------------------------------------
(* No two threads ever touch the same slot *)

\* The invariant keeps the slots of the two sides apart.
LEMMA RingInvNoSlotRace == RingInv => NoSlotRace
<1> SUFFICES ASSUME RingInv,
                    NEW i \in 0 .. Len(pushIn) - 1,
                    NEW j \in 0 .. (popLeft + Len(popOut)) - 1
             PROVE  SlotOf(Plus(head, i)) # SlotOf(Plus(tail, j))
  BY DEF NoSlotRace, WriteWindow, ReadWindow
<1> DEFINE d == Diff(head, tail)
<1>1. /\ head \in Indices /\ tail \in Indices
      /\ Len(pushIn) \in Nat /\ popLeft \in Nat /\ Len(popOut) \in Nat
  BY DEF RingInv, TypeOK
<1>2. /\ d \in 0 .. Capacity
      /\ d <= Diff(head, cachedTail) /\ Diff(head, cachedTail) \in Nat
      /\ Diff(cachedHead, tail) <= d /\ Diff(cachedHead, tail) \in Nat
  <2>1. /\ {cachedTail, tail, cachedHead, head} \subseteq Indices
        /\ InOrder(cachedTail, tail, cachedHead, head)
    BY DEF RingInv, TypeOK, IndexOrder
  <2>. QED  BY <2>1, OrderFacts
<1>3. Plus(tail, d) = head
  BY <1>1, PlusDiff
<1> HIDE DEF d
<1>4. i \in 0 .. Capacity /\ d + i < Capacity /\ j < d /\ j \in 0 .. Capacity /\ d + i \in 0 .. Capacity
  BY <1>1, <1>2, Bounds DEF RingInv, Reserved
<1>5. Plus(head, i) = Plus(tail, d + i)
  BY <1>1, <1>2, <1>3, <1>4, PlusPlus
<1>6. j < d + i /\ d + i < j + Capacity
  BY <1>2, <1>4, Bounds
<1>7. SlotOf(Plus(tail, j)) # SlotOf(Plus(tail, d + i))
  BY <1>1, <1>4, <1>6, SlotsDiffer
<1> QED BY <1>5, <1>7

\* The plain slot accesses of producer and consumer never overlap, for every
\* capacity and wherever the indices have wrapped: the code needs no lock and
\* no atomic element (the copies at spsc_ring.hpp:55, 67, 84, 100).
THEOREM RingNoSlotRace == Spec => []NoSlotRace
BY RingInvInit, RingInvNext, RingInvNoSlotRace, PTL DEF Spec

-----------------------------------------------------------------------------
(* The ring is a bounded FIFO *)

\* What is on its way in or out: an operation in progress has something to do,
\* the slots written so far hold the batch, and what was copied out is still
\* in its slots.
Transit ==
  /\ pushPc = "write" => Len(pushIn) >= 1
  /\ popPc = "read" => popLeft + Len(popOut) >= 1
  /\ \A k \in 0 .. pushed - 1 : slots[SlotOf(Plus(head, k))] = pushIn[k + 1]
  /\ \A k \in 1 .. Len(popOut) : popOut[k] = slots[SlotOf(Plus(tail, k - 1))]

\* Sizes, as numbers.
LEMMA RingSizes ==
  ASSUME RingInv
  PROVE  /\ head \in Indices /\ tail \in Indices
         /\ SizeApprox \in 0 .. Capacity /\ Plus(tail, SizeApprox) = head
         /\ Len(pushIn) \in Nat /\ SizeApprox + Len(pushIn) <= Capacity
         /\ pushed \in 0 .. Len(pushIn)
         /\ Len(popOut) \in Nat /\ popLeft \in Nat /\ popLeft + Len(popOut) <= SizeApprox
<1>1. /\ {cachedTail, tail, cachedHead, head} \subseteq Indices
      /\ InOrder(cachedTail, tail, cachedHead, head)
      /\ Len(pushIn) \in Nat /\ popLeft \in Nat /\ Len(popOut) \in Nat /\ pushed \in 0 .. Len(pushIn)
  BY DEF RingInv, TypeOK, IndexOrder
<1>2. /\ SizeApprox \in 0 .. Capacity
      /\ SizeApprox <= Diff(head, cachedTail) /\ Diff(head, cachedTail) \in Nat
      /\ Diff(cachedHead, tail) <= SizeApprox /\ Diff(cachedHead, tail) \in Nat
  BY <1>1, OrderFacts DEF SizeApprox
<1>3. Plus(tail, SizeApprox) = head
  BY <1>1, PlusDiff DEF SizeApprox
<1>. QED  BY <1>1, <1>2, <1>3, Bounds DEF RingInv, Reserved

\* The queue as a sequence.
LEMMA ContentsSeq ==
  ASSUME RingInv
  PROVE  /\ Contents \in Seq(Values \cup {Empty}) /\ Len(Contents) = SizeApprox
         /\ \A i \in 1 .. SizeApprox : Contents[i] = slots[SlotOf(Plus(tail, i - 1))]
<1>. DEFINE n == SizeApprox
<1>1. n \in 0 .. Capacity /\ Capacity \in Nat
  BY RingSizes, Bounds
<1>2. slots \in [Slots -> Values \cup {Empty}] /\ tail \in Indices
  BY DEF RingInv, TypeOK
<1>. HIDE DEF n
<1>3. \A i \in 1 .. n : slots[SlotOf(Plus(tail, i - 1))] \in Values \cup {Empty}
  <2>. SUFFICES ASSUME NEW i \in 1 .. n PROVE SlotOf(Plus(tail, i - 1)) \in Slots
    BY <1>2, Zenon
  <2>1. i - 1 \in 0 .. Capacity
    BY <1>1
  <2>. QED  BY <2>1, ReadSlotRange, Zenon
<1>4. Contents = [i \in 1 .. n |-> slots[SlotOf(Plus(tail, i - 1))]]
  BY Zenon DEF Contents, n
<1>5. Contents \in [1 .. n -> Values \cup {Empty}]
  BY <1>3, <1>4, Zenon
<1>6. n \in Nat
  BY <1>1
<1>7. Contents \in Seq(Values \cup {Empty}) /\ Len(Contents) = n
  BY <1>5, <1>6
<1>. QED  BY <1>4, <1>7, Zenon DEF n

\* What ContentsSeq says of a state, for use after a step.
ContentsShape ==
  /\ Contents \in Seq(Values \cup {Empty}) /\ Len(Contents) = SizeApprox
  /\ \A i \in 1 .. SizeApprox : Contents[i] = slots[SlotOf(Plus(tail, i - 1))]

\* The queue is a sequence before a step and after it.
LEMMA ContentsSeqPrimed == RingInv' => ContentsShape'
<1>1. RingInv => ContentsShape
  BY ContentsSeq DEF ContentsShape
<1>. QED  BY <1>1, PTL

\* Writing a slot touches nothing published and nothing written before.
LEMMA WriteElsewhere ==
  ASSUME RingInv, WriteSlot
  PROVE  /\ \A k \in 0 .. SizeApprox - 1 : slots'[SlotOf(Plus(tail, k))] = slots[SlotOf(Plus(tail, k))]
         /\ \A k \in 0 .. pushed - 1 : slots'[SlotOf(Plus(head, k))] = slots[SlotOf(Plus(head, k))]
         /\ slots'[SlotOf(Plus(head, pushed))] = pushIn[pushed + 1]
<1>. DEFINE d == SizeApprox
            w == SlotOf(Plus(head, pushed))
<1>0. slots' = [slots EXCEPT ![w] = pushIn[pushed + 1]] /\ pushed < Len(pushIn)
  BY DEF WriteSlot
<1>1. /\ head \in Indices /\ tail \in Indices /\ d \in 0 .. Capacity /\ Plus(tail, d) = head
      /\ Len(pushIn) \in Nat /\ d + Len(pushIn) <= Capacity /\ pushed \in 0 .. Len(pushIn)
  BY RingSizes
<1>2. slots \in [Slots -> Values \cup {Empty}]
  BY DEF RingInv, TypeOK
<1>. HIDE DEF d
<1>3. /\ pushed \in 0 .. Capacity /\ d + pushed \in 0 .. Capacity /\ d + pushed < Capacity
      /\ pushed \in Nat
  BY <1>0, <1>1, Bounds
<1>4. Plus(head, pushed) = Plus(tail, d + pushed)
  <2>1. d + pushed <= Capacity
    BY <1>1, <1>3, Bounds
  <2>. QED  BY <1>1, <1>3, <2>1, PlusPlus
<1>5. w \in Slots
  BY <1>1, <1>3, PlusSlot
<1>6. ASSUME NEW k \in 0 .. d - 1 PROVE slots'[SlotOf(Plus(tail, k))] = slots[SlotOf(Plus(tail, k))]
  <2>1. k \in 0 .. Capacity /\ k < d + pushed /\ d + pushed < k + Capacity
    BY <1>1, <1>3, Bounds
  <2>2. SlotOf(Plus(tail, k)) # w /\ SlotOf(Plus(tail, k)) \in Slots
    <3>1. SlotOf(Plus(tail, k)) # SlotOf(Plus(tail, d + pushed))
      BY <1>1, <1>3, <2>1, SlotsDiffer
    <3>2. SlotOf(Plus(tail, k)) \in Slots
      BY <1>1, <2>1, PlusSlot
    <3>. QED  BY <1>4, <3>1, <3>2
  <2>. QED  BY <1>0, <1>2, <2>2, Zenon
<1>7. ASSUME NEW k \in 0 .. pushed - 1 PROVE slots'[SlotOf(Plus(head, k))] = slots[SlotOf(Plus(head, k))]
  <2>1. k \in 0 .. Capacity /\ k < pushed /\ pushed < k + Capacity
    BY <1>1, <1>3, Bounds
  <2>2. SlotOf(Plus(head, k)) # w /\ SlotOf(Plus(head, k)) \in Slots
    <3>1. SlotOf(Plus(head, k)) # w
      BY <1>1, <1>3, <2>1, SlotsDiffer
    <3>2. SlotOf(Plus(head, k)) \in Slots
      BY <1>1, <2>1, PlusSlot
    <3>. QED  BY <3>1, <3>2
  <2>. QED  BY <1>0, <1>2, <2>2, Zenon
<1>8. slots'[w] = pushIn[pushed + 1]
  BY <1>0, <1>2, <1>5, Zenon
<1>. QED  BY <1>6, <1>7, <1>8, Zenon DEF d

\* Between publishes the queue stays the same.
LEMMA ContentsKept ==
  ASSUME UNCHANGED <<head, tail, slots>>
  PROVE  Contents' = Contents
  BY Zenon DEF Contents, SizeApprox

\* Starting a push is invisible; refusing one happens when the queue is full.
LEMMA PushStartRefines ==
  ASSUME RingInv, Transit, NEW in \in Seq(Values), NEW n \in 1 .. Len(in),
         cachedTail' \in {cachedTail, tail}, UNCHANGED <<head, slots, consumerVars>>,
         \/ StartWrite(in, n)
         \/ RefusePush /\ Diff(head, tail) >= Capacity
  PROVE  Transit' /\ [Fifo!FifoNext]_(Fifo!fifoVars)
<1>0. UNCHANGED <<head, tail, slots, popPc, popLeft, popOut, delivered>>
  BY DEF consumerVars
<1>1. Contents' = Contents
  BY <1>0, ContentsKept
<1>2. CASE StartWrite(in, n)
  <2>1. /\ pushPc' = "write" /\ pushed' = 0 /\ UNCHANGED accepted /\ pushIn' = SubSeq(in, 1, n)
    BY <1>2 DEF StartWrite
  <2>2. Len(pushIn') = n
    BY <2>1, SubSeqProperties
  <2>3. Transit'
    BY <1>0, <2>1, <2>2 DEF Transit
  <2>4. UNCHANGED Fifo!fifoVars
    BY <1>0, <1>1, <2>1 DEF Fifo!fifoVars
  <2>. QED  BY <2>3, <2>4
<1>3. CASE RefusePush /\ Diff(head, tail) >= Capacity
  <2>1. accepted' = << >> /\ UNCHANGED <<pushPc, pushIn, pushed>>
    BY <1>3 DEF RefusePush
  <2>2. Transit'
    BY <1>0, <2>1 DEF Transit
  <2>3. Len(Contents) = Capacity
    BY <1>3, ContentsSeq, RingSizes, Bounds DEF SizeApprox
  <2>4. Fifo!PushRefused
    BY <1>0, <1>1, <2>1, <2>3 DEF Fifo!PushRefused
  <2>. QED  BY <2>2, <2>4 DEF Fifo!FifoNext
<1>. QED  BY <1>2, <1>3

\* try_push looks at the shared tail_ before it gives up.
LEMMA TryPushRefines ==
  ASSUME RingInv, Transit, NEW value \in Values, TryPush(value)
  PROVE  Transit' /\ [Fifo!FifoNext]_(Fifo!fifoVars)
<1>1. /\ cachedTail' \in {cachedTail, tail} /\ UNCHANGED <<head, slots, consumerVars>>
      /\ \/ StartWrite(<<value>>, 1)
         \/ RefusePush /\ Diff(head, tail) >= Capacity
  BY DEF TryPush
<1>2. <<value>> \in Seq(Values) /\ 1 \in 1 .. Len(<<value>>)
  OBVIOUS
<1>. QED  BY <1>1, <1>2, PushStartRefines, Zenon

\* So does try_push_bulk.
LEMMA TryPushBulkRefines ==
  ASSUME RingInv, Transit, NEW in \in InputBatches, TryPushBulk(in)
  PROVE  Transit' /\ [Fifo!FifoNext]_(Fifo!fifoVars)
<1>. DEFINE room == Capacity - Diff(head, cachedTail')
            n == SmallerOf(room, Len(in))
<1>1. in \in Seq(Values) /\ Len(in) \in Nat \ {0}
  BY BatchAssumption DEF InputBatches
<1>2. /\ cachedTail' = IF Capacity - Diff(head, cachedTail) < Len(in) THEN tail ELSE cachedTail
      /\ UNCHANGED <<head, slots, consumerVars>>
  BY DEF TryPushBulk
<1>3. room \in Nat
  BY <1>2, CachedTailInv, Bounds
<1>4. n \in 0 .. Len(in)
  BY <1>1, <1>3 DEF SmallerOf
<1>5. IF n = 0 THEN RefusePush ELSE StartWrite(in, n)
  BY DEF TryPushBulk
<1>6. CASE n # 0
  <2>1. n \in 1 .. Len(in) /\ StartWrite(in, n) /\ cachedTail' \in {cachedTail, tail}
    BY <1>1, <1>2, <1>4, <1>5, <1>6
  <2>. HIDE DEF n
  <2>. QED  BY <1>1, <1>2, <2>1, PushStartRefines
<1>7. CASE n = 0
  <2>1. room = 0
    BY <1>1, <1>3, <1>7 DEF SmallerOf
  <2>2. Diff(head, cachedTail) \in 0 .. Capacity /\ Diff(head, tail) \in 0 .. Capacity
    BY OrderFacts DEF RingInv, TypeOK, IndexOrder
  <2>3. Diff(head, tail) >= Capacity
    BY <1>1, <1>2, <2>1, <2>2, Bounds
  <2>4. 1 \in 1 .. Len(in) /\ cachedTail' \in {cachedTail, tail} /\ RefusePush
    BY <1>1, <1>2, <1>5, <1>7
  <2>. QED  BY <1>1, <1>2, <2>3, <2>4, PushStartRefines
<1>. QED  BY <1>6, <1>7

\* Writing a slot is invisible.
LEMMA WriteSlotRefines ==
  ASSUME RingInv, Transit, WriteSlot
  PROVE  Transit' /\ [Fifo!FifoNext]_(Fifo!fifoVars)
<1>1. /\ pushed' = pushed + 1
      /\ UNCHANGED <<head, tail, pushPc, pushIn, accepted, delivered, popPc, popLeft, popOut>>
  BY DEF WriteSlot, consumerVars
<1>2. /\ SizeApprox \in Nat /\ Len(popOut) \in Nat /\ pushed \in Nat
      /\ Len(popOut) <= SizeApprox
  BY RingSizes, Bounds
<1>3. Contents' = Contents
  <2>1. \A i \in 1 .. SizeApprox :
          slots'[SlotOf(Plus(tail, i - 1))] = slots[SlotOf(Plus(tail, i - 1))]
    <3>. SUFFICES ASSUME NEW i \in 1 .. SizeApprox
                  PROVE  slots'[SlotOf(Plus(tail, i - 1))] = slots[SlotOf(Plus(tail, i - 1))]
      OBVIOUS
    <3>1. i - 1 \in 0 .. SizeApprox - 1
      BY <1>2
    <3>. QED  BY <3>1, WriteElsewhere, Zenon
  <2>2. head' = head /\ tail' = tail
    BY <1>1
  <2>3. SizeApprox' = SizeApprox
    BY <2>2, Zenon DEF SizeApprox
  <2>. QED  BY <2>1, <2>2, <2>3, Zenon DEF Contents
<1>4. \A k \in 0 .. pushed' - 1 : slots'[SlotOf(Plus(head, k))] = pushIn[k + 1]
  <2>. SUFFICES ASSUME NEW k \in 0 .. pushed PROVE slots'[SlotOf(Plus(head, k))] = pushIn[k + 1]
    BY <1>1, <1>2
  <2>1. CASE k = pushed
    BY <2>1, WriteElsewhere, Zenon
  <2>2. CASE k # pushed
    <3>1. k \in 0 .. pushed - 1
      BY <1>2, <2>2
    <3>. QED  BY <3>1, WriteElsewhere, Zenon DEF Transit
  <2>. QED  BY <2>1, <2>2
<1>5. \A k \in 1 .. Len(popOut) : popOut[k] = slots'[SlotOf(Plus(tail, k - 1))]
  <2>. SUFFICES ASSUME NEW k \in 1 .. Len(popOut) PROVE popOut[k] = slots'[SlotOf(Plus(tail, k - 1))]
    OBVIOUS
  <2>1. k - 1 \in 0 .. SizeApprox - 1
    BY <1>2
  <2>. QED  BY <2>1, WriteElsewhere, Zenon DEF Transit
<1>6. Transit'
  BY <1>1, <1>4, <1>5 DEF Transit
<1>7. UNCHANGED Fifo!fifoVars
  BY <1>1, <1>3 DEF Fifo!fifoVars
<1>. QED  BY <1>6, <1>7

\* Publishing head_ appends the whole batch to the queue.
LEMMA PublishHeadRefines ==
  ASSUME RingInv, RingInv', Transit, PublishHead
  PROVE  Transit' /\ [Fifo!FifoNext]_(Fifo!fifoVars)
<1>. DEFINE d == SizeApprox
            n == Len(pushIn)
<1>1. /\ pushPc = "write" /\ pushed = n /\ head' = Plus(head, n)
      /\ accepted' = pushIn /\ pushPc' = "idle" /\ pushIn' = << >> /\ pushed' = 0
      /\ UNCHANGED <<slots, tail, delivered, popPc, popLeft, popOut>>
  BY DEF PublishHead, consumerVars
<1>2. /\ head \in Indices /\ tail \in Indices /\ d \in 0 .. Capacity /\ Plus(tail, d) = head
      /\ n \in Nat /\ d + n <= Capacity /\ d \in Nat
  BY RingSizes, Bounds
<1>3. n >= 1 /\ \A k \in 0 .. n - 1 : slots[SlotOf(Plus(head, k))] = pushIn[k + 1]
  BY <1>1 DEF Transit
<1>4. pushIn \in Seq(Values)
  BY DEF RingInv, TypeOK
<1>. HIDE DEF d, n
<1>5. SizeApprox' = d + n
  <2>1. /\ InOrder(cachedTail, tail, cachedHead, head) /\ cachedTail \in Indices /\ cachedHead \in Indices
        /\ Diff(head, cachedTail) + n <= Capacity
    BY DEF RingInv, TypeOK, IndexOrder, Reserved, n
  <2>2. Diff(Plus(head, n), tail) = Diff(head, tail) + n
    BY <1>2, <2>1, AdvanceHead
  <2>. QED  BY <1>1, <2>2 DEF SizeApprox, d
<1>6. /\ Contents \in Seq(Values \cup {Empty}) /\ Len(Contents) = d
      /\ \A i \in 1 .. d : Contents[i] = slots[SlotOf(Plus(tail, i - 1))]
  BY ContentsSeq, Zenon DEF d
<1>7. /\ Contents' \in Seq(Values \cup {Empty}) /\ Len(Contents') = d + n
      /\ \A i \in 1 .. d + n : Contents'[i] = slots[SlotOf(Plus(tail, i - 1))]
  <2>1. /\ Contents' \in Seq(Values \cup {Empty}) /\ Len(Contents') = SizeApprox'
        /\ \A i \in 1 .. SizeApprox' : Contents'[i] = slots'[SlotOf(Plus(tail', i - 1))]
    BY ContentsSeqPrimed, Zenon DEF ContentsShape
  <2>2. slots' = slots /\ tail' = tail
    BY <1>1
  <2>. QED  BY <1>5, <2>1, <2>2, Zenon
<1>8. Contents' = Contents \o pushIn
  <2>1. pushIn \in Seq(Values \cup {Empty}) /\ Len(pushIn) = n
    BY <1>4 DEF n
  <2>2. /\ Contents \o pushIn \in Seq(Values \cup {Empty}) /\ Len(Contents \o pushIn) = d + n
        /\ \A i \in 1 .. d + n : (Contents \o pushIn)[i] = IF i <= d THEN Contents[i] ELSE pushIn[i - d]
    BY <1>6, <2>1, ConcatProperties, Zenon
  <2>3. ASSUME NEW i \in 1 .. d + n PROVE Contents'[i] = (Contents \o pushIn)[i]
    <3>1. CASE i <= d
      <4>1. i \in 1 .. d
        BY <1>2, <3>1
      <4>. QED  BY <1>6, <1>7, <2>2, <3>1, <4>1, Zenon
    <3>2. CASE ~ (i <= d)
      <4>. DEFINE k == i - d - 1
      <4>1. k \in 0 .. n - 1 /\ k + 1 = i - d /\ d + k = i - 1
        BY <1>2, <3>2
      <4>2. Plus(head, k) = Plus(tail, d + k)
        <5>1. k \in 0 .. Capacity /\ d + k <= Capacity
          BY <1>2, <4>1, Bounds
        <5>. HIDE DEF k
        <5>. QED  BY <1>2, <5>1, PlusPlus
      <4>. HIDE DEF k
      <4>3. slots[SlotOf(Plus(tail, i - 1))] = pushIn[i - d]
        BY <1>3, <4>1, <4>2
      <4>. QED  BY <1>7, <2>2, <3>2, <4>3, Zenon
    <3>. QED  BY <3>1, <3>2, Zenon
  <2>. QED  BY <1>7, <2>2, <2>3, SeqEqual, Zenon
<1>9. pushIn \in Fifo!Batches
  <2>1. n \in 1 .. Capacity /\ pushIn \in [1 .. n -> Values]
    BY <1>2, <1>3, <1>4, Bounds DEF n
  <2>. QED  BY <2>1, Zenon DEF Fifo!Batches
<1>10. Fifo!Push(pushIn)
  BY <1>1, <1>2, <1>6, <1>8 DEF Fifo!Push, n
<1>11. Transit'
  <2>1. \A k \in 0 .. pushed' - 1 : slots'[SlotOf(Plus(head, k)')] = pushIn'[k + 1]
    BY <1>1
  <2>2. /\ popPc' = "read" => popLeft' + Len(popOut') >= 1
        /\ \A k \in 1 .. Len(popOut') : popOut'[k] = slots'[SlotOf(Plus(tail', k - 1))]
    BY <1>1 DEF Transit
  <2>. QED  BY <1>1, <2>1, <2>2 DEF Transit
<1>. QED  BY <1>9, <1>10, <1>11, Zenon DEF Fifo!FifoNext

\* Starting a pop is invisible; refusing one happens when the queue is empty.
LEMMA StartPopRefines ==
  ASSUME RingInv, Transit, NEW max \in Nat \ {0}, StartPop(max)
  PROVE  Transit' /\ [Fifo!FifoNext]_(Fifo!fifoVars)
<1>1. UNCHANGED <<head, tail, slots, pushPc, pushIn, pushed, accepted, popOut>> /\ popPc = "idle"
  BY DEF StartPop, producerVars
<1>2. Contents' = Contents
  BY <1>1, ContentsKept
<1>3. cachedHead' = IF tail = cachedHead THEN head ELSE cachedHead
  BY DEF StartPop
<1>4. CASE tail = cachedHead'
  <2>1. delivered' = << >> /\ UNCHANGED <<popPc, popLeft>>
    BY <1>4 DEF StartPop
  <2>2. head = tail
    BY <1>3, <1>4
  <2>3. SizeApprox = 0
    BY <2>2, RingSizes, PlusDiff DEF SizeApprox
  <2>4. Contents = << >>
    BY <2>3, ContentsSeq
  <2>5. Fifo!PopRefused
    BY <1>1, <1>2, <2>1, <2>4 DEF Fifo!PopRefused
  <2>6. Transit'
    BY <1>1, <2>1 DEF Transit
  <2>. QED  BY <2>5, <2>6 DEF Fifo!FifoNext
<1>5. CASE tail # cachedHead'
  <2>1. popPc' = "read" /\ popLeft' = SmallerOf(Diff(cachedHead', tail), max) /\ UNCHANGED delivered
    BY <1>5 DEF StartPop
  <2>2. cachedHead' \in Indices /\ tail \in Indices /\ Len(popOut) \in Nat
    BY <1>3 DEF RingInv, TypeOK
  <2>3. Diff(cachedHead', tail) \in Nat /\ Diff(cachedHead', tail) >= 1
    BY <1>5, <2>2, DiffApart
  <2>4. popLeft' \in Nat /\ popLeft' >= 1
    BY <2>1, <2>3 DEF SmallerOf
  <2>5. Transit'
    BY <1>1, <2>1, <2>2, <2>4 DEF Transit
  <2>6. UNCHANGED Fifo!fifoVars
    BY <1>1, <1>2, <2>1 DEF Fifo!fifoVars
  <2>. QED  BY <2>5, <2>6
<1>. QED  BY <1>4, <1>5

\* Copying an element out is invisible.
LEMMA ReadSlotRefines ==
  ASSUME RingInv, Transit, ReadSlot
  PROVE  Transit' /\ [Fifo!FifoNext]_(Fifo!fifoVars)
<1>1. /\ UNCHANGED <<head, tail, slots, pushPc, pushIn, pushed, accepted, delivered, popPc>>
      /\ popOut' = Append(popOut, slots[SlotOf(Plus(tail, Len(popOut)))]) /\ popLeft' = popLeft - 1
      /\ popPc = "read" /\ popLeft > 0
  BY DEF ReadSlot, producerVars
<1>2. Contents' = Contents
  BY <1>1, ContentsKept
<1>3. popLeft \in Nat /\ Len(popOut) \in Nat /\ popOut \in Seq(Values \cup {Empty})
  BY RingSizes DEF RingInv, TypeOK
<1>4. /\ Len(popOut') = Len(popOut) + 1
      /\ \A k \in 1 .. Len(popOut) : popOut'[k] = popOut[k]
      /\ popOut'[Len(popOut) + 1] = slots[SlotOf(Plus(tail, Len(popOut)))]
  <2>. DEFINE e == slots[SlotOf(Plus(tail, Len(popOut)))]
  <2>1. popOut' = Append(popOut, e)
    BY <1>1
  <2>. HIDE DEF e
  <2>2. /\ Len(popOut') = Len(popOut) + 1
        /\ \A k \in 1 .. Len(popOut) : popOut'[k] = popOut[k]
        /\ popOut'[Len(popOut) + 1] = e
    BY <1>3, <2>1
  <2>. QED  BY <2>2 DEF e
<1>5. \A k \in 1 .. Len(popOut') : popOut'[k] = slots[SlotOf(Plus(tail, k - 1))]
  <2>. SUFFICES ASSUME NEW k \in 1 .. Len(popOut) + 1
                PROVE  popOut'[k] = slots[SlotOf(Plus(tail, k - 1))]
    BY <1>4
  <2>1. CASE k \in 1 .. Len(popOut)
    BY <1>4, <2>1, Zenon DEF Transit
  <2>2. CASE k = Len(popOut) + 1
    <3>1. k - 1 = Len(popOut)
      BY <1>3, <2>2
    <3>. QED  BY <1>4, <2>2, <3>1, Zenon
  <2>. QED  BY <1>3, <2>1, <2>2
<1>6. Transit'
  BY <1>1, <1>3, <1>4, <1>5 DEF Transit
<1>7. UNCHANGED Fifo!fifoVars
  BY <1>1, <1>2 DEF Fifo!fifoVars
<1>. QED  BY <1>6, <1>7

\* Publishing tail_ takes the copied elements off the front of the queue.
LEMMA PublishTailRefines ==
  ASSUME RingInv, RingInv', Transit, PublishTail
  PROVE  Transit' /\ [Fifo!FifoNext]_(Fifo!fifoVars)
<1>. DEFINE d == SizeApprox
            n == Len(popOut)
<1>1. /\ popPc = "read" /\ popLeft = 0 /\ tail' = Plus(tail, n) /\ delivered' = popOut
      /\ popPc' = "idle" /\ popOut' = << >>
      /\ UNCHANGED <<popLeft, slots, head, pushPc, pushIn, pushed, accepted>>
  BY DEF PublishTail, producerVars
<1>2. /\ tail \in Indices /\ d \in 0 .. Capacity /\ n \in Nat /\ n <= d /\ d \in Nat
  BY <1>1, RingSizes, Bounds
<1>3. n >= 1 /\ \A k \in 1 .. n : popOut[k] = slots[SlotOf(Plus(tail, k - 1))]
  BY <1>1, <1>2 DEF Transit
<1>4. popOut \in Seq(Values \cup {Empty})
  BY DEF RingInv, TypeOK
<1>0. /\ InOrder(cachedTail, tail, cachedHead, head) /\ n <= Diff(cachedHead, tail)
      /\ {cachedTail, cachedHead, head} \subseteq Indices
  BY <1>1, <1>2, OrderFacts DEF RingInv, TypeOK, IndexOrder, Reserved
<1>. HIDE DEF d, n
<1>5. SizeApprox' = d - n
  <2>1. Diff(head, Plus(tail, n)) = Diff(head, tail) - n
    BY <1>0, <1>2, AdvanceTail
  <2>. QED  BY <1>1, <2>1 DEF SizeApprox, d
<1>6. /\ Contents \in Seq(Values \cup {Empty}) /\ Len(Contents) = d
      /\ \A i \in 1 .. d : Contents[i] = slots[SlotOf(Plus(tail, i - 1))]
  BY ContentsSeq, Zenon DEF d
<1>7. /\ Contents' \in Seq(Values \cup {Empty}) /\ Len(Contents') = d - n
      /\ \A i \in 1 .. d - n : Contents'[i] = slots[SlotOf(Plus(Plus(tail, n), i - 1))]
  <2>1. /\ Contents' \in Seq(Values \cup {Empty}) /\ Len(Contents') = SizeApprox'
        /\ \A i \in 1 .. SizeApprox' : Contents'[i] = slots'[SlotOf(Plus(tail', i - 1))]
    BY ContentsSeqPrimed, Zenon DEF ContentsShape
  <2>2. slots' = slots /\ tail' = Plus(tail, n)
    BY <1>1
  <2>. QED  BY <1>5, <2>1, <2>2, Zenon
<1>8. popOut = SubSeq(Contents, 1, n)
  <2>1. /\ SubSeq(Contents, 1, n) \in Seq(Values \cup {Empty}) /\ Len(SubSeq(Contents, 1, n)) = n
        /\ \A i \in 1 .. n : SubSeq(Contents, 1, n)[i] = Contents[i]
    BY <1>2, <1>6
  <2>2. \A i \in 1 .. n : i \in 1 .. d
    BY <1>2
  <2>3. \A i \in 1 .. n : popOut[i] = SubSeq(Contents, 1, n)[i]
    BY <1>3, <1>6, <2>1, <2>2, Zenon
  <2>. QED  BY <1>4, <2>1, <2>3, SeqEqual, Zenon DEF n
<1>9. Contents' = SubSeq(Contents, n + 1, Len(Contents))
  <2>. DEFINE rest == SubSeq(Contents, n + 1, d)
  <2>1. /\ rest \in Seq(Values \cup {Empty}) /\ Len(rest) = d - n
        /\ \A i \in 1 .. d - n : rest[i] = Contents[n + i]
    BY <1>2, <1>6
  <2>. HIDE DEF rest
  <2>2. ASSUME NEW i \in 1 .. d - n PROVE Contents'[i] = rest[i]
    <3>1. /\ i - 1 \in 0 .. Capacity /\ n \in 0 .. Capacity /\ n + (i - 1) <= Capacity
          /\ n + i \in 1 .. d /\ n + (i - 1) = (n + i) - 1
      BY <1>2, Bounds
    <3>2. Plus(Plus(tail, n), i - 1) = Plus(tail, n + (i - 1))
      BY <1>2, <3>1, PlusPlus, Zenon
    <3>3. Contents'[i] = slots[SlotOf(Plus(tail, n + (i - 1)))]
      BY <1>7, <3>2, Zenon
    <3>4. Contents[n + i] = slots[SlotOf(Plus(tail, n + (i - 1)))]
      BY <1>6, <3>1, Zenon
    <3>. QED  BY <2>1, <3>3, <3>4, Zenon
  <2>3. Contents' = rest
    BY <1>7, <2>1, <2>2, SeqEqual, Zenon
  <2>. QED  BY <1>6, <2>3, Zenon DEF rest
<1>10. n \in 1 .. Len(Contents) /\ n \in 1 .. Capacity
  BY <1>2, <1>3, <1>6, Bounds
<1>11. Fifo!Pop(n)
  BY <1>1, <1>8, <1>9, <1>10 DEF Fifo!Pop
<1>12. Transit'
  <2>1. \A k \in 1 .. Len(popOut') : popOut'[k] = slots'[SlotOf(Plus(tail', k - 1))]
    BY <1>1
  <2>2. /\ pushPc' = "write" => Len(pushIn') >= 1
        /\ \A k \in 0 .. pushed' - 1 : slots'[SlotOf(Plus(head', k))] = pushIn'[k + 1]
    BY <1>1 DEF Transit
  <2>. QED  BY <1>1, <2>1, <2>2 DEF Transit
<1>. QED  BY <1>10, <1>11, <1>12, Zenon DEF Fifo!FifoNext

\* An empty ring is an empty queue with nothing on its way.
LEMMA TransitInit == Init => Transit /\ Fifo!FifoInit
<1>. SUFFICES ASSUME Init PROVE Transit /\ Fifo!FifoInit
  OBVIOUS
<1>1. Transit
  BY DEF Init, Transit
<1>2. RingInv
  BY RingInvInit
<1>3. SizeApprox = 0
  BY <1>2, RingSizes, PlusDiff DEF Init, SizeApprox
<1>4. Contents = << >>
  BY <1>2, <1>3, ContentsSeq
<1>. QED  BY <1>1, <1>4 DEF Init, Fifo!FifoInit

\* Every step of the ring is a step of the queue or invisible.
LEMMA TransitNext ==
  RingInv /\ RingInv' /\ Transit /\ [Next]_vars => Transit' /\ [Fifo!FifoNext]_(Fifo!fifoVars)
<1>. SUFFICES ASSUME RingInv, RingInv', Transit, [Next]_vars
              PROVE  Transit' /\ [Fifo!FifoNext]_(Fifo!fifoVars)
  OBVIOUS
<1>1. CASE \E value \in Values : TryPush(value)
  BY <1>1, TryPushRefines
<1>2. CASE \E in \in InputBatches : TryPushBulk(in)
  BY <1>2, TryPushBulkRefines
<1>3. CASE WriteSlot
  BY <1>3, WriteSlotRefines
<1>4. CASE PublishHead
  BY <1>4, PublishHeadRefines
<1>5. CASE TryPop
  BY <1>5, StartPopRefines DEF TryPop
<1>6. CASE \E max \in 1 .. MaxBatch : TryPopBulk(max)
  <2>1. PICK max \in 1 .. MaxBatch : StartPop(max)
    BY <1>6 DEF TryPopBulk
  <2>2. max \in Nat \ {0}
    BY BatchAssumption
  <2>. QED  BY <2>1, <2>2, StartPopRefines
<1>7. CASE ReadSlot
  BY <1>7, ReadSlotRefines
<1>8. CASE PublishTail
  BY <1>8, PublishTailRefines
<1>9. CASE UNCHANGED vars
  <2>1. UNCHANGED <<head, tail, slots, pushPc, pushIn, pushed, popPc, popLeft, popOut, accepted, delivered>>
    BY <1>9 DEF vars, producerVars, consumerVars
  <2>2. Contents' = Contents
    BY <2>1, ContentsKept
  <2>3. UNCHANGED Fifo!fifoVars
    BY <2>1, <2>2 DEF Fifo!fifoVars
  <2>4. Transit'
    BY <2>1 DEF Transit
  <2>. QED  BY <2>3, <2>4
<1>. QED  BY <1>1, <1>2, <1>3, <1>4, <1>5, <1>6, <1>7, <1>8, <1>9, Zenon DEF Next, Producer, Consumer

\* For every capacity and every index width the ring is a bounded first-in
\* first-out queue: whatever the interleaving of the two threads and wherever
\* the indices wrap, nothing is lost, duplicated, reordered or read before it
\* was written, a push is refused only when the queue is full and a pop only
\* when it is empty (spsc_ring.hpp:49-103).
THEOREM RingImplementsFifo == Spec => RefinesBoundedFifo
BY RingInvInit, RingInvNext, TransitInit, TransitNext, PTL DEF Spec, RefinesBoundedFifo, Fifo!FifoSpec
=============================================================================
