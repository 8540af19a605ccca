----------------------- MODULE SnapshotPublisherProofs -----------------------
(***************************************************************************)
(* The snapshot buffers are safe for every number of buffers and readers:  *)
(* reference counts are exact, and what a handle points to is a whole      *)
(* snapshot that does not change and is no older than the one that was     *)
(* current when read() was called.  With two buffers more than readers     *)
(* the writer is never refused.                                            *)
(*                                                                         *)
(* The inductive invariant adds where the writer is (Progress), and that a *)
(* buffer some reader is about to pin either belongs to the writer or      *)
(* holds a whole snapshot (Reachable): the count read before the writer    *)
(* claims a buffer is stale, but then the exchange fails.  Fresh adds that *)
(* snapshots are numbered in the order they are written.  Crowd counts the *)
(* buffers a scan has passed over against the readers that can still make  *)
(* it pass over another.                                                   *)
(***************************************************************************)
EXTENDS SnapshotPublisher, NumberFacts, FiniteSetTheorems, TLAPS

Progress ==
  /\ wpc = "claim" => scan < N
  /\ (writing # NoSlot) <=> (wpc \in {"fill", "filling", "commit", "publish"})
  /\ writing # NoSlot => writing # current
  /\ wpc \in {"commit", "publish"} => content[writing] > 0
  /\ \A r \in Readers : rpc[r] \in {"current", "load", "cas"} => attempts[r] < MaxAttempts

Reachable ==
  /\ current # NoSlot => content[current] > 0
  /\ \A r \in Readers : rpc[r] \in {"load", "cas", "held"} => Owned(ridx[r]) \/ content[ridx[r]] > 0

PublisherInv == TypeOK /\ Progress /\ RefsExact /\ Reachable

\* The handles on a buffer can be counted.
LEMMA HoldersFinite ==
  ASSUME NEW i
  PROVE  IsFiniteSet(Holders(i)) /\ Cardinality(Holders(i)) \in Nat
<1>1. Holders(i) \subseteq Readers
  BY DEF Holders
<1>. QED  BY <1>1, ReadersAssumption, FS_Subset, FS_CardinalityType

\* Before the first commit the invariant holds.
LEMMA PublisherInvInit == Init => PublisherInv
<1>. SUFFICES ASSUME Init PROVE PublisherInv
  OBVIOUS
<1>1. TypeOK
  <2>1. refs \in [Slots -> Nat \cup {WriterOwned}] /\ content \in [Slots -> Nat \cup {Partial}]
    BY DEF Init, Empty
  <2>2. /\ writeHint \in Slots
        /\ scan \in 0 .. N
        /\ ridx \in [Readers -> Slots]
        /\ attempts \in [Readers -> 0 .. MaxAttempts]
    BY BuffersAssumption, AttemptsAssumption DEF Init, Slots
  <2>. QED  BY <2>1, <2>2, Zenon DEF Init, TypeOK
<1>2. Progress
  BY AttemptsAssumption DEF Init, Progress, NoSlot
<1>3. RefsExact
  <2>1. \A i \in Slots : Holders(i) = {}
    BY DEF Init, Holders
  <2>. QED  BY <2>1, FS_EmptySet DEF Init, RefsExact, Owned
<1>4. Reachable
  BY DEF Init, Reachable, NoSlot
<1>. QED  BY <1>1, <1>2, <1>3, <1>4 DEF PublisherInv

\* The slot begin_write() looks at.
LEMMA ScanSlot ==
  ASSUME TypeOK
  PROVE  (writeHint + scan) % N \in Slots
  BY BuffersAssumption DEF TypeOK, Slots

\* Steps that touch neither counts nor handles keep the counts exact.
LEMMA CountsKept ==
  ASSUME RefsExact, UNCHANGED <<refs, writing>>,
         \A i \in Slots : Owned(i)' <=> Owned(i),
         \A i \in Slots : Holders(i)' = Holders(i)
  PROVE  RefsExact'
  BY DEF RefsExact

\* A step that changes one count, and that one to the new number of handles,
\* keeps all counts exact.
LEMMA CountMoved ==
  ASSUME RefsExact, NEW i \in Slots, ~Owned(i),
         \A j \in Slots : Owned(j)' <=> Owned(j),
         \A j \in Slots : j # i => refs'[j] = refs[j] /\ Holders(j)' = Holders(j),
         refs'[i] = Cardinality(Holders(i)')
  PROVE  RefsExact'
  BY Zenon DEF RefsExact

\* A claim succeeds only on a buffer without handles.
LEMMA ClaimInv ==
  ASSUME PublisherInv, ClaimSlot
  PROVE  PublisherInv'
<1>. DEFINE i == (writeHint + scan) % N
<1>0. i \in Slots
  BY ScanSlot DEF PublisherInv
<1>1. /\ wpc = "claim" /\ wpc' = "fill" /\ writing' = i
      /\ i # current /\ refs[i] = 0
      /\ refs' = [refs EXCEPT ![i] = WriterOwned]
      /\ writeHint' = (i + 1) % N
      /\ UNCHANGED <<content, current, scan, filled, refused, readerVars>>
  BY DEF ClaimSlot, Claimable
<1>2. writing = NoSlot
  BY <1>1 DEF PublisherInv, Progress, TypeOK
<1>. HIDE DEF i
<1>3. TypeOK'
  <2>1. (i + 1) % N \in Slots
    BY <1>0, BuffersAssumption DEF Slots
  <2>. QED  BY <1>0, <1>1, <2>1 DEF PublisherInv, TypeOK, readerVars
<1>4. Progress'
  BY <1>0, <1>1, BuffersAssumption DEF PublisherInv, Progress, readerVars, NoSlot, Slots
<1>5. \A j \in Slots : Holders(j)' = Holders(j)
  BY <1>1 DEF Holders, readerVars
<1>6. \A j \in Slots : /\ ~Owned(j)
                       /\ Owned(j)' <=> j = i
  BY <1>0, <1>1, <1>2, BuffersAssumption DEF Owned, NoSlot, Slots
<1>7. Holders(i) = {}
  <2>1. Cardinality(Holders(i)) = 0
    BY <1>0, <1>1, <1>6 DEF PublisherInv, RefsExact
  <2>. QED  BY <2>1, HoldersFinite, FS_EmptySet
<1>8. RefsExact'
  BY <1>0, <1>1, <1>5, <1>6, <1>7 DEF PublisherInv, RefsExact, TypeOK
<1>9. Reachable'
  BY <1>1, <1>6 DEF PublisherInv, Reachable, TypeOK, readerVars
<1>. QED  BY <1>3, <1>4, <1>8, <1>9 DEF PublisherInv

\* begin_write() passing over a buffer in use preserves the invariant.
LEMMA SkipInv ==
  ASSUME PublisherInv, BeginWrite \/ SkipSlot
  PROVE  PublisherInv'
<1>0. refused' \in BOOLEAN
  <2>1. CASE BeginWrite
    BY <2>1 DEF BeginWrite, PublisherInv, TypeOK
  <2>2. CASE SkipSlot
    BY <2>2, Zenon DEF SkipSlot
  <2>. QED  BY <2>1, <2>2
<1>1. /\ wpc \in {"idle", "claim"} /\ wpc' \in {"idle", "claim"}
      /\ UNCHANGED <<refs, content, current, writing, writeHint, filled, readerVars>>
      /\ scan' \in 0 .. N
      /\ wpc' = "claim" => scan' < N
  <2>1. CASE BeginWrite
    BY <2>1, BuffersAssumption DEF BeginWrite
  <2>2. CASE SkipSlot
    BY <2>2, BuffersAssumption DEF SkipSlot, PublisherInv, Progress, TypeOK
  <2>. QED  BY <2>1, <2>2
<1>2. TypeOK' /\ Progress'
  BY <1>0, <1>1 DEF PublisherInv, TypeOK, Progress, readerVars
<1>3. \A i \in Slots : (Owned(i)' <=> Owned(i)) /\ Holders(i)' = Holders(i)
  BY <1>1 DEF Owned, Holders, readerVars
<1>4. RefsExact'
  BY <1>1, <1>3, CountsKept DEF PublisherInv
<1>5. Reachable'
  BY <1>1, <1>3 DEF PublisherInv, Reachable, TypeOK, readerVars
<1>. QED  BY <1>2, <1>4, <1>5 DEF PublisherInv

\* While the writer fills a buffer nobody has a handle on it.
LEMMA FillInv ==
  ASSUME PublisherInv, StartFill \/ FinishFill
  PROVE  PublisherInv'
<1>1. /\ wpc \in {"fill", "filling"} /\ wpc' \in {"filling", "commit"}
      /\ content' = [content EXCEPT ![writing] = content'[writing]]
      /\ content'[writing] \in Nat \cup {Partial}
      /\ wpc' = "commit" => content'[writing] > 0
      /\ filled' \in Nat
      /\ UNCHANGED <<refs, current, writing, writeHint, scan, refused, readerVars>>
  BY DEF StartFill, FinishFill, PublisherInv, Progress, TypeOK
<1>2. writing \in Slots /\ writing # current
  BY <1>1 DEF PublisherInv, Progress, TypeOK
<1>3. TypeOK'
  BY <1>1, <1>2 DEF PublisherInv, TypeOK, readerVars
<1>4. Progress'
  BY <1>1, <1>2 DEF PublisherInv, Progress, readerVars
<1>5. \A i \in Slots : /\ Owned(i)' <=> Owned(i)
                       /\ Owned(i) <=> i = writing
                       /\ Holders(i)' = Holders(i)
  BY <1>1 DEF Owned, Holders, readerVars
<1>6. RefsExact'
  BY <1>1, <1>5, CountsKept DEF PublisherInv
<1>7. Reachable'
  BY <1>1, <1>2, <1>5 DEF PublisherInv, Reachable, TypeOK, readerVars
<1>. QED  BY <1>3, <1>4, <1>6, <1>7 DEF PublisherInv

\* commit() giving the buffer up preserves the invariant.
LEMMA CommitRefsInv ==
  ASSUME PublisherInv, CommitRefs
  PROVE  PublisherInv'
<1>1. /\ wpc = "commit" /\ wpc' = "publish"
      /\ refs' = [refs EXCEPT ![writing] = 0]
      /\ UNCHANGED <<content, current, writing, writeHint, scan, filled, refused, readerVars>>
  BY DEF CommitRefs
<1>2. writing \in Slots /\ content[writing] > 0
  BY <1>1 DEF PublisherInv, Progress, TypeOK
<1>3. TypeOK'
  BY <1>1, <1>2 DEF PublisherInv, TypeOK, readerVars
<1>4. Progress'
  BY <1>1, <1>2 DEF PublisherInv, Progress, readerVars
<1>5. \A i \in Slots : /\ ~Owned(i)'
                       /\ Owned(i) <=> i = writing
                       /\ Holders(i)' = Holders(i)
  BY <1>1 DEF Owned, Holders, readerVars
<1>6. RefsExact'
  BY <1>1, <1>2, <1>5, FS_EmptySet, Zenon DEF PublisherInv, RefsExact, TypeOK
<1>7. Reachable'
  BY <1>1, <1>2, <1>5 DEF PublisherInv, Reachable, TypeOK, readerVars
<1>. QED  BY <1>3, <1>4, <1>6, <1>7 DEF PublisherInv

\* commit() publishing the buffer preserves the invariant.
LEMMA CommitCurrentInv ==
  ASSUME PublisherInv, CommitCurrent
  PROVE  PublisherInv'
<1>1. /\ wpc = "publish" /\ wpc' = "idle"
      /\ current' = writing /\ writing' = NoSlot
      /\ UNCHANGED <<refs, content, writeHint, scan, filled, refused, readerVars>>
  BY DEF CommitCurrent
<1>2. writing \in Slots /\ content[writing] > 0
  BY <1>1 DEF PublisherInv, Progress, TypeOK
<1>3. TypeOK'
  BY <1>1, <1>2 DEF PublisherInv, TypeOK, readerVars
<1>4. Progress'
  BY <1>1, <1>2 DEF PublisherInv, Progress, readerVars
<1>5. \A i \in Slots : ~Owned(i)' /\ ~Owned(i) /\ Holders(i)' = Holders(i)
  BY <1>1 DEF Owned, Holders, readerVars
<1>6. RefsExact'
  BY <1>1, <1>5 DEF PublisherInv, RefsExact
<1>7. Reachable'
  BY <1>1, <1>2, <1>5 DEF PublisherInv, Reachable, TypeOK, readerVars
<1>. QED  BY <1>3, <1>4, <1>6, <1>7 DEF PublisherInv

\* The steps of read() before it pins a buffer, and its failures.
LEMMA ReadInv ==
  ASSUME PublisherInv, NEW r \in Readers,
         StartRead(r) \/ LoadCurrent(r) \/ LoadRefs(r) \/ PinRetry(r) \/ AttemptFails(r)
  PROVE  PublisherInv'
<1>1. /\ UNCHANGED <<refs, content, current, writerVars>>
      /\ rpc[r] # "held"
      /\ rpc' = [rpc EXCEPT ![r] = rpc'[r]]
      /\ rpc'[r] \in {"idle", "current", "load", "cas"}
      /\ ridx' = [ridx EXCEPT ![r] = ridx'[r]]
      /\ ridx'[r] \in Slots
      /\ seen' = [seen EXCEPT ![r] = seen'[r]]
      /\ seen'[r] \in Nat \cup {WriterOwned}
      /\ attempts' = [attempts EXCEPT ![r] = attempts'[r]]
      /\ attempts'[r] \in 0 .. MaxAttempts
      /\ rpc'[r] # "idle" => attempts'[r] < MaxAttempts
      /\ floor' = [floor EXCEPT ![r] = floor'[r]]
      /\ floor'[r] \in Nat \cup {Partial}
      /\ rpc'[r] \in {"load", "cas"} => Owned(ridx'[r]) \/ content[ridx'[r]] > 0
  <2>1. CASE StartRead(r)
    <3>1. Published \in Nat \cup {Partial}
      BY DEF PublisherInv, TypeOK, Published
    <3>. QED  BY <2>1, <3>1, AttemptsAssumption DEF StartRead, PublisherInv, TypeOK
  <2>2. CASE LoadCurrent(r)
    BY <2>2 DEF LoadCurrent, PublisherInv, TypeOK, Progress, Reachable
  <2>3. CASE LoadRefs(r)
    BY <2>3 DEF LoadRefs, PublisherInv, TypeOK, Progress, Reachable
  <2>4. CASE PinRetry(r)
    BY <2>4 DEF PinRetry, PublisherInv, TypeOK, Progress, Reachable
  <2>5. CASE AttemptFails(r)
    BY <2>5, AttemptsAssumption DEF AttemptFails, PublisherInv, TypeOK, Progress
  <2>. QED  BY <2>1, <2>2, <2>3, <2>4, <2>5, Zenon
<1>2. TypeOK'
  BY <1>1 DEF PublisherInv, TypeOK, writerVars
<1>3. Progress'
  BY <1>1 DEF PublisherInv, TypeOK, Progress, writerVars
<1>4. \A i \in Slots : (Owned(i)' <=> Owned(i)) /\ Holders(i)' = Holders(i)
  BY <1>1 DEF Owned, Holders, writerVars, PublisherInv, TypeOK
<1>5. RefsExact'
  BY <1>1, <1>4, CountsKept, Zenon DEF PublisherInv, writerVars
<1>6. Reachable'
  BY <1>1, <1>4 DEF PublisherInv, TypeOK, Reachable, writerVars
<1>. QED  BY <1>2, <1>3, <1>5, <1>6 DEF PublisherInv

\* A pin that succeeds found no writer and adds one to the count.
LEMMA PinInv ==
  ASSUME PublisherInv, NEW r \in Readers, Pin(r)
  PROVE  PublisherInv'
<1>0. PICK i \in Slots : i = ridx[r]
  BY DEF PublisherInv, TypeOK
<1>1. /\ rpc[r] = "cas"
      /\ refs[i] # WriterOwned
      /\ refs' = [refs EXCEPT ![i] = refs[i] + 1]
      /\ rpc' = [rpc EXCEPT ![r] = "held"]
      /\ UNCHANGED <<content, current, writerVars, ridx, seen, attempts, floor>>
  BY <1>0 DEF Pin, PublisherInv, TypeOK
<1>2. \A j \in Slots : Owned(j)' <=> Owned(j)
  BY <1>1 DEF Owned, writerVars
<1>3. ~Owned(i) /\ refs[i] = Cardinality(Holders(i))
  BY <1>1 DEF PublisherInv, RefsExact
<1>4. /\ Holders(i)' = Holders(i) \cup {r}
      /\ r \notin Holders(i)
      /\ \A j \in Slots : j # i => Holders(j)' = Holders(j)
  BY <1>0, <1>1 DEF Holders, PublisherInv, TypeOK
<1>5. Cardinality(Holders(i) \cup {r}) = Cardinality(Holders(i)) + 1
  BY <1>4, HoldersFinite, FS_AddElement, Zenon
<1>6. TypeOK'
  <2>1. refs[i] \in Nat
    BY <1>3, HoldersFinite
  <2>. QED  BY <1>1, <2>1 DEF PublisherInv, TypeOK, writerVars
<1>7. Progress'
  BY <1>1 DEF PublisherInv, TypeOK, Progress, writerVars
<1>8. RefsExact'
  <2>1. refs'[i] = refs[i] + 1 /\ \A j \in Slots : j # i => refs'[j] = refs[j]
    BY <1>1 DEF PublisherInv, TypeOK
  <2>2. refs'[i] = Cardinality(Holders(i)')
    BY <1>3, <1>4, <1>5, <2>1
  <2>. QED  BY <1>2, <1>3, <1>4, <2>1, <2>2, CountMoved DEF PublisherInv
<1>9. Reachable'
  BY <1>1, <1>2 DEF PublisherInv, TypeOK, Reachable
<1>. QED  BY <1>6, <1>7, <1>8, <1>9 DEF PublisherInv

\* Dropping a handle takes one off the count.
LEMMA ReleaseInv ==
  ASSUME PublisherInv, NEW r \in Readers, Release(r)
  PROVE  PublisherInv'
<1>0. PICK i \in Slots : i = ridx[r]
  BY DEF PublisherInv, TypeOK
<1>1. /\ rpc[r] = "held"
      /\ refs' = [refs EXCEPT ![i] = refs[i] - 1]
      /\ rpc' = [rpc EXCEPT ![r] = "idle"]
      /\ UNCHANGED <<content, current, writerVars, ridx, seen, attempts, floor>>
  BY <1>0 DEF Release, PublisherInv, TypeOK
<1>2. \A j \in Slots : Owned(j)' <=> Owned(j)
  BY <1>1 DEF Owned, writerVars
<1>3. r \in Holders(i)
  BY <1>0, <1>1 DEF Holders
<1>4. ~Owned(i) /\ refs[i] = Cardinality(Holders(i))
  BY <1>1, <1>3 DEF PublisherInv, RefsExact
<1>5. /\ Holders(i)' = Holders(i) \ {r}
      /\ \A j \in Slots : j # i => Holders(j)' = Holders(j)
  BY <1>0, <1>1 DEF Holders, PublisherInv, TypeOK
<1>6. Cardinality(Holders(i) \ {r}) = Cardinality(Holders(i)) - 1
  BY <1>3, HoldersFinite, FS_RemoveElement
<1>7. TypeOK'
  <2>1. refs[i] - 1 \in Nat
    <3>1. Cardinality(Holders(i) \ {r}) \in Nat
      BY HoldersFinite, FS_RemoveElement, FS_CardinalityType, Zenon
    <3>. QED  BY <1>4, <1>6, <3>1
  <2>. QED  BY <1>1, <2>1 DEF PublisherInv, TypeOK, writerVars
<1>8. Progress'
  BY <1>1 DEF PublisherInv, TypeOK, Progress, writerVars
<1>9. RefsExact'
  <2>1. refs'[i] = refs[i] - 1 /\ \A j \in Slots : j # i => refs'[j] = refs[j]
    BY <1>1 DEF PublisherInv, TypeOK
  <2>2. refs'[i] = Cardinality(Holders(i)')
    BY <1>4, <1>5, <1>6, <2>1
  <2>. QED  BY <1>2, <1>4, <1>5, <2>1, <2>2, CountMoved, Zenon DEF PublisherInv
<1>10. Reachable'
  BY <1>1, <1>2 DEF PublisherInv, TypeOK, Reachable
<1>. QED  BY <1>7, <1>8, <1>9, <1>10 DEF PublisherInv

\* Every step of the writer or a reader preserves the invariant.
LEMMA PublisherInvNext == PublisherInv /\ [Next]_vars => PublisherInv'
<1>. SUFFICES ASSUME PublisherInv, [Next]_vars PROVE PublisherInv'
  OBVIOUS
<1>1. CASE Writer
  BY <1>1, ClaimInv, SkipInv, FillInv, CommitRefsInv, CommitCurrentInv DEF Writer
<1>2. ASSUME NEW r \in Readers, Reader(r) PROVE PublisherInv'
  BY <1>2, ReadInv, PinInv, ReleaseInv DEF Reader
<1>3. CASE UNCHANGED vars
  <2>. USE <1>3 DEF vars, writerVars, readerVars, PublisherInv
  <2>1. TypeOK'
    BY DEF TypeOK
  <2>2. Progress'
    BY Zenon DEF Progress
  <2>3. RefsExact'
    BY DEF RefsExact, Owned, Holders
  <2>4. Reachable'
    BY DEF Reachable, Owned
  <2>. QED  BY <2>1, <2>2, <2>3, <2>4
<1>. QED  BY <1>1, <1>2, <1>3 DEF Next

\* The invariant says that handles see whole snapshots.
LEMMA InvHandlesWhole == PublisherInv => HandlesWhole /\ CurrentWhole
<1>. SUFFICES ASSUME PublisherInv PROVE HandlesWhole /\ CurrentWhole
  OBVIOUS
<1>1. HandlesWhole
  <2>. SUFFICES ASSUME NEW r \in Readers, rpc[r] = "held" PROVE content[ridx[r]] > 0
    BY DEF HandlesWhole
  <2>1. r \in Holders(ridx[r]) /\ ridx[r] \in Slots
    BY DEF Holders, PublisherInv, TypeOK
  <2>2. ~Owned(ridx[r])
    BY <2>1 DEF PublisherInv, RefsExact
  <2>. QED  BY <2>2 DEF PublisherInv, Reachable
<1>2. CurrentWhole
  <2>. SUFFICES ASSUME current # NoSlot PROVE content[current] > 0 /\ refs[current] # WriterOwned
    BY DEF CurrentWhole
  <2>1. current \in Slots /\ ~Owned(current)
    BY DEF PublisherInv, TypeOK, Progress, Owned
  <2>2. refs[current] \in Nat
    BY <2>1, HoldersFinite DEF PublisherInv, RefsExact
  <2>. QED  BY <2>1, <2>2 DEF PublisherInv, Reachable, WriterOwned
<1>. QED  BY <1>1, <1>2

\* For any number of buffers and readers: reference counts are exact.
THEOREM PublisherRefsExact == Spec => [](TypeOK /\ RefsExact)
<1>1. PublisherInv => TypeOK /\ RefsExact
  BY DEF PublisherInv
<1>. QED  BY PublisherInvInit, PublisherInvNext, <1>1, PTL DEF Spec

\* For any number of buffers and readers: a handle is on a whole snapshot, and
\* the published buffer is whole and can be pinned.
THEOREM PublisherHandlesWhole == Spec => [](HandlesWhole /\ CurrentWhole)
  BY PublisherInvInit, PublisherInvNext, InvHandlesWhole, PTL DEF Spec

\* For any number of buffers and readers: no buffer changes under a handle.
THEOREM PublisherHandlesStable == Spec => HandlesStable
<1>. DEFINE Step == \A r \in Readers : rpc[r] = "held" => content'[ridx[r]] = content[ridx[r]]
<1>1. PublisherInv /\ [Next]_vars => [Step]_vars
  <2>. SUFFICES ASSUME PublisherInv, Next, NEW r \in Readers, rpc[r] = "held"
                PROVE  content'[ridx[r]] = content[ridx[r]]
    OBVIOUS
  <2>1. r \in Holders(ridx[r]) /\ ridx[r] \in Slots
    BY DEF Holders, PublisherInv, TypeOK
  <2>2. ~Owned(ridx[r])
    BY <2>1 DEF PublisherInv, RefsExact
  <2>3. CASE StartFill \/ FinishFill
    <3>1. Owned(writing)
      BY <2>3 DEF StartFill, FinishFill, Owned
    <3>2. ridx[r] # writing
      BY <2>2, <3>1
    <3>. QED  BY <2>1, <2>3, <3>2 DEF StartFill, FinishFill, PublisherInv, TypeOK
  <2>4. CASE UNCHANGED content
    BY <2>4
  <2>. QED
    BY <2>3, <2>4, Zenon DEF Next, Writer, Reader, BeginWrite, ClaimSlot, SkipSlot, CommitRefs, CommitCurrent,
       StartRead, LoadCurrent, LoadRefs, Pin, PinRetry, AttemptFails, Release
<1>. QED  BY PublisherInvInit, PublisherInvNext, <1>1, PTL DEF Spec, HandlesStable

-----------------------------------------------------------------------------
(* Fresh snapshots *)

\* Snapshots are numbered in the order they are written, so a reader is never
\* behind what was published when it started: not even when the buffer it is
\* about to pin is the writer's, which will leave a newer snapshot there.
Fresh ==
  /\ \A i \in Slots : content[i] <= filled
  /\ wpc \in {"commit", "publish"} => content[writing] = filled
  /\ \A r \in Readers : rpc[r] # "idle" => floor[r] <= Published
  /\ \A r \in Readers : rpc[r] \in {"load", "cas", "held"} =>
       Owned(ridx[r]) \/ content[ridx[r]] >= floor[r]

\* What is published is a snapshot written so far.
LEMMA PublishedRange ==
  ASSUME PublisherInv, Fresh
  PROVE  Published \in 0 .. filled /\ filled \in Nat
<1>1. content \in [Slots -> Nat \cup {Partial}] /\ filled \in Nat /\ current \in Slots \cup {NoSlot}
  BY DEF PublisherInv, TypeOK
<1>2. CASE current = NoSlot
  BY <1>1, <1>2 DEF Published
<1>3. CASE current # NoSlot
  <2>1. current \in Slots /\ content[current] > 0 /\ content[current] <= filled
    BY <1>1, <1>3 DEF PublisherInv, Reachable, Fresh
  <2>2. content[current] \in Nat
    BY <1>1, <2>1 DEF Partial
  <2>. QED  BY <1>1, <1>3, <2>1, <2>2 DEF Published
<1>. QED  BY <1>2, <1>3

\* The steps of the writer keep it so.
LEMMA WriterFresh ==
  ASSUME PublisherInv, Fresh, Writer
  PROVE  Fresh'
<1>0. /\ UNCHANGED <<rpc, ridx, floor>>
      /\ content \in [Slots -> Nat \cup {Partial}] /\ filled \in Nat
      /\ ridx \in [Readers -> Slots] /\ floor \in [Readers -> Nat \cup {Partial}]
      /\ current \in Slots \cup {NoSlot}
  BY Zenon DEF Writer, BeginWrite, ClaimSlot, SkipSlot, StartFill, FinishFill, CommitRefs, CommitCurrent,
     readerVars, PublisherInv, TypeOK
<1>1. CASE BeginWrite \/ ClaimSlot \/ SkipSlot
  <2>1. /\ UNCHANGED <<content, current, filled>>
        /\ wpc \in {"idle", "claim"} /\ wpc' \in {"idle", "claim", "fill"}
    BY <1>1 DEF BeginWrite, ClaimSlot, SkipSlot
  <2>2. \A i \in Slots : ~Owned(i)
    BY <2>1 DEF Owned
  <2>. QED  BY <1>0, <2>1, <2>2 DEF Fresh, Published
<1>2. CASE StartFill \/ FinishFill
  <2>1. /\ wpc \in {"fill", "filling"} /\ wpc' \in {"filling", "commit"}
        /\ UNCHANGED <<current, writing>>
        /\ filled' \in Nat /\ filled' >= filled
        /\ content' = [content EXCEPT ![writing] = content'[writing]]
        /\ content'[writing] <= filled'
        /\ wpc' = "commit" => content'[writing] = filled'
    BY <1>0, <1>2 DEF StartFill, FinishFill, PublisherInv, Progress, TypeOK, Partial
  <2>2. writing \in Slots /\ writing # current
    BY <2>1 DEF PublisherInv, Progress, TypeOK
  <2>3. \A i \in Slots : i # writing => content'[i] = content[i]
    BY <1>0, <2>1, <2>2
  <2>4. \A i \in Slots : Owned(i)' <=> i = writing
    BY <2>1 DEF Owned
  <2>5. \A i \in Slots : Owned(i) <=> i = writing
    BY <2>1 DEF Owned
  <2>6. Published' = Published
    BY <1>0, <2>1, <2>2, <2>3 DEF Published
  <2>7. \A i \in Slots : content'[i] <= filled'
    BY <1>0, <2>1, <2>3, Z3 DEF Fresh, Partial
  <2>8. ASSUME NEW r \in Readers, rpc'[r] \in {"load", "cas", "held"}
        PROVE  Owned(ridx[r])' \/ content'[ridx'[r]] >= floor'[r]
    BY <1>0, <2>3, <2>4, <2>5, <2>8 DEF Fresh
  <2>. QED  BY <1>0, <2>1, <2>6, <2>7, <2>8 DEF Fresh
<1>3. CASE CommitRefs
  <2>1. /\ wpc = "commit" /\ wpc' = "publish"
        /\ UNCHANGED <<content, current, writing, filled>>
    BY <1>3 DEF CommitRefs
  <2>2. content[writing] = filled /\ Published \in 0 .. filled
    BY <2>1, PublishedRange DEF Fresh
  <2>3. ASSUME NEW r \in Readers, rpc[r] \in {"load", "cas", "held"}
        PROVE  content[ridx[r]] >= floor[r]
    <3>1. CASE ridx[r] = writing
      BY <1>0, <2>2, <2>3, <3>1 DEF Fresh, Partial
    <3>2. CASE ridx[r] # writing
      BY <2>3, <3>2 DEF Fresh, Owned
    <3>. QED  BY <3>1, <3>2
  <2>4. Published' = Published
    BY <2>1 DEF Published
  <2>. QED  BY <1>0, <2>1, <2>3, <2>4 DEF Fresh
<1>4. CASE CommitCurrent
  <2>1. /\ wpc = "publish" /\ wpc' = "idle" /\ current' = writing
        /\ UNCHANGED <<content, filled>>
    BY <1>4 DEF CommitCurrent
  <2>2. writing \in Slots /\ writing # NoSlot /\ content[writing] = filled
    BY <2>1 DEF PublisherInv, Progress, TypeOK, Fresh
  <2>3. Published' = filled /\ Published \in 0 .. filled
    BY <2>1, <2>2, PublishedRange DEF Published
  <2>4. \A r \in Readers : rpc[r] # "idle" => floor[r] <= filled
    BY <1>0, <2>3 DEF Fresh, Partial
  <2>5. \A i \in Slots : ~Owned(i)
    BY <2>1 DEF Owned
  <2>. QED  BY <1>0, <2>1, <2>3, <2>4, <2>5 DEF Fresh
<1>. QED  BY <1>1, <1>2, <1>3, <1>4 DEF Writer

\* So do those of a reader.
LEMMA ReaderFresh ==
  ASSUME PublisherInv, Fresh, NEW r \in Readers, Reader(r)
  PROVE  Fresh'
<1>1. UNCHANGED <<content, current, writerVars>>
  BY Zenon DEF Reader, StartRead, LoadCurrent, LoadRefs, Pin, PinRetry, AttemptFails, Release
<1>2. UNCHANGED <<wpc, writing, filled>> /\ Published' = Published /\ \A i : Owned(i)' <=> Owned(i)
  BY <1>1 DEF writerVars, Published, Owned
<1>3. /\ \A q \in Readers : q # r => rpc'[q] = rpc[q] /\ ridx'[q] = ridx[q] /\ floor'[q] = floor[q]
      /\ rpc'[r] # "idle" => floor'[r] <= Published
      /\ rpc'[r] \in {"load", "cas", "held"} => Owned(ridx'[r]) \/ content[ridx'[r]] >= floor'[r]
  <2>0. /\ rpc \in [Readers -> {"idle", "current", "load", "cas", "held"}]
        /\ ridx \in [Readers -> Slots] /\ floor \in [Readers -> Nat \cup {Partial}]
        /\ Published \in 0 .. filled /\ filled \in Nat
    BY PublishedRange DEF PublisherInv, TypeOK
  <2>1. CASE StartRead(r)
    BY <2>0, <2>1 DEF StartRead
  <2>2. CASE LoadCurrent(r)
    BY <2>0, <2>2 DEF LoadCurrent, Fresh, Published
  <2>3. CASE LoadRefs(r) \/ Pin(r) \/ PinRetry(r)
    BY <2>0, <2>3 DEF LoadRefs, Pin, PinRetry, Fresh
  <2>4. CASE AttemptFails(r) \/ Release(r)
    BY <2>0, <2>4 DEF AttemptFails, Release, Fresh
  <2>. QED  BY <2>1, <2>2, <2>3, <2>4, Zenon DEF Reader
<1>. QED  BY <1>1, <1>2, <1>3 DEF Fresh

\* For any number of buffers and readers: read() never returns a snapshot
\* older than the one that was current when it was called.
THEOREM PublisherHandlesFresh == Spec => []HandlesFresh
<1>1. Init => Fresh
  BY DEF Init, Fresh, Empty, Published
<1>2. PublisherInv /\ Fresh /\ [Next]_vars => Fresh'
  <2>. SUFFICES ASSUME PublisherInv, Fresh, UNCHANGED vars PROVE Fresh'
    BY WriterFresh, ReaderFresh DEF Next
  <2>. QED  BY Zenon DEF vars, writerVars, readerVars, Fresh, Owned, Published
<1>3. PublisherInv /\ Fresh => HandlesFresh
  <2>. SUFFICES ASSUME PublisherInv, Fresh, NEW r \in Readers, rpc[r] = "held"
                PROVE  content[ridx[r]] >= floor[r]
    BY DEF HandlesFresh
  <2>1. r \in Holders(ridx[r]) /\ ridx[r] \in Slots
    BY DEF Holders, PublisherInv, TypeOK
  <2>2. ~Owned(ridx[r])
    BY <2>1, Zenon DEF PublisherInv, RefsExact
  <2>. QED  BY <2>2 DEF Fresh
<1>. QED  BY PublisherInvInit, PublisherInvNext, <1>1, <1>2, <1>3, PTL DEF Spec

-----------------------------------------------------------------------------
(* A free buffer *)

\* The buffers begin_write() passed over in this scan, the published one apart,
\* and the readers that may still make it pass over another.  A reader makes it
\* pass over one buffer at most: when it comes back it can only pin the
\* published one, which stays the same during a scan.
Passed == {(writeHint + k) % N : k \in 0 .. scan - 1} \ {current}
Unmet == {r \in Readers : ridx[r] \notin Passed \cup {current}}

Crowd == wpc = "claim" => Cardinality(Passed) + Cardinality(Unmet) <= Cardinality(Readers)

\* The scan looks at each buffer once.
LEMMA ScanFresh ==
  ASSUME TypeOK, scan < N
  PROVE  (writeHint + scan) % N \notin {(writeHint + k) % N : k \in 0 .. scan - 1}
<1>. SUFFICES ASSUME NEW k \in 0 .. scan - 1 PROVE (writeHint + k) % N # (writeHint + scan) % N
  BY Zenon
<1>1. /\ writeHint + k \in Nat /\ writeHint + scan \in Nat /\ N \in Nat /\ N > 0
      /\ writeHint + k < writeHint + scan /\ writeHint + scan < writeHint + k + N
  BY BuffersAssumption DEF TypeOK, Slots
<1>. QED  BY <1>1, RemaindersDiffer, Zenon

\* After N buffers it has looked at all.
LEMMA ScanAll ==
  ASSUME TypeOK, NEW i \in Slots
  PROVE  \E k \in 0 .. N - 1 : (writeHint + k) % N = i
<1>0. N \in Nat /\ N > 0 /\ writeHint \in 0 .. N - 1 /\ i \in 0 .. N - 1
  BY BuffersAssumption DEF TypeOK, Slots
<1>1. CASE i >= writeHint
  <2>1. writeHint + (i - writeHint) = N * 0 + i /\ i - writeHint \in 0 .. N - 1 /\ 0 \in Nat
        /\ writeHint + (i - writeHint) \in Nat
    BY <1>0, <1>1
  <2>2. (writeHint + (i - writeHint)) % N = i
    BY <1>0, <2>1, RemainderUnique, Zenon
  <2>. QED  BY <2>1, <2>2, Zenon
<1>2. CASE i < writeHint
  <2>1. writeHint + (i - writeHint + N) = N * 1 + i /\ i - writeHint + N \in 0 .. N - 1 /\ 1 \in Nat
        /\ writeHint + (i - writeHint + N) \in Nat
    BY <1>0, <1>2
  <2>2. (writeHint + (i - writeHint + N)) % N = i
    BY <1>0, <2>1, RemainderUnique, Zenon
  <2>. QED  BY <2>1, <2>2, Zenon
<1>. QED  BY <1>0, <1>1, <1>2

\* Both sets can be counted.
LEMMA CrowdFinite ==
  ASSUME TypeOK
  PROVE  /\ Passed \subseteq Slots /\ IsFiniteSet(Passed) /\ Cardinality(Passed) \in Nat
         /\ IsFiniteSet(Unmet) /\ Cardinality(Unmet) \in Nat
         /\ Cardinality(Unmet) <= Cardinality(Readers) /\ Cardinality(Readers) \in Nat
<1>1. Passed \subseteq Slots
  <2>. SUFFICES ASSUME NEW k \in 0 .. scan - 1 PROVE (writeHint + k) % N \in Slots
    BY Zenon DEF Passed
  <2>. QED  BY BuffersAssumption DEF TypeOK, Slots
<1>2. IsFiniteSet(Slots)
  BY BuffersAssumption, FS_Interval DEF Slots
<1>3. Unmet \subseteq Readers
  BY DEF Unmet
<1>. QED  BY <1>1, <1>2, <1>3, ReadersAssumption, FS_Subset, FS_CardinalityType, Zenon

\* Passing over a buffer somebody has pinned uses that reader up.
LEMMA SkipCrowd ==
  ASSUME PublisherInv, Crowd, SkipSlot
  PROVE  Cardinality(Passed') + Cardinality(Unmet') <= Cardinality(Readers)
<1>. DEFINE i == (writeHint + scan) % N
            old == {(writeHint + k) % N : k \in 0 .. scan - 1}
<1>1. /\ i = current \/ refs[i] # 0
      /\ scan' = scan + 1
      /\ UNCHANGED <<current, writeHint, ridx>>
  BY DEF SkipSlot, Claimable, readerVars
<1>2. TypeOK /\ TypeOK' /\ scan \in 0 .. N - 1 /\ i \in Slots
  <2>1. wpc = "claim"
    BY DEF SkipSlot
  <2>2. TypeOK /\ TypeOK' /\ scan < N
    BY <2>1, SkipInv, Zenon DEF PublisherInv, Progress
  <2>3. scan \in 0 .. N
    BY <2>2, Zenon DEF TypeOK
  <2>4. scan \in 0 .. N - 1
    <3>. HIDE DEF i, old
    <3>. QED  BY <2>2, <2>3, BuffersAssumption
  <2>. QED  BY <2>2, <2>4, ScanSlot, Zenon
<1>3. Cardinality(Passed) + Cardinality(Unmet) <= Cardinality(Readers)
  BY DEF Crowd, SkipSlot
<1>4. {(writeHint' + k) % N : k \in 0 .. scan' - 1} = old \cup {i}
  <2>1. 0 .. scan' - 1 = (0 .. scan - 1) \cup {scan}
    BY <1>1, <1>2, BuffersAssumption
  <2>2. writeHint' = writeHint
    BY <1>1
  <2>. QED  BY <2>1, <2>2, Zenon
<1>5. i \notin old
  <2>1. scan < N
    BY <1>2, BuffersAssumption
  <2>. QED  BY <1>2, <2>1, ScanFresh, Zenon
<1>6. Passed = old \ {current} /\ Passed' = (old \cup {i}) \ {current}
  BY <1>1, <1>4, Zenon DEF Passed
<1>. HIDE DEF i, old
<1>7. CASE i = current
  <2>1. Passed' = Passed
    BY <1>6, <1>7, Zenon
  <2>2. Unmet' = Unmet
    BY <1>1, <2>1 DEF Unmet
  <2>. QED  BY <1>3, <2>1, <2>2, Zenon
<1>8. CASE i # current
  <2>1. Passed' = Passed \cup {i} /\ i \notin Passed
    BY <1>5, <1>6, <1>8, Zenon
  <2>2. PICK r \in Readers : ridx[r] = i
    <3>1. ~Owned(i)
      BY DEF SkipSlot, Owned
    <3>2. refs[i] = Cardinality(Holders(i)) /\ refs[i] # 0
      BY <1>1, <1>2, <1>8, <3>1 DEF PublisherInv, RefsExact
    <3>3. Holders(i) # {}
      BY <3>2, FS_EmptySet, Zenon
    <3>. QED  BY <3>3, Zenon DEF Holders
  <2>3. r \in Unmet /\ Unmet' \subseteq Unmet \ {r}
    BY <1>1, <1>8, <2>1, <2>2 DEF Unmet
  <2>4. Cardinality(Unmet') <= Cardinality(Unmet) - 1
    <3>1. /\ IsFiniteSet(Unmet) /\ Cardinality(Unmet \ {r}) = Cardinality(Unmet) - 1
          /\ IsFiniteSet(Unmet \ {r})
      BY <1>2, <2>3, CrowdFinite, FS_RemoveElement, Zenon
    <3>2. Cardinality(Unmet') <= Cardinality(Unmet \ {r})
      BY <2>3, <3>1, FS_Subset, Zenon
    <3>. QED  BY <3>1, <3>2, Zenon
  <2>5. Cardinality(Passed') = Cardinality(Passed) + 1
    BY <1>2, <2>1, CrowdFinite, FS_AddElement, Zenon
  <2>6. /\ Cardinality(Passed) \in Nat /\ Cardinality(Unmet) \in Nat /\ Cardinality(Unmet') \in Nat
        /\ Cardinality(Readers) \in Nat
    <3>1. IsFiniteSet(Unmet')
      <4>1. Unmet' \subseteq Readers
        BY <1>1 DEF Unmet
      <4>. QED  BY <4>1, ReadersAssumption, FS_Subset, Zenon
    <3>. QED  BY <1>2, <3>1, CrowdFinite, FS_CardinalityType, Zenon
  <2>. QED  BY <1>3, <2>4, <2>5, <2>6
<1>. QED  BY <1>7, <1>8

\* Every other step leaves the passed buffers and meets no new reader.
LEMMA CrowdNext == PublisherInv /\ Crowd /\ [Next]_vars => Crowd'
<1>. SUFFICES ASSUME PublisherInv, Crowd, [Next]_vars PROVE Crowd'
  OBVIOUS
<1>0. TypeOK /\ TypeOK'
  BY PublisherInvNext DEF PublisherInv
<1>1. CASE BeginWrite
  <2>1. scan' = 0
    BY <1>1 DEF BeginWrite
  <2>2. Passed' = {}
    BY <2>1 DEF Passed
  <2>3. Cardinality(Passed') = 0
    BY <2>2, FS_EmptySet, Zenon
  <2>4. Unmet' \subseteq Readers
    BY <1>1 DEF Unmet
  <2>5. /\ Cardinality(Unmet') <= Cardinality(Readers)
        /\ IsFiniteSet(Unmet')
    BY <2>4, ReadersAssumption, FS_Subset, Zenon
  <2>6. Cardinality(Unmet') \in Nat
    BY <2>5, FS_CardinalityType, Zenon
  <2>. QED  BY <2>3, <2>5, <2>6 DEF Crowd
<1>2. CASE SkipSlot
  BY <1>2, SkipCrowd DEF Crowd
<1>3. CASE ClaimSlot \/ StartFill \/ FinishFill \/ CommitRefs \/ CommitCurrent
  <2>1. wpc' # "claim"
    BY <1>3 DEF ClaimSlot, StartFill, FinishFill, CommitRefs, CommitCurrent
  <2>. QED  BY <2>1 DEF Crowd
<1>4. ASSUME NEW r \in Readers, Reader(r) PROVE Crowd'
  <2>1. UNCHANGED <<current, writerVars>>
    BY <1>4, Zenon DEF Reader, StartRead, LoadCurrent, LoadRefs, Pin, PinRetry, AttemptFails, Release
  <2>2. UNCHANGED <<wpc, scan, writeHint, current>>
    BY <2>1 DEF writerVars
  <2>3. Passed' = Passed
    BY <2>2, Zenon DEF Passed
  <2>4. \A q \in Readers : ridx'[q] = ridx[q] \/ ridx'[q] = current
    BY <1>0, <1>4, Zenon DEF TypeOK, Reader, StartRead, LoadCurrent, LoadRefs, Pin, PinRetry, AttemptFails, Release
  <2>5. Unmet' \subseteq Unmet
    BY <2>2, <2>3, <2>4, Zenon DEF Unmet
  <2>6. /\ Cardinality(Unmet') <= Cardinality(Unmet)
        /\ IsFiniteSet(Unmet')
    BY <1>0, <2>5, CrowdFinite, FS_Subset, Zenon
  <2>7. /\ Cardinality(Unmet') \in Nat /\ Cardinality(Unmet) \in Nat
        /\ Cardinality(Passed) \in Nat /\ Cardinality(Readers) \in Nat
    BY <1>0, <2>6, CrowdFinite, FS_CardinalityType, Zenon
  <2>. QED  BY <2>2, <2>3, <2>6, <2>7 DEF Crowd
<1>5. CASE UNCHANGED vars
  BY <1>5 DEF vars, writerVars, readerVars, Crowd, Passed, Unmet
<1>. QED  BY <1>1, <1>2, <1>3, <1>4, <1>5 DEF Next, Writer

\* With two buffers more than there are readers, one for the published
\* snapshot and one to write to, begin_write() never returns nullptr, although
\* its scan is not atomic and readers pin buffers behind its back.
THEOREM PublisherNeverRefused ==
  ASSUME Cardinality(Readers) + 2 <= N
  PROVE  Spec => []NeverRefused
<1>1. Init => NeverRefused /\ Crowd
  BY DEF Init, NeverRefused, Crowd
<1>2. PublisherInv /\ Crowd /\ NeverRefused /\ [Next]_vars => NeverRefused'
  <2>. SUFFICES ASSUME PublisherInv, Crowd, NeverRefused, SkipSlot, scan + 1 = N PROVE FALSE
    BY Zenon DEF NeverRefused, Next, Writer, Reader, BeginWrite, ClaimSlot, SkipSlot, StartFill, FinishFill,
       CommitRefs, CommitCurrent, StartRead, LoadCurrent, LoadRefs, Pin, PinRetry, AttemptFails, Release,
       vars, writerVars
  <2>1. TypeOK /\ TypeOK' /\ scan' = N /\ writeHint' = writeHint /\ current' = current
    BY PublisherInvNext, SkipInv DEF PublisherInv, SkipSlot
  <2>2. Slots \ {current} \subseteq Passed'
    <3>. SUFFICES ASSUME NEW i \in Slots, i # current PROVE i \in Passed'
      BY Zenon
    <3>1. \E k \in 0 .. N - 1 : (writeHint + k) % N = i
      BY <2>1, ScanAll, Zenon
    <3>. QED  BY <2>1, <3>1, Zenon DEF Passed
  <2>3. /\ IsFiniteSet(Passed') /\ Cardinality(Passed') \in Nat
        /\ Cardinality(Unmet') \in Nat /\ Cardinality(Readers) \in Nat
    <3>1. Passed' \subseteq Slots
      <4>. SUFFICES ASSUME NEW k \in 0 .. N - 1 PROVE (writeHint + k) % N \in Slots
        BY <2>1, Zenon DEF Passed
      <4>. QED  BY <2>1, BuffersAssumption DEF TypeOK, Slots
    <3>2. Unmet' \subseteq Readers
      BY DEF Unmet
    <3>3. IsFiniteSet(Slots)
      BY BuffersAssumption, FS_Interval DEF Slots
    <3>. QED  BY <3>1, <3>2, <3>3, ReadersAssumption, FS_Subset, FS_CardinalityType, Zenon
  <2>4. Cardinality(Slots) = N /\ IsFiniteSet(Slots)
    BY BuffersAssumption, FS_Interval DEF Slots
  <2>5. /\ IsFiniteSet(Slots \ {current})
        /\ Cardinality(Slots \ {current}) >= N - 1
    <3>1. /\ IsFiniteSet(Slots \ {current})
          /\ Cardinality(Slots \ {current}) = IF current \in Slots THEN Cardinality(Slots) - 1
                                                                   ELSE Cardinality(Slots)
      BY <2>4, FS_RemoveElement, Zenon
    <3>. QED  BY <2>4, <3>1, BuffersAssumption
  <2>6. Cardinality(Slots \ {current}) <= Cardinality(Passed')
    BY <2>2, <2>3, FS_Subset, Zenon
  <2>7. Cardinality(Passed') + Cardinality(Unmet') <= Cardinality(Readers)
    BY SkipCrowd
  <2>8. Cardinality(Slots \ {current}) \in Nat
    BY <2>5, FS_CardinalityType, Zenon
  <2>. QED  BY <2>3, <2>5, <2>6, <2>7, <2>8, BuffersAssumption
<1>. QED  BY PublisherInvInit, PublisherInvNext, CrowdNext, <1>1, <1>2, PTL DEF Spec
=============================================================================
