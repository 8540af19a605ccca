-------------------------- MODULE SnapshotPublisher --------------------------
(***************************************************************************)
(* The reference-counted snapshot buffers of include/gtpm/snapshot.hpp.    *)
(* One writer (the metering thread) fills a buffer and publishes it while  *)
(* readers (HTTP requests) pin the current one.  Every atomic access is a  *)
(* step of its own; the code's acquire and release orders make the writes  *)
(* to a buffer visible to whoever pins it, so steps interleave as under    *)
(* sequential consistency.  The content of a buffer is the number of the   *)
(* snapshot in it, or Partial while the writer is filling it.              *)
(***************************************************************************)
EXTENDS Integers, FiniteSets

CONSTANTS
  N,             \* number of buffers
  Readers,       \* threads that call read()
  MaxAttempts,   \* attempts of read() before it gives up (16 in the code)
  MaxSnapshots   \* bound on the snapshots written

ASSUME BuffersAssumption == N \in Nat /\ N >= 3
ASSUME ReadersAssumption == IsFiniteSet(Readers)
ASSUME AttemptsAssumption == MaxAttempts \in Nat \ {0}

VARIABLES
  refs,        \* Slot::refs
  content,     \* Slot::value
  current,     \* current_
  writing,     \* writing_
  writeHint,   \* write_hint_
  wpc, scan,   \* the writer's place, and its attempt in begin_write()
  filled,      \* number of the snapshot being written or last written
  refused,     \* history: begin_write() returned nullptr
  rpc,         \* each reader's place
  ridx,        \* the buffer a reader is trying to pin, or has pinned
  seen,        \* the reference count a reader last loaded
  attempts,    \* attempts of the current read()
  floor        \* history: the snapshot that was current when read() began

writerVars == <<writing, writeHint, wpc, scan, filled, refused>>
readerVars == <<rpc, ridx, seen, attempts, floor>>
vars == <<refs, content, current, writerVars, readerVars>>

Slots == 0 .. N - 1
NoSlot == -1
WriterOwned == -1   \* kWriterOwned: no reader count reaches it
Partial == -1
Empty == 0          \* a buffer nothing was written to

Init ==
  /\ refs = [i \in Slots |-> 0]
  /\ content = [i \in Slots |-> Empty]
  /\ current = NoSlot
  /\ writing = NoSlot
  /\ writeHint = 0
  /\ wpc = "idle" /\ scan = 0
  /\ filled = 0
  /\ refused = FALSE
  /\ rpc = [r \in Readers |-> "idle"]
  /\ ridx = [r \in Readers |-> 0]
  /\ seen = [r \in Readers |-> 0]
  /\ attempts = [r \in Readers |-> 0]
  /\ floor = [r \in Readers |-> 0]

Published == IF current = NoSlot THEN 0 ELSE content[current]

-----------------------------------------------------------------------------
(* Writer *)

BeginWrite ==
  /\ wpc = "idle"
  /\ filled < MaxSnapshots
  /\ wpc' = "claim"
  /\ scan' = 0
  /\ UNCHANGED <<refs, content, current, writing, writeHint, filled, refused, readerVars>>

\* The buffer a claim may take: neither published nor in anyone's hands.
\* Mutant: the reference count is not looked at.
ClaimableUnchecked(i) == i # current
Claimable(i) == i # current /\ refs[i] = 0

\* One iteration of the loop in begin_write().
ClaimSlot ==
  LET i == (writeHint + scan) % N IN
  /\ wpc = "claim"
  /\ Claimable(i)
  /\ refs' = [refs EXCEPT ![i] = WriterOwned]
  /\ writing' = i
  /\ writeHint' = (i + 1) % N
  /\ wpc' = "fill"
  /\ UNCHANGED <<content, current, scan, filled, refused, readerVars>>

\* Mutant: the loop looks at all buffers but two.
SkipSlotShort ==
  LET i == (writeHint + scan) % N IN
  /\ wpc = "claim"
  /\ ~Claimable(i)
  /\ scan' = scan + 1
  /\ wpc' = IF scan + 3 >= N THEN "idle" ELSE "claim"
  /\ refused' = (refused \/ scan + 3 >= N)
  /\ UNCHANGED <<refs, content, current, writing, writeHint, filled, readerVars>>

SkipSlot ==
  LET i == (writeHint + scan) % N IN
  /\ wpc = "claim"
  /\ ~Claimable(i)
  /\ scan' = scan + 1
  /\ wpc' = IF scan + 1 = N THEN "idle" ELSE "claim"
  /\ refused' = (refused \/ scan + 1 = N)
  /\ UNCHANGED <<refs, content, current, writing, writeHint, filled, readerVars>>

\* advance_detail_scan clears the buffer and fills it over several calls.
StartFill ==
  /\ wpc = "fill"
  /\ content' = [content EXCEPT ![writing] = Partial]
  /\ wpc' = "filling"
  /\ UNCHANGED <<refs, current, writing, writeHint, scan, filled, refused, readerVars>>

FinishFill ==
  /\ wpc = "filling"
  /\ content' = [content EXCEPT ![writing] = filled + 1]
  /\ filled' = filled + 1
  /\ wpc' = "commit"
  /\ UNCHANGED <<refs, current, writing, writeHint, scan, refused, readerVars>>

\* commit(): give the buffer up, then make it current.
CommitRefs ==
  /\ wpc = "commit"
  /\ refs' = [refs EXCEPT ![writing] = 0]
  /\ wpc' = "publish"
  /\ UNCHANGED <<content, current, writing, writeHint, scan, filled, refused, readerVars>>

CommitCurrent ==
  /\ wpc = "publish"
  /\ current' = writing
  /\ writing' = NoSlot
  /\ wpc' = "idle"
  /\ UNCHANGED <<refs, content, writeHint, scan, filled, refused, readerVars>>

Writer ==
  \/ BeginWrite \/ ClaimSlot \/ SkipSlot
  \/ StartFill \/ FinishFill
  \/ CommitRefs \/ CommitCurrent

-----------------------------------------------------------------------------
(* Reader *)

\* read() is called.
StartRead(r) ==
  /\ rpc[r] = "idle"
  /\ rpc' = [rpc EXCEPT ![r] = "current"]
  /\ attempts' = [attempts EXCEPT ![r] = 0]
  /\ floor' = [floor EXCEPT ![r] = Published]
  /\ UNCHANGED <<refs, content, current, writerVars, ridx, seen>>

\* Mutant: the index of the previous read() is used again.
LoadCurrentCached(r) ==
  /\ rpc[r] = "current"
  /\ rpc' = [rpc EXCEPT ![r] = IF current = NoSlot THEN "idle" ELSE "load"]
  /\ UNCHANGED <<refs, content, current, writerVars, ridx, seen, attempts, floor>>

\* An attempt begins by loading current_.
LoadCurrent(r) ==
  /\ rpc[r] = "current"
  /\ IF current = NoSlot
       THEN /\ rpc' = [rpc EXCEPT ![r] = "idle"]
            /\ UNCHANGED ridx
       ELSE /\ rpc' = [rpc EXCEPT ![r] = "load"]
            /\ ridx' = [ridx EXCEPT ![r] = current]
  /\ UNCHANGED <<refs, content, current, writerVars, seen, attempts, floor>>

LoadRefs(r) ==
  /\ rpc[r] = "load"
  /\ seen' = [seen EXCEPT ![r] = refs[ridx[r]]]
  /\ rpc' = [rpc EXCEPT ![r] = "cas"]
  /\ UNCHANGED <<refs, content, current, writerVars, ridx, attempts, floor>>

\* The compare-exchange takes the count from what was seen to one more.
\* Mutant: it increments whatever is there.
PinUnchecked(r) ==
  /\ rpc[r] = "cas"
  /\ seen[r] # WriterOwned
  /\ refs' = [refs EXCEPT ![ridx[r]] = @ + 1]
  /\ rpc' = [rpc EXCEPT ![r] = "held"]
  /\ UNCHANGED <<content, current, writerVars, ridx, seen, attempts, floor>>

Pin(r) ==
  /\ rpc[r] = "cas"
  /\ seen[r] # WriterOwned
  /\ refs[ridx[r]] = seen[r]
  /\ refs' = [refs EXCEPT ![ridx[r]] = @ + 1]
  /\ rpc' = [rpc EXCEPT ![r] = "held"]
  /\ UNCHANGED <<content, current, writerVars, ridx, seen, attempts, floor>>

\* A failed exchange loads the count again.  A spurious failure of the weak
\* exchange loads what was seen already: it changes nothing.
PinRetry(r) ==
  /\ rpc[r] = "cas"
  /\ seen[r] # WriterOwned
  /\ refs[ridx[r]] # seen[r]
  /\ seen' = [seen EXCEPT ![r] = refs[ridx[r]]]
  /\ UNCHANGED <<refs, content, current, writerVars, rpc, ridx, attempts, floor>>

\* The buffer is the writer's: the attempt failed.
AttemptFails(r) ==
  /\ rpc[r] = "cas"
  /\ seen[r] = WriterOwned
  /\ attempts' = [attempts EXCEPT ![r] = @ + 1]
  /\ rpc' = [rpc EXCEPT ![r] = IF attempts[r] + 1 = MaxAttempts THEN "idle" ELSE "current"]
  /\ UNCHANGED <<refs, content, current, writerVars, ridx, seen, floor>>

\* ~Handle
Release(r) ==
  /\ rpc[r] = "held"
  /\ refs' = [refs EXCEPT ![ridx[r]] = @ - 1]
  /\ rpc' = [rpc EXCEPT ![r] = "idle"]
  /\ UNCHANGED <<content, current, writerVars, ridx, seen, attempts, floor>>

Reader(r) ==
  \/ StartRead(r) \/ LoadCurrent(r) \/ LoadRefs(r)
  \/ Pin(r) \/ PinRetry(r) \/ AttemptFails(r)
  \/ Release(r)

-----------------------------------------------------------------------------
Next == Writer \/ \E r \in Readers : Reader(r)

Spec == Init /\ [][Next]_vars

-----------------------------------------------------------------------------
(* Properties *)

\* Indices, counts and places stay in range.
TypeOK ==
  /\ refs \in [Slots -> Nat \cup {WriterOwned}]
  /\ content \in [Slots -> Nat \cup {Partial}]
  /\ current \in Slots \cup {NoSlot}
  /\ writing \in Slots \cup {NoSlot}
  /\ writeHint \in Slots
  /\ wpc \in {"idle", "claim", "fill", "filling", "commit", "publish"}
  /\ scan \in 0 .. N
  /\ filled \in Nat
  /\ refused \in BOOLEAN
  /\ rpc \in [Readers -> {"idle", "current", "load", "cas", "held"}]
  /\ ridx \in [Readers -> Slots]
  /\ seen \in [Readers -> Nat \cup {WriterOwned}]
  /\ attempts \in [Readers -> 0 .. MaxAttempts]
  /\ floor \in [Readers -> Nat \cup {Partial}]

\* The readers that have buffer i pinned.
Holders(i) == {r \in Readers : rpc[r] = "held" /\ ridx[r] = i}

\* The buffer the writer has claimed and not given up yet.
Owned(i) == writing = i /\ wpc \in {"fill", "filling", "commit"}

\* The reference count of a buffer is the number of handles on it, or the
\* writer's mark while the writer owns it, and then there is no handle: no
\* interleaving of begin_write, commit, read and ~Handle loses a count.
RefsExact ==
  \A i \in Slots :
    IF Owned(i) THEN refs[i] = WriterOwned /\ Holders(i) = {}
                ELSE refs[i] = Cardinality(Holders(i))

\* What a handle points to is a whole snapshot: "a reader can never be
\* reading a buffer that is being rewritten" (snapshot.hpp:8).
HandlesWhole == \A r \in Readers : rpc[r] = "held" => content[ridx[r]] > 0

\* A buffer does not change under a handle (snapshot.hpp:117).
HandlesStable ==
  [][\A r \in Readers : rpc[r] = "held" => content'[ridx[r]] = content[ridx[r]]]_vars

\* The published buffer holds a whole snapshot and is not the writer's, so
\* read() finds something to pin.
CurrentWhole == current # NoSlot => content[current] > 0 /\ refs[current] # WriterOwned

\* read() never returns a snapshot older than the one that was current when
\* it was called.
HandlesFresh == \A r \in Readers : rpc[r] = "held" => content[ridx[r]] >= floor[r]

\* begin_write() always finds a buffer.
NeverRefused == ~refused
=============================================================================
