------------------------------- MODULE Seqlock -------------------------------
(***************************************************************************)
(* The sequence lock of include/gtpm/seqlock.hpp, as Runtime uses it: the  *)
(* metering thread stores PipelineSnapshots, snapshot() loads them from    *)
(* other threads and falls back to an empty one when load() gives up.      *)
(*                                                                         *)
(* A snapshot is a number, copied into WordCount words one at a time.  The *)
(* fences order the accesses to seq_ and the words as the steps below are  *)
(* ordered.  seq_ wraps at SeqModulus (2^32 in the code): StoreBegin       *)
(* assumes that no load() lasts half of that many accesses to seq_, which  *)
(* at one store per publish interval of 100 ms is 2^31 stores, six years.  *)
(***************************************************************************)
EXTENDS Integers

CONSTANTS
  WordCount,     \* kWordCount
  SeqModulus,    \* 2^32 for the uint32_t seq_
  Readers,       \* threads that call snapshot()
  MaxAttempts,   \* attempts of load() (64 in the code)
  MaxStores      \* bound on the snapshots stored

ASSUME WordsAssumption == WordCount \in Nat \ {0}
ASSUME SeqAssumption == SeqModulus \in Nat /\ SeqModulus > 2 /\ SeqModulus % 2 = 0
ASSUME LoadAssumption == MaxAttempts \in Nat \ {0}

VARIABLES
  seq, words,      \* seq_, words_
  wpc, windex,     \* the writer's place in store(), the word it writes next
  stores,          \* number of stores begun; the snapshot being or last stored
  rpc, rindex,     \* each reader's place in load(), the word it copies next
  before,          \* the value of seq_ the attempt began with
  staging,         \* the words copied so far
  attempts,        \* attempts of this load()
  begun,           \* history: stores begun when the attempt loaded seq_
  floor,           \* history: stores finished when load() was called
  result           \* what the last snapshot() of each reader returned

storeVars == <<seq, words, wpc, windex, stores>>
loadVars == <<rpc, rindex, before, staging, attempts, begun, floor, result>>
lockVars == <<storeVars, loadVars>>

Words == 0 .. WordCount - 1
EmptySnapshot == [w \in Words |-> 0]

\* Snapshots whose store() has finished.
Finished == IF wpc = "idle" THEN stores ELSE stores - 1

LockInit ==
  /\ seq = 0
  /\ words = EmptySnapshot
  /\ wpc = "idle" /\ windex = 0 /\ stores = 0
  /\ rpc = [r \in Readers |-> "idle"]
  /\ rindex = [r \in Readers |-> 0]
  /\ before = [r \in Readers |-> 0]
  /\ staging = [r \in Readers |-> EmptySnapshot]
  /\ attempts = [r \in Readers |-> 0]
  /\ begun = [r \in Readers |-> 0]
  /\ floor = [r \in Readers |-> 0]
  /\ result = [r \in Readers |-> EmptySnapshot]

-----------------------------------------------------------------------------
(* store() *)

\* The wrap-around bound: attempts in progress began recently enough.
NoLoadSpansTheWrap ==
  \A r \in Readers : rpc[r] = "copy" => 2 * (stores + 1 - begun[r]) < SeqModulus

StoreBegin ==
  /\ wpc = "idle"
  /\ stores < MaxStores
  /\ NoLoadSpansTheWrap
  /\ seq' = (seq + 1) % SeqModulus
  /\ stores' = stores + 1
  /\ windex' = 0
  /\ wpc' = "write"
  /\ UNCHANGED <<words, loadVars>>

\* Mutant: the loop ends one word early.
StoreWordButLast ==
  /\ wpc = "write"
  /\ words' = IF windex + 1 < WordCount THEN [words EXCEPT ![windex] = stores] ELSE words
  /\ windex' = windex + 1
  /\ wpc' = IF windex + 1 = WordCount THEN "finish" ELSE "write"
  /\ UNCHANGED <<seq, stores, loadVars>>

StoreWord ==
  /\ wpc = "write"
  /\ words' = [words EXCEPT ![windex] = stores]
  /\ windex' = windex + 1
  /\ wpc' = IF windex + 1 = WordCount THEN "finish" ELSE "write"
  /\ UNCHANGED <<seq, stores, loadVars>>

StoreEnd ==
  /\ wpc = "finish"
  /\ seq' = (seq + 1) % SeqModulus
  /\ wpc' = "idle"
  /\ UNCHANGED <<words, windex, stores, loadVars>>

-----------------------------------------------------------------------------
(* load(), called by Runtime::snapshot() *)

StartLoad(r) ==
  /\ rpc[r] = "idle"
  /\ rpc' = [rpc EXCEPT ![r] = "begin"]
  /\ attempts' = [attempts EXCEPT ![r] = 0]
  /\ floor' = [floor EXCEPT ![r] = Finished]
  /\ UNCHANGED <<storeVars, rindex, before, staging, begun, result>>

\* The attempt failed; after the last one snapshot() returns an empty snapshot.
AttemptFails(r) ==
  /\ attempts' = [attempts EXCEPT ![r] = @ + 1]
  /\ IF attempts[r] + 1 = MaxAttempts
       THEN /\ rpc' = [rpc EXCEPT ![r] = "idle"]
            /\ result' = [result EXCEPT ![r] = EmptySnapshot]
            /\ floor' = [floor EXCEPT ![r] = 0]
       ELSE /\ rpc' = [rpc EXCEPT ![r] = "begin"]
            /\ UNCHANGED <<result, floor>>

LoadBefore(r) ==
  /\ rpc[r] = "begin"
  /\ seq % 2 = 0
  /\ before' = [before EXCEPT ![r] = seq]
  /\ begun' = [begun EXCEPT ![r] = stores]
  /\ rindex' = [rindex EXCEPT ![r] = 0]
  /\ rpc' = [rpc EXCEPT ![r] = "copy"]
  /\ UNCHANGED <<storeVars, staging, attempts, floor, result>>

\* seq_ is odd: a store is in progress.
LoadBusy(r) ==
  /\ rpc[r] = "begin"
  /\ seq % 2 = 1
  /\ AttemptFails(r)
  /\ UNCHANGED <<storeVars, rindex, before, staging, begun>>

LoadWord(r) ==
  /\ rpc[r] = "copy"
  /\ rindex[r] < WordCount
  /\ staging' = [staging EXCEPT ![r][rindex[r]] = words[rindex[r]]]
  /\ rindex' = [rindex EXCEPT ![r] = @ + 1]
  /\ UNCHANGED <<storeVars, rpc, before, attempts, begun, floor, result>>

\* Mutant: only an odd sequence number is taken for a store in progress.
LoadDoneIfEven(r) ==
  /\ rpc[r] = "copy"
  /\ rindex[r] = WordCount
  /\ seq % 2 = 0
  /\ result' = [result EXCEPT ![r] = staging[r]]
  /\ rpc' = [rpc EXCEPT ![r] = "idle"]
  /\ UNCHANGED <<storeVars, rindex, before, staging, attempts, begun, floor>>

LoadDone(r) ==
  /\ rpc[r] = "copy"
  /\ rindex[r] = WordCount
  /\ seq = before[r]
  /\ result' = [result EXCEPT ![r] = staging[r]]
  /\ rpc' = [rpc EXCEPT ![r] = "idle"]
  /\ UNCHANGED <<storeVars, rindex, before, staging, attempts, begun, floor>>

LoadTorn(r) ==
  /\ rpc[r] = "copy"
  /\ rindex[r] = WordCount
  /\ seq # before[r]
  /\ AttemptFails(r)
  /\ UNCHANGED <<storeVars, rindex, before, staging, begun>>

-----------------------------------------------------------------------------
Writer == StoreBegin \/ StoreWord \/ StoreEnd

Reader(r) ==
  \/ StartLoad(r) \/ LoadBefore(r) \/ LoadBusy(r)
  \/ LoadWord(r) \/ LoadDone(r) \/ LoadTorn(r)

LockNext == Writer \/ \E r \in Readers : Reader(r)

LockSpec == LockInit /\ [][LockNext]_lockVars

-----------------------------------------------------------------------------
(* Properties *)

\* The sequence number keeps its width; places and indices stay in range.
LockTypeOK ==
  /\ seq \in 0 .. SeqModulus - 1
  /\ words \in [Words -> Nat]
  /\ wpc \in {"idle", "write", "finish"}
  /\ windex \in 0 .. WordCount
  /\ stores \in Nat
  /\ rpc \in [Readers -> {"idle", "begin", "copy"}]
  /\ rindex \in [Readers -> 0 .. WordCount]
  /\ before \in [Readers -> 0 .. SeqModulus - 1]
  /\ staging \in [Readers -> [Words -> Nat]]
  /\ attempts \in [Readers -> 0 .. MaxAttempts]
  /\ begun \in [Readers -> Nat]
  /\ floor \in [Readers -> Nat]
  /\ result \in [Readers -> [Words -> Nat]]

\* A load that returns has one snapshot in all its words, whatever stores ran
\* meanwhile: it is consistent as of a single instant.
LoadsWhole == \A r \in Readers : \A v, w \in Words : result[r][v] = result[r][w]

\* A load that succeeds returns no snapshot older than the newest one whose
\* store had finished when it was called.
LoadsFresh ==
  \A r \in Readers : rpc[r] = "idle" => \A w \in Words : result[r][w] >= floor[r]
=============================================================================
