---------------------------- MODULE RuntimeProofs ---------------------------
(***************************************************************************)
(* What the run of the pipeline guarantees to those who watch it.          *)
(*                                                                         *)
(* Loads of the sequence lock are whole and fresh, for every number of     *)
(* words and readers and every even width of seq_.  seq_ counts the        *)
(* accesses of the writer modulo SeqModulus (SeqCounts).  A reader that    *)
(* finds it unchanged after copying concludes that no store began          *)
(* meanwhile: less than a full turn of seq_ can have passed, and within    *)
(* one turn equal remainders are equal counts (Copying).                   *)
(*                                                                         *)
(* The thread lifecycle, for every ring size, batch size and number of     *)
(* restarts: nothing is lost between the threads, and stop() leaves the    *)
(* pipeline settled and its last snapshot, stored in that lock, final.     *)
(***************************************************************************)
EXTENDS Runtime, Seqlock, NumberFacts, TLAPS

-----------------------------------------------------------------------------
(* The sequence lock *)

\* The accesses to seq_ so far.
SeqCount == IF wpc = "idle" THEN 2 * stores ELSE 2 * stores - 1

SeqCounts ==
  /\ wpc # "idle" => stores > 0
  /\ seq = SeqCount % SeqModulus

\* The words written so far carry the snapshot being stored.
WordsStored ==
  /\ wpc = "write" => windex < WordCount
  /\ \A w \in Words : (wpc # "write" \/ w < windex) => words[w] = stores

\* An attempt in progress: where it began, and what it copied if no store began since.
CopyingBy(r) ==
  /\ before[r] = (2 * begun[r]) % SeqModulus
  /\ floor[r] <= begun[r] /\ begun[r] <= stores
  /\ 2 * (stores - begun[r]) < SeqModulus
  /\ stores = begun[r] => /\ wpc = "idle"
                          /\ \A w \in Words : w < rindex[r] => staging[r][w] = begun[r]

Copying == \A r \in Readers : rpc[r] = "copy" => CopyingBy(r)

Loading ==
  \A r \in Readers : rpc[r] # "idle" => floor[r] <= Finished /\ attempts[r] < MaxAttempts

SeqlockInv == LockTypeOK /\ SeqCounts /\ WordsStored /\ Copying /\ Loading /\ LoadsWhole /\ LoadsFresh

\* Within one turn of seq_, equal sequence numbers mean equal counts.
LEMMA SameSeq ==
  ASSUME NEW m \in Nat, NEW n \in Nat, m <= n, n < m + SeqModulus, m % SeqModulus = n % SeqModulus
  PROVE  m = n
<1>1. SeqModulus \in Nat /\ SeqModulus > 0
  BY SeqAssumption
<1>2. m < n => m % SeqModulus # n % SeqModulus
  BY <1>1, RemaindersDiffer, Zenon
<1>3. m < n \/ m = n
  OBVIOUS
<1>. QED  BY <1>2, <1>3

\* The next access to seq_.
LEMMA SeqStep ==
  ASSUME NEW n \in Nat
  PROVE  /\ ((n % SeqModulus) + 1) % SeqModulus = (n + 1) % SeqModulus
         /\ (n + 1) % SeqModulus \in 0 .. SeqModulus - 1
         /\ n % SeqModulus \in 0 .. SeqModulus - 1
<1>. USE WordsAssumption, SeqAssumption, LoadAssumption
<1>1. SeqModulus \in Nat /\ SeqModulus > 1 /\ SeqModulus > 0 /\ n + 1 \in Nat
  OBVIOUS
<1>2. ((n % SeqModulus) + 1) % SeqModulus = (n + 1) % SeqModulus
  BY <1>1, NextRemainder, Zenon
<1>3. (n + 1) % SeqModulus \in 0 .. SeqModulus - 1 /\ n % SeqModulus \in 0 .. SeqModulus - 1
  BY <1>1, DivMod
<1>. QED  BY <1>2, <1>3

\* seq_ is even exactly between two stores.
LEMMA EvenIsIdle ==
  ASSUME NEW n \in Nat
  PROVE  /\ ((2 * n) % SeqModulus) % 2 = 0
         /\ n > 0 => ((2 * n - 1) % SeqModulus) % 2 = 1
<1>. USE WordsAssumption, SeqAssumption, LoadAssumption
<1>1. SeqModulus \in Nat /\ SeqModulus > 0 /\ SeqModulus % 2 = 0 /\ 2 * n \in Nat
  OBVIOUS
<1>2. ((2 * n) % SeqModulus) % 2 = (2 * n) % 2
  BY <1>1, WrapKeepsParity, Zenon
<1>3. ASSUME n > 0 PROVE ((2 * n - 1) % SeqModulus) % 2 = (2 * n - 1) % 2
  <2>1. 2 * n - 1 \in Nat
    BY <1>3
  <2>. QED  BY <1>1, <2>1, WrapKeepsParity, Zenon
<1>4. (2 * n) % 2 = 0 /\ (2 * n - 1) % 2 = 1
  OBVIOUS
<1>. QED  BY <1>2, <1>3, <1>4

\* The zeroed words and sequence number satisfy the invariant.
LEMMA SeqlockInvInit == LockInit => SeqlockInv
<1>. USE WordsAssumption, SeqAssumption, LoadAssumption
<1>. SUFFICES ASSUME LockInit PROVE SeqlockInv
  OBVIOUS
<1>1. LockTypeOK
  BY DEF LockInit, LockTypeOK, EmptySnapshot
<1>2. SeqCounts
  BY DEF LockInit, SeqCounts, SeqCount
<1>3. WordsStored /\ Copying /\ Loading /\ LoadsWhole /\ LoadsFresh
  BY DEF LockInit, WordsStored, Copying, Loading, LoadsWhole, LoadsFresh, EmptySnapshot
<1>. QED  BY <1>1, <1>2, <1>3 DEF SeqlockInv

\* store() making the sequence number odd preserves the invariant.
LEMMA StoreBeginInv ==
  ASSUME SeqlockInv, StoreBegin
  PROVE  SeqlockInv'
<1>. USE WordsAssumption, SeqAssumption, LoadAssumption
<1>1. /\ wpc = "idle" /\ wpc' = "write" /\ windex' = 0
      /\ stores \in Nat /\ stores' = stores + 1
      /\ seq' = (seq + 1) % SeqModulus
      /\ UNCHANGED <<words, loadVars>>
      /\ \A r \in Readers : rpc[r] = "copy" => 2 * (stores + 1 - begun[r]) < SeqModulus
  BY DEF StoreBegin, NoLoadSpansTheWrap, SeqlockInv, LockTypeOK
<1>2. /\ seq' = (2 * stores + 1) % SeqModulus
      /\ seq' \in 0 .. SeqModulus - 1
  <2>1. seq = (2 * stores) % SeqModulus /\ 2 * stores \in Nat
    BY <1>1 DEF SeqlockInv, SeqCounts, SeqCount
  <2>. QED  BY <1>1, <2>1, SeqStep, Zenon
<1>3. LockTypeOK'
  BY <1>1, <1>2 DEF SeqlockInv, LockTypeOK, loadVars
<1>4. SeqCounts'
  <2>1. 2 * stores + 1 = 2 * stores' - 1
    BY <1>1
  <2>. QED  BY <1>1, <1>2, <2>1 DEF SeqCounts, SeqCount
<1>5. WordsStored'
  BY <1>1 DEF WordsStored, Words
<1>6. Copying'
  <2>. SUFFICES ASSUME NEW r \in Readers, rpc[r] = "copy" PROVE CopyingBy(r)'
    BY <1>1 DEF Copying, loadVars
  <2>1. CopyingBy(r) /\ begun[r] \in Nat
    BY DEF SeqlockInv, Copying, LockTypeOK
  <2>2. stores' # begun[r] /\ begun[r] <= stores'
    BY <1>1, <2>1 DEF CopyingBy
  <2>. QED  BY <1>1, <2>1, <2>2 DEF CopyingBy, loadVars
<1>7. Loading'
  BY <1>1 DEF SeqlockInv, Loading, loadVars, Finished
<1>8. LoadsWhole' /\ LoadsFresh'
  BY <1>1 DEF SeqlockInv, LoadsWhole, LoadsFresh, loadVars
<1>. QED  BY <1>3, <1>4, <1>5, <1>6, <1>7, <1>8 DEF SeqlockInv

\* store() writing one word preserves the invariant.
LEMMA StoreWordInv ==
  ASSUME SeqlockInv, StoreWord
  PROVE  SeqlockInv'
<1>. USE WordsAssumption, SeqAssumption, LoadAssumption
<1>1. /\ wpc = "write" /\ windex \in 0 .. WordCount - 1
      /\ words' = [words EXCEPT ![windex] = stores]
      /\ windex' = windex + 1
      /\ wpc' = IF windex + 1 = WordCount THEN "finish" ELSE "write"
      /\ UNCHANGED <<seq, stores, loadVars>>
  BY DEF StoreWord, SeqlockInv, LockTypeOK, WordsStored
<1>2. LockTypeOK'
  <2>1. words' \in [Words -> Nat]
    BY <1>1 DEF SeqlockInv, LockTypeOK, Words
  <2>2. wpc' \in {"idle", "write", "finish"} /\ windex' \in 0 .. WordCount
    BY <1>1
  <2>. QED  BY <1>1, <2>1, <2>2 DEF SeqlockInv, LockTypeOK, loadVars
<1>3. SeqCounts'
  BY <1>1 DEF SeqlockInv, SeqCounts, SeqCount
<1>4. WordsStored'
  BY <1>1 DEF SeqlockInv, LockTypeOK, WordsStored, Words
<1>5. Copying'
  <2>. SUFFICES ASSUME NEW r \in Readers, rpc[r] = "copy" PROVE CopyingBy(r)'
    BY <1>1 DEF Copying, loadVars
  <2>1. CopyingBy(r)
    BY DEF SeqlockInv, Copying
  <2>. QED  BY <1>1, <2>1 DEF CopyingBy, loadVars
<1>6. Loading'
  BY <1>1 DEF SeqlockInv, Loading, loadVars, Finished
<1>7. LoadsWhole' /\ LoadsFresh'
  BY <1>1 DEF SeqlockInv, LoadsWhole, LoadsFresh, loadVars
<1>. QED  BY <1>2, <1>3, <1>4, <1>5, <1>6, <1>7 DEF SeqlockInv

\* store() making the sequence number even again preserves the invariant.
LEMMA StoreEndInv ==
  ASSUME SeqlockInv, StoreEnd
  PROVE  SeqlockInv'
<1>. USE WordsAssumption, SeqAssumption, LoadAssumption
<1>1. /\ wpc = "finish" /\ wpc' = "idle"
      /\ stores \in Nat /\ stores > 0
      /\ seq' = (seq + 1) % SeqModulus
      /\ UNCHANGED <<words, windex, stores, loadVars>>
  BY DEF StoreEnd, SeqlockInv, LockTypeOK, SeqCounts
<1>2. /\ seq' = (2 * stores) % SeqModulus
      /\ seq' \in 0 .. SeqModulus - 1
  <2>1. PICK n \in Nat : n = 2 * stores - 1
    BY <1>1
  <2>2. seq = n % SeqModulus /\ n + 1 = 2 * stores
    BY <1>1, <2>1 DEF SeqlockInv, SeqCounts, SeqCount
  <2>. QED  BY <1>1, <2>2, SeqStep, Zenon
<1>3. LockTypeOK'
  BY <1>1, <1>2 DEF SeqlockInv, LockTypeOK, loadVars
<1>4. SeqCounts'
  BY <1>1, <1>2 DEF SeqCounts, SeqCount
<1>5. WordsStored'
  BY <1>1 DEF SeqlockInv, WordsStored
<1>6. Copying'
  <2>. SUFFICES ASSUME NEW r \in Readers, rpc[r] = "copy" PROVE CopyingBy(r)'
    BY <1>1 DEF Copying, loadVars
  <2>1. CopyingBy(r)
    BY DEF SeqlockInv, Copying
  <2>. QED  BY <1>1, <2>1 DEF CopyingBy, loadVars
<1>7. Loading'
  BY <1>1 DEF SeqlockInv, LockTypeOK, Loading, loadVars, Finished
<1>8. LoadsWhole' /\ LoadsFresh'
  BY <1>1 DEF SeqlockInv, LoadsWhole, LoadsFresh, loadVars
<1>. QED  BY <1>3, <1>4, <1>5, <1>6, <1>7, <1>8 DEF SeqlockInv

\* What one reader does leaves the writer and the other readers' attempts alone.
OthersKept(r) ==
  \A q \in Readers \ {r} :
    /\ rpc'[q] = rpc[q] /\ rindex'[q] = rindex[q] /\ before'[q] = before[q]
    /\ staging'[q] = staging[q] /\ attempts'[q] = attempts[q] /\ begun'[q] = begun[q]
    /\ floor'[q] = floor[q] /\ result'[q] = result[q]

\* A step of one load leaves what is known of the other loads unchanged.
LEMMA ReaderFrame ==
  ASSUME SeqlockInv, NEW r \in Readers, LockTypeOK', UNCHANGED storeVars, OthersKept(r),
         rpc'[r] = "copy" => CopyingBy(r)',
         rpc'[r] # "idle" => floor'[r] <= Finished /\ attempts'[r] < MaxAttempts,
         \A v, w \in Words : result'[r][v] = result'[r][w],
         rpc'[r] = "idle" => \A w \in Words : result'[r][w] >= floor'[r]
  PROVE  SeqlockInv'
<1>. USE WordsAssumption, SeqAssumption, LoadAssumption
<1>1. SeqCounts' /\ WordsStored'
  BY DEF SeqlockInv, SeqCounts, SeqCount, WordsStored, storeVars
<1>2. Copying'
  <2>. SUFFICES ASSUME NEW q \in Readers, rpc'[q] = "copy", q # r PROVE CopyingBy(q)'
    BY DEF Copying
  <2>1. CopyingBy(q)
    BY DEF SeqlockInv, Copying, OthersKept
  <2>. QED  BY <2>1 DEF CopyingBy, storeVars, OthersKept
<1>3. Loading'
  BY DEF SeqlockInv, Loading, Finished, storeVars, OthersKept
<1>4. LoadsWhole'
  BY DEF SeqlockInv, LoadsWhole, OthersKept
<1>5. LoadsFresh'
  BY DEF SeqlockInv, LoadsFresh, OthersKept
<1>. QED  BY <1>1, <1>2, <1>3, <1>4, <1>5, Zenon DEF SeqlockInv

\* A load that begins satisfies the invariant.
LEMMA StartLoadInv ==
  ASSUME SeqlockInv, NEW r \in Readers, StartLoad(r)
  PROVE  SeqlockInv'
<1>. USE WordsAssumption, SeqAssumption, LoadAssumption
<1>0. Finished \in Nat
  BY DEF SeqlockInv, LockTypeOK, SeqCounts, Finished
<1>1. LockTypeOK'
  BY <1>0 DEF StartLoad, SeqlockInv, LockTypeOK, storeVars
<1>2. OthersKept(r) /\ UNCHANGED storeVars
  BY DEF StartLoad, SeqlockInv, LockTypeOK, OthersKept
<1>3. /\ rpc'[r] = "begin" /\ floor'[r] = Finished /\ attempts'[r] = 0
      /\ result' = result
  BY DEF StartLoad, SeqlockInv, LockTypeOK
<1>4. \A v, w \in Words : result'[r][v] = result'[r][w]
  BY <1>3 DEF SeqlockInv, LoadsWhole
<1>5. floor'[r] <= Finished /\ attempts'[r] < MaxAttempts
  BY <1>0, <1>3
<1>. QED  BY <1>1, <1>2, <1>3, <1>4, <1>5, ReaderFrame

\* A failed attempt leaves nothing behind but its count, and a load that gives
\* up returns an empty snapshot.
LEMMA FailInv ==
  ASSUME SeqlockInv, NEW r \in Readers, rpc[r] # "idle", AttemptFails(r),
         UNCHANGED <<storeVars, rindex, before, staging, begun>>
  PROVE  SeqlockInv'
<1>. USE WordsAssumption, SeqAssumption, LoadAssumption
<1>0. attempts[r] \in 0 .. MaxAttempts - 1 /\ attempts[r] + 1 \in 0 .. MaxAttempts
  BY DEF SeqlockInv, LockTypeOK, Loading
<1>1. OthersKept(r) /\ UNCHANGED storeVars
  BY DEF AttemptFails, SeqlockInv, LockTypeOK, OthersKept
<1>2. CASE attempts[r] + 1 = MaxAttempts
  <2>1. /\ rpc' = [rpc EXCEPT ![r] = "idle"]
        /\ result' = [result EXCEPT ![r] = EmptySnapshot]
        /\ floor' = [floor EXCEPT ![r] = 0]
        /\ attempts' = [attempts EXCEPT ![r] = attempts[r] + 1]
    BY <1>2 DEF AttemptFails
  <2>2. EmptySnapshot \in [Words -> Nat]
    BY DEF EmptySnapshot
  <2>3. LockTypeOK'
    BY <1>0, <2>1, <2>2 DEF SeqlockInv, LockTypeOK, storeVars
  <2>4. rpc'[r] = "idle" /\ floor'[r] = 0 /\ \A w \in Words : result'[r][w] = 0
    BY <2>1 DEF SeqlockInv, LockTypeOK, EmptySnapshot
  <2>5. /\ \A v, w \in Words : result'[r][v] = result'[r][w]
        /\ \A w \in Words : result'[r][w] >= floor'[r]
    BY <2>4
  <2>. QED  BY <1>1, <2>3, <2>4, <2>5, ReaderFrame
<1>3. CASE attempts[r] + 1 # MaxAttempts
  <2>1. /\ rpc' = [rpc EXCEPT ![r] = "begin"]
        /\ attempts' = [attempts EXCEPT ![r] = attempts[r] + 1]
        /\ UNCHANGED <<result, floor>>
    BY <1>3 DEF AttemptFails
  <2>2. LockTypeOK'
    BY <1>0, <2>1 DEF SeqlockInv, LockTypeOK, storeVars
  <2>3. rpc'[r] = "begin" /\ attempts'[r] < MaxAttempts
    <3>1. rpc'[r] = "begin" /\ attempts'[r] = attempts[r] + 1
      BY <2>1 DEF SeqlockInv, LockTypeOK
    <3>. QED  BY <1>0, <1>3, <3>1
  <2>4. /\ \A v, w \in Words : result'[r][v] = result'[r][w]
        /\ floor'[r] <= Finished
    BY <2>1, Zenon DEF SeqlockInv, LoadsWhole, Loading
  <2>. QED  BY <1>1, <2>2, <2>3, <2>4, ReaderFrame
<1>. QED  BY <1>2, <1>3

\* An attempt begins between two stores.
LEMMA LoadBeforeInv ==
  ASSUME SeqlockInv, NEW r \in Readers, LoadBefore(r)
  PROVE  SeqlockInv'
<1>. USE WordsAssumption, SeqAssumption, LoadAssumption
<1>1. LockTypeOK'
  BY DEF LoadBefore, SeqlockInv, LockTypeOK, storeVars
<1>2. wpc = "idle" /\ seq = (2 * stores) % SeqModulus /\ stores \in Nat
  <2>1. stores \in Nat /\ seq % 2 = 0
    BY DEF LoadBefore, SeqlockInv, LockTypeOK
  <2>2. CASE wpc = "idle"
    BY <2>1, <2>2 DEF SeqlockInv, SeqCounts, SeqCount
  <2>3. CASE wpc # "idle"
    <3>1. stores > 0 /\ seq = (2 * stores - 1) % SeqModulus
      BY <2>3 DEF SeqlockInv, SeqCounts, SeqCount
    <3>2. ((2 * stores - 1) % SeqModulus) % 2 = 1
      BY <2>1, <3>1, EvenIsIdle
    <3>. QED  BY <2>1, <3>1, <3>2
  <2>. QED  BY <2>2, <2>3
<1>3. CopyingBy(r)'
  <2>1. /\ before'[r] = (2 * begun'[r]) % SeqModulus
        /\ begun'[r] = stores /\ rindex'[r] = 0 /\ floor' = floor
        /\ UNCHANGED storeVars
    BY <1>2 DEF LoadBefore, SeqlockInv, LockTypeOK
  <2>2. floor[r] <= stores
    BY <1>2 DEF LoadBefore, SeqlockInv, Loading, Finished
  <2>3. 2 * (stores - stores) < SeqModulus /\ stores <= stores
    BY <1>2
  <2>4. \A w \in Words : ~(w < 0)
    BY DEF Words
  <2>. QED  BY <1>2, <2>1, <2>2, <2>3, <2>4 DEF CopyingBy, storeVars
<1>4. OthersKept(r) /\ UNCHANGED storeVars
  BY DEF LoadBefore, SeqlockInv, LockTypeOK, OthersKept
<1>5. /\ rpc'[r] = "copy"
      /\ floor'[r] <= Finished /\ attempts'[r] < MaxAttempts
      /\ \A v, w \in Words : result'[r][v] = result'[r][w]
  BY DEF LoadBefore, SeqlockInv, LockTypeOK, Loading, LoadsWhole
<1>. QED  BY <1>1, <1>3, <1>4, <1>5, ReaderFrame

\* load() copying one word preserves the invariant.
LEMMA LoadWordInv ==
  ASSUME SeqlockInv, NEW r \in Readers, LoadWord(r)
  PROVE  SeqlockInv'
<1>. USE WordsAssumption, SeqAssumption, LoadAssumption
<1>0. /\ rindex[r] \in Words /\ rindex[r] \in Nat /\ rindex[r] + 1 \in 0 .. WordCount
      /\ staging[r] \in [Words -> Nat]
      /\ words[rindex[r]] \in Nat
  <2>1. rindex[r] \in 0 .. WordCount /\ rindex[r] < WordCount
    BY DEF LoadWord, SeqlockInv, LockTypeOK
  <2>2. rindex[r] \in Words
    BY <2>1 DEF Words
  <2>. QED  BY <2>1, <2>2 DEF SeqlockInv, LockTypeOK
<1>1. /\ rpc[r] = "copy"
      /\ staging' = [staging EXCEPT ![r] = [staging[r] EXCEPT ![rindex[r]] = words[rindex[r]]]]
      /\ rindex' = [rindex EXCEPT ![r] = rindex[r] + 1]
      /\ UNCHANGED <<storeVars, rpc, before, attempts, begun, floor, result>>
  BY DEF LoadWord
<1>2. LockTypeOK'
  BY <1>0, <1>1 DEF SeqlockInv, LockTypeOK, storeVars
<1>3. CopyingBy(r)
  BY <1>1 DEF SeqlockInv, Copying
<1>4. CopyingBy(r)'
  <2>1. ASSUME stores = begun[r], NEW w \in Words, w < rindex[r] + 1
        PROVE  staging'[r][w] = begun[r]
    <3>1. wpc = "idle" /\ words[w] = stores
      BY <1>3, <2>1 DEF CopyingBy, SeqlockInv, WordsStored
    <3>2. CASE w = rindex[r]
      BY <1>0, <1>1, <2>1, <3>1, <3>2 DEF SeqlockInv, LockTypeOK
    <3>3. CASE w # rindex[r]
      <4>1. w < rindex[r]
        BY <1>0, <2>1, <3>3 DEF Words
      <4>2. staging'[r][w] = staging[r][w]
        BY <1>0, <1>1, <3>3 DEF SeqlockInv, LockTypeOK
      <4>. QED  BY <1>3, <2>1, <4>1, <4>2 DEF CopyingBy
    <3>. QED  BY <3>2, <3>3
  <2>2. rindex'[r] = rindex[r] + 1
    BY <1>1 DEF SeqlockInv, LockTypeOK
  <2>. QED  BY <1>1, <1>3, <2>1, <2>2 DEF CopyingBy, storeVars
<1>5. OthersKept(r) /\ UNCHANGED storeVars
  BY <1>1 DEF SeqlockInv, LockTypeOK, OthersKept
<1>6. /\ rpc'[r] = "copy"
      /\ floor'[r] <= Finished /\ attempts'[r] < MaxAttempts
      /\ \A v, w \in Words : result'[r][v] = result'[r][w]
  BY <1>1 DEF SeqlockInv, Loading, LoadsWhole
<1>. QED  BY <1>2, <1>4, <1>5, <1>6, ReaderFrame

\* seq_ unchanged: no store began since, so every word copied is of one snapshot.
LEMMA LoadDoneInv ==
  ASSUME SeqlockInv, NEW r \in Readers, LoadDone(r)
  PROVE  SeqlockInv'
<1>. USE WordsAssumption, SeqAssumption, LoadAssumption
<1>1. /\ rpc[r] = "copy" /\ rindex[r] = WordCount /\ seq = before[r]
      /\ result' = [result EXCEPT ![r] = staging[r]]
      /\ rpc' = [rpc EXCEPT ![r] = "idle"]
      /\ UNCHANGED <<storeVars, rindex, before, staging, attempts, begun, floor>>
  BY DEF LoadDone
<1>2. LockTypeOK'
  BY <1>1 DEF SeqlockInv, LockTypeOK, storeVars
<1>3. CopyingBy(r) /\ begun[r] \in Nat /\ stores \in Nat /\ floor[r] \in Nat
  BY <1>1 DEF SeqlockInv, Copying, LockTypeOK
<1>4. stores = begun[r]
  <2>. SUFFICES ASSUME stores # begun[r] PROVE FALSE
    OBVIOUS
  <2>0. /\ begun[r] < stores /\ 2 * (stores - begun[r]) < SeqModulus
        /\ before[r] = (2 * begun[r]) % SeqModulus
    BY <1>3 DEF CopyingBy
  <2>1. PICK m \in Nat : m = 2 * begun[r]
    BY <1>3
  <2>2. PICK n \in Nat : n = SeqCount /\ n \in {2 * stores, 2 * stores - 1}
    BY <1>3, <2>0 DEF SeqCount
  <2>3. m % SeqModulus = n % SeqModulus
    BY <1>1, <2>0, <2>1, <2>2 DEF SeqlockInv, SeqCounts
  <2>4. m < n /\ m <= n
    BY <1>3, <2>0, <2>1, <2>2
  <2>5. n < m + SeqModulus
    <3>1. n <= 2 * stores
      BY <1>3, <2>2
    <3>2. 2 * (stores - begun[r]) = 2 * stores - 2 * begun[r]
      BY <1>3
    <3>. QED  BY <1>3, <2>0, <2>1, <3>1, <3>2
  <2>6. m = n
    BY <2>3, <2>4, <2>5, SameSeq, Zenon
  <2>. QED  BY <2>4, <2>6
<1>5. \A w \in Words : staging[r][w] = begun[r]
  BY <1>1, <1>3, <1>4 DEF CopyingBy, Words
<1>6. rpc'[r] = "idle" /\ result'[r] = staging[r] /\ floor'[r] <= begun[r]
  BY <1>1, <1>3 DEF SeqlockInv, LockTypeOK, CopyingBy
<1>7. OthersKept(r) /\ UNCHANGED storeVars
  BY <1>1 DEF SeqlockInv, LockTypeOK, OthersKept
<1>8. /\ \A v, w \in Words : result'[r][v] = result'[r][w]
      /\ \A w \in Words : result'[r][w] >= floor'[r]
  BY <1>1, <1>3, <1>5, <1>6, Zenon
<1>. QED  BY <1>2, <1>6, <1>7, <1>8, ReaderFrame

\* Every step of the writer or a reader preserves the invariant.
LEMMA SeqlockInvNext == SeqlockInv /\ [LockNext]_lockVars => SeqlockInv'
<1>. USE WordsAssumption, SeqAssumption, LoadAssumption
<1>. SUFFICES ASSUME SeqlockInv, [LockNext]_lockVars PROVE SeqlockInv'
  OBVIOUS
<1>1. CASE Writer
  BY <1>1, StoreBeginInv, StoreWordInv, StoreEndInv DEF Writer
<1>2. ASSUME NEW r \in Readers, Reader(r) PROVE SeqlockInv'
  <2>1. CASE LoadBusy(r) \/ LoadTorn(r)
    <3>1. rpc[r] # "idle" /\ AttemptFails(r) /\ UNCHANGED <<storeVars, rindex, before, staging, begun>>
      BY <2>1 DEF LoadBusy, LoadTorn
    <3>. QED  BY <3>1, FailInv
  <2>. QED  BY <1>2, <2>1, StartLoadInv, LoadBeforeInv, LoadWordInv, LoadDoneInv DEF Reader
<1>3. CASE UNCHANGED lockVars
  BY <1>3 DEF lockVars, storeVars, loadVars, SeqlockInv, LockTypeOK, SeqCounts, SeqCount, WordsStored, Copying,
              CopyingBy, Loading, Finished, LoadsWhole, LoadsFresh
<1>. QED  BY <1>1, <1>2, <1>3 DEF LockNext

\* For every width of seq_, number of words and number of readers: every load
\* that returns is one snapshot, as of a single instant (seqlock.hpp:61-83).
THEOREM SeqlockLoadsWhole == LockSpec => [](LockTypeOK /\ LoadsWhole)
<1>. USE WordsAssumption, SeqAssumption, LoadAssumption
<1>1. SeqlockInv => LockTypeOK /\ LoadsWhole
  BY DEF SeqlockInv
<1>. QED  BY SeqlockInvInit, SeqlockInvNext, <1>1, PTL DEF LockSpec

\* A load that returns is no older than the newest snapshot whose store was
\* finished when load() was called.
THEOREM SeqlockLoadsFresh == LockSpec => []LoadsFresh
<1>. USE WordsAssumption, SeqAssumption, LoadAssumption
<1>1. SeqlockInv => LoadsFresh
  BY DEF SeqlockInv
<1>. QED  BY SeqlockInvInit, SeqlockInvNext, <1>1, PTL DEF LockSpec

-----------------------------------------------------------------------------
(* The run *)

IngestCounts == [pushed : Nat, dropped : Nat, gy : Nat, gyDropped : Nat]
EngineCounts == [applied : Nat, gy : Nat, emitted : Nat, dropped : Nat]
Snapshots == [applied : Nat, emitted : Nat, pushed : Nat, dropped : Nat, depth : Nat]
SunkUsage == [taken : Nat, dropped : Nat]

Typed ==
  /\ main \in {"stopped", "ingest", "count", "wait", "join_meter", "join_reporter", "drain"}
  /\ starts \in Nat
  /\ meterStop \in BOOLEAN /\ reporterStop \in BOOLEAN /\ exiting \in BOOLEAN
  /\ meterDepth \in Nat /\ gyDepth \in Nat /\ popped \in Nat /\ unreported \in Nat
  /\ recordRing \in Seq(Nat)
  /\ ingest \in IngestCounts
  /\ engine \in EngineCounts
  /\ building \in Snapshots /\ snap \in Snapshots
  /\ written \in Nat /\ errors \in Nat
  /\ sunk \in SunkUsage

\* The steps of publish_locked() that follow the copy of the engine's counters.
Publishing == {"publish_ingest", "publish_dropped", "publish_pushed", "publish_store"}

\* The main thread has set meter_stop_, and has joined the metering thread.
Closing == main \in {"join_meter", "join_reporter", "drain", "stopped"}
Joined == main \in {"join_reporter", "drain", "stopped"}

\* The metering thread's loop has ended, or the thread has not been started.
Ending == exiting \/ meterPc \in {"flush", "done"}

\* What the threads may assume of each other while the pipeline stops.
Handover ==
  /\ meterStop => Closing
  /\ reporterStop => Joined
  /\ Ending => Closing /\ meterDepth = 0 /\ gyDepth = 0
  /\ exiting => meterPc \in Publishing \cup {"flush", "publish_meter", "done"}
  /\ Ending /\ meterPc # "flush" => unreported = 0
  /\ Joined => meterPc = "done"
  /\ reporterPc \in {"last_drain", "done"} => Joined
  /\ main \in {"drain", "stopped"} => reporterPc = "done"
  /\ main = "stopped" => recordRing = << >>

\* What the last publish_locked() has read already is final.
LastPublish ==
  /\ exiting /\ meterPc \in Publishing =>
       building.applied = engine.applied /\ building.emitted = engine.emitted + engine.dropped
  /\ exiting /\ meterPc \in {"publish_dropped", "publish_store"} => building.pushed = ingest.pushed
  /\ exiting /\ meterPc \in {"publish_pushed", "publish_store"} => building.dropped = ingest.dropped
  /\ meterPc = "done" =>
       /\ snap.applied = engine.applied /\ snap.emitted = engine.emitted + engine.dropped
       /\ snap.pushed = ingest.pushed /\ snap.dropped = ingest.dropped
       /\ snap.depth = 0

RuntimeInv == Typed /\ NothingLost /\ Handover /\ LastPublish

\* The threads start in a state of the invariant.
LEMMA RuntimeInit == Init => RuntimeInv
<1> SUFFICES ASSUME Init PROVE RuntimeInv
  OBVIOUS
<1>1. Typed
  <2>1. ingest \in IngestCounts /\ engine \in EngineCounts /\ sunk \in SunkUsage
    BY DEF Init, IngestCounts, EngineCounts, SunkUsage
  <2>2. EmptySnap \in Snapshots
    BY DEF EmptySnap, Snapshots
  <2>3. << >> \in Seq(Nat) /\ 0 \in Nat
    OBVIOUS
  <2> QED
    BY <2>1, <2>2, <2>3, Zenon DEF Init, Typed
<1>2. NothingLost
  BY TotalEmpty DEF Init, NothingLost
<1>3. Handover
  BY DEF Init, Handover, Publishing, Closing, Joined, Ending
<1>4. LastPublish
  BY DEF Init, LastPublish, Publishing, EmptySnap
<1> QED
  BY <1>1, <1>2, <1>3, <1>4 DEF RuntimeInv

\* Counting keeps IngestStats a record of numbers.
LEMMA IngestKept ==
  ASSUME NEW r \in IngestCounts
  PROVE  /\ [r EXCEPT !.pushed = @ + 1] \in IngestCounts
         /\ [r EXCEPT !.dropped = @ + 1] \in IngestCounts
         /\ [r EXCEPT !.gy = @ + 1] \in IngestCounts
         /\ [r EXCEPT !.gy = @ + 1, !.gyDropped = @ + 1] \in IngestCounts
<1>1. /\ [r EXCEPT !.pushed = @ + 1] \in IngestCounts
      /\ [r EXCEPT !.dropped = @ + 1] \in IngestCounts
      /\ [r EXCEPT !.gy = @ + 1] \in IngestCounts
  BY DEF IngestCounts
<1>2. \A m, n \in Nat : [r EXCEPT !.gy = m, !.gyDropped = n] \in IngestCounts
  BY Zenon DEF IngestCounts
<1>3. r.gy + 1 \in Nat /\ r.gyDropped + 1 \in Nat
  BY DEF IngestCounts
<1> QED
  BY <1>1, <1>2, <1>3, Zenon

\* Counting keeps PipelineStats a record of numbers.
LEMMA EngineKept ==
  ASSUME NEW r \in EngineCounts, NEW n \in Nat
  PROVE  /\ [r EXCEPT !.applied = @ + n] \in EngineCounts
         /\ [r EXCEPT !.gy = @ + 1] \in EngineCounts
         /\ [r EXCEPT !.emitted = @ + 1] \in EngineCounts
         /\ [r EXCEPT !.dropped = @ + 1] \in EngineCounts
  BY DEF EngineCounts

\* Reading a counter into a snapshot keeps it a record of numbers.
LEMMA SnapshotKept ==
  ASSUME NEW r \in Snapshots, NEW m \in Nat, NEW n \in Nat
  PROVE  /\ [r EXCEPT !.applied = m, !.emitted = n] \in Snapshots
         /\ [r EXCEPT !.pushed = n] \in Snapshots
         /\ [r EXCEPT !.dropped = n] \in Snapshots
         /\ [r EXCEPT !.depth = n] \in Snapshots
  BY Zenon DEF Snapshots

\* The usage of a record is added to the usage sunk.
LEMMA SunkKept ==
  ASSUME NEW r \in SunkUsage, NEW n \in Nat
  PROVE  /\ [r EXCEPT !.taken = @ + n] \in SunkUsage
         /\ [r EXCEPT !.dropped = @ + n] \in SunkUsage
  BY DEF SunkUsage

\* What emit_record() leaves behind.
LEMMA EmissionTyped ==
  ASSUME Typed, EmitRecord \/ EmitNothing
  PROVE  /\ engine' \in EngineCounts /\ sunk' \in SunkUsage
         /\ recordRing' \in Seq(Nat) /\ unreported' \in Nat
<1>1. engine' \in EngineCounts
  BY EngineKept, Zenon DEF Typed, EmitRecord, EmitNothing
<1>2. sunk' \in SunkUsage
  BY SunkKept, Zenon DEF Typed, EmitRecord, EmitNothing
<1>3. unreported' \in Nat
  BY DEF Typed, EmitRecord, EmitNothing
<1>4. recordRing \in Seq(Nat) /\ unreported \in Nat
  BY Zenon DEF Typed
<1>5. Append(recordRing, unreported) \in Seq(Nat)
  BY <1>4
<1>6. recordRing' \in Seq(Nat)
  BY <1>4, <1>5, Zenon DEF EmitRecord, EmitNothing
<1> QED
  BY <1>1, <1>2, <1>3, <1>6, Zenon

\* Every step keeps the types.
LEMMA TypedNext ==
  ASSUME Typed, [Next]_vars
  PROVE  Typed'
<1> USE DEF Typed
<1>1. CASE Start
  <2>1. starts' \in Nat /\ popped' \in Nat
    BY <1>1 DEF Start
  <2> QED
    BY <1>1, <2>1, Zenon DEF Start
<1>2. CASE PushEvent
  <2>1. ingest' \in IngestCounts
    BY <1>2, IngestKept, Zenon DEF PushEvent
  <2> QED
    BY <1>2, <2>1 DEF PushEvent, MainKeeps, mainVars, meterVars, reportVars
<1>3. CASE CountPushed
  <2>1. ingest' \in IngestCounts
    BY <1>3, IngestKept, Zenon DEF CountPushed
  <2> QED
    BY <1>3, <2>1 DEF CountPushed, MainKeeps, mainVars, meterVars, reportVars
<1>4. CASE PushGy
  <2>1. ingest' \in IngestCounts
    BY <1>4, IngestKept, Zenon DEF PushGy
  <2> QED
    BY <1>4, <2>1 DEF PushGy, MainKeeps, mainVars, meterVars, reportVars
<1>5. CASE EndIngest
  BY <1>5 DEF EndIngest, MainKeeps, mainVars, meterVars, reportVars
<1>6. CASE SetMeterStop
  BY <1>6 DEF SetMeterStop, StopSteps, mainVars, meterVars, reportVars
<1>7. CASE JoinMeter
  BY <1>7 DEF JoinMeter, StopSteps, mainVars, meterVars, reportVars
<1>8. CASE JoinReporter
  BY <1>8 DEF JoinReporter, StopSteps, mainVars, meterVars, reportVars
<1>9. CASE Stopped
  <2>1. sunk' \in SunkUsage
    BY <1>9, TotalNat, SunkKept, Zenon DEF Stopped
  <2>2. recordRing' = << >>
    BY <1>9 DEF Stopped
  <2>3. written' \in Nat /\ errors' \in Nat
    BY <1>9 DEF Stopped
  <2> QED
    BY <1>9, <2>1, <2>2, <2>3 DEF Stopped, StopSteps, mainVars, meterVars, reportVars
<1>10. CASE PopBatch
  <2>1. PICK n \in Nat : n = SmallerOf(meterDepth, MeterBatch) /\ meterDepth - n \in Nat
    BY RuntimeAssumption DEF SmallerOf
  <2>2. engine' \in EngineCounts
    BY <1>10, <2>1, EngineKept, Zenon DEF PopBatch
  <2>3. unreported' \in Nat /\ meterDepth' \in Nat /\ popped' \in Nat
    BY <1>10, <2>1 DEF PopBatch
  <2> QED
    BY <1>10, <2>1, <2>2, <2>3 DEF PopBatch, MeterKeeps, SmallerOf, mainVars, meterVars, reportVars
<1>11. CASE ApplyGy
  <2>1. 0 \in Nat
    BY Zenon
  <2>2. engine' \in EngineCounts
    BY <1>11, <2>1, EngineKept, Zenon DEF ApplyGy
  <2> QED
    BY <1>11, <2>1, <2>2 DEF ApplyGy, MeterKeeps, mainVars, meterVars, reportVars
<1>12. CASE PollThenPublish
  <2>1. EmitRecord \/ EmitNothing
    BY <1>12, Zenon DEF PollThenPublish
  <2> QED
    BY <1>12, <2>1, EmissionTyped DEF PollThenPublish, MeterKeeps, mainVars, meterVars, reportVars
<1>13. CASE PublishMeter
  <2>1. engine.applied \in Nat /\ engine.emitted + engine.dropped \in Nat
    BY DEF EngineCounts
  <2>2. building' \in Snapshots
    BY <1>13, <2>1, SnapshotKept, Zenon DEF PublishMeter
  <2> QED
    BY <1>13, <2>1, <2>2 DEF PublishMeter, MeterKeeps, PublishKeeps, mainVars, meterVars, reportVars
<1>14. CASE PublishIngest
  <2>1. ingest.pushed \in Nat /\ ingest.dropped \in Nat
    BY DEF IngestCounts
  <2>2. building' \in Snapshots
    BY <1>14, <2>1, SnapshotKept, Zenon DEF PublishIngest
  <2> QED
    BY <1>14, <2>1, <2>2 DEF PublishIngest, MeterKeeps, PublishKeeps, mainVars, meterVars, reportVars
<1>15. CASE PublishIngestRest
  <2>1. ingest.pushed \in Nat /\ ingest.dropped \in Nat
    BY DEF IngestCounts
  <2>2. building' \in Snapshots
    BY <1>15, <2>1, SnapshotKept, Zenon DEF PublishIngestRest
  <2> QED
    BY <1>15, <2>1, <2>2 DEF PublishIngestRest, MeterKeeps, PublishKeeps, mainVars, meterVars, reportVars
<1>16. CASE PublishStore
  <2>1. snap' \in Snapshots
    BY <1>16, SnapshotKept, Zenon DEF PublishStore
  <2>2. building' \in Snapshots
    BY <1>16 DEF PublishStore, EmptySnap, Snapshots
  <2> QED
    BY <1>16, <2>1, <2>2 DEF PublishStore, MeterKeeps, PublishKeeps, EmptySnap, mainVars, meterVars, reportVars
<1>17. CASE CheckStop
  BY <1>17 DEF CheckStop, MeterKeeps, PublishKeeps, LoopEnds, mainVars, meterVars, reportVars
<1>18. CASE FinalFlush
  <2>1. EmitRecord \/ EmitNothing
    BY <1>18, Zenon DEF FinalFlush
  <2> QED
    BY <1>18, <2>1, EmissionTyped DEF FinalFlush, MeterKeeps, mainVars, meterVars, reportVars
<1>19. CASE ReporterTests
  BY <1>19 DEF ReporterTests, ReporterKeeps, mainVars, meterVars, reportVars
<1>20. CASE ReporterTakes
  <2>1. Head(recordRing) \in Nat /\ Tail(recordRing) \in Seq(Nat)
    <3>1. recordRing # << >> /\ recordRing \in Seq(Nat)
      BY <1>20, Zenon DEF ReporterTakes, TakeRecord
    <3>2. \A q \in Seq(Nat) : q # << >> => Head(q) \in Nat /\ Tail(q) \in Seq(Nat)
      OBVIOUS
    <3> QED
      BY <3>1, <3>2, Zenon
  <2>2. sunk' \in SunkUsage
    BY <1>20, <2>1, SunkKept, Zenon DEF ReporterTakes, TakeRecord
  <2>3. recordRing' \in Seq(Nat)
    BY <1>20, <2>1, Zenon DEF ReporterTakes, TakeRecord
  <2>4. written' \in Nat /\ errors' \in Nat
    BY <1>20 DEF ReporterTakes, TakeRecord
  <2> QED
    BY <1>20, <2>1, <2>2, <2>3, <2>4 DEF ReporterTakes, TakeRecord, ReporterKeeps, mainVars, meterVars, reportVars
<1>21. CASE ReporterDrained
  BY <1>21 DEF ReporterDrained, ReporterKeeps, mainVars, meterVars, reportVars
<1>22. CASE UNCHANGED vars
  BY <1>22 DEF vars, mainVars, meterVars, reportVars
<1> QED
  BY <1>1, <1>2, <1>3, <1>4, <1>5, <1>6, <1>7, <1>8, <1>9, <1>10, <1>11,
     <1>12, <1>13, <1>14, <1>15, <1>16, <1>17, <1>18, <1>19, <1>20, <1>21, <1>22, Zenon
     DEF Next, Ingesting, Stopping, Metering, Reporting

\* Every step keeps what the threads assume of each other.
LEMMA HandoverNext ==
  ASSUME Typed, Handover, [Next]_vars
  PROVE  Handover'
<1> USE DEF Typed, Handover, Publishing, Closing, Joined, Ending
<1>1. CASE Start
  BY <1>1 DEF Start
<1>2. CASE PushEvent
  BY <1>2 DEF PushEvent, MainKeeps, mainVars, meterVars, reportVars
<1>3. CASE CountPushed
  BY <1>3 DEF CountPushed, MainKeeps, mainVars, meterVars, reportVars
<1>4. CASE PushGy
  BY <1>4 DEF PushGy, MainKeeps, mainVars, meterVars, reportVars
<1>5. CASE EndIngest
  BY <1>5, Zenon DEF EndIngest, MainKeeps, mainVars, meterVars, reportVars
<1>6. CASE SetMeterStop
  BY <1>6 DEF SetMeterStop, StopSteps, mainVars, meterVars, reportVars
<1>7. CASE JoinMeter
  BY <1>7 DEF JoinMeter, StopSteps, mainVars, meterVars, reportVars
<1>8. CASE JoinReporter
  BY <1>8 DEF JoinReporter, StopSteps, mainVars, meterVars, reportVars
<1>9. CASE Stopped
  BY <1>9 DEF Stopped, StopSteps, mainVars, meterVars, reportVars
<1>10. CASE PopBatch
  BY <1>10 DEF PopBatch, MeterKeeps, SmallerOf, mainVars, meterVars, reportVars
<1>11. CASE ApplyGy
  BY <1>11 DEF ApplyGy, MeterKeeps, mainVars, meterVars, reportVars
<1>12. CASE PollThenPublish
  BY <1>12 DEF PollThenPublish, MeterKeeps, EmitRecord, EmitNothing, mainVars, meterVars, reportVars
<1>13. CASE PublishMeter
  BY <1>13 DEF PublishMeter, MeterKeeps, PublishKeeps, mainVars, meterVars, reportVars
<1>14. CASE PublishIngest
  BY <1>14 DEF PublishIngest, MeterKeeps, PublishKeeps, mainVars, meterVars, reportVars
<1>15. CASE PublishIngestRest
  BY <1>15 DEF PublishIngestRest, MeterKeeps, PublishKeeps, mainVars, meterVars, reportVars
<1>16. CASE PublishStore
  BY <1>16 DEF PublishStore, MeterKeeps, PublishKeeps, EmptySnap, mainVars, meterVars, reportVars
<1>17. CASE CheckStop
  BY <1>17 DEF CheckStop, MeterKeeps, PublishKeeps, LoopEnds, mainVars, meterVars, reportVars
<1>18. CASE FinalFlush
  <2>1. unreported' = 0
    BY <1>18 DEF FinalFlush, EmitRecord, EmitNothing
  <2> QED
    BY <1>18, <2>1 DEF FinalFlush, MeterKeeps, mainVars, meterVars, reportVars
<1>19. CASE ReporterTests
  BY <1>19, Zenon DEF ReporterTests, ReporterKeeps, mainVars, meterVars, reportVars
<1>20. CASE ReporterTakes
  BY <1>20 DEF ReporterTakes, TakeRecord, ReporterKeeps, mainVars, meterVars, reportVars
<1>21. CASE ReporterDrained
  BY <1>21, Zenon DEF ReporterDrained, ReporterKeeps, mainVars, meterVars, reportVars
<1>22. CASE UNCHANGED vars
  BY <1>22, Zenon DEF vars, mainVars, meterVars, reportVars
<1> QED
  BY <1>1, <1>2, <1>3, <1>4, <1>5, <1>6, <1>7, <1>8, <1>9, <1>10, <1>11,
     <1>12, <1>13, <1>14, <1>15, <1>16, <1>17, <1>18, <1>19, <1>20, <1>21, <1>22, Zenon
     DEF Next, Ingesting, Stopping, Metering, Reporting

\* No counter changes once the last publish_locked() has read it.
LEMMA LastPublishNext ==
  ASSUME Typed, Handover, LastPublish, [Next]_vars
  PROVE  LastPublish'
<1> USE DEF Typed, IngestCounts, EngineCounts, Snapshots, Handover, LastPublish, Publishing, Closing, Joined, Ending
<1>1. CASE Start
  BY <1>1 DEF Start
<1>2. CASE PushEvent
  BY <1>2 DEF PushEvent, MainKeeps, mainVars, meterVars, reportVars
<1>3. CASE CountPushed
  BY <1>3 DEF CountPushed, MainKeeps, mainVars, meterVars, reportVars
<1>4. CASE PushGy
  BY <1>4 DEF PushGy, MainKeeps, mainVars, meterVars, reportVars
<1>5. CASE EndIngest
  BY <1>5, Zenon DEF EndIngest, MainKeeps, mainVars, meterVars, reportVars
<1>6. CASE SetMeterStop
  BY <1>6, Zenon DEF SetMeterStop, StopSteps, mainVars, meterVars, reportVars
<1>7. CASE JoinMeter
  BY <1>7, Zenon DEF JoinMeter, StopSteps, mainVars, meterVars, reportVars
<1>8. CASE JoinReporter
  BY <1>8, Zenon DEF JoinReporter, StopSteps, mainVars, meterVars, reportVars
<1>9. CASE Stopped
  BY <1>9 DEF Stopped, StopSteps, mainVars, meterVars, reportVars
<1>10. CASE PopBatch
  BY <1>10 DEF PopBatch, MeterKeeps, SmallerOf, mainVars, meterVars, reportVars
<1>11. CASE ApplyGy
  BY <1>11, Zenon DEF ApplyGy, MeterKeeps, mainVars, meterVars, reportVars
<1>12. CASE PollThenPublish
  BY <1>12, Zenon DEF PollThenPublish, MeterKeeps, EmitRecord, EmitNothing, mainVars, meterVars, reportVars
<1>13. CASE PublishMeter
  BY <1>13 DEF PublishMeter, MeterKeeps, PublishKeeps, mainVars, meterVars, reportVars
<1>14. CASE PublishIngest
  BY <1>14, Zenon DEF PublishIngest, MeterKeeps, PublishKeeps, mainVars, meterVars, reportVars
<1>15. CASE PublishIngestRest
  BY <1>15, Zenon DEF PublishIngestRest, MeterKeeps, PublishKeeps, mainVars, meterVars, reportVars
<1>16. CASE PublishStore
  BY <1>16 DEF PublishStore, MeterKeeps, PublishKeeps, EmptySnap, mainVars, meterVars, reportVars
<1>17. CASE CheckStop
  BY <1>17, Zenon DEF CheckStop, MeterKeeps, PublishKeeps, LoopEnds, mainVars, meterVars, reportVars
<1>18. CASE FinalFlush
  BY <1>18 DEF FinalFlush, MeterKeeps, EmitRecord, EmitNothing, mainVars, meterVars, reportVars
<1>19. CASE ReporterTests
  BY <1>19, Zenon DEF ReporterTests, ReporterKeeps, mainVars, meterVars, reportVars
<1>20. CASE ReporterTakes
  BY <1>20 DEF ReporterTakes, TakeRecord, ReporterKeeps, mainVars, meterVars, reportVars
<1>21. CASE ReporterDrained
  BY <1>21, Zenon DEF ReporterDrained, ReporterKeeps, mainVars, meterVars, reportVars
<1>22. CASE UNCHANGED vars
  BY <1>22, Zenon DEF vars, mainVars, meterVars, reportVars
<1> QED
  BY <1>1, <1>2, <1>3, <1>4, <1>5, <1>6, <1>7, <1>8, <1>9, <1>10, <1>11,
     <1>12, <1>13, <1>14, <1>15, <1>16, <1>17, <1>18, <1>19, <1>20, <1>21, <1>22, Zenon
     DEF Next, Ingesting, Stopping, Metering, Reporting

\* The counters are numbers.
LEMMA BooksTyped ==
  ASSUME Typed
  PROVE  /\ engine.applied \in Nat /\ engine.gy \in Nat /\ engine.emitted \in Nat /\ engine.dropped \in Nat
         /\ ingest.pushed \in Nat /\ ingest.gy \in Nat /\ ingest.gyDropped \in Nat
         /\ sunk.taken \in Nat /\ sunk.dropped \in Nat
         /\ recordRing \in Seq(Nat) /\ Total(recordRing) \in Nat /\ Len(recordRing) \in Nat
         /\ unreported \in Nat /\ meterDepth \in Nat /\ gyDepth \in Nat /\ written \in Nat /\ errors \in Nat
<1>1. Total(recordRing) \in Nat /\ Len(recordRing) \in Nat
  BY TotalNat DEF Typed
<1> QED
  BY <1>1, Zenon DEF Typed, EngineCounts, IngestCounts, SunkUsage

\* A step that moves nothing and is no push of the main thread.
LEMMA NothingMoved ==
  ASSUME NothingLost, main = "count" <=> main' = "count",
         UNCHANGED <<meterDepth, gyDepth, recordRing, engine, ingest, unreported, sunk, written, errors>>
  PROVE  NothingLost'
  BY DEF NothingLost

\* push_event() and the count that follows it, and emit_gy_events().
LEMMA IngestBalanced ==
  ASSUME Typed, NothingLost, PushEvent \/ CountPushed \/ PushGy
  PROVE  NothingLost'
<1>1. /\ engine.applied \in Nat /\ engine.gy \in Nat /\ ingest.pushed \in Nat /\ ingest.gy \in Nat
      /\ ingest.gyDropped \in Nat /\ meterDepth \in Nat /\ gyDepth \in Nat
  BY BooksTyped
<1>2. ingest \in IngestCounts
  BY Zenon DEF Typed
<1>3. UNCHANGED <<recordRing, engine, unreported, sunk, written, errors>>
  BY DEF PushEvent, CountPushed, PushGy, MainKeeps, meterVars, reportVars
<1>4. SUFFICES /\ meterDepth' + engine.applied = ingest'.pushed + (IF main' = "count" THEN 1 ELSE 0)
               /\ engine.gy + gyDepth' + ingest'.gyDropped = ingest'.gy
  BY <1>3 DEF NothingLost
<1>5. /\ meterDepth + engine.applied = ingest.pushed + (IF main = "count" THEN 1 ELSE 0)
      /\ engine.gy + gyDepth + ingest.gyDropped = ingest.gy
  BY Zenon DEF NothingLost
<1>6. CASE PushEvent
  <2>1. CASE meterDepth < MeterCapacity
    BY <1>1, <1>5, <1>6, <2>1 DEF PushEvent
  <2>2. CASE ~(meterDepth < MeterCapacity)
    <3>1. ingest' = [ingest EXCEPT !.dropped = @ + 1] /\ UNCHANGED <<meterDepth, gyDepth, main>>
      BY <1>6, <2>2 DEF PushEvent
    <3>2. ingest'.pushed = ingest.pushed /\ ingest'.gy = ingest.gy /\ ingest'.gyDropped = ingest.gyDropped
      BY <1>2, <3>1 DEF IngestCounts
    <3> QED
      BY <1>5, <3>1, <3>2
  <2> QED
    BY <2>1, <2>2
<1>7. CASE CountPushed
  <2>1. /\ ingest' = [ingest EXCEPT !.pushed = @ + 1] /\ UNCHANGED <<meterDepth, gyDepth>>
        /\ main = "count" /\ main' = "ingest"
    BY <1>7 DEF CountPushed
  <2>2. ingest'.pushed = ingest.pushed + 1 /\ ingest'.gy = ingest.gy /\ ingest'.gyDropped = ingest.gyDropped
    BY <1>2, <2>1 DEF IngestCounts
  <2> QED
    BY <1>1, <1>5, <2>1, <2>2
<1>8. CASE PushGy
  <2>1. UNCHANGED <<main, meterDepth>>
    BY <1>8 DEF PushGy
  <2>2. CASE gyDepth < GyCapacity
    <3>1. gyDepth' = gyDepth + 1 /\ ingest' = [ingest EXCEPT !.gy = @ + 1]
      BY <1>8, <2>2 DEF PushGy
    <3>2. ingest'.pushed = ingest.pushed /\ ingest'.gy = ingest.gy + 1 /\ ingest'.gyDropped = ingest.gyDropped
      BY <1>2, <3>1 DEF IngestCounts
    <3> QED
      BY <1>1, <1>5, <2>1, <3>1, <3>2
  <2>3. CASE ~(gyDepth < GyCapacity)
    <3>1. gyDepth' = gyDepth /\ ingest' = [ingest EXCEPT !.gy = @ + 1, !.gyDropped = @ + 1]
      BY <1>8, <2>3 DEF PushGy
    <3>2. ingest'.pushed = ingest.pushed /\ ingest'.gy = ingest.gy + 1 /\ ingest'.gyDropped = ingest.gyDropped + 1
      BY <1>2, <3>1 DEF IngestCounts
    <3> QED
      BY <1>1, <1>5, <2>1, <3>1, <3>2
  <2> QED
    BY <2>2, <2>3
<1> QED
  BY <1>6, <1>7, <1>8

\* The metering thread takes events from its two rings.
LEMMA PopBalanced ==
  ASSUME Typed, NothingLost, PopBatch \/ ApplyGy
  PROVE  NothingLost'
<1>1. /\ engine.applied \in Nat /\ engine.gy \in Nat /\ ingest.gyDropped \in Nat /\ unreported \in Nat
      /\ sunk.taken \in Nat /\ sunk.dropped \in Nat /\ Total(recordRing) \in Nat
      /\ meterDepth \in Nat /\ gyDepth \in Nat
  BY BooksTyped
<1>2. engine \in EngineCounts
  BY Zenon DEF Typed
<1>3. UNCHANGED <<main, ingest, recordRing, sunk, written, errors>>
  BY DEF PopBatch, ApplyGy, MeterKeeps, mainVars, reportVars
<1>4. CASE PopBatch
  <2>1. PICK n \in Nat : n = SmallerOf(meterDepth, MeterBatch)
    BY <1>1, RuntimeAssumption DEF SmallerOf
  <2>2. /\ engine' = [engine EXCEPT !.applied = @ + n] /\ gyDepth' = gyDepth
        /\ unreported' = unreported + n /\ meterDepth' = meterDepth - n
    BY <1>4, <2>1 DEF PopBatch
  <2>3. engine'.applied = engine.applied + n /\ engine'.gy = engine.gy /\ engine'.emitted = engine.emitted
    BY <1>2, <2>2 DEF EngineCounts
  <2>4. meterDepth' + engine'.applied = meterDepth + engine.applied
    BY <1>1, <2>2, <2>3
  <2>5. unreported' + Total(recordRing) + sunk.taken + sunk.dropped
          = (unreported + Total(recordRing) + sunk.taken + sunk.dropped) + n
    BY <1>1, <2>2
  <2> QED
    BY <1>3, <2>2, <2>3, <2>4, <2>5 DEF NothingLost
<1>5. CASE ApplyGy
  <2>1. UNCHANGED <<meterDepth, unreported>>
    BY <1>5 DEF ApplyGy
  <2>2. CASE gyDepth > 0
    <3>1. gyDepth' = gyDepth - 1 /\ engine' = [engine EXCEPT !.gy = @ + 1]
      BY <1>5, <2>2 DEF ApplyGy
    <3>2. engine'.applied = engine.applied /\ engine'.gy = engine.gy + 1 /\ engine'.emitted = engine.emitted
      BY <1>2, <3>1 DEF EngineCounts
    <3>3. engine'.gy + gyDepth' = engine.gy + gyDepth
      BY <1>1, <3>1, <3>2
    <3> QED
      BY <1>3, <2>1, <3>2, <3>3 DEF NothingLost
  <2>3. CASE ~(gyDepth > 0)
    BY <1>3, <1>5, <2>1, <2>3 DEF ApplyGy, NothingLost
  <2> QED
    BY <2>2, <2>3
<1> QED
  BY <1>4, <1>5

\* emit_record() accounts for the usage that was not reported before.
LEMMA EmissionBalanced ==
  ASSUME Typed, NothingLost, EmitRecord \/ EmitNothing,
         UNCHANGED <<main, ingest, meterDepth, gyDepth, written, errors>>
  PROVE  NothingLost'
<1>1. /\ engine.emitted \in Nat /\ sunk.taken \in Nat /\ sunk.dropped \in Nat /\ Len(recordRing) \in Nat
      /\ recordRing \in Seq(Nat) /\ unreported \in Nat /\ Total(recordRing) \in Nat
      /\ written \in Nat /\ errors \in Nat
  BY BooksTyped
<1>2. engine \in EngineCounts /\ sunk \in SunkUsage
  BY Zenon DEF Typed
<1>3. CASE EmitNothing
  BY <1>3 DEF NothingLost, EmitNothing
<1>4. CASE EmitRecord /\ Len(recordRing) < RecordCapacity
  <2>1. /\ engine' = [engine EXCEPT !.emitted = @ + 1] /\ sunk' = sunk /\ unreported' = 0
        /\ recordRing' = Append(recordRing, unreported)
    BY <1>4 DEF EmitRecord
  <2>2. engine'.applied = engine.applied /\ engine'.gy = engine.gy /\ engine'.emitted = engine.emitted + 1
    BY <1>2, <2>1 DEF EngineCounts
  <2>3. Total(recordRing') = Total(recordRing) + unreported /\ Len(recordRing') = Len(recordRing) + 1
    BY <1>1, <2>1, TotalAppend
  <2>4. unreported' + Total(recordRing') + sunk'.taken + sunk'.dropped
          = unreported + Total(recordRing) + sunk.taken + sunk.dropped
    BY <1>1, <2>1, <2>3
  <2>5. written + errors + Len(recordRing') = (written + errors + Len(recordRing)) + 1
    BY <1>1, <2>3
  <2> QED
    BY <2>2, <2>4, <2>5 DEF NothingLost
<1>5. CASE EmitRecord /\ ~(Len(recordRing) < RecordCapacity)
  <2>1. /\ engine' = [engine EXCEPT !.dropped = @ + 1] /\ sunk' = [sunk EXCEPT !.dropped = @ + unreported]
        /\ unreported' = 0 /\ recordRing' = recordRing
    BY <1>5 DEF EmitRecord
  <2>2. engine'.applied = engine.applied /\ engine'.gy = engine.gy /\ engine'.emitted = engine.emitted
    BY <1>2, <2>1 DEF EngineCounts
  <2>3. sunk'.taken = sunk.taken /\ sunk'.dropped = sunk.dropped + unreported
    BY <1>2, <2>1 DEF SunkUsage
  <2>4. unreported' + Total(recordRing') + sunk'.taken + sunk'.dropped
          = unreported + Total(recordRing) + sunk.taken + sunk.dropped
    BY <1>1, <2>1, <2>3
  <2> QED
    BY <2>1, <2>2, <2>4 DEF NothingLost
<1> QED
  BY <1>3, <1>4, <1>5, Zenon

\* drain_records(), of the reporter and of stop().
LEMMA DrainBalanced ==
  ASSUME Typed, NothingLost, ReporterTakes \/ Stopped
  PROVE  NothingLost'
<1>1. /\ sunk.taken \in Nat /\ sunk.dropped \in Nat /\ Len(recordRing) \in Nat
      /\ recordRing \in Seq(Nat) /\ unreported \in Nat /\ Total(recordRing) \in Nat
      /\ written \in Nat /\ errors \in Nat
  BY BooksTyped
<1>2. sunk \in SunkUsage
  BY Zenon DEF Typed
<1>3. UNCHANGED <<ingest, engine, meterDepth, gyDepth, unreported>> /\ (main = "count" <=> main' = "count")
  BY DEF ReporterTakes, Stopped, ReporterKeeps, StopSteps, mainVars, meterVars
<1>4. PICK n \in Nat :
        /\ sunk' = [sunk EXCEPT !.taken = @ + n] /\ Total(recordRing) = n + Total(recordRing')
        /\ Total(recordRing') \in Nat
        /\ written' + errors' + Len(recordRing') = written + errors + Len(recordRing)
  <2>1. CASE ReporterTakes
    <3>1. /\ recordRing # << >> /\ recordRing' = Tail(recordRing)
          /\ sunk' = [sunk EXCEPT !.taken = @ + Head(recordRing)]
      BY <2>1, Zenon DEF ReporterTakes, TakeRecord
    <3>2. Head(recordRing) \in Nat /\ Tail(recordRing) \in Seq(Nat) /\ Len(recordRing') = Len(recordRing) - 1
      BY <1>1, <3>1
    <3>3. Total(recordRing) = Head(recordRing) + Total(recordRing') /\ Total(recordRing') \in Nat
      BY <1>1, <3>1, <3>2, TotalTail, TotalNat, Zenon
    <3>4. \/ written' = written + 1 /\ errors' = errors
          \/ errors' = errors + 1 /\ written' = written
      BY <2>1 DEF ReporterTakes, TakeRecord
    <3>5. PICK a \in Nat, b \in Nat, c \in Nat : a = written /\ b = errors /\ c = Len(recordRing)
      BY <1>1, Zenon
    <3>6. (a + 1) + b + (c - 1) = a + b + c /\ a + (b + 1) + (c - 1) = a + b + c
      OBVIOUS
    <3>7. written' + errors' + Len(recordRing') = written + errors + Len(recordRing)
      BY <3>2, <3>4, <3>5, <3>6, Zenon
    <3> QED
      BY <3>1, <3>2, <3>3, <3>7, Zenon
  <2>2. CASE Stopped
    <3>1. recordRing' = << >> /\ sunk' = [sunk EXCEPT !.taken = @ + Total(recordRing)]
      BY <2>2, Zenon DEF Stopped
    <3>2. Total(recordRing') = 0 /\ Len(recordRing') = 0
      BY <3>1, TotalEmpty
    <3>3. PICK failed \in 0 .. Len(recordRing) :
            written' = written + Len(recordRing) - failed /\ errors' = errors + failed
      BY <1>1, <2>2 DEF Stopped
    <3>4. written' + errors' + Len(recordRing') = written + errors + Len(recordRing)
      BY <1>1, <3>2, <3>3
    <3>5. Total(recordRing) = Total(recordRing) + Total(recordRing') /\ Total(recordRing') \in Nat
      BY <1>1, <3>2
    <3> QED
      BY <1>1, <3>1, <3>4, <3>5, Zenon
  <2> QED
    BY <2>1, <2>2
<1>5. sunk'.taken = sunk.taken + n /\ sunk'.dropped = sunk.dropped
  BY <1>2, <1>4 DEF SunkUsage
<1>6. unreported + Total(recordRing') + sunk'.taken + sunk'.dropped
        = unreported + Total(recordRing) + sunk.taken + sunk.dropped
  <2>1. PICK u \in Nat, a \in Nat, x \in Nat, d \in Nat :
          u = unreported /\ a = Total(recordRing') /\ x = sunk.taken /\ d = sunk.dropped
    BY <1>1, <1>4, Zenon
  <2>2. u + a + (x + n) + d = u + (n + a) + x + d
    OBVIOUS
  <2> QED
    BY <1>4, <1>5, <2>1, <2>2, Zenon
<1> QED
  BY <1>3, <1>4, <1>6 DEF NothingLost

\* Every step accounts for what it moves.
LEMMA NothingLostNext ==
  ASSUME Typed, NothingLost, [Next]_vars
  PROVE  NothingLost'
<1>1. CASE Start \/ EndIngest
  BY <1>1, NothingMoved DEF Start, EndIngest, MainKeeps, meterVars, reportVars
<1>2. CASE SetMeterStop \/ JoinMeter \/ JoinReporter
  BY <1>2, NothingMoved DEF SetMeterStop, JoinMeter, JoinReporter, StopSteps, meterVars
<1>3. CASE PublishMeter \/ PublishIngest \/ PublishIngestRest \/ PublishStore \/ CheckStop
  <2>1. PublishKeeps /\ MeterKeeps
    BY <1>3, Zenon DEF PublishMeter, PublishIngest, PublishIngestRest, PublishStore, CheckStop
  <2> QED
    BY <2>1, NothingMoved DEF PublishKeeps, MeterKeeps, mainVars, reportVars
<1>4. CASE PollThenPublish \/ FinalFlush
  <2>1. EmitRecord \/ EmitNothing
    BY <1>4, Zenon DEF PollThenPublish, FinalFlush
  <2>2. UNCHANGED <<main, ingest, meterDepth, gyDepth, written, errors>>
    BY <1>4 DEF PollThenPublish, FinalFlush, MeterKeeps, mainVars, reportVars
  <2> QED
    BY <2>1, <2>2, EmissionBalanced, Zenon
<1>5. CASE ReporterTests \/ ReporterDrained
  BY <1>5, NothingMoved DEF ReporterTests, ReporterDrained, ReporterKeeps, mainVars, meterVars
<1>6. CASE UNCHANGED vars
  BY <1>6, NothingMoved DEF vars, mainVars, meterVars, reportVars
<1> QED
  BY <1>1, <1>2, <1>3, <1>4, <1>5, <1>6, IngestBalanced, PopBalanced, DrainBalanced, Zenon
     DEF Next, Ingesting, Stopping, Metering, Reporting

\* RuntimeInv is inductive.
LEMMA RuntimeNext ==
  ASSUME RuntimeInv, [Next]_vars
  PROVE  RuntimeInv'
  BY TypedNext, NothingLostNext, HandoverNext, LastPublishNext, Zenon DEF RuntimeInv

\* At every instant every accepted event and every unit of its usage is in a
\* ring, in the engine, in a record or counted as dropped, whatever the sizes of
\* the rings, the batch and the number of restarts (main.cpp, meter_thread.cpp).
THEOREM RuntimeNothingLost == Spec => []NothingLost
  BY RuntimeInit, RuntimeNext, PTL DEF Spec, RuntimeInv

\* When stop() has returned, the rings are empty, both threads are gone and all
\* usage has been put into a record (runtime.hpp:83-84, meter_thread.cpp stop()).
THEOREM RuntimeStopSettles == Spec => []StopSettles
<1>1. RuntimeInv => StopSettles
  BY DEF RuntimeInv, Handover, Joined, Ending, StopSettles
<1> QED
  BY <1>1, RuntimeInit, RuntimeNext, PTL DEF Spec

\* The snapshot that stop() leaves stored has the final counters of the metering
\* and of the ingest thread (publish_locked() after the loop).
THEOREM RuntimeFinalCounters == Spec => []FinalCounters
<1>1. RuntimeInv => FinalCounters
  BY Zenon DEF RuntimeInv, Handover, LastPublish, Joined, FinalCounters
<1> QED
  BY <1>1, RuntimeInit, RuntimeNext, PTL DEF Spec
=============================================================================
