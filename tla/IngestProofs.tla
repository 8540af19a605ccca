---------------------------- MODULE IngestProofs ----------------------------
(***************************************************************************)
(* The packets of the ingest loop, for every capture, number of loops,     *)
(* batch size and ring size.                                               *)
(*                                                                         *)
(* ReplayExact: load() indexes the records of a file up to the first one   *)
(* that is cut, and a replay hands out all of them as often as asked.  The *)
(* invariant ReplayInv adds that loop_ stays below the number asked for    *)
(* until the replay is exhausted, and that the cursor is then at the end.  *)
(*                                                                         *)
(* PacketsAccounted: no packet and no event is counted twice or not at     *)
(* all.  The dispatch counts a packet in exactly one class, unless it is   *)
(* Diameter by its outer protocol and port, and makes an event in two of   *)
(* the classes (Classified); the event is pushed or counted as dropped     *)
(* (ProcessEffect).  The invariant AccountInv adds the types of the        *)
(* counters and of the queues; there is one lemma per action that moves a  *)
(* packet or an event from one account to another.                         *)
(*                                                                         *)
(* GtpuExact: the walk over the extension headers stops where the          *)
(* reference definition of a well-formed PDU says (ChainWalk), so a PDU is *)
(* metered if and only if it is well formed, and with its exact bytes      *)
(* (PduMetered).                                                           *)
(*                                                                         *)
(* ViewsInside: no parser takes bytes from outside the view it was given   *)
(* (ParseIpInside, EthernetInside, GtpuInside).                            *)
(*                                                                         *)
(* Both need to know what may lie in the batch: SourceOk says that an      *)
(* entry is a captured packet or, if its memory was reused, any bytes;     *)
(* FrameOk that the packet being processed is one of them.  What a         *)
(* captured packet is, PacketsAssumption says.                             *)
(***************************************************************************)
EXTENDS IngestLoop, NumberFacts, TLAPS

-----------------------------------------------------------------------------
(* Numbers *)

\* What is left of a view after a header that fits.
LEMMA StillLeft == \A a, b \in Nat : ~(b < 14 \/ b < a) => b - a \in Nat /\ b - a <= b
  OBVIOUS

\* What is left of a PDU after its headers.
LEMMA DeclaredLeft == \A a, d, s \in Nat : a <= d /\ d <= s - 8 => d - a \in Nat /\ d - a <= s
  OBVIOUS

\* What is left after the header of a Linux cooked capture.
LEMMA PastSll == \A n \in Nat : n > 16 => n - 16 \in Nat
  OBVIOUS

\* An empty view lies in every view.
LEMMA NoneLeft == 0 \in Nat /\ ~(0 >= 20) /\ \A n \in Nat : 0 <= n /\ 0 + 0 <= n
  OBVIOUS

\* An IPv6 extension header that ends in the packet.
LEMMA WalkedOn ==
  \A a, b, e \in Nat : 40 <= a /\ ~(a + b > e) => a + b \in Nat /\ 40 <= a + b /\ a + b <= e
  OBVIOUS

\* The lengths the L4 headers have at least.
LEMMA L4Lengths == L4MinLen["udp"] = 8 /\ \A p \in DOMAIN L4MinLen : L4MinLen[p] \in Nat
  BY DEF L4MinLen

\* The payload of what parse_ethernet() returns.
LEMMA PayloadOf == \A b, v : [valid |-> b, payload |-> v].payload = v
  OBVIOUS

\* What strip_link_layer() returns for a packet it cannot read.
LEMMA NotValid == \A e, v : [valid |-> FALSE, is_ethernet |-> e, payload |-> v].valid = FALSE
  OBVIOUS

\* What is not there has no length.
LEMMA NoHeader == NoBytes.size = 0 /\ ZeroExt.len \in Nat
  BY DEF NoBytes, View, ZeroExt

\* A packet without L4 header is not taken for GTP-U.
LEMMA NoPorts == NoL4.src_port # GtpuPort /\ NoL4.dst_port # GtpuPort
  BY DEF NoL4, GtpuPort

-----------------------------------------------------------------------------
(* What load() indexes *)

IndexStart == [off |-> 24, packets |-> << >>, malformed |-> 0, done |-> FALSE]

\* The recursive definition of the walk over the file has a solution.
LEMMA IndexWalkDef ==
  ASSUME NEW f, Len(f.records) \in Nat
  PROVE  /\ IndexWalk(f)[0] = IndexStart
         /\ \A i \in 1 .. Len(f.records) : IndexWalk(f)[i] = IndexStep(f.size, IndexWalk(f)[i - 1], f.records[i])
<1> DEFINE Step(w, i) == IndexStep(f.size, w, f.records[i])
           Body(n, p) == [i \in 0 .. n |-> IF i = 0 THEN IndexStart ELSE Step(p[i - 1], i)]
           T == {n \in Nat : \E p : p = Body(n, p)}
<1> HIDE DEF Step
<1>1. 0 \in T
  <2>1. [i \in 0 .. 0 |-> IndexStart] = Body(0, [i \in 0 .. 0 |-> IndexStart])
    OBVIOUS
  <2> QED
    BY <2>1, Zenon
<1>2. ASSUME NEW n \in Nat, n \in T PROVE n + 1 \in T
  <2>1. PICK p : p = Body(n, p)
    BY <1>2, Zenon
  <2> DEFINE k == [i \in 0 .. n + 1 |-> IF i = n + 1 THEN Step(p[n], n + 1) ELSE p[i]]
  <2>2. \A i \in 0 .. n : p[i] = IF i = 0 THEN IndexStart ELSE Step(p[i - 1], i)
    BY <2>1, Zenon
  <2>3. \A i \in 0 .. n : k[i] = p[i]
    OBVIOUS
  <2>4. k[n + 1] = Step(p[n], n + 1)
    OBVIOUS
  <2> HIDE DEF k
  <2>5. ASSUME NEW i \in 0 .. n + 1 PROVE k[i] = IF i = 0 THEN IndexStart ELSE Step(k[i - 1], i)
    <3>1. CASE i = n + 1
      <4>1. i - 1 = n /\ n \in 0 .. n /\ i # 0
        BY <3>1
      <4> QED
        BY <2>3, <2>4, <3>1, <4>1, Zenon
    <3>2. CASE i # n + 1
      <4>1. i \in 0 .. n /\ (i # 0 => i - 1 \in 0 .. n)
        BY <3>2
      <4> QED
        BY <2>2, <2>3, <4>1, Zenon
    <3> QED
      BY <3>1, <3>2, Zenon
  <2>6. k = [i \in 0 .. n + 1 |-> k[i]]
    BY Zenon DEF k
  <2>7. k = Body(n + 1, k)
    BY <2>5, <2>6, Zenon
  <2>8. n + 1 \in Nat
    OBVIOUS
  <2> QED
    BY <2>7, <2>8, Zenon
<1>3. \A n \in Nat : n \in T
  <2> HIDE DEF T
  <2> QED
    BY <1>1, <1>2, InductiveSet, Zenon
<1> DEFINE N == Len(f.records)
           P == IndexWalk(f)
<1>4. P = CHOOSE p : p = Body(N, p)
  BY Zenon DEF IndexWalk, IndexStart, Step
<1>5. \E p : p = Body(N, p)
  BY <1>3, Zenon
<1>6. P = Body(N, P)
  <2> HIDE DEF Body, P
  <2> QED
    BY <1>4, <1>5, Zenon
<1>7. \A i \in 0 .. N : P[i] = IF i = 0 THEN IndexStart ELSE Step(P[i - 1], i)
  <2> HIDE DEF P
  <2> QED
    BY <1>6, Zenon
<1> HIDE DEF P, N
<1>8. 0 \in 0 .. N /\ \A i \in 1 .. N : i \in 0 .. N /\ i # 0
  BY DEF N
<1>9. P[0] = IndexStart /\ \A i \in 1 .. N : P[i] = Step(P[i - 1], i)
  BY <1>7, <1>8, Zenon
<1> QED
  BY <1>9, Zenon DEF P, N, Step

\* Sizes of the records of a file with their headers, as far as they are numbers.
RecordSizes(f) == [i \in 1 .. Len(f.records) |-> 16 + f.records[i].size]
CaptureFile(f) ==
  /\ f.size \in Nat /\ f.records \in Seq(Range(f.records))
  /\ \A i \in DOMAIN f.records : f.records[i].size \in Nat

\* The first m records lie within the file, and m is n or the next one does not.
Holds(f, m, n) ==
  /\ 24 + SumTo(RecordSizes(f), m) <= f.size
  /\ m < n => 24 + SumTo(RecordSizes(f), m + 1) > f.size

\* Where the walk is after n records: it has indexed m of them.
WalkAt(f, m, n, w) ==
  /\ w.packets = SubSeq(f.records, 1, m) /\ w.off = 24 + SumTo(RecordSizes(f), m)
  /\ Holds(f, m, n)
  /\ m < n => w.done \/ w.off + 16 > f.size
  /\ w.done => m < n

\* The sums of record sizes are numbers and grow by one record at a time.
LEMMA RecordSums ==
  ASSUME NEW f, CaptureFile(f), NEW m \in Nat, m <= Len(f.records)
  PROVE  /\ Len(f.records) \in Nat /\ SumTo(RecordSizes(f), m) \in Nat
         /\ m < Len(f.records) =>
              /\ f.records[m + 1].size \in Nat
              /\ SumTo(RecordSizes(f), m + 1) = SumTo(RecordSizes(f), m) + (16 + f.records[m + 1].size)
<1>1. Len(f.records) \in Nat /\ DOMAIN f.records = 1 .. Len(f.records)
  BY DEF CaptureFile
<1> DEFINE n == Len(f.records)
           g == RecordSizes(f)
<1>2. \A i \in 1 .. n : f.records[i].size \in Nat /\ g[i] = 16 + f.records[i].size
  BY <1>1, Zenon DEF CaptureFile, RecordSizes
<1> HIDE DEF g, n
<1>3. \A i \in 1 .. n : g[i] \in Nat
  BY <1>2
<1>4. n \in Nat /\ m <= n
  BY <1>1 DEF n
<1>5. SumTo(g, m) \in Nat
  <2>1. \A i \in 1 .. m : g[i] \in Nat
    BY <1>3, <1>4
  <2> QED
    BY <2>1, SumToNat, Zenon
<1>6. ASSUME m < n
      PROVE  f.records[m + 1].size \in Nat /\ SumTo(g, m + 1) = SumTo(g, m) + (16 + f.records[m + 1].size)
  <2>1. m + 1 \in 1 .. n /\ \A i \in 1 .. m + 1 : g[i] \in Nat
    BY <1>3, <1>4, <1>6
  <2>2. SumTo(g, m + 1) = SumTo(g, m) + g[m + 1]
    BY <2>1, SumToStep, Zenon
  <2> QED
    BY <1>2, <2>1, <2>2, Zenon
<1> QED
  BY <1>4, <1>5, <1>6, Zenon DEF g, n

\* A prefix and the element after it.
LEMMA PrefixAppend ==
  ASSUME NEW S, NEW s \in Seq(S), NEW m \in Nat, m < Len(s)
  PROVE  Append(SubSeq(s, 1, m), s[m + 1]) = SubSeq(s, 1, m + 1)
OBVIOUS

\* One record more.
LEMMA WalkOneMore ==
  ASSUME NEW f, CaptureFile(f), NEW n \in Nat, n < Len(f.records), NEW m \in 0 .. n,
         NEW w, WalkAt(f, m, n, w)
  PROVE  \E k \in 0 .. n + 1 : WalkAt(f, k, n + 1, IndexStep(f.size, w, f.records[n + 1]))
<1> DEFINE rec == f.records[n + 1]
           v == IndexStep(f.size, w, rec)
           at == SumTo(RecordSizes(f), m)
           past == SumTo(RecordSizes(f), m + 1)
<1>0. Len(f.records) \in Nat
  BY DEF CaptureFile
<1>1. m \in Nat /\ m <= n /\ m < Len(f.records) /\ m <= Len(f.records) /\ n + 1 \in Nat
      /\ m \in 0 .. n + 1 /\ m + 1 \in 0 .. n + 1 /\ m < n + 1
  BY <1>0
<1>2. /\ at \in Nat /\ past = at + (16 + f.records[m + 1].size) /\ f.records[m + 1].size \in Nat
      /\ f.size \in Nat
  BY <1>1, RecordSums, Zenon DEF CaptureFile
<1>3. /\ w.packets = SubSeq(f.records, 1, m) /\ w.off = 24 + at /\ 24 + at <= f.size
      /\ m < n => 24 + past > f.size
      /\ m < n => w.done \/ w.off + 16 > f.size
      /\ w.done => m < n
  BY Zenon DEF WalkAt, Holds
<1> HIDE DEF v, at, past
<1>4. CASE w.done \/ w.off + 16 > f.size
  <2>1. v = w
    BY <1>4, Zenon DEF v, IndexStep
  <2>2. 24 + past > f.size
    <3>1. PICK r \in Nat, a \in Nat, z \in Nat :
            r = f.records[m + 1].size /\ a = at /\ z = f.size /\ past = a + (16 + r)
      BY <1>2, Zenon
    <3>2. CASE w.done
      BY <1>3, <3>2, Zenon
    <3>3. CASE w.off + 16 > f.size
      <4>1. (24 + a) + 16 > z
        BY <1>3, <3>1, <3>3, Zenon
      <4>2. 24 + (a + (16 + r)) > z
        BY <4>1
      <4> QED
        BY <3>1, <4>2, Zenon
    <3> QED
      BY <1>4, <3>2, <3>3, Zenon
  <2>3. Holds(f, m, n + 1)
    BY <1>3, <2>2, Zenon DEF Holds, at, past
  <2>4. WalkAt(f, m, n + 1, v)
    BY <1>1, <1>3, <1>4, <2>1, <2>3, Zenon DEF WalkAt, at
  <2> QED
    BY <1>1, <2>4, Zenon DEF v
<1>5. CASE ~(w.done \/ w.off + 16 > f.size)
  <2>1. ~(m < n)
    BY <1>3, <1>5, Zenon
  <2>2. m = n
    BY <1>1, <2>1
  <2>3. PICK x \in Nat, a \in Nat, z \in Nat : x = rec.size /\ a = at /\ z = f.size /\ past = a + (16 + x)
    BY <1>2, <2>2, Zenon
  <2>4. CASE rec.size > f.size - (w.off + 16)
    <3>1. v = [w EXCEPT !.done = TRUE, !.malformed = @ + 1]
      BY <1>5, <2>4, Zenon DEF v, IndexStep
    <3>2. v.done = TRUE /\ v.packets = w.packets /\ v.off = w.off
      BY <3>1
    <3>3. 24 + past > f.size
      <4>1. x > z - ((24 + a) + 16)
        BY <1>3, <2>3, <2>4, Zenon
      <4>2. 24 + (a + (16 + x)) > z
        BY <4>1
      <4> QED
        BY <2>3, <4>2, Zenon
    <3>4. Holds(f, m, n + 1)
      BY <1>3, <3>3, Zenon DEF Holds, at, past
    <3>5. WalkAt(f, m, n + 1, v)
      BY <1>1, <1>3, <3>2, <3>4, Zenon DEF WalkAt, at
    <3> QED
      BY <1>1, <3>5, Zenon DEF v
  <2>5. CASE ~(rec.size > f.size - (w.off + 16))
    <3>1. v = [w EXCEPT !.off = @ + 16 + rec.size, !.packets = Append(@, rec)]
      BY <1>5, <2>5, Zenon DEF v, IndexStep
    <3>2. v.done = w.done /\ v.off = w.off + 16 + rec.size /\ v.packets = Append(w.packets, rec)
      BY <3>1
    <3>3. w.done = FALSE \/ ~ w.done
      BY <1>5
    <3>4. v.packets = SubSeq(f.records, 1, m + 1)
      <4>1. f.records \in Seq(Range(f.records))
        BY Zenon DEF CaptureFile
      <4> QED
        BY <1>1, <1>3, <2>2, <3>2, <4>1, PrefixAppend, Zenon
    <3>5. v.off = 24 + past /\ 24 + past <= f.size /\ ~ (m + 1 < n + 1)
      <4>1. ~ (x > z - ((24 + a) + 16)) /\ v.off = (24 + a) + 16 + x
        BY <1>3, <2>3, <2>5, <3>2, Zenon
      <4>2. 24 + (a + (16 + x)) <= z /\ v.off = 24 + (a + (16 + x)) /\ ~ (n + 1 < n + 1)
        BY <4>1
      <4> QED
        BY <2>2, <2>3, <4>2, Zenon
    <3>6. Holds(f, m + 1, n + 1)
      BY <3>5, Zenon DEF Holds, past
    <3>7. WalkAt(f, m + 1, n + 1, v)
      BY <1>5, <3>2, <3>4, <3>5, <3>6, Zenon DEF WalkAt, past
    <3> QED
      BY <1>1, <3>7, Zenon DEF v
  <2> QED
    BY <2>4, <2>5, Zenon
<1> QED
  BY <1>4, <1>5, Zenon

\* load() indexes the records the file holds to their end, up to the first one
\* it does not.
LEMMA IndexHolds ==
  ASSUME NEW f, CaptureFile(f), f.size >= 24
  PROVE  \E m \in 0 .. Len(f.records) :
           Index(f).packets = SubSeq(f.records, 1, m) /\ Holds(f, m, Len(f.records))
<1> DEFINE N == Len(f.records)
           W == IndexWalk(f)
           T == {n \in Nat : n <= N => \E m \in 0 .. n : WalkAt(f, m, n, W[n])}
<1>1. N \in Nat /\ 0 \in Nat /\ 0 <= N /\ f.size \in Nat
  BY DEF CaptureFile
<1>2. W[0] = IndexStart /\ \A i \in 1 .. N : W[i] = IndexStep(f.size, W[i - 1], f.records[i])
  BY <1>1, IndexWalkDef, Zenon
<1> HIDE DEF W
<1>3. 0 \in T
  <2>1. SubSeq(f.records, 1, 0) = << >>
    BY DEF CaptureFile
  <2>2. SumTo(RecordSizes(f), 0) = 0
    BY SumToZero, Zenon
  <2>3. W[0].off = 24 /\ W[0].packets = << >> /\ W[0].done = FALSE
    BY <1>2 DEF IndexStart
  <2>4. 24 + 0 = 24 /\ 24 <= f.size /\ ~(0 < 0) /\ 0 \in 0 .. 0
    BY <1>1
  <2>5. WalkAt(f, 0, 0, W[0])
    BY <2>1, <2>2, <2>3, <2>4, Zenon DEF WalkAt, Holds
  <2> QED
    BY <1>1, <2>4, <2>5, Zenon
<1>4. ASSUME NEW n \in Nat, n \in T PROVE n + 1 \in T
  <2>1. CASE n + 1 <= N
    <3>1. n < N /\ n <= N /\ n + 1 \in 1 .. N /\ (n + 1) - 1 = n /\ n + 1 \in Nat
      BY <1>1, <2>1
    <3>2. PICK m \in 0 .. n : WalkAt(f, m, n, W[n])
      BY <1>4, <3>1, Zenon
    <3>3. \E k \in 0 .. n + 1 : WalkAt(f, k, n + 1, W[n + 1])
      BY <1>2, <3>1, <3>2, WalkOneMore, Zenon
    <3> QED
      BY <3>1, <3>3, Zenon
  <2>2. CASE ~(n + 1 <= N)
    <3>1. n + 1 \in Nat
      OBVIOUS
    <3> QED
      BY <2>2, <3>1, Zenon
  <2> QED
    BY <2>1, <2>2, Zenon
<1>5. \A n \in Nat : n \in T
  <2> HIDE DEF T
  <2> QED
    BY <1>3, <1>4, InductiveSet, Zenon
<1>6. N <= N
  BY <1>1
<1>7. PICK m \in 0 .. N : WalkAt(f, m, N, W[N])
  BY <1>1, <1>5, <1>6, Zenon
<1> QED
  BY <1>7, Zenon DEF WalkAt, Index, W

-----------------------------------------------------------------------------
(* The packets a replay hands out *)

Unopened == main \in {"open", "failed"}

\* loop_ counts the passes that have ended, the last one too once the replay is
\* exhausted.
Passing ==
  /\ ~exhausted => taken = cursor + loop * Len(packets) /\ (OptLoops # 0 => loop < OptLoops)
  /\ exhausted => /\ loop = OptLoops /\ OptLoops # 0 /\ cursor = Len(packets)
                  /\ taken = cursor + (loop - 1) * Len(packets)
Replaying ==
  /\ Len(packets) \in Nat /\ Len(packets) # 0
  /\ cursor \in 0 .. Len(packets) /\ loop \in Nat
  /\ Passing
Indexed ==
  /\ CaptureFile(file)
  /\ \E m \in 0 .. Len(file.records) :
       packets = SubSeq(file.records, 1, m) /\ Holds(file, m, Len(file.records))
Waiting ==
  /\ CaptureFile(file)
  /\ cursor = 0 /\ loop = 0 /\ taken = 0 /\ exhausted = FALSE
ReplayInv ==
  kind = "replay" =>
    /\ asked \in Nat
    /\ main = "open" => Waiting
    /\ ~Unopened => Replaying /\ Indexed

\* --loops modulo 2^32 is a number, and --loops itself if it fits.
LEMMA OptLoopsIs ==
  ASSUME asked \in Nat
  PROVE  OptLoops \in Nat /\ (asked < LoopWidth => OptLoops = asked)
<1>1. LoopWidth \in Nat /\ LoopWidth > 0
  BY SourceAssumption
<1>2. /\ asked % LoopWidth \in 0 .. LoopWidth - 1 /\ asked \div LoopWidth \in Nat
      /\ asked = LoopWidth * (asked \div LoopWidth) + (asked % LoopWidth)
  BY <1>1
<1>3. ASSUME asked < LoopWidth PROVE asked % LoopWidth = asked
  <2>1. PICK q \in Nat, r \in Nat, w \in Nat :
          /\ q = asked \div LoopWidth /\ r = asked % LoopWidth /\ w = LoopWidth
          /\ asked = w * q + r
    BY <1>1, <1>2
  <2>2. CASE q = 0
    BY <2>1, <2>2
  <2>3. CASE q # 0
    <3>1. PICK p \in Nat : q = 1 + p
      <4>1. q - 1 \in Nat /\ q = 1 + (q - 1)
        BY <2>3
      <4>. QED  BY <4>1
    <3>2. w * q = w + w * p /\ w * p \in Nat
      BY <3>1
    <3>. QED  BY <1>3, <2>1, <3>2
  <2>. QED  BY <2>2, <2>3
<1> QED
  BY <1>1, <1>2, <1>3 DEF OptLoops

\* A pass more is Len(packets) packets more.
LEMMA OnePass ==
  ASSUME NEW l \in Nat, NEW n \in Nat
  PROVE  (l + 1) * n = l * n + n /\ l * n \in Nat /\ (l + 1) - 1 = l /\ n + (l - 1) * n = l * n
OBVIOUS

\* The index is that of the records the file holds.
LEMMA IndexedImplies == Indexed => CapturedWhole(file, packets)
<1> SUFFICES ASSUME Indexed PROVE CapturedWhole(file, packets)
  OBVIOUS
<1>1. CaptureFile(file) /\ file.records \in Seq(Range(file.records))
  BY Zenon DEF Indexed, CaptureFile
<1>2. PICK m \in 0 .. Len(file.records) :
        packets = SubSeq(file.records, 1, m) /\ Holds(file, m, Len(file.records))
  BY Zenon DEF Indexed
<1> DEFINE N == Len(file.records)
           g == RecordSizes(file)
<1>3. N \in Nat /\ m \in Nat /\ m <= N
  BY <1>1, <1>2
<1>4. /\ Len(packets) = m /\ DOMAIN packets = 1 .. m
      /\ \A i \in 1 .. m : packets[i] = file.records[i]
      /\ m = N => packets = file.records
  BY <1>1, <1>2, <1>3
<1>0. Len(packets) <= Len(file.records) /\ \A i \in DOMAIN packets : packets[i] = file.records[i]
  BY <1>3, <1>4, Zenon
<1>5. \A i \in 1 .. N : g[i] = 16 + file.records[i].size /\ file.records[i].size \in Nat
  <2>1. DOMAIN file.records = 1 .. N
    BY <1>1
  <2> QED
    BY <1>1, <2>1, Zenon DEF CaptureFile, RecordSizes
<1> HIDE DEF g, N
<1>6. \A i \in 1 .. N : g[i] \in Nat
  BY <1>5
<1> DEFINE a == [i \in DOMAIN packets |-> 16 + packets[i].size]
           b == [i \in 1 .. Len(packets) + 1 |-> 16 + file.records[i].size]
<1>7. Total(a) = SumTo(g, m)
  <2>1. Len(a) = m /\ \A i \in 1 .. m : i \in 1 .. N /\ a[i] = 16 + file.records[i].size
    BY <1>3, <1>4
  <2>2. \A i \in 1 .. m : g[i] \in Nat /\ a[i] = g[i]
    BY <1>5, <1>6, <2>1, Zenon
  <2> HIDE DEF a
  <2> QED
    BY <1>3, <2>1, <2>2, SumToSame, Zenon DEF Total
<1>8. ASSUME m < N PROVE Total(b) = SumTo(g, m + 1)
  <2>1. Len(b) = m + 1 /\ m + 1 \in Nat
        /\ \A i \in 1 .. m + 1 : i \in 1 .. N /\ b[i] = 16 + file.records[i].size
    BY <1>3, <1>4, <1>8
  <2> HIDE DEF b
  <2>2. \A i \in 1 .. m + 1 : g[i] \in Nat /\ b[i] = g[i]
    BY <1>5, <1>6, <2>1, Zenon
  <2>3. PICK k \in Nat : k = m + 1
    BY <2>1, Zenon
  <2>4. SumTo(b, k) = SumTo(g, k)
    BY <2>2, <2>3, SumToSame, Zenon
  <2> QED
    BY <2>1, <2>3, <2>4, Zenon DEF Total
<1> HIDE DEF a, b
<1>9. PICK x \in Int, y \in Int, z \in Int : x = SumTo(g, m) /\ (m < N => y = SumTo(g, m + 1)) /\ z = file.size
  <2>1. SumTo(g, m) \in Nat /\ (m < N => SumTo(g, m + 1) \in Nat)
    <3>1. \A i \in 1 .. m : g[i] \in Nat
      BY <1>3, <1>6
    <3>2. ASSUME m < N PROVE m + 1 \in Nat /\ \A i \in 1 .. m + 1 : g[i] \in Nat
      BY <1>3, <1>6, <3>2
    <3> QED
      BY <1>3, <3>1, <3>2, SumToNat, Zenon
  <2>2. file.size \in Int /\ 0 \in Int /\ \A k \in Nat : k \in Int
    BY <1>1 DEF CaptureFile
  <2>3. CASE m < N
    BY <2>1, <2>2, <2>3, Zenon
  <2>4. CASE ~(m < N)
    BY <2>1, <2>2, <2>4, Zenon
  <2> QED
    BY <2>3, <2>4, Zenon
<1>10. 24 + x <= z /\ (m < N => 24 + y > z)
  BY <1>2, <1>9, Zenon DEF Holds, g, N
<1>11. x + 24 <= z /\ (m < N => y + 24 > z)
  BY <1>10
<1>12. m < N \/ m = N
  BY <1>3
<1> QED
  BY <1>0, <1>4, <1>7, <1>8, <1>9, <1>11, <1>12, Zenon DEF CapturedWhole, a, b

\* The invariant says what ReplayCounted says.
LEMMA ReplayInvImplies == ReplayInv => ReplayCounted
<1> SUFFICES ASSUME ReplayInv, kind = "replay", main \notin {"open", "failed"}
             PROVE  /\ cursor \in 0 .. Len(packets)
                    /\ taken = cursor + (IF exhausted THEN loop - 1 ELSE loop) * Len(packets)
                    /\ exhausted /\ asked < LoopWidth => taken = asked * Len(packets)
  BY DEF ReplayCounted
<1>1. Replaying /\ asked \in Nat
  BY DEF ReplayInv, Unopened
<1>2. taken = cursor + (IF exhausted THEN loop - 1 ELSE loop) * Len(packets)
  BY <1>1 DEF Replaying, Passing
<1>3. ASSUME exhausted, asked < LoopWidth PROVE taken = asked * Len(packets)
  <2>1. loop = asked /\ taken = Len(packets) + (loop - 1) * Len(packets)
    BY <1>1, <1>3, OptLoopsIs DEF Replaying, Passing
  <2>2. Len(packets) + (loop - 1) * Len(packets) = loop * Len(packets)
    BY <1>1, OnePass DEF Replaying
  <2> QED
    BY <2>1, <2>2
<1> QED
  BY <1>1, <1>2, <1>3 DEF Replaying

\* Before the file is opened nothing has been handed out.
LEMMA ReplayInit == Init => ReplayInv
<1> SUFFICES ASSUME Init, kind = "replay"
             PROVE  ReplayInv
  BY DEF ReplayInv
<1>1. PICK r \in Replays : file = r.file /\ asked = r.loops
  BY DEF Init, SourceInit
<1>2. asked \in Nat /\ CaptureFile(file)
  BY <1>1, ReplaysAssumption DEF CaptureFile
<1>3. main = "open" /\ cursor = 0 /\ loop = 0 /\ taken = 0 /\ exhausted = FALSE
  BY DEF Init, SourceInit
<1> QED
  BY <1>2, <1>3 DEF ReplayInv, Waiting, Unopened

\* The source opens with a capture of at least one packet and at its beginning.
LEMMA ReplayOpen ==
  ASSUME ReplayInv, Open
  PROVE  ReplayInv'
<1>1. main = "open" /\ kind' = kind /\ asked' = asked
  BY DEF Open, OpenReplay, OpenLive, sourceVars
<1> SUFFICES ASSUME kind = "replay"
             PROVE  ReplayInv'
  BY <1>1 DEF ReplayInv
<1>2. asked \in Nat /\ Waiting
  BY <1>1 DEF ReplayInv
<1>3. CASE main' = "failed"
  BY <1>1, <1>2, <1>3 DEF ReplayInv, Unopened
<1>4. CASE OpenReplay /\ main' = "test"
  <2> DEFINE ps == Index(file).packets
  <2>1. packets' = ps /\ ps # << >> /\ UNCHANGED <<file, cursor, loop, exhausted, taken>>
    BY <1>4 DEF OpenReplay, ReplayOpens
  <2>0. CaptureFile(file) /\ file.size >= 24
    BY <1>2, <1>4, Zenon DEF Waiting, OpenReplay, ReplayOpens, Loadable
  <2>8. PICK m \in 0 .. Len(file.records) : ps = SubSeq(file.records, 1, m) /\ Holds(file, m, Len(file.records))
    BY <2>0, IndexHolds, Zenon
  <2>9. ps \in Seq(Range(file.records))
    BY <2>0, <2>8 DEF CaptureFile
  <2>2. ps \in Seq(Range(file.records)) /\ cursor = 0 /\ loop = 0 /\ taken = 0 /\ exhausted = FALSE
    BY <1>2, <2>9 DEF Waiting
  <2> HIDE DEF ps
  <2>3. Len(packets') \in Nat /\ Len(packets') # 0
    BY <2>1, <2>2
  <2>4. OptLoops' = OptLoops /\ OptLoops \in Nat
    BY <1>1, <1>2, OptLoopsIs DEF OptLoops
  <2>5. taken' = cursor' + loop' * Len(packets')
    BY <2>1, <2>2, <2>3
  <2>6. Passing'
    BY <2>1, <2>2, <2>4, <2>5 DEF Passing
  <2>7. Replaying'
    BY <2>1, <2>2, <2>3, <2>6 DEF Replaying
  <2>10. Indexed'
    BY <2>0, <2>1, <2>8, Zenon DEF Indexed
  <2> QED
    BY <1>1, <1>2, <1>4, <2>7, <2>10 DEF ReplayInv
<1> QED
  BY <1>3, <1>4 DEF Open, OpenLive

\* A round of next_batch() that hands out a packet.
LEMMA ReplayHandsOut ==
  ASSUME Replaying, OptLoops \in Nat, ReplayPacket
  PROVE  Replaying'
<1> DEFINE n == Len(packets)
           at_end == cursor >= n
<1>1. /\ ~exhausted /\ exhausted' = exhausted /\ packets' = packets /\ OptLoops' = OptLoops
      /\ ~(at_end /\ LastLoop) /\ taken' = taken + 1
      /\ loop' = IF at_end THEN loop + 1 ELSE loop
      /\ cursor' = (IF at_end THEN 0 ELSE cursor) + 1
  BY DEF ReplayPacket, OptLoops
<1>2. /\ n \in Nat /\ n # 0 /\ cursor \in 0 .. n /\ loop \in Nat
      /\ taken = cursor + loop * n /\ (OptLoops # 0 => loop < OptLoops)
  BY <1>1 DEF Replaying, Passing
<1>3. (loop + 1) * n = loop * n + n /\ loop * n \in Nat
  BY <1>2, OnePass
<1>4. CASE at_end
  <2>1. cursor = n /\ loop' = loop + 1 /\ cursor' = 1 /\ (OptLoops # 0 => loop' < OptLoops)
    BY <1>1, <1>2, <1>4 DEF LastLoop
  <2>2. taken' = cursor' + loop' * n
    BY <1>1, <1>2, <1>3, <2>1
  <2> QED
    BY <1>1, <1>2, <2>1, <2>2 DEF Replaying, Passing
<1>5. CASE ~at_end
  <2>1. loop' = loop /\ cursor' = cursor + 1 /\ cursor' \in 0 .. n
    BY <1>1, <1>2, <1>5
  <2>2. taken' = cursor' + loop' * n
    BY <1>1, <1>2, <1>3, <2>1
  <2> QED
    BY <1>1, <1>2, <2>1, <2>2 DEF Replaying, Passing
<1> QED
  BY <1>4, <1>5

\* The round in which the last pass ends.
LEMMA ReplayStops ==
  ASSUME Replaying, OptLoops \in Nat, ReplayExhausted
  PROVE  Replaying'
<1>1. /\ ~exhausted /\ exhausted' = TRUE /\ LastLoop /\ loop' = loop + 1 /\ cursor >= Len(packets)
      /\ UNCHANGED <<packets, cursor, taken>> /\ OptLoops' = OptLoops
  BY DEF ReplayExhausted, OptLoops
<1>2. /\ Len(packets) \in Nat /\ Len(packets) # 0 /\ cursor \in 0 .. Len(packets) /\ loop \in Nat
      /\ taken = cursor + loop * Len(packets) /\ (OptLoops # 0 => loop < OptLoops)
  BY <1>1 DEF Replaying, Passing
<1>3. loop' = OptLoops /\ OptLoops # 0 /\ loop' - 1 = loop /\ cursor = Len(packets)
  BY <1>1, <1>2 DEF LastLoop
<1>4. Passing'
  BY <1>1, <1>2, <1>3 DEF Passing
<1> QED
  BY <1>1, <1>2, <1>4 DEF Replaying

\* When next_batch() returns, at most the buffer of a live capture has changed.
LEMMA Returned ==
  BatchFilled => /\ UNCHANGED <<kind, asked, file, link, replayVars, packets, unread, batch, taken>>
                 /\ UNCHANGED ingestVars /\ seen' = seen /\ (kind = "replay" => generation' = generation)
<1>1. LinuxNothing => /\ UNCHANGED <<kind, asked, file, link, replayVars, unread, batch, taken>>
                      /\ kind # "replay"
  <2>1. LinuxNothing => kind # "replay"
    BY DEF LinuxNothing
  <2> QED
    BY <2>1, Zenon DEF LinuxNothing
<1>2. UNCHANGED sourceVars => UNCHANGED <<kind, asked, file, link, replayVars, unread, batch, taken, generation>>
  BY Zenon DEF sourceVars, liveVars
<1>3. UNCHANGED replayVars => packets' = packets
  BY Zenon DEF replayVars
<1> QED
  BY <1>1, <1>2, <1>3, Zenon DEF BatchFilled

\* No step of the loop disturbs it.
LEMMA ReplayNext == ReplayInv /\ [Next]_vars => ReplayInv'
<1> SUFFICES ASSUME ReplayInv, [Next]_vars PROVE ReplayInv'
  OBVIOUS
<1>1. CASE UNCHANGED <<kind, asked, file, replayVars, taken>> /\ (Unopened' <=> Unopened)
           /\ (main' = "open" => main = "open")
  <2>1. /\ kind' = kind /\ asked' = asked /\ file' = file /\ packets' = packets /\ cursor' = cursor
        /\ loop' = loop /\ exhausted' = exhausted /\ taken' = taken
    BY <1>1, Zenon DEF replayVars
  <2>2. Waiting' = Waiting /\ Indexed' = Indexed /\ OptLoops' = OptLoops
    BY <2>1, Zenon DEF Waiting, Indexed, OptLoops
  <2>3. Replaying' = Replaying
    BY <2>1, <2>2, Zenon DEF Replaying, Passing
  <2> QED
    BY <1>1, <2>1, <2>2, <2>3, Zenon DEF ReplayInv
<1>2. CASE FillBatch
  <2>1. main = "fill" /\ main' = main /\ kind' = kind /\ asked' = asked
    BY <1>2, Zenon DEF FillBatch, Fill, ReplayPacket, ReplayExhausted, LinuxPacket, BpfRead, BpfPacket
  <2>2. CASE kind = "replay"
    <3>1. asked \in Nat /\ OptLoops \in Nat /\ Replaying /\ Indexed
      BY <2>1, <2>2, OptLoopsIs DEF ReplayInv, Unopened
    <3>2. ReplayPacket \/ ReplayExhausted
      BY <1>2, <2>2, Zenon DEF FillBatch, Fill, LinuxPacket, BpfRead, BpfPacket
    <3>3. Replaying'
      BY <3>1, <3>2, ReplayHandsOut, ReplayStops
    <3>4. packets' = packets /\ file' = file
      BY <3>2 DEF ReplayPacket, ReplayExhausted
    <3>5. Indexed'
      BY <3>1, <3>4, Zenon DEF Indexed
    <3> QED
      BY <2>1, <3>1, <3>3, <3>5 DEF ReplayInv
  <2> QED
    BY <2>1, <2>2 DEF ReplayInv
<1>3. CASE TestStop \/ BatchFilled \/ BatchDone
  <2>1. UNCHANGED <<kind, asked, file, replayVars, taken>>
    BY <1>3, Returned, Zenon DEF TestStop, BatchDone, sourceVars
  <2>2. ~Unopened /\ ~Unopened' /\ main' # "open"
    BY <1>3 DEF TestStop, BatchFilled, BatchDone, Unopened
  <2> QED
    BY <1>1, <2>1, <2>2, Zenon
<1>4. CASE ProcessPacket
  BY <1>1, <1>4, Zenon DEF ProcessPacket, Unopened
<1>5. CASE ProcessDiameter \/ MeterTakes \/ OnSignal \/ UNCHANGED vars
  BY <1>1, <1>5, Zenon DEF ProcessDiameter, MeterTakes, OnSignal, vars, sourceVars, Unopened
<1> QED
  BY <1>2, <1>3, <1>4, <1>5, ReplayOpen DEF Next, MainStep

\* However many packets fit into a batch and whenever the loop is stopped, a
\* replay hands out its capture pass by pass and, once exhausted, as often as
\* --loops asked (ingest_pcap.cpp, next_batch()).  The capture is the records of
\* the file up to the first one that is cut (pcap.hpp, load()).
THEOREM ReplayExactAlways == Spec => []ReplayExact
<1>1. ReplayInv => ReplayExact
  <2>1. ReplayInv => ReplayIndexed
    BY IndexedImplies, Zenon DEF ReplayInv, ReplayIndexed, Unopened
  <2> QED
    BY <2>1, ReplayInvImplies, Zenon DEF ReplayExact
<1> QED
  BY <1>1, ReplayInit, ReplayNext, PTL DEF Spec

-----------------------------------------------------------------------------
(* What a packet counts *)

IsSequence(s) == \E S : s \in Seq(S)

\* A push into a ring, or an entry more in the batch, makes it one longer.
LEMMA AppendLen ==
  ASSUME NEW s, NEW e, IsSequence(s)
  PROVE  /\ IsSequence(Append(s, e)) /\ Len(Append(s, e)) = Len(s) + 1
         /\ s \o <<e>> = Append(s, e) /\ s \o << >> = s /\ Len(s) \in Nat
<1>1. PICK S : s \in Seq(S)
  BY DEF IsSequence
<1>2. s \in Seq(S \cup {e}) /\ e \in S \cup {e}
  BY <1>1
<1>3. Append(s, e) \in Seq(S \cup {e}) /\ Len(Append(s, e)) = Len(s) + 1 /\ Len(s) \in Nat
  BY <1>2
<1>4. s \o <<e>> = Append(s, e) /\ s \o << >> = s
  BY <1>2
<1> QED
  BY <1>3, <1>4 DEF IsSequence

\* A pop from a ring, or an entry processed, makes it one shorter.
LEMMA TailLen ==
  ASSUME NEW s, IsSequence(s), s # << >>
  PROVE  IsSequence(Tail(s)) /\ Len(Tail(s)) = Len(s) - 1 /\ Len(s) \in Nat
<1>1. PICK S : s \in Seq(S)
  BY DEF IsSequence
<1>2. Tail(s) \in Seq(S) /\ Len(Tail(s)) = Len(s) - 1 /\ Len(s) \in Nat
  BY <1>1
<1> QED
  BY <1>2 DEF IsSequence

-----------------------------------------------------------------------------
(* The dispatch *)

\* The ways a packet leaves the dispatch: it is counted in class k, or in none if
\* it is Diameter (d = 1), and in no counter of frames or events; two classes have
\* an event.
Classes == {"non_ip", "not_gtpu_port", "gtpu_parse_errors", "gtpu_gpdus", "gtpu_control"}
Quiet == {"none", "non_ip", "not_gtpu_port", "gtpu_parse_errors"}
Metered == {"gtpu_gpdus", "gtpu_control"}
Beyond == {"frames", "events_pushed", "events_dropped", "gy_events", "gy_events_dropped"}
InClass(counts, k) == \A c \in Classes \cup Beyond : c \in counts <=> c = k
Classified(events, counts, d) ==
  \/ events = << >> /\ \E k \in Quiet : InClass(counts, k) /\ (k = "none" <=> d = 1)
  \/ (\E e : events = <<e>>) /\ d = 0 /\ \E k \in Metered : InClass(counts, k)
IsVerdict(v, d) ==
  /\ v = [counts |-> v.counts, events |-> v.events, outcome |-> v.outcome, diameter |-> v.diameter]
  /\ Classified(v.events, v.counts, d)

\* What process_ip() and process_gtpu() return is a verdict if its counts and
\* events go together.
LEMMA VerdictForm ==
  ASSUME NEW counts, NEW events, NEW outcm, NEW payload, NEW d, Classified(events, counts, d)
  PROVE  /\ IsVerdict(Verdict(counts, events, outcm), d)
         /\ IsVerdict([Verdict(counts, events, outcm) EXCEPT !.diameter = payload], d)
<1>1. [Verdict(counts, events, outcm) EXCEPT !.diameter = payload] =
        [counts |-> counts, events |-> events, outcome |-> outcm, diameter |-> payload]
  BY DEF Verdict
<1>2. IsVerdict([counts |-> counts, events |-> events, outcome |-> outcm, diameter |-> payload], d)
  BY DEF IsVerdict
<1>3. IsVerdict(Verdict(counts, events, outcm), d)
  BY DEF IsVerdict, Verdict
<1> QED
  BY <1>1, <1>2, <1>3

\* Whatever the IP and GTP-U parsers answer, process_ip() counts the packet in
\* just one class unless it is Diameter, and makes an event only of control and
\* user packets.
LEMMA DispatchClassified ==
  ASSUME NEW outer, NEW wire
  PROVE  IsVerdict(Dispatch(outer, wire), One(IsDiameter(outer)))
<1>1. ASSUME NEW h, NEW inner
      PROVE  IsVerdict(GtpuVerdict(h, inner, wire), 0)
  <2> DEFINE e == MeterEvent(h, inner, wire)
             user == {"gtpu_gpdus"} \cup (IF inner.valid THEN {} ELSE {"inner_parse_errors"})
  <2>1. /\ InClass({"gtpu_control"}, "gtpu_control") /\ InClass(user, "gtpu_gpdus")
        /\ InClass({"gtpu_parse_errors"}, "gtpu_parse_errors")
        /\ InClass({"gtpu_parse_errors", "truncated_frames"}, "gtpu_parse_errors")
    BY DEF InClass, Classes, Beyond
  <2>2. /\ Classified(<<e>>, {"gtpu_control"}, 0) /\ Classified(<<e>>, user, 0)
        /\ Classified(<< >>, {"gtpu_parse_errors"}, 0)
        /\ Classified(<< >>, {"gtpu_parse_errors", "truncated_frames"}, 0)
    <3> HIDE DEF e, user
    <3> QED
      BY <2>1 DEF Classified, Quiet, Metered
  <2>3. /\ IsVerdict(Verdict({"gtpu_control"}, <<e>>, "gtpu_control"), 0)
        /\ IsVerdict(Verdict(user, <<e>>, "metered"), 0)
        /\ IsVerdict(Verdict({"gtpu_parse_errors"}, << >>, "parse_error"), 0)
        /\ IsVerdict(Verdict({"gtpu_parse_errors", "truncated_frames"}, << >>, "parse_error"), 0)
    BY <2>2, VerdictForm, Zenon
  <2> QED
    BY <2>3 DEF GtpuVerdict
<1>2. IsVerdict(ProcessGtpu(ParseGtpu(outer.payload), wire), 0)
  BY <1>1 DEF ProcessGtpu
<1>3. Classified(<< >>, {}, 1) /\ Classified(<< >>, {"non_ip"}, 0) /\ Classified(<< >>, {"not_gtpu_port"}, 0)
  <2>1. InClass({}, "none") /\ InClass({"non_ip"}, "non_ip") /\ InClass({"not_gtpu_port"}, "not_gtpu_port")
    BY DEF InClass, Classes, Beyond
  <2> QED
    BY <2>1 DEF Classified, Quiet
<1>4. /\ IsVerdict(Verdict({"non_ip"}, << >>, "not_our_traffic"), 0)
      /\ IsVerdict(Verdict({"not_gtpu_port"}, << >>, "not_our_traffic"), 0)
      /\ IsVerdict([Verdict({}, << >>, "not_our_traffic") EXCEPT !.diameter = outer.payload], 1)
  BY <1>3, VerdictForm, Zenon
<1>5. One(IsDiameter(outer)) = IF IsDiameter(outer) THEN 1 ELSE 0
  BY Zenon DEF One
<1>6. CASE IsDiameter(outer)
  <2>1. outer.valid /\ outer.proto \in {"tcp", "sctp"} /\ cfg.parse_diameter /\ EitherPort(outer, DiameterPort)
    BY <1>6, Zenon DEF IsDiameter
  <2>2. outer.proto # "udp"
    BY <2>1
  <2>3. Dispatch(outer, wire) = [Verdict({}, << >>, "not_our_traffic") EXCEPT !.diameter = outer.payload]
    BY <2>1, <2>2, Zenon DEF Dispatch
  <2> QED
    BY <1>4, <1>5, <1>6, <2>3, Zenon
<1>7. CASE ~IsDiameter(outer)
  <2>1. Dispatch(outer, wire) \in {Verdict({"non_ip"}, << >>, "not_our_traffic"),
                                  ProcessGtpu(ParseGtpu(outer.payload), wire),
                                  Verdict({"not_gtpu_port"}, << >>, "not_our_traffic")}
    BY <1>7, Zenon DEF Dispatch, IsDiameter
  <2> QED
    BY <1>2, <1>4, <1>5, <1>7, <2>1, Zenon
<1> QED
  BY <1>6, <1>7, Zenon

-----------------------------------------------------------------------------
(* The counters *)

Seen == [skipped : Nat, ethernet : Nat, diameter : Nat, popped : Nat, gyPopped : Nat]
Typed ==
  /\ stats \in [Counters -> Nat]
  /\ seen \in Seen
  /\ taken \in Nat
  /\ IsSequence(batch) /\ IsSequence(meterRing) /\ IsSequence(gyRing)

ClassSum == stats.non_ip + stats.not_gtpu_port + stats.gtpu_parse_errors + stats.gtpu_gpdus + stats.gtpu_control

\* Count() adds one to the counters named and leaves the others.
LEMMA CountOnce ==
  ASSUME NEW names, stats \in [Counters -> Nat], Count(names)
  PROVE  /\ stats' \in [Counters -> Nat]
         /\ \A c \in Counters : c \in names => stats'[c] = stats[c] + 1
         /\ \A c \in Counters : c \notin names => stats'[c] = stats[c]
<1>1. stats' = [c \in Counters |-> stats[c] + (IF c \in names THEN 1 ELSE 0)]
  BY DEF Count
<1>2. \A c \in Counters : stats[c] \in Nat
  OBVIOUS
<1> HIDE DEF Counters
<1> QED
  BY <1>1, <1>2

\* The counters of IngestStats are natural numbers.
LEMMA CountersTyped ==
  ASSUME NEW s \in [Counters -> Nat]
  PROVE  /\ s.frames \in Nat /\ s.non_ip \in Nat /\ s.not_gtpu_port \in Nat
         /\ s.gtpu_parse_errors \in Nat /\ s.gtpu_gpdus \in Nat /\ s.gtpu_control \in Nat
         /\ s.gy_events \in Nat /\ s.events_pushed \in Nat /\ s.events_dropped \in Nat
         /\ s.gy_events_dropped \in Nat
  BY DEF Counters

\* process_frame() counts the frame on top of what process_ip() counts.
WithFrame(counts, base, extra) == extra \in {{}, {"frames"}} /\ counts = base \cup extra

\* What processing a packet of class k does to the counters, if its event was
\* counted as p.
Effect(k, p, extra) ==
  /\ stats' \in [Counters -> Nat]
  /\ \A c \in Classes : stats'[c] = IF c = k THEN stats[c] + 1 ELSE stats[c]
  /\ stats'.frames = IF extra = {} THEN stats.frames ELSE stats.frames + 1
  /\ stats'.events_pushed = IF p = "events_pushed" THEN stats.events_pushed + 1 ELSE stats.events_pushed
  /\ stats'.events_dropped = IF p = "events_dropped" THEN stats.events_dropped + 1 ELSE stats.events_dropped
  /\ stats'.gy_events = stats.gy_events /\ stats'.gy_events_dropped = stats.gy_events_dropped

\* A packet counted in class k, in frames if extra says so and in p, has the
\* effect of that class on IngestStats.
LEMMA NamesEffect ==
  ASSUME NEW base, NEW extra \in {{}, {"frames"}}, NEW k \in Quiet \cup Metered,
         NEW p \in {"none", "events_pushed", "events_dropped"},
         stats \in [Counters -> Nat], InClass(base, k), Count(base \cup extra \cup ({p} \ {"none"}))
  PROVE  Effect(k, p, extra)
<1> DEFINE names == base \cup extra \cup ({p} \ {"none"})
<1>1. /\ stats' \in [Counters -> Nat]
      /\ \A c \in Counters : stats'[c] = IF c \in names THEN stats[c] + 1 ELSE stats[c]
  BY CountOnce
<1>2. Classes \subseteq Counters /\ Beyond \subseteq Counters
  BY DEF Classes, Beyond, Counters
<1>3. \A c \in Classes : c \in names <=> c = k
  BY DEF InClass, Classes
<1>4. /\ "frames" \in names <=> extra # {}
      /\ "gy_events" \notin names /\ "gy_events_dropped" \notin names
  BY DEF InClass, Beyond, Quiet, Metered
<1>5. /\ "events_pushed" \in names <=> p = "events_pushed"
      /\ "events_dropped" \in names <=> p = "events_dropped"
  BY DEF InClass, Beyond, Quiet, Metered
<1> HIDE DEF names
<1> QED
  BY <1>1, <1>2, <1>3, <1>4, <1>5 DEF Effect, Beyond

\* The event of a packet that has one is pushed, or counted as dropped if the
\* ring is full.  Only a Diameter packet is in no class.
Unclassed(k, d) == k = "none" <=> d = 1
Pushed(k, p) ==
  \/ k \in Quiet /\ p = "none" /\ meterRing' = meterRing
  \/ k \in Metered /\ p = "events_pushed" /\ \E e : meterRing' = Append(meterRing, e)
  \/ k \in Metered /\ p = "events_dropped" /\ meterRing' = meterRing

\* The end of process_frame() or process_ip(): the packet is counted once and its
\* event pushed or dropped.
LEMMA ConcludesEffect ==
  ASSUME NEW packet, NEW view, NEW v, NEW base, NEW extra, NEW d, Typed,
         WithFrame(v.counts, base, extra), Classified(v.events, base, d), Concludes(packet, view, v)
  PROVE  \E k, p : Effect(k, p, extra) /\ Pushed(k, p) /\ Unclassed(k, d)
<1> DEFINE free == Len(meterRing) < MeterRingSize
           push == IF v.events = << >> THEN {} ELSE PushCounts(free)
<1>1. Count(v.counts \cup push) /\ meterRing' = IF free THEN meterRing \o v.events ELSE meterRing
  BY DEF Concludes
<1>2. stats \in [Counters -> Nat] /\ IsSequence(meterRing)
  BY DEF Typed
<1>3. v.counts \cup push = base \cup extra \cup push /\ extra \in {{}, {"frames"}}
  BY DEF WithFrame
<1>4. CASE v.events = << >> /\ \E k \in Quiet : InClass(base, k) /\ Unclassed(k, d)
  <2>1. PICK k \in Quiet : InClass(base, k) /\ Unclassed(k, d)
    BY <1>4, Zenon
  <2>2. push = {"none"} \ {"none"} /\ meterRing' = meterRing
    BY <1>1, <1>2, <1>4, AppendLen, Zenon
  <2>3. Count(base \cup extra \cup ({"none"} \ {"none"}))
    BY <1>1, <1>3, <2>2, Zenon
  <2>4. Effect(k, "none", extra)
    BY <1>2, <1>3, <2>1, <2>3, NamesEffect, Zenon
  <2> QED
    BY <2>1, <2>2, <2>4 DEF Pushed
<1>5. CASE (\E e : v.events = <<e>>) /\ d = 0 /\ \E k \in Metered : InClass(base, k)
  <2>1. PICK k \in Metered : InClass(base, k) /\ Unclassed(k, d)
    BY <1>5 DEF Metered, Unclassed
  <2> PICK e : v.events = <<e>>
    BY <1>5
  <2>2. CASE free
    <3>1. push = {"events_pushed"} \ {"none"}
      BY <2>1, <2>2 DEF PushCounts
    <3>2. meterRing' = Append(meterRing, e)
      BY <1>1, <1>2, <2>1, <2>2, AppendLen, Zenon
    <3>3. Count(base \cup extra \cup ({"events_pushed"} \ {"none"}))
      BY <1>1, <1>3, <3>1, Zenon
    <3>4. Effect(k, "events_pushed", extra)
      BY <1>2, <1>3, <2>1, <3>3, NamesEffect, Zenon
    <3> QED
      BY <2>1, <3>2, <3>4 DEF Pushed
  <2>3. CASE ~free
    <3>1. push = {"events_dropped"} \ {"none"}
      BY <2>1, <2>3 DEF PushCounts
    <3>2. meterRing' = meterRing
      BY <1>1, <2>3, Zenon
    <3>3. Count(base \cup extra \cup ({"events_dropped"} \ {"none"}))
      BY <1>1, <1>3, <3>1, Zenon
    <3>4. Effect(k, "events_dropped", extra)
      BY <1>2, <1>3, <2>1, <3>3, NamesEffect, Zenon
    <3> QED
      BY <2>1, <3>2, <3>4, Zenon DEF Pushed
  <2> QED
    BY <2>2, <2>3, Zenon
<1> QED
  BY <1>4, <1>5, Zenon DEF Classified, Unclassed

\* A packet raises the sum of the classes by one, or is in none of them.
LEMMA EffectSum ==
  ASSUME NEW k \in Quiet \cup Metered, NEW p, NEW extra, stats \in [Counters -> Nat], Effect(k, p, extra)
  PROVE  ClassSum' = IF k = "none" THEN ClassSum ELSE ClassSum + 1
<1>1. \A c \in Classes : stats'[c] = IF c = k THEN stats[c] + 1 ELSE stats[c]
  BY DEF Effect
<1>2. /\ stats'.non_ip = IF k = "non_ip" THEN stats.non_ip + 1 ELSE stats.non_ip
      /\ stats'.not_gtpu_port = IF k = "not_gtpu_port" THEN stats.not_gtpu_port + 1 ELSE stats.not_gtpu_port
      /\ stats'.gtpu_parse_errors =
           IF k = "gtpu_parse_errors" THEN stats.gtpu_parse_errors + 1 ELSE stats.gtpu_parse_errors
      /\ stats'.gtpu_gpdus = IF k = "gtpu_gpdus" THEN stats.gtpu_gpdus + 1 ELSE stats.gtpu_gpdus
      /\ stats'.gtpu_control = IF k = "gtpu_control" THEN stats.gtpu_control + 1 ELSE stats.gtpu_control
  BY <1>1 DEF Classes
<1>3. CASE k = "none"
  BY <1>2, <1>3, Zenon DEF ClassSum
<1>4. CASE k \in Classes
  <2>1. ClassSum' = ClassSum + 1
    BY <1>2, <1>4, CountersTyped DEF ClassSum, Classes
  <2> QED
    BY <1>4, <2>1 DEF Classes
<1> QED
  BY <1>3, <1>4 DEF Quiet, Metered, Classes

\* process_frame() and process_ip() as a whole.
LEMMA ProcessEffect ==
  ASSUME NEW packet, NEW layer, Typed, Process(packet, layer.payload, layer.is_ethernet)
  PROVE  \E k, p : /\ Effect(k, p, IF layer.is_ethernet THEN {"frames"} ELSE {}) /\ Pushed(k, p)
                  /\ Unclassed(k, One(IsDiameter(OuterIp(layer))))
<1> DEFINE is_ethernet == layer.is_ethernet
           view == layer.payload
           d == One(IsDiameter(OuterIp(layer)))
<1>1. CASE is_ethernet
  <2> DEFINE base == ProcessIp(ParseEthernet(view).payload, U16(view.size))
             v == [base EXCEPT !.counts = @ \cup {"frames"}]
  <2>1. Concludes(packet, view, v)
    BY <1>1 DEF Process, ProcessFrame
  <2>2. IsVerdict(base, d)
    <3>1. OuterIp(layer) = ParseIp(ParseEthernet(view).payload)
      BY <1>1, Zenon DEF OuterIp
    <3> QED
      BY <3>1, DispatchClassified, Zenon DEF ProcessIp
  <2> HIDE DEF base, d, view
  <2>3. v.counts = base.counts \cup {"frames"} /\ v.events = base.events
    BY <2>2 DEF IsVerdict
  <2>4. WithFrame(v.counts, base.counts, {"frames"}) /\ Classified(v.events, base.counts, d)
    BY <2>2, <2>3 DEF WithFrame, IsVerdict
  <2> HIDE DEF v
  <2>5. \E k, p : Effect(k, p, {"frames"}) /\ Pushed(k, p) /\ Unclassed(k, d)
    BY <2>1, <2>4, ConcludesEffect, Zenon
  <2> QED
    BY <1>1, <2>5, Zenon DEF d
<1>2. CASE ~is_ethernet
  <2> DEFINE v == ProcessIp(view, U16(view.size))
  <2>1. Concludes(packet, view, v)
    BY <1>2 DEF Process
  <2>2. IsVerdict(v, d)
    <3>1. OuterIp(layer) = ParseIp(view)
      BY <1>2, Zenon DEF OuterIp
    <3> QED
      BY <3>1, DispatchClassified, Zenon DEF ProcessIp
  <2> HIDE DEF v, d, view
  <2>3. WithFrame(v.counts, v.counts, {}) /\ Classified(v.events, v.counts, d)
    BY <2>2 DEF WithFrame, IsVerdict
  <2>4. \E k, p : Effect(k, p, {}) /\ Pushed(k, p) /\ Unclassed(k, d)
    BY <2>1, <2>3, ConcludesEffect, Zenon
  <2> QED
    BY <1>2, <2>4, Zenon DEF d
<1> QED
  BY <1>1, <1>2, Zenon

-----------------------------------------------------------------------------
(* Packets and events accounted for *)

\* The inductive invariant: PacketsAccounted with the classes summed up.
AccountInv ==
  /\ Typed
  /\ taken = Len(batch) + seen.skipped + seen.diameter + ClassSum
  /\ stats.frames = seen.ethernet
  /\ stats.gtpu_gpdus + stats.gtpu_control = stats.events_pushed + stats.events_dropped
  /\ stats.events_pushed = seen.popped + Len(meterRing)
  /\ stats.gy_events = seen.gyPopped + Len(gyRing) + stats.gy_events_dropped

\* The counts of the loop and the rings are natural numbers.
LEMMA Accounts ==
  ASSUME Typed
  PROVE  /\ ClassSum \in Nat /\ Len(batch) \in Nat /\ Len(meterRing) \in Nat /\ Len(gyRing) \in Nat
         /\ seen.skipped \in Nat /\ seen.ethernet \in Nat /\ seen.diameter \in Nat
         /\ seen.popped \in Nat /\ seen.gyPopped \in Nat /\ taken \in Nat
<1>1. Len(batch) \in Nat /\ Len(meterRing) \in Nat /\ Len(gyRing) \in Nat
  BY AppendLen DEF Typed
<1>2. ClassSum \in Nat
  BY CountersTyped DEF Typed, ClassSum
<1> QED
  BY <1>1, <1>2 DEF Typed, Seen

\* What the loop has seen is counted in natural numbers.
LEMMA SeenTyped == AccountInv => seen \in Seen
  BY DEF AccountInv, Typed

\* What the loop does to its counts for a packet it gives to the processor.
LEMMA SeenUpdate ==
  ASSUME NEW a \in Nat, NEW b \in Nat, seen \in Seen, seen' = [seen EXCEPT !.ethernet = @ + a, !.diameter = @ + b]
  PROVE  /\ seen' \in Seen /\ seen'.popped = seen.popped /\ seen'.gyPopped = seen.gyPopped
         /\ seen'.skipped = seen.skipped
         /\ seen'.ethernet = seen.ethernet + a /\ seen'.diameter = seen.diameter + b
<1>1. seen' = [skipped |-> seen.skipped, ethernet |-> seen.ethernet + a, diameter |-> seen.diameter + b,
               popped |-> seen.popped, gyPopped |-> seen.gyPopped]
  BY Zenon DEF Seen
<1>2. /\ seen.skipped \in Nat /\ seen.ethernet + a \in Nat /\ seen.diameter + b \in Nat
      /\ seen.popped \in Nat /\ seen.gyPopped \in Nat
  BY DEF Seen
<1>3. seen' \in Seen
  BY <1>1, <1>2, Zenon DEF Seen
<1> QED
  BY <1>1, <1>3

\* The inductive invariant says what PacketsAccounted says.
LEMMA AccountInvImplies == AccountInv => PacketsAccounted
  BY DEF AccountInv, PacketsAccounted, ClassSum

\* Nothing is counted before the source is opened.
LEMMA AccountInit == Init => AccountInv
<1> SUFFICES ASSUME Init
             PROVE  AccountInv
  OBVIOUS
<1>1. /\ stats = [c \in Counters |-> 0] /\ meterRing = << >> /\ gyRing = << >> /\ batch = << >> /\ taken = 0
      /\ seen = [skipped |-> 0, ethernet |-> 0, diameter |-> 0, popped |-> 0, gyPopped |-> 0]
  BY Zenon DEF Init, IngestInit, SourceInit
<1>2. << >> \in Seq({})
  OBVIOUS
<1>3. Typed
  BY <1>1, <1>2 DEF Typed, Seen, IsSequence
<1>4. \A c \in Counters : stats[c] = 0
  BY <1>1
<1> QED
  BY <1>1, <1>3, <1>4 DEF AccountInv, ClassSum, Counters

\* A packet that next_batch() appends is waiting in the batch.
LEMMA AccountFill ==
  ASSUME AccountInv, FillBatch
  PROVE  AccountInv'
<1>1. UNCHANGED <<stats, seen, meterRing, gyRing>>
  BY DEF FillBatch, ingestVars
<1>2. \/ taken' = taken + 1 /\ \E x : batch' = Append(batch, x)
      \/ taken' = taken /\ batch' = batch
  <2>1. CASE ReplayPacket
    BY <2>1 DEF ReplayPacket
  <2>2. CASE ReplayExhausted
    BY <2>2 DEF ReplayExhausted
  <2>3. CASE LinuxPacket
    BY <2>3 DEF LinuxPacket
  <2>4. CASE BpfRead
    BY <2>4 DEF BpfRead
  <2>5. CASE BpfPacket
    BY <2>5 DEF BpfPacket
  <2> QED
    BY <2>1, <2>2, <2>3, <2>4, <2>5 DEF FillBatch, Fill
<1>3. CASE taken' = taken /\ batch' = batch
  BY <1>1, <1>3, Zenon DEF AccountInv, Typed, ClassSum
<1>4. ASSUME taken' = taken + 1, NEW x, batch' = Append(batch, x)
      PROVE  AccountInv'
  <2>1. IsSequence(batch') /\ Len(batch') = Len(batch) + 1
    BY <1>4, AppendLen DEF AccountInv, Typed
  <2>2. taken' = taken + 1
    BY <1>4
  <2>3. Typed'
    <3>1. taken' \in Nat
      <4>1. taken \in Nat
        BY Zenon DEF AccountInv, Typed
      <4> QED
        BY <2>2, <4>1
    <3> QED
      BY <1>1, <2>1, <3>1, Zenon DEF AccountInv, Typed
  <2>4. ClassSum' = ClassSum
    BY <1>1 DEF ClassSum
  <2>5. taken' = Len(batch') + seen'.skipped + seen'.diameter + ClassSum'
    <3>1. PICK a \in Nat, b \in Nat, c \in Nat, d \in Nat :
            a = Len(batch) /\ b = seen.skipped /\ c = seen.diameter /\ d = ClassSum
      BY Accounts, Zenon DEF AccountInv
    <3>2. taken = a + b + c + d
      BY <3>1, Zenon DEF AccountInv
    <3>3. (a + b + c + d) + 1 = (a + 1) + b + c + d
      OBVIOUS
    <3>4. seen'.skipped = seen.skipped /\ seen'.diameter = seen.diameter
      BY <1>1
    <3> QED
      BY <2>1, <2>2, <2>4, <3>1, <3>2, <3>3, <3>4, Zenon
  <2> QED
    BY <1>1, <2>3, <2>5, Zenon DEF AccountInv
<1> QED
  BY <1>2, <1>3, <1>4

\* What a message or a Gy event counts leaves the counters of packets, frames
\* and meter events alone.
LEMMA DiameterCounts ==
  ASSUME stats \in [Counters -> Nat],
         NEW names \in SUBSET {"diameter_messages", "diameter_parse_errors", "gy_events", "gy_events_dropped"},
         Count(names)
  PROVE  /\ stats' \in [Counters -> Nat]
         /\ stats'.frames = stats.frames /\ stats'.events_pushed = stats.events_pushed
         /\ stats'.events_dropped = stats.events_dropped
         /\ stats'.gtpu_gpdus = stats.gtpu_gpdus /\ stats'.gtpu_control = stats.gtpu_control
         /\ ClassSum' = ClassSum
<1>1. \A c \in Counters : c \notin names => stats'[c] = stats[c]
  BY CountOnce
<1>2. \A c \in Classes \cup {"frames", "events_pushed", "events_dropped"} : stats'[c] = stats[c]
  BY <1>1 DEF Counters, Classes
<1>3. ClassSum' = ClassSum
  BY <1>2 DEF ClassSum, Classes
<1>4. stats' \in [Counters -> Nat]
  BY CountOnce
<1> QED
  BY <1>2, <1>3, <1>4 DEF Classes

\* process_diameter() counts messages.
LEMMA AccountMessage ==
  ASSUME AccountInv, DiameterMessage, UNCHANGED <<seen, taken, batch>>
  PROVE  AccountInv'
<1>1. PICK names \in {{"diameter_parse_errors"}, {"diameter_messages"}} : Count(names)
  BY DEF DiameterMessage, MessageParsed
<1>2. stats \in [Counters -> Nat]
  BY Zenon DEF AccountInv, Typed
<1>3. /\ stats' \in [Counters -> Nat] /\ stats'.frames = stats.frames
      /\ stats'.events_pushed = stats.events_pushed /\ stats'.events_dropped = stats.events_dropped
      /\ stats'.gtpu_gpdus = stats.gtpu_gpdus /\ stats'.gtpu_control = stats.gtpu_control
      /\ ClassSum' = ClassSum
  BY <1>1, <1>2, DiameterCounts
<1>4. stats'.gy_events = stats.gy_events /\ stats'.gy_events_dropped = stats.gy_events_dropped
  BY <1>1, <1>2, CountOnce DEF Counters
<1>5. meterRing' = meterRing /\ gyRing' = gyRing
  BY DEF DiameterMessage
<1>6. Typed'
  BY <1>3, <1>5, Zenon DEF AccountInv, Typed
<1> QED
  BY <1>3, <1>4, <1>5, <1>6, Zenon DEF AccountInv

\* emit_gy_events() counts each Gy event in gy_events and, if it finds no room,
\* in gy_events_dropped.
LEMMA AccountGy ==
  ASSUME AccountInv, EmitGyEvent, UNCHANGED <<seen, taken, batch>>
  PROVE  AccountInv'
<1>1. PICK names \in {{"gy_events"}, {"gy_events", "gy_events_dropped"}} :
        /\ Count(names)
        /\ gyRing' = IF "gy_events_dropped" \in names THEN gyRing ELSE Append(gyRing, Head(pending))
  BY DEF EmitGyEvent
<1>2. stats \in [Counters -> Nat] /\ IsSequence(gyRing)
  BY DEF AccountInv, Typed
<1>3. /\ stats' \in [Counters -> Nat] /\ stats'.frames = stats.frames
      /\ stats'.events_pushed = stats.events_pushed /\ stats'.events_dropped = stats.events_dropped
      /\ stats'.gtpu_gpdus = stats.gtpu_gpdus /\ stats'.gtpu_control = stats.gtpu_control
      /\ ClassSum' = ClassSum
  BY <1>1, <1>2, DiameterCounts
<1>4. /\ stats'.gy_events = stats.gy_events + 1
      /\ stats'.gy_events_dropped =
           IF "gy_events_dropped" \in names THEN stats.gy_events_dropped + 1 ELSE stats.gy_events_dropped
  BY <1>1, <1>2, CountOnce, Zenon DEF Counters
<1>5. /\ IsSequence(gyRing')
      /\ Len(gyRing') = IF "gy_events_dropped" \in names THEN Len(gyRing) ELSE Len(gyRing) + 1
  BY <1>1, <1>2, AppendLen
<1>6. meterRing' = meterRing
  BY DEF EmitGyEvent
<1>7. Typed'
  BY <1>3, <1>5, <1>6, Zenon DEF AccountInv, Typed
<1>8. stats'.gy_events = seen'.gyPopped + Len(gyRing') + stats'.gy_events_dropped
  <2>1. /\ stats.gy_events = seen.gyPopped + Len(gyRing) + stats.gy_events_dropped
        /\ seen.gyPopped \in Nat /\ Len(gyRing) \in Nat /\ stats.gy_events_dropped \in Nat
    <3>1. stats.gy_events_dropped \in Nat
      BY <1>2, CountersTyped
    <3> QED
      BY <3>1, Accounts, Zenon DEF AccountInv
  <2> QED
    BY <1>4, <1>5, <2>1
<1> QED
  BY <1>3, <1>6, <1>7, <1>8 DEF AccountInv

\* An event taken from a ring is with the metering thread.
LEMMA AccountPop ==
  ASSUME AccountInv, PopMeterEvent, seen' = [seen EXCEPT !.popped = @ + 1], UNCHANGED <<taken, batch>>
  PROVE  AccountInv'
<1>1. UNCHANGED <<stats, gyRing>> /\ ClassSum' = ClassSum
  BY DEF PopMeterEvent, ClassSum
<1>2. IsSequence(meterRing') /\ Len(meterRing') = Len(meterRing) - 1
  BY TailLen DEF PopMeterEvent, AccountInv, Typed
<1>3. /\ seen' \in Seen /\ seen'.popped = seen.popped + 1 /\ seen'.gyPopped = seen.gyPopped
      /\ seen'.skipped = seen.skipped /\ seen'.diameter = seen.diameter /\ seen'.ethernet = seen.ethernet
  BY SeenTyped DEF Seen
<1>4. Typed'
  BY <1>1, <1>2, <1>3, Zenon DEF AccountInv, Typed
<1>5. stats'.events_pushed = seen'.popped + Len(meterRing')
  <2>1. stats.events_pushed = seen.popped + Len(meterRing) /\ seen.popped \in Nat /\ Len(meterRing) \in Nat
    BY Accounts DEF AccountInv
  <2> QED
    BY <1>1, <1>2, <1>3, <2>1
<1> QED
  BY <1>1, <1>3, <1>4, <1>5 DEF AccountInv

\* A Gy event taken from its ring is with the metering thread.
LEMMA AccountGyPop ==
  ASSUME AccountInv, PopGyEvent, seen' = [seen EXCEPT !.gyPopped = @ + 1], UNCHANGED <<taken, batch>>
  PROVE  AccountInv'
<1>1. UNCHANGED <<stats, meterRing>> /\ ClassSum' = ClassSum
  BY DEF PopGyEvent, ClassSum
<1>2. IsSequence(gyRing') /\ Len(gyRing') = Len(gyRing) - 1
  BY TailLen DEF PopGyEvent, AccountInv, Typed
<1>3. /\ seen' \in Seen /\ seen'.popped = seen.popped /\ seen'.gyPopped = seen.gyPopped + 1
      /\ seen'.skipped = seen.skipped /\ seen'.diameter = seen.diameter /\ seen'.ethernet = seen.ethernet
  BY SeenTyped DEF Seen
<1>4. Typed'
  BY <1>1, <1>2, <1>3, Zenon DEF AccountInv, Typed
<1>5. stats'.gy_events = seen'.gyPopped + Len(gyRing') + stats'.gy_events_dropped
  <2>1. /\ stats.gy_events = seen.gyPopped + Len(gyRing) + stats.gy_events_dropped
        /\ seen.gyPopped \in Nat /\ Len(gyRing) \in Nat /\ stats.gy_events_dropped \in Nat
    BY Accounts, CountersTyped DEF AccountInv, Typed
  <2> QED
    BY <1>1, <1>2, <1>3, <2>1
<1> QED
  BY <1>1, <1>3, <1>4, <1>5 DEF AccountInv

\* One event more on either side of the books of the meter ring.
LEMMA OneMore ==
  ASSUME NEW a \in Nat, NEW b \in Nat
  PROVE  (a + 1) + b = a + b + 1 /\ a + (b + 1) = a + b + 1
  OBVIOUS

\* The event of a packet keeps the books of the meter ring: it goes in, or is
\* counted as dropped.
LEMMA PushedCounts ==
  ASSUME NEW k, NEW p, NEW extra, AccountInv, Effect(k, p, extra), Pushed(k, p)
  PROVE  /\ stats'.gtpu_gpdus + stats'.gtpu_control = stats'.events_pushed + stats'.events_dropped
         /\ stats'.events_pushed = seen.popped + Len(meterRing')
         /\ IsSequence(meterRing')
<1>1. /\ stats.gtpu_gpdus + stats.gtpu_control = stats.events_pushed + stats.events_dropped
      /\ stats.events_pushed = seen.popped + Len(meterRing)
      /\ stats.gtpu_gpdus \in Nat /\ stats.gtpu_control \in Nat /\ stats.events_pushed \in Nat
      /\ stats.events_dropped \in Nat /\ seen.popped \in Nat /\ Len(meterRing) \in Nat
  BY Accounts, CountersTyped, Zenon DEF AccountInv, Typed
<1>2. /\ stats'.gtpu_gpdus = IF k = "gtpu_gpdus" THEN stats.gtpu_gpdus + 1 ELSE stats.gtpu_gpdus
      /\ stats'.gtpu_control = IF k = "gtpu_control" THEN stats.gtpu_control + 1 ELSE stats.gtpu_control
      /\ stats'.events_pushed = IF p = "events_pushed" THEN stats.events_pushed + 1 ELSE stats.events_pushed
      /\ stats'.events_dropped = IF p = "events_dropped" THEN stats.events_dropped + 1 ELSE stats.events_dropped
  BY Zenon DEF Effect, Classes
<1>3. IsSequence(meterRing)
  BY Zenon DEF AccountInv, Typed
<1>4. CASE k \in Quiet /\ p = "none" /\ meterRing' = meterRing
  BY <1>1, <1>2, <1>3, <1>4, Zenon DEF Quiet
<1>5. k \in Metered => stats'.gtpu_gpdus + stats'.gtpu_control = stats.gtpu_gpdus + stats.gtpu_control + 1
  <2>1. CASE k = "gtpu_gpdus"
    <3>1. stats'.gtpu_gpdus = stats.gtpu_gpdus + 1 /\ stats'.gtpu_control = stats.gtpu_control
      BY <1>2, <2>1
    <3>2. PICK a \in Nat, b \in Nat : a = stats.gtpu_gpdus /\ b = stats.gtpu_control
      BY <1>1, Zenon
    <3>3. (a + 1) + b = a + b + 1
      OBVIOUS
    <3> QED
      BY <3>1, <3>2, <3>3, Zenon
  <2>2. CASE k = "gtpu_control"
    <3>1. stats'.gtpu_gpdus = stats.gtpu_gpdus /\ stats'.gtpu_control = stats.gtpu_control + 1
      BY <1>2, <2>2
    <3>2. stats.gtpu_gpdus + (stats.gtpu_control + 1) = stats.gtpu_gpdus + stats.gtpu_control + 1
      BY <1>1, OneMore, Zenon
    <3> QED
      BY <3>1, <3>2, Zenon
  <2> QED
    BY <2>1, <2>2 DEF Metered
<1>6. CASE k \in Metered /\ p = "events_pushed" /\ \E e : meterRing' = Append(meterRing, e)
  <2>1. IsSequence(meterRing') /\ Len(meterRing') = Len(meterRing) + 1
    BY <1>3, <1>6, AppendLen
  <2>2. stats'.events_pushed = stats.events_pushed + 1 /\ stats'.events_dropped = stats.events_dropped
    BY <1>2, <1>6
  <2>3. stats'.gtpu_gpdus + stats'.gtpu_control = stats.gtpu_gpdus + stats.gtpu_control + 1
    BY <1>5, <1>6
  <2>4. stats'.gtpu_gpdus + stats'.gtpu_control = stats'.events_pushed + stats'.events_dropped
    <3>1. (stats.events_pushed + 1) + stats.events_dropped = stats.events_pushed + stats.events_dropped + 1
      BY <1>1, OneMore, Zenon
    <3> QED
      BY <1>1, <2>2, <2>3, <3>1, Zenon
  <2>5. stats'.events_pushed = seen.popped + Len(meterRing')
    <3>1. seen.popped + (Len(meterRing) + 1) = seen.popped + Len(meterRing) + 1
      BY <1>1, OneMore, Zenon
    <3> QED
      BY <1>1, <2>1, <2>2, <3>1, Zenon
  <2> QED
    BY <2>1, <2>4, <2>5
<1>7. CASE k \in Metered /\ p = "events_dropped" /\ meterRing' = meterRing
  <2>1. stats'.events_pushed = stats.events_pushed /\ stats'.events_dropped = stats.events_dropped + 1
    BY <1>2, <1>7
  <2>2. stats'.gtpu_gpdus + stats'.gtpu_control = stats.gtpu_gpdus + stats.gtpu_control + 1
    BY <1>5, <1>7
  <2>3. stats'.gtpu_gpdus + stats'.gtpu_control = stats'.events_pushed + stats'.events_dropped
    <3>1. stats.events_pushed + (stats.events_dropped + 1) = stats.events_pushed + stats.events_dropped + 1
      BY <1>1, OneMore, Zenon
    <3> QED
      BY <1>1, <2>1, <2>2, <3>1, Zenon
  <2> QED
    BY <1>1, <1>3, <1>7, <2>1, <2>3
<1> QED
  BY <1>4, <1>6, <1>7, Zenon DEF Pushed

\* The books of the packets when one leaves the batch.
LEMMA TakenMoved ==
  ASSUME AccountInv, taken' = taken, Len(batch') = Len(batch) - 1, seen'.skipped = seen.skipped,
         \/ seen'.diameter = seen.diameter + 1 /\ ClassSum' = ClassSum
         \/ seen'.diameter = seen.diameter + 0 /\ ClassSum' = ClassSum + 1
  PROVE  taken' = Len(batch') + seen'.skipped + seen'.diameter + ClassSum'
<1>1. PICK a \in Nat : a = Len(batch)
  BY Accounts DEF AccountInv
<1>2. PICK b \in Nat : b = seen.skipped
  BY Accounts, Zenon DEF AccountInv
<1>3. PICK c \in Nat : c = seen.diameter
  BY Accounts DEF AccountInv
<1>4. PICK d \in Nat : d = ClassSum
  BY Accounts DEF AccountInv
<1>5. taken = a + b + c + d
  BY <1>1, <1>2, <1>3, <1>4 DEF AccountInv
<1>6. a + b + c + d = (a - 1) + b + (c + 1) + d /\ a + b + c + d = (a - 1) + b + (c + 0) + (d + 1)
  OBVIOUS
<1>7. CASE seen'.diameter = seen.diameter + 1 /\ ClassSum' = ClassSum
  BY <1>1, <1>2, <1>3, <1>4, <1>5, <1>6, <1>7, Zenon
<1>8. CASE seen'.diameter = seen.diameter + 0 /\ ClassSum' = ClassSum + 1
  BY <1>1, <1>2, <1>3, <1>4, <1>5, <1>6, <1>8, Zenon
<1> QED
  BY <1>7, <1>8

\* A packet given to the frame processor is counted in one class, or as Diameter.
LEMMA VerdictTaken ==
  ASSUME NEW k, NEW p, NEW extra, NEW d \in {0, 1}, AccountInv, Effect(k, p, extra), Pushed(k, p), Unclassed(k, d),
         seen'.diameter = seen.diameter + d
  PROVE  \/ seen'.diameter = seen.diameter + 1 /\ ClassSum' = ClassSum
         \/ seen'.diameter = seen.diameter + 0 /\ ClassSum' = ClassSum + 1
<1>1. k \in Quiet \cup Metered
  BY DEF Pushed
<1>2. stats \in [Counters -> Nat]
  BY Zenon DEF AccountInv, Typed
<1>3. ClassSum' = IF k = "none" THEN ClassSum ELSE ClassSum + 1
  BY <1>1, <1>2, EffectSum, Zenon
<1>4. CASE d = 1
  BY <1>3, <1>4, Zenon DEF Unclassed
<1>5. CASE d = 0
  <2>1. k # "none"
    BY <1>5 DEF Unclassed
  <2> QED
    BY <1>3, <1>5, <2>1, Zenon
<1> QED
  BY <1>4, <1>5

\* process_frame() counts the frame, process_ip() none, and neither a Gy event.
LEMMA VerdictFrames ==
  ASSUME NEW k, NEW p, NEW is_ethernet, AccountInv, Effect(k, p, IF is_ethernet THEN {"frames"} ELSE {}),
         seen'.ethernet = seen.ethernet + (IF is_ethernet THEN 1 ELSE 0)
  PROVE  /\ stats'.frames = seen'.ethernet /\ stats' \in [Counters -> Nat]
         /\ stats'.gy_events = stats.gy_events /\ stats'.gy_events_dropped = stats.gy_events_dropped
<1>1. /\ stats' \in [Counters -> Nat]
      /\ stats'.gy_events = stats.gy_events /\ stats'.gy_events_dropped = stats.gy_events_dropped
      /\ stats'.frames = IF is_ethernet THEN stats.frames + 1 ELSE stats.frames
  BY DEF Effect
<1>2. stats.frames = seen.ethernet /\ seen.ethernet \in Nat
  BY Accounts DEF AccountInv
<1> QED
  BY <1>1, <1>2

\* A packet given to the frame processor leaves the batch for one class, or is
\* Diameter.
LEMMA AccountVerdict ==
  ASSUME NEW packet, NEW layer, AccountInv, Process(packet, layer.payload, layer.is_ethernet),
         seen' \in Seen, seen'.popped = seen.popped, seen'.gyPopped = seen.gyPopped,
         seen'.skipped = seen.skipped,
         seen'.ethernet = seen.ethernet + (IF layer.is_ethernet THEN 1 ELSE 0),
         seen'.diameter = seen.diameter + One(IsDiameter(OuterIp(layer))),
         IsSequence(batch'), Len(batch') = Len(batch) - 1, taken' = taken
  PROVE  AccountInv'
<1> DEFINE d == One(IsDiameter(OuterIp(layer)))
<1>0. d \in {0, 1} /\ seen'.diameter = seen.diameter + d
  BY Zenon DEF One
<1>1. PICK k, p : Effect(k, p, IF layer.is_ethernet THEN {"frames"} ELSE {}) /\ Pushed(k, p) /\ Unclassed(k, d)
  BY ProcessEffect, Zenon DEF AccountInv
<1> HIDE DEF d
<1>2. gyRing' = gyRing
  BY Zenon DEF Process, Concludes
<1>3. taken' = Len(batch') + seen'.skipped + seen'.diameter + ClassSum'
  <2>1. \/ seen'.diameter = seen.diameter + 1 /\ ClassSum' = ClassSum
        \/ seen'.diameter = seen.diameter + 0 /\ ClassSum' = ClassSum + 1
    BY <1>0, <1>1, VerdictTaken, Zenon
  <2> QED
    BY <2>1, TakenMoved, Zenon
<1>4. /\ stats'.frames = seen'.ethernet /\ stats' \in [Counters -> Nat]
      /\ stats'.gy_events = stats.gy_events /\ stats'.gy_events_dropped = stats.gy_events_dropped
  BY <1>1, VerdictFrames, Zenon
<1>5. /\ stats'.gtpu_gpdus + stats'.gtpu_control = stats'.events_pushed + stats'.events_dropped
      /\ stats'.events_pushed = seen.popped + Len(meterRing') /\ IsSequence(meterRing')
  BY <1>1, PushedCounts, Zenon
<1>6. Typed'
  BY <1>2, <1>4, <1>5, Zenon DEF AccountInv, Typed
<1> QED
  BY <1>2, <1>3, <1>4, <1>5, <1>6, Zenon DEF AccountInv

\* A packet that strip_link_layer() rejects is skipped.
LEMMA AccountSkip ==
  ASSUME AccountInv, UNCHANGED ingestVars, seen' = [seen EXCEPT !.skipped = @ + 1],
         IsSequence(batch'), Len(batch') = Len(batch) - 1, taken' = taken
  PROVE  AccountInv'
<1>1. UNCHANGED <<stats, meterRing, gyRing>> /\ ClassSum' = ClassSum
  BY DEF ingestVars, ClassSum
<1>2. /\ seen' \in Seen /\ seen'.popped = seen.popped /\ seen'.gyPopped = seen.gyPopped
      /\ seen'.skipped = seen.skipped + 1 /\ seen'.diameter = seen.diameter /\ seen'.ethernet = seen.ethernet
  BY SeenTyped DEF Seen
<1>3. taken' = Len(batch') + seen'.skipped + seen'.diameter + ClassSum'
  <2>1. /\ taken = Len(batch) + seen.skipped + seen.diameter + ClassSum
        /\ Len(batch) \in Nat /\ seen.skipped \in Nat /\ seen.diameter \in Nat /\ ClassSum \in Nat
    BY Accounts DEF AccountInv
  <2> QED
    BY <1>1, <1>2, <2>1
<1>4. Typed'
  BY <1>1, <1>2, Zenon DEF AccountInv, Typed
<1> QED
  BY <1>1, <1>2, <1>3, <1>4 DEF AccountInv

\* What the loop counts of a packet that it gives to the frame processor.
LEMMA ViewSeen ==
  ASSUME NEW e, NEW same,
         seen \in Seen, seen' = [seen EXCEPT !.ethernet = @ + One(e), !.diameter = @ + One(same)]
  PROVE  /\ seen' \in Seen /\ seen'.popped = seen.popped /\ seen'.gyPopped = seen.gyPopped
         /\ seen'.skipped = seen.skipped
         /\ seen'.ethernet = seen.ethernet + One(e) /\ seen'.diameter = seen.diameter + One(same)
<1> DEFINE a == One(e)
           b == One(same)
<1>1. a \in Nat /\ b \in Nat
  BY DEF One
<1>2. seen' = [seen EXCEPT !.ethernet = @ + a, !.diameter = @ + b]
  BY Zenon
<1> HIDE DEF a, b
<1>3. /\ seen' \in Seen /\ seen'.popped = seen.popped /\ seen'.gyPopped = seen.gyPopped
      /\ seen'.skipped = seen.skipped
      /\ seen'.ethernet = seen.ethernet + a /\ seen'.diameter = seen.diameter + b
  BY <1>1, <1>2, SeenUpdate, Zenon
<1> QED
  BY <1>3, Zenon DEF a, b

\* A packet leaves the batch when it is processed.
LEMMA BatchShrinks ==
  ASSUME AccountInv, ProcessPacket
  PROVE  taken' = taken /\ IsSequence(batch') /\ Len(batch') = Len(batch) - 1
<1>1. taken' = taken /\ batch' = Tail(batch) /\ batch # << >>
  BY Zenon DEF ProcessPacket
<1>2. IsSequence(batch)
  BY DEF AccountInv, Typed
<1> QED
  BY <1>1, <1>2, TailLen

\* A packet is skipped for its link type or given to the frame processor.
LEMMA AccountView ==
  ASSUME NEW q, NEW layer, AccountInv, ProcessView(q, layer),
         IsSequence(batch'), Len(batch') = Len(batch) - 1, taken' = taken
  PROVE  AccountInv'
<1>1. CASE ~layer.valid
  BY <1>1, AccountSkip, Zenon DEF ProcessView
<1>2. CASE layer.valid
  <2> DEFINE same == IsDiameter(OuterIp(layer))
  <2>1. /\ Process(q, layer.payload, layer.is_ethernet)
        /\ seen' = [seen EXCEPT !.ethernet = @ + One(layer.is_ethernet), !.diameter = @ + One(same)]
    BY <1>2, Zenon DEF ProcessView
  <2>2. seen \in Seen
    BY SeenTyped, Zenon
  <2>3. /\ seen' \in Seen /\ seen'.popped = seen.popped /\ seen'.gyPopped = seen.gyPopped
        /\ seen'.skipped = seen.skipped
        /\ seen'.ethernet = seen.ethernet + One(layer.is_ethernet)
        /\ seen'.diameter = seen.diameter + One(same)
    <3> HIDE DEF same
    <3> QED
      BY <2>1, <2>2, ViewSeen, Zenon
  <2> QED
    BY <2>1, <2>3, AccountVerdict, Zenon DEF One
<1> QED
  BY <1>1, <1>2

\* The loop processes one packet of the batch.
LEMMA AccountProcess ==
  ASSUME AccountInv, ProcessPacket
  PROVE  AccountInv'
<1>1. PICK q : ProcessView(q, StripLinkLayer(link, View(Head(batch).packet.size, q.data)))
  BY Zenon DEF ProcessPacket
<1> QED
  BY <1>1, BatchShrinks, AccountView, Zenon

\* Whatever the capture holds and however the metering thread is scheduled, no
\* packet is lost between the source and IngestStats and no event between
\* IngestStats and the rings (main.cpp:361-374, pipeline.hpp:71-237).
THEOREM IngestAccounted == Spec => []PacketsAccounted
<1>1. ASSUME AccountInv, [Next]_vars
      PROVE  AccountInv'
  <2>1. CASE UNCHANGED <<batch, taken, stats, meterRing, gyRing, seen>>
    BY <1>1, <2>1, Zenon DEF AccountInv, Typed, ClassSum
  <2>2. CASE Open
    BY <2>1, <2>2, Zenon DEF Open, OpenReplay, OpenLive, sourceVars, ingestVars
  <2>3. CASE TestStop \/ BatchFilled \/ BatchDone \/ OnSignal \/ UNCHANGED vars
    BY <2>1, <2>3, Returned, Zenon DEF TestStop, BatchDone, OnSignal, vars, sourceVars, ingestVars
  <2>4. CASE ProcessDiameter
    BY <1>1, <2>4, AccountMessage, AccountGy DEF ProcessDiameter, sourceVars
  <2>5. CASE MeterTakes
    BY <1>1, <2>5, AccountPop, AccountGyPop DEF MeterTakes, sourceVars
  <2> QED
    BY <1>1, <2>2, <2>3, <2>4, <2>5, AccountFill, AccountProcess DEF Next, MainStep
<1> QED
  BY <1>1, AccountInit, AccountInvImplies, PTL DEF Spec

-----------------------------------------------------------------------------
(* The extension headers of a GTP-U PDU *)

ExtStart(first) == [status |-> "ok", next |-> first, links |-> 0, consumed |-> 0, qfi |-> NoQfi]

\* The recursive definition of the walk over the extension headers has a solution.
LEMMA ExtWalkDef ==
  ASSUME NEW area, NEW first
  PROVE  /\ ExtWalk(area, first)[0] = ExtStart(first)
         /\ \A i \in 1 .. MaxGtpuExts + 1 :
              ExtWalk(area, first)[i] = ExtStep(area.size, ExtWalk(area, first)[i - 1], ExtAt(area.data, i))
<1> DEFINE Step(w, i) == ExtStep(area.size, w, ExtAt(area.data, i))
           Body(n, p) == [i \in 0 .. n |-> IF i = 0 THEN ExtStart(first) ELSE Step(p[i - 1], i)]
           T == {n \in Nat : \E p : p = Body(n, p)}
<1> HIDE DEF Step
<1>1. 0 \in T
  <2>1. [i \in 0 .. 0 |-> ExtStart(first)] = Body(0, [i \in 0 .. 0 |-> ExtStart(first)])
    OBVIOUS
  <2> QED
    BY <2>1, Zenon
<1>2. ASSUME NEW n \in Nat, n \in T PROVE n + 1 \in T
  <2>1. PICK p : p = Body(n, p)
    BY <1>2, Zenon
  <2> DEFINE k == [i \in 0 .. n + 1 |-> IF i = n + 1 THEN Step(p[n], n + 1) ELSE p[i]]
  <2>2. \A i \in 0 .. n : p[i] = IF i = 0 THEN ExtStart(first) ELSE Step(p[i - 1], i)
    BY <2>1, Zenon
  <2>3. \A i \in 0 .. n : k[i] = p[i]
    OBVIOUS
  <2>4. k[n + 1] = Step(p[n], n + 1)
    OBVIOUS
  <2> HIDE DEF k
  <2>5. ASSUME NEW i \in 0 .. n + 1 PROVE k[i] = IF i = 0 THEN ExtStart(first) ELSE Step(k[i - 1], i)
    <3>1. CASE i = n + 1
      <4>1. i - 1 = n /\ n \in 0 .. n /\ i # 0
        BY <3>1
      <4> QED
        BY <2>3, <2>4, <3>1, <4>1, Zenon
    <3>2. CASE i # n + 1
      <4>1. i \in 0 .. n /\ (i # 0 => i - 1 \in 0 .. n)
        BY <3>2
      <4> QED
        BY <2>2, <2>3, <4>1, Zenon
    <3> QED
      BY <3>1, <3>2, Zenon
  <2>6. k = [i \in 0 .. n + 1 |-> k[i]]
    BY Zenon DEF k
  <2>7. k = Body(n + 1, k)
    BY <2>5, <2>6, Zenon
  <2>8. n + 1 \in Nat
    OBVIOUS
  <2> QED
    BY <2>7, <2>8, Zenon
<1>3. \A n \in Nat : n \in T
  <2> HIDE DEF T
  <2> QED
    BY <1>1, <1>2, InductiveSet, Zenon
<1> DEFINE N == MaxGtpuExts + 1
           P == ExtWalk(area, first)
<1>4. P = CHOOSE p : p = Body(N, p)
  BY Zenon DEF ExtWalk, ExtStart, Step
<1>5. N \in Nat
  BY GtpuAssumption
<1>6. \E p : p = Body(N, p)
  BY <1>3, <1>5, Zenon
<1>7. P = Body(N, P)
  <2> HIDE DEF Body, P
  <2> QED
    BY <1>4, <1>6, Zenon
<1>8. \A i \in 0 .. N : P[i] = IF i = 0 THEN ExtStart(first) ELSE Step(P[i - 1], i)
  <2> HIDE DEF P
  <2> QED
    BY <1>7, Zenon
<1> HIDE DEF P, N
<1>9. 0 \in 0 .. N /\ \A i \in 1 .. N : i \in 0 .. N /\ i # 0
  BY <1>5
<1>10. P[0] = ExtStart(first) /\ \A i \in 1 .. N : P[i] = Step(P[i - 1], i)
  BY <1>8, <1>9, Zenon
<1> QED
  BY <1>10, Zenon DEF P, N, Step

\* Lengths of the extension headers, in units of four bytes.
Units(exts) == [i \in 1 .. Len(exts) |-> exts[i].units]
Chain(exts) == exts \in Seq(Range(exts)) /\ \A i \in DOMAIN exts : exts[i].units \in Nat
SizeOf(exts, n) == 4 * SumTo(Units(exts), n)

\* The first n headers are there, none of them is empty or the last one.
GoesOn(first, exts, n) ==
  /\ first # "none" /\ n <= Len(exts)
  /\ \A i \in 1 .. n : exts[i].units > 0 /\ exts[i].next # "none"

\* The chain has n headers.
Ends(first, exts, n) ==
  IF n = 0 THEN first = "none"
  ELSE first # "none" /\ n <= Len(exts)
       /\ \A i \in 1 .. n : exts[i].units > 0 /\ (exts[i].next = "none" <=> i = n)

\* The sums of lengths are numbers, and grow.
LEMMA ChainSums ==
  ASSUME NEW exts, Chain(exts), NEW n \in Nat, n <= Len(exts)
  PROVE  /\ Len(exts) \in Nat /\ SizeOf(exts, n) \in Nat /\ SizeOf(exts, 0) = 0
         /\ n < Len(exts) => /\ exts[n + 1].units \in Nat
                             /\ SizeOf(exts, n + 1) = SizeOf(exts, n) + 4 * exts[n + 1].units
<1>1. Len(exts) \in Nat /\ DOMAIN exts = 1 .. Len(exts)
  BY DEF Chain
<1> DEFINE N == Len(exts)
           g == Units(exts)
<1>2. \A i \in 1 .. N : g[i] \in Nat /\ g[i] = exts[i].units
  BY <1>1, Zenon DEF Chain, Units
<1> HIDE DEF g, N
<1>3. N \in Nat /\ n <= N
  BY <1>1 DEF N
<1>4. SumTo(g, n) \in Nat
  <2>1. \A i \in 1 .. n : g[i] \in Nat
    BY <1>2, <1>3
  <2> QED
    BY <2>1, SumToNat, Zenon
<1>5. ASSUME n < N PROVE SumTo(g, n + 1) = SumTo(g, n) + exts[n + 1].units /\ exts[n + 1].units \in Nat
  <2>1. n + 1 \in 1 .. N /\ \A i \in 1 .. n + 1 : g[i] \in Nat
    BY <1>2, <1>3, <1>5
  <2>2. SumTo(g, n + 1) = SumTo(g, n) + g[n + 1]
    BY <2>1, SumToStep, Zenon
  <2> QED
    BY <1>2, <2>1, <2>2, Zenon
<1>6. SumTo(g, 0) = 0
  BY SumToZero, Zenon
<1>7. SizeOf(exts, n) \in Nat /\ SizeOf(exts, 0) = 0
  BY <1>4, <1>6 DEF SizeOf, g
<1>8. ASSUME n < N PROVE SizeOf(exts, n + 1) = SizeOf(exts, n) + 4 * exts[n + 1].units
  <2>1. PICK a \in Nat, u \in Nat : a = SumTo(g, n) /\ u = exts[n + 1].units /\ SumTo(g, n + 1) = a + u
    BY <1>4, <1>5, <1>8, Zenon
  <2>2. 4 * (a + u) = 4 * a + 4 * u
    OBVIOUS
  <2> QED
    BY <2>1, <2>2, Zenon DEF SizeOf, g
<1> QED
  BY <1>3, <1>5, <1>7, <1>8, Zenon DEF N

\* A longer prefix is larger.
LEMMA ChainGrows ==
  ASSUME NEW exts, Chain(exts), NEW m \in Nat, NEW n \in Nat, m <= n, n <= Len(exts)
  PROVE  SizeOf(exts, m) <= SizeOf(exts, n)
<1> DEFINE T == {k \in Nat : m <= k /\ k <= Len(exts) => SizeOf(exts, m) <= SizeOf(exts, k)}
<1>1. Len(exts) \in Nat /\ m <= Len(exts) /\ SizeOf(exts, m) \in Nat
  <2>1. Len(exts) \in Nat
    BY DEF Chain
  <2>2. m <= Len(exts)
    BY <2>1
  <2> QED
    BY <2>1, <2>2, ChainSums, Zenon
<1>2. 0 \in T
  <2>1. m <= 0 => m = 0
    OBVIOUS
  <2>2. SizeOf(exts, m) <= SizeOf(exts, m)
    BY <1>1
  <2>3. 0 \in Nat
    OBVIOUS
  <2> QED
    BY <2>1, <2>2, <2>3, Zenon
<1>3. ASSUME NEW k \in Nat, k \in T PROVE k + 1 \in T
  <2> SUFFICES ASSUME m <= k + 1, k + 1 <= Len(exts) PROVE SizeOf(exts, m) <= SizeOf(exts, k + 1)
    OBVIOUS
  <2>1. k < Len(exts) /\ k <= Len(exts) /\ (m = k + 1 \/ m <= k)
    BY <1>1
  <2>5. /\ SizeOf(exts, m) \in Nat /\ SizeOf(exts, k) \in Nat /\ exts[k + 1].units \in Nat
        /\ SizeOf(exts, k + 1) = SizeOf(exts, k) + 4 * exts[k + 1].units
    BY <1>1, <2>1, ChainSums, Zenon
  <2>2. PICK a \in Nat, b \in Nat, u \in Nat : a = SizeOf(exts, m) /\ b = SizeOf(exts, k)
                                             /\ SizeOf(exts, k + 1) = b + 4 * u
    BY <2>5, Zenon
  <2>3. CASE m <= k
    <3>1. a <= b
      BY <1>3, <2>1, <2>2, <2>3, Zenon
    <3>2. a <= b + 4 * u
      BY <3>1
    <3> QED
      BY <2>2, <3>2, Zenon
  <2>4. CASE m = k + 1
    <3>1. a <= a
      OBVIOUS
    <3> QED
      BY <2>2, <2>4, <3>1, Zenon
  <2> QED
    BY <2>1, <2>3, <2>4, Zenon
<1>4. \A k \in Nat : k \in T
  <2> HIDE DEF T
  <2> QED
    BY <1>2, <1>3, InductiveSet, Zenon
<1> QED
  BY <1>4, Zenon

\* Where the walk stands after i rounds: it has reached the end of the chain, it
\* is in the middle of it, or it has found that no chain of the allowed length
\* fits in the area.
Reached(first, exts, z, w, i) ==
  /\ w.status = "ok" /\ w.next = "none"
  /\ \E n \in 0 .. MaxGtpuExts : Ends(first, exts, n) /\ w.consumed = SizeOf(exts, n) /\ w.consumed <= z
Midway(first, exts, z, w, i) ==
  /\ "status" \in DOMAIN w /\ w.status = "ok" /\ w.next # "none" /\ w.links = i /\ i <= MaxGtpuExts
  /\ GoesOn(first, exts, i) /\ w.consumed = SizeOf(exts, i) /\ w.consumed <= z
Refused(first, exts, z, w, i) ==
  /\ w.status # "ok"
  /\ \A n \in 0 .. MaxGtpuExts : Ends(first, exts, n) => SizeOf(exts, n) > z
ChainWalk(first, exts, z, w, i) ==
  Reached(first, exts, z, w, i) \/ Midway(first, exts, z, w, i) \/ Refused(first, exts, z, w, i)

\* A chain that goes on for i headers has more than i.
LEMMA GoesOnLonger ==
  ASSUME NEW exts, Chain(exts), NEW first, NEW i \in Nat, GoesOn(first, exts, i),
         NEW n \in Nat, Ends(first, exts, n)
  PROVE  n > i /\ i < Len(exts) /\ n <= Len(exts) /\ Len(exts) \in Nat /\ exts[i + 1].units > 0
<1>1. Len(exts) \in Nat
  BY DEF Chain
<1>2. n # 0 /\ n <= Len(exts) /\ \A j \in 1 .. n : exts[j].units > 0 /\ (exts[j].next = "none" <=> j = n)
  BY Zenon DEF GoesOn, Ends
<1>3. \A j \in 1 .. i : exts[j].next # "none"
  BY Zenon DEF GoesOn
<1>4. n \in 1 .. n
  BY <1>2
<1>5. n \notin 1 .. i
  BY <1>2, <1>3, <1>4, Zenon
<1>6. n > i /\ i < Len(exts) /\ i + 1 \in 1 .. n
  BY <1>1, <1>2, <1>5
<1> QED
  BY <1>1, <1>2, <1>6, Zenon

\* A round of the walk keeps it.
LEMMA ChainRound ==
  ASSUME NEW exts, Chain(exts), NEW first, NEW z \in Nat, NEW i \in Nat, NEW w,
         i <= MaxGtpuExts, ChainWalk(first, exts, z, w, i)
  PROVE  ChainWalk(first, exts, z, ExtStep(z, w, ExtAt(exts, i + 1)), i + 1)
<1> DEFINE x == ExtStep(z, w, ExtAt(exts, i + 1))
<1>1. MaxGtpuExts \in Nat /\ Len(exts) \in Nat
  BY GtpuAssumption DEF Chain
<1>2. CASE Reached(first, exts, z, w, i)
  <2>1. x = w
    BY <1>2, Zenon DEF ExtStep, Reached
  <2> QED
    BY <1>2, <2>1, Zenon DEF ChainWalk, Reached
<1>3. CASE Refused(first, exts, z, w, i)
  <2>1. x = w
    BY <1>3, Zenon DEF ExtStep, Refused
  <2> QED
    BY <1>3, <2>1, Zenon DEF ChainWalk, Refused
<1>4. CASE Midway(first, exts, z, w, i)
  <2>1. GoesOn(first, exts, i) /\ i <= Len(exts) /\ first # "none"
    BY <1>4, Zenon DEF Midway, GoesOn
  <2>2. SizeOf(exts, i) \in Nat
    BY <2>1, ChainSums, Zenon
  <2>3. PICK c \in Nat : c = SizeOf(exts, i) /\ c = w.consumed /\ c <= z
    BY <1>4, <2>2, Zenon DEF Midway
  <2>4. ASSUME NEW s, s # "ok", x = [w EXCEPT !.status = s],
               \A n \in 0 .. MaxGtpuExts : Ends(first, exts, n) => SizeOf(exts, n) > z
        PROVE  ChainWalk(first, exts, z, x, i + 1)
    <3>1. x.status = s
      BY <1>4, <2>4, Zenon DEF Midway
    <3> QED
      BY <2>4, <3>1, Zenon DEF ChainWalk, Refused
  <2>5. ASSUME NEW n \in 0 .. MaxGtpuExts, Ends(first, exts, n)
        PROVE  /\ n > i /\ i < Len(exts) /\ exts[i + 1].units > 0 /\ exts[i + 1].units \in Nat
               /\ SizeOf(exts, n) \in Nat /\ SizeOf(exts, n) >= c + 4 * exts[i + 1].units
    <3>1. n \in Nat
      BY <1>1
    <3>2. n > i /\ i < Len(exts) /\ n <= Len(exts) /\ exts[i + 1].units > 0
      BY <2>1, <2>5, <3>1, GoesOnLonger, Zenon
    <3>3. PICK k \in Nat : k = i + 1 /\ k <= n /\ k <= Len(exts)
      BY <1>1, <3>1, <3>2
    <3>4. SizeOf(exts, n) \in Nat /\ SizeOf(exts, k) <= SizeOf(exts, n)
      BY <3>1, <3>2, <3>3, ChainGrows, ChainSums, Zenon
    <3>5. exts[i + 1].units \in Nat /\ SizeOf(exts, k) = c + 4 * exts[i + 1].units
      BY <2>1, <2>3, <3>2, <3>3, ChainSums, Zenon
    <3>6. PICK a \in Nat, u \in Nat : a = SizeOf(exts, n) /\ u = exts[i + 1].units /\ SizeOf(exts, k) = c + 4 * u
      BY <3>4, <3>5, Zenon
    <3>7. c + 4 * u <= a
      BY <3>4, <3>6, Zenon
    <3>8. a >= c + 4 * u
      BY <3>7
    <3> QED
      BY <3>2, <3>6, <3>8, Zenon
  <2>6. w.status = "ok" /\ w.next # "none" /\ w.links = i
    BY <1>4, Zenon DEF Midway
  <2>7. CASE i = MaxGtpuExts
    <3>1. x = [w EXCEPT !.status = "ext_chain_too_long"]
      BY <2>6, <2>7, Zenon DEF ExtStep
    <3>2. \A n \in 0 .. MaxGtpuExts : ~(n > i)
      BY <1>1, <2>7
    <3> QED
      BY <2>4, <2>5, <3>1, <3>2, Zenon
  <2>8. CASE i # MaxGtpuExts /\ c >= z
    <3>1. x = [w EXCEPT !.status = "truncated"]
      BY <2>3, <2>6, <2>8, Zenon DEF ExtStep
    <3>2. ASSUME NEW n \in 0 .. MaxGtpuExts, Ends(first, exts, n) PROVE SizeOf(exts, n) > z
      <4>1. PICK a \in Nat, u \in Nat : a = SizeOf(exts, n) /\ a >= c + 4 * u /\ u > 0
        BY <2>5, <3>2, Zenon
      <4>2. a > z
        BY <2>8, <4>1
      <4> QED
        BY <4>1, <4>2, Zenon
    <3> QED
      BY <2>4, <3>1, <3>2, Zenon
  <2>9. CASE i # MaxGtpuExts /\ ~(c >= z)
    <3> DEFINE e == ExtAt(exts, i + 1)
    <3>1. i < Len(exts) => e = exts[i + 1] /\ e.units \in Nat
      <4>1. i < Len(exts) => i + 1 <= Len(exts)
        BY <1>1
      <4> QED
        BY <2>1, <4>1, ChainSums, Zenon DEF ExtAt
    <3>2. ~(i < Len(exts)) => e.units = 0
      <4>1. ~(i < Len(exts)) => ~(i + 1 <= Len(exts))
        BY <1>1
      <4> QED
        BY <4>1, Zenon DEF ExtAt, ZeroGtpuExt
    <3>3. CASE e.units = 0
      <4>1. x = [w EXCEPT !.status = "bad_ext_header"]
        BY <2>3, <2>6, <2>9, <3>3, Zenon DEF ExtStep
      <4>2. ~(0 > 0)
        OBVIOUS
      <4>3. \A n \in 0 .. MaxGtpuExts : ~Ends(first, exts, n)
        BY <2>5, <3>1, <3>3, <4>2, Zenon
      <4> QED
        BY <2>4, <4>1, <4>3, Zenon
    <3>4. ASSUME e.units # 0 PROVE i < Len(exts) /\ e = exts[i + 1] /\ e.units \in Nat
      BY <3>1, <3>2, <3>4, Zenon
    <3>5. CASE e.units # 0 /\ c + 4 * e.units > z
      <4>1. x = [w EXCEPT !.status = "truncated"]
        BY <2>3, <2>6, <2>9, <3>5, Zenon DEF ExtStep
      <4>2. ASSUME NEW n \in 0 .. MaxGtpuExts, Ends(first, exts, n) PROVE SizeOf(exts, n) > z
        <5>1. PICK a \in Nat, u \in Nat : a = SizeOf(exts, n) /\ a >= c + 4 * u /\ c + 4 * u > z
          BY <2>5, <3>4, <3>5, <4>2, Zenon
        <5>2. a > z
          BY <5>1
        <5> QED
          BY <5>1, <5>2, Zenon
      <4> QED
        BY <2>4, <4>1, <4>2, Zenon
    <3>6. CASE e.units # 0 /\ ~(c + 4 * e.units > z)
      <4>1. /\ x.status = "ok" /\ x.next = e.next /\ x.links = w.links + 1
            /\ x.consumed = w.consumed + 4 * e.units /\ "status" \in DOMAIN x
        BY <2>3, <2>6, <2>9, <3>6 DEF ExtStep
      <4>2. e = exts[i + 1] /\ e.units \in Nat /\ i < Len(exts)
        BY <3>4, <3>6, Zenon
      <4>3. SizeOf(exts, i + 1) = c + 4 * e.units
        BY <2>1, <2>3, <4>2, ChainSums, Zenon
      <4>4. x.consumed = SizeOf(exts, i + 1)
        BY <2>3, <4>1, <4>3, Zenon
      <4>5. x.consumed <= z
        <5>1. PICK u \in Nat : u = e.units /\ ~(c + 4 * u > z)
          BY <3>6, <4>2, Zenon
        <5>2. c + 4 * u <= z
          BY <5>1
        <5> QED
          BY <4>3, <4>4, <5>1, <5>2, Zenon
      <4>6. i + 1 <= MaxGtpuExts /\ i + 1 <= Len(exts) /\ i + 1 \in 0 .. MaxGtpuExts /\ i + 1 # 0
        BY <1>1, <2>9, <4>2
      <4>7. e.units > 0
        <5>1. PICK u \in Nat : u = e.units /\ u # 0
          BY <3>6, <4>2, Zenon
        <5>2. u > 0
          BY <5>1
        <5> QED
          BY <5>1, <5>2, Zenon
      <4>8. \A j \in 1 .. i + 1 : (j \in 1 .. i /\ j # i + 1) \/ j = i + 1
        OBVIOUS
      <4>9. \A j \in 1 .. i : exts[j].units > 0 /\ exts[j].next # "none"
        BY <2>1, Zenon DEF GoesOn
      <4>10. CASE e.next = "none"
        <5>1. Ends(first, exts, i + 1)
          BY <2>1, <4>2, <4>6, <4>7, <4>8, <4>9, <4>10, Zenon DEF Ends
        <5> QED
          BY <4>1, <4>4, <4>5, <4>6, <4>10, <5>1, Zenon DEF ChainWalk, Reached
      <4>11. CASE e.next # "none"
        <5>1. GoesOn(first, exts, i + 1)
          BY <2>1, <4>2, <4>6, <4>7, <4>8, <4>9, <4>11, Zenon DEF GoesOn
        <5> QED
          BY <2>6, <4>1, <4>4, <4>5, <4>6, <4>11, <5>1, Zenon DEF ChainWalk, Midway
      <4> QED
        BY <4>10, <4>11, Zenon
    <3> QED
      BY <3>3, <3>5, <3>6, Zenon
  <2> QED
    BY <2>7, <2>8, <2>9, Zenon
<1> QED
  BY <1>2, <1>3, <1>4, Zenon DEF ChainWalk

\* What parse_ext_chain() returns: ok, with the size of the chain, if a chain of
\* the allowed length fits in the area, and otherwise an error.
LEMMA ChainParsed ==
  ASSUME NEW exts, Chain(exts), NEW first, NEW z \in Nat
  PROVE  LET w == ParseExtChain(View(z, exts), first) IN
         \/ /\ w.status = "ok"
            /\ \E n \in 0 .. MaxGtpuExts : Ends(first, exts, n) /\ w.consumed = SizeOf(exts, n) /\ SizeOf(exts, n) <= z
         \/ /\ w.status # "ok"
            /\ \A n \in 0 .. MaxGtpuExts : Ends(first, exts, n) => SizeOf(exts, n) > z
<1> DEFINE P == ExtWalk(View(z, exts), first)
           N == MaxGtpuExts + 1
           T == {i \in Nat : i <= N => ChainWalk(first, exts, z, P[i], i)}
<1>1. MaxGtpuExts \in Nat /\ N \in Nat /\ Len(exts) \in Nat
  BY GtpuAssumption DEF Chain
<1>2. View(z, exts).size = z /\ View(z, exts).data = exts
  BY DEF View
<1>3. P[0] = ExtStart(first) /\ \A i \in 1 .. N : P[i] = ExtStep(z, P[i - 1], ExtAt(exts, i))
  BY <1>2, ExtWalkDef, Zenon
<1> HIDE DEF P
<1>4. 0 \in T
  <2>1. /\ P[0].status = "ok" /\ P[0].next = first /\ P[0].links = 0 /\ P[0].consumed = 0
        /\ "status" \in DOMAIN P[0]
    <3>1. LET e == ExtStart(first) IN
            /\ e.status = "ok" /\ e.next = first /\ e.links = 0 /\ e.consumed = 0
            /\ "status" \in DOMAIN e
      BY Zenon DEF ExtStart
    <3> QED
      BY <1>3, <3>1, Zenon
  <2>2. SizeOf(exts, 0) = 0 /\ 0 <= z /\ 0 \in 0 .. MaxGtpuExts /\ 0 <= MaxGtpuExts /\ 0 <= Len(exts)
    <3>1. 0 \in Nat /\ 0 <= Len(exts)
      BY <1>1
    <3>2. SizeOf(exts, 0) = 0
      BY <3>1, ChainSums, Zenon
    <3> QED
      BY <1>1, <3>1, <3>2
  <2>3. \A j \in 1 .. 0 : FALSE
    OBVIOUS
  <2>4. CASE first = "none"
    <3>1. Ends(first, exts, 0)
      BY <2>4, Zenon DEF Ends
    <3> QED
      BY <2>1, <2>2, <2>4, <3>1, Zenon DEF ChainWalk, Reached
  <2>5. CASE first # "none"
    <3>1. GoesOn(first, exts, 0)
      BY <2>2, <2>3, <2>5, Zenon DEF GoesOn
    <3> QED
      BY <2>1, <2>2, <2>5, <3>1, Zenon DEF ChainWalk, Midway
  <2> QED
    BY <2>4, <2>5, Zenon
<1>5. ASSUME NEW i \in Nat, i \in T PROVE i + 1 \in T
  <2> SUFFICES ASSUME i + 1 <= N PROVE ChainWalk(first, exts, z, P[i + 1], i + 1)
    OBVIOUS
  <2>1. i <= MaxGtpuExts /\ i <= N /\ i + 1 \in 1 .. N /\ (i + 1) - 1 = i
    BY <1>1
  <2>2. P[i + 1] = ExtStep(z, P[i], ExtAt(exts, i + 1))
    BY <1>3, <2>1, Zenon
  <2>3. ChainWalk(first, exts, z, P[i], i)
    BY <1>5, <2>1, Zenon
  <2>4. ChainWalk(first, exts, z, ExtStep(z, P[i], ExtAt(exts, i + 1)), i + 1)
    BY <2>1, <2>3, ChainRound, Zenon
  <2> QED
    BY <2>2, <2>4, Zenon
<1>6. \A i \in Nat : i \in T
  <2> HIDE DEF T
  <2> QED
    BY <1>4, <1>5, InductiveSet, Zenon
<1>7. N <= N /\ ~(N <= MaxGtpuExts)
  BY <1>1
<1>8. ChainWalk(first, exts, z, P[N], N)
  BY <1>1, <1>6, <1>7, Zenon
<1>9. P[N] = ParseExtChain(View(z, exts), first)
  BY Zenon DEF P, ParseExtChain
<1> QED
  BY <1>7, <1>8, <1>9, Zenon DEF ChainWalk, Reached, Midway, Refused

\* A PDU has one chain at most.
LEMMA EndsOnce ==
  ASSUME NEW exts, NEW first, NEW m \in Nat, NEW n \in Nat, Ends(first, exts, m), Ends(first, exts, n)
  PROVE  m = n
<1>1. CASE m = 0 \/ n = 0
  BY <1>1, Zenon DEF Ends
<1>2. CASE m # 0 /\ n # 0
  <2>1. /\ \A j \in 1 .. m : exts[j].next = "none" <=> j = m
        /\ \A j \in 1 .. n : exts[j].next = "none" <=> j = n
    BY <1>2, Zenon DEF Ends
  <2>2. m \in 1 .. m /\ n \in 1 .. n /\ (m \in 1 .. n \/ n \in 1 .. m)
    BY <1>2
  <2> QED
    BY <2>1, <2>2, Zenon
<1> QED
  BY <1>1, <1>2, Zenon

\* The type of the first extension header.
FirstOf(h) == IF h.e THEN h.first_ext ELSE "none"
Optional(h) == h.e \/ h.s \/ h.pn

\* The reference for the parser in terms of the walk.
LEMMA ReferenceChain ==
  ASSUME NEW h, GtpuData(h), NEW n \in Nat
  PROVE  /\ Chain(h.exts) /\ (ChainOf(h, n) <=> Ends(FirstOf(h), h.exts, n))
         /\ ChainOf(h, n) => /\ n <= Len(h.exts) /\ SizeOf(h.exts, n) \in Nat
                             /\ HeadersOf(h, n) = IF Optional(h) THEN 4 + SizeOf(h.exts, n) ELSE 0
                             /\ ~Optional(h) => n = 0
<1>1. Chain(h.exts) /\ Len(h.exts) \in Nat
  BY DEF Chain, GtpuData
<1>2. ChainOf(h, n) <=> Ends(FirstOf(h), h.exts, n)
  BY Zenon DEF ChainOf, Ends, FirstOf
<1>3. ASSUME ChainOf(h, n) PROVE n <= Len(h.exts) /\ (~Optional(h) => n = 0)
  <2>1. CASE n = 0
    BY <1>1, <2>1
  <2>2. CASE n # 0
    BY <1>3, <2>2, Zenon DEF ChainOf, Optional
  <2> QED
    BY <2>1, <2>2, Zenon
<1>4. ASSUME ChainOf(h, n)
      PROVE  SizeOf(h.exts, n) \in Nat /\ HeadersOf(h, n) = IF Optional(h) THEN 4 + SizeOf(h.exts, n) ELSE 0
  <2> DEFINE f == [i \in 1 .. n |-> h.exts[i].units]
             g == Units(h.exts)
  <2>1. n <= Len(h.exts)
    BY <1>3, <1>4, Zenon
  <2>2. \A i \in 1 .. n : i \in 1 .. Len(h.exts) /\ i \in DOMAIN h.exts
    BY <1>1, <2>1 DEF Chain
  <2>3. \A i \in 1 .. n : g[i] \in Nat /\ f[i] = g[i]
    BY <1>1, <2>2, Zenon DEF Units, Chain
  <2>4. Len(f) = n
    OBVIOUS
  <2> HIDE DEF f, g
  <2>5. SumTo(f, n) = SumTo(g, n)
    BY <2>3, SumToSame, Zenon
  <2>6. Total(f) = SumTo(g, n)
    BY <2>4, <2>5, Zenon DEF Total
  <2>7. SizeOf(h.exts, n) \in Nat
    BY <1>1, <2>1, ChainSums, Zenon
  <2>8. HeadersOf(h, n) = IF Optional(h) THEN 4 + 4 * Total(f) ELSE 0
    BY Zenon DEF HeadersOf, Optional, f
  <2> QED
    BY <2>6, <2>7, <2>8, Zenon DEF SizeOf, g
<1> QED
  BY <1>1, <1>2, <1>3, <1>4, Zenon

\* parse_gtpu() succeeds on the well-formed PDUs and on no others, and leaves what
\* the length field covers behind the headers.
LEMMA GtpuParsedExactly ==
  ASSUME NEW v, v.size \in Nat, GtpuData(v.data)
  PROVE  /\ ParseGtpu(v).status = "ok" <=> \E n \in 0 .. MaxGtpuExts : WellFormed(v, n)
         /\ \A n \in 0 .. MaxGtpuExts : WellFormed(v, n) =>
              /\ ParseGtpu(v).payload = View(v.data.declared - HeadersOf(v.data, n), v.data.body)
              /\ ParseGtpu(v).msg_type = v.data.msg_type
<1> DEFINE h == v.data
           r == ParseGtpu(v)
           w == ParseExtChain(View(h.declared - 4, h.exts), FirstOf(h))
           Rejects == r.status # "ok" /\ \A n \in 0 .. MaxGtpuExts : ~WellFormed(v, n)
           Accepts == \E n \in 0 .. MaxGtpuExts :
                        /\ ChainOf(h, n) /\ HeadersOf(h, n) <= h.declared /\ r.status = "ok"
                        /\ r.payload = View(h.declared - HeadersOf(h, n), h.body) /\ r.msg_type = h.msg_type
<1>1. r = GtpuParsed(v, h, w)
  BY Zenon DEF ParseGtpu, FirstOf
<1> HIDE DEF r, w
<1>2. MaxGtpuExts \in Nat /\ h.declared \in Nat /\ v.size \in Nat
  BY GtpuAssumption DEF GtpuData
<1>3. \A n \in 0 .. MaxGtpuExts : n \in Nat
  BY <1>2
<1>4. \A s : GtpuError(s).status = s
  BY Zenon DEF GtpuError
<1>5. CASE v.size < 8 \/ h.version # 1 \/ ~h.pt \/ v.size - 8 < h.declared
  <2>1. \E s \in {"truncated", "bad_version", "not_gtpu"} : r = GtpuError(s)
    <3>1. CASE v.size < 8
      BY <1>1, <3>1, Zenon DEF GtpuParsed
    <3>2. CASE ~(v.size < 8) /\ h.version # 1
      BY <1>1, <3>2, Zenon DEF GtpuParsed
    <3>3. CASE ~(v.size < 8) /\ h.version = 1 /\ ~h.pt
      BY <1>1, <3>3, Zenon DEF GtpuParsed
    <3>4. CASE ~(v.size < 8) /\ h.version = 1 /\ h.pt /\ v.size - 8 < h.declared
      BY <1>1, <3>4, Zenon DEF GtpuParsed
    <3> QED
      BY <1>5, <3>1, <3>2, <3>3, <3>4, Zenon
  <2>4. r.status # "ok"
    BY <1>4, <2>1, Zenon
  <2>2. ~(v.size >= 8 /\ h.version = 1 /\ h.pt /\ h.declared <= v.size - 8)
    <3>1. PICK a \in Nat, d \in Nat : a = v.size /\ d = h.declared
      BY <1>2, Zenon
    <3>2. (a < 8 => ~(a >= 8)) /\ (a - 8 < d => ~(d <= a - 8))
      OBVIOUS
    <3> QED
      BY <1>5, <3>1, <3>2, Zenon
  <2>3. Rejects
    BY <2>2, <2>4, Zenon DEF WellFormed
  <2> QED
    BY <2>3, Zenon DEF r
<1>6. CASE ~(v.size < 8 \/ h.version # 1 \/ ~h.pt \/ v.size - 8 < h.declared)
  <2>1. v.size >= 8 /\ h.version = 1 /\ h.pt /\ h.declared <= v.size - 8
    <3>1. PICK a \in Nat, d \in Nat : a = v.size /\ d = h.declared
      BY <1>2, Zenon
    <3>2. (~(a < 8) => a >= 8) /\ (~(a - 8 < d) => d <= a - 8)
      OBVIOUS
    <3> QED
      BY <1>6, <3>1, <3>2, Zenon
  <2>2. ASSUME NEW n \in 0 .. MaxGtpuExts
        PROVE  WellFormed(v, n) <=> ChainOf(h, n) /\ HeadersOf(h, n) <= h.declared
    BY <2>1, Zenon DEF WellFormed
  <2>3. ASSUME Rejects
        PROVE  /\ r.status = "ok" <=> \E n \in 0 .. MaxGtpuExts : WellFormed(v, n)
               /\ \A n \in 0 .. MaxGtpuExts : WellFormed(v, n) =>
                    r.payload = View(h.declared - HeadersOf(h, n), h.body) /\ r.msg_type = h.msg_type
    BY <2>3, Zenon
  <2>4. ASSUME Accepts
        PROVE  /\ r.status = "ok" <=> \E n \in 0 .. MaxGtpuExts : WellFormed(v, n)
               /\ \A n \in 0 .. MaxGtpuExts : WellFormed(v, n) =>
                    r.payload = View(h.declared - HeadersOf(h, n), h.body) /\ r.msg_type = h.msg_type
    <3>1. PICK m \in 0 .. MaxGtpuExts :
                   /\ ChainOf(h, m) /\ HeadersOf(h, m) <= h.declared /\ r.status = "ok"
                   /\ r.payload = View(h.declared - HeadersOf(h, m), h.body) /\ r.msg_type = h.msg_type
      BY <2>4, Zenon
    <3>2. WellFormed(v, m)
      BY <2>2, <3>1, Zenon
    <3>3. ASSUME NEW n \in 0 .. MaxGtpuExts, WellFormed(v, n) PROVE n = m
      <4>1. ChainOf(h, n)
        BY <2>2, <3>3, Zenon
      <4>2. Ends(FirstOf(h), h.exts, m) /\ Ends(FirstOf(h), h.exts, n)
        BY <1>3, <3>1, <4>1, ReferenceChain, Zenon
      <4> QED
        BY <1>3, <4>2, EndsOnce, Zenon
    <3> QED
      BY <3>1, <3>2, <3>3, Zenon
  <2>5. CASE ~Optional(h)
    <3>1. r = GtpuResult("ok", h, w.qfi, View(h.declared - 0, h.body))
      <4>1. ~(h.declared < 0)
        BY <1>2
      <4> QED
        BY <1>1, <1>6, <2>5, <4>1, Zenon DEF GtpuParsed, UsedByHeaders, Optional
    <3>2. ChainOf(h, 0) /\ 0 \in 0 .. MaxGtpuExts /\ 0 \in Nat
      BY <1>2, <2>5 DEF ChainOf, Optional
    <3>3. HeadersOf(h, 0) = 0
      BY <2>5, <3>2, ReferenceChain, Zenon
    <3>4. 0 <= h.declared
      BY <1>2
    <3>5. Accepts
      BY <3>1, <3>2, <3>3, <3>4, Zenon DEF GtpuResult
    <3> QED
      BY <2>4, <3>5, Zenon DEF r
  <2>6. CASE Optional(h) /\ h.declared < 4
    <3>4. r = GtpuError("bad_length")
      BY <1>1, <1>6, <2>6, Zenon DEF GtpuParsed, Optional
    <3>1. r.status # "ok"
      BY <1>4, <3>4
    <3>2. ASSUME NEW n \in 0 .. MaxGtpuExts, ChainOf(h, n) PROVE ~(HeadersOf(h, n) <= h.declared)
      <4>1. SizeOf(h.exts, n) \in Nat /\ HeadersOf(h, n) = 4 + SizeOf(h.exts, n)
        BY <1>3, <2>6, <3>2, ReferenceChain, Zenon
      <4>2. PICK a \in Nat, d \in Nat : a = SizeOf(h.exts, n) /\ d = h.declared /\ d < 4
        BY <1>2, <2>6, <4>1, Zenon
      <4>3. ~(4 + a <= d)
        BY <4>2
      <4> QED
        BY <4>1, <4>2, <4>3, Zenon
    <3>3. Rejects
      BY <2>2, <3>1, <3>2, Zenon
    <3> QED
      BY <2>3, <3>3, Zenon DEF r
  <2>7. CASE Optional(h) /\ ~(h.declared < 4)
    <3>1. PICK z \in Nat : z = h.declared - 4 /\ h.declared = z + 4
      BY <1>2, <2>7
    <3>2. Chain(h.exts)
      <4>1. 0 \in Nat
        OBVIOUS
      <4> QED
        BY <4>1, ReferenceChain, Zenon
    <3>3. \/ /\ w.status = "ok"
             /\ \E n \in 0 .. MaxGtpuExts : Ends(FirstOf(h), h.exts, n) /\ w.consumed = SizeOf(h.exts, n) /\ SizeOf(h.exts, n) <= z
          \/ /\ w.status # "ok"
             /\ \A n \in 0 .. MaxGtpuExts : Ends(FirstOf(h), h.exts, n) => SizeOf(h.exts, n) > z
      BY <3>1, <3>2, ChainParsed, Zenon DEF w
    <3>4. CASE w.status # "ok"
      <4>1. r.status # "ok"
        BY <1>1, <1>4, <1>6, <2>7, <3>4, Zenon DEF GtpuParsed, Optional
      <4>2. ASSUME NEW n \in 0 .. MaxGtpuExts, ChainOf(h, n) PROVE ~(HeadersOf(h, n) <= h.declared)
        <5>1. SizeOf(h.exts, n) \in Nat /\ HeadersOf(h, n) = 4 + SizeOf(h.exts, n) /\ Ends(FirstOf(h), h.exts, n)
          BY <1>3, <2>7, <4>2, ReferenceChain, Zenon
        <5>2. PICK a \in Nat : a = SizeOf(h.exts, n) /\ a > z
          BY <3>3, <3>4, <5>1, Zenon
        <5>3. ~(4 + a <= z + 4)
          BY <5>2
        <5> QED
          BY <3>1, <5>1, <5>2, <5>3, Zenon
      <4>3. Rejects
        BY <2>2, <4>1, <4>2, Zenon
      <4> QED
        BY <2>3, <4>3, Zenon DEF r
    <3>5. CASE w.status = "ok"
      <4>1. PICK n \in 0 .. MaxGtpuExts : Ends(FirstOf(h), h.exts, n) /\ w.consumed = SizeOf(h.exts, n) /\ SizeOf(h.exts, n) <= z
        BY <3>3, <3>5, Zenon
      <4>2. ChainOf(h, n) /\ SizeOf(h.exts, n) \in Nat /\ HeadersOf(h, n) = 4 + SizeOf(h.exts, n)
        BY <1>3, <2>7, <4>1, ReferenceChain, Zenon
      <4>3. PICK a \in Nat : a = SizeOf(h.exts, n) /\ a <= z
        BY <4>1, <4>2, Zenon
      <4>4. 4 + a <= z + 4 /\ ~(z + 4 < 4 + a)
        BY <4>3
      <4>5. HeadersOf(h, n) <= h.declared /\ ~(h.declared < 4 + w.consumed) /\ HeadersOf(h, n) = 4 + w.consumed
        BY <3>1, <4>1, <4>2, <4>3, <4>4, Zenon
      <4>6. r = GtpuResult("ok", h, w.qfi, View(h.declared - (4 + w.consumed), h.body))
        BY <1>1, <1>6, <2>7, <3>5, <4>5, Zenon DEF GtpuParsed, UsedByHeaders, Optional
      <4>7. r.status = "ok" /\ r.payload = View(h.declared - HeadersOf(h, n), h.body) /\ r.msg_type = h.msg_type
        BY <4>5, <4>6, Zenon DEF GtpuResult
      <4>8. Accepts
        BY <4>2, <4>5, <4>7, Zenon
      <4> QED
        BY <2>4, <4>8, Zenon DEF r
    <3> QED
      BY <3>4, <3>5, Zenon
  <2> QED
    BY <2>5, <2>6, <2>7, Zenon
<1> QED
  BY <1>5, <1>6, Zenon

\* What process_gtpu() makes of a PDU is what the reference says.
LEMMA PduMetered ==
  ASSUME NEW v, v.size \in Nat, GtpuData(v.data), NEW wire
  PROVE  ExactlyMetered(v, ProcessGtpu(ParseGtpu(v), wire).events)
<1> DEFINE r == ParseGtpu(v)
           inner == ParseIp(r.payload)
           e == MeterEvent(r, inner, wire)
           events == ProcessGtpu(r, wire).events
<1>1. events = IF r.status = "ok" THEN <<e>> ELSE << >>
  <2> HIDE DEF r, inner
  <2>2. events = GtpuVerdict(r, inner, wire).events
    BY Zenon DEF ProcessGtpu, inner
  <2> HIDE DEF e, events
  <2>6. r.status # "ok" => events = << >>
    <3>1. CASE r.status = "truncated"
      <4>1. GtpuVerdict(r, inner, wire) = Verdict({"gtpu_parse_errors", "truncated_frames"}, << >>, "parse_error")
        BY <3>1, Zenon DEF GtpuVerdict
      <4> QED
        BY <2>2, <4>1 DEF Verdict
    <3>2. CASE r.status # "truncated" /\ r.status # "ok"
      <4>1. GtpuVerdict(r, inner, wire) = Verdict({"gtpu_parse_errors"}, << >>, "parse_error")
        BY <3>2, Zenon DEF GtpuVerdict
      <4> QED
        BY <2>2, <4>1 DEF Verdict
    <3> QED
      BY <3>1, <3>2, Zenon
  <2>7. r.status = "ok" => events = <<e>>
    <3> SUFFICES ASSUME r.status = "ok" PROVE events = <<e>>
      BY Zenon
    <3>1. r.status # "truncated"
      BY Zenon
    <3>2. CASE r.msg_type # "gpdu"
      <4>1. GtpuVerdict(r, inner, wire) = Verdict({"gtpu_control"}, <<e>>, "gtpu_control")
        BY <3>1, <3>2, Zenon DEF GtpuVerdict, e
      <4> QED
        BY <2>2, <4>1 DEF Verdict
    <3>3. CASE r.msg_type = "gpdu"
      <4>1. GtpuVerdict(r, inner, wire) =
              Verdict({"gtpu_gpdus"} \cup (IF inner.valid THEN {} ELSE {"inner_parse_errors"}), <<e>>, "metered")
        BY <3>1, <3>3, Zenon DEF GtpuVerdict, e
      <4> QED
        BY <2>2, <4>1 DEF Verdict
    <3> QED
      BY <3>2, <3>3, Zenon
  <2> QED
    BY <2>6, <2>7, Zenon
<1>2. <<e>> # << >> /\ <<e>>[1] = e
  OBVIOUS
<1>3. e.bytes = IF r.msg_type # "gpdu" THEN 0
                ELSE IF inner.valid /\ cfg.meter_inner_ip_length THEN inner.ip_total_len ELSE r.payload.size
  BY Zenon DEF MeterEvent
<1> HIDE DEF e, events
<1>4. /\ r.status = "ok" <=> \E n \in 0 .. MaxGtpuExts : WellFormed(v, n)
      /\ \A n \in 0 .. MaxGtpuExts : WellFormed(v, n) =>
           /\ r.payload = View(v.data.declared - HeadersOf(v.data, n), v.data.body)
           /\ r.msg_type = v.data.msg_type
  BY GtpuParsedExactly, Zenon
<1> DEFINE chains == {n \in 0 .. MaxGtpuExts : WellFormed(v, n)}
<1>5. chains # {} <=> r.status = "ok"
  BY <1>4, Zenon
<1>6. events # << >> <=> chains # {}
  BY <1>1, <1>2, <1>5, Zenon
<1>7. ASSUME NEW n \in chains
      PROVE  events[1].bytes =
               IF v.data.msg_type # "gpdu" THEN 0
               ELSE IF ParseIp(View(v.data.declared - HeadersOf(v.data, n), v.data.body)).valid /\ cfg.meter_inner_ip_length
                      THEN ParseIp(View(v.data.declared - HeadersOf(v.data, n), v.data.body)).ip_total_len
                      ELSE v.data.declared - HeadersOf(v.data, n)
  <2>1. n \in 0 .. MaxGtpuExts /\ WellFormed(v, n) /\ chains # {}
    BY <1>7, Zenon
  <2>2. /\ r.payload = View(v.data.declared - HeadersOf(v.data, n), v.data.body)
        /\ r.msg_type = v.data.msg_type
    BY <1>4, <2>1, Zenon
  <2>3. events[1].bytes = e.bytes
    BY <1>1, <1>2, <1>5, <2>1, Zenon
  <2>4. r.payload.size = v.data.declared - HeadersOf(v.data, n)
    <3>1. \A a, b : View(a, b).size = a
      BY Zenon DEF View
    <3> QED
      BY <2>2, <3>1, Zenon
  <2> QED
    BY <1>3, <2>2, <2>3, <2>4, Zenon
<1> QED
  BY <1>6, <1>7, Zenon DEF ExactlyMetered, events

-----------------------------------------------------------------------------
(* The views of the parsers *)

Ipv6Start(data) == [next |-> data.next, off |-> 40, fragmented |-> FALSE, how |-> "walking"]
Ipv6ExtAt(data, i) == IF i <= Len(data.exts) THEN data.exts[i] ELSE ZeroExt

\* The recursive definition of the walk over the IPv6 headers has a solution.
LEMMA Ipv6WalkDef ==
  ASSUME NEW data, NEW end
  PROVE  /\ Ipv6Walk(data, end)[0] = Ipv6Start(data)
         /\ \A i \in 1 .. MaxIpv6ExtHeaders :
              Ipv6Walk(data, end)[i] = Ipv6Step(end, Ipv6Walk(data, end)[i - 1], Ipv6ExtAt(data, i))
<1> DEFINE Step(w, i) == Ipv6Step(end, w, Ipv6ExtAt(data, i))
           Body(n, p) == [i \in 0 .. n |-> IF i = 0 THEN Ipv6Start(data) ELSE Step(p[i - 1], i)]
           T == {n \in Nat : \E p : p = Body(n, p)}
<1> HIDE DEF Step
<1>1. 0 \in T
  <2>1. [i \in 0 .. 0 |-> Ipv6Start(data)] = Body(0, [i \in 0 .. 0 |-> Ipv6Start(data)])
    OBVIOUS
  <2> QED
    BY <2>1, Zenon
<1>2. ASSUME NEW n \in Nat, n \in T PROVE n + 1 \in T
  <2>1. PICK p : p = Body(n, p)
    BY <1>2, Zenon
  <2> DEFINE k == [i \in 0 .. n + 1 |-> IF i = n + 1 THEN Step(p[n], n + 1) ELSE p[i]]
  <2>2. \A i \in 0 .. n : p[i] = IF i = 0 THEN Ipv6Start(data) ELSE Step(p[i - 1], i)
    BY <2>1, Zenon
  <2>3. \A i \in 0 .. n : k[i] = p[i]
    OBVIOUS
  <2>4. k[n + 1] = Step(p[n], n + 1)
    OBVIOUS
  <2> HIDE DEF k
  <2>5. ASSUME NEW i \in 0 .. n + 1 PROVE k[i] = IF i = 0 THEN Ipv6Start(data) ELSE Step(k[i - 1], i)
    <3>1. CASE i = n + 1
      <4>1. i - 1 = n /\ n \in 0 .. n /\ i # 0
        BY <3>1
      <4> QED
        BY <2>3, <2>4, <3>1, <4>1, Zenon
    <3>2. CASE i # n + 1
      <4>1. i \in 0 .. n /\ (i # 0 => i - 1 \in 0 .. n)
        BY <3>2
      <4> QED
        BY <2>2, <2>3, <4>1, Zenon
    <3> QED
      BY <3>1, <3>2, Zenon
  <2>6. k = [i \in 0 .. n + 1 |-> k[i]]
    BY Zenon DEF k
  <2>7. k = Body(n + 1, k)
    BY <2>5, <2>6, Zenon
  <2>8. n + 1 \in Nat
    OBVIOUS
  <2> QED
    BY <2>7, <2>8, Zenon
<1>3. \A n \in Nat : n \in T
  <2> HIDE DEF T
  <2> QED
    BY <1>1, <1>2, InductiveSet, Zenon
<1> DEFINE N == MaxIpv6ExtHeaders
           P == Ipv6Walk(data, end)
<1>4. P = CHOOSE p : p = Body(N, p)
  BY Zenon DEF Ipv6Walk, Ipv6Start, Ipv6ExtAt, Step
<1>5. N \in Nat
  BY NetAssumption
<1>6. \E p : p = Body(N, p)
  BY <1>3, <1>5, Zenon
<1>7. P = Body(N, P)
  <2> HIDE DEF Body, P
  <2> QED
    BY <1>4, <1>6, Zenon
<1>8. \A i \in 0 .. N : P[i] = IF i = 0 THEN Ipv6Start(data) ELSE Step(P[i - 1], i)
  <2> HIDE DEF P
  <2> QED
    BY <1>7, Zenon
<1> HIDE DEF P, N
<1>9. 0 \in 0 .. N /\ \A i \in 1 .. N : i \in 0 .. N /\ i # 0
  BY <1>5
<1>10. P[0] = Ipv6Start(data) /\ \A i \in 1 .. N : P[i] = Step(P[i - 1], i)
  BY <1>8, <1>9, Zenon
<1> QED
  BY <1>10, Zenon DEF P, N, Step

\* The offset of the walk stays between the fixed header and the end of the packet.
Along(w, end) == "off" \in DOMAIN w /\ w.off \in Nat /\ 40 <= w.off /\ w.off <= end

\* Wherever the extension loop of parse_ipv6() stops, it has not left the packet.
LEMMA Ipv6WalkInside ==
  ASSUME NEW data, data.exts \in Seq(Range(data.exts)), \A i \in DOMAIN data.exts : data.exts[i].len \in Nat,
         NEW end \in Nat, 40 <= end
  PROVE  Along(Ipv6Walk(data, end)[MaxIpv6ExtHeaders], end)
<1> DEFINE P == Ipv6Walk(data, end)
           N == MaxIpv6ExtHeaders
           T == {i \in Nat : i <= N => Along(P[i], end)}
<1>1. N \in Nat /\ Len(data.exts) \in Nat /\ DOMAIN data.exts = 1 .. Len(data.exts)
  BY NetAssumption
<1>2. P[0] = Ipv6Start(data) /\ \A i \in 1 .. N : P[i] = Ipv6Step(end, P[i - 1], Ipv6ExtAt(data, i))
  BY Ipv6WalkDef, Zenon
<1> HIDE DEF P
<1>3. \A i \in Nat : i # 0 => Ipv6ExtAt(data, i).len \in Nat
  <2> SUFFICES ASSUME NEW i \in Nat, i # 0 PROVE Ipv6ExtAt(data, i).len \in Nat
    BY Zenon
  <2>1. CASE i <= Len(data.exts)
    <3>1. i \in DOMAIN data.exts
      BY <1>1, <2>1
    <3> QED
      BY <2>1, <3>1, Zenon DEF Ipv6ExtAt
  <2>2. CASE ~(i <= Len(data.exts))
    <3>1. Ipv6ExtAt(data, i) = ZeroExt
      BY <2>2, Zenon DEF Ipv6ExtAt
    <3> QED
      BY <3>1, NoHeader, Zenon
  <2> QED
    BY <2>1, <2>2, Zenon
<1>4. 0 \in T
  <2>1. P[0].off = 40 /\ "off" \in DOMAIN P[0]
    <3>1. Ipv6Start(data).off = 40 /\ "off" \in DOMAIN Ipv6Start(data)
      BY Zenon DEF Ipv6Start
    <3> QED
      BY <1>2, <3>1, Zenon
  <2>2. 40 \in Nat /\ 40 <= 40 /\ 0 \in Nat
    OBVIOUS
  <2> QED
    BY <2>1, <2>2, Zenon DEF Along
<1>5. ASSUME NEW i \in Nat, i \in T PROVE i + 1 \in T
  <2> SUFFICES ASSUME i + 1 <= N PROVE Along(P[i + 1], end)
    OBVIOUS
  <2>1. i <= N /\ i + 1 \in 1 .. N /\ (i + 1) - 1 = i /\ i + 1 \in Nat /\ i + 1 # 0
    BY <1>1
  <2>2. PICK w : w = P[i]
    OBVIOUS
  <2>3. PICK e : e = Ipv6ExtAt(data, i + 1)
    OBVIOUS
  <2>4. Along(w, end) /\ e.len \in Nat /\ P[i + 1] = Ipv6Step(end, w, e)
    BY <1>2, <1>3, <1>5, <2>1, <2>2, <2>3, Zenon
  <2> DEFINE len == Ipv6ExtLen(w.next, e)
  <2>5. len \in Nat
    <3>1. PICK n \in Nat : n = e.len
      BY <2>4, Zenon
    <3>2. 8 \in Nat /\ (n + 2) * 4 \in Nat /\ (n + 1) * 8 \in Nat
      OBVIOUS
    <3> QED
      BY <3>1, <3>2 DEF Ipv6ExtLen
  <2> HIDE DEF len
  <2>6. CASE w.how # "walking" \/ w.next \notin Ipv6Exts
    <3>1. P[i + 1] = w
      BY <2>4, <2>6, Zenon DEF Ipv6Step
    <3> QED
      BY <2>4, <3>1, Zenon
  <2>7. CASE ~(w.how # "walking" \/ w.next \notin Ipv6Exts) /\ (w.off + 8 > end \/ w.off + len > end)
    <3>1. P[i + 1] = [w EXCEPT !.how = "cut"]
      BY <2>4, <2>7, Zenon DEF Ipv6Step, len
    <3>2. P[i + 1].off = w.off /\ "off" \in DOMAIN P[i + 1]
      BY <2>4, <3>1, Zenon DEF Along
    <3> QED
      BY <2>4, <3>2, Zenon DEF Along
  <2>8. CASE ~(w.how # "walking" \/ w.next \notin Ipv6Exts) /\ ~(w.off + 8 > end \/ w.off + len > end)
    <3>1. P[i + 1] = [next |-> e.next, off |-> w.off + len,
                      fragmented |-> IF w.next = "frag" THEN e.frag # "whole" ELSE w.fragmented,
                      how |-> IF w.next = "frag" /\ e.frag = "later" THEN "fragment" ELSE "walking"]
      BY <2>4, <2>8, Zenon DEF Ipv6Step, len
    <3>2. P[i + 1].off = w.off + len /\ "off" \in DOMAIN P[i + 1]
      BY ONLY <3>1
    <3>3. PICK a \in Nat, b \in Nat : a = w.off /\ b = len /\ 40 <= a /\ ~(a + b > end)
      BY <2>4, <2>5, <2>8, Zenon DEF Along
    <3>4. a + b \in Nat /\ 40 <= a + b /\ a + b <= end
      BY <3>3, WalkedOn, Zenon
    <3> QED
      BY <3>2, <3>3, <3>4, Zenon DEF Along
  <2> QED
    BY <2>6, <2>7, <2>8, Zenon
<1>6. \A i \in Nat : i \in T
  <2> HIDE DEF T
  <2> QED
    BY <1>4, <1>5, InductiveSet, Zenon
<1>7. N <= N
  BY <1>1
<1> QED
  BY <1>1, <1>6, <1>7, Zenon DEF P

\* What parse_l4() returns: no more than it was given and, at a UDP port, the
\* bytes behind the header.
L4Inside(r, v, proto) ==
  /\ r.l4_header_len \in Nat /\ r.payload.size \in Nat /\ r.l4_header_len + r.payload.size <= v.size
  /\ r = NoL4 \/ /\ r.src_port = v.data.src_port /\ r.dst_port = v.data.dst_port
                 /\ proto = "udp" => r.payload = View(r.payload.size, v.data.body)

\* A packet without a transport header has no ports and an empty payload.
LEMMA NoL4Inside ==
  ASSUME NEW v, v.size \in Nat, NEW proto
  PROVE  L4Inside(NoL4, v, proto)
<1>1. NoL4.l4_header_len = 0 /\ NoL4.payload.size = 0
  BY DEF NoL4, NoBytes, View
<1>2. 0 + 0 <= v.size /\ 0 \in Nat
  OBVIOUS
<1> QED
  BY <1>1, <1>2, Zenon DEF L4Inside

\* parse_l4() checks the header it found against the bytes that are there, a TCP
\* header with its options included, before it takes the rest as payload.
LEMMA ParseL4Inside ==
  ASSUME NEW v, v.size \in Nat, v.data.doff \in Nat, NEW proto
  PROVE  L4Inside(ParseL4(v, proto), v, proto)
<1> DEFINE r == ParseL4(v, proto)
           hdr == IF proto = "tcp" THEN v.data.doff ELSE L4MinLen[proto]
           fits == L4HeaderFits(hdr, proto, v)
<1>1. CASE proto \notin DOMAIN L4MinLen \/ v.size < L4MinLen[proto]
  <2>1. r = NoL4
    BY <1>1, Zenon DEF ParseL4
  <2> QED
    BY <2>1, NoL4Inside, Zenon
<1>2. CASE ~(proto \notin DOMAIN L4MinLen \/ v.size < L4MinLen[proto])
  <2>1. r = [src_port |-> v.data.src_port, dst_port |-> v.data.dst_port,
             l4_header_len |-> IF fits THEN hdr ELSE 0,
             payload |-> IF fits THEN View(v.size - hdr, v.data.body) ELSE NoBytes]
    BY <1>2, Zenon DEF ParseL4
  <2>2. L4MinLen[proto] \in Nat /\ (proto = "udp" => L4MinLen[proto] = 8)
    BY <1>2, L4Lengths, Zenon
  <2>3. PICK m \in Nat, h \in Nat, s \in Nat : m = L4MinLen[proto] /\ h = hdr /\ s = v.size /\ ~(s < m)
    BY <1>2, <2>2, Zenon
  <2>4. fits <=> h \in m .. s
    BY <2>3, Zenon DEF L4HeaderFits
  <2>5. proto = "udp" => hdr = L4MinLen[proto]
    BY Zenon
  <2> HIDE DEF fits, hdr, r
  <2>6. /\ r.src_port = v.data.src_port /\ r.dst_port = v.data.dst_port
        /\ r.l4_header_len = IF fits THEN h ELSE 0
        /\ r.payload = IF fits THEN View(s - h, v.data.body) ELSE NoBytes
    BY <2>1, <2>3, Zenon
  <2>7. proto = "udp" => fits
    <3>1. h = m => h \in m .. s
      BY <2>3
    <3> QED
      BY <2>3, <2>4, <2>5, <3>1, Zenon
  <2>8. \A a, b : View(a, b).size = a
    BY Zenon DEF View
  <2>9. CASE fits
    <3>1. s - h \in Nat /\ h + (s - h) <= s
      BY <2>4, <2>9
    <3>2. r.payload = View(s - h, v.data.body) /\ r.l4_header_len = h
      BY <2>6, <2>9, Zenon
    <3>3. r.payload.size = s - h
      BY <2>8, <3>2, Zenon
    <3> QED
      BY <2>3, <2>6, <3>1, <3>2, <3>3, Zenon DEF L4Inside, r
  <2>10. CASE ~fits
    <3>1. r.payload = NoBytes /\ r.l4_header_len = 0
      BY <2>6, <2>10, Zenon
    <3>2. NoBytes.size = 0 /\ 0 \in Nat /\ 0 + 0 <= s
      BY NoHeader, NoneLeft, Zenon
    <3> QED
      BY <2>3, <2>6, <2>7, <2>10, <3>1, <3>2, Zenon DEF L4Inside, r
  <2> QED
    BY <2>9, <2>10, Zenon
<1> QED
  BY <1>1, <1>2, Zenon

\* What parse_ip() returns: no more than it was given, and at the GTP-U port the
\* bytes behind the UDP header.
IpParsed(p, v) ==
  /\ p.payload.size \in Nat /\ p.l3_header_len \in Nat /\ p.l4_header_len \in Nat
  /\ p.l3_header_len + p.l4_header_len + p.payload.size <= v.size
  /\ p.proto = "udp" /\ EitherPort(p, GtpuPort) =>
       v.data.version \in {4, 6} /\ EitherPort(v.data, GtpuPort) /\ p.payload = View(p.payload.size, v.data.body)

\* The empty result of parse_ip() claims no bytes.
LEMMA NotAPacketParsed ==
  ASSUME NEW v, v.size \in Nat
  PROVE  IpParsed(NotAPacket, v)
<1>1. /\ NotAPacket.payload.size = 0 /\ NotAPacket.l3_header_len = 0 /\ NotAPacket.l4_header_len = 0
      /\ NotAPacket.proto # "udp"
  BY DEF NotAPacket, IpPacket, NoL4, NoBytes, View
<1>2. 0 + 0 + 0 <= v.size /\ 0 \in Nat
  OBVIOUS
<1> QED
  BY <1>1, <1>2, Zenon DEF IpParsed

\* A result put together from an IP header and a transport header that lies
\* inside what is left claims no more bytes than the packet has.
LEMMA IpPacketParsed ==
  ASSUME NEW v, v.size \in Nat, v.data.version \in {4, 6},
         NEW version, NEW total, NEW l3 \in Nat, NEW proto, NEW frag,
         NEW n \in Nat, l3 + n <= v.size, NEW r, L4Inside(r, View(n, v.data), proto)
  PROVE  IpParsed(IpPacket(version, total, l3, proto, frag, r), v)
<1> DEFINE p == IpPacket(version, total, l3, proto, frag, r)
<1>1. View(n, v.data).size = n /\ View(n, v.data).data = v.data
  BY Zenon DEF View
<1>2. /\ p.l3_header_len = l3 /\ p.proto = proto /\ p.l4_header_len = r.l4_header_len /\ p.payload = r.payload
      /\ p.src_port = r.src_port /\ p.dst_port = r.dst_port
  BY Zenon DEF IpPacket
<1> HIDE DEF p
<1>3. PICK a \in Nat, b \in Nat : a = r.l4_header_len /\ b = r.payload.size /\ a + b <= n
  BY <1>1, Zenon DEF L4Inside
<1>4. l3 + a + b <= v.size
  BY <1>3
<1>5. ASSUME p.proto = "udp", EitherPort(p, GtpuPort)
      PROVE  EitherPort(v.data, GtpuPort) /\ p.payload = View(p.payload.size, v.data.body)
  <2>1. NoL4.src_port # GtpuPort /\ NoL4.dst_port # GtpuPort
    BY NoPorts, Zenon
  <2>2. r # NoL4
    BY <1>2, <1>5, <2>1, Zenon DEF EitherPort
  <2>3. r.src_port = v.data.src_port /\ r.dst_port = v.data.dst_port /\ r.payload = View(r.payload.size, v.data.body)
    BY <1>1, <1>2, <1>5, <2>2, Zenon DEF L4Inside
  <2> QED
    BY <1>2, <1>5, <2>3, Zenon DEF EitherPort
<1> QED
  BY <1>2, <1>3, <1>4, <1>5, Zenon DEF IpParsed, p

\* std::min on lengths.
LEMMA SmallerIs ==
  ASSUME NEW a \in Nat, NEW b \in Nat
  PROVE  SmallerLen(a, b) \in Nat /\ SmallerLen(a, b) <= a /\ SmallerLen(a, b) <= b /\ SmallerLen(a, b) \in {a, b}
BY DEF SmallerLen

\* parse_ipv4(): header, transport header and payload fit in the bytes captured,
\* whatever total length the header declares.
LEMMA Ipv4Parsed ==
  ASSUME NEW v, v.size \in Nat, IpLengths(v.data), v.data.version = 4
  PROVE  IpParsed(ParseIpv4(v), v)
<1> DEFINE h == v.data
<1>1. h.ihl \in Nat /\ h.total_len \in Nat /\ h.doff \in Nat /\ h.version \in {4, 6}
  BY Zenon DEF IpLengths
<1>2. CASE v.size < 20 \/ h.ihl < 20 \/ h.ihl > v.size \/ h.total_len < h.ihl
  <2>1. ParseIpv4(v) = NotAPacket
    BY <1>2, Zenon DEF ParseIpv4
  <2> QED
    BY <2>1, NotAPacketParsed, Zenon
<1>3. CASE ~(v.size < 20 \/ h.ihl < 20 \/ h.ihl > v.size \/ h.total_len < h.ihl)
  <2>1. PICK s \in Nat, i \in Nat, t \in Nat : s = v.size /\ i = h.ihl /\ t = h.total_len /\ ~(i > s) /\ ~(t < i)
    BY <1>1, <1>3, Zenon
  <2>2. PICK n \in Nat : n = SmallerLen(t, s) - i /\ i + n <= s
    <3>1. PICK k \in Nat : k = SmallerLen(t, s) /\ k <= s /\ k \in {t, s}
      BY SmallerIs, Zenon
    <3>2. k - i \in Nat /\ i + (k - i) <= s
      BY <2>1, <3>1
    <3> QED
      BY <3>1, <3>2, Zenon
  <2> DEFINE r == IF h.frag_off # 0 THEN NoL4 ELSE ParseL4(View(n, h), h.proto)
  <2>3. ParseIpv4(v) = IpPacket(4, t, i, h.proto, h.more_frags \/ h.frag_off # 0, r)
    BY <1>3, <2>1, <2>2, Zenon DEF ParseIpv4
  <2>4. View(n, h).size = n /\ View(n, h).data = h
    BY Zenon DEF View
  <2>5. L4Inside(r, View(n, h), h.proto)
    BY <1>1, <2>4, NoL4Inside, ParseL4Inside, Zenon
  <2> HIDE DEF r
  <2>6. IpParsed(IpPacket(4, t, i, h.proto, h.more_frags \/ h.frag_off # 0, r), v)
    BY <1>1, <2>1, <2>2, <2>5, IpPacketParsed, Zenon
  <2> QED
    BY <2>3, <2>6, Zenon
<1> QED
  BY <1>2, <1>3, Zenon

\* parse_ipv6(): the same, with the extension headers walked over.
LEMMA Ipv6ParsedInside ==
  ASSUME NEW v, v.size \in Nat, IpLengths(v.data), v.data.version = 6
  PROVE  IpParsed(ParseIpv6(v), v)
<1> DEFINE h == v.data
<1>1. /\ h.payload_len \in Nat /\ h.exts \in Seq(Range(h.exts)) /\ \A i \in DOMAIN h.exts : h.exts[i].len \in Nat
      /\ h.doff \in Nat /\ h.version \in {4, 6}
  BY Zenon DEF IpLengths
<1>0. PICK t \in Nat, s \in Nat : t = 40 + h.payload_len /\ s = v.size /\ 40 <= t
  <2>1. 40 + h.payload_len \in Nat /\ 40 <= 40 + h.payload_len
    BY <1>1
  <2> QED
    BY <2>1, Zenon
<1>2. PICK end \in Nat : end = SmallerLen(t, s) /\ end <= s /\ end \in {t, s}
  BY SmallerIs, Zenon
<1> DEFINE w == Ipv6Walk(h, end)[MaxIpv6ExtHeaders]
<1>3. ParseIpv6(v) = Ipv6Parsed(v, end, w)
  BY <1>0, <1>2, Zenon DEF ParseIpv6
<1>4. CASE s < 40
  <2>1. ParseIpv6(v) = NotAPacket
    BY <1>0, <1>3, <1>4, Zenon DEF Ipv6Parsed
  <2> QED
    BY <2>1, NotAPacketParsed, Zenon
<1>5. CASE ~(s < 40)
  <2>1. 40 <= end
    BY <1>0, <1>2, <1>5
  <2>2. Along(w, end)
    BY <1>1, <2>1, Ipv6WalkInside, Zenon
  <2> HIDE DEF w
  <2> DEFINE l3 == IF w.how = "cut" THEN 40 ELSE w.off
             r == IF w.how = "walking" THEN ParseL4(View(end - w.off, h), w.next) ELSE NoL4
  <2>3. ParseIpv6(v) = IpPacket(6, t, l3, w.next, w.fragmented, r)
    BY <1>0, <1>3, <1>5, Zenon DEF Ipv6Parsed
  <2>4. PICK o \in Nat, n \in Nat, m \in Nat : o = w.off /\ n = end - o /\ m = end - 40 /\ o + n <= s /\ 40 + m <= s
    <3>1. PICK o \in Nat : o = w.off /\ 40 <= o /\ o <= end
      BY <2>2, Zenon DEF Along
    <3>2. end - o \in Nat /\ end - 40 \in Nat /\ o + (end - o) <= s /\ 40 + (end - 40) <= s
      BY <1>2, <2>1, <3>1
    <3> QED
      BY <3>1, <3>2, Zenon
  <2>6. CASE w.how = "walking"
    <3>1. l3 = o /\ r = ParseL4(View(n, h), w.next)
      BY <2>4, <2>6, Zenon
    <3>3. View(n, h).size = n /\ View(n, h).data = h
      BY Zenon DEF View
    <3>2. L4Inside(r, View(n, h), w.next)
      BY <1>1, <3>1, <3>3, ParseL4Inside, Zenon
    <3> HIDE DEF r, l3
    <3>4. IpParsed(IpPacket(6, t, o, w.next, w.fragmented, r), v)
      BY <1>0, <1>1, <2>4, <3>2, IpPacketParsed, Zenon
    <3> QED
      BY <2>3, <3>1, <3>4, Zenon
  <2>7. CASE w.how # "walking"
    <3>1. r = NoL4
      BY <2>7, Zenon
    <3>2. PICK k \in Nat, l \in Nat : l = l3 /\ l + k <= s
      <4>1. 40 \in Nat
        OBVIOUS
      <4> QED
        BY <2>4, <4>1, Zenon
    <3>4. View(k, h).size = k
      BY Zenon DEF View
    <3>3. L4Inside(r, View(k, h), w.next)
      BY <3>1, <3>4, NoL4Inside, Zenon
    <3> HIDE DEF r, l3
    <3>5. IpParsed(IpPacket(6, t, l, w.next, w.fragmented, r), v)
      BY <1>0, <1>1, <3>2, <3>3, IpPacketParsed, Zenon
    <3> QED
      BY <2>3, <3>2, <3>5, Zenon
  <2> QED
    BY <2>6, <2>7, Zenon
<1> QED
  BY <1>4, <1>5, Zenon

\* parse_ip() takes no bytes from outside its packet, for either version.
LEMMA ParseIpInside ==
  ASSUME NEW v, v.size \in Nat, IpLengths(v.data)
  PROVE  IpParsed(ParseIp(v), v)
<1>1. CASE v.size = 0
  BY <1>1, NotAPacketParsed, Zenon DEF ParseIp
<1>2. CASE v.size # 0 /\ v.data.version = 4
  BY <1>2, Ipv4Parsed DEF ParseIp
<1>3. CASE v.size # 0 /\ v.data.version = 6
  BY <1>3, Ipv6ParsedInside DEF ParseIp
<1>4. CASE v.size # 0 /\ v.data.version \notin {4, 6}
  <2>1. ParseIp(v) = NotAPacket
    BY <1>4 DEF ParseIp
  <2> QED
    BY <2>1, NotAPacketParsed, Zenon
<1> QED
  BY <1>1, <1>2, <1>3, <1>4, Zenon

\* Where there are no bytes there is no IP packet.
LEMMA NothingThere == NoBytes.size = 0 /\ IpData(NoBytes.data)
<1>1. NoBytes.size = 0 /\ NoBytes.data.version = 0
  BY DEF NoBytes, View
<1>2. NoBytes.data.version \notin {4, 6} /\ NoBytes.data.version # 4 /\ NoBytes.data.version # 6
  BY <1>1
<1> QED
  BY <1>1, <1>2, Zenon DEF IpData, IpLengths

\* The payload of an Ethernet frame lies in it.
LEMMA EthernetInside ==
  ASSUME NEW v, v.size \in Nat, v.data.tags \in Nat, IpData(v.data.body)
  PROVE  LET ip == ParseEthernet(v).payload IN ip.size \in Nat /\ ip.size <= v.size /\ IpData(ip.data)
<1> DEFINE off == 14 + 4 * SmallerLen(v.data.tags, MaxVlanTags)
           ip == ParseEthernet(v).payload
           data == v.data.body
<1>1. PICK s \in Nat, k \in Nat : s = v.size /\ k = off
  <2>1. PICK n \in Nat : n = SmallerLen(v.data.tags, MaxVlanTags)
    BY NetAssumption, SmallerIs, Zenon
  <2>2. 14 + 4 * n \in Nat
    OBVIOUS
  <2> QED
    BY <2>1, <2>2, Zenon
<1>2. CASE s < 14 \/ s < k
  <2>1. ip = NoBytes
    <3>1. ParseEthernet(v) = [valid |-> FALSE, payload |-> NoBytes]
      BY <1>1, <1>2, Zenon DEF ParseEthernet
    <3> QED
      BY <3>1, PayloadOf, Zenon
  <2>2. 0 \in Nat /\ 0 <= s
    BY NoneLeft, Zenon
  <2> QED
    BY <1>1, <2>1, <2>2, NothingThere, Zenon
<1>3. CASE ~(s < 14 \/ s < k)
  <2>1. ip = View(s - k, data)
    <3>1. ParseEthernet(v) = [valid |-> TRUE, payload |-> View(s - k, data)]
      BY <1>1, <1>3, Zenon DEF ParseEthernet
    <3> QED
      BY <3>1, PayloadOf, Zenon
  <2> HIDE DEF ip
  <2>2. ip.size = s - k /\ ip.data = data
    BY <2>1, Zenon DEF View
  <2>3. s - k \in Nat /\ s - k <= s
    BY <1>3, StillLeft, Zenon
  <2> QED
    BY <1>1, <2>2, <2>3, Zenon DEF ip
<1> QED
  BY <1>2, <1>3, Zenon

\* What parse_gtpu() leaves of a PDU lies in it.
LEMMA GtpuInside ==
  ASSUME NEW v, v.size \in Nat, GtpuData(v.data), IpLengths(v.data.body)
  PROVE  LET p == ParseGtpu(v).payload IN p.size \in Nat /\ p.size <= v.size /\ IpLengths(p.data)
<1> DEFINE r == ParseGtpu(v)
           h == v.data
<1>1. CASE r.status = "ok"
  <2>1. PICK n \in 0 .. MaxGtpuExts : WellFormed(v, n)
    BY <1>1, GtpuParsedExactly, Zenon
  <2>2. r.payload = View(h.declared - HeadersOf(h, n), h.body)
    BY <2>1, GtpuParsedExactly, Zenon
  <2>3. ChainOf(h, n) /\ HeadersOf(h, n) <= h.declared /\ h.declared <= v.size - 8
    BY <2>1, Zenon DEF WellFormed
  <2>4. n \in Nat
    BY GtpuAssumption
  <2>5. SizeOf(h.exts, n) \in Nat /\ HeadersOf(h, n) = IF Optional(h) THEN 4 + SizeOf(h.exts, n) ELSE 0
    BY <2>3, <2>4, ReferenceChain, Zenon
  <2>6. HeadersOf(h, n) \in Nat
    BY <2>5
  <2>7. PICK a \in Nat, d \in Nat, s \in Nat : a = HeadersOf(h, n) /\ d = h.declared /\ s = v.size /\ a <= d /\ d <= s - 8
    BY <2>3, <2>6, Zenon DEF GtpuData
  <2>8. d - a \in Nat /\ d - a <= s
    BY <2>7, DeclaredLeft, Zenon
  <2> HIDE DEF r
  <2>9. r.payload.size = d - a /\ r.payload.data = h.body
    <3>1. r.payload = View(d - a, h.body)
      BY <2>2, <2>7, Zenon
    <3>2. View(d - a, h.body).size = d - a /\ View(d - a, h.body).data = h.body
      BY Zenon DEF View
    <3> QED
      BY <3>1, <3>2, Zenon
  <2> QED
    BY <2>7, <2>8, <2>9, Zenon DEF r
<1>2. CASE r.status # "ok"
  <2> DEFINE chain == ParseExtChain(View(h.declared - 4, h.exts), FirstOf(h))
  <2>1. r = GtpuParsed(v, h, chain)
    BY Zenon DEF ParseGtpu, FirstOf
  <2> HIDE DEF r, chain
  <2>2. \A s : GtpuError(s).payload = NoBytes
    BY Zenon DEF GtpuError
  <2>3. \A q, p : GtpuResult("ok", h, q, p).status = "ok"
    BY Zenon DEF GtpuResult
  <2>4. \/ \E s \in {"truncated", "bad_version", "not_gtpu", "bad_length", chain.status} : r = GtpuError(s)
        \/ r = GtpuResult("ok", h, chain.qfi, View(h.declared - UsedByHeaders(h, chain), h.body))
    BY <2>1, Zenon DEF GtpuParsed
  <2>5. r.payload = NoBytes
    BY <1>2, <2>2, <2>3, <2>4, Zenon
  <2>6. 0 \in Nat /\ 0 <= v.size
    OBVIOUS
  <2> QED
    BY <2>5, <2>6, NothingThere, Zenon DEF r, IpData
<1> QED
  BY <1>1, <1>2, Zenon

\* An IP packet that fits in its view.
LEMMA IpFits ==
  ASSUME NEW v, v.size \in Nat, IpLengths(v.data)
  PROVE  IpInside(v)
<1>1. IpParsed(ParseIp(v), v)
  BY ParseIpInside, Zenon
<1>2. \A n \in Nat : n >= 0
  OBVIOUS
<1> QED
  BY <1>1, <1>2, Zenon DEF IpParsed, IpInside

\* The view of a frame or of an IP packet, with headers in it that say anything.
Readable(l, v) ==
  /\ v.size \in Nat
  /\ IF l = "ethernet" THEN v.data.tags \in Nat /\ IpData(v.data.body) ELSE IpData(v.data)

\* Each parser gives the next one a view inside its own, down to the inner packet.
LEMMA ReadableNested ==
  ASSUME NEW v, Readable(link, v)
  PROVE  Nested(v)
<1> DEFINE ip == IF link = "ethernet" THEN ParseEthernet(v).payload ELSE v
           outer == ParseIp(ip)
           h == ParseGtpu(outer.payload)
<1>1. v.size \in Nat /\ v.size <= v.size
  BY DEF Readable
<1>2. ip.size \in Nat /\ ip.size <= v.size /\ IpData(ip.data)
  BY <1>1, EthernetInside, Zenon DEF Readable
<1> HIDE DEF ip
<1>3. IpInside(ip) /\ IpParsed(outer, ip)
  BY <1>2, IpFits, ParseIpInside, Zenon DEF IpData
<1> HIDE DEF outer
<1>4. ASSUME outer.valid /\ outer.proto = "udp" /\ EitherPort(outer, GtpuPort)
      PROVE  h.payload.size <= outer.payload.size /\ IpInside(h.payload)
  <2>1. /\ ip.data.version \in {4, 6} /\ EitherPort(ip.data, GtpuPort) /\ outer.payload.size \in Nat
        /\ outer.payload = View(outer.payload.size, ip.data.body)
    BY <1>3, <1>4, Zenon DEF IpParsed
  <2>2. PICK n \in Nat : n = outer.payload.size
    BY <2>1, Zenon
  <2>3. outer.payload.data = ip.data.body
    <3>1. View(n, ip.data.body).data = ip.data.body
      BY Zenon DEF View
    <3> QED
      BY <2>1, <2>2, <3>1, Zenon
  <2>4. GtpuData(outer.payload.data) /\ IpLengths(outer.payload.data.body)
    BY <1>2, <2>1, <2>3, Zenon DEF IpData
  <2>5. h.payload.size \in Nat /\ h.payload.size <= outer.payload.size /\ IpLengths(h.payload.data)
    BY <2>1, <2>4, GtpuInside, Zenon
  <2> HIDE DEF h
  <2> QED
    BY <2>5, IpFits, Zenon
<1> QED
  BY <1>2, <1>3, <1>4, Zenon DEF Nested, ip, outer

-----------------------------------------------------------------------------
(* The packets in the batch, and what is made of them *)

\* ExactlyMetered, with the setting it depends on.
Exactly(pdu, events, by_inner) ==
  LET chains == {n \in 0 .. MaxGtpuExts : WellFormed(pdu, n)} IN
  /\ events # << >> <=> chains # {}
  /\ \A n \in chains :
       LET size == pdu.data.declared - HeadersOf(pdu.data, n)
           inner == ParseIp(View(size, pdu.data.body))
       IN events[1].bytes =
            IF pdu.data.msg_type # "gpdu" THEN 0
            ELSE IF inner.valid /\ by_inner THEN inner.ip_total_len ELSE size

\* Exactly is ExactlyMetered with the configuration as a parameter.
LEMMA ExactlyIs ==
  ASSUME NEW pdu, NEW events
  PROVE  Exactly(pdu, events, cfg.meter_inner_ip_length) <=> ExactlyMetered(pdu, events)
BY Zenon DEF Exactly, ExactlyMetered

Judged(l, c) == "pdu" \in DOMAIN l.packet => Exactly(l.packet.pdu, l.events, c.meter_inner_ip_length)

\* The inductive invariant.  What waits in the batch was captured, and a replay
\* does not move its memory; the packet being processed was metered as the
\* reference says, and its view can be read.
Waits(l, k, g, e) == Captured(l, e.packet) /\ (k = "replay" => e.generation = g)
SourceOk ==
  /\ Unopened => batch = << >> /\ unread = << >>
  /\ main = "open" /\ kind = "replay" => \E r \in Replays : file = r.file
  /\ ~Unopened =>
       /\ kind # "replay" => link \in {"ethernet", "raw_ip"}
       /\ kind = "replay" => \A i \in DOMAIN packets : Captured(link, packets[i])
       /\ IsSequence(unread) /\ \A i \in DOMAIN unread : Captured(link, unread[i])
       /\ IsSequence(batch) /\ \A i \in DOMAIN batch : Waits(link, kind, generation, batch[i])
FrameOk ==
  /\ Unopened => rest.size = 0
  /\ {"packet", "view", "events", "gy"} \subseteq DOMAIN last
  /\ Judged(last, cfg)
  /\ rest.size >= 20 => Readable(link, last.view)
FrameStep ==
  last' # last => Nested(last'.view) /\ Judged(last', cfg)

\* Before the source is open there is no batch and nothing has been processed.
LEMMA SourceInitOk == Init => SourceOk /\ FrameOk
<1> SUFFICES ASSUME Init PROVE SourceOk /\ FrameOk
  OBVIOUS
<1>1. /\ main = "open" /\ batch = << >> /\ unread = << >> /\ rest = NoBytes
      /\ last = [packet |-> NoPacket, view |-> NoBytes, events |-> << >>, gy |-> << >>]
      /\ kind = "replay" => \E r \in Replays : file = r.file
  BY Zenon DEF Init, SourceInit, IngestInit
<1>2. SourceOk
  BY <1>1, Zenon DEF SourceOk, Unopened
<1>3. rest.size = 0 /\ ~(0 >= 20)
  BY <1>1, NothingThere, NoneLeft, Zenon
<1>4. {"packet", "view", "events", "gy"} \subseteq DOMAIN last /\ "pdu" \notin DOMAIN last.packet
  <2>1. last.packet = NoPacket /\ DOMAIN last = {"packet", "view", "events", "gy"}
    BY <1>1, Zenon
  <2>2. DOMAIN NoPacket = {"kind"}
    BY Zenon DEF NoPacket
  <2> QED
    BY <2>1, <2>2
<1> QED
  BY <1>2, <1>3, <1>4, Zenon DEF FrameOk, Judged

\* An entry of a sequence grown by push_back is the new one or an old one.
LEMMA AppendEntries ==
  ASSUME NEW s, IsSequence(s), NEW e
  PROVE  IsSequence(Append(s, e)) /\ \A i \in DOMAIN Append(s, e) : Append(s, e)[i] = e \/ (i \in DOMAIN s /\ Append(s, e)[i] = s[i])
<1>1. PICK S : s \in Seq(S)
  BY Zenon DEF IsSequence
<1>2. Append(s, e) \in Seq(S \cup {e})
  BY <1>1
<1>3. \A i \in DOMAIN Append(s, e) : Append(s, e)[i] = e \/ (i \in DOMAIN s /\ Append(s, e)[i] = s[i])
  BY <1>1
<1> QED
  BY <1>2, <1>3, Zenon DEF IsSequence

\* The entries left in a sequence without its first one.
LEMMA TailEntries ==
  ASSUME NEW s, IsSequence(s), s # << >>
  PROVE  /\ IsSequence(Tail(s)) /\ 1 \in DOMAIN s /\ Head(s) = s[1]
         /\ \A i \in DOMAIN Tail(s) : i + 1 \in DOMAIN s /\ Tail(s)[i] = s[i + 1]
<1>1. PICK S : s \in Seq(S)
  BY Zenon DEF IsSequence
<1>2. Tail(s) \in Seq(S) /\ 1 \in DOMAIN s /\ Head(s) = s[1]
  BY <1>1
<1>3. \A i \in DOMAIN Tail(s) : i + 1 \in DOMAIN s /\ Tail(s)[i] = s[i + 1]
  BY <1>1
<1> QED
  BY <1>2, <1>3, Zenon DEF IsSequence

\* A capture is read and an interface is opened with nothing in the batch.
LEMMA SourceOpens ==
  ASSUME SourceOk, FrameOk, ReplayInv, Open
  PROVE  SourceOk' /\ FrameOk' /\ FrameStep
<1>1. main = "open" /\ UNCHANGED <<cfg, rest, last>>
  BY Zenon DEF Open, ingestVars
<1>2. FrameStep
  BY <1>1, Zenon DEF FrameStep
<1>3. rest.size = 0 /\ ~(0 >= 20)
  BY <1>1 DEF FrameOk, Unopened
<1>4. FrameOk'
  BY <1>1, <1>3, Zenon DEF FrameOk
<1> SUFFICES SourceOk'
  BY <1>2, <1>4, Zenon
<1>5. batch = << >> /\ unread = << >> /\ IsSequence(<< >>) /\ DOMAIN << >> = {}
  <2>1. << >> \in Seq({}) /\ DOMAIN << >> = {}
    OBVIOUS
  <2> QED
    BY <1>1, <2>1, Zenon DEF SourceOk, Unopened, IsSequence
<1>6. CASE main' = "failed" /\ UNCHANGED sourceVars
  <2>1. Unopened' /\ main' # "open"
    BY <1>6 DEF Unopened
  <2>2. batch' = << >> /\ unread' = << >>
    BY <1>5, <1>6, Zenon DEF sourceVars, liveVars
  <2> QED
    BY <2>1, <2>2, Zenon DEF SourceOk
<1>7. CASE OpenLive /\ main' = "test"
  <2>1. kind # "replay" /\ kind' = kind /\ link' \in {"ethernet", "raw_ip"} /\ batch' = batch /\ unread' = unread
    BY <1>7 DEF OpenLive
  <2>2. ~Unopened' /\ main' # "open"
    BY <1>7 DEF Unopened
  <2>3. batch' = << >> /\ unread' = << >> /\ DOMAIN batch' = {} /\ DOMAIN unread' = {}
    BY <1>5, <2>1, Zenon
  <2> QED
    BY <1>5, <2>1, <2>2, <2>3, Zenon DEF SourceOk
<1>8. CASE OpenReplay /\ main' = "test"
  <2>1. /\ kind = "replay" /\ packets' = Index(file).packets /\ link' = file.link /\ file.size >= 24
        /\ kind' = kind /\ batch' = batch /\ unread' = unread
    BY <1>8, Zenon DEF OpenReplay, ReplayOpens, Loadable, liveVars
  <2>2. CaptureFile(file)
    BY <1>1, <2>1, Zenon DEF ReplayInv, Waiting
  <2>3. PICK r \in Replays : file = r.file
    BY <1>1, <2>1, Zenon DEF SourceOk
  <2>4. PICK m \in 0 .. Len(file.records) : packets' = SubSeq(file.records, 1, m)
    BY <2>1, <2>2, IndexHolds, Zenon
  <2>5. \A i \in DOMAIN packets' : i \in DOMAIN file.records /\ packets'[i] = file.records[i]
    BY <2>2, <2>4 DEF CaptureFile
  <2>6. \A i \in DOMAIN packets' : Captured(link', packets'[i])
    BY <2>1, <2>3, <2>5, PacketsAssumption, Zenon
  <2>7. ~Unopened' /\ main' # "open"
    BY <1>8 DEF Unopened
  <2>8. batch' = << >> /\ unread' = << >> /\ DOMAIN batch' = {} /\ DOMAIN unread' = {}
    BY <1>5, <2>1, Zenon
  <2> QED
    BY <1>5, <2>1, <2>6, <2>7, <2>8, Zenon DEF SourceOk
<1> QED
  BY <1>6, <1>7, <1>8, Zenon DEF Open

\* The cursor of a replay points into its capture.
LEMMA ReplayDomain ==
  ASSUME ReplayInv, kind = "replay", ~Unopened
  PROVE  /\ DOMAIN packets = 1 .. Len(packets) /\ Len(packets) \in Nat /\ Len(packets) # 0
         /\ cursor \in 0 .. Len(packets)
<1>1. Replaying /\ Indexed
  BY Zenon DEF ReplayInv
<1>2. file.records \in Seq(Range(file.records)) /\ \E m \in 0 .. Len(file.records) : packets = SubSeq(file.records, 1, m)
  BY <1>1, Zenon DEF Indexed, CaptureFile
<1>3. DOMAIN packets = 1 .. Len(packets)
  BY <1>2
<1> QED
  BY <1>1, <1>3, Zenon DEF Replaying

\* A packet more in the batch.
LEMMA BatchGrows ==
  ASSUME SourceOk, ~Unopened, NEW e, Captured(link, e.packet), kind = "replay" => e.generation = generation,
         batch' = Append(batch, e), kind' = kind, link' = link, kind = "replay" => generation' = generation
  PROVE  IsSequence(batch') /\ \A i \in DOMAIN batch' : Waits(link', kind', generation', batch'[i])
<1>1. IsSequence(batch) /\ \A i \in DOMAIN batch : Waits(link, kind, generation, batch[i])
  BY Zenon DEF SourceOk
<1>2. IsSequence(batch') /\ \A i \in DOMAIN batch' : batch'[i] = e \/ (i \in DOMAIN batch /\ batch'[i] = batch[i])
  BY <1>1, AppendEntries, Zenon
<1>3. Waits(link', kind', generation', e)
  BY Zenon DEF Waits
<1>4. \A i \in DOMAIN batch : Waits(link', kind', generation', batch[i])
  BY <1>1, Zenon DEF Waits
<1> QED
  BY <1>2, <1>3, <1>4, Zenon

\* A round of next_batch().
LEMMA SourceFills ==
  ASSUME SourceOk, ReplayInv, ~Unopened, ~Unopened', main' = main, Fill
  PROVE  SourceOk' /\ link' = link
<1>0. main # "open" /\ main' # "open"
  BY DEF Unopened
<1>1. /\ kind # "replay" => link \in {"ethernet", "raw_ip"}
      /\ kind = "replay" => \A i \in DOMAIN packets : Captured(link, packets[i])
      /\ IsSequence(unread) /\ \A i \in DOMAIN unread : Captured(link, unread[i])
      /\ IsSequence(batch) /\ \A i \in DOMAIN batch : Waits(link, kind, generation, batch[i])
  BY Zenon DEF SourceOk
<1>2. kind # "replay" => \A p \in LivePackets[link] : Captured(link, p)
  BY <1>1, PacketsAssumption, Zenon
<1>3. kind' = kind /\ link' = link /\ packets' = packets
  BY Zenon DEF Fill, ReplayPacket, ReplayExhausted, LinuxPacket, BpfRead, BpfPacket, replayVars
<1>4. ASSUME IsSequence(unread') /\ \A i \in DOMAIN unread' : Captured(link', unread'[i]),
             IsSequence(batch') /\ \A i \in DOMAIN batch' : Waits(link', kind', generation', batch'[i])
      PROVE  SourceOk'
  BY <1>0, <1>1, <1>3, <1>4, Zenon DEF SourceOk
<1>5. \A p, g : Entry(p, g).packet = p /\ Entry(p, g).generation = g
  BY Zenon DEF Entry
<1>6. CASE ReplayPacket
  <2> DEFINE from == IF cursor >= Len(packets) THEN 0 ELSE cursor
  <2>1. /\ kind = "replay" /\ batch' = Append(batch, Entry(packets[from + 1], generation))
        /\ generation' = generation /\ unread' = unread
    BY <1>6, Zenon DEF ReplayPacket, liveVars
  <2>2. from + 1 \in DOMAIN packets
    <3>1. /\ DOMAIN packets = 1 .. Len(packets) /\ Len(packets) \in Nat /\ Len(packets) # 0
          /\ cursor \in 0 .. Len(packets)
      BY <2>1, ReplayDomain, Zenon
    <3> QED
      BY <3>1
  <2>3. PICK e : e = Entry(packets[from + 1], generation)
    OBVIOUS
  <2>4. Captured(link, e.packet) /\ e.generation = generation
    BY <1>1, <1>5, <2>1, <2>2, <2>3, Zenon
  <2>5. IsSequence(batch') /\ \A i \in DOMAIN batch' : Waits(link', kind', generation', batch'[i])
    BY <1>3, <2>1, <2>3, <2>4, BatchGrows, Zenon
  <2> QED
    BY <1>1, <1>3, <1>4, <2>1, <2>5, Zenon
<1>7. CASE ReplayExhausted
  <2>1. batch' = batch /\ generation' = generation /\ unread' = unread
    BY <1>7, Zenon DEF ReplayExhausted, liveVars
  <2> QED
    BY <1>1, <1>3, <1>4, <2>1, Zenon
<1>8. CASE LinuxPacket
  <2>1. kind # "replay" /\ unread' = unread
    BY <1>8 DEF LinuxPacket
  <2>2. PICK p \in LivePackets[link] : batch' = Append(batch, Entry(p, generation'))
    BY <1>8, Zenon DEF LinuxPacket
  <2>3. PICK e : e = Entry(p, generation')
    OBVIOUS
  <2>4. Captured(link, e.packet)
    BY <1>2, <1>5, <2>1, <2>3, Zenon
  <2>5. IsSequence(batch') /\ \A i \in DOMAIN batch' : Waits(link', kind', generation', batch'[i])
    BY <1>3, <2>1, <2>2, <2>3, <2>4, BatchGrows, Zenon
  <2> QED
    BY <1>1, <1>3, <1>4, <2>1, <2>5, Zenon
<1>9. CASE BpfRead
  <2>1. kind # "replay" /\ batch' = batch
    BY <1>9 DEF BpfRead
  <2>2. PICK n \in 1 .. BatchSize : unread' \in [1 .. n -> LivePackets[link]]
    BY <1>9, Zenon DEF BpfRead
  <2>3. unread' \in Seq(LivePackets[link]) /\ \A i \in DOMAIN unread' : unread'[i] \in LivePackets[link]
    <3>1. n \in Nat
      BY SourceAssumption
    <3> QED
      BY <2>2, <3>1
  <2>4. IsSequence(unread') /\ \A i \in DOMAIN unread' : Captured(link', unread'[i])
    BY <1>2, <1>3, <2>1, <2>3, Zenon DEF IsSequence
  <2>5. \A i \in DOMAIN batch' : Waits(link', kind', generation', batch'[i])
    BY <1>1, <1>3, <2>1, Zenon DEF Waits
  <2> QED
    BY <1>1, <1>3, <1>4, <2>1, <2>4, <2>5, Zenon
<1>10. CASE BpfPacket
  <2>1. /\ kind # "replay" /\ unread # << >> /\ unread' = Tail(unread)
        /\ batch' = Append(batch, Entry(Head(unread), generation))
    BY <1>10 DEF BpfPacket
  <2>2. /\ IsSequence(Tail(unread)) /\ 1 \in DOMAIN unread /\ Head(unread) = unread[1]
        /\ \A i \in DOMAIN Tail(unread) : i + 1 \in DOMAIN unread /\ Tail(unread)[i] = unread[i + 1]
    BY <1>1, <2>1, TailEntries, Zenon
  <2>3. PICK e : e = Entry(Head(unread), generation)
    OBVIOUS
  <2>4. Captured(link, e.packet)
    BY <1>1, <1>5, <2>2, <2>3, Zenon
  <2>5. IsSequence(batch') /\ \A i \in DOMAIN batch' : Waits(link', kind', generation', batch'[i])
    BY <1>3, <2>1, <2>3, <2>4, BatchGrows, Zenon
  <2>6. IsSequence(unread') /\ \A i \in DOMAIN unread' : Captured(link', unread'[i])
    BY <1>1, <1>3, <2>1, <2>2, Zenon
  <2> QED
    BY <1>3, <1>4, <2>5, <2>6, Zenon
<1> QED
  BY <1>6, <1>7, <1>8, <1>9, <1>10, Zenon DEF Fill

\* What strip_link_layer() leaves can be read.
LEMMA StrippedReadable ==
  ASSUME NEW l, NEW s \in Nat, NEW d, (l = "linux_sll" => s > 16) => LinkData(l, d),
         StripLinkLayer(l, View(s, d)).valid
  PROVE  Readable(l, StripLinkLayer(l, View(s, d)).payload)
<1> DEFINE v == View(s, d)
           r == StripLinkLayer(l, v)
<1>1. v.size = s /\ v.data = d
  BY Zenon DEF View
<1>2. CASE l = "ethernet"
  <2>1. r.payload = v /\ d.tags \in Nat /\ IpData(d.body)
    BY <1>2 DEF StripLinkLayer, LinkData
  <2> QED
    BY <1>1, <1>2, <2>1, Zenon DEF Readable
<1>3. CASE l = "raw_ip"
  <2>1. r.payload = v /\ IpData(d) /\ l # "ethernet"
    BY <1>3 DEF StripLinkLayer, LinkData
  <2> QED
    BY <1>1, <2>1, Zenon DEF Readable
<1>4. CASE l = "linux_sll" /\ s > 16
  <2>1. r.payload = View(s - 16, d.body) /\ IpData(d.body) /\ l # "ethernet"
    BY <1>1, <1>4 DEF StripLinkLayer, LinkData
  <2>2. r.payload.size = s - 16 /\ r.payload.data = d.body /\ s - 16 \in Nat
    <3>1. r.payload.size = s - 16 /\ r.payload.data = d.body
      <4>1. View(s - 16, d.body).size = s - 16 /\ View(s - 16, d.body).data = d.body
        BY Zenon DEF View
      <4> QED
        BY <2>1, <4>1, Zenon
    <3> QED
      BY <1>4, <3>1, PastSll, Zenon
  <2> QED
    BY <2>1, <2>2, Zenon DEF Readable
<1>5. CASE l \notin {"ethernet", "raw_ip", "linux_sll"} \/ (l = "linux_sll" /\ ~(s > 16))
  <2>1. r = [valid |-> FALSE, is_ethernet |-> FALSE, payload |-> NoBytes]
    BY <1>1, <1>5 DEF StripLinkLayer
  <2> QED
    BY <2>1, NotValid, Zenon
<1> QED
  BY <1>2, <1>3, <1>4, <1>5, Zenon

\* What the frame processor makes of a view.
Verdicts(view, is_ethernet) == IF is_ethernet THEN ProcessFrame(view) ELSE ProcessIp(view, U16(view.size))

\* Through link layer, outer IP and UDP the dispatch gets to the PDU of a packet
\* that carries one, and makes the event the reference asks for, or none.
LEMMA CarriedMetered ==
  ASSUME NEW l, NEW p, Carries(l, p), "pdu" \in DOMAIN p
  PROVE  LET layer == StripLinkLayer(l, View(p.size, p.data)) IN
         ExactlyMetered(p.pdu, Verdicts(layer.payload, layer.is_ethernet).events)
<1> DEFINE layer == StripLinkLayer(l, View(p.size, p.data))
           v == layer.payload
           outer == OuterIp(layer)
           pkt == IF layer.is_ethernet THEN ParseEthernet(v).payload ELSE v
<1>1. /\ outer.valid /\ outer.proto = "udp" /\ EitherPort(outer, GtpuPort)
      /\ outer.payload = p.pdu /\ p.pdu.size \in Nat /\ GtpuData(p.pdu.data)
  BY Zenon DEF Carries
<1>2. outer = ParseIp(pkt)
  BY Zenon DEF OuterIp
<1> HIDE DEF layer, outer
<1>3. \A wire : ProcessIp(pkt, wire) = ProcessGtpu(ParseGtpu(p.pdu), wire)
  <2> SUFFICES ASSUME NEW wire PROVE ProcessIp(pkt, wire) = ProcessGtpu(ParseGtpu(p.pdu), wire)
    BY Zenon
  <2>1. Dispatch(outer, wire) = ProcessGtpu(ParseGtpu(p.pdu), wire)
    BY <1>1, Zenon DEF Dispatch
  <2> QED
    BY <1>2, <2>1, Zenon DEF ProcessIp
<1>4. \E wire : Verdicts(v, layer.is_ethernet).events = ProcessGtpu(ParseGtpu(p.pdu), wire).events
  <2>1. CASE layer.is_ethernet
    <3>1. PICK wire : wire = U16(v.size)
      OBVIOUS
    <3>2. PICK x : x = ProcessIp(ParseEthernet(v).payload, wire)
      OBVIOUS
    <3>3. x = ProcessGtpu(ParseGtpu(p.pdu), wire)
      BY <1>3, <2>1, <3>2, Zenon
    <3>4. Verdicts(v, layer.is_ethernet) = [x EXCEPT !.counts = @ \cup {"frames"}]
      BY <2>1, <3>1, <3>2, Zenon DEF Verdicts, ProcessFrame
    <3>5. "events" \in DOMAIN x
      <4>1. \A c, e, o : "events" \in DOMAIN Verdict(c, e, o)
        BY Zenon DEF Verdict
      <4>2. PICK h, i : x = GtpuVerdict(h, i, wire)
        BY <3>3, Zenon DEF ProcessGtpu
      <4>3. \E c, e, o : x = Verdict(c, e, o)
        BY <4>2, Zenon DEF GtpuVerdict
      <4> QED
        BY <4>1, <4>3, Zenon
    <3>6. Verdicts(v, layer.is_ethernet).events = x.events
      BY <3>4, <3>5, Zenon
    <3> QED
      BY <3>3, <3>6, Zenon
  <2>2. CASE ~layer.is_ethernet
    <3>1. Verdicts(v, layer.is_ethernet) = ProcessIp(v, U16(v.size))
      BY <2>2, Zenon DEF Verdicts
    <3>2. ProcessIp(v, U16(v.size)) = ProcessGtpu(ParseGtpu(p.pdu), U16(v.size))
      BY <1>3, <2>2, Zenon
    <3> QED
      BY <3>1, <3>2, Zenon
  <2> QED
    BY <2>1, <2>2, Zenon
<1>5. \A wire : ExactlyMetered(p.pdu, ProcessGtpu(ParseGtpu(p.pdu), wire).events)
  BY <1>1, PduMetered, Zenon
<1> QED
  BY <1>4, <1>5, Zenon DEF layer

\* A packet of the batch is processed: its own bytes or, live, what its memory
\* shows now.
LEMMA PacketProcessed ==
  ASSUME SourceOk, FrameOk, ProcessPacket
  PROVE  SourceOk' /\ FrameOk' /\ FrameStep
<1> DEFINE e == Head(batch)
<1>1. /\ main = "process" /\ batch # << >> /\ batch' = Tail(batch)
      /\ UNCHANGED <<kind, file, link, packets, generation, unread, main>>
  BY Zenon DEF ProcessPacket, replayVars, liveVars
<1>2. ~Unopened /\ ~Unopened' /\ main' # "open"
  BY <1>1 DEF Unopened
<1>3. /\ kind # "replay" => link \in {"ethernet", "raw_ip"}
      /\ kind = "replay" => \A i \in DOMAIN packets : Captured(link, packets[i])
      /\ IsSequence(unread) /\ \A i \in DOMAIN unread : Captured(link, unread[i])
      /\ IsSequence(batch) /\ \A i \in DOMAIN batch : Waits(link, kind, generation, batch[i])
  BY <1>2, Zenon DEF SourceOk
<1>4. /\ IsSequence(Tail(batch)) /\ 1 \in DOMAIN batch /\ Head(batch) = batch[1]
      /\ \A i \in DOMAIN Tail(batch) : i + 1 \in DOMAIN batch /\ Tail(batch)[i] = batch[i + 1]
  BY <1>1, <1>3, TailEntries, Zenon
<1>5. SourceOk'
  <2>1. IsSequence(batch') /\ \A i \in DOMAIN batch' : Waits(link', kind', generation', batch'[i])
    BY <1>1, <1>3, <1>4, Zenon
  <2> QED
    BY <1>1, <1>2, <1>3, <2>1, Zenon DEF SourceOk
<1>6. Waits(link, kind, generation, e)
  BY <1>3, <1>4, Zenon
<1> HIDE DEF e
<1>7. PICK p \in Shows(e) : ProcessView(p, StripLinkLayer(link, View(e.packet.size, p.data)))
  BY Zenon DEF ProcessPacket, e
<1>8. PICK s \in Nat : s = e.packet.size
  BY <1>6, Zenon DEF Waits, Captured
<1>9. /\ (link = "linux_sll" => s > 16) => LinkData(link, p.data)
      /\ "pdu" \in DOMAIN p => p = e.packet /\ Carries(link, p)
  <2>1. CASE p = e.packet
    BY <1>6, <1>8, <2>1, Zenon DEF Waits, Captured
  <2>2. CASE p # e.packet
    <3>1. e.generation # generation /\ p \in Memory[link]
      <4>1. CASE e.generation = generation
        BY <1>7, <2>2, <4>1, Zenon DEF Shows
      <4>2. CASE e.generation # generation
        BY <1>7, <4>2, Zenon DEF Shows
      <4> QED
        BY <4>1, <4>2, Zenon
    <3>2. link \in {"ethernet", "raw_ip"}
      BY <1>3, <1>6, <3>1, Zenon DEF Waits
    <3> QED
      BY <3>1, <3>2, PacketsAssumption, Zenon
  <2> QED
    BY <2>1, <2>2, Zenon
<1> DEFINE layer == StripLinkLayer(link, View(s, p.data))
<1>10. PICK y, b : y = layer.payload /\ b = layer.is_ethernet
  OBVIOUS
<1>11. CASE ~layer.valid
  <2>1. UNCHANGED <<cfg, rest, last>>
    BY <1>7, <1>8, <1>11, Zenon DEF ProcessView, ingestVars
  <2>2. FrameOk'
    BY <1>1, <1>2, <2>1, Zenon DEF FrameOk
  <2> QED
    BY <1>5, <2>1, <2>2, Zenon DEF FrameStep
<1>12. CASE layer.valid
  <2>1. Concludes(p, y, Verdicts(y, b))
    BY <1>7, <1>8, <1>10, <1>12, Zenon DEF ProcessView, Process, Verdicts
  <2>2. Readable(link, y)
    BY <1>9, <1>10, <1>12, StrippedReadable, Zenon
  <2>3. PICK ev : ev = Verdicts(y, b).events
    OBVIOUS
  <2>4. PICK L : L = [packet |-> p, view |-> y, events |-> ev, gy |-> << >>]
    BY Zenon
  <2>5. last' = L /\ cfg' = cfg
    BY <2>1, <2>3, <2>4, Zenon DEF Concludes
  <2>6. L.packet = p /\ L.view = y /\ L.events = ev /\ {"packet", "view", "events", "gy"} \subseteq DOMAIN L
    BY <2>4
  <2>7. "pdu" \in DOMAIN p => Exactly(p.pdu, ev, cfg.meter_inner_ip_length)
    <3> SUFFICES ASSUME "pdu" \in DOMAIN p PROVE Exactly(p.pdu, ev, cfg.meter_inner_ip_length)
      BY Zenon
    <3>1. p = e.packet /\ Carries(link, p) /\ s = p.size
      BY <1>8, <1>9, Zenon
    <3>2. ExactlyMetered(p.pdu, ev)
      BY <1>10, <2>3, <3>1, CarriedMetered, Zenon
    <3> QED
      BY <3>2, ExactlyIs, Zenon
  <2>8. Judged(last', cfg) /\ last'.view = y
    BY <2>5, <2>6, <2>7, Zenon DEF Judged
  <2>9. FrameOk'
    BY <1>1, <1>2, <2>2, <2>5, <2>6, <2>8, Zenon DEF FrameOk
  <2>10. Nested(last'.view)
    BY <2>2, <2>8, ReadableNested, Zenon
  <2> QED
    BY <1>5, <2>8, <2>9, <2>10, Zenon DEF FrameStep
<1> QED
  BY <1>11, <1>12, Zenon

\* A Diameter message adds its Gy events to those of the packet.
LEMMA MessageFrame ==
  ASSUME FrameOk, main = "process", main' = main, link' = link, DiameterMessage
  PROVE  FrameOk' /\ FrameStep
<1>1. rest.size >= 20 /\ cfg' = cfg
  BY Zenon DEF DiameterMessage
<1>2. ~Unopened'
  BY DEF Unopened
<1>3. last' = last \/ \E g : last' = [last EXCEPT !.gy = g]
  BY Zenon DEF DiameterMessage, MessageParsed
<1>4. /\ {"packet", "view", "events", "gy"} \subseteq DOMAIN last /\ Judged(last, cfg)
      /\ Readable(link, last.view)
  BY <1>1, Zenon DEF FrameOk
<1>5. /\ last'.packet = last.packet /\ last'.view = last.view /\ last'.events = last.events
      /\ DOMAIN last' = DOMAIN last
  <2>1. CASE last' = last
    BY <2>1, Zenon
  <2>2. ASSUME NEW g, last' = [last EXCEPT !.gy = g]
        PROVE  /\ last'.packet = last.packet /\ last'.view = last.view /\ last'.events = last.events
               /\ DOMAIN last' = DOMAIN last
    BY <1>4, <2>2
  <2> QED
    BY <1>3, <2>1, <2>2, Zenon
<1>6. Judged(last', cfg) /\ Judged(last', cfg')
  BY <1>1, <1>4, <1>5, Zenon DEF Judged
<1>7. Readable(link', last'.view)
  BY <1>4, <1>5, Zenon
<1>8. FrameOk'
  BY <1>2, <1>4, <1>5, <1>6, <1>7, Zenon DEF FrameOk
<1>9. Nested(last'.view)
  <2>1. PICK v : v = last.view
    OBVIOUS
  <2>2. Nested(v)
    BY <1>4, <2>1, ReadableNested, Zenon
  <2> QED
    BY <1>5, <2>1, <2>2, Zenon
<1> QED
  BY <1>6, <1>8, <1>9, Zenon DEF FrameStep

\* Every step keeps the batch readable and judges the packet it processes.
LEMMA FrameNext == SourceOk /\ FrameOk /\ ReplayInv /\ [Next]_vars => SourceOk' /\ FrameOk' /\ FrameStep
<1> SUFFICES ASSUME SourceOk, FrameOk, ReplayInv, [Next]_vars PROVE SourceOk' /\ FrameOk' /\ FrameStep
  OBVIOUS
<1>1. ASSUME UNCHANGED <<kind, file, link, packets, unread, batch>>, kind = "replay" => generation' = generation,
             Unopened' <=> Unopened, main' = "open" => main = "open"
      PROVE  SourceOk'
  <2>1. (\A i \in DOMAIN batch : Waits(link, kind, generation, batch[i]))
          => \A i \in DOMAIN batch' : Waits(link', kind', generation', batch'[i])
    BY <1>1, Zenon DEF Waits
  <2> QED
    BY <1>1, <2>1, Zenon DEF SourceOk
<1>2. ASSUME UNCHANGED <<cfg, rest, last, link>>, Unopened' <=> Unopened
      PROVE  FrameOk' /\ FrameStep
  BY <1>2, Zenon DEF FrameOk, FrameStep
<1>3. UNCHANGED sourceVars => UNCHANGED <<kind, file, link, packets, generation, unread, batch>>
  BY Zenon DEF sourceVars, replayVars, liveVars
<1>4. UNCHANGED ingestVars => UNCHANGED <<cfg, rest, last>>
  BY Zenon DEF ingestVars
<1>5. CASE Open
  BY <1>5, SourceOpens, Zenon
<1>6. CASE FillBatch
  <2>1. main = "fill" /\ main' = main /\ Fill /\ UNCHANGED <<cfg, rest, last>>
    BY <1>4, <1>6, Zenon DEF FillBatch
  <2>2. ~Unopened /\ ~Unopened'
    BY <2>1 DEF Unopened
  <2>3. SourceOk' /\ link' = link
    BY <2>1, <2>2, SourceFills, Zenon
  <2> QED
    BY <1>2, <2>1, <2>2, <2>3, Zenon
<1>7. CASE ProcessPacket
  BY <1>7, PacketProcessed, Zenon
<1>8. CASE ProcessDiameter
  <2>1. main = "process" /\ main' = main /\ UNCHANGED sourceVars /\ (DiameterMessage \/ EmitGyEvent)
    BY <1>8, Zenon DEF ProcessDiameter
  <2>2. (Unopened' <=> Unopened) /\ link' = link
    BY <1>3, <2>1, Zenon DEF Unopened
  <2>3. SourceOk'
    BY <1>1, <1>3, <2>1, <2>2, Zenon
  <2>4. CASE DiameterMessage
    BY <2>1, <2>2, <2>3, <2>4, MessageFrame, Zenon
  <2>5. CASE EmitGyEvent
    <3>1. UNCHANGED <<cfg, rest, last>>
      BY <2>5, Zenon DEF EmitGyEvent
    <3> QED
      BY <1>2, <2>2, <2>3, <3>1, Zenon
  <2> QED
    BY <2>1, <2>4, <2>5, Zenon
<1>9. CASE TestStop \/ BatchFilled \/ BatchDone
  <2>1. /\ UNCHANGED <<kind, file, link, packets, unread, batch>> /\ UNCHANGED ingestVars
        /\ kind = "replay" => generation' = generation
    BY <1>3, <1>9, Returned, Zenon DEF TestStop, BatchDone
  <2>2. ~Unopened /\ ~Unopened' /\ main' # "open"
    BY <1>9 DEF TestStop, BatchFilled, BatchDone, Unopened
  <2> QED
    BY <1>1, <1>2, <1>4, <2>1, <2>2, Zenon
<1>10. CASE MeterTakes \/ OnSignal \/ UNCHANGED vars
  <2>1. UNCHANGED sourceVars /\ UNCHANGED <<cfg, rest, last>> /\ main' = main
    BY <1>10, Zenon DEF MeterTakes, PopMeterEvent, PopGyEvent, OnSignal, vars, ingestVars
  <2>2. Unopened' <=> Unopened
    BY <2>1, Zenon DEF Unopened
  <2> QED
    BY <1>1, <1>2, <1>3, <2>1, <2>2, Zenon
<1> QED
  BY <1>5, <1>6, <1>7, <1>8, <1>9, <1>10, Zenon DEF Next, MainStep

\* Whatever lengths, flags and chains a PDU claims, and however it is cut: exactly
\* the well-formed PDUs that arrive lead to an event, charged as the reference
\* says (gtpu.hpp, parse_gtpu(); pipeline.hpp, process_gtpu()).
THEOREM PdusMeteredExactly == Spec => GtpuExact
<1>1. FrameStep => (last' # last /\ "pdu" \in DOMAIN last'.packet => ExactlyMetered(last'.packet.pdu, last'.events))
  <2> SUFFICES ASSUME FrameStep, last' # last, "pdu" \in DOMAIN last'.packet
               PROVE  ExactlyMetered(last'.packet.pdu, last'.events)
    BY Zenon
  <2>1. PICK L : L = last'
    OBVIOUS
  <2>2. Exactly(L.packet.pdu, L.events, cfg.meter_inner_ip_length)
    BY <2>1, Zenon DEF FrameStep, Judged
  <2>3. ExactlyMetered(L.packet.pdu, L.events)
    BY <2>2, ExactlyIs, Zenon
  <2> QED
    BY <2>1, <2>3, Zenon
<1> QED
  BY <1>1, SourceInitOk, FrameNext, ReplayInit, ReplayNext, PTL DEF Spec, GtpuExact

\* No view that the parsers hand on reaches past the view they were given, for
\* every length a header may claim and wherever the packet is cut; the view may
\* be of memory that has been read into again (net.hpp, gtpu.hpp).
THEOREM ViewsStayInside == Spec => ViewsInside
<1>1. FrameStep => (last' # last => Nested(last'.view))
  BY Zenon DEF FrameStep
<1> QED
  BY <1>1, SourceInitOk, FrameNext, ReplayInit, ReplayNext, PTL DEF Spec, ViewsInside
=============================================================================
