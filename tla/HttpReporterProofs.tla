-------------------------- MODULE HttpReporterProofs --------------------------
(***************************************************************************)
(* TablesSound for every size of the tables, scan budget, row limit and    *)
(* traffic.  The metering thread gathers the tables a slice at a tick      *)
(* while packets are charged, subscribers installed and flows evicted, so  *)
(* the rows of one pass are read at different times.                       *)
(*                                                                         *)
(* The invariant (ScanInv) speaks of the part gathered so far: a row lies  *)
(* between what was there when the pass began and what is there now, no    *)
(* subscriber has two rows, and what the cursor has passed is missing only *)
(* because the table is full of larger rows.  What was there at the start  *)
(* of the pass has not become less since, except in a slot given to        *)
(* another flow.                                                           *)
(***************************************************************************)
EXTENDS HttpReporter, NumberFacts, FiniteSetTheorems, TLAPS

-----------------------------------------------------------------------------
(* The tables of a pass *)

\* The shape of the tables.
TablesTyped ==
  /\ subs \in Seq(Usage)
  /\ DOMAIN flows = TableSlots /\ \A s \in TableSlots : flows[s].bytes \in Nat
  /\ {"subs", "top", "open"} \subseteq DOMAIN building
  /\ {"subs", "flows", "kept"} \subseteq DOMAIN origin

\* What was there when the pass began has not become less, except in slots that
\* were given to another flow.
OriginOk(o) ==
  /\ o.subs \in Seq(Usage) /\ Len(o.subs) <= Len(subs) /\ \A n \in DOMAIN o.subs : o.subs[n] <= subs[n]
  /\ o.kept \subseteq TableSlots /\ \A s \in TableSlots : o.flows[s].bytes \in Nat
  /\ \A s \in o.kept : o.flows[s].key = flows[s].key /\ o.flows[s].bytes <= flows[s].bytes

\* The rows of the subscribers up to the cursor.
RowOk(r, cursor, before) ==
  /\ r.sub \in 1 .. cursor /\ r.bytes \in Nat /\ r.bytes <= subs[r.sub]
  /\ r.sub \in DOMAIN before => before[r.sub] <= r.bytes
RowsOk(rows, cursor, before) ==
  /\ IsFiniteSet(rows)
  /\ \A r \in rows : RowOk(r, cursor, before)
  /\ \A r, q \in rows : r.sub = q.sub => r = q
  /\ \A n \in DOMAIN before : n <= cursor /\ before[n] # Unused => \E r \in rows : r.sub = n

\* The largest flows up to the cursor.
FlowOk(r, cursor, o) ==
  /\ r.slot \in 1 .. cursor /\ r.bytes \in Nat
  /\ r.slot \in o.kept => /\ r.key = flows[r.slot].key
                          /\ o.flows[r.slot].bytes <= r.bytes /\ r.bytes <= flows[r.slot].bytes
Full(top, bytes) == Cardinality(top) = FlowLimit /\ \A r \in top : r.bytes >= bytes
Shown(top, s) == \E r \in top : r.slot = s
TopOk(top, cursor, o) ==
  /\ IsFiniteSet(top) /\ Cardinality(top) <= FlowLimit
  /\ \A r \in top : FlowOk(r, cursor, o)
  /\ \A s \in o.kept : s <= cursor /\ o.flows[s].key # "none" => Shown(top, s) \/ Full(top, o.flows[s].bytes)

\* What a pass has gathered so far.
ScanOk ==
  /\ subCursor \in 0 .. Len(subs) /\ flowCursor \in 0 .. FlowSlots
  /\ OriginOk(origin)
  /\ RowsOk(building.subs, subCursor, origin.subs)
  /\ TopOk(building.top, flowCursor, origin)
ScanInv == TablesTyped /\ (building.open => ScanOk)

\* A slice of subscribers adds a row for each one that has a packet.
LEMMA SliceOfSubs ==
  ASSUME subs \in Seq(Usage), NEW rows, NEW before \in Seq(Usage), NEW c \in Nat, NEW n \in Nat,
         Len(before) <= Len(subs), \A i \in DOMAIN before : before[i] <= subs[i],
         RowsOk(rows, c, before), c + n <= Len(subs)
  PROVE  RowsOk(rows \cup SubRows(c, n), c + n, before)
<1> DEFINE new == {j \in c + 1 .. c + n : subs[j] # Unused}
           Row(i) == [sub |-> i, bytes |-> subs[i]]
           added == SubRows(c, n)
           all == rows \cup added
<1>0. added = {Row(i) : i \in new}
  BY Zenon DEF SubRows
<1>1. IsFiniteSet(added)
  <2>1. IsFiniteSet(c + 1 .. c + n)
    BY FS_Interval
  <2>2. IsFiniteSet(new)
    BY <2>1, FS_Subset, Zenon
  <2> DEFINE f == [i \in new |-> Row(i)]
  <2>3. \A i \in new : f[i] = Row(i)
    BY Zenon
  <2>4. f \in [new -> added] /\ \A r \in added : \E i \in new : f[i] = r
    BY <1>0, <2>3, Zenon
  <2>5. f \in Surjection(new, added)
    BY <2>4, Zenon DEF Surjection
  <2> QED
    BY <2>2, <2>5, FS_Surjection, Zenon
<1>2. IsFiniteSet(all)
  BY <1>1, FS_Union, Zenon DEF RowsOk
<1>3. \A i \in new : i \in Nat /\ i \in 1 .. c + n /\ i > c /\ i \in DOMAIN subs /\ subs[i] \in Nat
  BY DEF Usage
<1>4. \A i \in new : Row(i).sub = i /\ Row(i).bytes = subs[i]
  BY Zenon
<1>5. \A r \in added : \E i \in new : r = Row(i)
  BY <1>0, Zenon
<1>6. ASSUME NEW r \in added PROVE RowOk(r, c + n, before) /\ r.sub > c
  <2>1. PICK i \in new : r = Row(i)
    BY <1>5, Zenon
  <2>2. r.sub = i /\ r.bytes = subs[i]
    BY <1>4, <2>1, Zenon
  <2>3. subs[i] <= subs[i]
    BY <1>3
  <2> QED
    BY <1>3, <2>2, <2>3, Zenon DEF RowOk
<1>7. ASSUME NEW r \in rows PROVE RowOk(r, c + n, before) /\ r.sub \in Nat /\ r.sub <= c
  <2>1. RowOk(r, c, before)
    BY Zenon DEF RowsOk
  <2>2. r.sub \in 1 .. c
    BY <2>1, Zenon DEF RowOk
  <2>3. r.sub \in 1 .. c + n /\ r.sub \in Nat /\ r.sub <= c
    BY <2>2
  <2> QED
    BY <2>1, <2>3, Zenon DEF RowOk
<1>8. ASSUME NEW r \in all, NEW q \in all, r.sub = q.sub PROVE r = q
  <2>1. CASE r \in rows /\ q \in rows
    BY <1>8, <2>1, Zenon DEF RowsOk
  <2>2. CASE r \in added /\ q \in added
    <3>1. PICK i \in new : r = Row(i)
      BY <1>5, <2>2, Zenon
    <3>2. PICK j \in new : q = Row(j)
      BY <1>5, <2>2, Zenon
    <3>3. i = j
      BY <1>4, <1>8, <3>1, <3>2, Zenon
    <3> QED
      BY <3>1, <3>2, <3>3, Zenon
  <2>3. CASE r \in rows /\ q \in added
    <3>1. r.sub \in Nat /\ r.sub <= c /\ q.sub > c
      BY <1>6, <1>7, <2>3, Zenon
    <3> QED
      BY <1>8, <3>1
  <2>4. CASE r \in added /\ q \in rows
    <3>1. q.sub \in Nat /\ q.sub <= c /\ r.sub > c
      BY <1>6, <1>7, <2>4, Zenon
    <3> QED
      BY <1>8, <3>1
  <2> QED
    BY <2>1, <2>2, <2>3, <2>4, Zenon
<1>9. ASSUME NEW m \in DOMAIN before, m <= c + n, before[m] # Unused PROVE \E r \in all : r.sub = m
  <2>1. m \in Nat /\ m >= 1 /\ before[m] \in Usage /\ before[m] <= subs[m] /\ subs[m] \in Usage
    OBVIOUS
  <2>2. CASE m <= c
    <3>1. PICK r \in rows : r.sub = m
      BY <1>9, <2>2, Zenon DEF RowsOk
    <3> QED
      BY <3>1, Zenon
  <2>3. CASE ~(m <= c)
    <3>1. m \in c + 1 .. c + n
      BY <1>9, <2>1, <2>3
    <3>2. subs[m] # Unused
      <4>1. \A a, b \in Usage : a # Unused /\ a <= b => b # Unused
        BY DEF Usage, Unused
      <4> QED
        BY <1>9, <2>1, <4>1, Zenon
    <3>3. m \in new
      BY <3>1, <3>2, Zenon
    <3>4. Row(m) \in added /\ Row(m).sub = m
      BY <1>0, <1>4, <3>3, Zenon
    <3> QED
      BY <3>4, Zenon
  <2> QED
    BY <2>2, <2>3, Zenon
<1>10. \A r \in all : RowOk(r, c + n, before)
  BY <1>6, <1>7, Zenon
<1> HIDE DEF all, added
<1>11. RowsOk(all, c + n, before)
  BY <1>2, <1>8, <1>9, <1>10, Zenon DEF RowsOk
<1> QED
  BY <1>11, Zenon DEF all, added

\* One more slot: whatever row the heap gives up, no flow that was there from the
\* beginning is left out of a table that has a smaller one.
LEMMA SlotInserted ==
  ASSUME \A s \in TableSlots : flows[s].bytes \in Nat, FlowLimit \in Nat,
         NEW o, OriginOk(o), NEW c \in Nat, c + 1 \in TableSlots,
         NEW top, TopOk(top, c, o), NEW t \in TopInsert(top, c + 1)
  PROVE  TopOk(t, c + 1, o)
<1> DEFINE slot == c + 1
           f == [slot |-> slot, key |-> flows[slot].key, bytes |-> flows[slot].bytes]
<1>1. f.slot = slot /\ f.key = flows[slot].key /\ f.bytes = flows[slot].bytes
  BY Zenon
<1>2. flows[slot].bytes \in Nat /\ slot \in Nat /\ slot \in 1 .. slot
  OBVIOUS
<1>3. t \in IF f.key = "none" THEN {top}
            ELSE IF Cardinality(top) < FlowLimit THEN {top \cup {f}}
            ELSE IF Displaces(top, f) THEN {(top \ {r}) \cup {f} : r \in SmallestOf(top)}
            ELSE {top}
  BY Zenon DEF TopInsert
<1> HIDE DEF f
<1>4. /\ IsFiniteSet(top) /\ Cardinality(top) <= FlowLimit /\ Cardinality(top) \in Nat
      /\ \A r \in top : FlowOk(r, c, o)
  BY FS_CardinalityType, Zenon DEF TopOk
<1>5. ASSUME NEW r \in top PROVE FlowOk(r, slot, o) /\ r.slot # slot /\ r.bytes \in Nat
  <2>1. FlowOk(r, c, o)
    BY <1>4, Zenon
  <2>2. r.slot \in 1 .. c
    BY <2>1, Zenon DEF FlowOk
  <2>3. r.slot \in 1 .. slot /\ r.slot # slot
    BY <2>2
  <2> QED
    BY <2>1, <2>3, Zenon DEF FlowOk
<1>6. slot \in o.kept => flows[slot].key = o.flows[slot].key /\ o.flows[slot].bytes <= flows[slot].bytes
  BY Zenon DEF OriginOk
<1>7. FlowOk(f, slot, o)
  <2>1. flows[slot].bytes <= flows[slot].bytes
    BY <1>2
  <2> QED
    BY <1>1, <1>2, <1>6, <2>1, Zenon DEF FlowOk
<1>8. f \notin top
  BY <1>1, <1>5, Zenon
<1>9. ASSUME NEW s \in o.kept, s <= slot, o.flows[s].key # "none"
      PROVE  s = slot \/ Shown(top, s) \/ Full(top, o.flows[s].bytes)
  <2>1. s \in TableSlots
    BY Zenon DEF OriginOk
  <2>2. s = slot \/ s <= c
    BY <1>9, <2>1 DEF TableSlots
  <2> QED
    BY <1>9, <2>2, Zenon DEF TopOk
<1>10. \A s \in o.kept : o.flows[s].bytes \in Nat
  BY Zenon DEF OriginOk
<1>11. CASE t = top /\ f.key = "none"
  <2>1. \A s \in o.kept : s <= slot /\ o.flows[s].key # "none" => Shown(top, s) \/ Full(top, o.flows[s].bytes)
    BY <1>1, <1>6, <1>9, <1>11, Zenon
  <2> QED
    BY <1>4, <1>5, <1>11, <2>1, Zenon DEF TopOk
<1>12. CASE t = top \cup {f} /\ Cardinality(top) < FlowLimit
  <2>1. IsFiniteSet(t) /\ Cardinality(t) = Cardinality(top) + 1
    BY <1>4, <1>8, <1>12, FS_AddElement, Zenon
  <2>2. Cardinality(t) <= FlowLimit /\ Cardinality(top) # FlowLimit
    BY <1>4, <1>12, <2>1
  <2>3. \A s : Shown(top, s) => Shown(t, s)
    BY <1>12, Zenon DEF Shown
  <2>4. Shown(t, slot)
    BY <1>1, <1>12, Zenon DEF Shown
  <2>5. \A s \in o.kept : s <= slot /\ o.flows[s].key # "none" => Shown(t, s)
    BY <1>9, <2>2, <2>3, <2>4, Zenon DEF Full
  <2>6. \A r \in t : FlowOk(r, slot, o)
    BY <1>5, <1>7, <1>12, Zenon
  <2> QED
    BY <2>1, <2>2, <2>5, <2>6, Zenon DEF TopOk
<1>13. CASE /\ Cardinality(top) = FlowLimit
            /\ \E r \in top : f.bytes > r.bytes
            /\ \E r \in SmallestOf(top) : t = (top \ {r}) \cup {f}
  <2>1. PICK d \in SmallestOf(top) : t = (top \ {d}) \cup {f}
    BY <1>13, Zenon
  <2>2. d \in top /\ \A r \in top : d.bytes <= r.bytes
    BY <2>1, Zenon DEF SmallestOf
  <2>3. f.bytes > d.bytes
    <3>1. PICK r \in top : f.bytes > r.bytes
      BY <1>13, Zenon
    <3>2. d.bytes <= r.bytes /\ d.bytes \in Nat /\ r.bytes \in Nat /\ f.bytes \in Nat
      BY <1>1, <1>2, <1>5, <2>2, <3>1, Zenon
    <3> QED
      BY <3>1, <3>2
  <2>4. IsFiniteSet(top \ {d}) /\ Cardinality(top \ {d}) = Cardinality(top) - 1
    BY <1>4, <2>2, FS_RemoveElement, Zenon
  <2>5. IsFiniteSet(t) /\ Cardinality(t) = Cardinality(top \ {d}) + 1
    BY <1>8, <2>1, <2>4, FS_AddElement, Zenon
  <2>6. Cardinality(t) = FlowLimit /\ Cardinality(t) <= FlowLimit
    BY <1>4, <1>13, <2>4, <2>5
  <2>7. \A r \in t : FlowOk(r, slot, o)
    BY <1>5, <1>7, <2>1, Zenon
  <2>8. ASSUME NEW b \in Nat, b <= d.bytes PROVE Full(t, b)
    <3>1. \A r \in t : r = f \/ r \in top
      BY <2>1, Zenon
    <3>2. ASSUME NEW r \in t PROVE r.bytes >= b
      <4>1. d.bytes <= r.bytes /\ d.bytes \in Nat /\ r.bytes \in Nat
        <5>1. CASE r = f
          <6>1. d.bytes \in Nat /\ f.bytes \in Nat
            BY <1>1, <1>2, <1>5, <2>2, Zenon
          <6> QED
            BY <2>3, <5>1, <6>1
        <5>2. CASE r \in top
          BY <1>5, <2>2, <5>2, Zenon
        <5> QED
          BY <3>1, <5>1, <5>2, Zenon
      <4> QED
        BY <2>8, <4>1
    <3> QED
      BY <2>6, <3>2, Zenon DEF Full
  <2>9. ASSUME NEW s \in o.kept, s <= slot, o.flows[s].key # "none"
        PROVE  Shown(t, s) \/ Full(t, o.flows[s].bytes)
    <3>1. CASE s = slot
      BY <1>1, <2>1, <3>1, Zenon DEF Shown
    <3>2. CASE Shown(top, s)
      <4>1. PICK r \in top : r.slot = s
        BY <3>2, Zenon DEF Shown
      <4>2. CASE r # d
        BY <2>1, <4>1, <4>2, Zenon DEF Shown
      <4>3. CASE r = d
        <5>1. o.flows[s].bytes <= d.bytes
          BY <1>5, <4>1, <4>3, Zenon DEF FlowOk
        <5> QED
          BY <1>10, <2>8, <5>1, Zenon
      <4> QED
        BY <4>2, <4>3, Zenon
    <3>3. CASE Full(top, o.flows[s].bytes)
      <4>1. d.bytes >= o.flows[s].bytes /\ d.bytes \in Nat /\ o.flows[s].bytes \in Nat
        BY <1>5, <1>10, <2>2, <3>3, Zenon DEF Full
      <4>2. o.flows[s].bytes <= d.bytes
        BY <4>1
      <4> QED
        BY <1>10, <2>8, <4>2, Zenon
    <3> QED
      BY <1>9, <2>9, <3>1, <3>2, <3>3, Zenon
  <2> QED
    BY <2>5, <2>6, <2>7, <2>9, Zenon DEF TopOk
<1>14. CASE t = top /\ Cardinality(top) = FlowLimit /\ ~\E r \in top : f.bytes > r.bytes
  <2>1. ASSUME slot \in o.kept PROVE Full(top, o.flows[slot].bytes)
    <3>1. ASSUME NEW r \in top PROVE r.bytes >= o.flows[slot].bytes
      <4>1. /\ ~(f.bytes > r.bytes) /\ f.bytes \in Nat /\ r.bytes \in Nat
            /\ o.flows[slot].bytes <= f.bytes /\ o.flows[slot].bytes \in Nat
        BY <1>1, <1>2, <1>5, <1>6, <1>10, <1>14, <2>1, Zenon
      <4> QED
        BY <4>1
    <3> QED
      BY <1>14, <3>1, Zenon DEF Full
  <2>2. \A s \in o.kept : s <= slot /\ o.flows[s].key # "none" => Shown(top, s) \/ Full(top, o.flows[s].bytes)
    BY <1>9, <2>1, Zenon
  <2> QED
    BY <1>4, <1>5, <1>14, <2>2, Zenon DEF TopOk
<1>15. Cardinality(top) < FlowLimit \/ Cardinality(top) = FlowLimit
  BY <1>4
<1> QED
  BY <1>3, <1>11, <1>12, <1>13, <1>14, <1>15, Zenon DEF Displaces

\* The recursive definition of a slice of the flow table has a solution.
LEMMA TopScanDef ==
  ASSUME NEW top, NEW from, NEW count \in Nat
  PROVE  /\ TopScan(top, from, count)[0] = {top}
         /\ \A i \in 1 .. count : \A u :
              u \in TopScan(top, from, count)[i] <=>
                \E t \in TopScan(top, from, count)[i - 1] : u \in TopInsert(t, from + i)
<1> DEFINE Step(w, i) == UNION {TopInsert(t, from + i) : t \in w}
           Body(n, p) == [i \in 0 .. n |-> IF i = 0 THEN {top} ELSE Step(p[i - 1], i)]
           T == {n \in Nat : \E p : p = Body(n, p)}
<1> HIDE DEF Step
<1>1. 0 \in T
  <2>1. [i \in 0 .. 0 |-> {top}] = Body(0, [i \in 0 .. 0 |-> {top}])
    OBVIOUS
  <2> QED
    BY <2>1, Zenon
<1>2. ASSUME NEW n \in Nat, n \in T PROVE n + 1 \in T
  <2>1. PICK p : p = Body(n, p)
    BY <1>2, Zenon
  <2> DEFINE k == [i \in 0 .. n + 1 |-> IF i = n + 1 THEN Step(p[n], n + 1) ELSE p[i]]
  <2>2. \A i \in 0 .. n : p[i] = IF i = 0 THEN {top} ELSE Step(p[i - 1], i)
    BY <2>1, Zenon
  <2>3. \A i \in 0 .. n : k[i] = p[i]
    OBVIOUS
  <2>4. k[n + 1] = Step(p[n], n + 1)
    OBVIOUS
  <2> HIDE DEF k
  <2>5. ASSUME NEW i \in 0 .. n + 1 PROVE k[i] = IF i = 0 THEN {top} ELSE Step(k[i - 1], i)
    <3>1. CASE i = n + 1
      <4>1. i - 1 = n /\ n \in 0 .. n /\ i # 0
        BY <3>1
      <4> QED
        BY <2>3, <2>4, <3>1, <4>1, Zenon
    <3>2. CASE i # n + 1
      <4>1. i \in 0 .. n /\ (i # 0 => i - 1 \in 0 .. n)
        BY <3>2
      <4> QED
        BY <2>2, <2>3, <4>1, Zenon
    <3> QED
      BY <3>1, <3>2, Zenon
  <2>6. k = [i \in 0 .. n + 1 |-> k[i]]
    BY Zenon DEF k
  <2>7. k = Body(n + 1, k)
    BY <2>5, <2>6, Zenon
  <2>8. n + 1 \in Nat
    OBVIOUS
  <2> QED
    BY <2>7, <2>8, Zenon
<1>3. \A n \in Nat : n \in T
  <2> HIDE DEF T
  <2> QED
    BY <1>1, <1>2, InductiveSet, Zenon
<1> DEFINE P == TopScan(top, from, count)
<1>4. P = CHOOSE p : p = Body(count, p)
  BY Zenon DEF TopScan, Step
<1>5. \E p : p = Body(count, p)
  BY <1>3, Zenon
<1>6. P = Body(count, P)
  <2> HIDE DEF Body, P
  <2> QED
    BY <1>4, <1>5, Zenon
<1>7. \A i \in 0 .. count : P[i] = IF i = 0 THEN {top} ELSE Step(P[i - 1], i)
  BY <1>6, Zenon
<1>8. 0 \in 0 .. count /\ \A i \in 1 .. count : i \in 0 .. count /\ i # 0
  OBVIOUS
<1>9. P[0] = {top} /\ \A i \in 1 .. count : P[i] = Step(P[i - 1], i)
  BY <1>7, <1>8, Zenon
<1> HIDE DEF P
<1>10. ASSUME NEW i \in 1 .. count, NEW u
       PROVE  u \in P[i] <=> \E t \in P[i - 1] : u \in TopInsert(t, from + i)
  <2>1. P[i] = Step(P[i - 1], i)
    BY <1>9, Zenon
  <2>2. PICK w : w = P[i - 1]
    OBVIOUS
  <2>3. P[i] = UNION {TopInsert(t, from + i) : t \in w}
    BY <2>1, <2>2, Zenon DEF Step
  <2>4. u \in P[i] <=> \E t \in w : u \in TopInsert(t, from + i)
    BY <2>3, Zenon
  <2> QED
    BY <2>2, <2>4, Zenon
<1> QED
  BY <1>9, <1>10, Zenon DEF P

\* A slice of flows keeps the largest ones, in every way the heap may go.
LEMMA SliceOfFlows ==
  ASSUME \A s \in TableSlots : flows[s].bytes \in Nat, FlowLimit \in Nat, FlowSlots \in Nat,
         NEW o, OriginOk(o), NEW c \in Nat, NEW n \in Nat, c + n <= FlowSlots,
         NEW top, TopOk(top, c, o), NEW t \in TopScan(top, c, n)[n]
  PROVE  TopOk(t, c + n, o)
<1> DEFINE P == TopScan(top, c, n)
           T == {i \in Nat : i <= n => \A u \in P[i] : TopOk(u, c + i, o)}
<1>1. P[0] = {top} /\ \A i \in 1 .. n : \A u \in P[i] : \E w \in P[i - 1] : u \in TopInsert(w, c + i)
  BY TopScanDef, Zenon
<1> HIDE DEF P
<1>2. 0 \in T
  <2>1. c + 0 = c /\ 0 \in Nat
    OBVIOUS
  <2> QED
    BY <1>1, <2>1, Zenon
<1>3. ASSUME NEW i \in Nat, i \in T PROVE i + 1 \in T
  <2> SUFFICES ASSUME i + 1 <= n, NEW u \in P[i + 1] PROVE TopOk(u, c + (i + 1), o)
    <3>1. i + 1 \in Nat
      OBVIOUS
    <3> QED
      BY <3>1, Zenon
  <2>1. i + 1 \in 1 .. n /\ (i + 1) - 1 = i /\ i <= n
    OBVIOUS
  <2>3. PICK w \in P[i] : u \in TopInsert(w, c + (i + 1))
    BY <1>1, <2>1, Zenon
  <2>4. TopOk(w, c + i, o)
    BY <1>3, <2>1, <2>3, Zenon
  <2>5. PICK e \in Nat : e = c + i
    OBVIOUS
  <2>6. e + 1 = c + (i + 1) /\ e + 1 \in TableSlots
    BY <2>5 DEF TableSlots
  <2> QED
    BY <2>3, <2>4, <2>5, <2>6, SlotInserted, Zenon
<1>4. \A i \in Nat : i \in T
  <2> HIDE DEF T
  <2> QED
    BY <1>2, <1>3, InductiveSet, Zenon
<1>5. n <= n
  OBVIOUS
<1> QED
  BY <1>4, <1>5, Zenon DEF P

-----------------------------------------------------------------------------
(* What a pass publishes *)

\* A function on 1 .. n is a sequence of length n.
LEMMA RowsSequence ==
  ASSUME NEW n \in Nat, NEW S, NEW q \in [1 .. n -> S]
  PROVE  q \in Seq(S) /\ Len(q) = n /\ DOMAIN q = 1 .. n /\ \A i \in 1 .. n : q[i] \in S
OBVIOUS

\* Rows that are all different, and that are all of a set.
Distinct(q, n) == \A i, j \in 1 .. n : i < j => q[i] # q[j]
Covers(q, n, S) == \A r \in S : \E i \in 1 .. n : q[i] = r

\* A finite set is listed by as many distinct entries as it has elements.
LEMMA AllThere ==
  ASSUME NEW S, IsFiniteSet(S), NEW n, n = Cardinality(S), NEW q, q \in [1 .. n -> S], Distinct(q, n)
  PROVE  Covers(q, n, S)
<1>1. n \in Nat
  BY FS_CardinalityType, Zenon
<1>2. ASSUME NEW i \in 1 .. n, NEW j \in 1 .. n, q[i] = q[j] PROVE i = j
  <2>1. i < j \/ j < i \/ i = j
    BY <1>1
  <2> QED
    BY <1>2, <2>1, Zenon DEF Distinct
<1>3. q \in Injection(1 .. n, S)
  BY <1>2, Zenon DEF Injection, IsInjective
<1>4. Cardinality(1 .. n) = n
  <2>1. Cardinality(1 .. n) = n - 1 + 1
    BY <1>1, FS_Interval
  <2> QED
    BY <1>1, <2>1
<1>5. q \in Surjection(1 .. n, S)
  BY <1>3, <1>4, FS_Injection, Zenon
<1> QED
  BY <1>5, Zenon DEF Surjection, Covers

\* The subscribers shown, all in the order of the scan or the largest ones.
LEMMA SubsPublished ==
  ASSUME subs \in Seq(Usage), OriginOk(PassOrigin), SubLimit \in Nat,
         NEW rows, RowsOk(rows, Len(subs), PassOrigin.subs), NEW q \in Busiest(rows)
  PROVE  SubsSound(q)
<1> DEFINE before == PassOrigin.subs
           n == IF Cardinality(rows) > SubLimit THEN SubLimit ELSE Cardinality(rows)
<1>1. /\ IsFiniteSet(rows) /\ Cardinality(rows) \in Nat
      /\ \A r \in rows : RowOk(r, Len(subs), before)
      /\ \A r, p \in rows : r.sub = p.sub => r = p
      /\ \A m \in DOMAIN before : m <= Len(subs) /\ before[m] # Unused => \E r \in rows : r.sub = m
  BY FS_CardinalityType, Zenon DEF RowsOk
<1>2. before \in Seq(Usage) /\ Len(before) <= Len(subs)
  BY Zenon DEF OriginOk
<1> HIDE DEF before
<1>3. \A m \in DOMAIN before : m <= Len(subs) /\ before[m] \in Usage
  BY <1>2
<1>4. n \in Nat /\ q \in [1 .. n -> rows]
  BY <1>1, Zenon DEF Busiest, Sorted, Scanned
<1>5. Len(q) = n /\ DOMAIN q = 1 .. n /\ \A i \in 1 .. n : q[i] \in rows
  BY <1>4, RowsSequence, Zenon
<1>6. ASSUME NEW i \in 1 .. n, NEW j \in 1 .. n, i < j PROVE q[i].sub # q[j].sub
  <2>1. CASE Cardinality(rows) > SubLimit
    <3>1. q[i] # q[j]
      BY <1>6, <2>1, Zenon DEF Busiest, Sorted
    <3> QED
      BY <1>1, <1>5, <3>1, Zenon
  <2>2. CASE ~(Cardinality(rows) > SubLimit)
    <3>1. q[i].sub < q[j].sub
      BY <1>5, <1>6, <2>2, Zenon DEF Busiest, Scanned
    <3>2. RowOk(q[i], Len(subs), before) /\ RowOk(q[j], Len(subs), before)
      BY <1>1, <1>5, Zenon
    <3>3. q[i].sub \in 1 .. Len(subs) /\ q[j].sub \in 1 .. Len(subs)
      BY <3>2, Zenon DEF RowOk
    <3> QED
      BY <3>1, <3>3
  <2> QED
    BY <2>1, <2>2, Zenon
<1>7. ASSUME NEW i \in 1 .. n, NEW j \in 1 .. n, q[j].sub = q[i].sub PROVE i = j
  <2>1. i < j \/ j < i \/ i = j
    BY <1>4
  <2> QED
    BY <1>6, <1>7, <2>1, Zenon
<1>8. ASSUME NEW r \in rows
      PROVE  (\E i \in 1 .. n : q[i] = r) \/ (n = SubLimit /\ \A i \in 1 .. n : q[i].bytes >= r.bytes)
  <2>1. CASE Cardinality(rows) > SubLimit
    BY <2>1, Zenon DEF Busiest, Sorted
  <2>2. CASE ~(Cardinality(rows) > SubLimit)
    <3>1. n = Cardinality(rows)
      BY <2>2, Zenon
    <3>2. Distinct(q, n)
      BY <1>6, Zenon DEF Distinct
    <3>3. Covers(q, n, rows)
      BY <1>1, <1>4, <3>1, <3>2, AllThere, Zenon
    <3> QED
      BY <3>3, Zenon DEF Covers
  <2> QED
    BY <2>1, <2>2, Zenon
<1> HIDE DEF n
<1>9. ASSUME NEW m \in DOMAIN before, before[m] # Unused
      PROVE  (\E i \in DOMAIN q : q[i].sub = m) \/ LeftOut(before[m], q, SubLimit)
  <2>1. PICK r \in rows : r.sub = m
    BY <1>1, <1>3, <1>9, Zenon
  <2>2. CASE \E i \in 1 .. n : q[i] = r
    BY <1>5, <2>1, <2>2, Zenon
  <2>3. CASE n = SubLimit /\ \A i \in 1 .. n : q[i].bytes >= r.bytes
    <3>1. before[m] <= r.bytes /\ r.bytes \in Nat /\ before[m] \in Nat
      BY <1>1, <1>3, <1>9, <2>1, Zenon DEF RowOk, Usage
    <3>2. ASSUME NEW i \in 1 .. n PROVE q[i].bytes >= before[m]
      <4>1. q[i].bytes \in Nat /\ q[i].bytes >= r.bytes
        BY <1>1, <1>5, <2>3, Zenon DEF RowOk
      <4> QED
        BY <3>1, <4>1
    <3> QED
      BY <1>5, <2>3, <3>2, Zenon DEF LeftOut
  <2> QED
    BY <1>8, <2>2, <2>3, Zenon
<1>10. \A i \in 1 .. n : RowOk(q[i], Len(subs), before)
  BY <1>1, <1>5, Zenon
<1> QED
  BY <1>5, <1>7, <1>9, <1>10, Zenon DEF SubsSound, RowOk, before

\* The flows shown, sorted.
LEMMA FlowsPublished ==
  ASSUME OriginOk(PassOrigin), FlowSlots \in Nat, FlowLimit \in Nat,
         NEW top, TopOk(top, FlowSlots, PassOrigin), NEW q \in Sorted(top, Cardinality(top))
  PROVE  FlowsSound(q)
<1> DEFINE o == PassOrigin
           n == Cardinality(top)
<1>1. /\ IsFiniteSet(top) /\ n \in Nat
      /\ \A r \in top : FlowOk(r, FlowSlots, o)
      /\ \A s \in o.kept : s <= FlowSlots /\ o.flows[s].key # "none" => Shown(top, s) \/ Full(top, o.flows[s].bytes)
  BY FS_CardinalityType, Zenon DEF TopOk
<1>2. \A s \in o.kept : s \in TableSlots /\ o.flows[s].bytes \in Nat
  BY Zenon DEF OriginOk
<1>3. \A s \in TableSlots : s <= FlowSlots
  BY DEF TableSlots
<1> HIDE DEF o
<1>4. q \in [1 .. n -> top] /\ \A i, j \in 1 .. n : i < j => q[i] # q[j] /\ q[i].bytes >= q[j].bytes
  BY Zenon DEF Sorted
<1>5. Len(q) = n /\ DOMAIN q = 1 .. n /\ \A i \in 1 .. n : q[i] \in top
  BY <1>1, <1>4, RowsSequence, Zenon
<1>6. \A r \in top : \E i \in 1 .. n : q[i] = r
  <2>1. Distinct(q, n)
    BY <1>4, Zenon DEF Distinct
  <2>2. Covers(q, n, top)
    BY <1>1, <1>4, <2>1, AllThere, Zenon
  <2> QED
    BY <2>2, Zenon DEF Covers
<1> HIDE DEF n
<1>7. ASSUME NEW i \in 1 .. n, q[i].slot \in o.kept
      PROVE  /\ q[i].key = flows[q[i].slot].key
             /\ q[i].bytes \in o.flows[q[i].slot].bytes .. flows[q[i].slot].bytes
  <2>1. /\ q[i].key = flows[q[i].slot].key /\ q[i].bytes \in Nat
        /\ o.flows[q[i].slot].bytes <= q[i].bytes /\ q[i].bytes <= flows[q[i].slot].bytes
    BY <1>1, <1>5, <1>7, Zenon DEF FlowOk
  <2>2. \A a, b : \A x \in Nat : a <= x /\ x <= b => x \in a .. b
    OBVIOUS
  <2> QED
    BY <2>1, <2>2, Zenon
<1>8. ASSUME NEW s \in o.kept, o.flows[s].key # "none"
      PROVE  (\E i \in DOMAIN q : q[i].slot = s) \/ LeftOut(o.flows[s].bytes, q, FlowLimit)
  <2>1. Shown(top, s) \/ Full(top, o.flows[s].bytes)
    BY <1>1, <1>2, <1>3, <1>8, Zenon
  <2>2. CASE Shown(top, s)
    BY <1>5, <1>6, <2>2, Zenon DEF Shown
  <2>3. CASE Full(top, o.flows[s].bytes)
    BY <1>5, <2>3, Zenon DEF Full, LeftOut, n
  <2> QED
    BY <2>1, <2>2, <2>3, Zenon
<1>9. ASSUME NEW i \in 1 .. Len(q) - 1 PROVE q[i].bytes >= q[i + 1].bytes
  <2>1. i \in 1 .. n /\ i + 1 \in 1 .. n /\ i < i + 1
    BY <1>1, <1>5 DEF n
  <2> QED
    BY <1>4, <2>1, Zenon
<1> QED
  BY <1>5, <1>7, <1>8, <1>9, Zenon DEF FlowsSound, o

-----------------------------------------------------------------------------
(* The steps of the metering thread *)

\* Where a tick takes the scan up: a pass in progress, or a new one, whose origin
\* is what the tables hold now.
LEMMA PassResumed ==
  ASSUME ScanInv
  PROVE  /\ OriginOk(PassOrigin) /\ {"subs", "flows", "kept"} \subseteq DOMAIN PassOrigin
         /\ {"subs", "top", "open"} \subseteq DOMAIN Begun
         /\ ResumeFrom(subCursor) \in 0 .. Len(subs) /\ ResumeFrom(flowCursor) \in 0 .. FlowSlots
         /\ RowsOk(Begun.subs, ResumeFrom(subCursor), PassOrigin.subs)
         /\ TopOk(Begun.top, ResumeFrom(flowCursor), PassOrigin)
<1>1. TablesTyped
  BY Zenon DEF ScanInv
<1>2. CASE building.open
  <2>1. ScanOk
    BY <1>2, Zenon DEF ScanInv
  <2>2. /\ PassOrigin = origin /\ Begun = building
        /\ ResumeFrom(subCursor) = subCursor /\ ResumeFrom(flowCursor) = flowCursor
    BY <1>2, Zenon DEF PassOrigin, Begun, ResumeFrom
  <2> QED
    BY <1>1, <2>1, <2>2, Zenon DEF ScanOk, TablesTyped
<1>3. CASE ~building.open
  <2> DEFINE o == [subs |-> subs, flows |-> flows, kept |-> TableSlots]
             b == [subs |-> {}, top |-> {}, open |-> TRUE]
  <2>1. /\ PassOrigin = o
        /\ ResumeFrom(subCursor) = 0 /\ ResumeFrom(flowCursor) = 0
    BY <1>3, Zenon DEF PassOrigin, ResumeFrom
  <2>2. Begun = b
    BY <1>3, Zenon DEF Begun, NoTable
  <2>3. /\ o.subs = subs /\ o.flows = flows /\ o.kept = TableSlots /\ b.subs = {} /\ b.top = {}
        /\ {"subs", "flows", "kept"} \subseteq DOMAIN o /\ {"subs", "top", "open"} \subseteq DOMAIN b
    OBVIOUS
  <2> HIDE DEF o, b
  <2>4. subs \in Seq(Usage) /\ \A s \in TableSlots : flows[s].bytes \in Nat
    BY <1>1, Zenon DEF TablesTyped
  <2>5. Len(subs) <= Len(subs) /\ \A n \in DOMAIN subs : subs[n] <= subs[n]
    BY <2>4 DEF Usage, Unused
  <2>6. \A x \in Nat : x <= x
    OBVIOUS
  <2>7. OriginOk(o)
    BY <2>3, <2>4, <2>5, <2>6, Zenon DEF OriginOk
  <2>8. 0 \in 0 .. Len(subs) /\ 0 \in 0 .. FlowSlots /\ \A n \in DOMAIN subs : ~(n <= 0)
    BY <2>4, ScanAssumption
  <2>9. \A s \in TableSlots : ~(s <= 0)
    BY DEF TableSlots
  <2>10. IsFiniteSet({}) /\ Cardinality({}) = 0
    BY FS_EmptySet, Zenon
  <2>11. 0 <= FlowLimit
    BY ScanAssumption
  <2>12. RowsOk({}, 0, subs)
    BY <2>8, <2>10, Zenon DEF RowsOk
  <2>13. TopOk({}, 0, o)
    BY <2>3, <2>9, <2>10, <2>11, Zenon DEF TopOk
  <2> QED
    BY <2>1, <2>2, <2>3, <2>7, <2>8, <2>12, <2>13, Zenon
<1> QED
  BY <1>2, <1>3, Zenon

\* A tick examines its slice, and publishes at the end of the pass.
LEMMA ScanAdvances ==
  ASSUME ScanInv, AdvanceDetailScan, UNCHANGED <<subs, flows>>
  PROVE  ScanInv' /\ (pass' # pass => SubsSound(detail'.subs) /\ FlowsSound(detail'.top))
<1> DEFINE subFrom == ResumeFrom(subCursor)
           flowFrom == ResumeFrom(flowCursor)
           ns == SmallerOf(ScanBudget, Len(subs) - subFrom)
           nf == SmallerOf(ScanBudget - ns, FlowSlots - flowFrom)
           complete == subFrom + ns = Len(subs) /\ flowFrom + nf = FlowSlots
           o == PassOrigin
           b == Begun
<1>1. PICK sliced \in Sliced(b, subFrom, flowFrom, ns, nf) :
        /\ subCursor' = subFrom + ns /\ flowCursor' = flowFrom + nf
        /\ origin' = IF complete THEN NoOrigin ELSE o
        /\ pass' = IF complete THEN 1 - pass ELSE pass
        /\ IF complete
             THEN /\ building' = NoTable
                  /\ \E rows \in Busiest(sliced.subs), top \in Sorted(sliced.top, Cardinality(sliced.top)) :
                       detail' = [published |-> TRUE, subs |-> rows, top |-> top, total |-> Len(subs)]
             ELSE building' = sliced /\ detail' = detail
  BY Zenon DEF AdvanceDetailScan
<1>2. PICK t \in TopScan(b.top, flowFrom, nf)[nf] :
        sliced = [b EXCEPT !.subs = @ \cup SubRows(subFrom, ns), !.top = t]
  BY <1>1, Zenon DEF Sliced
<1>3. /\ OriginOk(o) /\ {"subs", "flows", "kept"} \subseteq DOMAIN o
      /\ {"subs", "top", "open"} \subseteq DOMAIN b
      /\ subFrom \in 0 .. Len(subs) /\ flowFrom \in 0 .. FlowSlots
      /\ RowsOk(b.subs, subFrom, o.subs) /\ TopOk(b.top, flowFrom, o)
  BY PassResumed, Zenon
<1>4. /\ TablesTyped /\ subs \in Seq(Usage)
      /\ \A s \in TableSlots : flows[s].bytes \in Nat
  BY Zenon DEF ScanInv, TablesTyped
<1>5. FlowSlots \in Nat /\ FlowLimit \in Nat /\ SubLimit \in Nat /\ ScanBudget \in Nat
  BY ScanAssumption
<1> HIDE DEF subFrom, flowFrom, o, b
<1>6. ns \in Nat /\ ns <= ScanBudget /\ subFrom + ns \in 0 .. Len(subs) /\ subFrom \in Nat
  <2>1. PICK k \in Nat : k = Len(subs)
    BY <1>4
  <2>2. subFrom \in 0 .. k
    BY <1>3, <2>1, Zenon
  <2>3. /\ SmallerOf(ScanBudget, k - subFrom) \in Nat /\ SmallerOf(ScanBudget, k - subFrom) <= ScanBudget
        /\ subFrom + SmallerOf(ScanBudget, k - subFrom) \in 0 .. k /\ subFrom \in Nat
    BY <1>5, <2>2 DEF SmallerOf
  <2> QED
    BY <2>1, <2>3, Zenon
<1> HIDE DEF ns
<1>7. nf \in Nat /\ flowFrom + nf \in 0 .. FlowSlots /\ flowFrom \in Nat
  <2>1. \A a, m, k, f \in Nat : m <= a /\ f <= k =>
          LET n == SmallerOf(a - m, k - f) IN n \in Nat /\ f + n \in 0 .. k
    BY DEF SmallerOf
  <2>2. flowFrom \in Nat /\ flowFrom <= FlowSlots
    BY <1>3, <1>5
  <2> QED
    BY <1>5, <1>6, <2>1, <2>2, Zenon
<1> HIDE DEF nf
<1>8. subFrom + ns <= Len(subs) /\ flowFrom + nf <= FlowSlots
  <2>1. \A k, m \in Nat : m \in 0 .. k => m <= k
    OBVIOUS
  <2>2. Len(subs) \in Nat /\ subFrom + ns \in Nat /\ flowFrom + nf \in Nat
    BY <1>4, <1>6, <1>7
  <2> QED
    BY <1>5, <1>6, <1>7, <2>1, <2>2, Zenon
<1>9. RowsOk(b.subs \cup SubRows(subFrom, ns), subFrom + ns, o.subs)
  <2>1. /\ o.subs \in Seq(Usage) /\ Len(o.subs) <= Len(subs)
        /\ \A i \in DOMAIN o.subs : o.subs[i] <= subs[i]
    BY <1>3, Zenon DEF OriginOk
  <2> QED
    BY <1>3, <1>4, <1>6, <1>8, <2>1, SliceOfSubs, Zenon
<1>10. TopOk(t, flowFrom + nf, o)
  BY <1>2, <1>3, <1>4, <1>5, <1>7, <1>8, SliceOfFlows, Zenon
<1>11. /\ sliced.subs = b.subs \cup SubRows(subFrom, ns) /\ sliced.top = t
       /\ {"subs", "top", "open"} \subseteq DOMAIN sliced
  BY <1>2, <1>3
<1>12. CASE complete
  <2>1. PICK rows \in Busiest(sliced.subs), top \in Sorted(sliced.top, Cardinality(sliced.top)) :
          detail' = [published |-> TRUE, subs |-> rows, top |-> top, total |-> Len(subs)]
    BY <1>1, <1>12, Zenon
  <2>2. detail'.subs = rows /\ detail'.top = top
    BY <2>1
  <2>3. SubsSound(rows)
    BY <1>3, <1>4, <1>5, <1>9, <1>11, <1>12, <2>1, SubsPublished, Zenon DEF o
  <2>4. FlowsSound(top)
    BY <1>3, <1>5, <1>10, <1>11, <1>12, <2>1, FlowsPublished, Zenon DEF o
  <2>5. building' = NoTable /\ origin' = NoOrigin
    BY <1>1, <1>12, Zenon
  <2>6. /\ ~building'.open /\ {"subs", "top", "open"} \subseteq DOMAIN building'
        /\ {"subs", "flows", "kept"} \subseteq DOMAIN origin'
    BY <2>5 DEF NoTable, NoOrigin
  <2>7. TablesTyped'
    BY <1>4, <2>6 DEF TablesTyped, TableSlots
  <2> QED
    BY <2>2, <2>3, <2>4, <2>6, <2>7, Zenon DEF ScanInv
<1>13. CASE ~complete
  <2>1. building' = sliced /\ origin' = o /\ pass' = pass
    BY <1>1, <1>13, Zenon
  <2>2. {"subs", "top", "open"} \subseteq DOMAIN building' /\ {"subs", "flows", "kept"} \subseteq DOMAIN origin'
    BY <1>3, <1>11, <2>1, Zenon
  <2>3. TablesTyped'
    BY <1>4, <2>2 DEF TablesTyped, TableSlots
  <2>4. subs' = subs /\ flows' = flows
    OBVIOUS
  <2>5. OriginOk(origin)'
    BY <1>3, <2>1, <2>4, Zenon DEF OriginOk, TableSlots
  <2>6. RowsOk(building.subs, subCursor, origin.subs)'
    BY <1>1, <1>9, <1>11, <2>1, <2>4, Zenon DEF RowsOk, RowOk
  <2>7. TopOk(building.top, flowCursor, origin)'
    BY <1>1, <1>10, <1>11, <2>1, <2>4, Zenon DEF TopOk, FlowOk, Full, Shown
  <2>8. ScanOk'
    BY <1>1, <1>6, <1>7, <2>4, <2>5, <2>6, <2>7, Zenon DEF ScanOk
  <2> QED
    BY <2>1, <2>3, <2>8, Zenon DEF ScanInv
<1> QED
  BY <1>12, <1>13, Zenon

\* What an event does to the tables: nothing becomes less but in slots that are
\* no longer kept.
SubsGrow ==
  /\ subs' \in Seq(Usage) /\ Len(subs) <= Len(subs') /\ DOMAIN subs \subseteq DOMAIN subs'
  /\ \A n \in DOMAIN subs : subs[n] \in Usage /\ subs'[n] \in Usage /\ subs[n] <= subs'[n]
FlowsGrow ==
  /\ DOMAIN flows' = TableSlots /\ \A x \in TableSlots : flows'[x].bytes \in Nat
  /\ origin'.subs = origin.subs /\ origin'.flows = origin.flows
  /\ origin'.kept \subseteq origin.kept /\ DOMAIN origin' = DOMAIN origin
  /\ \A x \in TableSlots : x \in origin'.kept =>
        flows'[x].key = flows[x].key /\ flows[x].bytes <= flows'[x].bytes

\* Traffic between two ticks only adds to what the pass has seen, and a slot that
\* is given to another flow is no longer kept.
LEMMA ApplyAdds ==
  ASSUME ScanInv, Apply
  PROVE  ScanInv'
<1>1. building' = building /\ subCursor' = subCursor /\ flowCursor' = flowCursor
  BY Zenon DEF Apply
<1>2. Uncharged \/ \E n \in EventBytes : Charged(n)
  BY Zenon DEF Apply
<1>3. TablesTyped
  BY Zenon DEF ScanInv
<1>4. /\ subs \in Seq(Usage) /\ DOMAIN flows = TableSlots /\ \A x \in TableSlots : flows[x].bytes \in Nat
      /\ {"subs", "top", "open"} \subseteq DOMAIN building /\ {"subs", "flows", "kept"} \subseteq DOMAIN origin
  BY <1>3, Zenon DEF TablesTyped
<1>5. SubsGrow
  <2>1. ASSUME NEW n \in Nat, NEW i \in DOMAIN subs,
               subs' = [subs EXCEPT ![i] = IF @ = Unused THEN n ELSE @ + n]
        PROVE  SubsGrow
    <3>1. \A a \in Usage : /\ (IF a = Unused THEN n ELSE a + n) \in Usage
                           /\ a <= (IF a = Unused THEN n ELSE a + n) /\ a <= a
      BY DEF Usage, Unused
    <3>2. \A m \in DOMAIN subs : subs[m] \in Usage
      BY <1>4
    <3> DEFINE u == IF subs[i] = Unused THEN n ELSE subs[i] + n
    <3>3. u \in Usage /\ subs' = [subs EXCEPT ![i] = u]
      BY <2>1, <3>1, <3>2, Zenon
    <3> HIDE DEF u
    <3>4. subs' \in Seq(Usage) /\ Len(subs') = Len(subs) /\ DOMAIN subs' = DOMAIN subs
      BY <1>4, <3>3
    <3>5. \A m \in DOMAIN subs : subs'[m] = IF m = i THEN u ELSE subs[m]
      BY <1>4, <3>3
    <3>6. \A m \in DOMAIN subs : subs[m] <= subs'[m] /\ subs'[m] \in Usage
      BY <3>1, <3>2, <3>5, Zenon DEF u
    <3>7. Len(subs) <= Len(subs)
      BY <1>4
    <3> QED
      BY <3>2, <3>4, <3>6, <3>7, Zenon DEF SubsGrow
  <2>2. ASSUME NEW n \in Usage, subs' = Append(subs, n)
        PROVE  SubsGrow
    <3>1. \A a \in Usage : a <= a
      BY DEF Usage, Unused
    <3>2. /\ subs' \in Seq(Usage) /\ Len(subs) <= Len(subs') /\ DOMAIN subs \subseteq DOMAIN subs'
          /\ \A m \in DOMAIN subs : subs[m] \in Usage /\ subs'[m] = subs[m]
      BY <1>4, <2>2
    <3> QED
      BY <3>1, <3>2, Zenon DEF SubsGrow
  <2>3. CASE subs' = subs
    <3>1. Len(subs) <= Len(subs) /\ \A m \in DOMAIN subs : subs[m] \in Usage /\ subs[m] <= subs[m]
      BY <1>4 DEF Usage, Unused
    <3> QED
      BY <1>4, <2>3, <3>1, Zenon DEF SubsGrow
  <2>4. Unused \in Usage /\ EventBytes \subseteq Nat /\ EventBytes \subseteq Usage
    BY ScanAssumption, Zenon DEF Usage
  <2> QED
    BY <1>2, <2>1, <2>2, <2>3, <2>4, Zenon DEF Uncharged, Charged
<1>6. FlowsGrow
  <2>1. CASE Uncharged
    <3>1. flows' = flows /\ origin' = origin
      BY <2>1, Zenon DEF Uncharged
    <3>2. \A x \in TableSlots : flows[x].bytes <= flows[x].bytes
      BY <1>4
    <3> QED
      BY <1>4, <3>1, <3>2, Zenon DEF FlowsGrow
  <2>2. ASSUME NEW n \in EventBytes, Charged(n) PROVE FlowsGrow
    <3>1. PICK s \in TableSlots, k \in Keys :
            /\ flows' = [flows EXCEPT ![s] = [key |-> k, bytes |-> IF @.key = k THEN @.bytes + n ELSE n]]
            /\ origin' = [origin EXCEPT !.kept = IF flows[s].key = k THEN @ ELSE @ \ {s}]
      BY <2>2, Zenon DEF Charged
    <3>2. DOMAIN flows' = TableSlots /\ \A x \in TableSlots : x # s => flows'[x] = flows[x]
      BY <1>4, <3>1
    <3>3. flows'[s].key = k /\ flows'[s].bytes = IF flows[s].key = k THEN flows[s].bytes + n ELSE n
      BY <1>4, <3>1
    <3>4. /\ \A x \in TableSlots : flows'[x].bytes \in Nat /\ flows[x].bytes <= flows[x].bytes
          /\ flows[s].key = k => flows[s].bytes <= flows'[s].bytes
      <4>1. n \in Nat
        BY ScanAssumption, Zenon
      <4>2. \A f \in Nat : f + n \in Nat /\ f <= f + n /\ f <= f
        BY <4>1
      <4> QED
        BY <1>4, <3>2, <3>3, <4>1, <4>2, Zenon
    <3>5. /\ origin'.subs = origin.subs /\ origin'.flows = origin.flows
          /\ origin'.kept = IF flows[s].key = k THEN origin.kept ELSE origin.kept \ {s}
          /\ DOMAIN origin' = DOMAIN origin
      BY <1>4, <3>1
    <3> QED
      BY <3>2, <3>3, <3>4, <3>5, Zenon DEF FlowsGrow
  <2> QED
    BY <1>2, <2>1, <2>2, Zenon
<1>7. /\ subs' \in Seq(Usage) /\ Len(subs) <= Len(subs') /\ DOMAIN subs \subseteq DOMAIN subs'
      /\ \A n \in DOMAIN subs : subs[n] \in Usage /\ subs'[n] \in Usage /\ subs[n] <= subs'[n]
  BY <1>5, Zenon DEF SubsGrow
<1>8. /\ DOMAIN flows' = TableSlots /\ \A x \in TableSlots : flows'[x].bytes \in Nat
      /\ origin'.subs = origin.subs /\ origin'.flows = origin.flows
      /\ origin'.kept \subseteq origin.kept /\ DOMAIN origin' = DOMAIN origin
      /\ \A x \in TableSlots : x \in origin'.kept =>
            flows'[x].key = flows[x].key /\ flows[x].bytes <= flows'[x].bytes
  BY <1>6, Zenon DEF FlowsGrow
<1>9. TablesTyped'
  <2>1. TableSlots' = TableSlots
    BY DEF TableSlots
  <2> QED
    BY <1>1, <1>4, <1>7, <1>8, <2>1, Zenon DEF TablesTyped
<1>10. \A x \in TableSlots : x \in origin'.kept =>
          /\ x \in origin.kept /\ flows'[x].key = flows[x].key
          /\ flows[x].bytes \in Nat /\ flows'[x].bytes \in Nat /\ flows[x].bytes <= flows'[x].bytes
  BY <1>4, <1>8, Zenon
<1>11. ASSUME ScanOk PROVE ScanOk'
  <2>1. /\ subCursor \in 0 .. Len(subs) /\ flowCursor \in 0 .. FlowSlots /\ OriginOk(origin)
        /\ RowsOk(building.subs, subCursor, origin.subs) /\ TopOk(building.top, flowCursor, origin)
    BY <1>11, Zenon DEF ScanOk
  <2>2. subCursor' \in 0 .. Len(subs') /\ flowCursor' \in 0 .. FlowSlots
    BY <1>1, <1>4, <1>7, <2>1
  <2>3. /\ origin.subs \in Seq(Usage) /\ Len(origin.subs) <= Len(subs)
        /\ \A n \in DOMAIN origin.subs : origin.subs[n] <= subs[n]
        /\ origin.kept \subseteq TableSlots /\ \A x \in TableSlots : origin.flows[x].bytes \in Nat
        /\ \A x \in origin.kept : origin.flows[x].key = flows[x].key /\ origin.flows[x].bytes <= flows[x].bytes
    BY <2>1, Zenon DEF OriginOk
  <2>4. OriginOk(origin)'
    <3>1. Len(origin.subs) <= Len(subs')
      <4>1. PICK a \in Nat, b \in Nat, c \in Nat : a = Len(origin.subs) /\ b = Len(subs) /\ c = Len(subs')
        BY <1>4, <1>7, <2>3
      <4>2. a <= b /\ b <= c
        BY <1>7, <2>3, <4>1, Zenon
      <4>3. a <= c
        BY <4>2
      <4> QED
        BY <4>1, <4>3, Zenon
    <3>2. ASSUME NEW n \in DOMAIN origin.subs PROVE origin.subs[n] <= subs'[n]
      <4>1. n \in DOMAIN subs /\ origin.subs[n] \in Usage
        BY <1>4, <2>3
      <4>2. subs[n] \in Usage /\ subs'[n] \in Usage /\ subs[n] <= subs'[n] /\ origin.subs[n] <= subs[n]
        BY <1>7, <2>3, <4>1, Zenon
      <4>3. \A a, b, c \in Usage : a <= b /\ b <= c => a <= c
        BY DEF Usage, Unused
      <4> QED
        BY <4>1, <4>2, <4>3, Zenon
    <3>3. origin'.kept \subseteq TableSlots
      BY <1>8, <2>3, Zenon
    <3>4. ASSUME NEW x \in origin'.kept
          PROVE  origin.flows[x].key = flows'[x].key /\ origin.flows[x].bytes <= flows'[x].bytes
      <4>1. /\ x \in origin.kept /\ flows'[x].key = flows[x].key
            /\ flows[x].bytes \in Nat /\ flows'[x].bytes \in Nat /\ flows[x].bytes <= flows'[x].bytes
        BY <1>10, <3>3, Zenon
      <4>2. /\ origin.flows[x].key = flows[x].key /\ origin.flows[x].bytes <= flows[x].bytes
            /\ origin.flows[x].bytes \in Nat
        BY <2>3, <4>1, Zenon
      <4>3. origin.flows[x].bytes <= flows'[x].bytes
        BY <4>1, <4>2
      <4> QED
        BY <4>1, <4>2, <4>3, Zenon
    <3> QED
      BY <1>8, <2>3, <3>1, <3>2, <3>3, <3>4 DEF OriginOk, TableSlots
  <2>5. RowsOk(building.subs, subCursor, origin.subs)'
    <3>1. ASSUME NEW r \in building.subs PROVE RowOk(r, subCursor, origin.subs)'
      <4>1. RowOk(r, subCursor, origin.subs)
        BY <2>1, Zenon DEF RowsOk
      <4>2. r.sub \in 1 .. subCursor /\ r.bytes \in Nat /\ r.bytes <= subs[r.sub]
        BY <4>1, Zenon DEF RowOk
      <4>3. r.sub \in DOMAIN subs
        BY <1>4, <2>1, <4>2
      <4>4. subs[r.sub] \in Usage /\ subs'[r.sub] \in Usage /\ subs[r.sub] <= subs'[r.sub]
        BY <1>7, <4>3, Zenon
      <4>5. r.bytes <= subs'[r.sub]
        BY <4>2, <4>4 DEF Usage, Unused
      <4> QED
        BY <1>1, <1>8, <4>1, <4>5, Zenon DEF RowOk
    <3> QED
      BY <1>1, <1>8, <2>1, <3>1, Zenon DEF RowsOk
  <2>6. TopOk(building.top, flowCursor, origin)'
    <3>1. ASSUME NEW r \in building.top PROVE FlowOk(r, flowCursor, origin)'
      <4>1. FlowOk(r, flowCursor, origin)
        BY <2>1, Zenon DEF TopOk
      <4>2. ASSUME r.slot \in origin'.kept
            PROVE  /\ r.key = flows'[r.slot].key
                   /\ origin.flows[r.slot].bytes <= r.bytes /\ r.bytes <= flows'[r.slot].bytes
        <5>1. r.slot \in origin.kept /\ r.slot \in TableSlots
          BY <1>8, <2>3, <4>2, Zenon
        <5>2. /\ flows'[r.slot].key = flows[r.slot].key
              /\ flows[r.slot].bytes \in Nat /\ flows'[r.slot].bytes \in Nat
              /\ flows[r.slot].bytes <= flows'[r.slot].bytes
          BY <1>10, <4>2, <5>1, Zenon
        <5>3. /\ r.key = flows[r.slot].key /\ r.bytes \in Nat
              /\ origin.flows[r.slot].bytes <= r.bytes /\ r.bytes <= flows[r.slot].bytes
          BY <4>1, <5>1, Zenon DEF FlowOk
        <5>4. r.bytes <= flows'[r.slot].bytes
          BY <5>2, <5>3
        <5> QED
          BY <5>2, <5>3, <5>4, Zenon
      <4> QED
        BY <1>1, <1>8, <4>1, <4>2, Zenon DEF FlowOk
    <3>2. \A x \in origin'.kept : x \in origin.kept
      BY <1>8, Zenon
    <3> QED
      BY <1>1, <1>8, <2>1, <3>1, <3>2, Zenon DEF TopOk, Full, Shown
  <2> QED
    BY <2>2, <2>4, <2>5, <2>6, Zenon DEF ScanOk
<1> QED
  BY <1>1, <1>9, <1>11, Zenon DEF ScanInv

\* At the start no pass is in progress.
LEMMA ScanInitOk == ServiceInit => ScanInv
<1> SUFFICES ASSUME ServiceInit PROVE ScanInv
  OBVIOUS
<1>1. PICK w \in Workloads : subs = w.traffic.subs /\ flows = w.traffic.flows
  BY Zenon DEF ServiceInit, ScanInit
<1>2. building = NoTable /\ origin = NoOrigin
  BY Zenon DEF ServiceInit, ScanInit
<1>3. /\ ~building.open /\ {"subs", "top", "open"} \subseteq DOMAIN building
      /\ {"subs", "flows", "kept"} \subseteq DOMAIN origin
  BY <1>2 DEF NoTable, NoOrigin
<1> QED
  BY <1>1, <1>3, WorkloadsAssumption, Zenon DEF ScanInv, TablesTyped

\* Every step keeps what a pass has gathered right, and publishes only what is.
LEMMA ScanNext ==
  ASSUME ScanInv, [ServiceNext]_serviceVars
  PROVE  ScanInv' /\ (pass' # pass => SubsSound(detail'.subs) /\ FlowsSound(detail'.top))
<1>1. ASSUME UNCHANGED <<subs, flows, scanVars>>
      PROVE  ScanInv' /\ pass' = pass
  <2>1. UNCHANGED <<subs, flows, building, subCursor, flowCursor, pass, origin>>
    BY <1>1, Zenon DEF scanVars
  <2> QED
    BY <2>1, Zenon DEF ScanInv, TablesTyped, ScanOk, OriginOk, RowsOk, RowOk, TopOk, FlowOk, Full, Shown, TableSlots
<1>2. CASE Apply
  <2>1. pass' = pass
    BY <1>2, Zenon DEF Apply
  <2> QED
    BY <1>2, <2>1, ApplyAdds, Zenon
<1>3. CASE TickScan
  <2>1. UNCHANGED <<subs, flows>>
    BY <1>3, Zenon DEF TickScan
  <2>2. AdvanceDetailScan \/ UNCHANGED scanVars
    BY <1>3, Zenon DEF TickScan
  <2>3. CASE AdvanceDetailScan
    BY <2>1, <2>3, ScanAdvances, Zenon
  <2>4. CASE UNCHANGED scanVars
    BY <1>1, <2>1, <2>4, Zenon
  <2> QED
    BY <2>2, <2>3, <2>4, Zenon
<1>4. CASE TickBegin(Stopping)
  BY <1>1, <1>4, Zenon DEF TickBegin
<1>5. CASE LeaveIngest
  BY <1>1, <1>5, Zenon DEF LeaveIngest
<1>6. CASE AskDetail
  BY <1>1, <1>6, Zenon DEF AskDetail
<1>7. CASE AskDirectly
  BY <1>1, <1>7, Zenon DEF AskDirectly
<1>8. CASE UNCHANGED meterVars
  BY <1>1, <1>8, Zenon DEF meterVars
<1>9. ServeTest \/ PollAccept \/ RecvRound \/ LoadSnapshot \/ Render \/ Send \/ BrokenPipe \/ Close => UNCHANGED meterVars
  BY Zenon DEF ServeTest, PollAccept, RecvRound, LoadSnapshot, Render, Send, BrokenPipe, Close
<1>10. MainStep => UNCHANGED meterVars
  BY Zenon DEF MainStep, StartHttp, StopRuntime, JoinMeter, StopHttp, JoinHttp
<1>11. ClientReads \/ (\E c \in Clients : Connect(c) \/ SendPiece(c) \/ HangUp(c)) => UNCHANGED meterVars
  BY Zenon DEF ClientReads, Connect, SendPiece, HangUp
<1>12. UNCHANGED serviceVars => UNCHANGED meterVars
  BY Zenon DEF serviceVars
<1> QED
  BY <1>2, <1>3, <1>4, <1>5, <1>6, <1>7, <1>8, <1>9, <1>10, <1>11, <1>12, Zenon DEF ServiceNext, MeterStep, HttpStep, ClientStep

\* TablesSound, for every size of the tables, budget, limit and traffic: whatever
\* changes while a pass goes on, its tables show values of the pass and leave out
\* only smaller ones (advance_detail_scan).
THEOREM TablesAlwaysSound == ServiceSpec => TablesSound
<1>1. ServiceInit => ScanInv
  BY ScanInitOk
<1>2. ScanInv /\ [ServiceNext]_serviceVars => ScanInv'
  BY ScanNext, Zenon
<1>3. ScanInv /\ [ServiceNext]_serviceVars => [pass' # pass => SubsSound(detail'.subs) /\ FlowsSound(detail'.top)]_serviceVars
  BY ScanNext, Zenon
<1> QED
  BY <1>1, <1>2, <1>3, PTL DEF ServiceSpec, TablesSound
=============================================================================
