----------------------------- MODULE TableProofs -----------------------------
(***************************************************************************)
(* The two hash tables are right for every capacity, every set of keys and *)
(* every hash function.                                                    *)
(*                                                                         *)
(* Flow table: a flow has one row, find_flow() reaches it, the row holds   *)
(* the flow's traffic, and an eviction takes the oldest row of a window.   *)
(* The invariant is that the search for a row's key finds neither the key  *)
(* nor an empty slot before the row (AllReached).                          *)
(*                                                                         *)
(* TEID table: it is a map, through every deletion.  While remove_at       *)
(* shifts elements back, its hole is a slot that searches still pass but   *)
(* whose key no longer counts.  The elements it passed over do not need    *)
(* the hole (PassedOver), and those beyond the gap it looks for cannot, so *)
(* no search is cut when the hole becomes a gap.                           *)
(***************************************************************************)
EXTENDS FlatHash, FlowTable, NumberFacts, FiniteSetTheorems, TLAPS

\* Min() of a set of probes is its least element.
LEMMA MinOf ==
  ASSUME NEW S \in SUBSET Nat, S # {}
  PROVE  Min(S) \in S /\ \A y \in S : Min(S) <= y
<1>1. \E x \in S : \A y \in S : x <= y
  BY LeastElement, Zenon
<1> QED
  BY <1>1, Zenon DEF Min

-----------------------------------------------------------------------------
(* The flow table *)

FlowRows == [key : TableKeys \cup {Free}, bytes : Nat, packets : Nat, seen : Nat]

FlowTyped ==
  /\ home \in [TableKeys -> FlowSlots]
  /\ flows \in [FlowSlots -> FlowRows]
  /\ stats \in [inserts : Nat, evictions : Nat, active : Nat]
  /\ traffic \in [TableKeys -> Nat]

\* The search for k goes on past its first p probes.
Passes(k, p) == \A q \in 0 .. p - 1 : flows[SlotAt(k, q)].key \notin {k, Free}

AllReached ==
  \A i \in Occupied : \E p \in Probes : SlotAt(flows[i].key, p) = i /\ Passes(flows[i].key, p)

FlowInv == FlowTyped /\ AllReached /\ RowsExact

\* Every probe is a slot, and the probes of a window are different slots.
LEMMA WindowSlots ==
  ASSUME FlowTyped, NEW k \in TableKeys, NEW p \in Probes
  PROVE  /\ SlotAt(k, p) \in FlowSlots
         /\ \A q \in 0 .. p - 1 : q \in Probes /\ SlotAt(k, q) # SlotAt(k, p)
<1>1. /\ FlowCapacity \in Nat /\ FlowCapacity > 0 /\ p \in Nat /\ p < FlowCapacity
      /\ p < Window /\ Window \in Nat
  BY FlowAssumption DEF Probes
<1>2. home[k] \in FlowSlots
  BY DEF FlowTyped
<1>3. home[k] \in Nat
  BY <1>2 DEF FlowSlots
<1>4. SlotAt(k, p) \in FlowSlots
  <2>1. home[k] + p \in Nat
    BY <1>1, <1>3
  <2> QED
    BY <1>1, <2>1, DivMod DEF SlotAt, FlowSlots
<1>5. ASSUME NEW q \in 0 .. p - 1
      PROVE  q \in Probes /\ SlotAt(k, q) # SlotAt(k, p)
  <2>1. q \in Probes
    BY <1>1 DEF Probes
  <2>2. /\ home[k] + q \in Nat /\ home[k] + p \in Nat
        /\ home[k] + q < home[k] + p /\ home[k] + p < (home[k] + q) + FlowCapacity
    BY <1>1, <1>3
  <2>3. (home[k] + q) % FlowCapacity # (home[k] + p) % FlowCapacity
    BY <1>1, <2>2, RemaindersDiffer
  <2> QED
    BY <2>1, <2>3, Zenon DEF SlotAt
<1> QED
  BY <1>4, <1>5, Zenon

\* The first probe that ends a search.
LEMMA FirstEnd ==
  ASSUME NEW k, FlowEnds(k) # {}
  PROVE  /\ Min(FlowEnds(k)) \in Probes
         /\ flows[SlotAt(k, Min(FlowEnds(k)))].key \in {k, Free}
         /\ Passes(k, Min(FlowEnds(k)))
<1>1. FlowEnds(k) \in SUBSET Nat
  BY FlowAssumption DEF FlowEnds, Probes
<1>2. Min(FlowEnds(k)) \in FlowEnds(k) /\ \A y \in FlowEnds(k) : Min(FlowEnds(k)) <= y
  BY <1>1, MinOf, Zenon
<1>3. /\ Min(FlowEnds(k)) \in Probes
      /\ flows[SlotAt(k, Min(FlowEnds(k)))].key \in {k, Free}
  BY <1>2, Zenon DEF FlowEnds
<1>4. ASSUME NEW q \in 0 .. Min(FlowEnds(k)) - 1
      PROVE  flows[SlotAt(k, q)].key \notin {k, Free}
  <2>1. q \in Probes /\ ~ (Min(FlowEnds(k)) <= q)
    BY <1>3, FlowAssumption DEF Probes
  <2>2. q \notin FlowEnds(k)
    BY <1>2, <2>1, Zenon
  <2> QED
    BY <2>1, <2>2, Zenon DEF FlowEnds
<1> QED
  BY <1>3, <1>4, Zenon DEF Passes

\* A search that passes p probes and finds its key at the next one ends there.
LEMMA EndsAt ==
  ASSUME NEW k, NEW p \in Probes, Passes(k, p), flows[SlotAt(k, p)].key = k
  PROVE  FlowEnds(k) # {} /\ Min(FlowEnds(k)) = p
<1>1. p \in FlowEnds(k)
  BY Zenon DEF FlowEnds
<1>2. /\ Min(FlowEnds(k)) \in Probes /\ Passes(k, Min(FlowEnds(k)))
      /\ flows[SlotAt(k, Min(FlowEnds(k)))].key \in {k, Free}
  BY <1>1, FirstEnd, Zenon
<1> DEFINE m == Min(FlowEnds(k))
<1> HIDE DEF m
<1>3. m \in Nat /\ p \in Nat
  BY <1>2, FlowAssumption DEF Probes, m
<1>4. ~ (m \in 0 .. p - 1)
  BY <1>2, Zenon DEF Passes, m
<1>5. ~ (p \in 0 .. m - 1)
  BY <1>2, Zenon DEF Passes, m
<1>6. m = p
  BY <1>3, <1>4, <1>5
<1> QED
  BY <1>1, <1>6, Zenon DEF m

\* A row is the one its key's search ends at, and the only one with its key.
LEMMA RowReached ==
  ASSUME AllReached, NEW i \in Occupied
  PROVE  /\ FlowEnds(flows[i].key) # {} /\ SlotAt(flows[i].key, Min(FlowEnds(flows[i].key))) = i
         /\ \A j \in Occupied : flows[j].key = flows[i].key => j = i
<1>1. ASSUME NEW j \in Occupied
      PROVE  FlowEnds(flows[j].key) # {} /\ SlotAt(flows[j].key, Min(FlowEnds(flows[j].key))) = j
  <2>1. PICK p \in Probes : SlotAt(flows[j].key, p) = j /\ Passes(flows[j].key, p)
    BY Zenon DEF AllReached
  <2> QED
    BY <2>1, EndsAt, Zenon
<1> QED
  BY <1>1, Zenon

\* Row e is written for its key k at a probe p that the search for k comes to:
\* the key's own, an empty one, or one of a full window.
WritesRow(k, p, e) ==
  /\ p \in Probes /\ Passes(k, p)
  /\ \A j \in Occupied : flows[j].key = k => j = SlotAt(k, p)
  /\ e \in FlowRows /\ e.key = k
  /\ home' = home
  /\ flows' = [flows EXCEPT ![SlotAt(k, p)] = e]

\* Every row is reached, the one written and the ones left alone.
RowWritten(k, p, e) ==
  /\ AllReached' /\ flows' \in [FlowSlots -> FlowRows]
  /\ Occupied' = Occupied \cup {SlotAt(k, p)} /\ flows'[SlotAt(k, p)] = e
  /\ \A j \in Occupied' : j # SlotAt(k, p) =>
       j \in Occupied /\ flows'[j] = flows[j] /\ flows[j].key \in TableKeys \ {k}

\* A row written at the end of the search for its key leaves every row reachable.
LEMMA PutRow ==
  ASSUME FlowTyped, AllReached, NEW k \in TableKeys, NEW p, NEW e, WritesRow(k, p, e)
  PROVE  RowWritten(k, p, e)
<1> DEFINE s == SlotAt(k, p)
<1>0. /\ p \in Probes /\ Passes(k, p)
      /\ \A j \in Occupied : flows[j].key = k => j = SlotAt(k, p)
      /\ e \in FlowRows /\ e.key = k
      /\ home' = home
      /\ flows' = [flows EXCEPT ![SlotAt(k, p)] = e]
  BY Zenon DEF WritesRow
<1>1. s \in FlowSlots /\ \A q \in 0 .. p - 1 : q \in Probes /\ SlotAt(k, q) # s
  BY <1>0, WindowSlots, Zenon
<1>2. flows \in [FlowSlots -> FlowRows]
  BY Zenon DEF FlowTyped
<1> HIDE DEF s
<1>3. flows' = [flows EXCEPT ![s] = e]
  BY <1>0, Zenon DEF s
<1>4. flows'[s] = e /\ \A j \in FlowSlots \ {s} : flows'[j] = flows[j]
  BY <1>1, <1>2, <1>3, Zenon
<1>5. flows' \in [FlowSlots -> FlowRows]
  BY <1>0, <1>2, <1>3, Zenon
<1>6. k # Free
  BY FlowAssumption, Zenon DEF TableKeys
<1>7. \A j \in FlowSlots : flows[j].key \in TableKeys \cup {Free}
  BY <1>2, Zenon DEF FlowRows
<1>8. Occupied' = Occupied \cup {s}
  <2>1. \A j \in FlowSlots : flows'[j].key # Free <=> (flows[j].key # Free \/ j = s)
    BY <1>0, <1>4, <1>6, Zenon
  <2> QED
    BY <1>1, <2>1, Zenon DEF Occupied
<1>9. \A j \in Occupied' : j # s =>
        j \in Occupied /\ flows'[j] = flows[j] /\ flows[j].key \in TableKeys \ {k}
  <2> SUFFICES ASSUME NEW j \in Occupied', j # s
               PROVE  j \in Occupied /\ flows'[j] = flows[j] /\ flows[j].key \in TableKeys \ {k}
    BY Zenon
  <2>1. j \in Occupied
    BY <1>8, Zenon
  <2>2. j \in FlowSlots /\ flows[j].key # Free
    BY <2>1, Zenon DEF Occupied
  <2> QED
    BY <1>0, <1>4, <1>7, <2>1, <2>2, Zenon DEF s
<1>10. \A l, q : SlotAt(l, q)' = SlotAt(l, q)
  BY <1>0, Zenon DEF SlotAt
<1>11. ASSUME NEW j \in Occupied'
       PROVE  \E r \in Probes : SlotAt(flows[j].key, r)' = j /\ Passes(flows[j].key, r)'
  <2>1. CASE j = s
    <3>1. flows'[j].key = k
      BY <1>0, <1>4, <2>1, Zenon
    <3>2. ASSUME NEW q \in 0 .. p - 1 PROVE flows'[SlotAt(k, q)].key \notin {k, Free}
      <4>1. SlotAt(k, q) \in FlowSlots \ {s}
        BY <1>0, <1>1, WindowSlots, Zenon
      <4>2. flows[SlotAt(k, q)].key \notin {k, Free}
        BY <1>0, Zenon DEF Passes
      <4> QED
        BY <1>4, <4>1, <4>2, Zenon
    <3>3. SlotAt(k, p) = j
      BY <2>1, Zenon DEF s
    <3> QED
      BY <1>0, <1>10, <3>1, <3>2, <3>3, Zenon DEF Passes
  <2>2. CASE j # s
    <3>1. /\ j \in Occupied /\ flows'[j] = flows[j]
          /\ flows[j].key \in TableKeys /\ flows[j].key # k
      BY <1>9, <2>2, Zenon
    <3> DEFINE l == flows[j].key
    <3>2. PICK r \in Probes : SlotAt(l, r) = j /\ Passes(l, r)
      BY <3>1, Zenon DEF AllReached
    <3>3. l \in TableKeys /\ l # k /\ flows'[j].key = l
      BY <3>1, Zenon
    <3> HIDE DEF l
    <3>4. ASSUME NEW q \in 0 .. r - 1 PROVE flows'[SlotAt(l, q)].key \notin {l, Free}
      <4>1. SlotAt(l, q) \in FlowSlots
        BY <3>3, WindowSlots, Zenon
      <4>2. flows[SlotAt(l, q)].key \notin {l, Free}
        BY <3>2, Zenon DEF Passes
      <4> QED
        BY <1>0, <1>4, <1>6, <3>3, <4>1, <4>2, Zenon
    <3> QED
      BY <1>10, <3>2, <3>3, <3>4, Zenon DEF Passes
  <2> QED
    BY <2>1, <2>2, Zenon
<1> QED
  BY <1>4, <1>5, <1>8, <1>9, <1>11, Zenon DEF AllReached, RowWritten, s

\* The rows are finitely many; a new one is one more.
LEMMA OccupiedCount ==
  ASSUME NEW i
  PROVE  /\ Cardinality(Occupied) \in Nat
         /\ i \in Occupied => Cardinality(Occupied \cup {i}) = Cardinality(Occupied)
         /\ i \notin Occupied => Cardinality(Occupied \cup {i}) = Cardinality(Occupied) + 1
<1>1. IsFiniteSet(FlowSlots)
  <2>1. 0 \in Int /\ FlowCapacity - 1 \in Int
    BY FlowAssumption
  <2> QED
    BY <2>1, FS_Interval, Zenon DEF FlowSlots
<1>2. Occupied \in SUBSET FlowSlots
  BY Zenon DEF Occupied
<1>3. IsFiniteSet(Occupied)
  BY <1>1, <1>2, FS_Subset, Zenon
<1>4. Cardinality(Occupied) \in Nat
  BY <1>3, FS_CardinalityType, Zenon
<1>5. Cardinality(Occupied \cup {i}) = IF i \in Occupied THEN Cardinality(Occupied) ELSE Cardinality(Occupied) + 1
  BY <1>3, FS_AddElement, Zenon
<1> QED
  BY <1>4, <1>5, Zenon

\* The oldest row of a window is where Victim says.
LEMMA VictimOldest ==
  ASSUME FlowTyped, NEW k \in TableKeys
  PROVE  \E p \in Probes : /\ Victim(k) = SlotAt(k, p)
                           /\ \A q \in Probes : flows[SlotAt(k, p)].seen <= flows[SlotAt(k, q)].seen
<1> DEFINE seen(p) == flows[SlotAt(k, p)].seen
           T == {seen(p) : p \in Probes}
           V == {p \in Probes : \A q \in Probes : seen(p) <= seen(q)}
<1>1. \A p \in Probes : seen(p) \in Nat
  BY WindowSlots, Zenon DEF FlowTyped, FlowRows
<1>2. 0 \in Probes /\ Probes \subseteq Nat
  BY FlowAssumption DEF Probes
<1>7. Victim(k) = SlotAt(k, Min(V))
  BY DEF Victim
<1> HIDE DEF seen
<1>3. T \in SUBSET Nat /\ T # {}
  BY <1>1, <1>2, Zenon
<1>4. PICK m \in T : \A t \in T : m <= t
  BY <1>3, LeastElement, Zenon
<1>5. V # {} /\ V \in SUBSET Nat
  <2>1. PICK p \in Probes : m = seen(p)
    BY <1>4, Zenon
  <2>2. \A q \in Probes : seen(p) <= seen(q)
    BY <1>4, <2>1, Zenon
  <2>3. p \in V
    BY <2>2, Zenon
  <2> QED
    BY <1>2, <2>3, Zenon
<1>6. Min(V) \in V
  BY <1>5, MinOf, Zenon
<1>8. Min(V) \in Probes /\ \A q \in Probes : seen(Min(V)) <= seen(q)
  BY <1>6, Zenon
<1> HIDE DEF V
<1> QED
  BY <1>7, <1>8, Zenon DEF seen

\* Between calls the search for a key that has no row ends elsewhere.
LEMMA NoRowWithKey ==
  ASSUME AllReached, NEW k,
         FlowEnds(k) = {} \/ flows[SlotAt(k, Min(FlowEnds(k)))].key # k
  PROVE  \A j \in Occupied : flows[j].key # k
BY RowReached, Zenon

\* The empty flow table satisfies the invariant.
LEMMA FlowInvInit == FlowInit => FlowInv
<1> SUFFICES ASSUME FlowInit PROVE FlowInv
  OBVIOUS
<1>1. FlowTyped
  BY Zenon DEF FlowInit, FlowTyped, FlowRows, EmptyEntry
<1>2. Occupied = {}
  BY Zenon DEF FlowInit, Occupied, EmptyEntry
<1>3. stats.active = 0 /\ Cardinality(Occupied) = 0
  BY <1>2, FS_EmptySet, Zenon DEF FlowInit
<1> QED
  BY <1>1, <1>2, <1>3, Zenon DEF FlowInv, AllReached, RowsExact

\* The key update_flow() works with is one of the table's.
LEMMA UpdateArguments ==
  ASSUME NEW key \in FlowKeys \cup {NoKey}, NEW bytes \in Sizes, NEW ts \in 0 .. MaxTime
  PROVE  TableKey(key) \in TableKeys /\ bytes \in Nat /\ ts \in Nat
<1>1. TableKey(key) \in TableKeys
  BY Zenon DEF TableKey, TableKeys
<1>2. bytes \in Nat /\ ts \in Nat
  BY FlowAssumption
<1> QED
  BY <1>1, <1>2

\* A known flow: its row grows.
LEMMA HitFlowInv ==
  ASSUME FlowInv, NEW k \in TableKeys, NEW bytes \in Nat, NEW ts \in Nat,
         HitFlow(k, bytes, ts), home' = home
  PROVE  FlowInv' /\ \A i \in Occupied : flows'[i].key = flows[i].key
<1>1. FlowTyped /\ AllReached /\ RowsExact
  BY Zenon DEF FlowInv
<1> DEFINE p == Min(FlowEnds(k))
           i == SlotAt(k, p)
           e == [flows[i] EXCEPT !.bytes = @ + bytes, !.packets = @ + 1, !.seen = ts]
<1>2. p \in Probes /\ Passes(k, p)
  BY FirstEnd, Zenon DEF HitFlow
<1>3. i \in FlowSlots
  BY <1>1, <1>2, WindowSlots, Zenon
<1>4. /\ flows[i].key = k
      /\ flows' = [flows EXCEPT ![i].bytes = @ + bytes, ![i].packets = @ + 1, ![i].seen = ts]
      /\ traffic' = [traffic EXCEPT ![k] = @ + bytes] /\ stats' = stats
  BY Zenon DEF HitFlow
<1>5. flows \in [FlowSlots -> FlowRows] /\ flows[i] \in FlowRows
  BY <1>1, <1>3, Zenon DEF FlowTyped
<1> HIDE DEF p, i
<1>6. flows' = [flows EXCEPT ![i] = e]
  BY <1>3, <1>4, <1>5, Zenon
<1>7. flows[i].bytes \in Nat /\ flows[i].packets \in Nat
  BY <1>5, Zenon DEF FlowRows
<1>8. e \in FlowRows /\ e.key = k /\ e.bytes = flows[i].bytes + bytes
  <2>1. flows[i].bytes + bytes \in Nat /\ flows[i].packets + 1 \in Nat
    BY <1>7
  <2> QED
    BY <1>4, <1>5, <2>1, Zenon DEF FlowRows
<1> HIDE DEF e
<1>9. i \in Occupied
  <2>1. k # Free
    BY FlowAssumption, Zenon DEF TableKeys
  <2> QED
    BY <1>3, <1>4, <2>1, Zenon DEF Occupied
<1>10. \A j \in Occupied : flows[j].key = k => j = i
  BY <1>1, <1>4, <1>9, RowReached, Zenon
<1>11. /\ AllReached' /\ flows' \in [FlowSlots -> FlowRows]
       /\ Occupied' = Occupied \cup {i} /\ flows'[i] = e
       /\ \A j \in Occupied' : j # i =>
            j \in Occupied /\ flows'[j] = flows[j] /\ flows[j].key \in TableKeys \ {k}
  <2>1. WritesRow(k, p, e)
    BY <1>2, <1>6, <1>8, <1>10, Zenon DEF i, WritesRow
  <2>2. RowWritten(k, p, e)
    BY <1>1, <2>1, PutRow, Zenon
  <2> QED
    BY <2>2, Zenon DEF RowWritten, i
<1>12. Occupied' = Occupied
  BY <1>9, <1>11, Zenon
<1>13. traffic \in [TableKeys -> Nat] /\ traffic[k] = flows[i].bytes
  BY <1>1, <1>4, <1>9, Zenon DEF FlowTyped, RowsExact
<1>14. traffic'[k] = flows[i].bytes + bytes /\ \A l \in TableKeys \ {k} : traffic'[l] = traffic[l]
  BY <1>4, <1>13, Zenon
<1>15. traffic' \in [TableKeys -> Nat]
  <2>1. traffic[k] + bytes \in Nat
    BY <1>7, <1>13
  <2> QED
    BY <1>4, <1>13, <2>1, Zenon
<1>16. \A j \in Occupied' : flows'[j].bytes = traffic'[flows'[j].key]
  <2> SUFFICES ASSUME NEW j \in Occupied' PROVE flows'[j].bytes = traffic'[flows'[j].key]
    BY Zenon
  <2>1. CASE j = i
    BY <1>8, <1>11, <1>14, <2>1, Zenon
  <2>2. CASE j # i
    <3>1. j \in Occupied /\ flows'[j] = flows[j] /\ flows[j].key \in TableKeys \ {k}
      BY <1>11, <2>2, Zenon
    <3>2. flows[j].bytes = traffic[flows[j].key] /\ traffic'[flows[j].key] = traffic[flows[j].key]
      BY <1>1, <1>14, <3>1, Zenon DEF RowsExact
    <3> QED
      BY <3>1, <3>2, Zenon
  <2> QED
    BY <2>1, <2>2, Zenon
<1>17. FlowInv'
  BY <1>1, <1>4, <1>11, <1>12, <1>15, <1>16, Zenon DEF FlowInv, FlowTyped, RowsExact
<1>18. \A j \in Occupied : flows'[j].key = flows[j].key
  BY <1>4, <1>8, <1>11, <1>12, Zenon
<1> QED
  BY <1>17, <1>18

\* init_flow() at a probe that the search for a key without a row comes to.
StartsRow(k, p, bytes, ts) ==
  /\ p \in Probes /\ Passes(k, p)
  /\ \A j \in Occupied : flows[j].key # k
  /\ home' = home
  /\ InitFlow(SlotAt(k, p), k, bytes, ts)
  /\ traffic' = [traffic EXCEPT ![k] = bytes]

RowStarted(k, s) ==
  /\ AllReached' /\ flows' \in [FlowSlots -> FlowRows] /\ traffic' \in [TableKeys -> Nat]
  /\ \A j \in Occupied' : flows'[j].bytes = traffic'[flows'[j].key]
  /\ Occupied' = Occupied \cup {s} /\ flows'[s].key = k
  /\ \A j \in Occupied : j # s => flows'[j].key = flows[j].key

\* Every row is then reached and exact, the new one and the ones left alone.
LEMMA InitFlowInv ==
  ASSUME FlowInv, NEW k \in TableKeys, NEW bytes \in Nat, NEW ts \in Nat,
         NEW p, StartsRow(k, p, bytes, ts)
  PROVE  RowStarted(k, SlotAt(k, p))
<1>0. /\ p \in Probes /\ Passes(k, p)
      /\ \A j \in Occupied : flows[j].key # k
      /\ home' = home
      /\ InitFlow(SlotAt(k, p), k, bytes, ts)
      /\ traffic' = [traffic EXCEPT ![k] = bytes]
  BY Zenon DEF StartsRow
<1>1. FlowTyped /\ AllReached /\ RowsExact
  BY Zenon DEF FlowInv
<1> DEFINE e == [key |-> k, bytes |-> bytes, packets |-> 1, seen |-> ts]
<1>2. e \in FlowRows /\ e.key = k /\ e.bytes = bytes
  <2>1. 1 \in Nat
    OBVIOUS
  <2> QED
    BY <2>1, Zenon DEF FlowRows
<1>3. flows' = [flows EXCEPT ![SlotAt(k, p)] = e]
  BY <1>0, Zenon DEF InitFlow
<1> HIDE DEF e
<1>4. /\ AllReached' /\ flows' \in [FlowSlots -> FlowRows]
      /\ Occupied' = Occupied \cup {SlotAt(k, p)} /\ flows'[SlotAt(k, p)] = e
      /\ \A j \in Occupied' : j # SlotAt(k, p) =>
           j \in Occupied /\ flows'[j] = flows[j] /\ flows[j].key \in TableKeys \ {k}
  <2>1. WritesRow(k, p, e)
    BY <1>0, <1>2, <1>3, Zenon DEF WritesRow
  <2>2. RowWritten(k, p, e)
    BY <1>1, <2>1, PutRow, Zenon
  <2> QED
    BY <2>2, Zenon DEF RowWritten
<1>5. /\ traffic \in [TableKeys -> Nat] /\ traffic' \in [TableKeys -> Nat]
      /\ traffic'[k] = bytes /\ \A l \in TableKeys \ {k} : traffic'[l] = traffic[l]
  BY <1>0, <1>1, Zenon DEF FlowTyped
<1>6. \A j \in Occupied' : flows'[j].bytes = traffic'[flows'[j].key]
  <2> SUFFICES ASSUME NEW j \in Occupied' PROVE flows'[j].bytes = traffic'[flows'[j].key]
    BY Zenon
  <2>1. CASE j = SlotAt(k, p)
    BY <1>2, <1>4, <1>5, <2>1, Zenon
  <2>2. CASE j # SlotAt(k, p)
    <3>1. j \in Occupied /\ flows'[j] = flows[j] /\ flows[j].key \in TableKeys \ {k}
      BY <1>4, <2>2, Zenon
    <3>2. flows[j].bytes = traffic[flows[j].key] /\ traffic'[flows[j].key] = traffic[flows[j].key]
      BY <1>1, <1>5, <3>1, Zenon DEF RowsExact
    <3> QED
      BY <3>1, <3>2, Zenon
  <2> QED
    BY <2>1, <2>2, Zenon
<1> QED
  BY <1>2, <1>4, <1>5, <1>6, Zenon DEF RowStarted

\* A new flow takes an empty slot.
LEMMA InsertFlowInv ==
  ASSUME FlowInv, NEW k \in TableKeys, NEW bytes \in Nat, NEW ts \in Nat,
         InsertFlow(k, bytes, ts), home' = home
  PROVE  FlowInv' /\ \A i \in Occupied : flows'[i].key = flows[i].key
<1> DEFINE p == Min(FlowEnds(k))
           i == SlotAt(k, p)
<1>1. /\ FlowEnds(k) # {} /\ flows[i].key = Free /\ InitFlow(i, k, bytes, ts)
      /\ traffic' = [traffic EXCEPT ![k] = bytes]
      /\ stats' = [stats EXCEPT !.inserts = @ + 1, !.active = @ + 1]
  BY Zenon DEF InsertFlow
<1>2. p \in Probes /\ Passes(k, p)
  BY <1>1, FirstEnd, Zenon
<1>3. k # Free
  BY FlowAssumption, Zenon DEF TableKeys
<1>4. \A j \in Occupied : flows[j].key # k
  BY <1>1, <1>3, NoRowWithKey, Zenon DEF FlowInv
<1>5. i \notin Occupied
  BY <1>1, Zenon DEF Occupied
<1> HIDE DEF p
<1>6. /\ AllReached' /\ flows' \in [FlowSlots -> FlowRows] /\ traffic' \in [TableKeys -> Nat]
      /\ \A j \in Occupied' : flows'[j].bytes = traffic'[flows'[j].key]
      /\ Occupied' = Occupied \cup {i}
      /\ \A j \in Occupied : j # i => flows'[j].key = flows[j].key
  <2>1. StartsRow(k, p, bytes, ts)
    BY <1>1, <1>2, <1>4, Zenon DEF StartsRow
  <2>2. RowStarted(k, i)
    BY <2>1, InitFlowInv, Zenon
  <2> QED
    BY <2>2, Zenon DEF RowStarted
<1> HIDE DEF i
<1>7. stats \in [inserts : Nat, evictions : Nat, active : Nat] /\ stats.active = Cardinality(Occupied)
  BY Zenon DEF FlowInv, FlowTyped, RowsExact
<1>8. stats' \in [inserts : Nat, evictions : Nat, active : Nat] /\ stats'.active = Cardinality(Occupied) + 1
  <2>1. stats.inserts + 1 \in Nat /\ stats.active + 1 \in Nat
    BY <1>7
  <2>2. stats' \in [inserts : Nat, evictions : Nat, active : Nat] /\ stats'.active = stats.active + 1
    BY <1>1, <1>7, <2>1, Zenon
  <2> QED
    BY <1>7, <2>2, Zenon
<1>9. stats'.active = Cardinality(Occupied')
  BY <1>5, <1>6, <1>8, OccupiedCount, Zenon
<1>10. FlowInv'
  BY <1>6, <1>8, <1>9, Zenon DEF FlowInv, FlowTyped, RowsExact
<1> QED
  BY <1>5, <1>6, <1>10, Zenon

\* A full window gives up the slot of its oldest row, and only that.
LEMMA EvictFlowInv ==
  ASSUME FlowInv, NEW k \in TableKeys, NEW bytes \in Nat, NEW ts \in Nat,
         EvictFlow(k, bytes, ts), home' = home
  PROVE  /\ FlowInv' /\ flows'[Victim(k)].key = k
         /\ \A i \in Occupied : i # Victim(k) => flows'[i].key = flows[i].key
<1>1. /\ FlowEnds(k) = {} /\ InitFlow(Victim(k), k, bytes, ts)
      /\ traffic' = [traffic EXCEPT ![k] = bytes] /\ stats' = [stats EXCEPT !.evictions = @ + 1]
  BY Zenon DEF EvictFlow
<1>2. FlowTyped /\ AllReached /\ RowsExact
  BY Zenon DEF FlowInv
<1>3. PICK p \in Probes : Victim(k) = SlotAt(k, p)
  BY <1>2, VictimOldest, Zenon
<1>4. \A q \in Probes : flows[SlotAt(k, q)].key \notin {k, Free}
  BY <1>1, Zenon DEF FlowEnds
<1>5. Passes(k, p)
  BY <1>2, <1>4, WindowSlots, Zenon DEF Passes
<1>6. \A j \in Occupied : flows[j].key # k
  BY <1>1, <1>2, NoRowWithKey, Zenon
<1>7. Victim(k) \in Occupied
  BY <1>2, <1>3, <1>4, WindowSlots, Zenon DEF Occupied
<1>8. /\ AllReached' /\ flows' \in [FlowSlots -> FlowRows] /\ traffic' \in [TableKeys -> Nat]
      /\ \A j \in Occupied' : flows'[j].bytes = traffic'[flows'[j].key]
      /\ Occupied' = Occupied \cup {Victim(k)} /\ flows'[Victim(k)].key = k
      /\ \A j \in Occupied : j # Victim(k) => flows'[j].key = flows[j].key
  <2>1. StartsRow(k, p, bytes, ts)
    BY <1>1, <1>3, <1>5, <1>6, Zenon DEF StartsRow
  <2>2. RowStarted(k, Victim(k))
    BY <1>3, <2>1, InitFlowInv, Zenon
  <2> QED
    BY <2>2, Zenon DEF RowStarted
<1>9. stats \in [inserts : Nat, evictions : Nat, active : Nat] /\ stats.active = Cardinality(Occupied)
  BY Zenon DEF FlowInv, FlowTyped, RowsExact
<1>10. stats' \in [inserts : Nat, evictions : Nat, active : Nat] /\ stats'.active = stats.active
  BY <1>1, <1>9
<1>11. Occupied' = Occupied
  BY <1>7, <1>8, Zenon
<1>12. FlowInv'
  BY <1>2, <1>8, <1>9, <1>10, <1>11, Zenon DEF FlowInv, FlowTyped, RowsExact
<1> QED
  BY <1>8, <1>12, Zenon

\* What one update_flow() does: the invariant holds, and a row whose key
\* changes was the oldest of the new key's window.
LEMMA FlowStep ==
  FlowInv /\ [FlowNext]_flowVars =>
    /\ FlowInv'
    /\ \A i \in Occupied : flows'[i].key # flows[i].key =>
         \A p \in Probes : flows[SlotAt(flows'[i].key, p)].seen >= flows[i].seen
<1> DEFINE Oldest == \A i \in Occupied : flows'[i].key # flows[i].key =>
                       \A p \in Probes : flows[SlotAt(flows'[i].key, p)].seen >= flows[i].seen
<1> SUFFICES ASSUME FlowInv, [FlowNext]_flowVars PROVE FlowInv' /\ Oldest
  BY Zenon
<1>1. CASE UNCHANGED flowVars
  <2>1. /\ home' = home /\ flows' = flows /\ stats' = stats /\ traffic' = traffic
    BY <1>1 DEF flowVars
  <2>2. \A k, p : SlotAt(k, p)' = SlotAt(k, p)
    BY <2>1, Zenon DEF SlotAt
  <2>3. \A k, p : Passes(k, p)' = Passes(k, p)
    BY <2>1, <2>2, Zenon DEF Passes
  <2>4. Occupied' = Occupied
    BY <2>1, Zenon DEF Occupied
  <2>5. FlowTyped' /\ RowsExact'
    BY <2>1, <2>4, Zenon DEF FlowInv, FlowTyped, RowsExact
  <2>6. AllReached'
    BY <2>1, <2>2, <2>3, <2>4, Zenon DEF FlowInv, AllReached
  <2> QED
    BY <2>1, <2>5, <2>6, Zenon DEF FlowInv
<1>2. CASE FlowNext
  <2>1. PICK key \in FlowKeys \cup {NoKey}, bytes \in Sizes, ts \in 0 .. MaxTime : UpdateFlow(key, bytes, ts)
    BY <1>2, Zenon DEF FlowNext
  <2> DEFINE k == TableKey(key)
  <2>2. k \in TableKeys /\ bytes \in Nat /\ ts \in Nat
    BY UpdateArguments, Zenon
  <2>3. /\ home' = home
        /\ HitFlow(k, bytes, ts) \/ InsertFlow(k, bytes, ts) \/ EvictFlow(k, bytes, ts)
    BY <2>1, Zenon DEF UpdateFlow, Observe
  <2> HIDE DEF k
  <2>4. CASE HitFlow(k, bytes, ts)
    BY <2>2, <2>3, <2>4, HitFlowInv, Zenon
  <2>5. CASE InsertFlow(k, bytes, ts)
    BY <2>2, <2>3, <2>5, InsertFlowInv, Zenon
  <2>6. CASE EvictFlow(k, bytes, ts)
    <3>1. /\ FlowInv' /\ flows'[Victim(k)].key = k
          /\ \A i \in Occupied : i # Victim(k) => flows'[i].key = flows[i].key
      BY <2>2, <2>3, <2>6, EvictFlowInv, Zenon
    <3>2. PICK p \in Probes : /\ Victim(k) = SlotAt(k, p)
                              /\ \A q \in Probes : flows[SlotAt(k, p)].seen <= flows[SlotAt(k, q)].seen
      BY <2>2, VictimOldest, Zenon DEF FlowInv
    <3>3. ASSUME NEW q \in Probes PROVE flows[SlotAt(k, q)].seen >= flows[Victim(k)].seen
      <4>1. \A r \in Probes : flows[SlotAt(k, r)].seen \in Nat
        BY <2>2, WindowSlots, Zenon DEF FlowInv, FlowTyped, FlowRows
      <4>2. PICK a \in Nat, b \in Nat : a = flows[SlotAt(k, q)].seen /\ b = flows[Victim(k)].seen
        BY <3>2, <4>1, Zenon
      <4>3. b <= a
        BY <3>2, <4>2, Zenon
      <4>4. a >= b
        BY <4>3
      <4> QED
        BY <4>2, <4>4, Zenon
    <3> QED
      BY <3>1, <3>3, Zenon
  <2> QED
    BY <2>3, <2>4, <2>5, <2>6, Zenon
<1> QED
  BY <1>1, <1>2, Zenon

\* However evictions scatter keys that share a window, each flow has one row and
\* find_flow() reaches it: for every capacity, window, set of keys and hash
\* function (update_flow and find_flow of meter.hpp).
THEOREM FlowTableOneReachable == FlowSpec => []OneReachableEntry
<1>1. FlowInv => OneReachableEntry
  <2> SUFFICES ASSUME FlowInv, NEW i \in Occupied PROVE FindFlow(flows[i].key) = {i}
    BY Zenon DEF OneReachableEntry
  <2>1. FlowEnds(flows[i].key) # {} /\ SlotAt(flows[i].key, Min(FlowEnds(flows[i].key))) = i
    BY RowReached, Zenon DEF FlowInv
  <2> QED
    BY <2>1, Zenon DEF FindFlow
<1>2. FlowInv /\ [FlowNext]_flowVars => FlowInv'
  BY FlowStep, Zenon
<1> QED
  BY <1>1, <1>2, FlowInvInit, PTL DEF FlowSpec

\* A row holds the traffic of its flow since the flow last entered the table and
\* none of the flow it displaced; flows_active is the number of rows.
THEOREM FlowTableRowsExact == FlowSpec => []RowsExact
<1>1. FlowInv => RowsExact
  BY Zenon DEF FlowInv
<1>2. FlowInv /\ [FlowNext]_flowVars => FlowInv'
  BY FlowStep, Zenon
<1> QED
  BY <1>1, <1>2, FlowInvInit, PTL DEF FlowSpec

\* No eviction removes a flow while one seen earlier is in the same window.
THEOREM FlowTableEvictsOldest == FlowSpec => EvictsOldest
<1>1. FlowInv /\ [FlowNext]_flowVars => FlowInv'
  BY FlowStep, Zenon
<1>2. FlowInv /\ [FlowNext]_flowVars =>
        [\A i \in Occupied : flows'[i].key # flows[i].key =>
           \A p \in Probes : flows[SlotAt(flows'[i].key, p)].seen >= flows[i].seen]_flowVars
  BY FlowStep, Zenon
<1> QED
  BY <1>1, <1>2, FlowInvInit, PTL DEF FlowSpec, EvictsOldest

-----------------------------------------------------------------------------
(* The TEID table *)

\* The slots in use.  While remove_at runs, the hole holds a key that is
\* stored elsewhere or is being erased; the others are the table's elements.
Filled == {i \in Slots : keys[i] # EmptyKey}
Elements == Filled \ (IF pc = "shift" THEN {hole} ELSE {})

\* The distance from slot i forward to slot j, and from an element's ideal
\* slot to its slot.
Span(i, j) == (j - i) % Capacity
Offset(i) == Span(hash[keys[i]], i)

HashTyped ==
  /\ hash \in [Keys -> Slots]
  /\ keys \in [Slots -> Keys \cup {EmptyKey}]
  /\ values \in [Slots -> Values \cup {CHOOSE v \in Values : TRUE}]
  /\ \A i \in Filled : values[i] \in Values
  /\ sentinel \in Values \cup {NoValue}
  /\ pc \in {"idle", "shift"}
  /\ frozen \in [AllKeys -> Values \cup {NoValue}]

\* No search stops before it reaches an element.
Chained == \A i \in Elements, s \in Slots : Span(hash[keys[i]], s) < Offset(i) => keys[s] # EmptyKey

NoTwins == \A i, j \in Elements : keys[i] = keys[j] => i = j

Counted == size = Cardinality(Filled)

\* The elements remove_at passed over since it moved one do not need the hole:
\* the searches for them start beyond it.
PassedOver ==
  \A i \in Elements : Span(hole, i) < Span(hole, next) => Offset(i) < Span(hole, i)

\* The table holds k with value v, or lacks k and v says so.
Agrees(k, v) ==
  \/ \E i \in Elements : keys[i] = k /\ values[i] = v
  \/ v = NoValue /\ \A i \in Elements : keys[i] # k

\* The elements are those that were there before the erase, but for one.
Erasing ==
  /\ frozen[Reserved] = sentinel
  /\ \E d \in Keys : /\ \A i \in Elements : keys[i] # d
                     /\ \A k \in Keys \ {d} : Agrees(k, frozen[k])

HashInv ==
  /\ HashTyped /\ Chained /\ NoTwins /\ Counted
  /\ pc = "shift" => hole \in Filled /\ next \in Slots /\ PassedOver /\ Erasing

-----------------------------------------------------------------------------
(* Going round the table *)

\* A remainder of a number at most one turn away.
LEMMA OneTurn ==
  ASSUME NEW a \in Int, NEW c \in Nat, c > 0
  PROVE  /\ 0 <= a /\ a < c => a % c = a
         /\ c <= a /\ a < c + c => a % c = a - c
         /\ 0 - c <= a /\ a < 0 => a % c = a + c
<1>1. 0 <= a /\ a < c => a % c = a
  OBVIOUS
<1>2. c <= a /\ a < c + c => a % c = a - c
  OBVIOUS
<1>3. 0 - c <= a /\ a < 0 => a % c = a + c
  OBVIOUS
<1> QED
  BY <1>1, <1>2, <1>3

\* Capacity is a positive number and slots are numbers below it.
LEMMA SlotNumbers ==
  /\ Capacity \in Nat /\ Capacity > 0
  /\ \A i : i \in Slots <=> i \in Nat /\ i < Capacity
BY HashAssumption DEF Slots

\* Where a walk of p slots from slot h ends.
LEMMA Walk ==
  ASSUME NEW h \in Slots, NEW p \in Slots
  PROVE  /\ (h + p) % Capacity \in Slots
         /\ h + p < Capacity => (h + p) % Capacity = h + p
         /\ h + p >= Capacity => (h + p) % Capacity = (h + p) - Capacity
<1>1. /\ Capacity \in Nat /\ Capacity > 0 /\ h \in Nat /\ h < Capacity /\ p \in Nat /\ p < Capacity
  BY SlotNumbers, Zenon
<1>2. /\ h + p < Capacity => (h + p) % Capacity = h + p
      /\ h + p >= Capacity => (h + p) % Capacity = (h + p) - Capacity
  BY <1>1, OneTurn
<1>3. (h + p) % Capacity \in Nat /\ (h + p) % Capacity < Capacity
  BY <1>1, <1>2
<1> QED
  BY <1>2, <1>3, SlotNumbers, Zenon

\* The length of the walk from slot i to slot j.
LEMMA SpanIs ==
  ASSUME NEW i \in Slots, NEW j \in Slots
  PROVE  /\ Span(i, j) \in Slots
         /\ i <= j => Span(i, j) = j - i
         /\ j < i => Span(i, j) = (j - i) + Capacity
<1>1. /\ Capacity \in Nat /\ Capacity > 0 /\ i \in Nat /\ i < Capacity /\ j \in Nat /\ j < Capacity
  BY SlotNumbers, Zenon
<1>2. /\ i <= j => (j - i) % Capacity = j - i
      /\ j < i => (j - i) % Capacity = (j - i) + Capacity
  BY <1>1, OneTurn
<1>3. (j - i) % Capacity \in Nat /\ (j - i) % Capacity < Capacity
  BY <1>1, <1>2
<1> QED
  BY <1>2, <1>3, SlotNumbers, Zenon DEF Span

\* Walks and their lengths are inverse to each other.
LEMMA WalkSpan ==
  ASSUME NEW i \in Slots, NEW j \in Slots
  PROVE  /\ (i + Span(i, j)) % Capacity = j
         /\ Span(i, j) = 0 <=> i = j
         /\ \A p \in Slots : (i + p) % Capacity = j => p = Span(i, j)
<1>1. /\ Capacity \in Nat /\ Capacity > 0 /\ i \in Nat /\ i < Capacity /\ j \in Nat /\ j < Capacity
  BY SlotNumbers, Zenon
<1>2. PICK d \in Slots : d = Span(i, j)
  BY SpanIs, Zenon
<1>3. /\ d \in Nat /\ d < Capacity
      /\ i <= j => d = j - i
      /\ j < i => d = (j - i) + Capacity
  BY <1>2, SpanIs, SlotNumbers, Zenon
<1>4. (i + d) % Capacity = j /\ (d = 0 <=> i = j)
  <2>1. /\ i + d < Capacity => (i + d) % Capacity = i + d
        /\ i + d >= Capacity => (i + d) % Capacity = (i + d) - Capacity
    BY Walk, Zenon
  <2> QED
    BY <1>1, <1>3, <2>1
<1>5. ASSUME NEW p \in Slots, (i + p) % Capacity = j PROVE p = d
  <2>1. p \in Nat /\ p < Capacity
    BY SlotNumbers, Zenon
  <2>2. /\ i + p < Capacity => j = i + p
        /\ i + p >= Capacity => j = (i + p) - Capacity
    BY <1>5, Walk, Zenon
  <2> QED
    BY <1>1, <1>3, <2>1, <2>2
<1> QED
  BY <1>2, <1>4, <1>5, Zenon

\* On the way from h to i that passes o, the two parts add up; n is on it too if
\* it is no further from o than i.
LEMMA SplitWalk ==
  ASSUME NEW h \in Slots, NEW i \in Slots, NEW o \in Slots, NEW n \in Slots,
         Span(h, o) < Span(h, i)
  PROVE  /\ Span(o, i) = Span(h, i) - Span(h, o)
         /\ Span(o, n) < Span(o, i) => Span(h, n) < Span(h, i)
<1>1. /\ Capacity \in Nat /\ h \in Nat /\ h < Capacity /\ i \in Nat /\ i < Capacity
      /\ o \in Nat /\ o < Capacity /\ n \in Nat /\ n < Capacity
  BY SlotNumbers, Zenon
<1>2. PICK hi \in Nat, ho \in Nat, hn \in Nat, oi \in Nat, on \in Nat :
        /\ hi = Span(h, i) /\ ho = Span(h, o) /\ hn = Span(h, n) /\ oi = Span(o, i) /\ on = Span(o, n)
  BY SpanIs, SlotNumbers, Zenon
<1>3. /\ h <= i => hi = i - h
      /\ i < h => hi = (i - h) + Capacity
      /\ h <= o => ho = o - h
      /\ o < h => ho = (o - h) + Capacity
  BY <1>2, SpanIs, Zenon
<1>4. /\ h <= n => hn = n - h
      /\ n < h => hn = (n - h) + Capacity
      /\ o <= i => oi = i - o
      /\ i < o => oi = (i - o) + Capacity
      /\ o <= n => on = n - o
      /\ n < o => on = (n - o) + Capacity
  BY <1>2, SpanIs, Zenon
<1>5. ho < hi
  BY <1>2, Zenon
<1>6. oi = hi - ho
  BY <1>1, <1>3, <1>4, <1>5
<1>7. on < oi => hn < hi
  BY <1>1, <1>3, <1>4, <1>5
<1> QED
  BY <1>2, <1>6, <1>7, Zenon

\* An element at n whose walk from h is at least as long as the one from o
\* passes o: Moves() in remove_at.
LEMMA ShorterWalk ==
  ASSUME NEW h \in Slots, NEW o \in Slots, NEW n \in Slots, Span(h, n) >= Span(o, n)
  PROVE  Span(h, o) <= Span(h, n)
<1>1. /\ Capacity \in Nat /\ h \in Nat /\ h < Capacity
      /\ o \in Nat /\ o < Capacity /\ n \in Nat /\ n < Capacity
  BY SlotNumbers, Zenon
<1>2. PICK ho \in Nat, hn \in Nat, on \in Nat :
        ho = Span(h, o) /\ hn = Span(h, n) /\ on = Span(o, n)
  BY SpanIs, SlotNumbers, Zenon
<1>3. /\ h <= o => ho = o - h
      /\ o < h => ho = (o - h) + Capacity
      /\ h <= n => hn = n - h
      /\ n < h => hn = (n - h) + Capacity
      /\ o <= n => on = n - o
      /\ n < o => on = (n - o) + Capacity
  BY <1>2, SpanIs, Zenon
<1>4. hn >= on
  BY <1>2, Zenon
<1>5. ho <= hn
  BY <1>1, <1>3, <1>4
<1> QED
  BY <1>2, <1>5, Zenon

\* One slot further is one step further, until the walk comes round.
LEMMA StepOn ==
  ASSUME NEW o \in Slots, NEW n \in Slots
  PROVE  /\ Advance(n) \in Slots
         /\ Span(o, Advance(n)) = 0 \/ Span(o, Advance(n)) = Span(o, n) + 1
<1>1. /\ Capacity \in Nat /\ Capacity > 0 /\ o \in Nat /\ o < Capacity /\ n \in Nat /\ n < Capacity
  BY SlotNumbers, Zenon
<1>2. PICK a \in Nat : a = Advance(n) /\ a < Capacity /\ (n + 1 < Capacity => a = n + 1) /\ (n + 1 = Capacity => a = 0)
  BY <1>1, OneTurn DEF Advance
<1>3. a \in Slots
  BY <1>2, SlotNumbers, Zenon
<1>4. PICK on \in Nat, oa \in Nat : on = Span(o, n) /\ oa = Span(o, a)
  BY <1>3, SpanIs, SlotNumbers, Zenon
<1>5. /\ o <= n => on = n - o
      /\ n < o => on = (n - o) + Capacity
      /\ o <= a => oa = a - o
      /\ a < o => oa = (a - o) + Capacity
  BY <1>3, <1>4, SpanIs, Zenon
<1>6. oa = 0 \/ oa = on + 1
  BY <1>1, <1>2, <1>5
<1> QED
  BY <1>2, <1>3, <1>4, <1>6, Zenon

-----------------------------------------------------------------------------
(* Searching the TEID table *)

\* The types of an element.
LEMMA ElementTypes ==
  ASSUME HashTyped, NEW i \in Filled
  PROVE  i \in Slots /\ keys[i] \in Keys /\ keys[i] # EmptyKey /\ hash[keys[i]] \in Slots /\ values[i] \in Values
<1>1. i \in Slots /\ keys[i] # EmptyKey
  BY Zenon DEF Filled
<1>2. keys[i] \in Keys
  BY <1>1, Zenon DEF HashTyped
<1> QED
  BY <1>1, <1>2, Zenon DEF HashTyped

\* Probes and slots name each other.
LEMMA ProbeSpan ==
  ASSUME HashTyped, NEW k \in Keys
  PROVE  /\ hash[k] \in Slots
         /\ \A p \in Slots : ProbeSlot(k, p) \in Slots /\ Span(hash[k], ProbeSlot(k, p)) = p
         /\ \A s \in Slots : Span(hash[k], s) \in Slots /\ ProbeSlot(k, Span(hash[k], s)) = s
<1>1. hash[k] \in Slots
  BY Zenon DEF HashTyped
<1>2. ASSUME NEW p \in Slots PROVE ProbeSlot(k, p) \in Slots /\ Span(hash[k], ProbeSlot(k, p)) = p
  <2>1. (hash[k] + p) % Capacity \in Slots
    BY <1>1, Walk, Zenon
  <2>2. p = Span(hash[k], (hash[k] + p) % Capacity)
    BY <1>1, <2>1, WalkSpan, Zenon
  <2> QED
    BY <2>1, <2>2, Zenon DEF ProbeSlot
<1>3. ASSUME NEW s \in Slots PROVE Span(hash[k], s) \in Slots /\ ProbeSlot(k, Span(hash[k], s)) = s
  BY <1>1, SpanIs, WalkSpan, Zenon DEF ProbeSlot
<1> QED
  BY <1>1, <1>2, <1>3, Zenon

\* The slot the search for k ends at, and the slots it passes.
Found(k) == ProbeSlot(k, Min(EndProbes(k)))

\* A search that ends does so at the key or at the first gap it meets.
LEMMA SearchEnd ==
  ASSUME HashTyped, NEW k \in Keys, EndProbes(k) # {}
  PROVE  /\ Found(k) \in Slots /\ keys[Found(k)] \in {k, EmptyKey}
         /\ \A s \in Slots : Span(hash[k], s) < Span(hash[k], Found(k)) => keys[s] \notin {k, EmptyKey}
<1> DEFINE p == Min(EndProbes(k))
<1>1. EndProbes(k) \in SUBSET Nat
  BY HashAssumption DEF EndProbes, Slots
<1>2. p \in EndProbes(k) /\ \A q \in EndProbes(k) : p <= q
  BY <1>1, MinOf, Zenon
<1>3. p \in Slots /\ keys[ProbeSlot(k, p)] \in {k, EmptyKey}
  BY <1>2, Zenon DEF EndProbes
<1> HIDE DEF p
<1>4. ProbeSlot(k, p) \in Slots /\ Span(hash[k], ProbeSlot(k, p)) = p
  BY <1>3, ProbeSpan, Zenon
<1>5. ASSUME NEW s \in Slots, Span(hash[k], s) < p PROVE keys[s] \notin {k, EmptyKey}
  <2>1. PICK q \in Slots : q = Span(hash[k], s) /\ ProbeSlot(k, q) = s
    BY ProbeSpan, Zenon
  <2>2. q \in Nat /\ p \in Nat /\ q < p
    BY <1>3, <1>5, <2>1, SlotNumbers, Zenon
  <2>3. ~ (p <= q)
    BY <2>2
  <2>4. q \notin EndProbes(k)
    BY <1>2, <2>3, Zenon
  <2> QED
    BY <2>1, <2>4, Zenon DEF EndProbes
<1> QED
  BY <1>3, <1>4, <1>5, Zenon DEF Found, p

\* Two slots at the same distance are the same slot, and distances compare.
LEMMA SpansCompare ==
  ASSUME NEW h \in Slots, NEW s \in Slots, NEW t \in Slots
  PROVE  Span(h, s) < Span(h, t) \/ Span(h, t) < Span(h, s) \/ s = t
<1>1. Span(h, s) \in Nat /\ Span(h, t) \in Nat
  BY SpanIs, SlotNumbers, Zenon
<1>2. (h + Span(h, s)) % Capacity = s /\ (h + Span(h, t)) % Capacity = t
  BY WalkSpan, Zenon
<1>3. Span(h, s) < Span(h, t) \/ Span(h, t) < Span(h, s) \/ Span(h, s) = Span(h, t)
  BY <1>1
<1> QED
  BY <1>2, <1>3, Zenon

\* Between calls the search for a stored key ends at its slot.
LEMMA SearchFinds ==
  ASSUME HashInv, pc = "idle", NEW t \in Slots, keys[t] \in Keys
  PROVE  EndProbes(keys[t]) # {} /\ Found(keys[t]) = t
<1> DEFINE k == keys[t]
<1>0. HashTyped /\ Chained /\ NoTwins /\ Elements = Filled
  BY Zenon DEF HashInv, Elements
<1>1. k # EmptyKey /\ t \in Filled
  BY HashAssumption, Zenon DEF Filled
<1>2. Span(hash[k], t) \in EndProbes(k)
  BY <1>0, ProbeSpan, Zenon DEF EndProbes
<1>3. /\ Found(k) \in Slots /\ keys[Found(k)] \in {k, EmptyKey}
      /\ \A s \in Slots : Span(hash[k], s) < Span(hash[k], Found(k)) => keys[s] \notin {k, EmptyKey}
  BY <1>0, <1>2, SearchEnd, Zenon
<1>4. CASE keys[Found(k)] = k
  <2>1. Found(k) \in Filled
    BY <1>1, <1>3, <1>4, Zenon DEF Filled
  <2> QED
    BY <1>0, <1>1, <1>2, <1>4, <2>1, Zenon DEF NoTwins
<1>5. CASE keys[Found(k)] = EmptyKey
  <2>1. ~ (Span(hash[k], Found(k)) < Span(hash[k], t))
    BY <1>0, <1>1, <1>3, <1>5, Zenon DEF Chained, Offset
  <2>2. ~ (Span(hash[k], t) < Span(hash[k], Found(k)))
    BY <1>3, Zenon
  <2>3. Found(k) = t
    BY <1>0, <1>3, <2>1, <2>2, ProbeSpan, SpansCompare, Zenon
  <2> QED
    BY <1>2, <2>3, Zenon
<1> QED
  BY <1>3, <1>4, <1>5, Zenon

\* find() answers with what the table holds.
LEMMA LookupAgrees ==
  ASSUME HashInv, pc = "idle", NEW k \in Keys
  PROVE  Agrees(k, Lookup(k))
<1>0. HashTyped /\ Elements = Filled /\ k # Reserved /\ k # EmptyKey
  BY HashAssumption, Zenon DEF HashInv, Elements
<1>1. Lookup(k) = IF EndProbes(k) = {} THEN NoValue
                  ELSE IF keys[Found(k)] = k THEN values[Found(k)] ELSE NoValue
  BY <1>0, Zenon DEF Lookup, Found
<1>2. CASE \E t \in Slots : keys[t] = k
  <2>1. PICK t \in Slots : keys[t] = k
    BY <1>2
  <2>2. EndProbes(k) # {} /\ Found(k) = t
    BY <2>1, SearchFinds, Zenon
  <2>3. t \in Filled /\ Lookup(k) = values[t]
    BY <1>0, <1>1, <2>1, <2>2, Zenon DEF Filled
  <2> QED
    BY <1>0, <2>1, <2>3, Zenon DEF Agrees
<1>3. CASE ~ \E t \in Slots : keys[t] = k
  <2>1. Lookup(k) = NoValue
    BY <1>0, <1>1, <1>3, SearchEnd, Zenon
  <2>2. \A i \in Elements : keys[i] # k
    BY <1>0, <1>3, Zenon DEF Filled
  <2> QED
    BY <2>1, <2>2, Zenon DEF Agrees
<1> QED
  BY <1>2, <1>3, Zenon

\* Lookups is the only map that agrees with the table.
LookupsDetermined ==
  /\ Lookups \in [AllKeys -> Values \cup {NoValue}]
  /\ \A f \in [AllKeys -> Values \cup {NoValue}] :
       f[Reserved] = sentinel /\ (\A k \in Keys : Agrees(k, f[k])) => Lookups = f

\* Between calls find() determines the map.
LEMMA LookupsAre == HashInv /\ pc = "idle" => LookupsDetermined
<1> SUFFICES ASSUME HashInv, pc = "idle" PROVE LookupsDetermined
  BY Zenon
<1>0. HashTyped /\ NoTwins /\ Elements = Filled
  BY Zenon DEF HashInv, Elements
<1>1. /\ Lookups = [k \in AllKeys |-> Lookup(k)]
      /\ \A k \in AllKeys : k = Reserved \/ k \in Keys
      /\ Lookup(Reserved) = sentinel /\ Reserved \in AllKeys
  BY Zenon DEF Lookups, AllKeys, Lookup
<1>2. \A k \in Keys : Agrees(k, Lookup(k))
  BY LookupAgrees, Zenon
<1>3. \A k \in Keys : Lookup(k) \in Values \cup {NoValue}
  <2>1. \A i \in Elements : values[i] \in Values
    BY <1>0, Zenon DEF HashTyped
  <2>2. ASSUME NEW k \in Keys PROVE Lookup(k) \in Values \cup {NoValue}
    <3>1. (\E i \in Elements : values[i] = Lookup(k)) \/ Lookup(k) = NoValue
      BY <1>2, Zenon DEF Agrees
    <3> QED
      BY <2>1, <3>1, Zenon
  <2> QED
    BY <2>2, Zenon
<1>4. sentinel \in Values \cup {NoValue}
  BY <1>0, Zenon DEF HashTyped
<1>5. Lookups \in [AllKeys -> Values \cup {NoValue}]
  BY <1>1, <1>3, <1>4, Zenon
<1>6. ASSUME NEW f \in [AllKeys -> Values \cup {NoValue}],
             f[Reserved] = sentinel, \A k \in Keys : Agrees(k, f[k])
      PROVE  Lookups = f
  <2>1. ASSUME NEW k \in Keys PROVE Lookup(k) = f[k]
    <3>1. Agrees(k, Lookup(k)) /\ Agrees(k, f[k])
      BY <1>2, <1>6, Zenon
    <3>2. CASE \E i \in Elements : keys[i] = k
      <4>1. PICK i \in Elements : keys[i] = k
        BY <3>2
      <4>2. \A j \in Elements : keys[j] = k => j = i
        BY <1>0, <4>1, Zenon DEF NoTwins
      <4> QED
        BY <3>1, <4>1, <4>2, Zenon DEF Agrees
    <3>3. CASE ~ \E i \in Elements : keys[i] = k
      BY <3>1, <3>3, Zenon DEF Agrees
    <3> QED
      BY <3>2, <3>3, Zenon
  <2>2. \A k \in AllKeys : Lookup(k) = f[k]
    BY <1>1, <1>6, <2>1, Zenon
  <2> QED
    BY <1>1, <2>2, Zenon
<1> QED
  BY <1>5, <1>6, Zenon DEF LookupsDetermined

\* The map the table is seen as.
MapNow == IF pc = "idle" THEN Lookups ELSE frozen

\* When a step ends between calls, the map is the one its elements make.
LEMMA MapAfter ==
  ASSUME HashInv', pc' = "idle", NEW f \in [AllKeys -> Values \cup {NoValue}],
         f[Reserved] = sentinel', \A k \in Keys : Agrees(k, f[k])'
  PROVE  MapNow' = f
<1>1. (HashInv /\ pc = "idle" => LookupsDetermined)'
  BY LookupsAre, PTL
<1>2. LookupsDetermined'
  BY <1>1, Zenon
<1> QED
  BY <1>2, Zenon DEF LookupsDetermined, MapNow

\* Filled is finite.
LEMMA FilledCount ==
  ASSUME NEW i
  PROVE  /\ IsFiniteSet(Filled) /\ Cardinality(Filled) \in Nat
         /\ i \in Filled => Cardinality(Filled \ {i}) = Cardinality(Filled) - 1
         /\ i \notin Filled => Cardinality(Filled \cup {i}) = Cardinality(Filled) + 1
<1>1. IsFiniteSet(Slots)
  <2>1. 0 \in Int /\ Capacity - 1 \in Int
    BY HashAssumption
  <2> QED
    BY <2>1, FS_Interval, Zenon DEF Slots
<1>2. Filled \in SUBSET Slots
  BY Zenon DEF Filled
<1>3. IsFiniteSet(Filled)
  BY <1>1, <1>2, FS_Subset, Zenon
<1>4. Cardinality(Filled) \in Nat
  BY <1>3, FS_CardinalityType, Zenon
<1>5. Cardinality(Filled \cup {i}) = IF i \in Filled THEN Cardinality(Filled) ELSE Cardinality(Filled) + 1
  BY <1>3, FS_AddElement, Zenon
<1>6. Cardinality(Filled \ {i}) = IF i \in Filled THEN Cardinality(Filled) - 1 ELSE Cardinality(Filled)
  BY <1>3, FS_RemoveElement, Zenon
<1> QED
  BY <1>3, <1>4, <1>5, <1>6, Zenon

\* The empty table satisfies the invariant and is the empty map.
LEMMA HashInvInit == Init => HashInv /\ Map!MapInit
<1> SUFFICES ASSUME Init PROVE HashInv /\ Map!MapInit
  BY Zenon
<1>1. HashTyped /\ Filled = {} /\ pc = "idle"
  BY Zenon DEF Init, HashTyped, Filled
<1>2. Elements = {} /\ size = 0 /\ Cardinality(Filled) = 0
  BY <1>1, FS_EmptySet, Zenon DEF Init, Elements
<1>3. pc # "shift"
  BY <1>1
<1>4. HashInv
  BY <1>1, <1>2, <1>3, Zenon DEF HashInv, Chained, NoTwins, Counted
<1>5. LookupsDetermined
  BY <1>1, <1>4, LookupsAre, Zenon
<1> DEFINE f == [k \in AllKeys |-> NoValue]
<1>6. f \in [AllKeys -> Values \cup {NoValue}] /\ f[Reserved] = sentinel /\ \A k \in Keys : f[k] = NoValue
  BY Zenon DEF Init, AllKeys
<1> HIDE DEF f
<1>7. Lookups = f
  BY <1>2, <1>5, <1>6, Zenon DEF LookupsDetermined, Agrees
<1> QED
  BY <1>1, <1>4, <1>7, Zenon DEF Map!MapInit, f, AllKeys

-----------------------------------------------------------------------------
(* The calls of the TEID table *)

\* A step that leaves the slots alone between calls keeps the elements.
LEMMA SlotsAlone ==
  ASSUME HashInv, pc = "idle", UNCHANGED <<hash, keys, values, size, pc, frozen>>,
         sentinel' \in Values \cup {NoValue}
  PROVE  HashInv' /\ \A k, v : Agrees(k, v)' = Agrees(k, v)
<1>1. hash' = hash /\ keys' = keys /\ values' = values /\ size' = size /\ pc' = pc /\ frozen' = frozen
  BY Zenon
<1>2. Filled' = Filled /\ Elements = Filled /\ Elements' = Filled
  BY <1>1, Zenon DEF Filled, Elements
<1>3. HashTyped'
  BY <1>1, <1>2, Zenon DEF HashInv, HashTyped
<1>4. Chained'
  BY <1>1, <1>2, Zenon DEF HashInv, Chained, Span, Offset
<1>5. NoTwins' /\ Counted'
  BY <1>1, <1>2, Zenon DEF HashInv, NoTwins, Counted
<1>6. pc' # "shift"
  BY <1>1
<1> QED
  BY <1>1, <1>2, <1>3, <1>4, <1>5, <1>6, Zenon DEF HashInv, Agrees

\* Storing or dropping the reserved key.
LEMMA ReservedStep ==
  ASSUME HashInv, NEW v \in Values \cup {NoValue}, InsertReserved(v)
  PROVE  HashInv' /\ MapNow' = [MapNow EXCEPT ![Reserved] = v]
<1>1. /\ pc = "idle" /\ sentinel' = v /\ pc' = "idle"
      /\ UNCHANGED <<hash, keys, values, size, pc, frozen>>
  BY DEF InsertReserved
<1>2. HashInv' /\ \A k, w : Agrees(k, w)' = Agrees(k, w)
  BY <1>1, SlotsAlone, Zenon
<1>3. /\ Lookups \in [AllKeys -> Values \cup {NoValue}] /\ MapNow = Lookups
      /\ \A k \in Keys : Lookups[k] = Lookup(k) /\ k # Reserved
  BY <1>1, LookupsAre, HashAssumption, Zenon DEF LookupsDetermined, MapNow, Lookups, AllKeys
<1>4. PICK f \in [AllKeys -> Values \cup {NoValue}] : f = [Lookups EXCEPT ![Reserved] = v]
  BY <1>3, Zenon
<1>7. f[Reserved] = sentinel' /\ \A k \in Keys : f[k] = Lookup(k)
  BY <1>1, <1>3, <1>4, Zenon DEF AllKeys
<1>5. \A k \in Keys : Agrees(k, f[k])'
  <2> SUFFICES ASSUME NEW k \in Keys PROVE Agrees(k, f[k])'
    BY Zenon
  <2>1. Agrees(k, f[k])
    BY <1>1, <1>7, LookupAgrees, Zenon
  <2> QED
    BY <1>2, <2>1, Zenon
<1>6. MapNow' = f
  BY <1>1, <1>2, <1>5, <1>7, MapAfter, Zenon
<1> QED
  BY <1>2, <1>3, <1>4, <1>6, Zenon

\* insert() of a key: at its own slot or at the gap its search ends at.
LEMMA InsertInv ==
  ASSUME HashInv, NEW k \in Keys, NEW v \in Values, Insert(k, v)
  PROVE  /\ HashInv' /\ pc = "idle" /\ pc' = "idle" /\ size < Capacity /\ sentinel' = sentinel
         /\ Agrees(k, v)' /\ \A l \in Keys \ {k} : \A w : Agrees(l, w) => Agrees(l, w)'
<1>1. PICK s : s = Found(k)
  BY Zenon
<1>2. /\ pc = "idle" /\ size < Capacity /\ EndProbes(k) # {} /\ keys' = [keys EXCEPT ![s] = k]
      /\ values' = [values EXCEPT ![s] = v] /\ size' = IF keys[s] = k THEN size ELSE size + 1
      /\ hash' = hash /\ sentinel' = sentinel /\ pc' = pc /\ frozen' = frozen
  BY <1>1 DEF Insert, Found
<1>3. HashTyped /\ Chained /\ NoTwins /\ Counted /\ Elements = Filled
  BY <1>2, Zenon DEF HashInv, Elements
<1>4. /\ s \in Slots /\ keys[s] \in {k, EmptyKey}
      /\ \A t \in Slots : Span(hash[k], t) < Span(hash[k], s) => keys[t] \notin {k, EmptyKey}
  BY <1>1, <1>2, <1>3, SearchEnd, Zenon
<1>5. k # EmptyKey
  BY HashAssumption, Zenon
<1>6. keys \in [Slots -> Keys \cup {EmptyKey}]
  BY <1>3, Zenon DEF HashTyped
<1>7. keys'[s] = k /\ \A t \in Slots \ {s} : keys'[t] = keys[t]
  BY <1>2, <1>4, <1>6, Zenon
<1>8. values'[s] = v /\ \A t \in Slots \ {s} : values'[t] = values[t]
  BY <1>2, <1>3, <1>4, Zenon DEF HashTyped
<1>9. Filled' = Filled \cup {s} /\ Elements' = Filled'
  <2>1. \A t \in Slots : keys'[t] # EmptyKey <=> (keys[t] # EmptyKey \/ t = s)
    BY <1>5, <1>7, Zenon
  <2>2. pc' # "shift"
    BY <1>2
  <2> QED
    BY <1>4, <2>1, <2>2, Zenon DEF Filled, Elements
<1>10. \A t \in Filled : t \in Slots
  BY Zenon DEF Filled
<1>11. HashTyped'
  <2>1. keys' \in [Slots -> Keys \cup {EmptyKey}]
    BY <1>2, <1>6, Zenon
  <2>2. values' \in [Slots -> Values \cup {CHOOSE w \in Values : TRUE}]
    BY <1>2, <1>3, Zenon DEF HashTyped
  <2>3. \A i \in Filled' : values'[i] \in Values
    BY <1>3, <1>8, <1>9, <1>10, Zenon DEF HashTyped
  <2> QED
    BY <1>2, <1>3, <2>1, <2>2, <2>3, Zenon DEF HashTyped
<1>12. \A i, j : Span(i, j)' = Span(i, j)
  BY Zenon DEF Span
<1>13. Chained'
  <2> SUFFICES ASSUME NEW i \in Elements', NEW t \in Slots, Span(hash[keys'[i]], t) < Span(hash[keys'[i]], i)
               PROVE  keys'[t] # EmptyKey
    BY <1>2, <1>12, Zenon DEF Chained, Offset
  <2>1. keys[t] # EmptyKey
    <3>1. CASE i = s
      BY <1>4, <1>7, <3>1, Zenon
    <3>2. CASE i # s
      <4>1. i \in Filled /\ keys'[i] = keys[i]
        BY <1>7, <1>9, <1>10, <3>2, Zenon
      <4> QED
        BY <1>3, <4>1, Zenon DEF Chained, Offset
    <3> QED
      BY <3>1, <3>2, Zenon
  <2> QED
    BY <1>5, <1>7, <2>1, Zenon
<1>14. \A i \in Filled : keys[i] = k => i = s
  BY <1>1, <1>2, <1>10, SearchFinds, Zenon
<1>15. NoTwins'
  <2> SUFFICES ASSUME NEW i \in Elements', NEW j \in Elements', keys'[i] = keys'[j] PROVE i = j
    BY Zenon DEF NoTwins
  <2>1. \A t \in Elements' : t # s => t \in Filled /\ keys'[t] = keys[t] /\ keys[t] # k
    BY <1>7, <1>9, <1>10, <1>14, Zenon
  <2> QED
    BY <1>3, <1>7, <2>1, Zenon DEF NoTwins
<1>16. Counted'
  <2>1. CASE keys[s] = k
    <3>1. s \in Filled
      BY <1>4, <1>5, <2>1, Zenon DEF Filled
    <3>2. Filled' = Filled
      BY <1>9, <3>1, Zenon
    <3> QED
      BY <1>2, <1>3, <2>1, <3>2, Zenon DEF Counted
  <2>2. CASE keys[s] # k
    <3>1. s \notin Filled
      BY <1>4, <2>2, Zenon DEF Filled
    <3> QED
      BY <1>2, <1>3, <1>9, <2>2, <3>1, FilledCount, Zenon DEF Counted
  <2> QED
    BY <2>1, <2>2, Zenon
<1>17. HashInv' /\ pc' = "idle"
  <2>1. pc' = "idle" /\ pc' # "shift"
    BY <1>2
  <2> QED
    BY <1>11, <1>13, <1>15, <1>16, <2>1, Zenon DEF HashInv
<1>18. Agrees(k, v)'
  BY <1>7, <1>8, <1>9, Zenon DEF Agrees
<1>19. ASSUME NEW l \in Keys \ {k}, NEW w, Agrees(l, w) PROVE Agrees(l, w)'
  <2>1. l # k /\ l # EmptyKey
    BY HashAssumption, Zenon
  <2>2. ASSUME NEW i \in Elements, keys[i] = l, values[i] = w PROVE Agrees(l, w)'
    <3>1. i \in Filled /\ i # s
      BY <1>3, <1>4, <2>1, <2>2, Zenon
    <3>2. keys'[i] = l /\ values'[i] = w /\ i \in Elements'
      BY <1>7, <1>8, <1>9, <1>10, <2>2, <3>1, Zenon
    <3> QED
      BY <3>2, Zenon DEF Agrees
  <2>3. ASSUME w = NoValue, \A i \in Elements : keys[i] # l PROVE Agrees(l, w)'
    <3>1. \A i \in Elements' : keys'[i] # l
      BY <1>3, <1>7, <1>9, <1>10, <2>1, <2>3, Zenon
    <3> QED
      BY <2>3, <3>1, Zenon DEF Agrees
  <2> QED
    BY <1>19, <2>2, <2>3, Zenon DEF Agrees
<1> QED
  BY <1>2, <1>17, <1>18, <1>19, Zenon

\* The keys present are no more than the slots in use.
LEMMA PresentCount ==
  ASSUME HashInv, pc = "idle"
  PROVE  /\ Cardinality({k \in Keys : Lookups[k] # NoValue}) \in Nat
         /\ Cardinality({k \in Keys : Lookups[k] # NoValue}) <= size
<1> DEFINE P == {k \in Keys : Lookups[k] # NoValue}
           f == [i \in Filled |-> keys[i]]
<1>0. HashTyped /\ Elements = Filled /\ size = Cardinality(Filled)
  BY Zenon DEF HashInv, Elements, Counted
<1>1. \A k \in Keys : Lookups[k] = Lookup(k)
  BY Zenon DEF Lookups, AllKeys
<1>2. ASSUME NEW k \in Keys PROVE k \in P <=> \E i \in Filled : keys[i] = k
  <2>1. Agrees(k, Lookups[k])
    BY <1>1, LookupAgrees, Zenon
  <2>2. \A i \in Filled : values[i] # NoValue
    BY <1>0, HashAssumption, Zenon DEF HashTyped
  <2> QED
    BY <1>0, <2>1, <2>2, Zenon DEF Agrees
<1>3. \A i \in Filled : keys[i] \in Keys
  BY <1>0, ElementTypes, Zenon
<1>4. \A i \in Filled : f[i] = keys[i] /\ f[i] \in P
  BY <1>2, <1>3, Zenon
<1>5. f \in [Filled -> P]
  BY <1>4, Zenon
<1>6. \A k \in P : \E i \in Filled : f[i] = k
  BY <1>2, <1>4, Zenon
<1> HIDE DEF f, P
<1>7. f \in Surjection(Filled, P)
  BY <1>5, <1>6, Zenon DEF Surjection
<1>8. Cardinality(P) \in Nat /\ Cardinality(P) <= Cardinality(Filled)
  BY <1>7, FilledCount, FS_Surjection, FS_CardinalityType, Zenon
<1> QED
  BY <1>0, <1>8, Zenon DEF P

\* The map counts keys as the table does.
LEMMA SameCardinality == \A S : Map!Cardinality(S) = Cardinality(S)
BY Zenon DEF Map!Cardinality, Cardinality, Map!IsFiniteSet, IsFiniteSet

\* insert() of a key other than the reserved one puts it into the map, and only
\* while the map has room.
LEMMA InsertStep ==
  ASSUME HashInv, NEW k \in Keys, NEW v \in Values, Insert(k, v)
  PROVE  HashInv' /\ Map!Put(k, v)
<1>1. /\ HashInv' /\ pc = "idle" /\ pc' = "idle" /\ size < Capacity /\ sentinel' = sentinel
      /\ Agrees(k, v)' /\ \A l \in Keys \ {k} : \A w : Agrees(l, w) => Agrees(l, w)'
  BY InsertInv, Zenon
<1>2. /\ Lookups \in [AllKeys -> Values \cup {NoValue}] /\ MapNow = Lookups
      /\ \A l \in Keys : Lookups[l] = Lookup(l) /\ l # Reserved
      /\ Lookups[Reserved] = sentinel
  BY <1>1, LookupsAre, HashAssumption, Zenon DEF LookupsDetermined, MapNow, Lookups, Lookup, AllKeys
<1>3. PICK f \in [AllKeys -> Values \cup {NoValue}] : f = [Lookups EXCEPT ![k] = v]
  BY <1>2, Zenon
<1>4. f[k] = v /\ f[Reserved] = sentinel' /\ \A l \in Keys \ {k} : f[l] = Lookup(l)
  BY <1>1, <1>2, <1>3, Zenon DEF AllKeys
<1>5. \A l \in Keys : Agrees(l, f[l])'
  <2> SUFFICES ASSUME NEW l \in Keys PROVE Agrees(l, f[l])'
    BY Zenon
  <2>1. CASE l = k
    BY <1>1, <1>4, <2>1, Zenon
  <2>2. CASE l # k
    BY <1>1, <1>4, <2>2, LookupAgrees, Zenon
  <2> QED
    BY <2>1, <2>2, Zenon
<1>6. MapNow' = f
  BY <1>1, <1>4, <1>5, MapAfter, Zenon
<1>7. Cardinality({l \in Keys : MapNow[l] # NoValue}) < Capacity
  <2>1. size = Cardinality(Filled) /\ size \in Nat
    BY FilledCount, Zenon DEF HashInv, Counted
  <2>2. Cardinality({l \in Keys : Lookups[l] # NoValue}) <= size
    BY <1>1, PresentCount, Zenon
  <2>3. Cardinality({l \in Keys : Lookups[l] # NoValue}) \in Nat
    BY <1>1, PresentCount, Zenon
  <2> QED
    BY <1>1, <1>2, <2>1, <2>2, <2>3, HashAssumption
<1>8. MapNow' = [MapNow EXCEPT ![k] = v]
  BY <1>2, <1>3, <1>6, Zenon
<1>9. Map!Put(k, v)
  BY <1>7, <1>8, SameCardinality, Zenon DEF Map!Put, Map!Present, MapNow
<1> QED
  BY <1>1, <1>9, Zenon

\* clear() empties the table.
LEMMA ClearStep ==
  ASSUME HashInv, ClearAll
  PROVE  HashInv' /\ Map!Clear
<1>1. /\ pc = "idle" /\ keys' = [i \in Slots |-> EmptyKey] /\ size' = 0 /\ sentinel' = NoValue
      /\ hash' = hash /\ values' = values /\ pc' = pc /\ frozen' = frozen
  BY DEF ClearAll
<1>2. Filled' = {} /\ Elements' = {}
  BY <1>1, Zenon DEF Filled, Elements
<1>3. HashTyped'
  BY <1>1, <1>2, Zenon DEF HashInv, HashTyped
<1>4. pc' = "idle" /\ pc' # "shift" /\ Cardinality(Filled') = 0
  BY <1>1, <1>2, FS_EmptySet
<1>5. HashInv'
  BY <1>1, <1>2, <1>3, <1>4, Zenon DEF HashInv, Chained, NoTwins, Counted
<1>6. PICK f \in [AllKeys -> Values \cup {NoValue}] : f = [k \in AllKeys |-> NoValue]
  BY Zenon
<1>7. f[Reserved] = sentinel' /\ \A k \in Keys : f[k] = NoValue
  BY <1>1, <1>6, Zenon DEF AllKeys
<1>8. \A k \in Keys : Agrees(k, f[k])'
  BY <1>2, <1>7, Zenon DEF Agrees
<1>9. MapNow' = f
  BY <1>4, <1>5, <1>7, <1>8, MapAfter, Zenon
<1> QED
  BY <1>5, <1>6, <1>9, Zenon DEF Map!Clear, MapNow, AllKeys

\* No slot lies between a slot and the next one.
LEMMA NoneBetween ==
  ASSUME NEW s \in Slots, NEW i \in Slots, i # s
  PROVE  ~ (Span(s, i) < Span(s, Advance(s)))
<1>1. PICK a \in Nat, b \in Nat : a = Span(s, i) /\ b = Span(s, Advance(s))
  BY StepOn, SpanIs, SlotNumbers, Zenon
<1>2. a # 0 /\ Span(s, s) = 0
  BY <1>1, WalkSpan, Zenon
<1>3. b = 0 \/ b = 0 + 1
  BY <1>1, <1>2, StepOn, Zenon
<1>4. ~ (a < b)
  BY <1>2, <1>3
<1> QED
  BY <1>1, <1>4, Zenon

\* erase() of a stored key: the hole opens, and the map is frozen as it was.
LEMMA EraseStep ==
  ASSUME HashInv, NEW k \in Keys, Erase(k)
  PROVE  HashInv' /\ MapNow' = MapNow
<1>1. PICK s : s = Found(k)
  BY Zenon
<1>2. /\ pc = "idle" /\ EndProbes(k) # {} /\ keys[s] = k /\ pc' = "shift" /\ hole' = s
      /\ next' = Advance(s) /\ frozen' = Lookups
      /\ hash' = hash /\ keys' = keys /\ values' = values /\ size' = size /\ sentinel' = sentinel
  BY <1>1 DEF Erase, Found
<1>3. HashTyped /\ Chained /\ NoTwins /\ Counted /\ Elements = Filled
  BY <1>2, Zenon DEF HashInv, Elements
<1>4. s \in Slots /\ k # EmptyKey
  BY <1>1, <1>2, <1>3, SearchEnd, HashAssumption, Zenon
<1>5. Filled' = Filled /\ s \in Filled /\ Elements' = Filled \ {s}
  BY <1>2, <1>4, Zenon DEF Filled, Elements
<1>6. /\ Lookups \in [AllKeys -> Values \cup {NoValue}]
      /\ \A l \in Keys : Lookups[l] = Lookup(l)
      /\ Lookups[Reserved] = sentinel
  BY <1>2, LookupsAre, Zenon DEF LookupsDetermined, Lookups, Lookup, AllKeys
<1>7. HashTyped'
  BY <1>2, <1>3, <1>5, <1>6, Zenon DEF HashTyped
<1>8. \A i, j : Span(i, j)' = Span(i, j)
  BY Zenon DEF Span
<1>9. Chained' /\ NoTwins' /\ Counted'
  BY <1>2, <1>3, <1>5, <1>8, Zenon DEF Chained, NoTwins, Counted, Offset
<1>10. next' \in Slots /\ hole' \in Filled'
  BY <1>2, <1>4, <1>5, StepOn, Zenon
<1>11. PassedOver'
  <2> SUFFICES ASSUME NEW i \in Elements', Span(s, i) < Span(s, Advance(s)) PROVE FALSE
    BY <1>2, <1>8, Zenon DEF PassedOver
  <2>1. i \in Slots /\ i # s
    BY <1>5, Zenon DEF Filled
  <2> QED
    BY <1>4, <2>1, NoneBetween, Zenon
<1>12. Erasing'
  <2>1. \A i \in Elements' : keys'[i] # k
    BY <1>2, <1>3, <1>5, Zenon DEF NoTwins
  <2>2. ASSUME NEW l \in Keys \ {k} PROVE Agrees(l, frozen[l])'
    <3>1. Agrees(l, Lookups[l])
      BY <1>2, <1>6, LookupAgrees, Zenon
    <3>2. \A i \in Elements : keys[i] = l => i \in Elements'
      BY <1>2, <1>3, <1>5, Zenon
    <3>3. \A i \in Elements' : i \in Elements
      BY <1>3, <1>5, Zenon
    <3> QED
      BY <1>2, <3>1, <3>2, <3>3, Zenon DEF Agrees
  <2> QED
    BY <1>2, <1>6, <2>1, <2>2, Zenon DEF Erasing
<1>13. pc' # "idle"
  BY <1>2
<1> QED
  BY <1>2, <1>7, <1>9, <1>10, <1>11, <1>12, <1>13, Zenon DEF HashInv, MapNow

\* What is known inside remove_at.
LEMMA ShiftFacts ==
  ASSUME HashInv, pc = "shift"
  PROVE  /\ HashTyped /\ Chained /\ NoTwins /\ Counted /\ PassedOver /\ Erasing
         /\ hole \in Filled /\ hole \in Slots /\ next \in Slots /\ Elements = Filled \ {hole}
         /\ \A i \in Elements : i \in Slots /\ i # hole /\ keys[i] # EmptyKey /\ hash[keys[i]] \in Slots
<1>1. /\ HashTyped /\ Chained /\ NoTwins /\ Counted /\ PassedOver /\ Erasing
      /\ hole \in Filled /\ next \in Slots /\ Elements = Filled \ {hole}
  BY Zenon DEF HashInv, Elements
<1>2. hole \in Slots
  BY <1>1, Zenon DEF Filled
<1>3. \A i \in Elements : i \in Slots /\ i # hole /\ keys[i] # EmptyKey /\ hash[keys[i]] \in Slots
  BY <1>1, ElementTypes, Zenon
<1> QED
  BY <1>1, <1>2, <1>3, Zenon

\* An element that stays does not need the hole.
LEMMA StayStep ==
  ASSUME HashInv, Shift, ~ Moves(next)
  PROVE  HashInv' /\ MapNow' = MapNow
<1>1. /\ pc = "shift" /\ keys[next] # EmptyKey /\ next' = Advance(next) /\ hole' = hole
      /\ hash' = hash /\ keys' = keys /\ values' = values /\ size' = size
      /\ sentinel' = sentinel /\ pc' = pc /\ frozen' = frozen
  BY DEF Shift
<1>2. /\ HashTyped /\ Chained /\ NoTwins /\ Counted /\ PassedOver /\ Erasing
      /\ hole \in Filled /\ hole \in Slots /\ next \in Slots
      /\ \A i \in Elements : i \in Slots /\ i # hole /\ keys[i] # EmptyKey /\ hash[keys[i]] \in Slots
  BY <1>1, ShiftFacts, Zenon
<1>3. Filled' = Filled /\ Elements' = Elements
  BY <1>1, Zenon DEF Filled, Elements
<1>4. \A i, j : Span(i, j)' = Span(i, j)
  BY Zenon DEF Span
<1>5. HashTyped' /\ Chained' /\ NoTwins' /\ Counted'
  BY <1>1, <1>2, <1>3, <1>4, Zenon DEF HashTyped, Chained, NoTwins, Counted, Offset
<1>6. next' \in Slots /\ hole' \in Filled'
  BY <1>1, <1>2, <1>3, StepOn, Zenon
<1>7. Erasing'
  <2>1. \A k : Agrees(k, frozen[k]) => Agrees(k, frozen[k])'
    BY <1>1, <1>3, Zenon DEF Agrees
  <2>2. PICK d \in Keys : (\A i \in Elements : keys[i] # d) /\ \A k \in Keys \ {d} : Agrees(k, frozen[k])
    BY <1>2, Zenon DEF Erasing
  <2>3. (\A i \in Elements : keys[i] # d)' /\ \A k \in Keys \ {d} : Agrees(k, frozen[k])'
    BY <1>1, <1>3, <2>1, <2>2, Zenon
  <2>4. frozen'[Reserved] = sentinel'
    BY <1>1, <1>2, Zenon DEF Erasing
  <2> QED
    BY <2>3, <2>4, Zenon DEF Erasing
<1>8. PassedOver'
  <2> SUFFICES ASSUME NEW i \in Elements, Span(hole, i) < Span(hole, Advance(next))
               PROVE  Span(hash[keys[i]], i) < Span(hole, i)
    BY <1>1, <1>3, <1>4, Zenon DEF PassedOver, Offset
  <2>1. i \in Slots
    BY <1>2, Zenon
  <2>2. PICK a \in Nat, b \in Nat, c \in Nat :
          a = Span(hole, i) /\ b = Span(hole, Advance(next)) /\ c = Span(hole, next)
    BY <1>2, <2>1, StepOn, SpanIs, SlotNumbers, Zenon
  <2>3. a < b /\ (b = 0 \/ b = c + 1)
    BY <1>2, <2>2, StepOn, Zenon
  <2>4. ~ (c < a)
    BY <2>2, <2>3
  <2>5. CASE a < c
    BY <1>2, <2>2, <2>5, Zenon DEF PassedOver, Offset
  <2>6. CASE i = next
    <3>1. PICK x \in Nat : x = Span(hash[keys[i]], i)
      BY <1>2, <2>1, SpanIs, SlotNumbers, Zenon
    <3>2. ~ (x >= a)
      BY <2>2, <2>6, <3>1, Zenon DEF Moves, Span
    <3>3. x < a
      BY <2>2, <3>1, <3>2
    <3> QED
      BY <2>2, <3>1, <3>3, Zenon
  <2> QED
    BY <1>2, <2>1, <2>2, <2>4, <2>5, <2>6, SpansCompare, Zenon
<1>9. pc' = "shift" /\ pc # "idle" /\ pc' # "idle"
  BY <1>1
<1> QED
  BY <1>1, <1>5, <1>6, <1>7, <1>8, <1>9, Zenon DEF HashInv, MapNow

\* An element that needs the hole moves into it and leaves one behind.
LEMMA MoveStep ==
  ASSUME HashInv, Shift, Moves(next)
  PROVE  HashInv' /\ MapNow' = MapNow
<1>1. /\ pc = "shift" /\ keys[next] # EmptyKey /\ next' = Advance(next) /\ hole' = next
      /\ keys' = [keys EXCEPT ![hole] = keys[next]] /\ values' = [values EXCEPT ![hole] = values[next]]
      /\ hash' = hash /\ size' = size /\ sentinel' = sentinel /\ pc' = pc /\ frozen' = frozen
  BY DEF Shift
<1>2. /\ HashTyped /\ Chained /\ NoTwins /\ Counted /\ PassedOver /\ Erasing
      /\ hole \in Filled /\ hole \in Slots /\ next \in Slots /\ Elements = Filled \ {hole}
      /\ \A i \in Elements : i \in Slots /\ i # hole /\ keys[i] # EmptyKey /\ hash[keys[i]] \in Slots
  BY <1>1, ShiftFacts, Zenon
<1>3. /\ keys'[hole] = keys[next] /\ \A i \in Slots \ {hole} : keys'[i] = keys[i]
      /\ values'[hole] = values[next] /\ \A i \in Slots \ {hole} : values'[i] = values[i]
  BY <1>1, <1>2, Zenon DEF HashTyped
<1>4. next \in Filled /\ \A i \in Filled : i \in Slots
  BY <1>1, <1>2, Zenon DEF Filled
<1>5. Filled' = Filled
  <2>1. \A i \in Slots : keys'[i] # EmptyKey <=> keys[i] # EmptyKey
    BY <1>1, <1>2, <1>3, Zenon DEF Filled
  <2> QED
    BY <2>1, Zenon DEF Filled
<1>6. Elements' = Filled \ {next}
  BY <1>1, <1>5, Zenon DEF Elements
\* The slot an element of the new state comes from, and the other way.
<1> DEFINE From(i) == IF i = hole THEN next ELSE i
<1>7. \A i \in Elements' : From(i) \in Elements /\ keys'[i] = keys[From(i)] /\ values'[i] = values[From(i)]
  BY <1>2, <1>3, <1>4, <1>6, Zenon
<1>8. \A j \in Elements : \E i \in Elements' : From(i) = j
  BY <1>2, <1>4, <1>6, Zenon
<1>9. \A i, j \in Elements' : From(i) = From(j) => i = j
  BY <1>6, Zenon
<1>10. HashTyped'
  <2>1. keys' \in [Slots -> Keys \cup {EmptyKey}] /\ values' \in [Slots -> Values \cup {CHOOSE w \in Values : TRUE}]
    BY <1>1, <1>2, Zenon DEF HashTyped
  <2>2. \A i \in Filled' : values'[i] \in Values
    BY <1>2, <1>3, <1>4, <1>5, Zenon DEF HashTyped
  <2> QED
    BY <1>1, <1>2, <2>1, <2>2, Zenon DEF HashTyped
<1>11. \A i, j : Span(i, j)' = Span(i, j)
  BY Zenon DEF Span
<1>12. Chained'
  <2> SUFFICES ASSUME NEW i \in Elements', NEW s \in Slots, Span(hash[keys'[i]], s) < Span(hash[keys'[i]], i)
               PROVE  keys'[s] # EmptyKey
    BY <1>1, <1>11, Zenon DEF Chained, Offset
  <2> DEFINE h == hash[keys'[i]]
  <2>1. From(i) \in Elements /\ h = hash[keys[From(i)]] /\ h \in Slots
    BY <1>2, <1>7, Zenon
  <2>2. Span(h, s) < Span(h, From(i))
    <3>1. CASE i = hole
      <4>1. From(i) = next /\ Span(h, next) >= Span(hole, next)
        BY <2>1, <3>1, Zenon DEF Moves, Span
      <4> HIDE DEF h
      <4>2. PICK a \in Nat, b \in Nat, c \in Nat :
              a = Span(h, s) /\ b = Span(h, hole) /\ c = Span(h, next)
        BY <1>2, <2>1, SpanIs, SlotNumbers, Zenon
      <4>3. b <= c
        BY <1>2, <2>1, <4>1, <4>2, ShorterWalk, Zenon
      <4>4. a < b
        BY <3>1, <4>2, Zenon DEF h
      <4>5. a < c
        BY <4>3, <4>4
      <4> QED
        BY <4>1, <4>2, <4>5, Zenon
    <3>2. CASE i # hole
      BY <3>2, Zenon
    <3> QED
      BY <3>1, <3>2, Zenon
  <2>3. keys[s] # EmptyKey
    BY <1>2, <2>1, <2>2, Zenon DEF Chained, Offset
  <2> QED
    BY <1>1, <1>3, <2>3, Zenon
<1> HIDE DEF From
<1>13. NoTwins'
  <2> SUFFICES ASSUME NEW i \in Elements', NEW j \in Elements', keys'[i] = keys'[j]
               PROVE  i = j
    BY Zenon DEF NoTwins
  <2>1. /\ From(i) \in Elements /\ keys'[i] = keys[From(i)]
        /\ From(j) \in Elements /\ keys'[j] = keys[From(j)]
    BY <1>7, Zenon
  <2>2. From(i) = From(j)
    BY <1>2, <2>1, Zenon DEF NoTwins
  <2> QED
    BY <1>9, <2>2, Zenon
<1>14. Counted'
  BY <1>1, <1>2, <1>5, Zenon DEF Counted
<1>15. next' \in Slots /\ hole' \in Filled'
  BY <1>1, <1>2, <1>4, <1>5, StepOn, Zenon
<1>16. PassedOver'
  BY <1>1, <1>2, <1>4, <1>6, <1>11, NoneBetween, Zenon DEF PassedOver
<1>17. \A k, w : Agrees(k, w) => Agrees(k, w)'
  <2> SUFFICES ASSUME NEW k, NEW w, Agrees(k, w) PROVE Agrees(k, w)'
    BY Zenon
  <2>1. CASE \E j \in Elements : keys[j] = k /\ values[j] = w
    <3>1. PICK j \in Elements : keys[j] = k /\ values[j] = w
      BY <2>1, Zenon
    <3>2. PICK i \in Elements' : From(i) = j
      BY <1>8, <3>1, Zenon
    <3>3. keys'[i] = keys[j] /\ values'[i] = values[j]
      BY <1>7, <3>2, Zenon
    <3> QED
      BY <3>1, <3>2, <3>3, Zenon DEF Agrees
  <2>2. CASE w = NoValue /\ \A j \in Elements : keys[j] # k
    BY <1>7, <2>2, Zenon DEF Agrees
  <2> QED
    BY <2>1, <2>2, Zenon DEF Agrees
<1>18. Erasing'
  <2>1. PICK d \in Keys : (\A i \in Elements : keys[i] # d) /\ \A k \in Keys \ {d} : Agrees(k, frozen[k])
    BY <1>2, Zenon DEF Erasing
  <2>2. \A i \in Elements' : keys'[i] # d
    BY <1>7, <2>1, Zenon
  <2>3. ASSUME NEW k \in Keys \ {d} PROVE Agrees(k, frozen[k])'
    <3>1. PICK w : w = frozen[k]
      BY Zenon
    <3>2. Agrees(k, w)'
      BY <1>17, <2>1, <3>1, Zenon
    <3> QED
      BY <1>1, <3>1, <3>2, Zenon
  <2> QED
    BY <1>1, <1>2, <2>2, <2>3, Zenon DEF Erasing
<1>19. pc' = "shift" /\ pc # "idle" /\ pc' # "idle"
  BY <1>1
<1> QED
  BY <1>1, <1>10, <1>12, <1>13, <1>14, <1>15, <1>16, <1>18, <1>19, Zenon DEF HashInv, MapNow

\* The gap ends the erase: no search still runs over the hole, so it becomes a
\* gap, and one key is gone from the map.
LEMMA DoneStep ==
  ASSUME HashInv, ShiftDone
  PROVE  HashInv' /\ \E d \in Keys : Map!Remove(d)
<1>1. /\ pc = "shift" /\ keys[next] = EmptyKey /\ keys' = [keys EXCEPT ![hole] = EmptyKey]
      /\ size' = size - 1 /\ pc' = "idle" /\ frozen' = [k \in AllKeys |-> NoValue]
      /\ hash' = hash /\ values' = values /\ sentinel' = sentinel
  BY DEF ShiftDone, Return
<1>2. /\ HashTyped /\ Chained /\ NoTwins /\ Counted /\ PassedOver /\ Erasing
      /\ hole \in Filled /\ hole \in Slots /\ next \in Slots /\ Elements = Filled \ {hole}
      /\ \A i \in Elements : i \in Slots /\ i # hole /\ keys[i] # EmptyKey /\ hash[keys[i]] \in Slots
  BY <1>1, ShiftFacts, Zenon
<1>3. keys'[hole] = EmptyKey /\ \A i \in Slots \ {hole} : keys'[i] = keys[i]
  BY <1>1, <1>2, Zenon DEF HashTyped
<1>4. Filled' = Filled \ {hole}
  <2>1. \A i \in Slots : keys'[i] # EmptyKey <=> keys[i] # EmptyKey /\ i # hole
    BY <1>3, Zenon
  <2> QED
    BY <2>1, Zenon DEF Filled
<1>5. pc' # "shift" /\ pc # "idle"
  BY <1>1
<1>6. Elements' = Elements /\ \A i \in Elements : keys'[i] = keys[i]
  <2>1. Elements' = Filled' \ {}
    BY <1>5, Zenon DEF Elements
  <2>2. Elements' = Elements
    BY <1>2, <1>4, <2>1, Zenon
  <2> QED
    BY <1>2, <1>3, <2>2, Zenon
<1>7. HashTyped'
  <2>1. keys' \in [Slots -> Keys \cup {EmptyKey}] /\ frozen' \in [AllKeys -> Values \cup {NoValue}]
    BY <1>1, <1>2, Zenon DEF HashTyped
  <2>2. \A i \in Filled' : values'[i] \in Values
    BY <1>1, <1>2, <1>4, Zenon DEF HashTyped
  <2> QED
    BY <1>1, <1>2, <2>1, <2>2, Zenon DEF HashTyped
<1>8. \A i, j : Span(i, j)' = Span(i, j)
  BY Zenon DEF Span
<1>9. Chained'
  <2> SUFFICES ASSUME NEW i \in Elements, NEW s \in Slots, Span(hash[keys[i]], s) < Span(hash[keys[i]], i)
               PROVE  keys'[s] # EmptyKey
    BY <1>1, <1>6, <1>8, Zenon DEF Chained, Offset
  <2>1. PICK h \in Slots : h = hash[keys[i]]
    BY <1>2, Zenon
  <2>2. i \in Slots /\ keys[i] # EmptyKey /\ keys[s] # EmptyKey
    BY <1>2, Zenon DEF Chained, Offset
  <2>3. s # hole
    <3> SUFFICES ASSUME s = hole PROVE FALSE
      BY Zenon
    <3>1. PICK hi \in Nat, ho \in Nat, oi \in Nat, on \in Nat :
            hi = Span(h, i) /\ ho = Span(h, hole) /\ oi = Span(hole, i) /\ on = Span(hole, next)
      BY <1>2, <2>1, <2>2, SpanIs, SlotNumbers, Zenon
    <3>2. oi = hi - ho /\ (on < oi => Span(h, next) < Span(h, i))
      <4>1. Span(h, s) < Span(h, i)
        BY <2>1
      <4>2. Span(h, hole) < Span(h, i)
        BY ONLY <4>1, s = hole, Zenon
      <4>3. h \in Slots /\ i \in Slots /\ hole \in Slots /\ next \in Slots
        BY <1>2, <2>2, Zenon
      <4>4. /\ Span(hole, i) = Span(h, i) - Span(h, hole)
            /\ Span(hole, next) < Span(hole, i) => Span(h, next) < Span(h, i)
        BY ONLY <4>2, <4>3, SplitWalk, Zenon
      <4> QED
        BY <3>1, <4>4, Zenon
    <3>3. ~ (hi < oi)
      BY <3>1, <3>2
    <3>4. ~ (oi < on)
      BY <1>2, <2>1, <3>1, <3>3, Zenon DEF PassedOver, Offset
    <3>5. on < oi
      BY <1>1, <1>2, <2>2, <3>1, <3>4, SpansCompare, Zenon
    <3> QED
      BY <1>1, <1>2, <2>1, <3>2, <3>5, Zenon DEF Chained, Offset
  <2> QED
    BY <1>3, <2>2, <2>3, Zenon
<1>10. NoTwins'
  <2>1. \A i, j \in Elements : keys[i] = keys[j] => i = j
    BY <1>2, Zenon DEF NoTwins
  <2>2. \A i, j \in Elements : keys'[i] = keys'[j] => i = j
    BY <1>6, <2>1, Zenon
  <2> QED
    BY <1>6, <2>2, Zenon DEF NoTwins
<1>11. Counted'
  BY <1>1, <1>2, <1>4, FilledCount, Zenon DEF Counted
<1>12. HashInv'
  BY <1>5, <1>7, <1>9, <1>10, <1>11, Zenon DEF HashInv
<1>13. PICK d \in Keys : (\A i \in Elements : keys[i] # d) /\ \A k \in Keys \ {d} : Agrees(k, frozen[k])
  BY <1>2, Zenon DEF Erasing
<1>14. PICK f \in [AllKeys -> Values \cup {NoValue}] : f = [frozen EXCEPT ![d] = NoValue]
  BY <1>2, Zenon DEF HashTyped
<1>15. f[Reserved] = sentinel' /\ f[d] = NoValue /\ \A k \in Keys \ {d} : f[k] = frozen[k]
  BY <1>1, <1>2, <1>13, <1>14, HashAssumption, Zenon DEF HashTyped, Erasing, AllKeys
<1>16. \A k, w : Agrees(k, w) => Agrees(k, w)'
  BY <1>1, <1>6, Zenon DEF Agrees
<1>17. ASSUME NEW k \in Keys PROVE Agrees(k, f[k])
  <2>1. CASE k = d
    BY <1>13, <1>15, <2>1, Zenon DEF Agrees
  <2>2. CASE k # d
    BY <1>13, <1>15, <2>2, Zenon
  <2> QED
    BY <2>1, <2>2, Zenon
<1>18. \A k \in Keys : Agrees(k, f[k])'
  BY <1>16, <1>17, Zenon
<1>19. MapNow' = f
  BY <1>1, <1>12, <1>15, <1>18, MapAfter, Zenon
<1>20. MapNow = frozen
  BY <1>5, Zenon DEF MapNow
<1>21. Map!Remove(d)
  BY <1>14, <1>19, <1>20, Zenon DEF Map!Remove, MapNow
<1> QED
  BY <1>12, <1>13, <1>21, Zenon

\* A step of the table keeps the invariant and is a step of the map or leaves it.
LEMMA HashStep ==
  ASSUME HashInv, [Next]_vars
  PROVE  HashInv' /\ (Map!MapNext \/ MapNow' = MapNow)
<1>1. ASSUME NEW v \in Values, InsertReserved(v)
      PROVE  HashInv' /\ Map!Put(Reserved, v)
  <2>1. HashInv' /\ MapNow' = [MapNow EXCEPT ![Reserved] = v]
    BY <1>1, ReservedStep, Zenon
  <2> QED
    BY <2>1, Zenon DEF Map!Put, MapNow
<1>2. CASE \E v \in Values : InsertReserved(v)
  BY <1>1, <1>2, Zenon DEF Map!MapNext
<1>3. CASE \E k \in Keys, v \in Values : Insert(k, v)
  BY <1>3, InsertStep, Zenon DEF Map!MapNext
<1>4. CASE EraseReserved
  <2>1. InsertReserved(NoValue)
    BY <1>4, Zenon DEF InsertReserved, EraseReserved
  <2>2. HashInv' /\ MapNow' = [MapNow EXCEPT ![Reserved] = NoValue]
    BY <2>1, ReservedStep, Zenon
  <2>3. Map!Remove(Reserved)
    BY <2>2, Zenon DEF Map!Remove, MapNow
  <2> QED
    BY <2>2, <2>3, Zenon DEF Map!MapNext
<1>5. CASE \E k \in Keys : Erase(k)
  BY <1>5, EraseStep, Zenon
<1>6. CASE Shift
  BY <1>6, StayStep, MoveStep, Zenon
<1>7. CASE ShiftDone
  BY <1>7, DoneStep, Zenon DEF Map!MapNext
<1>8. CASE ClearAll
  BY <1>8, ClearStep, Zenon DEF Map!MapNext
<1>9. CASE UNCHANGED vars
  <2>1. /\ hash' = hash /\ keys' = keys /\ values' = values /\ size' = size /\ sentinel' = sentinel
        /\ pc' = pc /\ hole' = hole /\ next' = next /\ frozen' = frozen
    BY <1>9, Zenon DEF vars
  <2>2. HashInv'
    <3>1. Filled' = Filled /\ Elements' = Elements
      BY <2>1, Zenon DEF Filled, Elements
    <3>2. HashTyped' /\ Chained' /\ NoTwins' /\ Counted'
      BY <2>1, <3>1, Zenon DEF HashInv, HashTyped, Chained, NoTwins, Counted, Offset, Span
    <3>3. PassedOver' = PassedOver
      BY <2>1, <3>1, Zenon DEF PassedOver, Offset, Span
    <3>4. Erasing => Erasing'
      <4>1. \A k : Agrees(k, frozen[k]) => Agrees(k, frozen[k])'
        BY <2>1, <3>1, Zenon DEF Agrees
      <4> QED
        BY <2>1, <3>1, <4>1, Zenon DEF Erasing
    <3> QED
      BY <2>1, <3>1, <3>2, <3>3, <3>4, Zenon DEF HashInv
  <2>3. MapNow' = MapNow
    BY <2>1 DEF MapNow, Lookups, Lookup, EndProbes, ProbeSlot
  <2> QED
    BY <2>2, <2>3, Zenon
<1> QED
  BY <1>2, <1>3, <1>4, <1>5, <1>6, <1>7, <1>8, <1>9, Zenon DEF Next

\* HashInv holds throughout.
LEMMA HashInvariant ==
  Spec => []HashInv
<1>1. HashInv /\ [Next]_vars => HashInv'
  BY HashStep, Zenon
<1> QED
  BY <1>1, HashInvInit, PTL DEF Spec

\* Between calls size_ counts the occupied slots and no key occupies two, for
\* every capacity, key set and hash function (SizeExact).
THEOREM HashSizeExact ==
  Spec => []SizeExact
<1>1. HashInv => SizeExact
  <2> SUFFICES ASSUME HashInv, pc = "idle"
               PROVE  /\ size = Cardinality(Filled)
                      /\ \A i, j \in Slots : keys[i] = keys[j] /\ keys[i] # EmptyKey => i = j
    BY Zenon DEF SizeExact, Filled
  <2>1. pc # "shift"
    OBVIOUS
  <2>2. Elements = Filled
    BY <2>1, Zenon DEF Elements
  <2>3. \A i, j \in Slots : keys[i] = keys[j] /\ keys[i] # EmptyKey => i = j
    BY <2>2, Zenon DEF HashInv, NoTwins, Filled
  <2> QED
    BY <2>3, Zenon DEF HashInv, Counted
<1> QED
  BY <1>1, HashInvariant, PTL

\* FlatHashU32 implements the bounded map (RefinesBoundedMap): whatever the
\* hash function makes collide, find() answers from the last insert, erase or
\* clear of its key, and an erase is seen by no lookup before it is complete.
THEOREM HashImplementsMap ==
  Spec => RefinesBoundedMap
<1>1. HashInv /\ [Next]_vars => [Map!MapNext]_(IF pc = "idle" THEN Lookups ELSE frozen)
  BY HashStep, Zenon DEF MapNow
<1>2. Init => Map!MapInit
  BY HashInvInit, Zenon
<1> QED
  BY <1>1, <1>2, HashInvariant, PTL DEF Spec, RefinesBoundedMap, Map!MapSpec
=============================================================================
