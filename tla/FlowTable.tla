----------------------------- MODULE FlowTable ------------------------------
(***************************************************************************)
(* The flow table of the metering engine (update_flow and find_flow in     *)
(* include/gtpm/meter.hpp): linear probing within a window, no deletion,   *)
(* and eviction of the least recently seen entry of a full window.  The    *)
(* slot a key hashes to is any function, chosen at the start.              *)
(***************************************************************************)
EXTENDS Integers, FiniteSets, FiniteSetsExt

CONSTANTS
  FlowKeys,     \* 5-tuple keys of parsed inner packets
  NoKey,        \* flow_key of an event whose payload was not IP
  Substitute,   \* the key 1 that stands for 0
  Free,         \* key of an empty slot
  FlowCapacity, Window,    \* flows_.size(), flow_probe_window
  Sizes,                   \* sizes of metered packets
  MaxEvents, MaxTime       \* bounds: packets, capture timestamps

ASSUME FlowAssumption ==
  /\ FlowCapacity \in Nat \ {0}
  /\ Window \in 1 .. FlowCapacity
  /\ Free \notin FlowKeys \cup {Substitute}
  /\ Sizes \subseteq Nat
  /\ MaxTime \in Nat

VARIABLES
  home,        \* the slot each key hashes to
  flows,       \* flows_: key, bytes, packets, seen
  stats,       \* flow_inserts, flow_evictions, flows_active
  traffic,     \* history: bytes of each key since it last entered the table
  events       \* history: how many events were applied

flowVars == <<home, flows, stats, traffic, events>>

TableKeys == FlowKeys \cup {Substitute}
FlowSlots == 0 .. FlowCapacity - 1
EmptyEntry == [key |-> Free, bytes |-> 0, packets |-> 0, seen |-> 0]

FlowInit ==
  /\ home \in [TableKeys -> FlowSlots]
  /\ flows = [i \in FlowSlots |-> EmptyEntry]
  /\ stats = [inserts |-> 0, evictions |-> 0, active |-> 0]
  /\ traffic = [k \in TableKeys |-> 0]
  /\ events = 0

\* ev.flow_key ? ev.flow_key : 1
TableKey(key) == IF key = NoKey THEN Substitute ELSE key

SlotAt(k, p) == (home[k] + p) % FlowCapacity
Probes == 0 .. Window - 1

\* The first probe that finds the key or an empty slot ends the search.
\* Mutant: the search gives up one slot early.
FlowEndsShort(k) == {p \in 0 .. Window - 2 : flows[SlotAt(k, p)].key \in {k, Free}}
FlowEnds(k) == {p \in Probes : flows[SlotAt(k, p)].key \in {k, Free}}

\* The first of the window's least recently seen entries (strict <).
\* Mutant: the most recently seen one.
VictimNewest(k) ==
  SlotAt(k, Min({p \in Probes : \A q \in Probes : flows[SlotAt(k, p)].seen >= flows[SlotAt(k, q)].seen}))
Victim(k) ==
  SlotAt(k, Min({p \in Probes : \A q \in Probes : flows[SlotAt(k, p)].seen <= flows[SlotAt(k, q)].seen}))

\* init_flow().  Mutant: the evicted entry's bytes stay.
InitFlowKeepsBytes(i, k, bytes, ts) ==
  flows' = [flows EXCEPT ![i] = [key |-> k, bytes |-> @.bytes + bytes, packets |-> 1, seen |-> ts]]
InitFlow(i, k, bytes, ts) ==
  flows' = [flows EXCEPT ![i] = [key |-> k, bytes |-> bytes, packets |-> 1, seen |-> ts]]

Observe ==
  /\ events < MaxEvents
  /\ events' = events + 1
  /\ UNCHANGED home

\* The three outcomes of update_flow(): the flow is known, ...
HitFlow(k, bytes, ts) ==
  /\ FlowEnds(k) # {}
  /\ LET i == SlotAt(k, Min(FlowEnds(k))) IN
     /\ flows[i].key = k
     /\ flows' = [flows EXCEPT ![i].bytes = @ + bytes, ![i].packets = @ + 1, ![i].seen = ts]
  /\ traffic' = [traffic EXCEPT ![k] = @ + bytes]
  /\ UNCHANGED stats

\* ... an empty slot takes it, ...
InsertFlow(k, bytes, ts) ==
  /\ FlowEnds(k) # {}
  /\ LET i == SlotAt(k, Min(FlowEnds(k))) IN
     /\ flows[i].key = Free
     /\ InitFlow(i, k, bytes, ts)
  /\ traffic' = [traffic EXCEPT ![k] = bytes]
  /\ stats' = [stats EXCEPT !.inserts = @ + 1, !.active = @ + 1]

\* ... or the window is full and an entry gives way.
EvictFlow(k, bytes, ts) ==
  /\ FlowEnds(k) = {}
  /\ InitFlow(Victim(k), k, bytes, ts)
  /\ traffic' = [traffic EXCEPT ![k] = bytes]
  /\ stats' = [stats EXCEPT !.evictions = @ + 1]

UpdateFlow(key, bytes, ts) ==
  /\ Observe
  /\ \/ HitFlow(TableKey(key), bytes, ts)
     \/ InsertFlow(TableKey(key), bytes, ts)
     \/ EvictFlow(TableKey(key), bytes, ts)

\* Capture timestamps may step back: the wall clock of the capture is not
\* monotonic.
FlowNext == \E key \in FlowKeys \cup {NoKey}, bytes \in Sizes, ts \in 0 .. MaxTime :
          UpdateFlow(key, bytes, ts)

FlowSpec == FlowInit /\ [][FlowNext]_flowVars

-----------------------------------------------------------------------------
(* Properties *)

Occupied == {i \in FlowSlots : flows[i].key # Free}

\* find_flow(): the slot of a key, or none.
FindFlow(k) ==
  IF FlowEnds(k) # {} /\ flows[SlotAt(k, Min(FlowEnds(k)))].key = k
    THEN {SlotAt(k, Min(FlowEnds(k)))}
    ELSE {}

\* However evictions scatter keys that share a window, a flow has one entry
\* and find_flow() reaches it: its bytes are never split over two rows.
OneReachableEntry == \A i \in Occupied : FindFlow(flows[i].key) = {i}

\* A row holds exactly the traffic its flow had since it entered the table,
\* none of the flow it displaced, and flows_active is the number of rows.
RowsExact ==
  /\ \A i \in Occupied : flows[i].bytes = traffic[flows[i].key]
  /\ stats.active = Cardinality(Occupied)

\* An eviction never removes a flow while one seen earlier is in the same
\* window (docs/architecture.md:68 "LRU eviction within the window").
EvictsOldest ==
  [][\A i \in Occupied : flows'[i].key # flows[i].key =>
       \A p \in Probes : flows[SlotAt(flows'[i].key, p)].seen >= flows[i].seen]_flowVars
=============================================================================
