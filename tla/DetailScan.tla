----------------------------- MODULE DetailScan -----------------------------
(***************************************************************************)
(* Publication by the metering thread (src/meter_thread.cpp): counters on  *)
(* every tick and, while somebody asks for them, tables of the busiest     *)
(* subscribers and flows, built a slice per tick while traffic goes on     *)
(* changing what they describe.                                            *)
(*                                                                         *)
(* A subscriber's usage is its bytes, or Unused if it has no packet yet or *)
(* is not active.  The buffers the tables are handed over in are those of  *)
(* SnapshotPublisher: the HTTP thread pins at most one, and begin_write()  *)
(* finds a free one (NeverRefused).                                        *)
(***************************************************************************)
EXTENDS Integers, FiniteSets, Sequences

CONSTANTS
  MaxSubs, FlowSlots, Keys,    \* subscribers there is room for; the flow table; flows
  EventBytes,                  \* bytes an event may carry
  ScanBudget,                  \* snapshot_scan_budget
  SubLimit, FlowLimit,         \* snapshot_subscriber_limit, snapshot_flow_limit
  DemandTtl, ClockWidth        \* detail_demand_ttl_ns in ticks; 2^64

ASSUME ScanAssumption ==
  /\ {MaxSubs, FlowSlots, ScanBudget, FlowLimit} \subseteq Nat \ {0}
  /\ EventBytes \subseteq Nat
  /\ SubLimit \in Nat /\ DemandTtl \in Nat /\ ClockWidth > DemandTtl + 1

VARIABLES
  subs, flows, todo,           \* counters_ up to next_sub_; flows_; events to come
  stats,                       \* stats_: the events still to come when it was stored
  age,                         \* ticks begun since detail_request_ns_ was stored
  meter,                       \* "loop", in a "tick", in the "last" one, or "ended"
  building, subCursor, flowCursor,     \* detail_building_ and its cursors
  detail,                      \* the published DetailSnapshot
  pass, origin                 \* history: parity of the passes completed; the tables
                               \* when the pass began and the slots not reused since

scanVars == <<building, subCursor, flowCursor, detail, pass, origin>>
meterVars == <<subs, flows, todo, stats, age, meter, scanVars>>

Unused == -1
Usage == Nat \cup {Unused}
NoTable == [subs |-> {}, top |-> {}, open |-> FALSE]
NoDetail == [published |-> FALSE, subs |-> << >>, top |-> << >>, total |-> 0]
NoFlow == [key |-> "none", bytes |-> 0]
Never == -1
ZeroStats == -1                 \* before the first store every counter is zero
TableSlots == 1 .. FlowSlots

NoOrigin == [subs |-> << >>, flows |-> [s \in TableSlots |-> NoFlow], kept |-> {}]

\* Traffic is [subs, flows, events]: the tables at the start, and a bound on the
\* events to come.
ScanInit(traffic) ==
  /\ subs = traffic.subs /\ flows = traffic.flows /\ todo = traffic.events
  /\ stats = ZeroStats /\ age = Never /\ meter = "loop"
  /\ building = NoTable /\ subCursor = 0 /\ flowCursor = 0
  /\ detail = NoDetail /\ pass = 0
  /\ origin = NoOrigin

\* An event of n bytes charges a subscriber, maybe a learned one; its flow goes
\* on, or takes a free or an evicted slot.
Charged(n) ==
  /\ \/ \E i \in DOMAIN subs : subs' = [subs EXCEPT ![i] = IF @ = Unused THEN n ELSE @ + n]
     \/ Len(subs) < MaxSubs /\ subs' = Append(subs, n)
  /\ \E s \in TableSlots, k \in Keys :
       /\ \A other \in TableSlots \ {s} : flows[other].key # k
       /\ flows' = [flows EXCEPT ![s] = [key |-> k, bytes |-> IF @.key = k THEN @.bytes + n ELSE n]]
       /\ origin' = [origin EXCEPT !.kept = IF flows[s].key = k THEN @ ELSE @ \ {s}]

\* A control PDU, or a tunnel nobody has.  A learned subscriber whose tunnel
\* could not be bound stays, without a packet.
Uncharged ==
  /\ subs' = subs \/ (Len(subs) < MaxSubs /\ subs' = Append(subs, Unused))
  /\ UNCHANGED <<flows, origin>>

\* The engine applies an event between two ticks.
Apply ==
  /\ meter = "loop" /\ todo > 0
  /\ Uncharged \/ \E n \in EventBytes : Charged(n)
  /\ todo' = todo - 1
  /\ UNCHANGED <<stats, age, meter, building, subCursor, flowCursor, detail, pass>>

-----------------------------------------------------------------------------
(* advance_detail_scan() *)

SmallerOf(a, b) == IF a < b THEN a ELSE b

SubRows(from, n) ==
  {[sub |-> i, bytes |-> subs[i]] : i \in {j \in from + 1 .. from + n : subs[j] # Unused}}

\* A flow displaces the smallest of a full table if it is larger.  The heap
\* decides which of several smallest ones goes, so there may be several tables
\* after a slice of the scan.
\* Mutant: a full table keeps what it has.
DisplacesNothing(top, f) == FALSE
Displaces(top, f) == \E r \in top : f.bytes > r.bytes

SmallestOf(top) == {r \in top : \A other \in top : r.bytes <= other.bytes}
TopInsert(top, slot) ==
  LET f == [slot |-> slot, key |-> flows[slot].key, bytes |-> flows[slot].bytes] IN
  IF f.key = "none" THEN {top}
  ELSE IF Cardinality(top) < FlowLimit THEN {top \cup {f}}
  ELSE IF Displaces(top, f) THEN {(top \ {r}) \cup {f} : r \in SmallestOf(top)}
  ELSE {top}
TopScan(top, from, n) ==
  LET tops[i \in 0 .. n] ==
        IF i = 0 THEN {top} ELSE UNION {TopInsert(t, from + i) : t \in tops[i - 1]}
  IN  tops

\* A slice: subscribers first, with what is left of the budget flows.
Begun == IF building.open THEN building ELSE [NoTable EXCEPT !.open = TRUE]
Sliced(b, subFrom, flowFrom, ns, nf) ==
  {[b EXCEPT !.subs = @ \cup SubRows(subFrom, ns), !.top = t] : t \in TopScan(b.top, flowFrom, nf)[nf]}

\* std::sort, and std::partial_sort for the first n: rows that are equally large
\* come in any order.
Sorted(rows, n) ==
  {q \in [1 .. n -> rows] :
     /\ \A i, j \in 1 .. n : i < j => q[i] # q[j] /\ q[i].bytes >= q[j].bytes
     /\ \A r \in rows : (\E i \in 1 .. n : q[i] = r) \/ (\A i \in 1 .. n : q[i].bytes >= r.bytes)}

\* Only a table of subscribers that is too long is sorted, and cut; otherwise the
\* rows stay in the order of the scan.
Scanned(rows) ==
  {q \in [1 .. Cardinality(rows) -> rows] : \A i, j \in DOMAIN q : i < j => q[i].sub < q[j].sub}
Busiest(rows) == IF Cardinality(rows) > SubLimit THEN Sorted(rows, SubLimit) ELSE Scanned(rows)

\* A pass goes on where the last tick left it.
\* Mutant: every tick starts at the beginning.
RestartFrom(cursor) == 0
ResumeFrom(cursor) == IF building.open THEN cursor ELSE 0

PassOrigin == IF building.open THEN origin ELSE [subs |-> subs, flows |-> flows, kept |-> TableSlots]

AdvanceDetailScan ==
  LET subFrom == ResumeFrom(subCursor)
      flowFrom == ResumeFrom(flowCursor)
      ns == SmallerOf(ScanBudget, Len(subs) - subFrom)
      nf == SmallerOf(ScanBudget - ns, FlowSlots - flowFrom)
      complete == subFrom + ns = Len(subs) /\ flowFrom + nf = FlowSlots
  IN /\ subCursor' = subFrom + ns
     /\ flowCursor' = flowFrom + nf
     /\ origin' = IF complete THEN NoOrigin ELSE PassOrigin
     /\ pass' = IF complete THEN 1 - pass ELSE pass
     /\ \E sliced \in Sliced(Begun, subFrom, flowFrom, ns, nf) :
          IF complete
            THEN /\ building' = NoTable
                 /\ \E rows \in Busiest(sliced.subs), top \in Sorted(sliced.top, Cardinality(sliced.top)) :
                      detail' = [published |-> TRUE, subs |-> rows, top |-> top, total |-> Len(subs)]
            ELSE building' = sliced /\ detail' = detail

-----------------------------------------------------------------------------
(* publish_locked() *)

\* The time is read and the counters are stored; then the demand is looked at.
\* A request may be stamped in between, later than the time that was read.
\* Ticks go on until a round of the loop that is to stop finds nothing in the
\* rings; then the last one is published.
TickBegin(stopping) ==
  /\ meter = "loop"
  /\ meter' = "tick" \/ (stopping /\ todo = 0 /\ meter' = "last")
  /\ stats' = todo
  /\ age' = IF age = Never THEN Never ELSE SmallerOf(age + 1, DemandTtl + 2)
  /\ UNCHANGED <<subs, flows, todo, scanVars>>

\* now - requested <= ttl, in unsigned arithmetic.
Demanded == age # Never /\ (age - 1) % ClockWidth <= DemandTtl

TickScan ==
  /\ meter \in {"tick", "last"}
  /\ IF Demanded THEN AdvanceDetailScan ELSE UNCHANGED scanVars
  /\ meter' = IF meter = "last" THEN "ended" ELSE "loop"
  /\ UNCHANGED <<subs, flows, todo, stats, age>>

\* Runtime::request_detail(), by the HTTP thread.
RequestDetail == age' = 0
=============================================================================
