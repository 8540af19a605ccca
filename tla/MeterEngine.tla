----------------------------- MODULE MeterEngine -----------------------------
(***************************************************************************)
(* The metering engine of include/gtpm/meter.hpp: the session table and    *)
(* its TEID bindings, the per-subscriber counters, and the usage records   *)
(* that leave through a bounded sink.  One action per public operation;    *)
(* the loops of poll() and drain() take one step per subscriber visited,   *)
(* because each visit may push to the sink while the reporter drains it.   *)
(*                                                                         *)
(* Abstractions.  Time is an age that saturates at the threshold it is     *)
(* compared with.  The TEID table is a map that knows its capacity (module *)
(* FlatHash has the probing).  The flow table is left out: the             *)
(* configuration is track_flows = false.  A record sink is configured.     *)
(***************************************************************************)
EXTENDS Integers, Sequences, FiniteSets, FiniteSetsExt, Sums

CONSTANTS
  Imsis,            \* subscriber identities
  Teids,            \* tunnel identifiers other than 0
  RatingGroups,     \* rating groups a session may be installed with
  Events,           \* packets: [teid, bytes, control, hasQfi, qfi, dir]
  GyOctets,         \* used-octet amounts a Gy event may carry
  MaxSubscribers,   \* max_subscribers
  TeidCapacity,     \* teid_table_capacity
  SinkCapacity,     \* capacity of the record ring
  QfiTag,           \* kQfiBucketTag
  UnsetBucket,      \* kUnsetBucket
  EmptyKey,         \* kEmptyKey, the one TEID the TEID table keeps beside its slots
  LearnUnknown,     \* learn_unknown_teids
  ReportInterval,   \* report_interval_ns, in ticks; 0 disables
  VolumeThreshold,  \* volume_threshold_bytes; 0 disables
  SweepPeriod,      \* sweep_period_ns, in ticks
  SweepFraction,    \* sweep_fraction
  MaxEvents, MaxGyEvents, MaxControlOps   \* bounds on the environment

ASSUME EngineAssumption ==
  /\ Teids \subseteq Nat \ {0}
  /\ RatingGroups \subseteq Nat
  /\ MaxSubscribers \in Nat
  /\ TeidCapacity \in Nat
  /\ SinkCapacity \in Nat
  /\ LearnUnknown \in BOOLEAN
  /\ {QfiTag, UnsetBucket, ReportInterval, VolumeThreshold, SweepPeriod, SweepFraction} \subseteq Nat
  /\ GyOctets \subseteq Nat
  /\ \A e \in Events : /\ e.teid \in Teids \cup {0}
                       /\ e.bytes \in Nat
                       /\ e.control \in BOOLEAN /\ (e.control => e.bytes = 0)
                       /\ e.hasQfi \in BOOLEAN /\ e.qfi \in Nat
                       /\ e.dir \in {"ul", "dl", "unknown"}

VARIABLES
  imsiIndex, nextSub,                   \* imsi_index_, next_sub_
  active, ulTeid, dlTeid, ratingGroup,  \* SubscriberInfo: identity and tunnels
  bucketIds, aggregated,                \* SubscriberInfo: accounting slots
  counters, emitted,                    \* SubscriberCounters; emitted_* of SubscriberInfo
  recordSeq, age, gy,                   \* record_seq; now - interval_start; gy_*
  teidMap,                              \* teid_map_
  stats, sink,                          \* stats_; the record ring
  pc, loop, sweepCursor, sinceSweep,    \* progress of poll() and drain(); sweep timer
  hung,                                 \* the engine entered an endless loop
  metered, reported, lost,              \* history: usage charged, put in the sink, dropped
  charged, emissions,                   \* history: what each slot was charged for; records per subscriber
  controlOps                            \* control-plane calls so far (bound)

sessionVars == <<imsiIndex, nextSub, active, ulTeid, dlTeid, ratingGroup, teidMap>>
accountVars == <<bucketIds, aggregated, counters, metered, charged, gy>>
reportVars == <<emitted, recordSeq, age, sink, reported, lost, emissions>>
loopVars == <<pc, loop, sweepCursor, sinceSweep>>
vars == <<sessionVars, accountVars, reportVars, loopVars, stats, hung, controlOps>>

NoSub == -1
NoTeid == 0
Subs == 0 .. MaxSubscribers - 1
BucketSlots == 0 .. 2
AggregateSlot == 2

Unbound == [sub |-> NoSub, dir |-> "unknown", slot |-> 0]
Bindings == [sub : Subs, dir : {"ul", "dl", "unknown"}, slot : BucketSlots]

NoUsage == [ulBytes |-> 0, dlBytes |-> 0, ulPackets |-> 0, dlPackets |-> 0,
            bucketBytes |-> [i \in BucketSlots |-> 0]]
Usages == [ulBytes : Nat, dlBytes : Nat, ulPackets : Nat, dlPackets : Nat,
           bucketBytes : [BucketSlots -> Nat]]

UsageSum(u, v) ==
  [ulBytes |-> u.ulBytes + v.ulBytes, dlBytes |-> u.dlBytes + v.dlBytes,
   ulPackets |-> u.ulPackets + v.ulPackets, dlPackets |-> u.dlPackets + v.dlPackets,
   bucketBytes |-> [i \in BucketSlots |-> u.bucketBytes[i] + v.bucketBytes[i]]]

UsageDiff(u, v) ==
  [ulBytes |-> u.ulBytes - v.ulBytes, dlBytes |-> u.dlBytes - v.dlBytes,
   ulPackets |-> u.ulPackets - v.ulPackets, dlPackets |-> u.dlPackets - v.dlPackets,
   bucketBytes |-> [i \in BucketSlots |-> u.bucketBytes[i] - v.bucketBytes[i]]]

TotalBytes(u) == u.ulBytes + u.dlBytes

UnsetIds == [i \in BucketSlots |-> UnsetBucket]
NoCharges == [i \in BucketSlots |-> {}]
NoGy == [octets |-> 0, reports |-> 0]

NoStats ==
  [events |-> 0, bytes |-> 0, ulBytes |-> 0, dlBytes |-> 0, ulPackets |-> 0, dlPackets |-> 0,
   controlPdus |-> 0, unknownEvents |-> 0, unknownBytes |-> 0,
   recordsEmitted |-> 0, recordsDropped |-> 0, gyEvents |-> 0, gyOctets |-> 0,
   installed |-> 0, learned |-> 0, released |-> 0, bindFailures |-> 0]

Init ==
  /\ imsiIndex = [i \in Imsis |-> NoSub]
  /\ nextSub = 0
  /\ active = {}
  /\ ulTeid = [s \in Subs |-> NoTeid]
  /\ dlTeid = [s \in Subs |-> NoTeid]
  /\ ratingGroup = [s \in Subs |-> 0]
  /\ bucketIds = [s \in Subs |-> UnsetIds]
  /\ aggregated = {}
  /\ counters = [s \in Subs |-> NoUsage]
  /\ emitted = [s \in Subs |-> NoUsage]
  /\ recordSeq = [s \in Subs |-> 0]
  /\ age = [s \in Subs |-> 0]
  /\ gy = [s \in Subs |-> NoGy]
  /\ teidMap = [t \in Teids \cup {0} |-> Unbound]
  /\ stats = NoStats
  /\ sink = << >>
  /\ pc = "idle" /\ loop = 0 /\ sweepCursor = 0 /\ sinceSweep = 0
  /\ hung = FALSE
  /\ metered = [s \in Subs |-> NoUsage]
  /\ reported = [s \in Subs |-> NoUsage]
  /\ lost = [s \in Subs |-> NoUsage]
  /\ charged = [s \in Subs |-> NoCharges]
  /\ emissions = [s \in Subs |-> 0]
  /\ controlOps = 0

\* The engine is between two calls.
Ready == pc = "idle" /\ ~hung

-----------------------------------------------------------------------------
(* Accounting slots *)

\* assign_slot: the slot that holds id, else a free named slot, else the
\* aggregate slot; mixed says that the aggregate now holds several ids.
AssignSlot(ids, id) ==
  LET holding == {i \in BucketSlots : ids[i] = id}
      free == {i \in 0 .. AggregateSlot - 1 : ids[i] = UnsetBucket}
      claim == IF free # {} THEN Min(free) ELSE AggregateSlot
  IN  CASE holding # {} -> [slot |-> Min(holding), ids |-> ids, mixed |-> FALSE]
        [] holding = {} /\ ids[claim] = UnsetBucket ->
             [slot |-> claim, ids |-> [ids EXCEPT ![claim] = id], mixed |-> FALSE]
        [] OTHER -> [slot |-> AggregateSlot, ids |-> ids, mixed |-> TRUE]

\* Mutant: the flag is never raised.
MarkNothing(s, mixed) == {}
MarkMixed(s, mixed) == IF mixed THEN {s} ELSE {}

-----------------------------------------------------------------------------
(* The TEID table *)

BoundTeids(map) == {t \in DOMAIN map : map[t] # Unbound}

\* The table is full for teid; the side slot of the empty key never is.
TableFull(map, teid) ==
  teid # EmptyKey /\ Cardinality(BoundTeids(map) \ {EmptyKey}) >= TeidCapacity

\* FlatHashU32::insert refuses when the table is full, even for a key it holds.
Bind(map, teid, binding) ==
  IF TableFull(map, teid) THEN map ELSE [map EXCEPT ![teid] = binding]

\* FlatHashU32::remove_at looks for an empty slot to stop at; a full table has
\* none, so erasing a key that is present never returns.
EraseHangs(map, teid) == TableFull(map, teid) /\ map[teid] # Unbound

-----------------------------------------------------------------------------
(* Control plane *)

SessionSpecs ==
  {spec \in [imsi : Imsis, ul : Teids \cup {NoTeid}, dl : Teids \cup {NoTeid}, rg : RatingGroups] :
     spec.ul # NoTeid \/ spec.dl # NoTeid}

\* A session of an active subscriber is modified, any other starts afresh.
\* Mutant: every session starts afresh.
NeverReinstall(s) == FALSE
IsReinstall(s) == s \in active

\* The tunnels of s that spec moves away from.
MovedTeids(s, spec) ==
  IF IsReinstall(s)
    THEN ({ulTeid[s]} \ {NoTeid, spec.ul}) \cup ({dlTeid[s]} \ {NoTeid, spec.dl})
    ELSE {}

\* The table after erasing moved tunnels.  Mutant: the erase is forgotten.
UnbindNothing(map, moved) == map
Unbind(map, moved) == [t \in DOMAIN map |-> IF t \in moved THEN Unbound ELSE map[t]]

\* The index an IMSI has, or the one a new IMSI would get.
IndexFor(imsi) == IF imsiIndex[imsi] # NoSub THEN imsiIndex[imsi] ELSE nextSub

InstallSession(spec) ==
  LET s == IndexFor(spec.imsi)
      isNew == imsiIndex[spec.imsi] = NoSub
      reinstall == IsReinstall(s)
      moved == MovedTeids(s, spec)
      slot == AssignSlot(IF reinstall THEN bucketIds[s] ELSE UnsetIds, spec.rg)
      binding(dir) == [sub |-> s, dir |-> dir, slot |-> slot.slot]
      map1 == Unbind(teidMap, moved)
      map2 == IF spec.ul = NoTeid THEN map1 ELSE Bind(map1, spec.ul, binding("ul"))
      map3 == IF spec.dl = NoTeid THEN map2 ELSE Bind(map2, spec.dl, binding("dl"))
      failures == (IF spec.ul # NoTeid /\ TableFull(map1, spec.ul) THEN 1 ELSE 0)
                  + (IF spec.dl # NoTeid /\ TableFull(map2, spec.dl) THEN 1 ELSE 0)
  IN
  /\ Ready
  /\ s < MaxSubscribers
  /\ ~ \E t \in moved : EraseHangs(teidMap, t)
  /\ imsiIndex' = [imsiIndex EXCEPT ![spec.imsi] = s]
  /\ nextSub' = IF isNew THEN nextSub + 1 ELSE nextSub
  /\ active' = active \cup {s}
  /\ ulTeid' = [ulTeid EXCEPT ![s] = spec.ul]
  /\ dlTeid' = [dlTeid EXCEPT ![s] = spec.dl]
  /\ ratingGroup' = [ratingGroup EXCEPT ![s] = spec.rg]
  /\ teidMap' = map3
  /\ bucketIds' = [bucketIds EXCEPT ![s] = slot.ids]
  /\ aggregated' = (IF reinstall THEN aggregated ELSE aggregated \ {s}) \cup MarkMixed(s, slot.mixed)
  /\ stats' = [stats EXCEPT !.installed = @ + (IF isNew THEN 1 ELSE 0),
                            !.bindFailures = @ + failures]
  /\ IF reinstall
       THEN UNCHANGED <<counters, emitted, recordSeq, age, gy, charged>>
       ELSE /\ counters' = [counters EXCEPT ![s] = NoUsage]
            /\ emitted' = [emitted EXCEPT ![s] = NoUsage]
            /\ recordSeq' = [recordSeq EXCEPT ![s] = 0]
            /\ age' = [age EXCEPT ![s] = 0]
            /\ gy' = [gy EXCEPT ![s] = NoGy]
            /\ charged' = [charged EXCEPT ![s] = NoCharges]
  /\ UNCHANGED <<sink, metered, reported, lost, emissions, loopVars, hung>>

\* install_session unbinding a moved tunnel of a full table: the session has
\* its new rating group, the call never returns.
InstallHangs(spec) ==
  LET s == IndexFor(spec.imsi) IN
  /\ Ready
  /\ \E t \in MovedTeids(s, spec) : EraseHangs(teidMap, t)
  /\ ratingGroup' = [ratingGroup EXCEPT ![s] = spec.rg]
  /\ hung' = TRUE
  /\ UNCHANGED <<imsiIndex, nextSub, active, ulTeid, dlTeid, teidMap,
                 accountVars, reportVars, loopVars, stats>>

-----------------------------------------------------------------------------
(* Usage records *)

Pending(s) == UsageDiff(counters[s], emitted[s])

UsageRecord(s, reason) ==
  [sub |-> s, used |-> Pending(s), seq |-> recordSeq[s], reason |-> reason,
   ids |-> bucketIds[s], aggregated |-> s \in aggregated]

\* The sink takes a record, and the statistics say so.
\* Mutants: one record too many; a refused record counted as emitted.
SinkAcceptsOneMore == Len(sink) <= SinkCapacity
SinkAccepts == Len(sink) < SinkCapacity
CountAllEmitted(accepted, st) == [st EXCEPT !.recordsEmitted = @ + 1]
CountRecord(accepted, st) ==
  IF accepted THEN [st EXCEPT !.recordsEmitted = @ + 1]
              ELSE [st EXCEPT !.recordsDropped = @ + 1]

\* What emit_record remembers as emitted.  Mutant: it forgets the buckets.
SettledWithoutBuckets(s) == [counters[s] EXCEPT !.bucketBytes = emitted[s].bucketBytes]
Settled(s) == counters[s]

\* emit_record: the delta leaves the books before the push is attempted, so a
\* refused push loses it.  st holds the statistics the caller already changed.
EmitRecord(s, reason, st) ==
  /\ emitted' = [emitted EXCEPT ![s] = Settled(s)]
  /\ recordSeq' = [recordSeq EXCEPT ![s] = @ + 1]
  /\ age' = [age EXCEPT ![s] = 0]
  /\ emissions' = [emissions EXCEPT ![s] = @ + 1]
  /\ stats' = CountRecord(SinkAccepts, st)
  /\ IF SinkAccepts
       THEN /\ sink' = Append(sink, UsageRecord(s, reason))
            /\ reported' = [reported EXCEPT ![s] = UsageSum(@, Pending(s))]
            /\ UNCHANGED lost
       ELSE /\ lost' = [lost EXCEPT ![s] = UsageSum(@, Pending(s))]
            /\ UNCHANGED <<sink, reported>>

\* The tunnels release_session erases.  Mutant: the downlink one stays.
OwnUplinkTeid(s) == {ulTeid[s]} \ {NoTeid}
OwnTeids(s) == {ulTeid[s], dlTeid[s]} \ {NoTeid}

ReleaseSession(imsi) ==
  LET s == imsiIndex[imsi] IN
  /\ Ready
  /\ s \in active
  /\ ~ \E t \in OwnTeids(s) : EraseHangs(teidMap, t)
  /\ EmitRecord(s, "release", [stats EXCEPT !.released = @ + 1])
  /\ teidMap' = Unbind(teidMap, OwnTeids(s))
  /\ active' = active \ {s}
  /\ UNCHANGED <<imsiIndex, nextSub, ulTeid, dlTeid, ratingGroup, accountVars, loopVars, hung>>

\* release_session on a full table: the record is out, the call never returns.
ReleaseHangs(imsi) ==
  LET s == imsiIndex[imsi] IN
  /\ Ready
  /\ s \in active
  /\ \E t \in OwnTeids(s) : EraseHangs(teidMap, t)
  /\ EmitRecord(s, "release", stats)
  /\ hung' = TRUE
  /\ UNCHANGED <<sessionVars, accountVars, loopVars>>

-----------------------------------------------------------------------------
(* Data plane *)

\* The statistics every packet touches, and those of a packet nobody pays for.
Counted(ev) == [stats EXCEPT !.events = @ + 1, !.bytes = @ + ev.bytes]

\* Mutant: the bytes of an unknown tunnel are forgotten.
CountedUnknownEvent(ev, st) == [st EXCEPT !.unknownEvents = @ + 1]
CountedUnknown(ev, st) == [st EXCEPT !.unknownEvents = @ + 1, !.unknownBytes = @ + ev.bytes]

\* Charge ev to subscriber s through binding b; ids, used and slots are the
\* subscriber's slot ids, counters and slot history before the packet.
Charge(s, b, ev, ids, used, slots, rg, st) ==
  LET dir == IF b.dir = "unknown" THEN ev.dir ELSE b.dir
      source == IF ev.hasQfi THEN <<"qfi", ev.qfi>> ELSE <<"rg", rg>>
      resolved == IF ev.hasQfi THEN AssignSlot(ids, QfiTag + ev.qfi)
                               ELSE [slot |-> b.slot, ids |-> ids, mixed |-> FALSE]
      dl == IF dir = "dl" THEN 1 ELSE 0
      packet == [ulBytes |-> (1 - dl) * ev.bytes, dlBytes |-> dl * ev.bytes,
                 ulPackets |-> 1 - dl, dlPackets |-> dl,
                 bucketBytes |-> [i \in BucketSlots |-> IF i = resolved.slot THEN ev.bytes ELSE 0]]
  IN
  /\ counters' = [counters EXCEPT ![s] = UsageSum(used, packet)]
  /\ metered' = [metered EXCEPT ![s] = UsageSum(@, packet)]
  /\ bucketIds' = [bucketIds EXCEPT ![s] = resolved.ids]
  /\ aggregated' = aggregated \cup MarkMixed(s, resolved.mixed)
  /\ charged' = [charged EXCEPT ![s] = [slots EXCEPT ![resolved.slot] = @ \cup {source}]]
  /\ stats' = [st EXCEPT !.ulBytes = @ + packet.ulBytes, !.dlBytes = @ + packet.dlBytes,
                         !.ulPackets = @ + packet.ulPackets, !.dlPackets = @ + packet.dlPackets]

\* Echo and End Marker: counted, never charged.
ApplyControl(ev) ==
  /\ ev.control
  /\ stats' = [Counted(ev) EXCEPT !.controlPdus = @ + 1]
  /\ UNCHANGED <<sessionVars, accountVars, age>>

ApplyBound(ev) ==
  LET b == teidMap[ev.teid] IN
  /\ ~ev.control
  /\ b # Unbound
  /\ Charge(b.sub, b, ev, bucketIds[b.sub], counters[b.sub], charged[b.sub],
            ratingGroup[b.sub], Counted(ev))
  /\ UNCHANGED <<sessionVars, gy, age>>

ApplyUnknown(ev) ==
  /\ ~ev.control
  /\ teidMap[ev.teid] = Unbound
  /\ ~LearnUnknown \/ nextSub >= MaxSubscribers
  /\ stats' = CountedUnknown(ev, Counted(ev))
  /\ UNCHANGED <<sessionVars, accountVars, age>>

\* learn_teid: the subscriber is created before its TEID is bound, so a full
\* table leaves a subscriber nothing can ever be charged to.  The interval
\* begins at the packet's time, which may lie back, or be by another clock.
ApplyLearned(ev) ==
  LET s == nextSub
      slot == AssignSlot(UnsetIds, 0)
      b == [sub |-> s, dir |-> ev.dir, slot |-> slot.slot]
      st == [Counted(ev) EXCEPT !.learned = @ + 1]
  IN
  /\ ~ev.control
  /\ teidMap[ev.teid] = Unbound
  /\ LearnUnknown
  /\ s < MaxSubscribers
  /\ nextSub' = nextSub + 1
  /\ active' = active \cup {s}
  /\ ulTeid' = [ulTeid EXCEPT ![s] = IF ev.dir = "dl" THEN NoTeid ELSE ev.teid]
  /\ dlTeid' = [dlTeid EXCEPT ![s] = IF ev.dir = "dl" THEN ev.teid ELSE NoTeid]
  /\ ratingGroup' = [ratingGroup EXCEPT ![s] = 0]
  /\ teidMap' = Bind(teidMap, ev.teid, b)
  /\ \E a \in 0 .. ReportInterval : age' = [age EXCEPT ![s] = a]
  /\ IF TableFull(teidMap, ev.teid)
       THEN /\ bucketIds' = [bucketIds EXCEPT ![s] = slot.ids]
            /\ stats' = CountedUnknown(ev, [st EXCEPT !.bindFailures = @ + 1])
            /\ UNCHANGED <<counters, metered, aggregated, charged>>
       ELSE Charge(s, b, ev, slot.ids, NoUsage, NoCharges, 0, st)
  /\ UNCHANGED <<imsiIndex, gy>>

Apply(ev) ==
  /\ Ready
  /\ \/ ApplyControl(ev)
     \/ ApplyBound(ev)
     \/ ApplyUnknown(ev)
     \/ ApplyLearned(ev)
  /\ UNCHANGED <<emitted, recordSeq, sink, reported, lost, emissions, loopVars, hung>>

\* A Gy event without IMSI or used units is only counted, like one whose IMSI
\* has no subscriber; a subscriber that was released still takes the report.
ApplyGy(imsi, usable, octets) ==
  /\ Ready
  /\ IF usable /\ imsiIndex[imsi] # NoSub
       THEN /\ gy' = [gy EXCEPT ![imsiIndex[imsi]] =
                        [octets |-> @.octets + octets, reports |-> @.reports + 1]]
            /\ stats' = [stats EXCEPT !.gyEvents = @ + 1, !.gyOctets = @ + octets]
       ELSE /\ stats' = [stats EXCEPT !.gyEvents = @ + 1]
            /\ UNCHANGED gy
  /\ UNCHANGED <<sessionVars, bucketIds, aggregated, counters, metered, charged,
                 reportVars, loopVars, hung>>

-----------------------------------------------------------------------------
(* Reporting *)

LargerOf(m, n) == IF m >= n THEN m ELSE n

\* poll() past its period gate: sweep a slice of the subscribers.
PollBegin ==
  /\ Ready
  /\ sinceSweep >= SweepPeriod
  /\ sinceSweep' = 0
  /\ IF nextSub = 0
       THEN UNCHANGED <<pc, loop>>
       ELSE /\ pc' = "poll"
            /\ loop' = LargerOf(1, nextSub \div LargerOf(1, SweepFraction))
  /\ UNCHANGED <<sessionVars, accountVars, reportVars, sweepCursor, stats, hung>>

\* The reason poll() has to emit a record for s, if any.
PollReason(s) ==
  LET pending == TotalBytes(Pending(s)) IN
  IF s \notin active \/ pending = 0 THEN "none"
  ELSE IF VolumeThreshold # 0 /\ pending >= VolumeThreshold THEN "volume"
  ELSE IF ReportInterval # 0 /\ age[s] >= ReportInterval THEN "interval"
  ELSE "none"

\* The subscriber the sweep visits next.  Mutant: each sweep starts over.
SweepFromStart == 0
SweepNext == IF sweepCursor >= nextSub THEN 0 ELSE sweepCursor

\* One iteration of the loop in poll().
PollVisit ==
  LET s == SweepNext IN
  /\ pc = "poll"
  /\ sweepCursor' = s + 1
  /\ loop' = loop - 1
  /\ pc' = IF loop = 1 THEN "idle" ELSE "poll"
  /\ IF PollReason(s) = "none"
       THEN UNCHANGED <<reportVars, stats>>
       ELSE EmitRecord(s, PollReason(s), stats)
  /\ UNCHANGED <<sessionVars, accountVars, sinceSweep, hung>>

DrainBegin ==
  /\ Ready
  /\ nextSub > 0
  /\ pc' = "drain"
  /\ loop' = 0
  /\ UNCHANGED <<sessionVars, accountVars, reportVars, sweepCursor, sinceSweep, stats, hung>>

\* drain() skips a subscriber whose bytes are all reported.
NeedsDrain(s) == s \in active /\ TotalBytes(Pending(s)) # 0

\* One iteration of the loop in drain().
DrainVisit ==
  /\ pc = "drain"
  /\ loop' = IF loop + 1 = nextSub THEN 0 ELSE loop + 1
  /\ pc' = IF loop + 1 = nextSub THEN "idle" ELSE "drain"
  /\ IF NeedsDrain(loop)
       THEN EmitRecord(loop, "shutdown", stats)
       ELSE UNCHANGED <<reportVars, stats>>
  /\ UNCHANGED <<sessionVars, accountVars, sweepCursor, sinceSweep, hung>>

\* The reporter thread takes a record out of the sink.
ReporterTakes ==
  /\ sink # << >>
  /\ sink' = Tail(sink)
  /\ UNCHANGED <<sessionVars, accountVars, emitted, recordSeq, age, reported, lost, emissions,
                 loopVars, stats, hung>>

\* Time passes.
Tick ==
  /\ age' = [s \in Subs |-> IF age[s] < ReportInterval THEN age[s] + 1 ELSE age[s]]
  /\ sinceSweep' = IF sinceSweep < SweepPeriod THEN sinceSweep + 1 ELSE sinceSweep
  /\ UNCHANGED <<sessionVars, accountVars, emitted, recordSeq, sink, reported, lost, emissions,
                 pc, loop, sweepCursor, stats, hung>>

-----------------------------------------------------------------------------
ControlOp(A) ==
  /\ controlOps < MaxControlOps
  /\ controlOps' = controlOps + 1
  /\ A

Control ==
  \/ \E spec \in SessionSpecs : ControlOp(InstallSession(spec))
  \/ \E spec \in SessionSpecs : ControlOp(InstallHangs(spec))
  \/ \E imsi \in Imsis : ControlOp(ReleaseSession(imsi))
  \/ \E imsi \in Imsis : ControlOp(ReleaseHangs(imsi))
  \/ ControlOp(DrainBegin)

Data ==
  \/ stats.events < MaxEvents /\ \E ev \in Events : Apply(ev)
  \/ /\ stats.gyEvents < MaxGyEvents
     /\ \E imsi \in Imsis, usable \in BOOLEAN, octets \in GyOctets : ApplyGy(imsi, usable, octets)

Reporting == PollBegin \/ PollVisit \/ DrainVisit \/ ReporterTakes \/ Tick

Next ==
  \/ Control
  \/ Data /\ UNCHANGED controlOps
  \/ Reporting /\ UNCHANGED controlOps

Spec == Init /\ [][Next]_vars

\* The metering loop polls for as long as it runs, finishes the sweeps it
\* starts, and time passes.
FairSpec ==
  /\ Spec
  /\ WF_vars(PollBegin /\ UNCHANGED controlOps)
  /\ WF_vars(PollVisit /\ UNCHANGED controlOps)
  /\ WF_vars(DrainVisit /\ UNCHANGED controlOps)
  /\ WF_vars(Tick /\ UNCHANGED controlOps)

-----------------------------------------------------------------------------
(* Properties *)

Stats ==
  [events : Nat, bytes : Nat, ulBytes : Nat, dlBytes : Nat, ulPackets : Nat, dlPackets : Nat,
   controlPdus : Nat, unknownEvents : Nat, unknownBytes : Nat,
   recordsEmitted : Nat, recordsDropped : Nat, gyEvents : Nat, gyOctets : Nat,
   installed : Nat, learned : Nat, released : Nat, bindFailures : Nat]

\* Every piece of engine state has the shape meter.hpp gives it; next_sub_
\* never passes the table size and the sink never holds more than it may.
TypeOK ==
  /\ imsiIndex \in [Imsis -> Subs \cup {NoSub}]
  /\ nextSub \in 0 .. MaxSubscribers
  /\ active \subseteq 0 .. nextSub - 1
  /\ ulTeid \in [Subs -> Teids \cup {NoTeid}]
  /\ dlTeid \in [Subs -> Teids \cup {NoTeid}]
  /\ ratingGroup \in [Subs -> RatingGroups \cup {0}]
  /\ bucketIds \in [Subs -> [BucketSlots -> Int]]
  /\ aggregated \subseteq Subs
  /\ counters \in [Subs -> Usages]
  /\ emitted \in [Subs -> Usages]
  /\ recordSeq \in [Subs -> Nat]
  /\ age \in [Subs -> 0 .. ReportInterval]
  /\ gy \in [Subs -> [octets : Nat, reports : Nat]]
  /\ teidMap \in [Teids \cup {0} -> Bindings \cup {Unbound}]
  /\ stats \in Stats
  /\ Len(sink) <= SinkCapacity
  /\ pc \in {"idle", "poll", "drain"}
  /\ loop \in 0 .. MaxSubscribers
  /\ sweepCursor \in 0 .. nextSub
  /\ sinceSweep \in 0 .. SweepPeriod
  /\ hung \in BOOLEAN

\* A tunnel is bound only to an active subscriber that lists it on the side
\* the binding meters: neither a released session nor a tunnel a session
\* modification moved away from is metered (install_session, release_session).
BindingSound ==
  \A t \in DOMAIN teidMap : teidMap[t] # Unbound =>
    LET b == teidMap[t] IN
    /\ b.sub \in active
    /\ t = IF b.dir = "dl" THEN dlTeid[b.sub] ELSE ulTeid[b.sub]

\* Nothing metered goes missing between the counters and the records: what
\* a subscriber was charged over all its sessions is what its records carry,
\* what records refused by the sink carried, and what an active session has
\* not reported yet (apply, emit_record, install_session).
UsageConserved ==
  \A s \in Subs :
    metered[s] = UsageSum(UsageSum(reported[s], lost[s]),
                          IF s \in active THEN Pending(s) ELSE NoUsage)

\* Usage is only ever lost with a dropped record in the statistics.
DropsCounted == (\E s \in Subs : lost[s] # NoUsage) => stats.recordsDropped > 0

\* The sum of f over all subscribers.
SumOver(f) == SumTo([i \in 1 .. MaxSubscribers |-> f[i - 1]], MaxSubscribers)

\* The pipeline statistics agree with the subscribers: each packet is control,
\* unknown or one subscriber's, and its bytes are counted on exactly one side.
StatsAgree ==
  /\ stats.bytes = stats.ulBytes + stats.dlBytes + stats.unknownBytes
  /\ stats.events = stats.ulPackets + stats.dlPackets + stats.unknownEvents + stats.controlPdus
  /\ stats.ulBytes = SumOver([s \in Subs |-> metered[s].ulBytes])
  /\ stats.dlBytes = SumOver([s \in Subs |-> metered[s].dlBytes])
  /\ stats.recordsEmitted + stats.recordsDropped = SumOver([s \in Subs |-> emissions[s]])
  /\ stats.gyOctets >= SumOver([s \in Subs |-> gy[s].octets])

\* The buckets of every usage record in the sink add up to the bytes of its
\* two directions.
RecordsBalanced ==
  \A i \in DOMAIN sink :
    LET used == sink[i].used IN
    used.bucketBytes[0] + used.bucketBytes[1] + used.bucketBytes[2] = TotalBytes(used)

\* The bucket id usage from this source is accounted under.
BucketId(source) == IF source[1] = "qfi" THEN QfiTag + source[2] ELSE source[2]

\* A bucket holds usage of the id it is named for and of no other, unless it is
\* the aggregate slot and the record is flagged (assign_slot, and the comments on
\* kBucketSlots and kQfiBucketTag).  The session table may hold any 32-bit
\* rating group: one that equals a tagged QFI shares that QFI's bucket, being the
\* same id, and one that equals the mark of an unset bucket has no bucket of its own.
BucketsPure ==
  \A s \in Subs, i \in BucketSlots :
    \/ i = AggregateSlot /\ s \in aggregated
    \/ \A c \in charged[s][i] : BucketId(c) \in {bucketIds[s][i], UnsetBucket}

\* As long as every tunnel could be bound, buckets are pure.
BucketsPureIfBound == stats.bindFailures = 0 => BucketsPure

\* A packet is charged only to a subscriber with an active session: none is
\* billed to a subscriber who has gone (apply after release_session).
OnlyActiveCharged ==
  [][\A s \in Subs : metered'[s] # metered[s] => s \in active']_vars

\* Usage of an active session is eventually put into a record (poll).
UsageEventuallyReported ==
  \A s \in Subs : (s \in active /\ TotalBytes(Pending(s)) > 0) ~> (TotalBytes(Pending(s)) = 0)

=============================================================================
