-------------------------- MODULE MeterEngineProofs --------------------------
(***************************************************************************)
(* BindingSound for every number of subscribers, tunnels and packets, and  *)
(* from it that only active sessions are ever charged; the types; and that *)
(* buckets are pure.                                                       *)
(*                                                                         *)
(* BindingSound alone is not inductive: release_session does not erase     *)
(* TEID 0, so a binding of TEID 0 would survive the release of its         *)
(* subscriber.  Only a learned subscriber can hold TEID 0, and a learned   *)
(* subscriber has no IMSI to release it by: that is ZeroUnindexed, which   *)
(* needs that indexed and active subscribers lie below next_sub_.          *)
(*                                                                         *)
(* The types include that the buckets of a session add up to its bytes.    *)
(* Purity needs that a bound tunnel meters into the slot that has the name *)
(* of its subscriber's rating group, or into the flagged aggregate         *)
(* (SlotsNamed).                                                           *)
(*                                                                         *)
(* The books balance: no usage goes missing, a loss is counted, and the    *)
(* statistics are the sums over the subscribers.  Each action changes the  *)
(* account of one subscriber, and a sum over all subscribers then changes  *)
(* by the same amount.                                                     *)
(***************************************************************************)
EXTENDS MeterEngine, NumberFacts, TLAPS

\* The part of TypeOK the bindings depend on.
Shape ==
  /\ imsiIndex \in [Imsis -> (0 .. nextSub - 1) \cup {NoSub}]
  /\ nextSub \in 0 .. MaxSubscribers
  /\ active \subseteq 0 .. nextSub - 1
  /\ ulTeid \in [Subs -> Teids \cup {NoTeid}]
  /\ dlTeid \in [Subs -> Teids \cup {NoTeid}]
  /\ teidMap \in [Teids \cup {0} -> Bindings \cup {Unbound}]

\* TEID 0 is bound only to a subscriber no IMSI leads to.
ZeroUnindexed ==
  teidMap[0] # Unbound => \A i \in Imsis : imsiIndex[i] # teidMap[0].sub

BindingInv == Shape /\ BindingSound /\ ZeroUnindexed

\* The sizes, ids and amounts of the configuration are numbers.
LEMMA ConstantTypes ==
  /\ Teids \subseteq Nat \ {0} /\ RatingGroups \subseteq Nat /\ GyOctets \subseteq Nat
  /\ MaxSubscribers \in Nat /\ TeidCapacity \in Nat /\ SinkCapacity \in Nat
  /\ QfiTag \in Nat /\ UnsetBucket \in Nat
  /\ ReportInterval \in Nat /\ VolumeThreshold \in Nat /\ SweepPeriod \in Nat /\ SweepFraction \in Nat
  BY EngineAssumption, Zenon

\* The id of a QFI is a number.
LEMMA TaggedId == \A q \in Nat : QfiTag + q \in Int
  BY ConstantTypes

\* Only nothing and nothing add up to nothing.
LEMMA SumZero ==
  ASSUME NEW a \in Nat, NEW b \in Nat, a + b = 0
  PROVE  a = 0 /\ b = 0
  OBVIOUS

\* A binding is told from the absence of one by its subscriber.
LEMMA BoundSub ==
  ASSUME NEW b \in Bindings \cup {Unbound}, b # Unbound
  PROVE  b \in Bindings /\ b.sub \in Subs /\ b.sub # NoSub
  BY ConstantTypes DEF Bindings, Subs, NoSub, Unbound

\* A set of slots that is not empty has a least one.
LEMMA MinSlot ==
  ASSUME NEW S \in SUBSET (0 .. 2), S # {}
  PROVE  Min(S) \in S
<1>1. PICK x \in S : \A y \in S : x <= y
  <2>0. \A y \in S : y = 0 \/ y = 1 \/ y = 2
    OBVIOUS
  <2>1. CASE 0 \in S
    <3>1. 0 \in S /\ \A y \in S : 0 <= y
      BY <2>0, <2>1
    <3>. QED  BY <3>1
  <2>2. CASE 0 \notin S /\ 1 \in S
    <3>1. 1 \in S /\ \A y \in S : 1 <= y
      BY <2>0, <2>2
    <3>. QED  BY <3>1
  <2>3. CASE 0 \notin S /\ 1 \notin S
    <3>0. \A y \in S : y = 2
      BY <2>0, <2>3
    <3>1. PICK y \in S : TRUE
      BY Zenon
    <3>2. \A z \in S : y <= z
      BY <3>0, <3>1
    <3>. QED  BY <3>2
  <2>. QED  BY <2>1, <2>2, <2>3
<1>. QED  BY <1>1, Zenon DEF Min

\* The slot assign_slot picks is one of the three.
LEMMA AssignSlotRange ==
  ASSUME NEW ids, NEW id
  PROVE  AssignSlot(ids, id).slot \in BucketSlots
<1>. DEFINE holding == {i \in BucketSlots : ids[i] = id}
            free == {i \in 0 .. AggregateSlot - 1 : ids[i] = UnsetBucket}
            claim == IF free # {} THEN Min(free) ELSE AggregateSlot
<1>1. claim \in BucketSlots
  BY MinSlot DEF BucketSlots, AggregateSlot
<1>2. holding # {} => Min(holding) \in BucketSlots
  BY MinSlot DEF BucketSlots
<1>3. AggregateSlot \in BucketSlots
  BY DEF BucketSlots, AggregateSlot
<1>4. CASE holding # {}
  BY <1>2, <1>4, Zenon DEF AssignSlot
<1>5. CASE holding = {} /\ ids[claim] = UnsetBucket
  BY <1>1, <1>5, Zenon DEF AssignSlot
<1>6. CASE holding = {} /\ ids[claim] # UnsetBucket
  BY <1>3, <1>6, Zenon DEF AssignSlot
<1>. QED  BY <1>4, <1>5, <1>6

\* The empty tables of the constructor satisfy the invariant.
LEMMA BindingInvInit == Init => BindingInv
  BY ConstantTypes DEF Init, BindingInv, Shape, BindingSound, ZeroUnindexed, Subs, NoSub, NoTeid,
     Unbound, Bindings

\* Steps that leave the subscribers and their tunnels alone.
LEMMA TunnelsUnchanged ==
  ASSUME BindingInv, UNCHANGED <<imsiIndex, nextSub, active, ulTeid, dlTeid, teidMap>>
  PROVE  BindingInv'
  BY DEF BindingInv, Shape, BindingSound, ZeroUnindexed

\* Steps that leave the session table alone, among them all reporting.
LEMMA SessionUnchanged ==
  ASSUME BindingInv, UNCHANGED sessionVars
  PROVE  BindingInv'
  BY TunnelsUnchanged DEF sessionVars

\* What bind_teid leaves in the table.
LEMMA BindResult ==
  ASSUME NEW map \in [Teids \cup {0} -> Bindings \cup {Unbound}],
         NEW teid \in Teids \cup {0}, NEW b \in Bindings
  PROVE  /\ Bind(map, teid, b) \in [Teids \cup {0} -> Bindings \cup {Unbound}]
         /\ \A t \in Teids \cup {0} :
              Bind(map, teid, b)[t] = map[t] \/ (t = teid /\ Bind(map, teid, b)[t] = b)
  BY DEF Bind

\* release_session: the tunnels of the subscriber go with its session.
LEMMA ReleaseKeeps ==
  ASSUME BindingInv, NEW imsi \in Imsis, ReleaseSession(imsi)
  PROVE  BindingInv'
<1>. DEFINE s == imsiIndex[imsi]
<1>1. /\ s \in active
      /\ teidMap' = Unbind(teidMap, OwnTeids(s))
      /\ active' = active \ {s}
      /\ UNCHANGED <<imsiIndex, nextSub, ulTeid, dlTeid>>
  BY Zenon DEF ReleaseSession
<1>2. Shape'
  BY <1>1, Zenon DEF BindingInv, Shape, Unbind, OwnTeids
<1>3. \A t \in DOMAIN teidMap : teidMap'[t] # Unbound => teidMap'[t] = teidMap[t] /\ t \notin OwnTeids(s)
  BY <1>1 DEF Unbind
<1>4. ZeroUnindexed'
  BY <1>1, <1>3 DEF BindingInv, Shape, ZeroUnindexed
<1>5. BindingSound'
  <2>. SUFFICES ASSUME NEW t \in DOMAIN teidMap, teidMap'[t] # Unbound
                PROVE  /\ teidMap[t].sub \in active'
                       /\ t = IF teidMap[t].dir = "dl" THEN dlTeid[teidMap[t].sub]
                                                      ELSE ulTeid[teidMap[t].sub]
    BY <1>1, <1>3 DEF BindingSound, Unbind
  <2>1. /\ teidMap[t] # Unbound
        /\ t \notin OwnTeids(s)
    BY <1>3
  <2>2. /\ teidMap[t].sub \in active
        /\ t = IF teidMap[t].dir = "dl" THEN dlTeid[teidMap[t].sub] ELSE ulTeid[teidMap[t].sub]
    BY <2>1 DEF BindingInv, BindingSound
  <2>3. teidMap[t].sub # s
    <3>. SUFFICES ASSUME teidMap[t].sub = s PROVE FALSE
      OBVIOUS
    <3>1. t = NoTeid
      BY <2>1, <2>2 DEF OwnTeids
    <3>. QED  BY <2>1, <3>1 DEF BindingInv, ZeroUnindexed, NoTeid
  <2>. QED  BY <1>1, <2>2, <2>3
<1>. QED  BY <1>2, <1>4, <1>5 DEF BindingInv

\* learn_teid: the new subscriber is active and lists the tunnel it is bound to.
LEMMA LearnKeeps ==
  ASSUME BindingInv, NEW ev \in Events, ApplyLearned(ev)
  PROVE  BindingInv'
<1>. DEFINE s == nextSub
            b == [sub |-> s, dir |-> ev.dir, slot |-> AssignSlot(UnsetIds, 0).slot]
<1>0. /\ ev.teid \in Teids \cup {0}
      /\ ev.dir \in {"ul", "dl", "unknown"}
  BY EngineAssumption
<1>1. /\ s < MaxSubscribers
      /\ nextSub' = s + 1
      /\ active' = active \cup {s}
      /\ ulTeid' = [ulTeid EXCEPT ![s] = IF ev.dir = "dl" THEN NoTeid ELSE ev.teid]
      /\ dlTeid' = [dlTeid EXCEPT ![s] = IF ev.dir = "dl" THEN ev.teid ELSE NoTeid]
      /\ teidMap' = Bind(teidMap, ev.teid, b)
      /\ imsiIndex' = imsiIndex
  BY Zenon DEF ApplyLearned
<1>2. s \in Subs /\ s \notin active
  BY <1>1, ConstantTypes DEF BindingInv, Shape, Subs
<1>3. b \in Bindings /\ b.sub = s /\ b.dir = ev.dir
  BY <1>0, <1>2, AssignSlotRange DEF Bindings
<1>. HIDE DEF b
<1>4. /\ teidMap' \in [Teids \cup {0} -> Bindings \cup {Unbound}]
      /\ \A t \in Teids \cup {0} : teidMap'[t] = teidMap[t] \/ (t = ev.teid /\ teidMap'[t] = b)
  <2>1. teidMap \in [Teids \cup {0} -> Bindings \cup {Unbound}]
    BY DEF BindingInv, Shape
  <2>2. teidMap' = Bind(teidMap, ev.teid, b)
    BY <1>1, Zenon
  <2>3. teidMap' = teidMap \/ teidMap' = [teidMap EXCEPT ![ev.teid] = b]
    BY <2>2, Zenon DEF Bind
  <2>. QED  BY <1>0, <1>3, <2>1, <2>3
<1>5. Shape'
  BY <1>0, <1>1, <1>2, <1>4, ConstantTypes DEF BindingInv, Shape, Subs, NoSub, NoTeid
<1>6. ZeroUnindexed'
  <2>1. \A i \in Imsis : imsiIndex'[i] # s
    BY <1>1, ConstantTypes DEF BindingInv, Shape, NoSub
  <2>. QED  BY <1>1, <1>3, <1>4, <2>1 DEF BindingInv, ZeroUnindexed
<1>7. BindingSound'
  <2>. SUFFICES ASSUME NEW t \in Teids \cup {0}, teidMap'[t] # Unbound
                PROVE  /\ teidMap'[t].sub \in active'
                       /\ t = IF teidMap'[t].dir = "dl" THEN dlTeid'[teidMap'[t].sub]
                                                       ELSE ulTeid'[teidMap'[t].sub]
    BY <1>4 DEF BindingSound
  <2>1. CASE teidMap'[t] = teidMap[t]
    <3>1. /\ teidMap[t].sub \in active
          /\ t = IF teidMap[t].dir = "dl" THEN dlTeid[teidMap[t].sub] ELSE ulTeid[teidMap[t].sub]
      BY <2>1 DEF BindingInv, BindingSound, Shape
    <3>2. teidMap[t].sub \in Subs /\ teidMap[t].sub # s
      <4>1. teidMap[t].sub \in 0 .. nextSub - 1
        BY <3>1, Zenon DEF BindingInv, Shape
      <4>. QED  BY <1>2, <4>1, ConstantTypes DEF Subs
    <3>. QED  BY <1>1, <2>1, <3>1, <3>2 DEF BindingInv, Shape
  <2>2. CASE t = ev.teid /\ teidMap'[t] = b
    <3>1. s \in active' /\ (IF ev.dir = "dl" THEN dlTeid'[s] ELSE ulTeid'[s]) = ev.teid
      BY <1>1, <1>2 DEF BindingInv, Shape
    <3>. QED  BY <1>3, <2>2, <3>1
  <2>. QED  BY <1>4, <2>1, <2>2
<1>. QED  BY <1>5, <1>6, <1>7 DEF BindingInv

\* A longer range of subscriber indices holds a shorter one.
LEMMA IntervalGrows ==
  ASSUME NEW m \in Nat, NEW n \in Nat, m <= n
  PROVE  \A r \in 0 .. m - 1 : r \in 0 .. n - 1
  OBVIOUS

\* install_session: whatever it binds, fails to bind or leaves bound for the
\* subscriber is a tunnel the session lists.
LEMMA InstallKeeps ==
  ASSUME BindingInv, NEW spec \in SessionSpecs, InstallSession(spec)
  PROVE  BindingInv'
<1>. DEFINE s == IndexFor(spec.imsi)
            moved == MovedTeids(s, spec)
            slot == AssignSlot(IF IsReinstall(s) THEN bucketIds[s] ELSE UnsetIds, spec.rg).slot
            up == [sub |-> s, dir |-> "ul", slot |-> slot]
            down == [sub |-> s, dir |-> "dl", slot |-> slot]
            map1 == Unbind(teidMap, moved)
            map2 == IF spec.ul = NoTeid THEN map1 ELSE Bind(map1, spec.ul, up)
            map3 == IF spec.dl = NoTeid THEN map2 ELSE Bind(map2, spec.dl, down)
            Tables == [Teids \cup {0} -> Bindings \cup {Unbound}]
<1>0. /\ spec.imsi \in Imsis
      /\ spec.ul \in Teids \cup {0}
      /\ spec.dl \in Teids \cup {0}
  BY DEF SessionSpecs, NoTeid
<1>1. /\ s < MaxSubscribers
      /\ imsiIndex' = [imsiIndex EXCEPT ![spec.imsi] = s]
      /\ nextSub' = IF imsiIndex[spec.imsi] = NoSub THEN nextSub + 1 ELSE nextSub
      /\ active' = active \cup {s}
      /\ ulTeid' = [ulTeid EXCEPT ![s] = spec.ul]
      /\ dlTeid' = [dlTeid EXCEPT ![s] = spec.dl]
      /\ teidMap' = map3
  BY Zenon DEF InstallSession
<1>. HIDE DEF s, moved, slot, up, down, map1, map2, map3
<1>2. /\ s \in Subs
      /\ s \in 0 .. nextSub' - 1
      /\ nextSub' \in nextSub .. MaxSubscribers
  BY <1>0, <1>1, ConstantTypes DEF s, BindingInv, Shape, IndexFor, Subs, NoSub
<1>3. up \in Bindings /\ down \in Bindings
  BY <1>2, AssignSlotRange DEF up, down, slot, Bindings
<1>4. /\ map1 \in Tables
      /\ \A t \in Teids \cup {0} : map1[t] # Unbound => map1[t] = teidMap[t] /\ t \notin moved
  BY DEF map1, BindingInv, Shape, Unbind
<1>5. /\ map2 \in Tables
      /\ \A t \in Teids \cup {0} :
           map2[t] = map1[t] \/ (t = spec.ul /\ t # 0 /\ map2[t] = up)
  BY <1>0, <1>3, <1>4, BindResult DEF map2, NoTeid
<1>6. /\ map3 \in Tables
      /\ \A t \in Teids \cup {0} :
           map3[t] = map2[t] \/ (t = spec.dl /\ t # 0 /\ map3[t] = down)
  BY <1>0, <1>3, <1>5, BindResult DEF map3, NoTeid
<1>7. \A t \in Teids \cup {0} : teidMap'[t] # Unbound =>
        \/ teidMap'[t] = teidMap[t] /\ t \notin moved
        \/ t = spec.ul /\ t # 0 /\ teidMap'[t] = up
        \/ t = spec.dl /\ t # 0 /\ teidMap'[t] = down
  BY <1>1, <1>4, <1>5, <1>6
<1>8. Shape'
  <2>1. teidMap' \in Tables
    BY <1>1, <1>6
  <2>2. imsiIndex' \in [Imsis -> (0 .. nextSub' - 1) \cup {NoSub}]
    BY <1>0, <1>1, <1>2, ConstantTypes DEF BindingInv, Shape
  <2>3. active' \subseteq 0 .. nextSub' - 1
    <3>1. active \subseteq 0 .. nextSub - 1 /\ nextSub \in Nat
      BY ConstantTypes DEF BindingInv, Shape
    <3>2. nextSub' \in Nat /\ nextSub <= nextSub'
      BY <1>2, <3>1, ConstantTypes
    <3>3. \A r \in 0 .. nextSub - 1 : r \in 0 .. nextSub' - 1
      BY <3>1, <3>2, IntervalGrows, Zenon
    <3>. QED  BY <1>1, <1>2, <3>1, <3>3, Zenon
  <2>. QED  BY <1>0, <1>1, <1>2, <2>1, <2>2, <2>3, ConstantTypes DEF BindingInv, Shape, NoTeid
<1>9. \A t \in Teids \cup {0} : teidMap[t] # Unbound /\ teidMap[t].sub = s =>
        IsReinstall(s) /\ imsiIndex[spec.imsi] = s
  <2>. SUFFICES ASSUME NEW t \in Teids \cup {0}, teidMap[t] # Unbound, teidMap[t].sub = s
                PROVE  IsReinstall(s) /\ imsiIndex[spec.imsi] = s
    OBVIOUS
  <2>1. s \in active
    BY DEF BindingInv, BindingSound, Shape
  <2>2. s \in 0 .. nextSub - 1
    BY <2>1, Zenon DEF BindingInv, Shape
  <2>. QED  BY <2>1, <2>2 DEF s, IsReinstall, IndexFor, BindingInv, Shape
<1>10. ZeroUnindexed'
  <2>. SUFFICES ASSUME teidMap'[0] # Unbound, NEW i \in Imsis
                PROVE  imsiIndex'[i] # teidMap'[0].sub
    BY DEF ZeroUnindexed
  <2>1. teidMap'[0] = teidMap[0]
    BY <1>7
  <2>2. \A j \in Imsis : imsiIndex[j] # teidMap[0].sub
    BY <2>1 DEF BindingInv, ZeroUnindexed
  <2>3. teidMap[0].sub # s
    BY <1>0, <1>9, <2>1, <2>2
  <2>. QED  BY <1>0, <1>1, <2>1, <2>2, <2>3 DEF BindingInv, Shape
<1>11. BindingSound'
  <2>0. /\ up.sub = s /\ up.dir = "ul"
        /\ down.sub = s /\ down.dir = "dl"
        /\ s \in active'
        /\ ulTeid'[s] = spec.ul
        /\ dlTeid'[s] = spec.dl
        /\ \A r \in Subs : r # s => ulTeid'[r] = ulTeid[r] /\ dlTeid'[r] = dlTeid[r]
    BY <1>1, <1>2 DEF up, down, BindingInv, Shape
  <2>. SUFFICES ASSUME NEW t \in Teids \cup {0}, teidMap'[t] # Unbound
                PROVE  /\ teidMap'[t].sub \in active'
                       /\ t = IF teidMap'[t].dir = "dl" THEN dlTeid'[teidMap'[t].sub]
                                                       ELSE ulTeid'[teidMap'[t].sub]
    BY <1>8 DEF BindingSound, Shape
  <2>1. CASE t = spec.ul /\ t # 0 /\ teidMap'[t] = up
    BY <2>0, <2>1
  <2>2. CASE t = spec.dl /\ t # 0 /\ teidMap'[t] = down
    BY <2>0, <2>2
  <2>3. CASE teidMap'[t] = teidMap[t] /\ t \notin moved
    <3>1. /\ teidMap[t].sub \in active
          /\ t = IF teidMap[t].dir = "dl" THEN dlTeid[teidMap[t].sub] ELSE ulTeid[teidMap[t].sub]
      BY <2>3 DEF BindingInv, BindingSound, Shape
    <3>2. CASE teidMap[t].sub # s
      <4>1. teidMap[t].sub \in Subs
        BY <2>3, BoundSub DEF BindingInv, Shape
      <4>. QED  BY <1>1, <2>0, <2>3, <3>1, <3>2, <4>1, Zenon
    <3>3. CASE teidMap[t].sub = s
      <4>1. IsReinstall(s) /\ imsiIndex[spec.imsi] = s
        BY <1>9, <2>3, <3>3
      <4>2. t # 0
        BY <1>0, <2>3, <3>3, <4>1 DEF BindingInv, ZeroUnindexed
      <4>3. IF teidMap[t].dir = "dl" THEN t = spec.dl ELSE t = spec.ul
        BY <2>3, <3>1, <3>3, <4>1, <4>2 DEF moved, MovedTeids, NoTeid
      <4>. QED  BY <2>0, <2>3, <3>3, <4>3
    <3>. QED  BY <3>2, <3>3
  <2>. QED  BY <1>7, <2>1, <2>2, <2>3
<1>. QED  BY <1>8, <1>10, <1>11 DEF BindingInv

\* A charged packet is charged through a binding.
LEMMA ApplyKeeps ==
  ASSUME BindingInv, NEW ev \in Events, Apply(ev)
  PROVE  BindingInv'
<1>1. CASE ApplyLearned(ev)
  BY <1>1, LearnKeeps
<1>2. CASE ApplyControl(ev) \/ ApplyBound(ev) \/ ApplyUnknown(ev)
  BY <1>2, SessionUnchanged, Zenon DEF ApplyControl, ApplyBound, ApplyUnknown
<1>. QED  BY <1>1, <1>2 DEF Apply

\* Every operation of the engine preserves the invariant.
LEMMA BindingInvNext == BindingInv /\ [Next]_vars => BindingInv'
<1>. SUFFICES ASSUME BindingInv, [Next]_vars PROVE BindingInv'
  OBVIOUS
<1>1. ASSUME NEW spec \in SessionSpecs, InstallSession(spec) PROVE BindingInv'
  BY <1>1, InstallKeeps
<1>2. ASSUME NEW spec \in SessionSpecs, InstallHangs(spec) PROVE BindingInv'
  BY <1>2, TunnelsUnchanged DEF InstallHangs
<1>3. ASSUME NEW imsi \in Imsis, ReleaseSession(imsi) PROVE BindingInv'
  BY <1>3, ReleaseKeeps
<1>4. ASSUME NEW imsi \in Imsis, ReleaseHangs(imsi) PROVE BindingInv'
  BY <1>4, SessionUnchanged DEF ReleaseHangs
<1>5. ASSUME NEW ev \in Events, Apply(ev) PROVE BindingInv'
  BY <1>5, ApplyKeeps
<1>6. ASSUME NEW imsi \in Imsis, NEW usable \in BOOLEAN, NEW octets \in GyOctets,
             ApplyGy(imsi, usable, octets)
      PROVE  BindingInv'
  BY <1>6, SessionUnchanged, Zenon DEF ApplyGy
<1>7. CASE DrainBegin
  BY <1>7, SessionUnchanged DEF DrainBegin
<1>8. CASE Reporting
  BY <1>8, SessionUnchanged
     DEF Reporting, PollBegin, PollVisit, DrainVisit, ReporterTakes, Tick
<1>9. CASE UNCHANGED vars
  BY <1>9, SessionUnchanged DEF vars
<1>. QED
  BY <1>1, <1>2, <1>3, <1>4, <1>5, <1>6, <1>7, <1>8, <1>9 DEF Next, Control, ControlOp, Data

\* Only a charged packet changes what is metered.
LEMMA MeteredByCharge ==
  ASSUME Next, metered' # metered
  PROVE  \E ev \in Events : ApplyBound(ev) \/ ApplyLearned(ev)
<1>1. ASSUME NEW spec \in SessionSpecs, InstallSession(spec) \/ InstallHangs(spec) PROVE FALSE
  BY <1>1, Zenon DEF InstallSession, InstallHangs, accountVars
<1>2. ASSUME NEW imsi \in Imsis, ReleaseSession(imsi) \/ ReleaseHangs(imsi) PROVE FALSE
  BY <1>2, Zenon DEF ReleaseSession, ReleaseHangs, accountVars
<1>3. ASSUME NEW imsi \in Imsis, NEW usable \in BOOLEAN, NEW octets \in GyOctets,
             ApplyGy(imsi, usable, octets)
      PROVE  FALSE
  BY <1>3, Zenon DEF ApplyGy, accountVars
<1>4. ~(DrainBegin \/ Reporting)
  BY Zenon DEF DrainBegin, Reporting, PollBegin, PollVisit, DrainVisit, ReporterTakes, Tick, accountVars
<1>5. PICK ev \in Events : Apply(ev)
  BY <1>1, <1>2, <1>3, <1>4, Zenon DEF Next, Control, ControlOp, Data
<1>6. ~ApplyControl(ev) /\ ~ApplyUnknown(ev)
  BY Zenon DEF ApplyControl, ApplyUnknown, accountVars
<1>. QED  BY <1>5, <1>6, Zenon DEF Apply

MeteredShape == DOMAIN metered = Subs

\* Charging keeps the history of metered bytes a function on the subscribers.
LEMMA MeteredDomain == MeteredShape /\ [Next]_vars => MeteredShape'
<1>. SUFFICES ASSUME DOMAIN metered = Subs, Next, metered' # metered
              PROVE  DOMAIN metered' = Subs
  BY DEF MeteredShape, vars, accountVars
<1>1. PICK ev \in Events : ApplyBound(ev) \/ ApplyLearned(ev)
  BY MeteredByCharge
<1>. QED  BY <1>1, Zenon DEF ApplyBound, ApplyLearned, Charge

\* Every binding of the TEID table leads to an active session that lists the
\* tunnel on the side the binding meters, however sessions are installed,
\* modified, learned and released, and whether or not the table is full.
THEOREM EngineBindingSound == Spec => []BindingSound
<1>1. BindingInv => BindingSound
  BY DEF BindingInv
<1>. QED  BY BindingInvInit, BindingInvNext, <1>1, PTL DEF Spec

\* Only an active session is ever charged: no packet is billed to a
\* subscriber who has gone.
THEOREM EngineOnlyActiveCharged == Spec => OnlyActiveCharged
<1>. DEFINE Step == \A s \in Subs : metered'[s] # metered[s] => s \in active'
<1>1. BindingInv /\ MeteredShape /\ [Next]_vars => [Step]_vars
  <2>. SUFFICES ASSUME BindingInv, DOMAIN metered = Subs, Next, NEW s \in Subs, metered'[s] # metered[s]
                PROVE  s \in active'
    BY DEF MeteredShape
  <2>1. PICK ev \in Events : ApplyBound(ev) \/ ApplyLearned(ev)
    BY MeteredByCharge
  <2>2. ev.teid \in Teids \cup {0}
    BY EngineAssumption, Zenon
  <2>3. CASE ApplyBound(ev)
    <3>1. s = teidMap[ev.teid].sub
      BY <2>3, Zenon DEF ApplyBound, Charge
    <3>. QED  BY <2>2, <2>3, <3>1, Zenon DEF ApplyBound, sessionVars, BindingInv, BindingSound, Shape
  <2>4. CASE ApplyLearned(ev)
    BY <2>4, Zenon DEF ApplyLearned, Charge
  <2>. QED  BY <2>1, <2>3, <2>4
<1>2. Init => MeteredShape
  BY DEF Init, MeteredShape
<1>. QED  BY BindingInvInit, BindingInvNext, MeteredDomain, <1>1, <1>2, PTL DEF Spec, OnlyActiveCharged
-----------------------------------------------------------------------------
(* Amounts of usage *)

\* Usage whose buckets add up to the bytes of its two directions.
Balanced ==
  {u \in Usages : u.bucketBytes[0] + u.bucketBytes[1] + u.bucketBytes[2] = u.ulBytes + u.dlBytes}

\* Two amounts of usage are equal when their fields are.
LEMMA UsageEqual ==
  ASSUME NEW u \in Usages, NEW v \in Usages,
         u.ulBytes = v.ulBytes, u.dlBytes = v.dlBytes,
         u.ulPackets = v.ulPackets, u.dlPackets = v.dlPackets,
         \A i \in BucketSlots : u.bucketBytes[i] = v.bucketBytes[i]
  PROVE  u = v
<1>1. u.bucketBytes = v.bucketBytes
  BY DEF Usages
<1>. QED  BY <1>1 DEF Usages

\* The fields of a sum.
LEMMA UsageSumFields ==
  ASSUME NEW u \in Usages, NEW v \in Usages
  PROVE  /\ UsageSum(u, v) \in Usages
         /\ UsageSum(u, v).ulBytes = u.ulBytes + v.ulBytes
         /\ UsageSum(u, v).dlBytes = u.dlBytes + v.dlBytes
         /\ UsageSum(u, v).ulPackets = u.ulPackets + v.ulPackets
         /\ UsageSum(u, v).dlPackets = u.dlPackets + v.dlPackets
         /\ \A i \in BucketSlots : UsageSum(u, v).bucketBytes[i] = u.bucketBytes[i] + v.bucketBytes[i]
  BY DEF UsageSum, Usages

\* The fields of an amount of usage are numbers.
LEMMA UsageNumbers ==
  ASSUME NEW u \in Usages
  PROVE  /\ u.ulBytes \in Nat /\ u.dlBytes \in Nat /\ u.ulPackets \in Nat /\ u.dlPackets \in Nat
         /\ \A i \in BucketSlots : u.bucketBytes[i] \in Nat
  BY Zenon DEF Usages

\* Nothing is an amount of usage.
LEMMA NoUsageFields ==
  /\ NoUsage \in Usages
  /\ NoUsage.ulBytes = 0 /\ NoUsage.dlBytes = 0 /\ NoUsage.ulPackets = 0 /\ NoUsage.dlPackets = 0
  /\ \A i \in BucketSlots : NoUsage.bucketBytes[i] = 0
  BY DEF NoUsage, Usages

\* Adding usage keeps it balanced.
LEMMA BalancedSum ==
  ASSUME NEW u \in Balanced, NEW v \in Balanced
  PROVE  UsageSum(u, v) \in Balanced
<1>1. 0 \in BucketSlots /\ 1 \in BucketSlots /\ 2 \in BucketSlots
  BY DEF BucketSlots
<1>. QED  BY <1>1, UsageSumFields DEF Balanced, Usages

\* Nothing is balanced.
LEMMA BalancedNothing == NoUsage \in Balanced
  BY NoUsageFields DEF Balanced, BucketSlots

\* Nothing adds nothing.
LEMMA SumNothing ==
  ASSUME NEW u \in Usages
  PROVE  UsageSum(u, NoUsage) = u /\ UsageSum(NoUsage, u) = u
<1>1. \A i \in BucketSlots : u.bucketBytes[i] \in Nat
  BY DEF Usages
<1>2. u.ulBytes \in Nat /\ u.dlBytes \in Nat /\ u.ulPackets \in Nat /\ u.dlPackets \in Nat
  BY DEF Usages
<1>3. UsageSum(u, NoUsage) = u
  BY <1>1, <1>2, NoUsageFields, UsageSumFields, UsageEqual
<1>4. UsageSum(NoUsage, u) = u
  BY <1>1, <1>2, NoUsageFields, UsageSumFields, UsageEqual
<1>. QED  BY <1>3, <1>4

\* Sums of usage may be regrouped.
LEMMA UsageSumAssoc ==
  ASSUME NEW u \in Usages, NEW v \in Usages, NEW w \in Usages
  PROVE  UsageSum(UsageSum(u, v), w) = UsageSum(u, UsageSum(v, w))
<1>. DEFINE left == UsageSum(UsageSum(u, v), w)
            right == UsageSum(u, UsageSum(v, w))
<1>1. UsageSum(u, v) \in Usages /\ UsageSum(v, w) \in Usages /\ left \in Usages /\ right \in Usages
  BY UsageSumFields, Zenon
<1>2. \A x \in {u, v, w} :
        /\ x.ulBytes \in Nat /\ x.dlBytes \in Nat /\ x.ulPackets \in Nat /\ x.dlPackets \in Nat
        /\ \A i \in BucketSlots : x.bucketBytes[i] \in Nat
  BY UsageNumbers, Zenon
<1>3. left.ulBytes = right.ulBytes /\ left.dlBytes = right.dlBytes
  <2>1. /\ left.ulBytes = (u.ulBytes + v.ulBytes) + w.ulBytes
        /\ right.ulBytes = u.ulBytes + (v.ulBytes + w.ulBytes)
        /\ left.dlBytes = (u.dlBytes + v.dlBytes) + w.dlBytes
        /\ right.dlBytes = u.dlBytes + (v.dlBytes + w.dlBytes)
    BY Zenon DEF UsageSum
  <2>. HIDE DEF left, right
  <2>. QED  BY <1>2, <2>1
<1>4. left.ulPackets = right.ulPackets /\ left.dlPackets = right.dlPackets
  <2>1. /\ left.ulPackets = (u.ulPackets + v.ulPackets) + w.ulPackets
        /\ right.ulPackets = u.ulPackets + (v.ulPackets + w.ulPackets)
        /\ left.dlPackets = (u.dlPackets + v.dlPackets) + w.dlPackets
        /\ right.dlPackets = u.dlPackets + (v.dlPackets + w.dlPackets)
    BY Zenon DEF UsageSum
  <2>. HIDE DEF left, right
  <2>. QED  BY <1>2, <2>1
<1>5. ASSUME NEW i \in BucketSlots PROVE left.bucketBytes[i] = right.bucketBytes[i]
  <2>1. /\ left.bucketBytes[i] = (u.bucketBytes[i] + v.bucketBytes[i]) + w.bucketBytes[i]
        /\ right.bucketBytes[i] = u.bucketBytes[i] + (v.bucketBytes[i] + w.bucketBytes[i])
    BY Zenon DEF UsageSum
  <2>. HIDE DEF left, right
  <2>. QED  BY <1>2, <2>1
<1>. QED  BY <1>1, <1>3, <1>4, <1>5, UsageEqual, Zenon

\* Sums of usage may be swapped.
LEMMA UsageSumComm ==
  ASSUME NEW u \in Usages, NEW v \in Usages
  PROVE  UsageSum(u, v) = UsageSum(v, u)
<1>1. UsageSum(u, v) \in Usages /\ UsageSum(v, u) \in Usages
  BY UsageSumFields, Zenon
<1>2. \A a, b \in Nat : a + b = b + a
  OBVIOUS
<1>3. /\ UsageSum(u, v).ulBytes = UsageSum(v, u).ulBytes
      /\ UsageSum(u, v).dlBytes = UsageSum(v, u).dlBytes
      /\ UsageSum(u, v).ulPackets = UsageSum(v, u).ulPackets
      /\ UsageSum(u, v).dlPackets = UsageSum(v, u).dlPackets
  BY <1>2, UsageNumbers, Zenon DEF UsageSum
<1>4. ASSUME NEW i \in BucketSlots PROVE UsageSum(u, v).bucketBytes[i] = UsageSum(v, u).bucketBytes[i]
  BY <1>2, UsageNumbers, Zenon DEF UsageSum
<1>. QED  BY <1>1, <1>3, <1>4, UsageEqual, Zenon

\* What is reported in full leaves nothing pending.
LEMMA DiffSelf ==
  ASSUME NEW u \in Usages
  PROVE  UsageDiff(u, u) = NoUsage
<1>1. UsageDiff(u, u) \in Usages
  BY DEF UsageDiff, Usages
<1>2. /\ UsageDiff(u, u).ulBytes = 0 /\ UsageDiff(u, u).dlBytes = 0
      /\ UsageDiff(u, u).ulPackets = 0 /\ UsageDiff(u, u).dlPackets = 0
      /\ \A i \in BucketSlots : UsageDiff(u, u).bucketBytes[i] = 0
  BY DEF UsageDiff, Usages
<1>. QED  BY <1>1, <1>2, NoUsageFields, UsageEqual

\* A packet charged to the counters is pending.
LEMMA DiffAfterSum ==
  ASSUME NEW u \in Usages, NEW v \in Usages, NEW p \in Usages, UsageDiff(u, v) \in Usages
  PROVE  UsageDiff(UsageSum(u, p), v) = UsageSum(UsageDiff(u, v), p)
<1>. DEFINE left == UsageDiff(UsageSum(u, p), v)
            right == UsageSum(UsageDiff(u, v), p)
<1>0. \A x \in {u, v, p} :
        /\ x.ulBytes \in Nat /\ x.dlBytes \in Nat /\ x.ulPackets \in Nat /\ x.dlPackets \in Nat
        /\ \A i \in BucketSlots : x.bucketBytes[i] \in Nat
  BY UsageNumbers, Zenon
<1>1. /\ left.ulBytes = right.ulBytes /\ left.dlBytes = right.dlBytes
      /\ left.ulPackets = right.ulPackets /\ left.dlPackets = right.dlPackets
  <2>1. /\ left.ulBytes = (u.ulBytes + p.ulBytes) - v.ulBytes
        /\ right.ulBytes = (u.ulBytes - v.ulBytes) + p.ulBytes
        /\ left.dlBytes = (u.dlBytes + p.dlBytes) - v.dlBytes
        /\ right.dlBytes = (u.dlBytes - v.dlBytes) + p.dlBytes
    BY Zenon DEF UsageSum, UsageDiff
  <2>2. /\ left.ulPackets = (u.ulPackets + p.ulPackets) - v.ulPackets
        /\ right.ulPackets = (u.ulPackets - v.ulPackets) + p.ulPackets
        /\ left.dlPackets = (u.dlPackets + p.dlPackets) - v.dlPackets
        /\ right.dlPackets = (u.dlPackets - v.dlPackets) + p.dlPackets
    BY Zenon DEF UsageSum, UsageDiff
  <2>. HIDE DEF left, right
  <2>3. left.ulBytes = right.ulBytes /\ left.dlBytes = right.dlBytes
    BY <1>0, <2>1
  <2>4. left.ulPackets = right.ulPackets /\ left.dlPackets = right.dlPackets
    BY <1>0, <2>2
  <2>. QED  BY <2>3, <2>4
<1>2. ASSUME NEW i \in BucketSlots PROVE left.bucketBytes[i] = right.bucketBytes[i]
  <2>1. /\ left.bucketBytes[i] = (u.bucketBytes[i] + p.bucketBytes[i]) - v.bucketBytes[i]
        /\ right.bucketBytes[i] = (u.bucketBytes[i] - v.bucketBytes[i]) + p.bucketBytes[i]
    BY Zenon DEF UsageSum, UsageDiff
  <2>. HIDE DEF left, right
  <2>. QED  BY <1>0, <2>1
<1>3. right \in Usages
  BY UsageSumFields, Zenon
<1>4. left \in Usages
  <2>1. \A i \in BucketSlots : left.bucketBytes[i] \in Nat
    BY <1>2, <1>3 DEF Usages
  <2>2. left.bucketBytes = [i \in BucketSlots |-> left.bucketBytes[i]]
    BY DEF UsageDiff
  <2>3. left.bucketBytes \in [BucketSlots -> Nat]
    BY <2>1, <2>2, Zenon
  <2>4. left = [ulBytes |-> left.ulBytes, dlBytes |-> left.dlBytes, ulPackets |-> left.ulPackets,
                dlPackets |-> left.dlPackets, bucketBytes |-> left.bucketBytes]
    BY Zenon DEF UsageDiff
  <2>. QED  BY <1>1, <1>3, <2>3, <2>4 DEF Usages
<1>. QED  BY <1>1, <1>2, <1>3, <1>4, UsageEqual

\* Handing over the pending usage p, to the reported r or to the lost l, and
\* having nothing pending afterwards leaves the total.
LEMMA PendingMoves ==
  ASSUME NEW r \in Usages, NEW l \in Usages, NEW p \in Usages
  PROVE  /\ UsageSum(UsageSum(UsageSum(r, p), l), NoUsage) = UsageSum(UsageSum(r, l), p)
         /\ UsageSum(UsageSum(r, UsageSum(l, p)), NoUsage) = UsageSum(UsageSum(r, l), p)
<1>1. /\ UsageSum(r, p) \in Usages /\ UsageSum(l, p) \in Usages /\ UsageSum(p, l) \in Usages
      /\ UsageSum(UsageSum(r, p), l) \in Usages /\ UsageSum(r, UsageSum(l, p)) \in Usages
  BY UsageSumFields, Zenon
<1>2. UsageSum(UsageSum(r, p), l) = UsageSum(r, UsageSum(p, l))
  BY UsageSumAssoc, Zenon
<1>3. UsageSum(p, l) = UsageSum(l, p)
  BY UsageSumComm, Zenon
<1>4. UsageSum(r, UsageSum(l, p)) = UsageSum(UsageSum(r, l), p)
  BY UsageSumAssoc, Zenon
<1>. QED  BY <1>1, <1>2, <1>3, <1>4, SumNothing, Zenon

-----------------------------------------------------------------------------
(* Accounting slots *)

\* assign_slot either names the slot it returns after the id, leaving the
\* other slots alone, or returns the aggregate slot, which is taken, and says
\* it is mixed.
LEMMA AssignSlotResult ==
  ASSUME NEW ids \in [BucketSlots -> Int], NEW id \in Int
  PROVE  /\ AssignSlot(ids, id).slot \in BucketSlots
         /\ AssignSlot(ids, id).ids \in [BucketSlots -> Int]
         /\ AssignSlot(ids, id).mixed \in BOOLEAN
         /\ \/ /\ AssignSlot(ids, id).ids = ids
               /\ ids[AssignSlot(ids, id).slot] = id
            \/ /\ AssignSlot(ids, id).ids = [ids EXCEPT ![AssignSlot(ids, id).slot] = id]
               /\ ids[AssignSlot(ids, id).slot] = UnsetBucket
            \/ /\ AssignSlot(ids, id).ids = ids
               /\ AssignSlot(ids, id).slot = AggregateSlot
               /\ AssignSlot(ids, id).mixed
               /\ ids[AggregateSlot] # UnsetBucket
<1>. DEFINE holding == {i \in BucketSlots : ids[i] = id}
            free == {i \in 0 .. AggregateSlot - 1 : ids[i] = UnsetBucket}
            claim == IF free # {} THEN Min(free) ELSE AggregateSlot
<1>1. claim \in BucketSlots
  BY MinSlot DEF BucketSlots, AggregateSlot
<1>2. holding # {} => Min(holding) \in holding
  BY MinSlot DEF BucketSlots
<1>3. AggregateSlot \in BucketSlots
  BY DEF BucketSlots, AggregateSlot
<1>4. CASE holding # {}
  <2>1. AssignSlot(ids, id) = [slot |-> Min(holding), ids |-> ids, mixed |-> FALSE]
    BY <1>4, Zenon DEF AssignSlot
  <2>. QED  BY <1>2, <1>4, <2>1
<1>5. CASE holding = {} /\ ids[claim] = UnsetBucket
  <2>1. AssignSlot(ids, id) = [slot |-> claim, ids |-> [ids EXCEPT ![claim] = id], mixed |-> FALSE]
    BY <1>5, Zenon DEF AssignSlot
  <2>. HIDE DEF claim
  <2>. QED  BY <1>1, <1>5, <2>1
<1>6. CASE holding = {} /\ ids[claim] # UnsetBucket
  <2>1. AssignSlot(ids, id) = [slot |-> AggregateSlot, ids |-> ids, mixed |-> TRUE]
    BY <1>6, Zenon DEF AssignSlot
  <2>2. free # {} => Min(free) \in free
    BY MinSlot DEF AggregateSlot
  <2>3. ids[AggregateSlot] # UnsetBucket
    BY <1>6, <2>2
  <2>. QED  BY <1>3, <2>1, <2>3
<1>. QED  BY <1>4, <1>5, <1>6, Zenon

\* What assign_slot returns is a slot, the ids and the flag.
LEMMA AssignSlotRecord ==
  ASSUME NEW ids \in [BucketSlots -> Int], NEW id \in Int
  PROVE  AssignSlot(ids, id) \in [slot : BucketSlots, ids : [BucketSlots -> Int], mixed : BOOLEAN]
<1>1. /\ AssignSlot(ids, id).slot \in BucketSlots
      /\ AssignSlot(ids, id).ids \in [BucketSlots -> Int]
      /\ AssignSlot(ids, id).mixed \in BOOLEAN
  BY AssignSlotResult, Zenon
<1>2. \E i, f, m : AssignSlot(ids, id) = [slot |-> i, ids |-> f, mixed |-> m]
  BY Zenon DEF AssignSlot
<1>. QED  BY <1>1, <1>2

-----------------------------------------------------------------------------
(* The shape of the books *)

\* What a slot may be charged for: a QFI that packets carry, or a rating group.
Sources ==
  {<<"qfi", e.qfi>> : e \in {f \in Events : f.hasQfi}} \cup {<<"rg", g>> : g \in RatingGroups \cup {0}}

Reasons == {"none", "volume", "interval", "release", "shutdown"}

Records ==
  [sub : Subs, used : Balanced, seq : Nat, reason : Reasons, ids : [BucketSlots -> Int],
   aggregated : BOOLEAN]

SessionTyped == Shape /\ ratingGroup \in [Subs -> RatingGroups \cup {0}]

AccountTyped ==
  /\ bucketIds \in [Subs -> [BucketSlots -> Int]]
  /\ aggregated \subseteq Subs
  /\ counters \in [Subs -> Balanced]
  /\ metered \in [Subs -> Balanced]
  /\ charged \in [Subs -> [BucketSlots -> SUBSET Sources]]
  /\ gy \in [Subs -> [octets : Nat, reports : Nat]]

ReportTyped ==
  /\ emitted \in [Subs -> Balanced]
  /\ recordSeq \in [Subs -> Nat]
  /\ age \in [Subs -> 0 .. ReportInterval]
  /\ sink \in Seq(Records) /\ Len(sink) <= SinkCapacity
  /\ reported \in [Subs -> Balanced]
  /\ lost \in [Subs -> Balanced]
  /\ emissions \in [Subs -> Nat]

\* A sweep has somebody to visit, and a drain stays below next_sub_.
LoopTyped ==
  /\ pc \in {"idle", "poll", "drain"}
  /\ loop \in 0 .. MaxSubscribers
  /\ sweepCursor \in 0 .. nextSub
  /\ sinceSweep \in 0 .. SweepPeriod
  /\ pc = "poll" => loop >= 1 /\ nextSub > 0
  /\ pc = "drain" => loop < nextSub

\* What is pending is an amount of usage: nothing was reported that was not
\* charged.  An index next_sub_ has not reached yet has clean books.
PendingTyped ==
  /\ \A s \in Subs : Pending(s) \in Balanced
  /\ \A s \in Subs : s >= nextSub => counters[s] = NoUsage /\ emitted[s] = NoUsage

EngineTyped ==
  /\ SessionTyped /\ AccountTyped /\ ReportTyped /\ LoopTyped /\ PendingTyped
  /\ stats \in Stats
  /\ hung \in BOOLEAN

\* Balanced usage is usage.
LEMMA BalancedUsage == \A u \in Balanced : u \in Usages
  BY DEF Balanced

\* The empty books of the constructor.
LEMMA EngineTypedInit == Init => EngineTyped
<1>. SUFFICES ASSUME Init PROVE EngineTyped
  OBVIOUS
<1>1. SessionTyped
  BY BindingInvInit, Zenon DEF Init, BindingInv, SessionTyped
<1>2. AccountTyped
  <2>1. UnsetIds \in [BucketSlots -> Int] /\ NoGy \in [octets : Nat, reports : Nat]
    BY ConstantTypes DEF UnsetIds, NoGy
  <2>2. NoCharges \in [BucketSlots -> SUBSET Sources]
    BY DEF NoCharges
  <2>. QED  BY <2>1, <2>2, BalancedNothing, Zenon DEF Init, AccountTyped
<1>3. ReportTyped
  <2>1. emitted \in [Subs -> Balanced] /\ reported \in [Subs -> Balanced] /\ lost \in [Subs -> Balanced]
    BY BalancedNothing, Zenon DEF Init
  <2>2. sink \in Seq(Records) /\ Len(sink) <= SinkCapacity
    BY ConstantTypes DEF Init
  <2>3. /\ recordSeq \in [Subs -> Nat] /\ emissions \in [Subs -> Nat]
        /\ age \in [Subs -> 0 .. ReportInterval]
    BY ConstantTypes DEF Init
  <2>. QED  BY <2>1, <2>2, <2>3, Zenon DEF ReportTyped
<1>4. LoopTyped
  <2>1. pc = "idle" /\ loop = 0 /\ sweepCursor = 0 /\ sinceSweep = 0 /\ nextSub = 0
    BY Zenon DEF Init
  <2>2. MaxSubscribers \in Nat /\ SweepPeriod \in Nat
    BY ConstantTypes
  <2>. QED  BY <2>1, <2>2 DEF LoopTyped
<1>5. PendingTyped
  <2>1. \A s \in Subs : counters[s] = NoUsage /\ emitted[s] = NoUsage
    BY Zenon DEF Init
  <2>. QED  BY <2>1, DiffSelf, NoUsageFields, BalancedNothing, Zenon DEF PendingTyped, Pending
<1>6. stats \in Stats
  <2>1. NoStats \in Stats
    BY DEF NoStats, Stats
  <2>. QED  BY <2>1, Zenon DEF Init
<1>7. hung \in BOOLEAN
  BY Zenon DEF Init
<1>. QED  BY <1>1, <1>2, <1>3, <1>4, <1>5, <1>6, <1>7, Zenon DEF EngineTyped

\* The shape the proofs use is the type invariant, and more.
LEMMA EngineTypedOK == EngineTyped => TypeOK
<1>. SUFFICES ASSUME EngineTyped PROVE TypeOK
  OBVIOUS
<1>1. counters \in [Subs -> Usages] /\ emitted \in [Subs -> Usages]
  BY BalancedUsage DEF EngineTyped, AccountTyped, ReportTyped
<1>2. imsiIndex \in [Imsis -> Subs \cup {NoSub}]
  BY ConstantTypes DEF EngineTyped, SessionTyped, Shape, Subs
<1>. QED  BY <1>1, <1>2, Zenon
  DEF EngineTyped, SessionTyped, Shape, AccountTyped, ReportTyped, LoopTyped, TypeOK

\* Counting keeps the statistics a record of numbers.
LEMMA StatsKept ==
  ASSUME NEW st \in Stats, NEW m \in Nat, NEW n \in Nat, NEW k \in Nat, NEW j \in Nat
  PROVE  /\ [st EXCEPT !.installed = @ + m, !.bindFailures = @ + n] \in Stats
         /\ [st EXCEPT !.recordsEmitted = @ + 1] \in Stats
         /\ [st EXCEPT !.recordsDropped = @ + 1] \in Stats
         /\ [st EXCEPT !.released = @ + 1] \in Stats
         /\ [st EXCEPT !.events = @ + 1, !.bytes = @ + m] \in Stats
         /\ [st EXCEPT !.controlPdus = @ + 1] \in Stats
         /\ [st EXCEPT !.unknownEvents = @ + 1, !.unknownBytes = @ + m] \in Stats
         /\ [st EXCEPT !.learned = @ + 1] \in Stats
         /\ [st EXCEPT !.bindFailures = @ + 1] \in Stats
         /\ [st EXCEPT !.ulBytes = @ + m, !.dlBytes = @ + n,
                       !.ulPackets = @ + k, !.dlPackets = @ + j] \in Stats
         /\ [st EXCEPT !.gyEvents = @ + 1] \in Stats
         /\ [st EXCEPT !.gyEvents = @ + 1, !.gyOctets = @ + m] \in Stats
<1>1. \A a \in Nat : /\ [st EXCEPT !.recordsEmitted = a] \in Stats
                     /\ [st EXCEPT !.recordsDropped = a] \in Stats
                     /\ [st EXCEPT !.released = a] \in Stats
                     /\ [st EXCEPT !.controlPdus = a] \in Stats
  BY Zenon DEF Stats
<1>6. \A a \in Nat : /\ [st EXCEPT !.learned = a] \in Stats
                     /\ [st EXCEPT !.bindFailures = a] \in Stats
                     /\ [st EXCEPT !.gyEvents = a] \in Stats
  BY Zenon DEF Stats
<1>2. \A a, b \in Nat : /\ [st EXCEPT !.installed = a, !.bindFailures = b] \in Stats
                        /\ [st EXCEPT !.events = a, !.bytes = b] \in Stats
  BY Zenon DEF Stats
<1>5. \A a, b \in Nat : /\ [st EXCEPT !.unknownEvents = a, !.unknownBytes = b] \in Stats
                        /\ [st EXCEPT !.gyEvents = a, !.gyOctets = b] \in Stats
  BY Zenon DEF Stats
<1>3. \A a, b, c, d \in Nat :
        [st EXCEPT !.ulBytes = a, !.dlBytes = b, !.ulPackets = c, !.dlPackets = d] \in Stats
  BY Zenon DEF Stats
<1>4. /\ st.installed + m \in Nat /\ st.bindFailures + n \in Nat
      /\ st.events + 1 \in Nat /\ st.bytes + m \in Nat
      /\ st.unknownEvents + 1 \in Nat /\ st.unknownBytes + m \in Nat
      /\ st.gyEvents + 1 \in Nat /\ st.gyOctets + m \in Nat
      /\ st.ulBytes + m \in Nat /\ st.dlBytes + n \in Nat
      /\ st.ulPackets + k \in Nat /\ st.dlPackets + j \in Nat
      /\ st.recordsEmitted + 1 \in Nat /\ st.recordsDropped + 1 \in Nat
      /\ st.released + 1 \in Nat /\ st.controlPdus + 1 \in Nat
      /\ st.learned + 1 \in Nat /\ st.bindFailures + 1 \in Nat
  BY DEF Stats
<1>. QED  BY <1>1, <1>2, <1>3, <1>4, <1>5, <1>6, Zenon

\* emit_record: the pending usage becomes a record or is lost, and nothing is
\* pending afterwards.
LEMMA EmitTyped ==
  ASSUME EngineTyped, UNCHANGED accountVars, UNCHANGED nextSub,
         NEW s \in Subs, s < nextSub, NEW reason \in Reasons, NEW st \in Stats, EmitRecord(s, reason, st)
  PROVE  ReportTyped' /\ PendingTyped' /\ stats' \in Stats
<1>1. Pending(s) \in Balanced /\ counters[s] \in Balanced
  BY Zenon DEF EngineTyped, PendingTyped, AccountTyped
<1>2. emitted' = [emitted EXCEPT ![s] = counters[s]] /\ counters' = counters
  BY DEF EmitRecord, Settled, accountVars
<1>3. emitted' \in [Subs -> Balanced]
  BY <1>1, <1>2, Zenon DEF EngineTyped, ReportTyped
<1>4. reported' \in [Subs -> Balanced] /\ lost' \in [Subs -> Balanced]
  <2>1. /\ reported[s] \in Balanced /\ reported \in [Subs -> Balanced]
        /\ lost[s] \in Balanced /\ lost \in [Subs -> Balanced]
    BY Zenon DEF EngineTyped, ReportTyped
  <2>2. UsageSum(reported[s], Pending(s)) \in Balanced /\ UsageSum(lost[s], Pending(s)) \in Balanced
    BY <1>1, <2>1, BalancedSum, Zenon
  <2>. QED  BY <2>1, <2>2, Zenon DEF EmitRecord
<1>5. sink' \in Seq(Records) /\ Len(sink') <= SinkCapacity
  <2>1. UsageRecord(s, reason) \in Records
    <3>1. recordSeq[s] \in Nat /\ bucketIds[s] \in [BucketSlots -> Int]
      BY Zenon DEF EngineTyped, ReportTyped, AccountTyped
    <3>3. (s \in aggregated) \in BOOLEAN
      OBVIOUS
    <3>2. \A u \in Balanced, n \in Nat, ids \in [BucketSlots -> Int], a \in BOOLEAN :
            [sub |-> s, used |-> u, seq |-> n, reason |-> reason, ids |-> ids, aggregated |-> a] \in Records
      BY Zenon DEF Records
    <3>. QED  BY <1>1, <3>1, <3>2, <3>3, Zenon DEF UsageRecord
  <2>2. sink \in Seq(Records) /\ Len(sink) <= SinkCapacity
    BY Zenon DEF EngineTyped, ReportTyped
  <2>3. sink' = IF SinkAccepts THEN Append(sink, UsageRecord(s, reason)) ELSE sink
    BY Zenon DEF EmitRecord
  <2>. QED  BY <2>1, <2>2, <2>3, ConstantTypes DEF SinkAccepts
<1>6. recordSeq' \in [Subs -> Nat] /\ emissions' \in [Subs -> Nat] /\ age' \in [Subs -> 0 .. ReportInterval]
  <2>1. /\ recordSeq' = [recordSeq EXCEPT ![s] = @ + 1] /\ emissions' = [emissions EXCEPT ![s] = @ + 1]
        /\ age' = [age EXCEPT ![s] = 0]
    BY Zenon DEF EmitRecord
  <2>2. recordSeq \in [Subs -> Nat] /\ emissions \in [Subs -> Nat] /\ age \in [Subs -> 0 .. ReportInterval]
    BY Zenon DEF EngineTyped, ReportTyped
  <2>. QED  BY <2>1, <2>2, ConstantTypes
<1>7. PendingTyped'
  <2>1. \A r \in Subs : IF r = s THEN emitted'[r] = counters[r] ELSE emitted'[r] = emitted[r]
    BY <1>2, Zenon DEF EngineTyped, ReportTyped
  <2>2. ASSUME NEW r \in Subs PROVE Pending(r)' \in Balanced
    <3>1. CASE r = s
      BY <1>1, <1>2, <2>1, <3>1, BalancedUsage, DiffSelf, BalancedNothing, Zenon DEF Pending
    <3>2. CASE r # s
      BY <1>2, <2>1, <3>2, Zenon DEF Pending, EngineTyped, PendingTyped
    <3>. QED  BY <3>1, <3>2
  <2>3. ASSUME NEW r \in Subs, r >= nextSub PROVE counters'[r] = NoUsage /\ emitted'[r] = NoUsage
    <3>1. r # s
      BY <2>3 DEF EngineTyped, SessionTyped, Shape, Subs
    <3>. QED  BY <1>2, <2>1, <2>3, <3>1, Zenon DEF EngineTyped, PendingTyped
  <2>. QED  BY <2>2, <2>3, Zenon DEF PendingTyped
<1>8. stats' \in Stats
  <2>1. [st EXCEPT !.recordsEmitted = @ + 1] \in Stats /\ [st EXCEPT !.recordsDropped = @ + 1] \in Stats
    BY StatsKept, Zenon
  <2>. QED  BY <2>1, Zenon DEF EmitRecord, CountRecord
<1>. QED  BY <1>3, <1>4, <1>5, <1>6, <1>7, <1>8, Zenon DEF ReportTyped

\* One amount of usage, worth one packet and its bytes, is added to the
\* counters, to the history and to the statistics.
UsageAdded(s, ev, used, st) ==
  \E p \in Balanced :
    /\ p.ulBytes + p.dlBytes = ev.bytes
    /\ p.ulPackets + p.dlPackets = 1
    /\ counters' = [counters EXCEPT ![s] = UsageSum(used, p)]
    /\ metered' = [metered EXCEPT ![s] = UsageSum(@, p)]
    /\ stats' = [st EXCEPT !.ulBytes = @ + p.ulBytes, !.dlBytes = @ + p.dlBytes,
                           !.ulPackets = @ + p.ulPackets, !.dlPackets = @ + p.dlPackets]

\* A charged packet is added once, everywhere.
LEMMA ChargePacket ==
  ASSUME NEW s, NEW b, NEW ev, NEW ids, NEW used, NEW slots, NEW rg, NEW st,
         Charge(s, b, ev, ids, used, slots, rg, st),
         b \in Bindings, ev \in Events
  PROVE  UsageAdded(s, ev, used, st)
<1>. DEFINE dir == IF b.dir = "unknown" THEN ev.dir ELSE b.dir
            slot == (IF ev.hasQfi THEN AssignSlot(ids, QfiTag + ev.qfi)
                                  ELSE [slot |-> b.slot, ids |-> ids, mixed |-> FALSE]).slot
            dl == IF dir = "dl" THEN 1 ELSE 0
            buckets == [i \in BucketSlots |-> IF i = slot THEN ev.bytes ELSE 0]
            p == [ulBytes |-> (1 - dl) * ev.bytes, dlBytes |-> dl * ev.bytes,
                  ulPackets |-> 1 - dl, dlPackets |-> dl, bucketBytes |-> buckets]
<1>1. ev.bytes \in Nat
  BY EngineAssumption, Zenon
<1>2. slot \in BucketSlots
  BY AssignSlotRange DEF Bindings
<1>3. /\ counters' = [counters EXCEPT ![s] = UsageSum(used, p)]
      /\ metered' = [metered EXCEPT ![s] = UsageSum(@, p)]
      /\ stats' = [st EXCEPT !.ulBytes = @ + p.ulBytes, !.dlBytes = @ + p.dlBytes,
                             !.ulPackets = @ + p.ulPackets, !.dlPackets = @ + p.dlPackets]
  BY Zenon DEF Charge
<1>4. dl = 0 \/ dl = 1
  OBVIOUS
<1>. HIDE DEF slot, dl
<1>5. buckets \in [BucketSlots -> Nat] /\ buckets[0] + buckets[1] + buckets[2] = ev.bytes
  BY <1>1, <1>2 DEF BucketSlots
<1>. HIDE DEF buckets
<1>6. /\ p \in Balanced
      /\ p.ulBytes + p.dlBytes = ev.bytes
      /\ p.ulPackets + p.dlPackets = 1
  <2>1. /\ (1 - dl) * ev.bytes \in Nat /\ dl * ev.bytes \in Nat /\ 1 - dl \in Nat /\ dl \in Nat
        /\ (1 - dl) * ev.bytes + dl * ev.bytes = ev.bytes
        /\ (1 - dl) + dl = 1
    BY <1>1, <1>4
  <2>2. p \in Usages
    BY <1>5, <2>1, Zenon DEF Usages
  <2>. QED  BY <1>5, <2>1, <2>2, Zenon DEF Balanced
<1>. QED  BY <1>3, <1>6, Zenon DEF UsageAdded

\* A slot takes the source of the packet, and its id as assign_slot says.
SlotCharged(s, b, ev, ids, slots, rg) ==
  \E c \in Sources, r \in [slot : BucketSlots, ids : [BucketSlots -> Int], mixed : BOOLEAN] :
    /\ IF ev.hasQfi
         THEN c = <<"qfi", ev.qfi>> /\ r = AssignSlot(ids, QfiTag + ev.qfi)
         ELSE c = <<"rg", rg>> /\ r.slot = b.slot /\ r.ids = ids
    /\ bucketIds' = [bucketIds EXCEPT ![s] = r.ids]
    /\ aggregated' = aggregated \cup MarkMixed(s, r.mixed)
    /\ charged' = [charged EXCEPT ![s] = [slots EXCEPT ![r.slot] = @ \cup {c}]]

\* A charged packet is charged to one slot.
LEMMA ChargeSlot ==
  ASSUME NEW s, NEW b, NEW ev, NEW ids, NEW used, NEW slots, NEW rg, NEW st,
         Charge(s, b, ev, ids, used, slots, rg, st),
         b \in Bindings, ev \in Events, ids \in [BucketSlots -> Int], rg \in RatingGroups \cup {0}
  PROVE  SlotCharged(s, b, ev, ids, slots, rg)
<1>. DEFINE c == IF ev.hasQfi THEN <<"qfi", ev.qfi>> ELSE <<"rg", rg>>
            r == IF ev.hasQfi THEN AssignSlot(ids, QfiTag + ev.qfi)
                              ELSE [slot |-> b.slot, ids |-> ids, mixed |-> FALSE]
<1>1. c \in Sources
  BY Zenon DEF Sources
<1>2. r \in [slot : BucketSlots, ids : [BucketSlots -> Int], mixed : BOOLEAN]
  <2>1. b.slot \in BucketSlots
    BY DEF Bindings
  <2>2. QfiTag + ev.qfi \in Int
    <3>1. ev.qfi \in Nat
      BY EngineAssumption, Zenon
    <3>. QED  BY <3>1, TaggedId, Zenon
  <2>3. AssignSlot(ids, QfiTag + ev.qfi) \in [slot : BucketSlots, ids : [BucketSlots -> Int], mixed : BOOLEAN]
    BY <2>2, AssignSlotRecord, Zenon
  <2>. QED  BY <2>1, <2>3
<1>3. /\ bucketIds' = [bucketIds EXCEPT ![s] = r.ids]
      /\ aggregated' = aggregated \cup MarkMixed(s, r.mixed)
      /\ charged' = [charged EXCEPT ![s] = [slots EXCEPT ![r.slot] = @ \cup {c}]]
  BY Zenon DEF Charge
<1>4. IF ev.hasQfi
        THEN c = <<"qfi", ev.qfi>> /\ r = AssignSlot(ids, QfiTag + ev.qfi)
        ELSE c = <<"rg", rg>> /\ r.slot = b.slot /\ r.ids = ids
  BY Zenon
<1>. HIDE DEF c, r
<1>. QED  BY <1>1, <1>2, <1>3, <1>4, Zenon DEF SlotCharged

\* Accounts nobody touches keep their shape.
LEMMA AccountKept == AccountTyped /\ UNCHANGED accountVars => AccountTyped'
  BY DEF AccountTyped, accountVars

\* So do reports.
LEMMA ReportKept == ReportTyped /\ UNCHANGED reportVars => ReportTyped'
  BY DEF ReportTyped, reportVars

\* And loops, between calls that leave the subscribers.
LEMMA LoopKept == LoopTyped /\ UNCHANGED <<loopVars, nextSub>> => LoopTyped'
  BY DEF LoopTyped, loopVars

\* An idle engine stays well-formed when subscribers are added.
LEMMA LoopIdle ==
  ASSUME LoopTyped, Shape, Shape', pc = "idle", UNCHANGED loopVars, nextSub' >= nextSub
  PROVE  LoopTyped'
<1>1. nextSub \in Nat /\ nextSub' \in Nat
  BY ConstantTypes DEF Shape
<1>2. UNCHANGED <<pc, loop, sweepCursor, sinceSweep>>
  BY DEF loopVars
<1>. QED  BY <1>1, <1>2 DEF LoopTyped

\* Pending usage stays while nothing is charged and nothing emitted.
LEMMA PendingKept ==
  ASSUME PendingTyped, Shape, Shape', nextSub' >= nextSub, UNCHANGED <<counters, emitted>>
  PROVE  PendingTyped'
<1>1. \A s \in Subs : Pending(s)' = Pending(s)
  BY Zenon DEF Pending
<1>2. \A s \in Subs : s >= nextSub' => s >= nextSub
  BY ConstantTypes DEF Shape, Subs
<1>. QED  BY <1>1, <1>2, Zenon DEF PendingTyped

\* Charging a packet keeps the shape of the accounts, and what it adds is pending.
LEMMA ChargeTyped ==
  ASSUME EngineTyped, UNCHANGED <<gy, emitted>>, nextSub' \in Nat, nextSub \in Nat, nextSub' >= nextSub,
         NEW s \in Subs, s < nextSub', NEW b \in Bindings, NEW ev \in Events,
         NEW ids \in [BucketSlots -> Int], NEW used \in Balanced, UsageDiff(used, emitted[s]) \in Balanced,
         NEW slots \in [BucketSlots -> SUBSET Sources], NEW rg \in RatingGroups \cup {0},
         NEW st \in Stats, Charge(s, b, ev, ids, used, slots, rg, st)
  PROVE  AccountTyped' /\ PendingTyped' /\ stats' \in Stats
<1>1. PICK p \in Balanced :
        /\ counters' = [counters EXCEPT ![s] = UsageSum(used, p)]
        /\ metered' = [metered EXCEPT ![s] = UsageSum(@, p)]
        /\ stats' = [st EXCEPT !.ulBytes = @ + p.ulBytes, !.dlBytes = @ + p.dlBytes,
                               !.ulPackets = @ + p.ulPackets, !.dlPackets = @ + p.dlPackets]
  <2>1. UsageAdded(s, ev, used, st)
    BY ChargePacket, Zenon
  <2>. QED  BY <2>1, Zenon DEF UsageAdded
<1>2. PICK c \in Sources, r \in [slot : BucketSlots, ids : [BucketSlots -> Int], mixed : BOOLEAN] :
        /\ bucketIds' = [bucketIds EXCEPT ![s] = r.ids]
        /\ aggregated' = aggregated \cup MarkMixed(s, r.mixed)
        /\ charged' = [charged EXCEPT ![s] = [slots EXCEPT ![r.slot] = @ \cup {c}]]
  <2>1. SlotCharged(s, b, ev, ids, slots, rg)
    BY ChargeSlot, Zenon
  <2>. QED  BY <2>1, Zenon DEF SlotCharged
<1>3. counters \in [Subs -> Balanced] /\ metered \in [Subs -> Balanced] /\ emitted \in [Subs -> Balanced]
  BY Zenon DEF EngineTyped, AccountTyped, ReportTyped
<1>4. UsageSum(used, p) \in Balanced /\ UsageSum(metered[s], p) \in Balanced
  BY <1>3, BalancedSum, Zenon
<1>5. AccountTyped'
  <2>1. counters' \in [Subs -> Balanced] /\ metered' \in [Subs -> Balanced]
    BY <1>1, <1>3, <1>4, Zenon
  <2>2. bucketIds' \in [Subs -> [BucketSlots -> Int]]
    BY <1>2 DEF EngineTyped, AccountTyped
  <2>3. aggregated' \subseteq Subs
    BY <1>2, Zenon DEF EngineTyped, AccountTyped, MarkMixed
  <2>4. charged' \in [Subs -> [BucketSlots -> SUBSET Sources]]
    <3>1. [slots EXCEPT ![r.slot] = @ \cup {c}] \in [BucketSlots -> SUBSET Sources]
      BY Zenon
    <3>. QED  BY <1>2, <3>1, Zenon DEF EngineTyped, AccountTyped
  <2>5. gy' \in [Subs -> [octets : Nat, reports : Nat]]
    BY Zenon DEF EngineTyped, AccountTyped
  <2>. QED  BY <2>1, <2>2, <2>3, <2>4, <2>5, Zenon DEF AccountTyped
<1>6. PendingTyped'
  <2>1. \A q \in Subs : counters'[q] = IF q = s THEN UsageSum(used, p) ELSE counters[q]
    BY <1>1, <1>3, Zenon
  <2>2. ASSUME NEW q \in Subs PROVE Pending(q)' \in Balanced
    <3>1. CASE q = s
      <4>1. UsageDiff(UsageSum(used, p), emitted[s]) = UsageSum(UsageDiff(used, emitted[s]), p)
        BY <1>3, BalancedUsage, DiffAfterSum
      <4>. QED  BY <2>1, <3>1, <4>1, BalancedSum, Zenon DEF Pending
    <3>2. CASE q # s
      BY <2>1, <3>2, Zenon DEF Pending, EngineTyped, PendingTyped
    <3>. QED  BY <3>1, <3>2
  <2>3. ASSUME NEW q \in Subs, q >= nextSub' PROVE counters'[q] = NoUsage /\ emitted'[q] = NoUsage
    <3>1. q # s /\ q >= nextSub
      BY <2>3 DEF Subs
    <3>. QED  BY <2>1, <3>1, Zenon DEF EngineTyped, PendingTyped
  <2>. QED  BY <2>2, <2>3, Zenon DEF PendingTyped
<1>7. stats' \in Stats
  <2>1. p.ulBytes \in Nat /\ p.dlBytes \in Nat /\ p.ulPackets \in Nat /\ p.dlPackets \in Nat
    BY Zenon DEF Balanced, Usages
  <2>. QED  BY <1>1, <2>1, StatsKept, Zenon
<1>. QED  BY <1>5, <1>6, <1>7

\* apply() on a bound tunnel.
LEMMA BoundTyped ==
  ASSUME EngineTyped, BindingInv, NEW ev \in Events, ApplyBound(ev), UNCHANGED emitted
  PROVE  AccountTyped' /\ PendingTyped' /\ stats' \in Stats
<1>. DEFINE b == teidMap[ev.teid]
            s == b.sub
            ids == bucketIds[s]
            used == counters[s]
            slots == charged[s]
            rg == ratingGroup[s]
<1>0. ev.teid \in Teids \cup {0} /\ ev.bytes \in Nat
  BY EngineAssumption, Zenon
<1>1. b \in Bindings /\ s \in Subs
  <2>1. b \in Bindings \cup {Unbound} /\ b # Unbound
    BY <1>0, Zenon DEF BindingInv, Shape, ApplyBound
  <2>. QED  BY <2>1, BoundSub, Zenon
<1>2. s < nextSub
  <2>1. s \in active
    BY <1>0, Zenon DEF BindingInv, Shape, BindingSound, ApplyBound
  <2>2. s \in 0 .. nextSub - 1 /\ nextSub \in 0 .. MaxSubscribers
    BY <2>1, Zenon DEF BindingInv, Shape
  <2>. HIDE DEF s
  <2>. QED  BY <2>2, ConstantTypes
<1>3. /\ ids \in [BucketSlots -> Int] /\ used \in Balanced
      /\ slots \in [BucketSlots -> SUBSET Sources] /\ rg \in RatingGroups \cup {0}
  BY <1>1, Zenon DEF EngineTyped, AccountTyped, SessionTyped
<1>4. Charge(s, b, ev, ids, used, slots, rg, Counted(ev)) /\ UNCHANGED <<gy, nextSub>>
  BY Zenon DEF ApplyBound, sessionVars
<1>5. Counted(ev) \in Stats
  BY <1>0, StatsKept, Zenon DEF Counted, EngineTyped
<1>6. UsageDiff(used, emitted[s]) \in Balanced
  BY <1>1, Zenon DEF EngineTyped, PendingTyped, Pending
<1>. HIDE DEF b, s, ids, used, slots, rg
<1>7. nextSub \in Nat /\ nextSub' \in Nat /\ nextSub' >= nextSub /\ s < nextSub'
  <2>1. nextSub \in 0 .. MaxSubscribers /\ nextSub' = nextSub
    BY <1>4, Zenon DEF BindingInv, Shape
  <2>. QED  BY <1>2, <2>1, ConstantTypes
<1>. QED  BY <1>1, <1>3, <1>4, <1>5, <1>6, <1>7, ChargeTyped, Zenon

\* next_sub_ names a subscriber while the table has room.
LEMMA LearnedId ==
  ASSUME BindingInv, nextSub < MaxSubscribers
  PROVE  nextSub \in Nat /\ nextSub \in Subs
BY ConstantTypes DEF BindingInv, Shape, Subs

\* learn_teid: the new subscriber starts with clean books.
LEMMA LearnedTyped ==
  ASSUME EngineTyped, BindingInv, NEW ev \in Events, ApplyLearned(ev), UNCHANGED emitted
  PROVE  AccountTyped' /\ PendingTyped' /\ stats' \in Stats
<1>. DEFINE s == nextSub
            slot == AssignSlot(UnsetIds, 0)
            b == [sub |-> s, dir |-> ev.dir, slot |-> slot.slot]
            st == [Counted(ev) EXCEPT !.learned = @ + 1]
<1>0. ev.bytes \in Nat /\ ev.dir \in {"ul", "dl", "unknown"}
  BY EngineAssumption, Zenon
<1>1. UnsetIds \in [BucketSlots -> Int]
  BY ConstantTypes DEF UnsetIds
<1>2. slot \in [slot : BucketSlots, ids : [BucketSlots -> Int], mixed : BOOLEAN]
  BY <1>1, AssignSlotRecord
<1>3. nextSub \in Nat /\ s \in Subs /\ nextSub' = nextSub + 1 /\ UNCHANGED gy
  <2>1. nextSub < MaxSubscribers /\ nextSub' = nextSub + 1 /\ UNCHANGED gy
    BY Zenon DEF ApplyLearned
  <2>. QED  BY <2>1, LearnedId
<1>4. b \in Bindings /\ slot.ids \in [BucketSlots -> Int]
  BY <1>0, <1>2, <1>3, Zenon DEF Bindings
<1>5. st \in Stats
  <2>1. Counted(ev) \in Stats
    BY <1>0, StatsKept, Zenon DEF Counted, EngineTyped
  <2>. QED  BY <2>1, StatsKept, Zenon
<1>6. counters[s] = NoUsage /\ emitted[s] = NoUsage
  <2>1. s >= nextSub
    BY <1>3
  <2>. QED  BY <1>3, <2>1, Zenon DEF EngineTyped, PendingTyped
<1>7. CASE TableFull(teidMap, ev.teid)
  <2>1. /\ bucketIds' = [bucketIds EXCEPT ![s] = slot.ids]
        /\ stats' = CountedUnknown(ev, [st EXCEPT !.bindFailures = @ + 1])
        /\ UNCHANGED <<counters, metered, aggregated, charged>>
    BY <1>7, Zenon DEF ApplyLearned
  <2>2. bucketIds' \in [Subs -> [BucketSlots -> Int]]
    BY <1>4, <2>1, Zenon DEF EngineTyped, AccountTyped
  <2>3. AccountTyped'
    <3>1. UNCHANGED <<gy, counters, metered, aggregated, charged>>
      BY <1>3, <2>1, Zenon
    <3>. QED  BY <2>2, <3>1 DEF EngineTyped, AccountTyped
  <2>4. PendingTyped'
    <3>1. nextSub' >= nextSub /\ UNCHANGED <<counters, emitted>> /\ Shape /\ Shape'
      <4>1. UNCHANGED <<counters, emitted>> /\ Shape /\ Shape'
        BY <2>1, LearnKeeps, Zenon DEF BindingInv
      <4>2. nextSub' >= nextSub
        <5>. HIDE DEF st, b, slot
        <5>. QED  BY <1>3
      <4>. QED  BY <4>1, <4>2
    <3>. QED  BY <3>1, PendingKept, Zenon DEF EngineTyped
  <2>5. stats' \in Stats
    <3>. HIDE DEF st
    <3>1. [st EXCEPT !.bindFailures = @ + 1] \in Stats
      BY <1>5, StatsKept, Zenon
    <3>. QED  BY <1>0, <2>1, <3>1, StatsKept, Zenon DEF CountedUnknown
  <2>. QED  BY <2>3, <2>4, <2>5
<1>8. CASE ~TableFull(teidMap, ev.teid)
  <2>1. Charge(s, b, ev, slot.ids, NoUsage, NoCharges, 0, st)
    BY <1>8, Zenon DEF ApplyLearned
  <2>2. NoCharges \in [BucketSlots -> SUBSET Sources] /\ 0 \in RatingGroups \cup {0}
    BY DEF NoCharges
  <2>3. UsageDiff(NoUsage, emitted[s]) \in Balanced /\ NoUsage \in Balanced
    BY <1>6, DiffSelf, NoUsageFields, BalancedNothing, Zenon
  <2>4. nextSub' \in Nat /\ nextSub' >= nextSub /\ s < nextSub'
    BY <1>3
  <2>. HIDE DEF b, slot, st
  <2>. QED  BY <1>3, <1>4, <1>5, <2>1, <2>2, <2>3, <2>4, ChargeTyped, Zenon
<1>. QED  BY <1>7, <1>8

\* install_session counts a new subscriber and the tunnels it could not bind.
LEMMA InstallCounted ==
  ASSUME NEW spec, InstallSession(spec)
  PROVE  \E m \in Nat, n \in Nat : stats' = [stats EXCEPT !.installed = @ + m, !.bindFailures = @ + n]
<1>. DEFINE s == IndexFor(spec.imsi)
            slot == AssignSlot(IF IsReinstall(s) THEN bucketIds[s] ELSE UnsetIds, spec.rg)
            map1 == Unbind(teidMap, MovedTeids(s, spec))
            map2 == IF spec.ul = NoTeid THEN map1
                    ELSE Bind(map1, spec.ul, [sub |-> s, dir |-> "ul", slot |-> slot.slot])
            m == IF imsiIndex[spec.imsi] = NoSub THEN 1 ELSE 0
            n == (IF spec.ul # NoTeid /\ TableFull(map1, spec.ul) THEN 1 ELSE 0)
                 + (IF spec.dl # NoTeid /\ TableFull(map2, spec.dl) THEN 1 ELSE 0)
<1>1. stats' = [stats EXCEPT !.installed = @ + m, !.bindFailures = @ + n]
  BY Zenon DEF InstallSession
<1>2. m \in Nat /\ n \in Nat
  <2>1. 0 \in Nat /\ 1 \in Nat /\ 0 + 0 \in Nat /\ 0 + 1 \in Nat /\ 1 + 0 \in Nat /\ 1 + 1 \in Nat
    <3>. HIDE DEF map1, map2, m, n
    <3>. QED  OBVIOUS
  <2>. QED  BY <2>1, Zenon
<1>. HIDE DEF m, n
<1>. QED  BY <1>1, <1>2, Zenon

\* install_session: a new session starts with clean books, a modified one
\* keeps them.
LEMMA InstallTyped ==
  ASSUME EngineTyped, BindingInv, NEW spec \in SessionSpecs, InstallSession(spec)
  PROVE  EngineTyped'
<1>. DEFINE s == IndexFor(spec.imsi)
            slot == AssignSlot(IF IsReinstall(s) THEN bucketIds[s] ELSE UnsetIds, spec.rg)
<1>0. spec.imsi \in Imsis /\ spec.rg \in RatingGroups
  BY DEF SessionSpecs
<1>1. s \in Subs /\ nextSub' >= nextSub /\ pc = "idle"
  <2>1. /\ s < MaxSubscribers /\ pc = "idle"
        /\ nextSub' = IF imsiIndex[spec.imsi] = NoSub THEN nextSub + 1 ELSE nextSub
    BY Zenon DEF InstallSession, Ready
  <2>2. imsiIndex[spec.imsi] \in (0 .. nextSub - 1) \cup {NoSub} /\ nextSub \in 0 .. MaxSubscribers
    BY <1>0, Zenon DEF BindingInv, Shape
  <2>3. s = IF imsiIndex[spec.imsi] = NoSub THEN nextSub ELSE imsiIndex[spec.imsi]
    BY Zenon DEF IndexFor
  <2>. HIDE DEF s, slot
  <2>. QED  BY <2>1, <2>2, <2>3, ConstantTypes DEF Subs, NoSub
<1>2. slot \in [slot : BucketSlots, ids : [BucketSlots -> Int], mixed : BOOLEAN]
  <2>1. (IF IsReinstall(s) THEN bucketIds[s] ELSE UnsetIds) \in [BucketSlots -> Int]
    BY <1>1, ConstantTypes DEF UnsetIds, EngineTyped, AccountTyped
  <2>2. spec.rg \in Int
    <3>1. RatingGroups \subseteq Nat
      BY EngineAssumption, Zenon
    <3>2. \A n \in Nat : n \in Int
      OBVIOUS
    <3>. QED  BY <1>0, <3>1, <3>2, Zenon
  <2>. QED  BY <2>1, <2>2, AssignSlotRecord, Zenon
<1>3. Shape /\ Shape'
  BY InstallKeeps DEF BindingInv
<1>4. /\ ratingGroup' = [ratingGroup EXCEPT ![s] = spec.rg]
      /\ bucketIds' = [bucketIds EXCEPT ![s] = slot.ids]
      /\ aggregated' = (IF IsReinstall(s) THEN aggregated ELSE aggregated \ {s}) \cup MarkMixed(s, slot.mixed)
      /\ UNCHANGED <<sink, metered, reported, lost, emissions, loopVars, hung>>
  BY Zenon DEF InstallSession
<1>5. IF IsReinstall(s)
       THEN UNCHANGED <<counters, emitted, recordSeq, age, gy, charged>>
       ELSE /\ counters' = [counters EXCEPT ![s] = NoUsage]
            /\ emitted' = [emitted EXCEPT ![s] = NoUsage]
            /\ recordSeq' = [recordSeq EXCEPT ![s] = 0]
            /\ age' = [age EXCEPT ![s] = 0]
            /\ gy' = [gy EXCEPT ![s] = NoGy]
            /\ charged' = [charged EXCEPT ![s] = NoCharges]
  BY Zenon DEF InstallSession
<1>6. stats' \in Stats
  <2>1. PICK m \in Nat, n \in Nat : stats' = [stats EXCEPT !.installed = @ + m, !.bindFailures = @ + n]
    BY InstallCounted, Zenon
  <2>. QED  BY <2>1, StatsKept, Zenon DEF EngineTyped
<1>. HIDE DEF s, slot
<1>7. SessionTyped'
  BY <1>0, <1>1, <1>3, <1>4, Zenon DEF EngineTyped, SessionTyped
<1>8. AccountTyped'
  <2>1. bucketIds' \in [Subs -> [BucketSlots -> Int]]
    BY <1>1, <1>2, <1>4 DEF EngineTyped, AccountTyped
  <2>2. aggregated' \subseteq Subs
    BY <1>1, <1>4, Zenon DEF EngineTyped, AccountTyped, MarkMixed
  <2>3. NoGy \in [octets : Nat, reports : Nat] /\ NoCharges \in [BucketSlots -> SUBSET Sources]
    BY DEF NoGy, NoCharges
  <2>4. /\ counters' \in [Subs -> Balanced]
        /\ charged' \in [Subs -> [BucketSlots -> SUBSET Sources]]
        /\ gy' \in [Subs -> [octets : Nat, reports : Nat]]
    <3>1. /\ counters \in [Subs -> Balanced]
          /\ charged \in [Subs -> [BucketSlots -> SUBSET Sources]]
          /\ gy \in [Subs -> [octets : Nat, reports : Nat]]
      BY Zenon DEF EngineTyped, AccountTyped
    <3>2. CASE IsReinstall(s)
      BY <1>5, <3>1, <3>2, Zenon
    <3>3. CASE ~IsReinstall(s)
      BY <1>5, <2>3, <3>1, <3>3, BalancedNothing, Zenon
    <3>. QED  BY <3>2, <3>3
  <2>5. metered' \in [Subs -> Balanced]
    BY <1>4, Zenon DEF EngineTyped, AccountTyped
  <2>. QED  BY <2>1, <2>2, <2>4, <2>5, Zenon DEF AccountTyped
<1>9. ReportTyped'
  <2>1. /\ emitted' \in [Subs -> Balanced] /\ recordSeq' \in [Subs -> Nat]
        /\ age' \in [Subs -> 0 .. ReportInterval]
    <3>1. 0 \in Nat /\ 0 \in 0 .. ReportInterval
      BY ConstantTypes
    <3>. QED  BY <1>5, <3>1, BalancedNothing, Zenon DEF EngineTyped, ReportTyped
  <2>2. /\ sink' \in Seq(Records) /\ Len(sink') <= SinkCapacity
        /\ reported' \in [Subs -> Balanced] /\ lost' \in [Subs -> Balanced] /\ emissions' \in [Subs -> Nat]
    BY <1>4, Zenon DEF EngineTyped, ReportTyped
  <2>. QED  BY <2>1, <2>2, Zenon DEF ReportTyped
<1>10. LoopTyped'
  BY <1>1, <1>3, <1>4, LoopIdle, Zenon DEF EngineTyped
<1>11. PendingTyped'
  <2>1. CASE IsReinstall(s)
    BY <1>1, <1>3, <1>5, <2>1, PendingKept, Zenon DEF EngineTyped
  <2>2. CASE ~IsReinstall(s)
    <3>1. \A q \in Subs : /\ counters'[q] = IF q = s THEN NoUsage ELSE counters[q]
                          /\ emitted'[q] = IF q = s THEN NoUsage ELSE emitted[q]
      <4>1. counters' = [counters EXCEPT ![s] = NoUsage] /\ emitted' = [emitted EXCEPT ![s] = NoUsage]
        BY <1>5, <2>2, Zenon
      <4>2. counters \in [Subs -> Balanced] /\ emitted \in [Subs -> Balanced]
        BY Zenon DEF EngineTyped, AccountTyped, ReportTyped
      <4>. QED  BY <1>1, <4>1, <4>2, Zenon
    <3>2. \A q \in Subs : q >= nextSub' => q >= nextSub
      BY <1>1, <1>3, ConstantTypes DEF Shape, Subs
    <3>3. ASSUME NEW q \in Subs PROVE Pending(q)' \in Balanced
      <4>1. CASE q = s
        BY <3>1, <4>1, DiffSelf, NoUsageFields, BalancedNothing, Zenon DEF Pending
      <4>2. CASE q # s
        BY <3>1, <4>2, Zenon DEF Pending, EngineTyped, PendingTyped
      <4>. QED  BY <4>1, <4>2
    <3>4. \A q \in Subs : q >= nextSub' => counters'[q] = NoUsage /\ emitted'[q] = NoUsage
      BY <3>1, <3>2, Zenon DEF EngineTyped, PendingTyped
    <3>. QED  BY <3>3, <3>4, Zenon DEF PendingTyped
  <2>. QED  BY <2>1, <2>2
<1>12. hung' \in BOOLEAN
  BY <1>4, Zenon DEF EngineTyped
<1>. QED  BY <1>6, <1>7, <1>8, <1>9, <1>10, <1>11, <1>12, Zenon DEF EngineTyped

\* apply() and apply_gy() leave the reports and the loops alone.
LEMMA ApplyTyped ==
  ASSUME EngineTyped, BindingInv, NEW ev \in Events, Apply(ev)
  PROVE  EngineTyped'
<1>0. /\ UNCHANGED <<emitted, recordSeq, sink, reported, lost, emissions>>
      /\ UNCHANGED <<loopVars, hung>> /\ pc = "idle" /\ UNCHANGED emitted
  BY DEF Apply, Ready
<1>1. ev.bytes \in Nat
  BY EngineAssumption, Zenon
<1>2. Counted(ev) \in Stats
  BY <1>1, StatsKept, Zenon DEF Counted, EngineTyped
<1>3. ReportTyped' /\ hung' \in BOOLEAN
  <2>1. age \in [Subs -> 0 .. ReportInterval]
    BY Zenon DEF EngineTyped, ReportTyped
  <2>2. age' = age \/ \E a \in 0 .. ReportInterval : age' = [age EXCEPT ![nextSub] = a]
    BY Zenon DEF Apply, ApplyControl, ApplyBound, ApplyUnknown, ApplyLearned
  <2>3. age' \in [Subs -> 0 .. ReportInterval]
    BY <2>1, <2>2, Zenon
  <2>. QED  BY <1>0, <2>3, Zenon DEF EngineTyped, ReportTyped
<1>4. SessionTyped'
  <2>1. Shape'
    BY ApplyKeeps, Zenon DEF BindingInv
  <2>2. ratingGroup' = ratingGroup \/ ratingGroup' = [ratingGroup EXCEPT ![nextSub] = 0]
    BY Zenon DEF Apply, ApplyControl, ApplyBound, ApplyUnknown, ApplyLearned, sessionVars
  <2>. QED  BY <2>1, <2>2, Zenon DEF EngineTyped, SessionTyped
<1>5. Shape /\ Shape' /\ nextSub' >= nextSub
  <2>1. nextSub' = nextSub \/ nextSub' = nextSub + 1
    BY Zenon DEF Apply, ApplyControl, ApplyBound, ApplyUnknown, ApplyLearned, sessionVars
  <2>2. Shape /\ Shape' /\ nextSub \in 0 .. MaxSubscribers
    BY <1>4, Zenon DEF SessionTyped, EngineTyped, Shape
  <2>. QED  BY <2>1, <2>2
<1>6. LoopTyped'
  BY <1>0, <1>5, LoopIdle, Zenon DEF EngineTyped
<1>7. AccountTyped' /\ PendingTyped' /\ stats' \in Stats
  <2>1. CASE ApplyControl(ev)
    <3>1. UNCHANGED accountVars /\ UNCHANGED <<counters, emitted>>
      BY <1>0, <2>1, Zenon DEF ApplyControl, accountVars
    <3>2. stats' \in Stats
      BY <1>2, <2>1, StatsKept, Zenon DEF ApplyControl
    <3>. QED  BY <1>5, <3>1, <3>2, AccountKept, PendingKept, Zenon DEF EngineTyped
  <2>2. CASE ApplyUnknown(ev)
    <3>1. UNCHANGED accountVars /\ UNCHANGED <<counters, emitted>>
      BY <1>0, <2>2, Zenon DEF ApplyUnknown, accountVars
    <3>2. stats' \in Stats
      BY <1>1, <1>2, <2>2, StatsKept, Zenon DEF ApplyUnknown, CountedUnknown
    <3>. QED  BY <1>5, <3>1, <3>2, AccountKept, PendingKept, Zenon DEF EngineTyped
  <2>3. CASE ApplyBound(ev)
    BY <1>0, <2>3, BoundTyped, Zenon
  <2>4. CASE ApplyLearned(ev)
    BY <1>0, <2>4, LearnedTyped, Zenon
  <2>. QED  BY <2>1, <2>2, <2>3, <2>4, Zenon DEF Apply
<1>. QED  BY <1>3, <1>4, <1>6, <1>7, Zenon DEF EngineTyped

\* apply_gy() adds to the Gy view of one subscriber.
LEMMA GyTyped ==
  ASSUME EngineTyped, BindingInv, NEW imsi \in Imsis, NEW usable, NEW octets \in GyOctets,
         ApplyGy(imsi, usable, octets)
  PROVE  EngineTyped'
<1>. DEFINE s == imsiIndex[imsi]
<1>0. UNCHANGED <<sessionVars, bucketIds, aggregated, counters, metered, charged, reportVars, loopVars, hung>>
  BY Zenon DEF ApplyGy
<1>1. octets \in Nat
  BY EngineAssumption, Zenon
<1>2. SessionTyped' /\ ReportTyped' /\ LoopTyped' /\ PendingTyped' /\ hung' \in BOOLEAN
  <2>1. /\ UNCHANGED <<counters, emitted>> /\ UNCHANGED <<loopVars, nextSub>> /\ UNCHANGED reportVars
        /\ UNCHANGED ratingGroup /\ UNCHANGED sessionVars /\ UNCHANGED hung
    BY <1>0 DEF sessionVars, reportVars
  <2>2. SessionTyped'
    BY <2>1, SessionUnchanged, Zenon DEF EngineTyped, SessionTyped, BindingInv
  <2>3. nextSub' >= nextSub /\ Shape /\ Shape'
    <3>1. nextSub' = nextSub /\ nextSub \in 0 .. MaxSubscribers /\ Shape /\ Shape'
      BY <2>1, <2>2, Zenon DEF EngineTyped, SessionTyped, Shape
    <3>. QED  BY <3>1, ConstantTypes
  <2>. QED  BY <2>1, <2>2, <2>3, ReportKept, LoopKept, PendingKept, Zenon DEF EngineTyped
<1>3. gy' \in [Subs -> [octets : Nat, reports : Nat]]
  <2>0. gy \in [Subs -> [octets : Nat, reports : Nat]]
    BY Zenon DEF EngineTyped, AccountTyped
  <2>1. CASE usable /\ s # NoSub
    <3>1. gy' = [gy EXCEPT ![s] = [octets |-> @.octets + octets, reports |-> @.reports + 1]]
      BY <2>1, Zenon DEF ApplyGy
    <3>2. \A q \in Subs : [octets |-> gy[q].octets + octets, reports |-> gy[q].reports + 1]
                            \in [octets : Nat, reports : Nat]
      BY <1>1, <2>0
    <3>. QED  BY <2>0, <3>1, <3>2, Zenon
  <2>2. CASE ~(usable /\ s # NoSub)
    BY <2>0, <2>2, Zenon DEF ApplyGy
  <2>. QED  BY <2>1, <2>2
<1>4. AccountTyped'
  BY <1>0, <1>3, Zenon DEF EngineTyped, AccountTyped
<1>5. stats' \in Stats
  <2>1. /\ [stats EXCEPT !.gyEvents = @ + 1] \in Stats
        /\ [stats EXCEPT !.gyEvents = @ + 1, !.gyOctets = @ + octets] \in Stats
    BY <1>1, StatsKept, Zenon DEF EngineTyped
  <2>. QED  BY <2>1, Zenon DEF ApplyGy
<1>. QED  BY <1>2, <1>4, <1>5, Zenon DEF EngineTyped

\* A visit to a subscriber, by poll(), drain() or a release: a record or nothing.
LEMMA VisitTyped ==
  ASSUME EngineTyped, UNCHANGED accountVars, UNCHANGED nextSub, Shape', NEW s \in Subs, s < nextSub,
         \/ UNCHANGED <<reportVars, stats>>
         \/ \E reason \in Reasons, st \in Stats : EmitRecord(s, reason, st)
  PROVE  AccountTyped' /\ ReportTyped' /\ PendingTyped' /\ stats' \in Stats
<1>1. AccountTyped'
  BY AccountKept, Zenon DEF EngineTyped
<1>2. CASE UNCHANGED <<reportVars, stats>>
  <2>1. UNCHANGED <<counters, emitted>> /\ UNCHANGED reportVars /\ UNCHANGED stats
    BY <1>2 DEF accountVars, reportVars
  <2>2. nextSub' >= nextSub /\ Shape /\ Shape'
    <3>1. nextSub \in 0 .. MaxSubscribers /\ Shape
      BY Zenon DEF EngineTyped, SessionTyped, Shape
    <3>. QED  BY <3>1
  <2>. QED  BY <1>1, <2>1, <2>2, ReportKept, PendingKept, Zenon DEF EngineTyped
<1>3. CASE \E reason \in Reasons, st \in Stats : EmitRecord(s, reason, st)
  BY <1>1, <1>3, EmitTyped, Zenon
<1>. QED  BY <1>2, <1>3

\* release_session leaves a record, whether it returns or not.
LEMMA ReleaseTyped ==
  ASSUME EngineTyped, BindingInv, BindingInv', NEW imsi \in Imsis,
         ReleaseSession(imsi) \/ ReleaseHangs(imsi)
  PROVE  EngineTyped'
<1>. DEFINE s == imsiIndex[imsi]
<1>1. /\ s \in active
      /\ UNCHANGED accountVars /\ UNCHANGED nextSub /\ UNCHANGED loopVars /\ UNCHANGED ratingGroup
      /\ hung' \in BOOLEAN
  BY Zenon DEF ReleaseSession, ReleaseHangs, sessionVars, EngineTyped
<1>2. s \in Subs /\ s < nextSub
  <2>1. s \in 0 .. nextSub - 1 /\ nextSub \in 0 .. MaxSubscribers
    BY <1>1, Zenon DEF BindingInv, Shape
  <2>. QED  BY <2>1, ConstantTypes DEF Subs
<1>3. \E reason \in Reasons, st \in Stats : EmitRecord(s, reason, st)
  <2>1. [stats EXCEPT !.released = @ + 1] \in Stats /\ stats \in Stats
    BY StatsKept, Zenon DEF EngineTyped
  <2>2. "release" \in Reasons
    BY DEF Reasons
  <2>. QED  BY <2>1, <2>2, Zenon DEF ReleaseSession, ReleaseHangs
<1>4. Shape' /\ SessionTyped' /\ LoopTyped'
  BY <1>1, LoopKept, Zenon DEF BindingInv, SessionTyped, EngineTyped
<1>. HIDE DEF s
<1>5. AccountTyped' /\ ReportTyped' /\ PendingTyped' /\ stats' \in Stats
  BY <1>1, <1>2, <1>3, <1>4, VisitTyped, Zenon
<1>. QED  BY <1>1, <1>4, <1>5, Zenon DEF EngineTyped

\* poll() and drain() visit subscribers that exist, one per iteration.
LEMMA LoopTypedVisits ==
  ASSUME EngineTyped, BindingInv, BindingInv', PollVisit \/ DrainVisit
  PROVE  EngineTyped'
<1>1. /\ UNCHANGED accountVars /\ UNCHANGED sessionVars /\ UNCHANGED nextSub /\ UNCHANGED ratingGroup
      /\ UNCHANGED hung /\ UNCHANGED sinceSweep
  BY Zenon DEF PollVisit, DrainVisit, sessionVars
<1>2. Shape' /\ SessionTyped' /\ hung' \in BOOLEAN
  BY <1>1, Zenon DEF BindingInv, SessionTyped, EngineTyped
<1>3. /\ nextSub \in Nat /\ nextSub <= MaxSubscribers /\ MaxSubscribers \in Nat /\ loop \in Nat
      /\ sweepCursor \in Nat /\ sweepCursor <= nextSub /\ loop <= MaxSubscribers
      /\ (pc = "poll" => loop >= 1 /\ nextSub > 0)
      /\ (pc = "drain" => loop < nextSub)
      /\ sinceSweep \in 0 .. SweepPeriod
  <2>1. /\ nextSub \in 0 .. MaxSubscribers /\ loop \in 0 .. MaxSubscribers /\ sweepCursor \in 0 .. nextSub
        /\ (pc = "poll" => loop >= 1 /\ nextSub > 0)
        /\ (pc = "drain" => loop < nextSub)
        /\ sinceSweep \in 0 .. SweepPeriod
    BY Zenon DEF EngineTyped, LoopTyped, BindingInv, Shape
  <2>. QED  BY <2>1, ConstantTypes
<1>4. LoopTyped'
  <2>1. CASE PollVisit
    <3>1. pc = "poll" /\ sweepCursor' = SweepNext + 1 /\ loop' = loop - 1
          /\ pc' = IF loop = 1 THEN "idle" ELSE "poll"
      BY <2>1, Zenon DEF PollVisit
    <3>2. SweepNext \in Nat /\ SweepNext < nextSub
      BY <1>3, <3>1 DEF SweepNext
    <3>. QED  BY <1>1, <1>3, <3>1, <3>2 DEF LoopTyped
  <2>2. CASE DrainVisit
    <3>1. /\ pc = "drain" /\ loop' = (IF loop + 1 = nextSub THEN 0 ELSE loop + 1)
          /\ pc' = (IF loop + 1 = nextSub THEN "idle" ELSE "drain") /\ UNCHANGED sweepCursor
      BY <2>2, Zenon DEF DrainVisit
    <3>. QED  BY <1>1, <1>3, <3>1 DEF LoopTyped
  <2>. QED  BY <2>1, <2>2
<1>5. AccountTyped' /\ ReportTyped' /\ PendingTyped' /\ stats' \in Stats
  <2>0. stats \in Stats
    BY Zenon DEF EngineTyped
  <2>1. CASE PollVisit
    <3>1. pc = "poll"
      BY <2>1, Zenon DEF PollVisit
    <3>2. SweepNext \in Subs /\ SweepNext < nextSub
      BY <1>3, <3>1 DEF SweepNext, Subs
    <3>3. PollReason(SweepNext) \in Reasons
      BY DEF PollReason, Reasons
    <3>4. \/ UNCHANGED <<reportVars, stats>>
          \/ \E reason \in Reasons, st \in Stats : EmitRecord(SweepNext, reason, st)
      BY <2>0, <2>1, <3>3, Zenon DEF PollVisit
    <3>. QED  BY <1>1, <1>2, <3>2, <3>4, VisitTyped, Zenon
  <2>2. CASE DrainVisit
    <3>1. pc = "drain"
      BY <2>2, Zenon DEF DrainVisit
    <3>2. loop \in Subs /\ loop < nextSub
      BY <1>3, <3>1 DEF Subs
    <3>3. "shutdown" \in Reasons
      BY DEF Reasons
    <3>4. \/ UNCHANGED <<reportVars, stats>>
          \/ \E reason \in Reasons, st \in Stats : EmitRecord(loop, reason, st)
      BY <2>0, <2>2, <3>3, Zenon DEF DrainVisit
    <3>. QED  BY <1>1, <1>2, <3>2, <3>4, VisitTyped, Zenon
  <2>. QED  BY <2>1, <2>2
<1>. QED  BY <1>2, <1>4, <1>5, Zenon DEF EngineTyped

\* A quotient is no larger than the number divided.
LEMMA QuotientBound ==
  ASSUME NEW a \in Nat, NEW c \in Nat, c >= 1
  PROVE  a \div c \in 0 .. a
<1>1. PICK q \in Nat, r \in Nat : q = a \div c /\ a = c * q + r
  <2>1. a \div c \in Nat /\ a % c \in Nat /\ a = c * (a \div c) + (a % c)
    OBVIOUS
  <2>. QED  BY <2>1
<1>2. PICK d \in Nat : c = 1 + d
  <2>1. c - 1 \in Nat /\ c = 1 + (c - 1)
    OBVIOUS
  <2>. QED  BY <2>1
<1>3. c * q = q + d * q /\ d * q \in Nat
  BY <1>2
<1>. QED  BY <1>1, <1>3

\* Calls and sweeps that begin, the reporter, time, and a call that hangs.
LEMMA RestTyped ==
  ASSUME EngineTyped, BindingInv, BindingInv',
         \/ PollBegin \/ DrainBegin \/ ReporterTakes \/ Tick
         \/ \E spec \in SessionSpecs : InstallHangs(spec)
  PROVE  EngineTyped'
<1>1. UNCHANGED accountVars /\ UNCHANGED stats
  BY Zenon DEF PollBegin, DrainBegin, ReporterTakes, Tick, InstallHangs
<1>2. UNCHANGED <<nextSub, counters>>
  <2>1. UNCHANGED nextSub
    BY Zenon DEF PollBegin, DrainBegin, ReporterTakes, Tick, InstallHangs, sessionVars
  <2>. QED  BY <1>1, <2>1 DEF accountVars
<1>3. UNCHANGED emitted /\ hung' \in BOOLEAN
  BY Zenon DEF PollBegin, DrainBegin, ReporterTakes, Tick, InstallHangs, EngineTyped, reportVars
<1>4. Shape /\ Shape' /\ nextSub \in 0 .. MaxSubscribers
  BY Zenon DEF BindingInv, Shape
<1>5. SessionTyped' /\ AccountTyped' /\ stats' \in Stats
  <2>1. ratingGroup' = ratingGroup \/ \E s, rg : rg \in RatingGroups /\ ratingGroup' = [ratingGroup EXCEPT ![s] = rg]
    <3>1. CASE PollBegin \/ DrainBegin \/ ReporterTakes \/ Tick
      BY <3>1, Zenon DEF PollBegin, DrainBegin, ReporterTakes, Tick, sessionVars
    <3>2. ASSUME NEW spec \in SessionSpecs, InstallHangs(spec)
          PROVE  spec.rg \in RatingGroups /\ \E s : ratingGroup' = [ratingGroup EXCEPT ![s] = spec.rg]
      <4>1. spec.rg \in RatingGroups
        BY DEF SessionSpecs
      <4>. QED  BY <3>2, <4>1, Zenon DEF InstallHangs
    <3>. QED  BY <3>1, <3>2, Zenon
  <2>2. SessionTyped'
    BY <1>4, <2>1, Zenon DEF EngineTyped, SessionTyped
  <2>. QED  BY <1>1, <2>2, AccountKept, Zenon DEF EngineTyped
<1>6. PendingTyped'
  <2>1. nextSub' >= nextSub /\ UNCHANGED <<counters, emitted>>
    BY <1>2, <1>3, <1>4
  <2>. QED  BY <1>4, <2>1, PendingKept, Zenon DEF EngineTyped
<1>7. LoopTyped'
  <2>0. /\ nextSub \in Nat /\ nextSub <= MaxSubscribers /\ MaxSubscribers \in Nat /\ nextSub' = nextSub
        /\ SweepPeriod \in Nat /\ SweepFraction \in Nat
    BY <1>2, <1>4, ConstantTypes
  <2>1. CASE PollBegin
    <3>1. /\ pc = "idle" /\ sinceSweep' = 0 /\ UNCHANGED sweepCursor
          /\ IF nextSub = 0
               THEN UNCHANGED <<pc, loop>>
               ELSE /\ pc' = "poll"
                    /\ loop' = LargerOf(1, nextSub \div LargerOf(1, SweepFraction))
      BY <2>1, Zenon DEF PollBegin, Ready
    <3>2. nextSub # 0 => LargerOf(1, nextSub \div LargerOf(1, SweepFraction)) \in 1 .. MaxSubscribers
      <4>1. LargerOf(1, SweepFraction) \in Nat /\ LargerOf(1, SweepFraction) >= 1
        BY <2>0 DEF LargerOf
      <4>2. \A k \in Nat : k >= 1 => nextSub \div k \in 0 .. nextSub
        BY <2>0, QuotientBound
      <4>3. nextSub \div LargerOf(1, SweepFraction) \in 0 .. nextSub
        BY <4>1, <4>2
      <4>. QED  BY <2>0, <4>3 DEF LargerOf
    <3>. QED  BY <2>0, <3>1, <3>2 DEF EngineTyped, LoopTyped
  <2>2. CASE DrainBegin
    <3>1. nextSub > 0 /\ pc' = "drain" /\ loop' = 0 /\ UNCHANGED <<sweepCursor, sinceSweep>>
      BY <2>2, Zenon DEF DrainBegin
    <3>. QED  BY <2>0, <3>1 DEF EngineTyped, LoopTyped
  <2>3. CASE Tick
    <3>1. /\ UNCHANGED <<pc, loop, sweepCursor>>
          /\ sinceSweep' = IF sinceSweep < SweepPeriod THEN sinceSweep + 1 ELSE sinceSweep
      BY <2>3, Zenon DEF Tick
    <3>. QED  BY <2>0, <3>1 DEF EngineTyped, LoopTyped
  <2>4. CASE ReporterTakes \/ \E spec \in SessionSpecs : InstallHangs(spec)
    <3>1. UNCHANGED loopVars /\ UNCHANGED nextSub
      BY <1>2, <2>4, Zenon DEF ReporterTakes, InstallHangs
    <3>. QED  BY <3>1, LoopKept, Zenon DEF EngineTyped
  <2>. QED  BY <2>1, <2>2, <2>3, <2>4
<1>8. ReportTyped'
  <2>1. CASE PollBegin \/ DrainBegin \/ \E spec \in SessionSpecs : InstallHangs(spec)
    BY <2>1, ReportKept, Zenon DEF PollBegin, DrainBegin, InstallHangs, EngineTyped
  <2>2. CASE ReporterTakes
    <3>1. sink \in Seq(Records) /\ Len(sink) <= SinkCapacity /\ sink # << >> /\ SinkCapacity \in Nat
      BY <2>2, EngineAssumption, Zenon DEF ReporterTakes, EngineTyped, ReportTyped
    <3>2. Tail(sink) \in Seq(Records) /\ Len(Tail(sink)) <= SinkCapacity
      BY <3>1
    <3>3. sink' = Tail(sink) /\ UNCHANGED <<emitted, recordSeq, age, reported, lost, emissions>>
      BY <2>2, Zenon DEF ReporterTakes
    <3>. QED  BY <3>2, <3>3, Zenon DEF EngineTyped, ReportTyped
  <2>3. CASE Tick
    <3>1. age \in [Subs -> 0 .. ReportInterval] /\ ReportInterval \in Nat
      BY EngineAssumption, Zenon DEF EngineTyped, ReportTyped
    <3>2. /\ age' = [s \in Subs |-> IF age[s] < ReportInterval THEN age[s] + 1 ELSE age[s]]
          /\ UNCHANGED <<emitted, recordSeq, sink, reported, lost, emissions>>
      BY <2>3, Zenon DEF Tick
    <3>3. age' \in [Subs -> 0 .. ReportInterval]
      BY <3>1, <3>2
    <3>. QED  BY <3>2, <3>3, Zenon DEF EngineTyped, ReportTyped
  <2>. QED  BY <2>1, <2>2, <2>3
<1>. QED  BY <1>3, <1>5, <1>6, <1>7, <1>8, Zenon DEF EngineTyped

\* Every operation of the engine keeps the shape of its books.
LEMMA EngineTypedNext == EngineTyped /\ BindingInv /\ [Next]_vars => EngineTyped'
<1>. SUFFICES ASSUME EngineTyped, BindingInv, [Next]_vars PROVE EngineTyped'
  OBVIOUS
<1>0. BindingInv'
  BY BindingInvNext, Zenon
<1>1. ASSUME NEW spec \in SessionSpecs, InstallSession(spec) PROVE EngineTyped'
  BY <1>1, InstallTyped, Zenon
<1>2. ASSUME NEW spec \in SessionSpecs, InstallHangs(spec) PROVE EngineTyped'
  BY <1>0, <1>2, RestTyped, Zenon
<1>3. ASSUME NEW imsi \in Imsis, ReleaseSession(imsi) \/ ReleaseHangs(imsi) PROVE EngineTyped'
  BY <1>0, <1>3, ReleaseTyped, Zenon
<1>4. ASSUME NEW ev \in Events, Apply(ev) PROVE EngineTyped'
  BY <1>4, ApplyTyped, Zenon
<1>5. ASSUME NEW imsi \in Imsis, NEW usable \in BOOLEAN, NEW octets \in GyOctets,
             ApplyGy(imsi, usable, octets)
      PROVE  EngineTyped'
  BY <1>5, GyTyped, Zenon
<1>6. CASE DrainBegin \/ PollBegin \/ ReporterTakes \/ Tick
  BY <1>0, <1>6, RestTyped, Zenon
<1>7. CASE PollVisit \/ DrainVisit
  BY <1>0, <1>7, LoopTypedVisits, Zenon
<1>8. CASE UNCHANGED vars
  <2>1. /\ UNCHANGED accountVars /\ UNCHANGED reportVars /\ UNCHANGED <<loopVars, nextSub>>
        /\ UNCHANGED <<counters, emitted>> /\ UNCHANGED ratingGroup /\ UNCHANGED stats /\ UNCHANGED hung
    BY <1>8, Zenon DEF vars, sessionVars, accountVars, reportVars
  <2>2. Shape /\ Shape' /\ nextSub \in 0 .. MaxSubscribers
    BY <1>0, Zenon DEF BindingInv, Shape
  <2>3. nextSub' >= nextSub
    BY <2>1, <2>2
  <2>. QED  BY <2>1, <2>2, <2>3, AccountKept, ReportKept, LoopKept, PendingKept, Zenon
    DEF EngineTyped, SessionTyped
<1>. QED
  BY <1>1, <1>2, <1>3, <1>4, <1>5, <1>6, <1>7, <1>8, Zenon
  DEF Next, Control, ControlOp, Data, Reporting

\* What both invariants together always hold of.
LEMMA EngineTypedAlways == Spec => [](EngineTyped /\ BindingInv)
  BY BindingInvInit, BindingInvNext, EngineTypedInit, EngineTypedNext, PTL DEF Spec

\* Every piece of engine state keeps the shape meter.hpp gives it: next_sub_
\* never passes the table, the cursors of poll() and drain() stay on existing
\* subscribers, and no counter is ever below what was reported of it.
THEOREM EngineTypeOK == Spec => []TypeOK
  BY EngineTypedAlways, EngineTypedOK, PTL

\* The buckets of every record in the sink add up to the bytes of its two
\* directions (emit_record copies both from the same counters).
THEOREM EngineRecordsBalanced == Spec => []RecordsBalanced
<1>1. EngineTyped => RecordsBalanced
  <2>. SUFFICES ASSUME EngineTyped, NEW i \in DOMAIN sink
                PROVE  sink[i].used.bucketBytes[0] + sink[i].used.bucketBytes[1] + sink[i].used.bucketBytes[2]
                         = sink[i].used.ulBytes + sink[i].used.dlBytes
    BY Zenon DEF RecordsBalanced, TotalBytes
  <2>1. sink \in Seq(Records)
    BY Zenon DEF EngineTyped, ReportTyped
  <2>2. sink[i] \in Records
    BY <2>1
  <2>3. sink[i].used \in Balanced
    BY <2>2 DEF Records
  <2>. QED  BY <2>3, Zenon DEF Balanced
<1>. QED  BY EngineTypedAlways, <1>1, PTL

-----------------------------------------------------------------------------
(* Pure buckets *)

\* One subscriber's buckets: ids, whether the aggregate is flagged, and what
\* each slot was charged for.
Pure(ids, mixed, slots) ==
  \A i \in BucketSlots :
    \/ i = AggregateSlot /\ mixed
    \/ \A c \in slots[i] : BucketId(c) \in {ids[i], UnsetBucket}

\* A slot may take usage of an id: it has that name, or is the flagged aggregate.
\* Usage of the unset id may be in any slot.
Named(slot, id, ids, mixed) ==
  id = UnsetBucket \/ ids[slot] = id \/ (slot = AggregateSlot /\ mixed)

\* A binding meters its subscriber's rating group.
SlotsNamed ==
  \A t \in Teids \cup {0} : teidMap[t] # Unbound =>
    Named(teidMap[t].slot, ratingGroup[teidMap[t].sub],
          bucketIds[teidMap[t].sub], teidMap[t].sub \in aggregated)

\* A call that hangs leaves a session half modified, and nothing is charged after.
PureInv == stats.bindFailures = 0 => BucketsPure /\ (~hung => SlotsNamed)

\* Buckets are pure when every subscriber's are.
LEMMA PureEach == BucketsPure <=> \A s \in Subs : Pure(bucketIds[s], s \in aggregated, charged[s])
  BY Zenon DEF BucketsPure, Pure

\* A name in a slot stays when assign_slot looks for another.
LEMMA AssignKeepsNames ==
  ASSUME NEW ids \in [BucketSlots -> Int], NEW id \in Int, NEW i \in BucketSlots, ids[i] # UnsetBucket
  PROVE  AssignSlot(ids, id).ids[i] = ids[i]
<1>. DEFINE r == AssignSlot(ids, id)
<1>1. \/ r.ids = ids
      \/ r.ids = [ids EXCEPT ![r.slot] = id] /\ ids[r.slot] = UnsetBucket
  BY AssignSlotResult, Zenon
<1>. HIDE DEF r
<1>2. r.ids[i] = ids[i]
  BY <1>1, Zenon
<1>. QED  BY <1>2, Zenon DEF r

\* Assigning a slot keeps buckets pure: a slot it renames was never charged.
LEMMA AssignPure ==
  ASSUME NEW ids \in [BucketSlots -> Int], NEW id \in Int, NEW mixed,
         NEW slots \in [BucketSlots -> SUBSET Sources], Pure(ids, mixed, slots)
  PROVE  Pure(AssignSlot(ids, id).ids, mixed \/ AssignSlot(ids, id).mixed, slots)
<1>. SUFFICES ASSUME NEW i \in BucketSlots, ~(i = AggregateSlot /\ mixed), NEW c \in slots[i]
              PROVE  BucketId(c) \in {AssignSlot(ids, id).ids[i], UnsetBucket}
  BY Zenon DEF Pure
<1>1. BucketId(c) \in {ids[i], UnsetBucket}
  BY Zenon DEF Pure
<1>2. ids[i] # UnsetBucket => AssignSlot(ids, id).ids[i] = ids[i]
  BY AssignKeepsNames, Zenon
<1>. QED  BY <1>1, <1>2, Zenon

\* The slot assign_slot returns may take usage of that id.
LEMMA AssignNames ==
  ASSUME NEW ids \in [BucketSlots -> Int], NEW id \in Int
  PROVE  Named(AssignSlot(ids, id).slot, id, AssignSlot(ids, id).ids, AssignSlot(ids, id).mixed)
<1>. DEFINE r == AssignSlot(ids, id)
<1>1. /\ r.slot \in BucketSlots
      /\ \/ r.ids = ids /\ ids[r.slot] = id
         \/ r.ids = [ids EXCEPT ![r.slot] = id] /\ ids[r.slot] = UnsetBucket
         \/ r.ids = ids /\ r.slot = AggregateSlot /\ r.mixed
  BY AssignSlotResult, Zenon
<1>. HIDE DEF r
<1>2. r.ids[r.slot] = id \/ (r.slot = AggregateSlot /\ r.mixed)
  BY <1>1, Zenon
<1>. QED  BY <1>2, Zenon DEF r, Named

\* Charging a source to the slot of its name keeps buckets pure.
LEMMA ChargePure ==
  ASSUME NEW ids, NEW mixed, NEW slots \in [BucketSlots -> SUBSET Sources], Pure(ids, mixed, slots),
         NEW slot \in BucketSlots, NEW c \in Sources,
         Named(slot, BucketId(c), ids, mixed)
  PROVE  Pure(ids, mixed, [slots EXCEPT ![slot] = @ \cup {c}])
<1>. DEFINE after == [slots EXCEPT ![slot] = @ \cup {c}]
<1>1. \A i \in BucketSlots : after[i] = IF i = slot THEN slots[i] \cup {c} ELSE slots[i]
  BY Zenon
<1>. HIDE DEF after
<1>. SUFFICES ASSUME NEW i \in BucketSlots, ~(i = AggregateSlot /\ mixed), NEW d \in after[i]
              PROVE  BucketId(d) \in {ids[i], UnsetBucket}
  BY Zenon DEF Pure, after
<1>2. \A x \in slots[i] : BucketId(x) \in {ids[i], UnsetBucket}
  BY Zenon DEF Pure
<1>3. d \in slots[i] \/ (i = slot /\ d = c)
  BY <1>1, Zenon
<1>4. i = slot => BucketId(c) \in {ids[i], UnsetBucket}
  BY Zenon DEF Named
<1>. QED  BY <1>2, <1>3, <1>4, Zenon

\* A step that rewrites one subscriber's slots, and binds to it only by slots
\* named for its rating group.
OneSubscriber(s, ids, slots, rg) ==
  /\ bucketIds' = [bucketIds EXCEPT ![s] = ids]
  /\ charged' = [charged EXCEPT ![s] = slots]
  /\ ratingGroup' = [ratingGroup EXCEPT ![s] = rg]
  /\ \A q \in Subs : q # s => (q \in aggregated' <=> q \in aggregated)
  /\ \A t \in Teids \cup {0} : teidMap'[t] # Unbound =>
       IF teidMap'[t].sub = s THEN Named(teidMap'[t].slot, rg, ids, s \in aggregated')
                              ELSE teidMap'[t] = teidMap[t]
  /\ Pure(ids, s \in aggregated', slots)

\* Such a step keeps all subscribers' buckets pure and all bindings named.
LEMMA OneSubscriberPure ==
  ASSUME NEW s, NEW ids, NEW slots, NEW rg, OneSubscriber(s, ids, slots, rg), s \in Subs,
         SessionTyped, Shape', AccountTyped, BucketsPure, SlotsNamed
  PROVE  BucketsPure' /\ SlotsNamed'
<1>1. \A q \in Subs : /\ bucketIds'[q] = IF q = s THEN ids ELSE bucketIds[q]
                      /\ charged'[q] = IF q = s THEN slots ELSE charged[q]
                      /\ ratingGroup'[q] = IF q = s THEN rg ELSE ratingGroup[q]
  BY Zenon DEF OneSubscriber, AccountTyped, SessionTyped
<1>2. /\ \A q \in Subs : q # s => (q \in aggregated' <=> q \in aggregated)
      /\ \A t \in Teids \cup {0} : teidMap'[t] # Unbound =>
           IF teidMap'[t].sub = s THEN Named(teidMap'[t].slot, rg, ids, s \in aggregated')
                                  ELSE teidMap'[t] = teidMap[t]
      /\ Pure(ids, s \in aggregated', slots)
  BY Zenon DEF OneSubscriber
<1>3. BucketsPure'
  <2>1. ASSUME NEW q \in Subs PROVE Pure(bucketIds'[q], q \in aggregated', charged'[q])
    <3>1. CASE q = s
      BY <1>1, <1>2, <3>1, Zenon
    <3>2. CASE q # s
      <4>1. Pure(bucketIds[q], q \in aggregated, charged[q])
        BY PureEach, Zenon
      <4>2. Pure(bucketIds[q], q \in aggregated', charged[q])
        BY <1>2, <3>2, <4>1, Zenon DEF Pure
      <4>. QED  BY <1>1, <3>2, <4>2, Zenon
    <3>. QED  BY <3>1, <3>2, Zenon
  <2>. QED  BY <2>1, Zenon DEF BucketsPure, Pure
<1>4. SlotsNamed'
  <2>. SUFFICES ASSUME NEW t \in Teids \cup {0}, teidMap'[t] # Unbound
                PROVE  Named(teidMap'[t].slot, ratingGroup'[teidMap'[t].sub],
                             bucketIds'[teidMap'[t].sub], teidMap'[t].sub \in aggregated')
    BY Zenon DEF SlotsNamed, Named
  <2>1. teidMap'[t].sub \in Subs
    BY BoundSub, Zenon DEF Shape
  <2>2. CASE teidMap'[t].sub = s
    BY <1>1, <1>2, <2>1, <2>2, Zenon
  <2>3. CASE teidMap'[t].sub # s
    <3>1. teidMap'[t] = teidMap[t]
      BY <1>2, <2>3, Zenon
    <3>2. Named(teidMap[t].slot, ratingGroup[teidMap[t].sub],
                bucketIds[teidMap[t].sub], teidMap[t].sub \in aggregated)
      BY <3>1, Zenon DEF SlotsNamed
    <3>3. /\ ratingGroup'[teidMap[t].sub] = ratingGroup[teidMap[t].sub]
          /\ bucketIds'[teidMap[t].sub] = bucketIds[teidMap[t].sub]
          /\ teidMap[t].sub \in aggregated' <=> teidMap[t].sub \in aggregated
      BY <1>1, <1>2, <2>1, <2>3, <3>1, Zenon
    <3>. QED  BY <3>1, <3>2, <3>3, Zenon DEF Named
  <2>. QED  BY <2>2, <2>3, Zenon
<1>. QED  BY <1>3, <1>4

\* One subscriber's slots after a charge: still pure, every name still there,
\* nobody else's flag touched.
ChargedPure(s, ids) ==
  \E new \in [BucketSlots -> Int], after \in [BucketSlots -> SUBSET Sources] :
    /\ bucketIds' = [bucketIds EXCEPT ![s] = new]
    /\ charged' = [charged EXCEPT ![s] = after]
    /\ Pure(new, s \in aggregated', after)
    /\ \A i \in BucketSlots : ids[i] # UnsetBucket => new[i] = ids[i]
    /\ \A q : q \in aggregated => q \in aggregated'
    /\ \A q : q # s => (q \in aggregated' <=> q \in aggregated)

\* A packet goes to the slot of its QFI, or to that of the rating group.
LEMMA SlotChargedPure ==
  ASSUME NEW s, NEW b, NEW ev, NEW ids, NEW slots, NEW rg, SlotCharged(s, b, ev, ids, slots, rg),
         ev \in Events, ids \in [BucketSlots -> Int], slots \in [BucketSlots -> SUBSET Sources],
         Pure(ids, s \in aggregated, slots), Named(b.slot, rg, ids, s \in aggregated)
  PROVE  ChargedPure(s, ids)
<1>1. PICK c \in Sources, r \in [slot : BucketSlots, ids : [BucketSlots -> Int], mixed : BOOLEAN] :
        /\ IF ev.hasQfi
             THEN c = <<"qfi", ev.qfi>> /\ r = AssignSlot(ids, QfiTag + ev.qfi)
             ELSE c = <<"rg", rg>> /\ r.slot = b.slot /\ r.ids = ids
        /\ bucketIds' = [bucketIds EXCEPT ![s] = r.ids]
        /\ aggregated' = aggregated \cup MarkMixed(s, r.mixed)
        /\ charged' = [charged EXCEPT ![s] = [slots EXCEPT ![r.slot] = @ \cup {c}]]
  BY Zenon DEF SlotCharged
<1>. DEFINE after == [slots EXCEPT ![r.slot] = @ \cup {c}]
<1>2. r.slot \in BucketSlots /\ r.ids \in [BucketSlots -> Int]
  OBVIOUS
<1>3. after \in [BucketSlots -> SUBSET Sources]
  BY <1>2, Zenon
<1>4. /\ \A q : q \in aggregated => q \in aggregated'
      /\ \A q : q # s => (q \in aggregated' <=> q \in aggregated)
      /\ r.mixed => s \in aggregated'
  BY <1>1, Zenon DEF MarkMixed
<1>5. /\ Pure(r.ids, s \in aggregated', slots)
      /\ Named(r.slot, BucketId(c), r.ids, s \in aggregated')
      /\ \A i \in BucketSlots : ids[i] # UnsetBucket => r.ids[i] = ids[i]
  <2>1. CASE ev.hasQfi
    <3>1. c = <<"qfi", ev.qfi>> /\ r = AssignSlot(ids, QfiTag + ev.qfi)
      BY <1>1, <2>1, Zenon
    <3>2. QfiTag + ev.qfi \in Int
      <4>1. ev.qfi \in Nat
        BY EngineAssumption, Zenon
      <4>. QED  BY <4>1, TaggedId, Zenon
    <3>3. BucketId(c) = QfiTag + ev.qfi
      BY <3>1, Zenon DEF BucketId
    <3>4. Pure(r.ids, (s \in aggregated) \/ r.mixed, slots)
      BY <3>1, <3>2, AssignPure, Zenon
    <3>5. Named(r.slot, BucketId(c), r.ids, r.mixed)
      BY <3>1, <3>2, <3>3, AssignNames, Zenon
    <3>6. \A i \in BucketSlots : ids[i] # UnsetBucket => r.ids[i] = ids[i]
      BY <3>1, <3>2, AssignKeepsNames, Zenon
    <3>7. Pure(r.ids, s \in aggregated', slots)
      BY <1>4, <3>4, Zenon DEF Pure
    <3>. QED  BY <1>4, <3>5, <3>6, <3>7, Zenon DEF Named
  <2>2. CASE ~ev.hasQfi
    <3>1. c = <<"rg", rg>> /\ r.slot = b.slot /\ r.ids = ids
      BY <1>1, <2>2, Zenon
    <3>2. BucketId(c) = rg
      BY <3>1, Zenon DEF BucketId
    <3>3. Pure(ids, s \in aggregated', slots)
      BY <1>4, Zenon DEF Pure
    <3>4. Named(b.slot, rg, ids, s \in aggregated')
      BY <1>4, Zenon DEF Named
    <3>. QED  BY <3>1, <3>2, <3>3, <3>4, Zenon
  <2>. QED  BY <2>1, <2>2, Zenon
<1>6. Pure(r.ids, s \in aggregated', after)
  BY <1>2, <1>5, ChargePure, Zenon
<1>7. charged' = [charged EXCEPT ![s] = after] /\ bucketIds' = [bucketIds EXCEPT ![s] = r.ids]
  BY <1>1, Zenon
<1>. HIDE DEF after
<1>. QED  BY <1>2, <1>3, <1>4, <1>5, <1>6, <1>7, Zenon DEF ChargedPure

\* Charging leaves bind_failures.
LEMMA ChargeBindFailures ==
  ASSUME NEW s, NEW ev, NEW used, NEW st, UsageAdded(s, ev, used, st), st \in Stats
  PROVE  stats'.bindFailures = st.bindFailures
<1>1. PICK p \in Balanced : stats' = [st EXCEPT !.ulBytes = @ + p.ulBytes, !.dlBytes = @ + p.dlBytes,
                                       !.ulPackets = @ + p.ulPackets, !.dlPackets = @ + p.dlPackets]
  BY Zenon DEF UsageAdded
<1>. QED  BY <1>1, Zenon DEF Stats

\* apply() on a bound tunnel: the binding's slot is named for the rating group.
LEMMA BoundPure ==
  ASSUME EngineTyped, BindingInv, PureInv, ~hung, NEW ev \in Events, ApplyBound(ev)
  PROVE  PureInv'
<1>. DEFINE b == teidMap[ev.teid]
            s == b.sub
            ids == bucketIds[s]
            used == counters[s]
            slots == charged[s]
            rg == ratingGroup[s]
<1>0. ev.teid \in Teids \cup {0} /\ ev.bytes \in Nat
  BY EngineAssumption, Zenon
<1>1. b # Unbound /\ b \in Bindings /\ s \in Subs
  <2>1. b \in Bindings \cup {Unbound} /\ b # Unbound
    BY <1>0, Zenon DEF BindingInv, Shape, ApplyBound
  <2>. QED  BY <2>1, BoundSub, Zenon
<1>2. /\ ids \in [BucketSlots -> Int] /\ used \in Balanced
      /\ slots \in [BucketSlots -> SUBSET Sources] /\ rg \in RatingGroups \cup {0}
  BY <1>1, Zenon DEF EngineTyped, AccountTyped, SessionTyped
<1>3. Charge(s, b, ev, ids, used, slots, rg, Counted(ev)) /\ UNCHANGED sessionVars
  BY Zenon DEF ApplyBound
<1>4. UNCHANGED <<teidMap, ratingGroup>> /\ Shape'
  <2>1. BindingInv'
    BY <1>3, SessionUnchanged, Zenon
  <2>. QED  BY <1>3, <2>1, Zenon DEF sessionVars, BindingInv
<1>5. Counted(ev) \in Stats /\ Counted(ev).bindFailures = stats.bindFailures
  <2>1. Counted(ev) \in Stats
    BY <1>0, StatsKept, Zenon DEF Counted, EngineTyped
  <2>. QED  BY <2>1, Zenon DEF Counted, EngineTyped, Stats
<1>6. SUFFICES ASSUME stats'.bindFailures = 0 PROVE BucketsPure' /\ SlotsNamed'
  BY DEF PureInv
<1>7. BucketsPure /\ SlotsNamed
  <2>. HIDE DEF b, s, ids, used, slots, rg
  <2>1. UsageAdded(s, ev, used, Counted(ev))
    BY <1>1, <1>2, <1>3, ChargePacket, Zenon
  <2>2. stats'.bindFailures = Counted(ev).bindFailures
    BY <1>5, <2>1, ChargeBindFailures, Zenon
  <2>. QED  BY <1>5, <1>6, <2>2, Zenon DEF PureInv
<1>8. Pure(ids, s \in aggregated, slots) /\ Named(b.slot, rg, ids, s \in aggregated)
  BY <1>0, <1>1, <1>7, PureEach, Zenon DEF SlotsNamed
<1>9. ratingGroup \in [Subs -> RatingGroups \cup {0}]
  BY Zenon DEF EngineTyped, SessionTyped
<1>10. \A t \in Teids \cup {0} : teidMap[t] # Unbound =>
         /\ teidMap[t].slot \in BucketSlots
         /\ Named(teidMap[t].slot, ratingGroup[teidMap[t].sub],
                  bucketIds[teidMap[t].sub], teidMap[t].sub \in aggregated)
  <2>1. \A t \in Teids \cup {0} : teidMap[t] # Unbound => teidMap[t] \in Bindings
    BY BoundSub, Zenon DEF BindingInv, Shape
  <2>2. \A t \in Teids \cup {0} : teidMap[t] # Unbound => teidMap[t].slot \in BucketSlots
    BY <2>1, Zenon DEF Bindings
  <2>. QED  BY <1>7, <2>2, Zenon DEF SlotsNamed
<1>. HIDE DEF b, used, slots
<1>11. ChargedPure(s, ids)
  <2>. HIDE DEF s, ids, rg
  <2>1. SlotCharged(s, b, ev, ids, slots, rg)
    BY <1>1, <1>2, <1>3, ChargeSlot, Zenon
  <2>. QED  BY <1>2, <1>8, <2>1, SlotChargedPure, Zenon
<1>12. PICK new \in [BucketSlots -> Int], after \in [BucketSlots -> SUBSET Sources] :
         /\ bucketIds' = [bucketIds EXCEPT ![s] = new]
         /\ charged' = [charged EXCEPT ![s] = after]
         /\ Pure(new, s \in aggregated', after)
         /\ \A i \in BucketSlots : ids[i] # UnsetBucket => new[i] = ids[i]
         /\ \A q : q \in aggregated => q \in aggregated'
         /\ \A q : q # s => (q \in aggregated' <=> q \in aggregated)
  BY <1>11, Zenon DEF ChargedPure
<1>13. \A t \in Teids \cup {0} : teidMap[t] # Unbound /\ teidMap[t].sub = s =>
         Named(teidMap[t].slot, rg, new, s \in aggregated')
  <2>1. ASSUME NEW i \in BucketSlots, Named(i, rg, ids, s \in aggregated)
        PROVE  Named(i, rg, new, s \in aggregated')
    BY <1>12, <2>1, Zenon DEF Named
  <2>. QED  BY <1>10, <2>1, Zenon
<1>14. ratingGroup' = [ratingGroup EXCEPT ![s] = rg]
  BY <1>1, <1>4, <1>9, Zenon
<1>. HIDE DEF s, ids, rg
<1>15. OneSubscriber(s, new, after, rg)
  BY <1>4, <1>12, <1>13, <1>14, Zenon DEF OneSubscriber
<1>. QED  BY <1>1, <1>4, <1>7, <1>15, OneSubscriberPure, Zenon DEF EngineTyped

\* In a fresh subscriber assign_slot finds a slot of that name and flags nothing.
LEMMA FreshSlot ==
  ASSUME NEW id \in Int
  PROVE  /\ UnsetIds \in [BucketSlots -> Int]
         /\ AssignSlot(UnsetIds, id).slot \in BucketSlots
         /\ AssignSlot(UnsetIds, id).ids \in [BucketSlots -> Int]
         /\ AssignSlot(UnsetIds, id).ids[AssignSlot(UnsetIds, id).slot] = id
<1>. DEFINE r == AssignSlot(UnsetIds, id)
<1>1. UnsetIds \in [BucketSlots -> Int] /\ \A i \in BucketSlots : UnsetIds[i] = UnsetBucket
  BY ConstantTypes DEF UnsetIds
<1>2. AggregateSlot \in BucketSlots
  BY DEF AggregateSlot, BucketSlots
<1>3. /\ r.slot \in BucketSlots
      /\ \/ r.ids = UnsetIds /\ UnsetIds[r.slot] = id
         \/ r.ids = [UnsetIds EXCEPT ![r.slot] = id]
         \/ UnsetIds[AggregateSlot] # UnsetBucket
  BY <1>1, AssignSlotResult, Zenon
<1>. HIDE DEF r
<1>4. /\ r.slot \in BucketSlots
      /\ \/ r.ids = UnsetIds /\ UnsetIds[r.slot] = id
         \/ r.ids = [UnsetIds EXCEPT ![r.slot] = id]
  BY <1>1, <1>2, <1>3, Zenon
<1>5. r.ids \in [BucketSlots -> Int] /\ r.ids[r.slot] = id
  BY <1>1, <1>4, Zenon
<1>. QED  BY <1>1, <1>4, <1>5, Zenon DEF r

\* learn_teid: a subscriber whose TEID found no room is a bind failure.
LEMMA LearnedPure ==
  ASSUME EngineTyped, BindingInv, PureInv, ~hung, NEW ev \in Events, ApplyLearned(ev)
  PROVE  PureInv'
<1>. DEFINE s == nextSub
            slot == AssignSlot(UnsetIds, 0)
            b == [sub |-> s, dir |-> ev.dir, slot |-> slot.slot]
            st == [Counted(ev) EXCEPT !.learned = @ + 1]
<1>0. ev.bytes \in Nat /\ ev.dir \in {"ul", "dl", "unknown"} /\ ev.teid \in Teids \cup {0}
  BY EngineAssumption, Zenon
<1>1. 0 \in Int
  OBVIOUS
<1>2. slot.slot \in BucketSlots /\ slot.ids \in [BucketSlots -> Int] /\ slot.ids[slot.slot] = 0
  BY <1>1, FreshSlot, Zenon
<1>3. nextSub \in Nat /\ s \in Subs
  <2>1. nextSub < MaxSubscribers
    BY Zenon DEF ApplyLearned
  <2>. QED  BY <2>1, LearnedId
<1>4. b \in Bindings /\ b.sub = s /\ b.slot = slot.slot
  BY <1>0, <1>2, <1>3, Zenon DEF Bindings
<1>5. /\ ratingGroup' = [ratingGroup EXCEPT ![s] = 0]
      /\ teidMap' = Bind(teidMap, ev.teid, b)
  BY Zenon DEF ApplyLearned
<1>6. Counted(ev) \in Stats /\ Counted(ev).bindFailures = stats.bindFailures
  <2>1. Counted(ev) \in Stats
    BY <1>0, StatsKept, Zenon DEF Counted, EngineTyped
  <2>. QED  BY <2>1, Zenon DEF Counted, EngineTyped, Stats
<1>7. st \in Stats /\ st.bindFailures = stats.bindFailures
  <2>1. st \in Stats
    BY <1>6, StatsKept, Zenon
  <2>2. st.bindFailures = Counted(ev).bindFailures
    BY <1>6, Zenon DEF Stats
  <2>. QED  BY <1>6, <2>1, <2>2, Zenon
<1>8. SUFFICES ASSUME stats'.bindFailures = 0 PROVE BucketsPure' /\ SlotsNamed'
  BY DEF PureInv
<1>. HIDE DEF st, b, slot
<1>9. ~TableFull(teidMap, ev.teid)
  <2>. SUFFICES ASSUME TableFull(teidMap, ev.teid) PROVE FALSE
    OBVIOUS
  <2>1. stats' = CountedUnknown(ev, [st EXCEPT !.bindFailures = @ + 1])
    BY Zenon DEF ApplyLearned, st
  <2>2. stats'.bindFailures = st.bindFailures + 1
    BY <1>7, <2>1, Zenon DEF CountedUnknown, Stats
  <2>3. st.bindFailures \in Nat
    BY <1>7 DEF Stats
  <2>. QED  BY <1>8, <2>2, <2>3
<1>10. Charge(s, b, ev, slot.ids, NoUsage, NoCharges, 0, st)
  BY <1>9, Zenon DEF ApplyLearned, b, slot, st
<1>11. BucketsPure /\ SlotsNamed
  <2>1. UsageAdded(s, ev, NoUsage, st)
    BY <1>3, <1>4, <1>2, <1>7, <1>10, BalancedNothing, ChargePacket, Zenon
  <2>2. stats'.bindFailures = st.bindFailures
    BY <1>7, <2>1, ChargeBindFailures, Zenon
  <2>. QED  BY <1>7, <1>8, <2>2, Zenon DEF PureInv
<1>12. ChargedPure(s, slot.ids)
  <2>1. NoCharges \in [BucketSlots -> SUBSET Sources] /\ 0 \in RatingGroups \cup {0}
    BY DEF NoCharges
  <2>2. SlotCharged(s, b, ev, slot.ids, NoCharges, 0)
    BY <1>2, <1>4, <1>10, <2>1, ChargeSlot, Zenon
  <2>3. Pure(slot.ids, s \in aggregated, NoCharges) /\ Named(b.slot, 0, slot.ids, s \in aggregated)
    BY <1>2, <1>4, Zenon DEF Named, Pure, NoCharges
  <2>. QED  BY <1>2, <2>1, <2>2, <2>3, SlotChargedPure, Zenon
<1>13. PICK new \in [BucketSlots -> Int], after \in [BucketSlots -> SUBSET Sources] :
         /\ bucketIds' = [bucketIds EXCEPT ![s] = new]
         /\ charged' = [charged EXCEPT ![s] = after]
         /\ Pure(new, s \in aggregated', after)
         /\ \A i \in BucketSlots : slot.ids[i] # UnsetBucket => new[i] = slot.ids[i]
         /\ \A q : q # s => (q \in aggregated' <=> q \in aggregated)
  BY <1>12, Zenon DEF ChargedPure
<1>14. Named(b.slot, 0, new, s \in aggregated')
  BY <1>2, <1>4, <1>13, Zenon DEF Named
<1>15. \A t \in Teids \cup {0} : teidMap'[t] # Unbound =>
         IF teidMap'[t].sub = s THEN Named(teidMap'[t].slot, 0, new, s \in aggregated')
                                ELSE teidMap'[t] = teidMap[t]
  <2>. SUFFICES ASSUME NEW t \in Teids \cup {0}, teidMap'[t] # Unbound, teidMap'[t] # b
                PROVE  teidMap'[t] = teidMap[t] /\ teidMap'[t].sub # s
    BY <1>4, <1>14, Zenon
  <2>1. teidMap'[t] = teidMap[t]
    BY <1>0, <1>4, <1>5, BindResult, Zenon DEF BindingInv, Shape
  <2>2. teidMap[t].sub \in active
    BY <2>1, Zenon DEF BindingInv, BindingSound, Shape
  <2>3. teidMap[t].sub \in 0 .. nextSub - 1
    BY <2>2, Zenon DEF BindingInv, Shape
  <2>4. teidMap[t].sub # nextSub
    <3>1. \A i \in 0 .. nextSub - 1 : i # nextSub
      BY <1>3
    <3>. QED  BY <2>3, <3>1, Zenon
  <2>. QED  BY <2>1, <2>4, Zenon
<1>16. Shape'
  BY LearnKeeps, Zenon DEF BindingInv
<1>17. OneSubscriber(s, new, after, 0)
  BY <1>5, <1>13, <1>15, Zenon DEF OneSubscriber
<1>. QED  BY <1>3, <1>11, <1>16, <1>17, OneSubscriberPure, Zenon DEF EngineTyped

\* bind_teid with room in the table.
LEMMA BindRoom ==
  ASSUME NEW map, NEW teid, NEW b, ~TableFull(map, teid)
  PROVE  Bind(map, teid, b) = [map EXCEPT ![teid] = b]
  BY DEF Bind

\* When install_session bound all it was given, the subscriber's tunnels all
\* have the slot the session got; the tunnels of others stay.
LEMMA InstallBound ==
  ASSUME EngineTyped, BindingInv, NEW spec \in SessionSpecs, InstallSession(spec), stats'.bindFailures = 0
  PROVE  /\ stats.bindFailures = 0
         /\ \A t \in Teids \cup {0} : teidMap'[t] # Unbound =>
              IF teidMap'[t].sub = IndexFor(spec.imsi)
                THEN teidMap'[t].slot = AssignSlot(IF IsReinstall(IndexFor(spec.imsi))
                                                     THEN bucketIds[IndexFor(spec.imsi)]
                                                     ELSE UnsetIds, spec.rg).slot
                ELSE teidMap'[t] = teidMap[t]
<1>. DEFINE s == IndexFor(spec.imsi)
            moved == MovedTeids(s, spec)
            slot == AssignSlot(IF IsReinstall(s) THEN bucketIds[s] ELSE UnsetIds, spec.rg).slot
            up == [sub |-> s, dir |-> "ul", slot |-> slot]
            down == [sub |-> s, dir |-> "dl", slot |-> slot]
            map1 == Unbind(teidMap, moved)
            map2 == IF spec.ul = NoTeid THEN map1 ELSE Bind(map1, spec.ul, up)
            map3 == IF spec.dl = NoTeid THEN map2 ELSE Bind(map2, spec.dl, down)
            m == IF imsiIndex[spec.imsi] = NoSub THEN 1 ELSE 0
            n == (IF spec.ul # NoTeid /\ TableFull(map1, spec.ul) THEN 1 ELSE 0)
                 + (IF spec.dl # NoTeid /\ TableFull(map2, spec.dl) THEN 1 ELSE 0)
            Tables == [Teids \cup {0} -> Bindings \cup {Unbound}]
<1>0. spec.imsi \in Imsis /\ spec.ul \in Teids \cup {0} /\ spec.dl \in Teids \cup {0}
  BY DEF SessionSpecs, NoTeid
<1>1. /\ imsiIndex' = [imsiIndex EXCEPT ![spec.imsi] = s]
      /\ ulTeid' = [ulTeid EXCEPT ![s] = spec.ul]
      /\ dlTeid' = [dlTeid EXCEPT ![s] = spec.dl]
      /\ teidMap' = map3
      /\ stats' = [stats EXCEPT !.installed = @ + m, !.bindFailures = @ + n]
  BY Zenon DEF InstallSession
<1>2. BindingInv'
  BY InstallKeeps
<1>3. s \in Subs
  <2>1. s \in active'
    BY Zenon DEF InstallSession
  <2>2. s \in 0 .. nextSub' - 1 /\ nextSub' \in 0 .. MaxSubscribers
    BY <1>2, <2>1, Zenon DEF BindingInv, Shape
  <2>. QED  BY <2>2, ConstantTypes DEF Subs
<1>4. up \in Bindings /\ down \in Bindings /\ up.sub = s /\ down.sub = s /\ up.slot = slot /\ down.slot = slot
  BY <1>3, AssignSlotRange, Zenon DEF Bindings
<1>5. m \in Nat /\ n \in Nat /\ (n = 0 => /\ spec.ul # NoTeid => ~TableFull(map1, spec.ul)
                                          /\ spec.dl # NoTeid => ~TableFull(map2, spec.dl))
  <2>1. /\ 0 \in Nat /\ 1 \in Nat /\ 0 + 0 \in Nat /\ 0 + 1 \in Nat /\ 1 + 0 \in Nat /\ 1 + 1 \in Nat
        /\ 0 + 1 # 0 /\ 1 + 0 # 0 /\ 1 + 1 # 0
    <3>. HIDE DEF s, moved, slot, up, down, map1, map2, map3, m, n
    <3>. QED  OBVIOUS
  <2>. QED  BY <2>1, Zenon
<1>. HIDE DEF s, moved, slot, up, down, m, n
<1>6. stats.bindFailures = 0 /\ n = 0
  <2>. HIDE DEF map1, map2, map3
  <2>1. stats'.bindFailures = stats.bindFailures + n /\ stats.bindFailures \in Nat
    BY <1>1, Zenon DEF EngineTyped, Stats
  <2>2. stats.bindFailures + n = 0
    BY <2>1, Zenon
  <2>. QED  BY <1>5, <2>1, <2>2, SumZero, Zenon
<1>7. map1 \in Tables /\ \A t \in Teids \cup {0} : map1[t] = teidMap[t] \/ map1[t] = Unbound
  BY Zenon DEF BindingInv, Shape, Unbind
<1>. HIDE DEF map1
<1>8. map2 = IF spec.ul = NoTeid THEN map1 ELSE [map1 EXCEPT ![spec.ul] = up]
  BY <1>5, <1>6, BindRoom, Zenon
<1>9. map2 \in Tables
  BY <1>0, <1>4, <1>7, <1>8, Zenon
<1>10. map3 = IF spec.dl = NoTeid THEN map2 ELSE [map2 EXCEPT ![spec.dl] = down]
  <2>. HIDE DEF map2
  <2>. QED  BY <1>5, <1>6, BindRoom, Zenon
<1>. HIDE DEF map2, map3
<1>11. ASSUME NEW t \in Teids \cup {0}, teidMap'[t] # Unbound, teidMap'[t].sub = s
       PROVE  teidMap'[t].slot = slot
  <2>1. t = IF teidMap'[t].dir = "dl" THEN dlTeid'[s] ELSE ulTeid'[s]
    BY <1>2, <1>11, Zenon DEF BindingInv, BindingSound, Shape
  <2>2. t = spec.dl \/ t = spec.ul
    BY <1>1, <1>3, <2>1, Zenon DEF BindingInv, Shape
  <2>3. t # 0
    <3>1. imsiIndex'[spec.imsi] = s
      BY <1>0, <1>1, Zenon DEF BindingInv, Shape
    <3>. QED  BY <1>0, <1>2, <1>11, <3>1, Zenon DEF BindingInv, ZeroUnindexed
  <2>4. map3[t] = up \/ map3[t] = down
    BY <1>0, <1>7, <1>8, <1>9, <1>10, <2>2, <2>3, Zenon DEF NoTeid
  <2>. QED  BY <1>1, <1>4, <2>4, Zenon
<1>12. ASSUME NEW t \in Teids \cup {0}, teidMap'[t] # Unbound, teidMap'[t].sub # s
       PROVE  teidMap'[t] = teidMap[t]
  <2>1. map3[t] = map1[t]
    <3>1. map3[t] # down /\ map3[t] # up
      BY <1>1, <1>4, <1>12, Zenon
    <3>2. map3[t] = map2[t]
      BY <1>9, <1>10, <3>1, Zenon
    <3>3. map2[t] = map1[t]
      BY <1>7, <1>8, <3>1, <3>2, Zenon
    <3>. QED  BY <3>2, <3>3, Zenon
  <2>. QED  BY <1>1, <1>7, <1>12, <2>1, Zenon
<1>13. \A t \in Teids \cup {0} : teidMap'[t] # Unbound =>
         IF teidMap'[t].sub = s THEN teidMap'[t].slot = slot ELSE teidMap'[t] = teidMap[t]
  BY <1>11, <1>12, Zenon
<1>. QED  BY <1>6, <1>13, Zenon DEF s, slot

\* install_session: a modified session keeps its buckets and may name one
\* more; a new one starts with none.
LEMMA InstallPure ==
  ASSUME EngineTyped, BindingInv, PureInv, NEW spec \in SessionSpecs, InstallSession(spec)
  PROVE  PureInv'
<1>. DEFINE s == IndexFor(spec.imsi)
            ids == IF IsReinstall(s) THEN bucketIds[s] ELSE UnsetIds
            slot == AssignSlot(ids, spec.rg)
            slots == IF IsReinstall(s) THEN charged[s] ELSE NoCharges
<1>1. SUFFICES ASSUME stats'.bindFailures = 0 PROVE BucketsPure' /\ SlotsNamed'
  BY DEF PureInv
<1>2. /\ BucketsPure /\ SlotsNamed
      /\ \A t \in Teids \cup {0} : teidMap'[t] # Unbound =>
           IF teidMap'[t].sub = s THEN teidMap'[t].slot = slot.slot ELSE teidMap'[t] = teidMap[t]
  <2>1. ~hung
    BY Zenon DEF InstallSession, Ready
  <2>. QED  BY <1>1, <2>1, InstallBound, Zenon DEF PureInv
<1>3. BindingInv'
  BY InstallKeeps
<1>4. s \in Subs
  <2>1. s \in active'
    BY Zenon DEF InstallSession
  <2>2. s \in 0 .. nextSub' - 1 /\ nextSub' \in 0 .. MaxSubscribers
    BY <1>3, <2>1, Zenon DEF BindingInv, Shape
  <2>. QED  BY <2>2, ConstantTypes DEF Subs
<1>5. /\ ids \in [BucketSlots -> Int] /\ slots \in [BucketSlots -> SUBSET Sources]
  <2>1. UnsetIds \in [BucketSlots -> Int] /\ NoCharges \in [BucketSlots -> SUBSET Sources]
    BY ConstantTypes DEF UnsetIds, NoCharges
  <2>. QED  BY <1>4, <2>1, Zenon DEF EngineTyped, AccountTyped
<1>6. spec.rg \in Int
  <2>1. RatingGroups \subseteq Nat /\ spec.rg \in RatingGroups
    BY EngineAssumption, Zenon DEF SessionSpecs
  <2>2. \A k \in Nat : k \in Int
    OBVIOUS
  <2>. QED  BY <2>1, <2>2, Zenon
<1>7. /\ ratingGroup' = [ratingGroup EXCEPT ![s] = spec.rg]
      /\ bucketIds' = [bucketIds EXCEPT ![s] = slot.ids]
      /\ aggregated' = (IF IsReinstall(s) THEN aggregated ELSE aggregated \ {s}) \cup MarkMixed(s, slot.mixed)
  BY Zenon DEF InstallSession
<1>8. charged' = [charged EXCEPT ![s] = slots]
  <2>1. charged' = IF IsReinstall(s) THEN charged ELSE [charged EXCEPT ![s] = NoCharges]
    BY Zenon DEF InstallSession
  <2>2. charged = [charged EXCEPT ![s] = charged[s]]
    BY <1>4, Zenon DEF EngineTyped, AccountTyped
  <2>. QED  BY <2>1, <2>2, Zenon
<1>9. /\ slot.mixed => s \in aggregated'
      /\ \A q \in Subs : q # s => (q \in aggregated' <=> q \in aggregated)
  BY <1>7, Zenon DEF MarkMixed
<1>10. Pure(slot.ids, s \in aggregated', slots)
  <2>1. CASE IsReinstall(s)
    <3>1. s \in aggregated => s \in aggregated'
      BY <1>7, <2>1, Zenon
    <3>2. Pure(ids, s \in aggregated, slots)
      BY <1>2, <1>4, <2>1, PureEach, Zenon
    <3>. HIDE DEF ids, slots
    <3>3. Pure(slot.ids, (s \in aggregated) \/ slot.mixed, slots)
      BY <1>5, <1>6, <3>2, AssignPure, Zenon
    <3>. QED  BY <1>9, <3>1, <3>3, Zenon DEF Pure
  <2>2. CASE ~IsReinstall(s)
    BY <2>2, Zenon DEF Pure, NoCharges
  <2>. QED  BY <2>1, <2>2, Zenon
<1>. HIDE DEF ids, slots
<1>11. Named(slot.slot, spec.rg, slot.ids, s \in aggregated')
  <2>1. Named(slot.slot, spec.rg, slot.ids, slot.mixed)
    BY <1>5, <1>6, AssignNames, Zenon
  <2>. QED  BY <1>9, <2>1, Zenon DEF Named
<1>. HIDE DEF s, slot
<1>12. OneSubscriber(s, slot.ids, slots, spec.rg)
  BY <1>2, <1>7, <1>8, <1>9, <1>10, <1>11, Zenon DEF OneSubscriber
<1>. QED  BY <1>2, <1>3, <1>4, <1>12, OneSubscriberPure, Zenon DEF EngineTyped, BindingInv

\* A step that leaves the slots alone, and at most unbinds tunnels, or hangs.
LEMMA SlotsKept ==
  ASSUME PureInv, stats'.bindFailures = stats.bindFailures,
         UNCHANGED <<bucketIds, aggregated, charged>>, hung' \/ UNCHANGED <<ratingGroup, hung>>,
         \A t \in Teids \cup {0} : teidMap'[t] = teidMap[t] \/ teidMap'[t] = Unbound
  PROVE  PureInv'
<1>. SUFFICES ASSUME stats'.bindFailures = 0 PROVE BucketsPure' /\ (~hung' => SlotsNamed')
  BY DEF PureInv
<1>1. BucketsPure /\ (~hung => SlotsNamed)
  BY Zenon DEF PureInv
<1>0. bucketIds' = bucketIds /\ aggregated' = aggregated /\ charged' = charged
  OBVIOUS
<1>2. BucketsPure'
  BY <1>0, <1>1 DEF BucketsPure
<1>3. ASSUME ~hung' PROVE SlotsNamed'
  <2>0. ratingGroup' = ratingGroup /\ ~hung
    BY <1>3
  <2>. SUFFICES ASSUME NEW t \in Teids \cup {0}, teidMap'[t] # Unbound
                PROVE  Named(teidMap'[t].slot, ratingGroup'[teidMap'[t].sub],
                             bucketIds'[teidMap'[t].sub], teidMap'[t].sub \in aggregated')
    BY Zenon DEF SlotsNamed, Named
  <2>1. teidMap'[t] = teidMap[t]
    BY Zenon
  <2>2. Named(teidMap[t].slot, ratingGroup[teidMap[t].sub],
              bucketIds[teidMap[t].sub], teidMap[t].sub \in aggregated)
    BY <1>1, <2>0, <2>1, Zenon DEF SlotsNamed
  <2>. QED  BY <1>0, <2>0, <2>1, <2>2, Zenon
<1>. QED  BY <1>2, <1>3, Zenon

\* emit_record leaves bind_failures.
LEMMA EmitBindFailures ==
  ASSUME NEW s, NEW reason, NEW st, EmitRecord(s, reason, st), st \in Stats
  PROVE  stats'.bindFailures = st.bindFailures
<1>1. \/ stats' = [st EXCEPT !.recordsEmitted = @ + 1]
      \/ stats' = [st EXCEPT !.recordsDropped = @ + 1]
  BY Zenon DEF EmitRecord, CountRecord
<1>. QED  BY <1>1, Zenon DEF Stats

\* Releasing, reporting and counting leave the slots alone.
LEMMA RestPure ==
  ASSUME EngineTyped, BindingInv, PureInv,
         \/ PollBegin \/ PollVisit \/ DrainBegin \/ DrainVisit \/ ReporterTakes \/ Tick \/ UNCHANGED vars
         \/ \E spec \in SessionSpecs : InstallHangs(spec)
         \/ \E imsi \in Imsis : ReleaseSession(imsi) \/ ReleaseHangs(imsi)
         \/ \E imsi \in Imsis, usable \in BOOLEAN, octets \in GyOctets : ApplyGy(imsi, usable, octets)
         \/ UNCHANGED hung /\ \E ev \in Events : ApplyControl(ev) \/ ApplyUnknown(ev)
  PROVE  PureInv'
<1>1. UNCHANGED <<bucketIds, aggregated, charged>> /\ (hung' \/ UNCHANGED <<ratingGroup, hung>>)
  <2>1. \/ UNCHANGED <<sessionVars, accountVars, hung>>
        \/ UNCHANGED <<ratingGroup, accountVars, hung>>
        \/ UNCHANGED <<sessionVars, bucketIds, aggregated, charged, hung>>
        \/ UNCHANGED accountVars /\ hung'
    BY Zenon DEF PollBegin, PollVisit, DrainBegin, DrainVisit, ReporterTakes, Tick, vars, InstallHangs,
       ReleaseSession, ReleaseHangs, ApplyGy, ApplyControl, ApplyUnknown
  <2>. QED  BY <2>1, Zenon DEF sessionVars, accountVars
<1>2. \A t \in Teids \cup {0} : teidMap'[t] = teidMap[t] \/ teidMap'[t] = Unbound
  <2>1. UNCHANGED sessionVars \/ UNCHANGED teidMap \/ \E moved : teidMap' = Unbind(teidMap, moved)
    BY Zenon DEF PollBegin, PollVisit, DrainBegin, DrainVisit, ReporterTakes, Tick, vars, InstallHangs,
       ReleaseSession, ReleaseHangs, ApplyGy, ApplyControl, ApplyUnknown
  <2>2. UNCHANGED sessionVars => UNCHANGED teidMap
    BY DEF sessionVars
  <2>. QED  BY <2>1, <2>2, Zenon DEF Unbind, BindingInv, Shape
<1>3. stats'.bindFailures = stats.bindFailures
  <2>0. stats \in Stats
    BY DEF EngineTyped
  <2>1. ASSUME NEW s, NEW reason, EmitRecord(s, reason, stats) PROVE stats'.bindFailures = stats.bindFailures
    BY <2>0, <2>1, EmitBindFailures, Zenon
  <2>2. CASE UNCHANGED stats
    BY <2>2
  <2>3. CASE PollBegin \/ DrainBegin \/ ReporterTakes \/ Tick \/ UNCHANGED vars
             \/ \E spec \in SessionSpecs : InstallHangs(spec)
    BY <2>2, <2>3, Zenon DEF PollBegin, DrainBegin, ReporterTakes, Tick, vars, InstallHangs
  <2>4. CASE PollVisit \/ DrainVisit
    BY <2>1, <2>2, <2>4, Zenon DEF PollVisit, DrainVisit
  <2>5. ASSUME NEW imsi \in Imsis, ReleaseSession(imsi) \/ ReleaseHangs(imsi)
        PROVE  stats'.bindFailures = stats.bindFailures
    <3>. DEFINE st == [stats EXCEPT !.released = @ + 1]
    <3>1. st \in Stats
      BY <2>0, StatsKept, Zenon
    <3>2. st.bindFailures = stats.bindFailures
      BY <2>0, Zenon DEF Stats
    <3>3. \E s : EmitRecord(s, "release", st) \/ EmitRecord(s, "release", stats)
      BY <2>5, Zenon DEF ReleaseSession, ReleaseHangs
    <3>. HIDE DEF st
    <3>. QED  BY <2>1, <3>1, <3>2, <3>3, EmitBindFailures, Zenon
  <2>6. ASSUME NEW imsi, NEW usable, NEW octets, ApplyGy(imsi, usable, octets)
        PROVE  stats'.bindFailures = stats.bindFailures
    <3>1. \/ stats' = [stats EXCEPT !.gyEvents = @ + 1]
          \/ stats' = [stats EXCEPT !.gyEvents = @ + 1, !.gyOctets = @ + octets]
      BY <2>6, Zenon DEF ApplyGy
    <3>. QED  BY <2>0, <3>1, Zenon DEF Stats
  <2>7. ASSUME NEW ev \in Events, ApplyControl(ev) \/ ApplyUnknown(ev)
        PROVE  stats'.bindFailures = stats.bindFailures
    <3>1. \/ stats' = [Counted(ev) EXCEPT !.controlPdus = @ + 1]
          \/ stats' = [Counted(ev) EXCEPT !.unknownEvents = @ + 1, !.unknownBytes = @ + ev.bytes]
      BY <2>7, Zenon DEF ApplyControl, ApplyUnknown, CountedUnknown
    <3>2. Counted(ev) \in Stats
      <4>1. ev.bytes \in Nat
        BY EngineAssumption, Zenon
      <4>. QED  BY <2>0, <4>1, StatsKept, Zenon DEF Counted
    <3>3. Counted(ev).bindFailures = stats.bindFailures
      BY <2>0, Zenon DEF Counted, Stats
    <3>. QED  BY <3>1, <3>2, <3>3, Zenon DEF Stats
  <2>. QED  BY <2>3, <2>4, <2>5, <2>6, <2>7, Zenon
<1>. QED  BY <1>1, <1>2, <1>3, SlotsKept, Zenon

\* Every operation of the engine keeps the buckets pure.
LEMMA PureNext == EngineTyped /\ BindingInv /\ PureInv /\ [Next]_vars => PureInv'
<1>. SUFFICES ASSUME EngineTyped, BindingInv, PureInv, [Next]_vars PROVE PureInv'
  OBVIOUS
<1>1. ASSUME NEW spec \in SessionSpecs, InstallSession(spec) PROVE PureInv'
  BY <1>1, InstallPure, Zenon
<1>2. ASSUME NEW ev \in Events, Apply(ev) PROVE PureInv'
  <2>1. ~hung /\ UNCHANGED hung
    BY <1>2, Zenon DEF Apply, Ready
  <2>. QED  BY <1>2, <2>1, BoundPure, LearnedPure, RestPure, Zenon DEF Apply
<1>3. CASE \/ PollBegin \/ PollVisit \/ DrainBegin \/ DrainVisit \/ ReporterTakes \/ Tick \/ UNCHANGED vars
           \/ \E spec \in SessionSpecs : InstallHangs(spec)
           \/ \E imsi \in Imsis : ReleaseSession(imsi) \/ ReleaseHangs(imsi)
           \/ \E imsi \in Imsis, usable \in BOOLEAN, octets \in GyOctets : ApplyGy(imsi, usable, octets)
  BY <1>3, RestPure, Zenon
<1>. QED
  BY <1>1, <1>2, <1>3, Zenon DEF Next, Control, ControlOp, Data, Reporting

\* Nothing is charged and nothing bound at first.
LEMMA PureInit == Init => PureInv
<1>. SUFFICES ASSUME Init PROVE PureInv
  OBVIOUS
<1>1. charged = [s \in Subs |-> NoCharges] /\ teidMap = [t \in Teids \cup {0} |-> Unbound]
  BY Zenon DEF Init
<1>2. BucketsPure
  BY <1>1, Zenon DEF BucketsPure, NoCharges
<1>3. SlotsNamed
  BY <1>1, Zenon DEF SlotsNamed
<1>. QED  BY <1>2, <1>3 DEF PureInv

\* While every tunnel could be bound, each bucket holds usage of the id it is
\* named for and of no other, the flagged aggregate excepted (assign_slot, apply,
\* install_session).  Nothing is assumed of the rating groups: one that collides
\* with a tagged QFI shares its id, and only usage of a rating group with the id
\* of an unset bucket may end up under another name.
THEOREM EngineBucketsPureIfBound == Spec => []BucketsPureIfBound
<1>1. PureInv => BucketsPureIfBound
  BY Zenon DEF PureInv, BucketsPureIfBound
<1>. QED  BY <1>1, EngineTypedAlways, PureInit, PureNext, PTL DEF Spec


-----------------------------------------------------------------------------
(* Conservation of usage *)

\* What a subscriber still has to report: a released session has nothing.
Unreported(s) == IF s \in active THEN Pending(s) ELSE NoUsage

\* emit_record moves the pending usage to the reported or to the lost.
LEMMA EmitConserves ==
  ASSUME EngineTyped, UsageConserved, UNCHANGED accountVars,
         NEW s \in Subs, s \in active, NEW reason, NEW st, EmitRecord(s, reason, st),
         active \ {s} \subseteq active', active' \subseteq active
  PROVE  UsageConserved'
<1>1. /\ emitted' = [emitted EXCEPT ![s] = counters[s]]
      /\ \/ reported' = [reported EXCEPT ![s] = UsageSum(@, Pending(s))] /\ lost' = lost
         \/ lost' = [lost EXCEPT ![s] = UsageSum(@, Pending(s))] /\ reported' = reported
  BY Zenon DEF EmitRecord, Settled
<1>2. UNCHANGED <<counters, metered>>
  BY DEF accountVars
<1>3. /\ counters \in [Subs -> Balanced] /\ emitted \in [Subs -> Balanced]
      /\ reported \in [Subs -> Balanced] /\ lost \in [Subs -> Balanced]
      /\ \A q \in Subs : Pending(q) \in Balanced
  BY Zenon DEF EngineTyped, AccountTyped, ReportTyped, PendingTyped
<1>4. \A q \in Subs : metered[q] = UsageSum(UsageSum(reported[q], lost[q]), Unreported(q))
  BY Zenon DEF UsageConserved, Unreported
<1>. SUFFICES ASSUME NEW q \in Subs
              PROVE  metered'[q] = UsageSum(UsageSum(reported'[q], lost'[q]), Unreported(q)')
  BY Zenon DEF UsageConserved, Unreported
<1>5. CASE q = s
  <2>1. Unreported(s)' = NoUsage
    <3>1. emitted'[s] = counters[s]
      BY <1>1, <1>3, Zenon
    <3>. QED  BY <1>2, <1>3, <3>1, BalancedUsage, DiffSelf, Zenon DEF Unreported, Pending
  <2>2. metered'[s] = UsageSum(UsageSum(reported[s], lost[s]), Pending(s))
    BY <1>2, <1>4, Zenon DEF Unreported
  <2>3. \/ reported'[s] = UsageSum(reported[s], Pending(s)) /\ lost'[s] = lost[s]
        \/ lost'[s] = UsageSum(lost[s], Pending(s)) /\ reported'[s] = reported[s]
    BY <1>1, <1>3, Zenon
  <2>4. reported[s] \in Usages /\ lost[s] \in Usages /\ Pending(s) \in Usages
    BY <1>3, BalancedUsage, Zenon
  <2>5. /\ UsageSum(UsageSum(UsageSum(reported[s], Pending(s)), lost[s]), NoUsage) = metered'[s]
        /\ UsageSum(UsageSum(reported[s], UsageSum(lost[s], Pending(s))), NoUsage) = metered'[s]
    <3>1. UsageSum(UsageSum(UsageSum(reported[s], Pending(s)), lost[s]), NoUsage)
            = UsageSum(UsageSum(reported[s], lost[s]), Pending(s))
      BY <2>4, PendingMoves, Zenon
    <3>2. UsageSum(UsageSum(reported[s], UsageSum(lost[s], Pending(s))), NoUsage)
            = UsageSum(UsageSum(reported[s], lost[s]), Pending(s))
      BY <2>4, PendingMoves, Zenon
    <3>. QED  BY <2>2, <3>1, <3>2, Zenon
  <2>. QED  BY <1>5, <2>1, <2>3, <2>5, Zenon
<1>6. CASE q # s
  <2>1. reported'[q] = reported[q] /\ lost'[q] = lost[q] /\ emitted'[q] = emitted[q]
    BY <1>1, <1>3, <1>6, Zenon
  <2>2. Unreported(q)' = Unreported(q)
    BY <1>2, <1>6, <2>1, Zenon DEF Unreported, Pending
  <2>. QED  BY <1>2, <1>4, <2>1, <2>2, Zenon
<1>. QED  BY <1>5, <1>6, Zenon

\* A charged packet is pending, for a session that was active before the
\* packet or becomes so with it.
LEMMA ChargeConserves ==
  ASSUME EngineTyped, UsageConserved, UNCHANGED <<emitted, reported, lost>>,
         NEW s \in Subs, active' = active \cup {s}, NEW ev, NEW used \in Balanced, NEW st,
         UsageAdded(s, ev, used, st), UsageDiff(used, emitted[s]) = Unreported(s)
  PROVE  UsageConserved'
<1>1. PICK p \in Balanced :
        /\ counters' = [counters EXCEPT ![s] = UsageSum(used, p)]
        /\ metered' = [metered EXCEPT ![s] = UsageSum(@, p)]
  BY Zenon DEF UsageAdded
<1>2. /\ counters \in [Subs -> Balanced] /\ emitted \in [Subs -> Balanced] /\ metered \in [Subs -> Balanced]
      /\ reported \in [Subs -> Balanced] /\ lost \in [Subs -> Balanced]
      /\ \A q \in Subs : Pending(q) \in Balanced
  BY Zenon DEF EngineTyped, AccountTyped, ReportTyped, PendingTyped
<1>3. \A q \in Subs : metered[q] = UsageSum(UsageSum(reported[q], lost[q]), Unreported(q))
  BY Zenon DEF UsageConserved, Unreported
<1>. SUFFICES ASSUME NEW q \in Subs
              PROVE  metered'[q] = UsageSum(UsageSum(reported[q], lost[q]), Unreported(q)')
  BY Zenon DEF UsageConserved, Unreported
<1>4. CASE q = s
  <2>1. Unreported(s) \in Usages /\ p \in Usages /\ used \in Usages /\ emitted[s] \in Usages
    BY <1>2, BalancedUsage, NoUsageFields, Zenon DEF Unreported
  <2>2. counters'[s] = UsageSum(used, p) /\ metered'[s] = UsageSum(metered[s], p)
    BY <1>1, <1>2, Zenon
  <2>3. UsageDiff(UsageSum(used, p), emitted[s]) = UsageSum(UsageDiff(used, emitted[s]), p)
    <3>1. UsageDiff(used, emitted[s]) \in Usages
      BY <2>1, Zenon
    <3>. QED  BY <2>1, <3>1, DiffAfterSum, Zenon
  <2>4. Unreported(s)' = UsageSum(Unreported(s), p)
    BY <2>2, <2>3, Zenon DEF Unreported, Pending
  <2>5. UsageSum(reported[s], lost[s]) \in Usages
    BY <1>2, BalancedUsage, UsageSumFields, Zenon
  <2>6. UsageSum(UsageSum(UsageSum(reported[s], lost[s]), Unreported(s)), p)
          = UsageSum(UsageSum(reported[s], lost[s]), UsageSum(Unreported(s), p))
    <3>1. PICK sum \in Usages : sum = UsageSum(reported[s], lost[s])
      BY <2>5, Zenon
    <3>2. UsageSum(UsageSum(sum, Unreported(s)), p) = UsageSum(sum, UsageSum(Unreported(s), p))
      BY <2>1, UsageSumAssoc, Zenon
    <3>. QED  BY <3>1, <3>2, Zenon
  <2>. QED  BY <1>3, <1>4, <2>2, <2>4, <2>6, Zenon
<1>5. CASE q # s
  <2>1. counters'[q] = counters[q] /\ metered'[q] = metered[q]
    BY <1>1, <1>2, <1>5, Zenon
  <2>2. Unreported(q)' = Unreported(q)
    BY <1>5, <2>1, Zenon DEF Unreported, Pending
  <2>. QED  BY <1>3, <2>1, <2>2, Zenon
<1>. QED  BY <1>4, <1>5, Zenon

\* Steps that neither charge nor emit, and leave what is unreported.
LEMMA QuietConserves ==
  ASSUME UsageConserved, UNCHANGED <<metered, reported, lost>>,
         \A s \in Subs : Unreported(s)' = Unreported(s)
  PROVE  UsageConserved'
  BY Zenon DEF UsageConserved, Unreported

-----------------------------------------------------------------------------
(* The statistics *)

\* Each packet is control, unknown or charged, and so is each byte.
TrafficBalanced(st) ==
  /\ st.bytes = st.ulBytes + st.dlBytes + st.unknownBytes
  /\ st.events = st.ulPackets + st.dlPackets + st.unknownEvents + st.controlPdus

SameTallies(st, next) ==
  /\ next.ulBytes = st.ulBytes /\ next.dlBytes = st.dlBytes
  /\ next.recordsEmitted = st.recordsEmitted /\ next.recordsDropped = st.recordsDropped
  /\ next.gyOctets = st.gyOctets

\* A step of the statistics that charges, emits and reports nothing.
Quiet(st, next) == SameTallies(st, next) /\ (TrafficBalanced(st) => TrafficBalanced(next))

\* The packet is counted; what it was is not decided yet.
OneCounted(ev, st, next) ==
  /\ SameTallies(st, next)
  /\ next.events = st.events + 1 /\ next.bytes = st.bytes + ev.bytes
  /\ next.ulPackets = st.ulPackets /\ next.dlPackets = st.dlPackets
  /\ next.unknownEvents = st.unknownEvents /\ next.unknownBytes = st.unknownBytes
  /\ next.controlPdus = st.controlPdus

\* Sessions, releases, unbound tunnels and Gy events without usage are no traffic.
LEMMA QuietCounts ==
  ASSUME NEW st \in Stats, NEW m \in Nat, NEW n \in Nat
  PROVE  /\ Quiet(st, [st EXCEPT !.installed = @ + m, !.bindFailures = @ + n])
         /\ Quiet(st, [st EXCEPT !.released = @ + 1])
         /\ Quiet(st, [st EXCEPT !.gyEvents = @ + 1])
<1>1. \A next : next = [st EXCEPT !.installed = @ + m, !.bindFailures = @ + n] => Quiet(st, next)
  BY DEF Quiet, SameTallies, TrafficBalanced, Stats
<1>2. \A next : next = [st EXCEPT !.released = @ + 1] => Quiet(st, next)
  BY DEF Quiet, SameTallies, TrafficBalanced, Stats
<1>3. \A next : next = [st EXCEPT !.gyEvents = @ + 1] => Quiet(st, next)
  BY DEF Quiet, SameTallies, TrafficBalanced, Stats
<1>. QED  BY <1>1, <1>2, <1>3, Zenon

\* Every packet is counted once, a learned one too.
LEMMA CountedOnce ==
  ASSUME NEW ev \in Events, stats \in Stats
  PROVE  /\ Counted(ev) \in Stats
         /\ OneCounted(ev, stats, Counted(ev))
         /\ [Counted(ev) EXCEPT !.learned = @ + 1] \in Stats
         /\ OneCounted(ev, stats, [Counted(ev) EXCEPT !.learned = @ + 1])
<1>1. ev.bytes \in Nat
  BY EngineAssumption, Zenon
<1>2. Counted(ev) \in Stats
  BY <1>1, StatsKept, Zenon DEF Counted
<1>3. \A next : next = Counted(ev) => OneCounted(ev, stats, next)
  BY <1>1 DEF Counted, OneCounted, SameTallies, Stats
<1>4. OneCounted(ev, stats, Counted(ev))
  BY <1>3, Zenon
<1>5. ASSUME NEW c \in Stats, OneCounted(ev, stats, c), NEW next, next = [c EXCEPT !.learned = @ + 1]
      PROVE  OneCounted(ev, stats, next)
  BY <1>5 DEF OneCounted, SameTallies, Stats
<1>6. [Counted(ev) EXCEPT !.learned = @ + 1] \in Stats
  BY <1>2, StatsKept, Zenon
<1>. QED  BY <1>2, <1>4, <1>5, <1>6, Zenon

\* A counted packet that turns out control, or unknown with or without a
\* learned subscriber, balances.
LEMMA DecidedQuiet ==
  ASSUME NEW ev \in Events, stats \in Stats, NEW st \in Stats, OneCounted(ev, stats, st)
  PROVE  /\ ev.control => Quiet(stats, [st EXCEPT !.controlPdus = @ + 1])
         /\ Quiet(stats, CountedUnknown(ev, st))
         /\ Quiet(stats, CountedUnknown(ev, [st EXCEPT !.bindFailures = @ + 1]))
<1>1. ev.bytes \in Nat /\ (ev.control => ev.bytes = 0)
  BY EngineAssumption, Zenon
<1>2. ASSUME ev.control, NEW next, next = [st EXCEPT !.controlPdus = @ + 1]
      PROVE  Quiet(stats, next)
  BY <1>1, <1>2 DEF OneCounted, Quiet, SameTallies, TrafficBalanced, Stats
<1>3. ASSUME NEW c \in Stats, OneCounted(ev, stats, c), NEW next, next = CountedUnknown(ev, c)
      PROVE  Quiet(stats, next)
  BY <1>1, <1>3 DEF CountedUnknown, OneCounted, Quiet, SameTallies, TrafficBalanced, Stats
<1>4. ASSUME NEW c, c = [st EXCEPT !.bindFailures = @ + 1]
      PROVE  c \in Stats /\ OneCounted(ev, stats, c)
  <2>1. c \in Stats
    BY <1>4, StatsKept, Zenon
  <2>2. OneCounted(ev, stats, c)
    BY <1>4 DEF OneCounted, SameTallies, Stats
  <2>. QED  BY <2>1, <2>2
<1>. QED  BY <1>2, <1>3, <1>4, Zenon

\* A sum over the subscribers is a number.
LEMMA SumOverNat ==
  ASSUME NEW f \in [Subs -> Nat]
  PROVE  SumOver(f) \in Nat
<1>. DEFINE h == [i \in 1 .. MaxSubscribers |-> f[i - 1]]
<1>0. MaxSubscribers \in Nat
  BY ConstantTypes
<1>1. \A i \in 1 .. MaxSubscribers : h[i] \in Nat
  BY <1>0 DEF Subs
<1>. HIDE DEF h
<1>2. SumTo(h, MaxSubscribers) \in Nat
  BY <1>0, <1>1, SumToNat
<1>. QED  BY <1>2, Zenon DEF h, SumOver

\* It changes by as much as one of its terms.
LEMMA SumOverOne ==
  ASSUME NEW f \in [Subs -> Nat], NEW g \in [Subs -> Nat], NEW s \in Subs,
         \A q \in Subs : q # s => g[q] = f[q]
  PROVE  SumOver(g) + f[s] = SumOver(f) + g[s]
<1>. DEFINE hf == [i \in 1 .. MaxSubscribers |-> f[i - 1]]
            hg == [i \in 1 .. MaxSubscribers |-> g[i - 1]]
<1>0. MaxSubscribers \in Nat
  BY ConstantTypes
<1>1. \A i \in 1 .. MaxSubscribers : hf[i] = f[i - 1] /\ hg[i] = g[i - 1] /\ i - 1 \in Subs
  BY <1>0 DEF Subs
<1>2. PICK j \in 1 .. MaxSubscribers : j - 1 = s /\ \A i \in 1 .. MaxSubscribers : i # j => i - 1 # s
  <2>1. s + 1 \in 1 .. MaxSubscribers /\ (s + 1) - 1 = s
    BY <1>0 DEF Subs
  <2>2. \A i \in 1 .. MaxSubscribers : i # s + 1 => i - 1 # s
    BY <1>0 DEF Subs
  <2>. QED  BY <2>1, <2>2, Zenon
<1>3. hf[j] = f[s] /\ hg[j] = g[s]
  BY <1>1, <1>2, Zenon
<1>. HIDE DEF hf, hg
<1>4. \A i \in 1 .. MaxSubscribers : hf[i] \in Nat /\ hg[i] \in Nat
  BY <1>1, Zenon
<1>5. \A i \in 1 .. MaxSubscribers : i # j => hg[i] = hf[i]
  BY <1>1, <1>2, Zenon
<1>6. SumTo(hg, MaxSubscribers) + hf[j] = SumTo(hf, MaxSubscribers) + hg[j]
  <2>1. AgreeBut(hf, hg, MaxSubscribers, j)
    BY <1>4, <1>5, Zenon DEF AgreeBut
  <2>. QED  BY <1>0, <2>1, SumToOne
<1>. QED  BY <1>3, <1>6, Zenon DEF hf, hg, SumOver

\* It is zero when all its terms are.
LEMMA SumOverZero ==
  ASSUME NEW f, \A s \in Subs : f[s] = 0
  PROVE  SumOver(f) = 0
<1>. DEFINE h == [i \in 1 .. MaxSubscribers |-> f[i - 1]]
<1>0. MaxSubscribers \in Nat
  BY ConstantTypes
<1>1. \A i \in 1 .. MaxSubscribers : h[i] = 0
  BY <1>0 DEF Subs
<1>. HIDE DEF h
<1>2. SumTo(h, MaxSubscribers) = 0
  BY <1>0, <1>1, SumToNothing
<1>. QED  BY <1>2, Zenon DEF h, SumOver

\* Charging a packet adds its bytes to the sums of one direction.
LEMMA MeteredSums ==
  ASSUME metered \in [Subs -> Balanced], NEW s \in Subs, NEW p \in Balanced,
         metered' = [metered EXCEPT ![s] = UsageSum(@, p)]
  PROVE  /\ SumOver([q \in Subs |-> metered'[q].ulBytes])
              = SumOver([q \in Subs |-> metered[q].ulBytes]) + p.ulBytes
         /\ SumOver([q \in Subs |-> metered'[q].dlBytes])
              = SumOver([q \in Subs |-> metered[q].dlBytes]) + p.dlBytes
<1>. DEFINE ul == [q \in Subs |-> metered[q].ulBytes]
            dl == [q \in Subs |-> metered[q].dlBytes]
            ul2 == [q \in Subs |-> metered'[q].ulBytes]
            dl2 == [q \in Subs |-> metered'[q].dlBytes]
<1>1. /\ metered[s] \in Usages /\ p \in Usages
      /\ \A q \in Subs : metered[q].ulBytes \in Nat /\ metered[q].dlBytes \in Nat
      /\ p.ulBytes \in Nat /\ p.dlBytes \in Nat
  BY DEF Balanced, Usages
<1>2. /\ metered'[s] = UsageSum(metered[s], p)
      /\ \A q \in Subs : q # s => metered'[q] = metered[q]
  BY Zenon
<1>3. /\ metered'[s].ulBytes = metered[s].ulBytes + p.ulBytes
      /\ metered'[s].dlBytes = metered[s].dlBytes + p.dlBytes
  BY <1>1, <1>2, UsageSumFields, Zenon
<1>4. /\ ul2[s] = ul[s] + p.ulBytes /\ dl2[s] = dl[s] + p.dlBytes
      /\ \A q \in Subs : q # s => ul2[q] = ul[q] /\ dl2[q] = dl[q]
  BY <1>2, <1>3, Zenon
<1>5. ul \in [Subs -> Nat] /\ dl \in [Subs -> Nat]
  BY <1>1, Zenon
<1>6. ul2 \in [Subs -> Nat] /\ dl2 \in [Subs -> Nat]
  BY <1>1, <1>2, <1>3
<1>. HIDE DEF ul, dl, ul2, dl2
<1>7. SumOver(ul2) + ul[s] = SumOver(ul) + ul2[s] /\ SumOver(dl2) + dl[s] = SumOver(dl) + dl2[s]
  BY <1>4, <1>5, <1>6, SumOverOne, Zenon
<1>8. /\ SumOver(ul) \in Nat /\ SumOver(ul2) \in Nat /\ SumOver(dl) \in Nat /\ SumOver(dl2) \in Nat
      /\ ul[s] \in Nat /\ dl[s] \in Nat
  BY <1>5, <1>6, SumOverNat, Zenon
<1>9. SumOver(ul2) = SumOver(ul) + p.ulBytes /\ SumOver(dl2) = SumOver(dl) + p.dlBytes
  BY <1>1, <1>4, <1>7, <1>8
<1>. QED  BY <1>9, Zenon DEF ul, dl, ul2, dl2

\* Emitting a record adds one to the sum of the emissions.
LEMMA EmissionSum ==
  ASSUME emissions \in [Subs -> Nat], NEW s \in Subs, emissions' = [emissions EXCEPT ![s] = @ + 1]
  PROVE  SumOver([q \in Subs |-> emissions'[q]]) = SumOver([q \in Subs |-> emissions[q]]) + 1
<1>1. [q \in Subs |-> emissions[q]] = emissions /\ [q \in Subs |-> emissions'[q]] = emissions'
  BY Zenon
<1>2. emissions' \in [Subs -> Nat] /\ emissions'[s] = emissions[s] + 1
  OBVIOUS
<1>3. \A q \in Subs : q # s => emissions'[q] = emissions[q]
  BY Zenon
<1>4. SumOver(emissions') + emissions[s] = SumOver(emissions) + emissions'[s]
  BY <1>2, <1>3, SumOverOne, Zenon
<1>5. SumOver(emissions') \in Nat /\ SumOver(emissions) \in Nat /\ emissions[s] \in Nat
  BY <1>2, SumOverNat, Zenon
<1>6. SumOver(emissions') = SumOver(emissions) + 1
  BY <1>2, <1>4, <1>5
<1>. QED  BY <1>1, <1>6, Zenon

\* Gy usage of one subscriber changes the sum by as much.
LEMMA GySum ==
  ASSUME gy \in [Subs -> [octets : Nat, reports : Nat]], NEW s \in Subs,
         NEW r \in [octets : Nat, reports : Nat], gy' = [gy EXCEPT ![s] = r]
  PROVE  /\ SumOver([q \in Subs |-> gy'[q].octets]) + gy[s].octets
              = SumOver([q \in Subs |-> gy[q].octets]) + r.octets
         /\ SumOver([q \in Subs |-> gy'[q].octets]) \in Nat
         /\ SumOver([q \in Subs |-> gy[q].octets]) \in Nat
<1>. DEFINE f == [q \in Subs |-> gy[q].octets]
            g == [q \in Subs |-> gy'[q].octets]
<1>1. gy'[s] = r /\ gy' \in [Subs -> [octets : Nat, reports : Nat]]
  BY Zenon
<1>2. \A q \in Subs : q # s => gy'[q] = gy[q]
  BY Zenon
<1>3. f \in [Subs -> Nat] /\ g \in [Subs -> Nat]
  BY <1>1
<1>4. f[s] = gy[s].octets /\ g[s] = r.octets /\ \A q \in Subs : q # s => g[q] = f[q]
  BY <1>1, <1>2, Zenon
<1>. HIDE DEF f, g
<1>5. SumOver(g) + f[s] = SumOver(f) + g[s] /\ SumOver(g) \in Nat /\ SumOver(f) \in Nat
  BY <1>3, <1>4, SumOverOne, SumOverNat, Zenon
<1>. QED  BY <1>4, <1>5, Zenon DEF f, g

\* Nothing metered is missing, losses are counted and the statistics agree.
BooksInv == UsageConserved /\ DropsCounted /\ StatsAgree

\* The books are clean at the start.
LEMMA BooksInit == Init => BooksInv
<1>. SUFFICES ASSUME Init PROVE BooksInv
  OBVIOUS
<1>1. /\ active = {} /\ stats = NoStats
      /\ \A s \in Subs : /\ metered[s] = NoUsage /\ reported[s] = NoUsage /\ lost[s] = NoUsage
                         /\ gy[s] = NoGy /\ emissions[s] = 0
  BY Zenon DEF Init
<1>2. UsageConserved
  <2>1. UsageSum(UsageSum(NoUsage, NoUsage), NoUsage) = NoUsage
    BY SumNothing, NoUsageFields, Zenon
  <2>. QED  BY <1>1, <2>1, Zenon DEF UsageConserved
<1>3. DropsCounted
  BY <1>1, Zenon DEF DropsCounted
<1>4. StatsAgree
  <2>1. \A s \in Subs : /\ [q \in Subs |-> metered[q].ulBytes][s] = 0
                        /\ [q \in Subs |-> metered[q].dlBytes][s] = 0
                        /\ [q \in Subs |-> emissions[q]][s] = 0
                        /\ [q \in Subs |-> gy[q].octets][s] = 0
    <3>1. NoUsage.ulBytes = 0 /\ NoUsage.dlBytes = 0 /\ NoGy.octets = 0
      BY DEF NoUsage, NoGy
    <3>. QED  BY <1>1, <3>1, Zenon
  <2>2. /\ SumOver([q \in Subs |-> metered[q].ulBytes]) = 0
        /\ SumOver([q \in Subs |-> metered[q].dlBytes]) = 0
        /\ SumOver([q \in Subs |-> emissions[q]]) = 0
        /\ SumOver([q \in Subs |-> gy[q].octets]) = 0
    BY <2>1, SumOverZero, Zenon
  <2>3. stats \in Stats /\ stats = NoStats
    BY <1>1, EngineTypedInit, Zenon DEF EngineTyped
  <2>4. /\ stats.bytes = 0 /\ stats.ulBytes = 0 /\ stats.dlBytes = 0 /\ stats.unknownBytes = 0
        /\ stats.events = 0 /\ stats.ulPackets = 0 /\ stats.dlPackets = 0 /\ stats.unknownEvents = 0
        /\ stats.controlPdus = 0 /\ stats.recordsEmitted = 0 /\ stats.recordsDropped = 0
        /\ stats.gyOctets = 0
    <3>1. /\ NoStats.bytes = 0 /\ NoStats.ulBytes = 0 /\ NoStats.dlBytes = 0
          /\ NoStats.unknownBytes = 0 /\ NoStats.events = 0 /\ NoStats.ulPackets = 0
          /\ NoStats.dlPackets = 0 /\ NoStats.unknownEvents = 0 /\ NoStats.controlPdus = 0
          /\ NoStats.recordsEmitted = 0 /\ NoStats.recordsDropped = 0 /\ NoStats.gyOctets = 0
      BY Zenon DEF NoStats
    <3>. QED  BY <2>3, <3>1, Zenon
  <2>5. 0 = 0 + 0 + 0 /\ 0 = 0 + 0 + 0 + 0 /\ 0 + 0 = 0 /\ 0 >= 0
    OBVIOUS
  <2>. QED  BY <2>2, <2>4, <2>5, Zenon DEF StatsAgree
<1>. QED  BY <1>2, <1>3, <1>4, Zenon DEF BooksInv

\* A subscriber's account that does not move keeps the statistics true.
LEMMA QuietAgrees ==
  ASSUME stats \in Stats, StatsAgree, DropsCounted, Quiet(stats, stats'),
         UNCHANGED <<metered, emissions, gy, lost>>
  PROVE  StatsAgree' /\ DropsCounted'
<1>1. TrafficBalanced(stats)
  BY Zenon DEF StatsAgree, TrafficBalanced
<1>2. TrafficBalanced(stats') /\ SameTallies(stats, stats')
  BY <1>1, Zenon DEF Quiet
<1>3. StatsAgree'
  BY <1>2, Zenon DEF StatsAgree, TrafficBalanced, SameTallies
<1>4. DropsCounted'
  BY <1>2, Zenon DEF DropsCounted, SameTallies
<1>. QED  BY <1>3, <1>4, Zenon

\* emit_record: one more record, emitted or dropped, and a loss only with a drop.
LEMMA EmitAgrees ==
  ASSUME EngineTyped, StatsAgree, DropsCounted, UNCHANGED accountVars, NEW s \in Subs,
         NEW reason, NEW st \in Stats, Quiet(stats, st), EmitRecord(s, reason, st)
  PROVE  StatsAgree' /\ DropsCounted'
<1>1. /\ emissions' = [emissions EXCEPT ![s] = @ + 1] /\ stats' = CountRecord(SinkAccepts, st)
      /\ SinkAccepts => lost' = lost
  BY Zenon DEF EmitRecord
<1>2. UNCHANGED <<metered, gy>>
  BY DEF accountVars
<1>3. TrafficBalanced(st) /\ SameTallies(stats, st)
  BY Zenon DEF StatsAgree, TrafficBalanced, Quiet
<1>4. /\ TrafficBalanced(stats')
      /\ stats'.ulBytes = st.ulBytes /\ stats'.dlBytes = st.dlBytes /\ stats'.gyOctets = st.gyOctets
      /\ stats'.recordsEmitted + stats'.recordsDropped = st.recordsEmitted + st.recordsDropped + 1
      /\ IF SinkAccepts THEN stats'.recordsDropped = st.recordsDropped ELSE stats'.recordsDropped > 0
  <2>1. CASE SinkAccepts
    <3>1. stats' = [st EXCEPT !.recordsEmitted = @ + 1]
      BY <1>1, <2>1, Zenon DEF CountRecord
    <3>. QED  BY <1>3, <2>1, <3>1 DEF Stats, TrafficBalanced
  <2>2. CASE ~SinkAccepts
    <3>1. stats' = [st EXCEPT !.recordsDropped = @ + 1]
      BY <1>1, <2>2, Zenon DEF CountRecord
    <3>. QED  BY <1>3, <2>2, <3>1 DEF Stats, TrafficBalanced
  <2>. QED  BY <2>1, <2>2, Zenon
<1>5. DropsCounted'
  <2>1. CASE SinkAccepts
    BY <1>1, <1>3, <1>4, <2>1, Zenon DEF DropsCounted, SameTallies
  <2>2. CASE ~SinkAccepts
    BY <1>4, <2>2, Zenon DEF DropsCounted
  <2>. QED  BY <2>1, <2>2, Zenon
<1>6. stats'.recordsEmitted + stats'.recordsDropped = SumOver([q \in Subs |-> emissions'[q]])
  <2>1. SumOver([q \in Subs |-> emissions'[q]]) = SumOver([q \in Subs |-> emissions[q]]) + 1
    BY <1>1, EmissionSum, Zenon DEF EngineTyped, ReportTyped
  <2>2. stats.recordsEmitted + stats.recordsDropped = SumOver([q \in Subs |-> emissions[q]])
    BY Zenon DEF StatsAgree
  <2>. QED  BY <1>3, <1>4, <2>1, <2>2, Zenon DEF SameTallies
<1>7. StatsAgree'
  BY <1>2, <1>3, <1>4, <1>6, Zenon DEF StatsAgree, TrafficBalanced, SameTallies
<1>. QED  BY <1>5, <1>7

\* A charged packet is counted on the side it was metered on.
LEMMA ChargeAgrees ==
  ASSUME EngineTyped, StatsAgree, DropsCounted, UNCHANGED <<emissions, gy, lost>>, NEW s \in Subs,
         NEW ev \in Events, NEW used, NEW st, UsageAdded(s, ev, used, st),
         st \in Stats, OneCounted(ev, stats, st)
  PROVE  StatsAgree' /\ DropsCounted'
<1>1. PICK p \in Balanced :
        /\ p.ulBytes + p.dlBytes = ev.bytes
        /\ p.ulPackets + p.dlPackets = 1
        /\ metered' = [metered EXCEPT ![s] = UsageSum(@, p)]
        /\ stats' = [st EXCEPT !.ulBytes = @ + p.ulBytes, !.dlBytes = @ + p.dlBytes,
                               !.ulPackets = @ + p.ulPackets, !.dlPackets = @ + p.dlPackets]
  BY Zenon DEF UsageAdded
<1>2. p.ulBytes \in Nat /\ p.dlBytes \in Nat /\ p.ulPackets \in Nat /\ p.dlPackets \in Nat
  BY DEF Balanced, Usages
<1>3. /\ stats'.ulBytes = st.ulBytes + p.ulBytes /\ stats'.dlBytes = st.dlBytes + p.dlBytes
      /\ stats'.ulPackets = st.ulPackets + p.ulPackets /\ stats'.dlPackets = st.dlPackets + p.dlPackets
      /\ stats'.bytes = st.bytes /\ stats'.events = st.events
      /\ stats'.unknownBytes = st.unknownBytes /\ stats'.unknownEvents = st.unknownEvents
      /\ stats'.controlPdus = st.controlPdus /\ stats'.gyOctets = st.gyOctets
      /\ stats'.recordsEmitted = st.recordsEmitted /\ stats'.recordsDropped = st.recordsDropped
  BY <1>1, <1>2 DEF Stats
<1>4. TrafficBalanced(stats) /\ stats \in Stats
  BY Zenon DEF StatsAgree, TrafficBalanced, EngineTyped
<1>5. TrafficBalanced(stats')
  BY <1>1, <1>2, <1>3, <1>4 DEF TrafficBalanced, OneCounted, SameTallies, Stats
<1>6. /\ SumOver([q \in Subs |-> metered'[q].ulBytes])
           = SumOver([q \in Subs |-> metered[q].ulBytes]) + p.ulBytes
      /\ SumOver([q \in Subs |-> metered'[q].dlBytes])
           = SumOver([q \in Subs |-> metered[q].dlBytes]) + p.dlBytes
  BY <1>1, MeteredSums, Zenon DEF EngineTyped, AccountTyped
<1>7. StatsAgree'
  <2>1. /\ stats.ulBytes = SumOver([q \in Subs |-> metered[q].ulBytes])
        /\ stats.dlBytes = SumOver([q \in Subs |-> metered[q].dlBytes])
        /\ stats.recordsEmitted + stats.recordsDropped = SumOver([q \in Subs |-> emissions[q]])
        /\ stats.gyOctets >= SumOver([q \in Subs |-> gy[q].octets])
    BY Zenon DEF StatsAgree
  <2>2. /\ stats'.ulBytes = SumOver([q \in Subs |-> metered'[q].ulBytes])
        /\ stats'.dlBytes = SumOver([q \in Subs |-> metered'[q].dlBytes])
        /\ stats'.recordsEmitted + stats'.recordsDropped = SumOver([q \in Subs |-> emissions'[q]])
        /\ stats'.gyOctets >= SumOver([q \in Subs |-> gy'[q].octets])
    BY <1>3, <1>6, <2>1, Zenon DEF OneCounted, SameTallies
  <2>. QED  BY <1>5, <2>2, Zenon DEF StatsAgree, TrafficBalanced
<1>8. DropsCounted'
  BY <1>3, Zenon DEF DropsCounted, OneCounted, SameTallies
<1>. QED  BY <1>7, <1>8

\* An emission keeps the books.
LEMMA EmitBooks ==
  ASSUME EngineTyped, BooksInv, UNCHANGED accountVars, NEW s \in Subs, s \in active,
         NEW reason, NEW st \in Stats, Quiet(stats, st), EmitRecord(s, reason, st),
         active \ {s} \subseteq active', active' \subseteq active
  PROVE  BooksInv'
<1>1. UsageConserved'
  BY EmitConserves, Zenon DEF BooksInv
<1>2. StatsAgree' /\ DropsCounted'
  BY EmitAgrees, Zenon DEF BooksInv
<1>. QED  BY <1>1, <1>2 DEF BooksInv

\* release_session keeps the books.
LEMMA ReleaseBooks ==
  ASSUME EngineTyped, BindingInv, BooksInv, NEW imsi \in Imsis, ReleaseSession(imsi) \/ ReleaseHangs(imsi)
  PROVE  BooksInv'
<1>. DEFINE s == imsiIndex[imsi]
<1>1. /\ s \in active /\ UNCHANGED accountVars
      /\ active \ {s} \subseteq active' /\ active' \subseteq active
  BY Zenon DEF ReleaseSession, ReleaseHangs, sessionVars
<1>2. s \in Subs
  <2>1. s \in 0 .. nextSub - 1 /\ nextSub \in 0 .. MaxSubscribers
    BY <1>1, Zenon DEF BindingInv, Shape
  <2>. QED  BY <2>1, ConstantTypes DEF Subs
<1>3. PICK st \in Stats : Quiet(stats, st) /\ EmitRecord(s, "release", st)
  <2>1. stats \in Stats /\ [stats EXCEPT !.released = @ + 1] \in Stats
    BY StatsKept, Zenon DEF EngineTyped
  <2>2. Quiet(stats, [stats EXCEPT !.released = @ + 1]) /\ Quiet(stats, stats)
    BY <2>1, QuietCounts, Zenon DEF Quiet, SameTallies
  <2>. QED  BY <2>1, <2>2, Zenon DEF ReleaseSession, ReleaseHangs
<1>. HIDE DEF s
<1>. QED  BY <1>1, <1>2, <1>3, EmitBooks, Zenon

\* A visit of poll() or drain() emits for active sessions only.
LEMMA VisitBooks ==
  ASSUME EngineTyped, BindingInv, BooksInv, PollVisit \/ DrainVisit
  PROVE  BooksInv'
<1>1. UNCHANGED accountVars /\ UNCHANGED active /\ stats \in Stats
  BY Zenon DEF PollVisit, DrainVisit, sessionVars, EngineTyped
<1>2. ASSUME NEW s, s \in active, NEW reason, EmitRecord(s, reason, stats) PROVE BooksInv'
  <2>1. s \in Subs
    <3>1. s \in 0 .. nextSub - 1 /\ nextSub \in 0 .. MaxSubscribers
      BY <1>2, Zenon DEF BindingInv, Shape
    <3>. QED  BY <3>1, ConstantTypes DEF Subs
  <2>2. Quiet(stats, stats)
    BY Zenon DEF Quiet, SameTallies
  <2>. QED  BY <1>1, <1>2, <2>1, <2>2, EmitBooks, Zenon
<1>3. CASE UNCHANGED <<reportVars, stats>>
  <2>1. UNCHANGED <<metered, emissions, gy, lost, reported, emitted, counters, active, stats>>
    BY <1>1, <1>3 DEF reportVars, accountVars
  <2>. QED  BY <2>1, Zenon DEF BooksInv, UsageConserved, DropsCounted, StatsAgree, Pending
<1>4. CASE PollVisit
  <2>1. PollReason(SweepNext) # "none" => SweepNext \in active
    BY DEF PollReason
  <2>. QED  BY <1>2, <1>3, <1>4, <2>1, Zenon DEF PollVisit
<1>5. CASE DrainVisit
  BY <1>2, <1>3, <1>5, Zenon DEF DrainVisit, NeedsDrain
<1>. QED  BY <1>4, <1>5

\* install_session: a session that starts over had nothing left to report.
LEMMA InstallBooks ==
  ASSUME EngineTyped, BindingInv, BooksInv, NEW spec \in SessionSpecs, InstallSession(spec)
  PROVE  BooksInv'
<1>. DEFINE s == IndexFor(spec.imsi)
<1>1. /\ active' = active \cup {s}
      /\ UNCHANGED <<metered, reported, lost, emissions>>
      /\ IF s \in active
           THEN UNCHANGED <<counters, emitted, gy>>
           ELSE /\ counters' = [counters EXCEPT ![s] = NoUsage]
                /\ emitted' = [emitted EXCEPT ![s] = NoUsage]
                /\ gy' = [gy EXCEPT ![s] = NoGy]
  BY Zenon DEF InstallSession, IsReinstall
<1>2. s \in Subs
  <2>1. s < MaxSubscribers /\ spec.imsi \in Imsis
    BY Zenon DEF InstallSession, SessionSpecs
  <2>2. imsiIndex[spec.imsi] \in (0 .. nextSub - 1) \cup {NoSub} /\ nextSub \in 0 .. MaxSubscribers
    BY <2>1, Zenon DEF BindingInv, Shape
  <2>3. MaxSubscribers \in Nat
    BY ConstantTypes
  <2>. QED  BY <2>1, <2>2, <2>3 DEF IndexFor, Subs, NoSub
<1>3. stats \in Stats /\ Quiet(stats, stats')
  <2>1. PICK m \in Nat, n \in Nat : stats' = [stats EXCEPT !.installed = @ + m, !.bindFailures = @ + n]
    BY InstallCounted, Zenon
  <2>. QED  BY <2>1, QuietCounts, Zenon DEF EngineTyped
<1>. HIDE DEF s
<1>4. UsageConserved'
  <2>1. \A q \in Subs : Unreported(q)' = Unreported(q)
    <3>1. CASE s \in active
      BY <1>1, <3>1, Zenon DEF Unreported, Pending
    <3>2. CASE s \notin active
      <4>1. counters \in [Subs -> Balanced] /\ emitted \in [Subs -> Balanced]
        BY Zenon DEF EngineTyped, AccountTyped, ReportTyped
      <4>2. counters'[s] = NoUsage /\ emitted'[s] = NoUsage
        BY <1>1, <1>2, <3>2, <4>1, Zenon
      <4>3. \A q \in Subs : q # s => counters'[q] = counters[q] /\ emitted'[q] = emitted[q]
        BY <1>1, <3>2, <4>1, Zenon
      <4>4. UsageDiff(NoUsage, NoUsage) = NoUsage
        BY DiffSelf, NoUsageFields, Zenon
      <4>. QED  BY <1>1, <3>2, <4>2, <4>3, <4>4, Zenon DEF Unreported, Pending
    <3>. QED  BY <3>1, <3>2
  <2>. QED  BY <1>1, <2>1, QuietConserves, Zenon DEF BooksInv
<1>5. StatsAgree' /\ DropsCounted'
  <2>1. CASE s \in active
    BY <1>1, <1>3, <2>1, QuietAgrees, Zenon DEF BooksInv
  <2>2. CASE s \notin active
    <3>1. TrafficBalanced(stats') /\ SameTallies(stats, stats')
      BY <1>3, Zenon DEF Quiet, BooksInv, StatsAgree, TrafficBalanced
    <3>2. stats'.gyOctets >= SumOver([q \in Subs |-> gy'[q].octets])
      <4>1. NoGy \in [octets : Nat, reports : Nat] /\ NoGy.octets = 0
        BY DEF NoGy
      <4>2. gy \in [Subs -> [octets : Nat, reports : Nat]] /\ gy' = [gy EXCEPT ![s] = NoGy]
        BY <1>1, <2>2, Zenon DEF EngineTyped, AccountTyped
      <4>3. gy[s].octets \in Nat
        BY <1>2, <4>2
      <4>4. /\ SumOver([q \in Subs |-> gy'[q].octets]) + gy[s].octets
                 = SumOver([q \in Subs |-> gy[q].octets]) + NoGy.octets
            /\ SumOver([q \in Subs |-> gy'[q].octets]) \in Nat
            /\ SumOver([q \in Subs |-> gy[q].octets]) \in Nat
        BY <1>2, <4>1, <4>2, GySum, Zenon
      <4>5. stats.gyOctets >= SumOver([q \in Subs |-> gy[q].octets]) /\ stats'.gyOctets = stats.gyOctets
        BY <3>1, Zenon DEF BooksInv, StatsAgree, SameTallies
      <4>6. stats.gyOctets \in Nat
        BY <1>3 DEF Stats
      <4>7. \A g, sum, sum2, old \in Nat : sum2 + old = sum + 0 /\ g >= sum => g >= sum2
        OBVIOUS
      <4>. QED  BY <4>1, <4>3, <4>4, <4>5, <4>6, <4>7, Zenon
    <3>3. StatsAgree'
      BY <1>1, <3>1, <3>2, Zenon DEF BooksInv, StatsAgree, TrafficBalanced, SameTallies
    <3>4. DropsCounted'
      BY <1>1, <3>1, Zenon DEF BooksInv, DropsCounted, SameTallies
    <3>. QED  BY <3>3, <3>4
  <2>. QED  BY <2>1, <2>2
<1>. QED  BY <1>4, <1>5 DEF BooksInv

\* apply() keeps the books, whatever the packet turns out to be.
LEMMA ApplyBooks ==
  ASSUME EngineTyped, BindingInv, BooksInv, NEW ev \in Events, Apply(ev)
  PROVE  BooksInv'
<1>0. /\ stats \in Stats
      /\ UNCHANGED <<emitted, reported, lost, emissions>>
  BY DEF EngineTyped, Apply
<1>1. /\ Counted(ev) \in Stats /\ OneCounted(ev, stats, Counted(ev))
      /\ [Counted(ev) EXCEPT !.learned = @ + 1] \in Stats
      /\ OneCounted(ev, stats, [Counted(ev) EXCEPT !.learned = @ + 1])
  BY <1>0, CountedOnce, Zenon
<1>2. ev.teid \in Teids \cup {0}
  BY EngineAssumption, Zenon
<1>3. CASE ApplyControl(ev) \/ ApplyUnknown(ev)
  <2>1. UNCHANGED <<metered, gy, active, counters>>
    BY <1>3 DEF ApplyControl, ApplyUnknown, sessionVars, accountVars
  <2>2. Quiet(stats, stats')
    BY <1>0, <1>1, <1>3, DecidedQuiet, Zenon DEF ApplyControl, ApplyUnknown
  <2>3. \A s \in Subs : Unreported(s)' = Unreported(s)
    BY <1>0, <2>1, Zenon DEF Unreported, Pending
  <2>. QED  BY <1>0, <2>1, <2>2, <2>3, QuietConserves, QuietAgrees, Zenon DEF BooksInv
<1>4. CASE ApplyBound(ev)
  <2>. DEFINE b == teidMap[ev.teid]
              s == b.sub
  <2>1. b \in Bindings /\ s \in Subs /\ s \in active
    <3>1. b \in Bindings \cup {Unbound} /\ b # Unbound /\ s \in active
      BY <1>2, <1>4, Zenon DEF BindingInv, Shape, BindingSound, ApplyBound
    <3>. QED  BY <3>1, BoundSub, Zenon
  <2>2. /\ Charge(s, b, ev, bucketIds[s], counters[s], charged[s], ratingGroup[s], Counted(ev))
        /\ UNCHANGED <<active, gy>>
    BY <1>4, Zenon DEF ApplyBound, sessionVars
  <2>3. counters[s] \in Balanced /\ UsageDiff(counters[s], emitted[s]) = Unreported(s)
    BY <2>1, Zenon DEF EngineTyped, AccountTyped, Unreported, Pending
  <2>. HIDE DEF b, s
  <2>4. UsageAdded(s, ev, counters[s], Counted(ev))
    BY <2>1, <2>2, ChargePacket, Zenon
  <2>5. active' = active \cup {s}
    BY <2>1, <2>2, Zenon
  <2>6. UsageConserved'
    BY <1>0, <2>1, <2>3, <2>4, <2>5, ChargeConserves, Zenon DEF BooksInv
  <2>7. StatsAgree' /\ DropsCounted'
    BY <1>0, <1>1, <2>1, <2>2, <2>4, ChargeAgrees, Zenon DEF BooksInv
  <2>. QED  BY <2>6, <2>7 DEF BooksInv
<1>5. CASE ApplyLearned(ev)
  <2>. DEFINE s == nextSub
              slot == AssignSlot(UnsetIds, 0)
              b == [sub |-> s, dir |-> ev.dir, slot |-> slot.slot]
              st == [Counted(ev) EXCEPT !.learned = @ + 1]
  <2>0. nextSub \in 0 .. MaxSubscribers /\ active \subseteq 0 .. nextSub - 1
    BY Zenon DEF BindingInv, Shape
  <2>1. s < MaxSubscribers /\ active' = active \cup {s} /\ UNCHANGED gy
    BY <1>5, Zenon DEF ApplyLearned
  <2>2. s \in Subs /\ s \notin active /\ s >= nextSub
    BY <2>0, <2>1, ConstantTypes DEF Subs
  <2>3. counters[s] = NoUsage /\ emitted[s] = NoUsage
    BY <2>2, Zenon DEF EngineTyped, PendingTyped
  <2>4. UsageDiff(NoUsage, NoUsage) = NoUsage
    BY DiffSelf, NoUsageFields, Zenon
  <2>5. CASE TableFull(teidMap, ev.teid)
    <3>1. /\ stats' = CountedUnknown(ev, [st EXCEPT !.bindFailures = @ + 1])
          /\ UNCHANGED <<counters, metered>>
      BY <1>5, <2>5, Zenon DEF ApplyLearned
    <3>2. Quiet(stats, stats')
      BY <1>0, <1>1, <3>1, DecidedQuiet, Zenon
    <3>3. \A q \in Subs : Unreported(q)' = Unreported(q)
      BY <1>0, <2>1, <2>2, <2>3, <2>4, <3>1, Zenon DEF Unreported, Pending
    <3>. QED  BY <1>0, <2>1, <3>1, <3>2, <3>3, QuietConserves, QuietAgrees, Zenon DEF BooksInv
  <2>6. CASE ~TableFull(teidMap, ev.teid)
    <3>1. Charge(s, b, ev, slot.ids, NoUsage, NoCharges, 0, st)
      BY <1>5, <2>6, Zenon DEF ApplyLearned
    <3>2. b \in Bindings
      <4>1. ev.dir \in {"ul", "dl", "unknown"}
        BY EngineAssumption, Zenon
      <4>2. slot.slot \in BucketSlots
        BY AssignSlotRange, Zenon
      <4>. QED  BY <2>2, <4>1, <4>2, Zenon DEF Bindings
    <3>3. st \in Stats /\ OneCounted(ev, stats, st)
      BY <1>1, Zenon
    <3>. HIDE DEF b, st, slot, s
    <3>4. UsageAdded(s, ev, NoUsage, st)
      BY <3>1, <3>2, ChargePacket, Zenon
    <3>5. UsageDiff(NoUsage, emitted[s]) = Unreported(s)
      BY <2>2, <2>3, <2>4, Zenon DEF Unreported
    <3>6. UsageConserved'
      BY <1>0, <2>1, <2>2, <3>4, <3>5, BalancedNothing, ChargeConserves, Zenon DEF BooksInv
    <3>7. StatsAgree' /\ DropsCounted'
      BY <1>0, <2>1, <2>2, <3>3, <3>4, ChargeAgrees, Zenon DEF BooksInv
    <3>. QED  BY <3>6, <3>7 DEF BooksInv
  <2>. QED  BY <2>5, <2>6
<1>. QED  BY <1>3, <1>4, <1>5, Zenon DEF Apply

\* A usable Gy event adds the same octets to one subscriber and to the statistics.
LEMMA GyBooks ==
  ASSUME EngineTyped, BooksInv, NEW imsi \in Imsis, NEW usable, NEW octets \in GyOctets,
         ApplyGy(imsi, usable, octets)
  PROVE  BooksInv'
<1>. DEFINE s == imsiIndex[imsi]
<1>0. UNCHANGED <<active, counters, emitted, metered, reported, lost, emissions>> /\ stats \in Stats
  BY DEF ApplyGy, sessionVars, reportVars, EngineTyped
<1>1. octets \in Nat
  BY EngineAssumption, Zenon
<1>2. UsageConserved'
  <2>1. \A q \in Subs : Unreported(q)' = Unreported(q)
    BY <1>0, Zenon DEF Unreported, Pending
  <2>. QED  BY <1>0, <2>1, QuietConserves, Zenon DEF BooksInv
<1>3. CASE ~(usable /\ s # NoSub)
  <2>1. stats' = [stats EXCEPT !.gyEvents = @ + 1] /\ UNCHANGED gy
    BY <1>3, Zenon DEF ApplyGy
  <2>2. Quiet(stats, stats')
    BY <1>0, <2>1, QuietCounts, Zenon
  <2>. QED  BY <1>0, <1>2, <2>1, <2>2, QuietAgrees, Zenon DEF BooksInv
<1>4. CASE usable /\ s # NoSub
  <2>1. /\ stats' = [stats EXCEPT !.gyEvents = @ + 1, !.gyOctets = @ + octets]
        /\ gy' = [gy EXCEPT ![s] = [octets |-> @.octets + octets, reports |-> @.reports + 1]]
    BY <1>4, Zenon DEF ApplyGy
  <2>2. s \in Subs
    <3>1. s \in 0 .. nextSub - 1 /\ nextSub \in 0 .. MaxSubscribers
      BY <1>4, Zenon DEF EngineTyped, SessionTyped, Shape
    <3>. QED  BY <3>1, ConstantTypes DEF Subs
  <2>3. gy \in [Subs -> [octets : Nat, reports : Nat]]
    BY Zenon DEF EngineTyped, AccountTyped
  <2>4. gy[s].octets \in Nat /\ gy[s].reports \in Nat
    BY <2>2, <2>3
  <2>. DEFINE r == [octets |-> gy[s].octets + octets, reports |-> gy[s].reports + 1]
  <2>5. r \in [octets : Nat, reports : Nat] /\ r.octets = gy[s].octets + octets
    <3>1. gy[s].octets + octets \in Nat /\ gy[s].reports + 1 \in Nat
      <4>1. \A a, b \in Nat : a + b \in Nat /\ a + 1 \in Nat
        OBVIOUS
      <4>. QED  BY <1>1, <2>4, <4>1, Zenon
    <3>. QED  BY <3>1, Zenon
  <2>6. gy' = [gy EXCEPT ![s] = r]
    BY <2>1, Zenon
  <2>. HIDE DEF r, s
  <2>7. /\ SumOver([q \in Subs |-> gy'[q].octets]) + gy[s].octets
             = SumOver([q \in Subs |-> gy[q].octets]) + r.octets
        /\ SumOver([q \in Subs |-> gy'[q].octets]) \in Nat
        /\ SumOver([q \in Subs |-> gy[q].octets]) \in Nat
    BY <2>2, <2>3, <2>5, <2>6, GySum, Zenon
  <2>8. /\ stats'.gyOctets = stats.gyOctets + octets /\ stats.gyOctets \in Nat
        /\ stats'.ulBytes = stats.ulBytes /\ stats'.dlBytes = stats.dlBytes
        /\ stats'.ulPackets = stats.ulPackets /\ stats'.dlPackets = stats.dlPackets
        /\ stats'.bytes = stats.bytes /\ stats'.events = stats.events
        /\ stats'.unknownBytes = stats.unknownBytes /\ stats'.unknownEvents = stats.unknownEvents
        /\ stats'.controlPdus = stats.controlPdus
        /\ stats'.recordsEmitted = stats.recordsEmitted /\ stats'.recordsDropped = stats.recordsDropped
    BY <1>0, <1>1, <2>1 DEF Stats
  <2>9. stats.gyOctets >= SumOver([q \in Subs |-> gy[q].octets])
    BY Zenon DEF BooksInv, StatsAgree
  <2>10. stats'.gyOctets >= SumOver([q \in Subs |-> gy'[q].octets])
    <3>1. \A g, sum, sum2, old, n \in Nat : sum2 + old = sum + (old + n) /\ g >= sum => g + n >= sum2
      OBVIOUS
    <3>2. SumOver([q \in Subs |-> gy'[q].octets]) + gy[s].octets
            = SumOver([q \in Subs |-> gy[q].octets]) + (gy[s].octets + octets)
      BY <2>5, <2>7, Zenon
    <3>3. stats.gyOctets + octets >= SumOver([q \in Subs |-> gy'[q].octets])
      BY <1>1, <2>4, <2>7, <2>8, <2>9, <3>1, <3>2, Zenon
    <3>. QED  BY <2>8, <3>3, Zenon
  <2>11. StatsAgree'
    BY <1>0, <2>8, <2>10, Zenon DEF BooksInv, StatsAgree
  <2>12. DropsCounted'
    BY <1>0, <2>8, Zenon DEF BooksInv, DropsCounted
  <2>. QED  BY <1>2, <2>11, <2>12 DEF BooksInv
<1>. QED  BY <1>3, <1>4

\* The steps that only turn the engine's wheels.
LEMMA RestBooks ==
  ASSUME BooksInv,
         \/ PollBegin \/ DrainBegin \/ ReporterTakes \/ Tick \/ UNCHANGED vars
         \/ \E spec \in SessionSpecs : InstallHangs(spec)
  PROVE  BooksInv'
<1>1. UNCHANGED accountVars /\ UNCHANGED active /\ UNCHANGED stats
  BY Zenon DEF PollBegin, DrainBegin, ReporterTakes, Tick, InstallHangs, vars, sessionVars
<1>2. UNCHANGED <<emitted, reported, lost, emissions>>
  BY Zenon DEF PollBegin, DrainBegin, ReporterTakes, Tick, InstallHangs, vars, reportVars
<1>3. UNCHANGED <<metered, emissions, gy, lost, reported, emitted, counters, active, stats>>
  BY <1>1, <1>2 DEF accountVars
<1>. QED  BY <1>3, Zenon DEF BooksInv, UsageConserved, DropsCounted, StatsAgree, Pending

\* Every operation of the engine keeps the books.
LEMMA BooksNext == EngineTyped /\ BindingInv /\ BooksInv /\ [Next]_vars => BooksInv'
<1>. SUFFICES ASSUME EngineTyped, BindingInv, BooksInv, [Next]_vars PROVE BooksInv'
  OBVIOUS
<1>1. ASSUME NEW spec \in SessionSpecs, InstallSession(spec) PROVE BooksInv'
  BY <1>1, InstallBooks, Zenon
<1>2. ASSUME NEW spec \in SessionSpecs, InstallHangs(spec) PROVE BooksInv'
  BY <1>2, RestBooks, Zenon
<1>3. ASSUME NEW imsi \in Imsis, ReleaseSession(imsi) \/ ReleaseHangs(imsi) PROVE BooksInv'
  BY <1>3, ReleaseBooks, Zenon
<1>4. ASSUME NEW ev \in Events, Apply(ev) PROVE BooksInv'
  BY <1>4, ApplyBooks, Zenon
<1>5. ASSUME NEW imsi \in Imsis, NEW usable \in BOOLEAN, NEW octets \in GyOctets,
             ApplyGy(imsi, usable, octets)
      PROVE  BooksInv'
  BY <1>5, GyBooks, Zenon
<1>6. CASE DrainBegin \/ PollBegin \/ ReporterTakes \/ Tick \/ UNCHANGED vars
  BY <1>6, RestBooks, Zenon
<1>7. CASE PollVisit \/ DrainVisit
  BY <1>7, VisitBooks, Zenon
<1>. QED
  BY <1>1, <1>2, <1>3, <1>4, <1>5, <1>6, <1>7, Zenon
  DEF Next, Control, ControlOp, Data, Reporting

\* All books, always.
LEMMA BooksAlways == Spec => [](EngineTyped /\ BindingInv /\ BooksInv)
  BY EngineTypedAlways, BooksInit, BooksNext, PTL DEF Spec

\* Nothing metered goes missing: what a subscriber was ever charged is in its
\* records, in the records the sink refused, or pending in an active session
\* (apply, emit_record, install_session, release_session, poll, drain).
THEOREM EngineUsageConserved == Spec => []UsageConserved
<1>1. BooksInv => UsageConserved
  BY DEF BooksInv
<1>. QED  BY BooksAlways, <1>1, PTL

\* Usage is lost only with a dropped record in the statistics.
THEOREM EngineDropsCounted == Spec => []DropsCounted
<1>1. BooksInv => DropsCounted
  BY DEF BooksInv
<1>. QED  BY BooksAlways, <1>1, PTL

\* The pipeline statistics agree with the subscribers' histories, summed over
\* a table of any size.
THEOREM EngineStatsAgree == Spec => []StatsAgree
<1>1. BooksInv => StatsAgree
  BY DEF BooksInv
<1>. QED  BY BooksAlways, <1>1, PTL
=============================================================================
