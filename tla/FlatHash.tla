------------------------------ MODULE FlatHash ------------------------------
(***************************************************************************)
(* The open-addressing TEID table of include/gtpm/flat_hash.hpp: linear    *)
(* probing, one reserved key in a side slot, and deletion by shifting      *)
(* later elements back.  The table has one owner, so find and insert are   *)
(* one step each; remove_at takes one step per slot it looks at, because   *)
(* whether it ends is a question.  hash_u32 is any function from keys to   *)
(* slots, chosen at the start.                                             *)
(***************************************************************************)
EXTENDS Integers, FiniteSets, FiniteSetsExt

CONSTANTS
  Keys,       \* 32-bit keys other than kEmptyKey
  Reserved,   \* the key with the value of kEmptyKey
  EmptyKey,   \* kEmptyKey as the mark of a free slot
  Values, NoValue,
  Capacity    \* capacity_

ASSUME HashAssumption ==
  /\ Capacity \in Nat \ {0}
  /\ EmptyKey \notin Keys
  /\ Reserved \notin Keys
  /\ NoValue \notin Values

VARIABLES
  hash,             \* hash_u32(key) & mask_
  keys, values,     \* keys_, values_
  size,             \* size_
  sentinel,         \* sentinel_used_ and sentinel_value_
  pc, hole, next,   \* progress of remove_at
  frozen            \* history: the lookups before the erase in progress

vars == <<hash, keys, values, size, sentinel, pc, hole, next, frozen>>

Slots == 0 .. Capacity - 1
AllKeys == Keys \cup {Reserved}

\* (i + 1) & mask_
Advance(i) == (i + 1) % Capacity

\* The slot that is p probes away from the ideal slot of k.
ProbeSlot(k, p) == (hash[k] + p) % Capacity

\* The probes that end a search for k: its key, or a gap.
EndProbes(k) == {p \in Slots : keys[ProbeSlot(k, p)] \in {k, EmptyKey}}

\* find()
Lookup(k) ==
  CASE k = Reserved -> sentinel
    [] k # Reserved /\ EndProbes(k) = {} -> NoValue
    [] OTHER -> LET i == ProbeSlot(k, Min(EndProbes(k)))
                IN  IF keys[i] = k THEN values[i] ELSE NoValue

Lookups == [k \in AllKeys |-> Lookup(k)]

Init ==
  /\ hash \in [Keys -> Slots]
  /\ keys = [i \in Slots |-> EmptyKey]
  /\ values = [i \in Slots |-> CHOOSE v \in Values : TRUE]
  /\ size = 0
  /\ sentinel = NoValue
  /\ pc = "idle" /\ hole = 0 /\ next = 0
  /\ frozen = [k \in AllKeys |-> NoValue]

-----------------------------------------------------------------------------
InsertReserved(v) ==
  /\ pc = "idle"
  /\ sentinel' = v
  /\ UNCHANGED <<hash, keys, values, size, pc, hole, next, frozen>>

\* Mutant: overwriting a key counts it again.
InsertCountsTwice(k, v) ==
  LET i == ProbeSlot(k, Min(EndProbes(k))) IN
  /\ pc = "idle"
  /\ size < Capacity
  /\ EndProbes(k) # {}
  /\ keys' = [keys EXCEPT ![i] = k]
  /\ values' = [values EXCEPT ![i] = v]
  /\ size' = size + 1
  /\ UNCHANGED <<hash, sentinel, pc, hole, next, frozen>>

\* insert(): refused without a step when the table is full.
Insert(k, v) ==
  LET i == ProbeSlot(k, Min(EndProbes(k))) IN
  /\ pc = "idle"
  /\ size < Capacity
  /\ EndProbes(k) # {}
  /\ keys' = [keys EXCEPT ![i] = k]
  /\ values' = [values EXCEPT ![i] = v]
  /\ size' = IF keys[i] = k THEN size ELSE size + 1
  /\ UNCHANGED <<hash, sentinel, pc, hole, next, frozen>>

EraseReserved ==
  /\ pc = "idle"
  /\ sentinel' = NoValue
  /\ UNCHANGED <<hash, keys, values, size, pc, hole, next, frozen>>

\* erase() of a key that is present enters remove_at.
Erase(k) ==
  LET i == ProbeSlot(k, Min(EndProbes(k))) IN
  /\ pc = "idle"
  /\ EndProbes(k) # {}
  /\ keys[i] = k
  /\ pc' = "shift"
  /\ hole' = i
  /\ next' = Advance(i)
  /\ frozen' = Lookups
  /\ UNCHANGED <<hash, keys, values, size, sentinel>>

\* The element at next may move into the hole without leaving its own probe
\* chain.  Mutant: every element moves.
MovesAlways(i) == TRUE
Moves(i) == (i - hash[keys[i]]) % Capacity >= (i - hole) % Capacity

\* Mutant: an element that stays is looked at again.
ShiftStuck ==
  /\ pc = "shift"
  /\ keys[next] # EmptyKey
  /\ IF Moves(next)
       THEN /\ keys' = [keys EXCEPT ![hole] = keys[next]]
            /\ values' = [values EXCEPT ![hole] = values[next]]
            /\ hole' = next
            /\ next' = Advance(next)
       ELSE UNCHANGED <<keys, values, hole, next>>
  /\ UNCHANGED <<hash, size, sentinel, pc, frozen>>

\* One iteration of the loop in remove_at.
Shift ==
  /\ pc = "shift"
  /\ keys[next] # EmptyKey
  /\ next' = Advance(next)
  /\ IF Moves(next)
       THEN /\ keys' = [keys EXCEPT ![hole] = keys[next]]
            /\ values' = [values EXCEPT ![hole] = values[next]]
            /\ hole' = next
       ELSE UNCHANGED <<keys, values, hole>>
  /\ UNCHANGED <<hash, size, sentinel, pc, frozen>>

\* remove_at returns: its locals are gone.
Return ==
  /\ pc' = "idle" /\ hole' = 0 /\ next' = 0
  /\ frozen' = [k \in AllKeys |-> NoValue]

\* The gap is found: the hole becomes one.
ShiftDone ==
  /\ pc = "shift"
  /\ keys[next] = EmptyKey
  /\ keys' = [keys EXCEPT ![hole] = EmptyKey]
  /\ size' = size - 1
  /\ Return
  /\ UNCHANGED <<hash, values, sentinel>>

ClearAll ==
  /\ pc = "idle"
  /\ keys' = [i \in Slots |-> EmptyKey]
  /\ size' = 0
  /\ sentinel' = NoValue
  /\ UNCHANGED <<hash, values, pc, hole, next, frozen>>

Next ==
  \/ \E v \in Values : InsertReserved(v)
  \/ \E k \in Keys, v \in Values : Insert(k, v)
  \/ EraseReserved
  \/ \E k \in Keys : Erase(k)
  \/ Shift
  \/ ShiftDone
  \/ ClearAll

Spec == Init /\ [][Next]_vars

-----------------------------------------------------------------------------
(* Properties *)

\* Between calls size_ is the number of occupied slots and no key occupies two,
\* so load_factor() and the fullness test of insert() are right.
SizeExact ==
  pc = "idle" =>
    /\ size = Cardinality({i \in Slots : keys[i] # EmptyKey})
    /\ \A i, j \in Slots : keys[i] = keys[j] /\ keys[i] # EmptyKey => i = j

\* find() answers like a map, through every sequence of insertions, overwrites
\* and deletions and whatever the collisions: no deletion hides another key.
Map == INSTANCE BoundedMap WITH map <- IF pc = "idle" THEN Lookups ELSE frozen

RefinesBoundedMap == Map!MapSpec

\* An erase() returns if some slot is free when it begins: the loop of remove_at,
\* which has no other bound (flat_hash.hpp:161-177), then finds a gap, however
\* the elements it moves collide.
EraseReturns == (pc = "shift" /\ \E i \in Slots : keys[i] = EmptyKey) ~> pc = "idle"
=============================================================================
