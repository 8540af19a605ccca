----------------------------- MODULE BoundedMap -----------------------------
(***************************************************************************)
(* What FlatHashU32 promises: a map from keys to values that refuses an    *)
(* insertion only when Capacity keys, not counting the reserved one, are   *)
(* present.                                                                *)
(***************************************************************************)
EXTENDS Integers, FiniteSets

CONSTANTS Keys, Reserved, Values, NoValue, Capacity

VARIABLE map

MapInit == map = [k \in Keys \cup {Reserved} |-> NoValue]

Present == {k \in Keys : map[k] # NoValue}

Put(k, v) ==
  /\ k = Reserved \/ Cardinality(Present) < Capacity
  /\ map' = [map EXCEPT ![k] = v]

Remove(k) == map' = [map EXCEPT ![k] = NoValue]

Clear == map' = [k \in Keys \cup {Reserved} |-> NoValue]

MapNext ==
  \/ Clear
  \/ \E k \in Keys \cup {Reserved} : Remove(k)
  \/ \E k \in Keys \cup {Reserved}, v \in Values : Put(k, v)

MapSpec == MapInit /\ [][MapNext]_map
=============================================================================
