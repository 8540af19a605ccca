------------------------------ MODULE MCTables ------------------------------
(***************************************************************************)
(* The two hash tables for TLC.  A behaviour exercises one of them; which  *)
(* one, and the hash function, are chosen at the start.  Flow keys differ  *)
(* only in their hashes and slots only by rotation, so every choice of     *)
(* home slots is an initial state up to the names of the keys and slots.   *)
(***************************************************************************)
EXTENDS FlatHash, FlowTable

VARIABLE table      \* "teids" or "flows"

tableVars == <<table, vars, flowVars>>

\* Some key is at home in slot 0, and the keys are named in the order of their homes.
HomesNamed == home[Min(FlowKeys)] = 0 /\ \A j, k \in FlowKeys : j < k => home[j] <= home[k]
TablesInit ==
  /\ Init /\ FlowInit
  /\ \/ table = "teids" /\ home = [k \in TableKeys |-> 0]
     \/ table = "flows" /\ hash = [k \in Keys |-> 0] /\ HomesNamed

TablesNext ==
  /\ \/ table = "teids" /\ Next /\ UNCHANGED flowVars
     \/ table = "flows" /\ FlowNext /\ UNCHANGED vars
  /\ UNCHANGED table

\* A call that has begun runs on.
TablesSpec == TablesInit /\ [][TablesNext]_tableVars /\ WF_vars(Shift) /\ WF_vars(ShiftDone)
=============================================================================
