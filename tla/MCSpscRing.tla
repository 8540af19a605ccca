----------------------------- MODULE MCSpscRing -----------------------------
(***************************************************************************)
(* A ring of two slots whose indices wrap after eight elements.  Batches   *)
(* of up to three elements exceed the capacity, and the state space is     *)
(* finite without any bound on the number of operations.                   *)
(***************************************************************************)
EXTENDS SpscRing

CONSTANTS a, b, none

MCValues == {a, b}
MCCapacity == 2
MCIndexModulus == 8
MCMaxBatch == 3
=============================================================================
