----------------------------- MODULE MCSeqlock -----------------------------
(***************************************************************************)
(* Constants for model-checking Seqlock.                                   *)
(***************************************************************************)
EXTENDS Seqlock, TLC

\* Readers run the same code and are never compared.
ReaderSymmetry == Permutations(Readers)
=============================================================================
