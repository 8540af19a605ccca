------------------------- MODULE MCSnapshotPublisher -------------------------
(***************************************************************************)
(* Constants for model-checking SnapshotPublisher.                         *)
(***************************************************************************)
EXTENDS SnapshotPublisher, TLC

\* Readers run the same code and are never compared.
ReaderSymmetry == Permutations(Readers)
=============================================================================
