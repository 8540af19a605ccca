----------------------------- MODULE MCRuntime ------------------------------
(***************************************************************************)
(* Runtime for model checking; the configurations give every constant.     *)
(***************************************************************************)
EXTENDS Runtime
=============================================================================
