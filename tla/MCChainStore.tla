---------------------------- MODULE MCChainStore ----------------------------
(***************************************************************************)
(* ChainStore for TLC.                                                     *)
(***************************************************************************)
EXTENDS ChainStore, TLC

ChainSymmetry == Permutations(Writers) \cup Permutations(Payloads)
=============================================================================
