------------------------------ MODULE MCKernel ------------------------------
(***************************************************************************)
(* Kernel for TLC: two tasks, the second waiting for the first.            *)
(***************************************************************************)
EXTENDS Kernel, TLC

ChainTasks == {1, 2}
ChainParents == <<{}, {1}>>

DispatcherSymmetry == Permutations(Dispatchers)
=============================================================================
