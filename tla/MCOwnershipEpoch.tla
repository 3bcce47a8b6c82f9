-------------------------- MODULE MCOwnershipEpoch --------------------------
(***************************************************************************)
(* OwnershipEpoch for TLC.                                                 *)
(***************************************************************************)
EXTENDS OwnershipEpoch, TLC

CONSTANTS e1, e2, e3, host, other

\* Every execution has an owner_id of its own: the workers of the queue.
OwnIds == [e \in Executions |-> e]

\* Two actions of one host, which share agent-<hostname>, and a worker
\* beside them.
TwoShared == (e1 :> host) @@ (e2 :> host) @@ (e3 :> other)

ExecutionSymmetry == Permutations(Executions)
=============================================================================
