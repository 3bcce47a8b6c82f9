------------------------------ MODULE MCOutbox ------------------------------
(***************************************************************************)
(* Outbox for TLC: the transitions of a task and its result.               *)
(***************************************************************************)
EXTENDS Outbox, TLC

\* Two transitions that render to the same text, then the result.
KindTTR == <<"transition", "transition", "result">>
TextAAB == <<"a", "a", "b">>

\* A transition and a result.
KindTR == <<"transition", "result">>
TextAB == <<"a", "b">>

WorkerSymmetry == Permutations(Workers)
=============================================================================
