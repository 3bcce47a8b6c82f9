---------------------------- MODULE MCGoalEngine ----------------------------
(***************************************************************************)
(* GoalEngine for TLC.                                                     *)
(***************************************************************************)
EXTENDS GoalEngine, TLC

CONSTANTS s1, s2

\* One service always has the optional member in its answer, the other leaves
\* it out or answers null.
MixedAnswers == s1 :> {"value"} @@ s2 :> {"absent", "null"}
=============================================================================
