---------------------------- MODULE GoalLifecycle ----------------------------
(***************************************************************************)
(* What the goal engine promises about one goal, without flows, tasks,     *)
(* runs, evidence or crashes: it works in at most MaxCycles cycles, a      *)
(* cycle whose plan has succeeded as a whole is never thrown away, and     *)
(* SUCCEEDED is reached from such a cycle only.                            *)
(***************************************************************************)
EXTENDS Naturals

CONSTANT MaxCycles

VARIABLES
    status,    \* goals.status
    cycle,     \* goals.cycle_count
    achieved   \* the plan of the current cycle has succeeded as a whole

goalVars == <<status, cycle, achieved>>

GoalStart == status = "PENDING" /\ cycle = 0 /\ achieved = FALSE

Activated ==
    /\ status = "PENDING" /\ status' = "ACTIVE"
    /\ UNCHANGED <<cycle, achieved>>

Achieved ==
    /\ status = "ACTIVE" /\ ~achieved
    /\ achieved' = TRUE
    /\ UNCHANGED <<status, cycle>>

\* REPLAN: a cycle that failed makes room for the next one.
NextCycle ==
    /\ status = "ACTIVE" /\ ~achieved /\ cycle < MaxCycles
    /\ cycle' = cycle + 1
    /\ UNCHANGED <<status, achieved>>

Succeeded ==
    /\ status = "ACTIVE" /\ achieved
    /\ status' = "SUCCEEDED"
    /\ UNCHANGED <<cycle, achieved>>

Abandoned ==
    /\ status = "ACTIVE" /\ ~achieved
    /\ status' = "FAILED"
    /\ UNCHANGED <<cycle, achieved>>

GoalMoves == Activated \/ Achieved \/ NextCycle \/ Succeeded \/ Abandoned

GoalSpec == GoalStart /\ [][GoalMoves]_goalVars
=============================================================================
