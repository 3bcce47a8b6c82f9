----------------------------- MODULE TaskStates -----------------------------
(***************************************************************************)
(* The one transition graph of a task flow and of its steps                *)
(* (durable/state_machine.py).  Every writer of task_flows.status and of   *)
(* flow_steps.status consults it before its compare-and-swap on the row's  *)
(* revision, except the verifier service, the only holder of the           *)
(* VERIFYING -> DONE edge.                                                 *)
(***************************************************************************)

\* The states no flow ever leaves.
TERMINAL_STATES ==
    {"DONE", "FAILED", "BLOCKED", "CANCELLED", "TIMEOUT", "POLICY_DENIED"}

TaskState ==
    TERMINAL_STATES \cup
    {"CREATED", "RECEIVED", "QUEUED", "PLANNING", "READY", "RUNNING",
     "WAITING_APPROVAL", "TOOL_EXECUTING", "OBSERVING", "VERIFYING",
     "RETRY_SCHEDULED", "REPLAN_REQUESTED", "WAITING_USER", "PAUSED"}

StepState == {"PENDING", "RUNNING", "COMPLETED", "CANCELLED", "FAILED"}

\* The edges of the generic (repository) API.  A state without an entry in
\* the dictionary has no successor; DONE is nobody's successor.
TASK_TRANSITIONS ==
    ({"CREATED", "RECEIVED"} \X {"QUEUED", "CANCELLED"})
    \cup ({"QUEUED"} \X {"PLANNING", "CANCELLED"})
    \cup ({"PLANNING"} \X
            {"READY", "WAITING_APPROVAL", "TOOL_EXECUTING", "CANCELLED",
             "POLICY_DENIED"})
    \cup ({"READY", "PAUSED"} \X {"TOOL_EXECUTING", "CANCELLED"})
    \cup ({"WAITING_APPROVAL"} \X
            {"TOOL_EXECUTING", "POLICY_DENIED", "CANCELLED"})
    \cup ({"TOOL_EXECUTING"} \X
            {"OBSERVING", "PAUSED", "FAILED", "BLOCKED", "TIMEOUT",
             "CANCELLED"})
    \cup ({"OBSERVING"} \X {"VERIFYING", "FAILED", "CANCELLED"})
    \cup ({"VERIFYING"} \X
            {"RETRY_SCHEDULED", "REPLAN_REQUESTED", "WAITING_USER",
             "WAITING_APPROVAL", "FAILED", "BLOCKED", "CANCELLED"})
    \cup ({"RETRY_SCHEDULED"} \X {"TOOL_EXECUTING", "FAILED", "CANCELLED"})
    \cup ({"REPLAN_REQUESTED"} \X {"PLANNING", "FAILED", "CANCELLED"})
    \cup ({"WAITING_USER"} \X {"PLANNING", "CANCELLED"})

\* The edge only the verifier's capability opens.
VERIFIER_ONLY_TRANSITIONS == {<<"VERIFYING", "DONE">>}

STEP_TRANSITIONS ==
    ({"PENDING"} \X {"RUNNING", "CANCELLED"})
    \cup ({"RUNNING"} \X {"COMPLETED", "FAILED", "CANCELLED"})

\* check_task_transition returns (TRUE) or raises InvalidTransition (FALSE).
CheckTaskTransition(current, target, cancelRequested) ==
    /\ current \notin TERMINAL_STATES
    /\ <<current, target>> \in TASK_TRANSITIONS
    /\ cancelRequested => target = "CANCELLED"

CheckStepTransition(current, target) == <<current, target>> \in STEP_TRANSITIONS
=============================================================================
