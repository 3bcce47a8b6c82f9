---------------------------- MODULE FlowLifecycle ----------------------------
(***************************************************************************)
(* What every observer of a task flow may rely on, whoever writes it and   *)
(* in whatever order: the status follows the one graph, a cancelled flow   *)
(* is CANCELLED for good, and DONE is reached only from VERIFYING, through *)
(* the verifier's edge.  TaskRuntime implements this module.               *)
(***************************************************************************)
EXTENDS TaskStates

VARIABLES status, cancelRequested

lifecycle == <<status, cancelRequested>>

LInit == status = "RECEIVED" /\ cancelRequested = FALSE

\* A transition through the repository.
Advance ==
    /\ \E target \in TaskState :
          /\ CheckTaskTransition(status, target, cancelRequested)
          /\ status' = target
    /\ UNCHANGED cancelRequested

\* The owner's cancellation: flag and state change together.
Cancel ==
    /\ CheckTaskTransition(status, "CANCELLED", TRUE)
    /\ status' = "CANCELLED"
    /\ cancelRequested' = TRUE

\* The verifier's capability.
Finalize ==
    /\ <<status, "DONE">> \in VERIFIER_ONLY_TRANSITIONS
    /\ ~cancelRequested
    /\ status' = "DONE"
    /\ UNCHANGED cancelRequested

LNext == Advance \/ Cancel \/ Finalize

LSpec == LInit /\ [][LNext]_lifecycle
=============================================================================
