----------------------------- MODULE GoalEngine -----------------------------
(***************************************************************************)
(* The orchestration service: one goal, its flows and the engine that      *)
(* plans it into kernel tasks, collects the evidence of their runs, judges *)
(* it and replans it.  The engine owns the kernel's only dispatcher, so a  *)
(* tick is sequential: reconcile, the goal, the dispatcher's tick.         *)
(*                                                                         *)
(* An action is one commit; the engine may be killed between any two.  The *)
(* rows kernel_tasks and kernel_runs and the steps on them are those of    *)
(* Kernel.  The states WAITING and BLOCKED of a goal and the wake events   *)
(* are left out: nothing in the repository enqueues a wake, and the judge  *)
(* says BLOCKED only of a plan without tasks, which is planned instead, or *)
(* of one with cancelled and no failed tasks, which nobody makes.          *)
(***************************************************************************)
EXTENDS Kernel

CONSTANTS
    Engine,         \* the engine's dispatcher: Dispatchers = {Engine}
    MaxCycles,      \* max_cycles of the goal
    MaxFlows,       \* bound of the model on the flows of the goal
    HasCriteria,    \* whether the goal has acceptance criteria
    Services,       \* the coding services the router may choose from
    Answers,        \* what a service may answer for an optional member
    PlannerRaises   \* whether a commit of the planner may raise

Cycles == 0 .. MaxCycles - 1

\* STAGE_KEYS: analysis, implementation and verification.
Stages == 1 .. 3
Implementation == 2
Verification == 3

\* The idempotency key of a task: goal, stage and cycle.
PlanTasks(c) == {c} \X Stages
GoalTasks == Cycles \X Stages
GoalParents == [t \in GoalTasks |-> {<<t[1], k>> : k \in {t[2] - 1} \cap Stages}]

ASSUME GoalCycles == MaxCycles \in Nat \ {0} /\ MaxFlows \in Nat
ASSUME GoalGraph == Tasks = GoalTasks /\ Parents = GoalParents
ASSUME GoalAlone == Dispatchers = {Engine} /\ Requests = {}
ASSUME GoalServices == None \notin Services
ASSUME GoalAnswers == Answers \in [Services -> (SUBSET {"absent", "null", "value"}) \ {{}}]
ASSUME GoalModes == {HasCriteria, PlannerRaises} \subseteq BOOLEAN

VARIABLES
    goal,      \* the row of goals
    meta,      \* goals.meta: implementer_service and both evidences
    flows,     \* the rows of goal_flows, by created_at
    payload,   \* flow_id in the payload of a task
    result,    \* the result of a task, that of its run that succeeded
    at,        \* the engine: where it is in a tick,
    seen,      \* the rows it read before (goal, newest flow, plan to fill)
    out        \* and the outcome of the handler that is being finalised

goalState == <<goal, meta, flows, payload, result>>
engineVars == <<at, seen, out>>
vars == <<kernelVars, goalState, engineVars>>

GoalTerminal == {"SUCCEEDED", "FAILED"}

\* Evidence of a stage: the flow and the run it comes from, the service that
\* ran it and, for a verification, the implementation run it examined; and a
\* member of an object in the service's own answer, all of which is kept.
NoEvidence == [flow |-> 0, run |-> 0, service |-> None, examined |-> <<0, 0>>, member |-> "absent"]
NoFlow == [status |-> "absent", revision |-> 0, plan |-> {}]
Nothing == [status |-> "PENDING", cycle |-> 0, bound |-> 0, newest |-> 0, flow |-> NoFlow,
            meta |-> [service |-> None, producer |-> NoEvidence, verification |-> NoEvidence],
            target |-> 0, stage |-> 1, replanning |-> FALSE]

GoalInit ==
    /\ KernelInit
    /\ goal \in [status : {"PENDING"}, cycle : {0}, bound : {0}, mutation : BOOLEAN]
    /\ meta = Nothing.meta
    /\ flows = << >>
    /\ payload = [t \in Tasks |-> 0]
    /\ result = [t \in Tasks |-> NoEvidence]
    /\ at = "recover"
    /\ seen = Nothing
    /\ out = NoEvidence

-----------------------------------------------------------------------------
(***************************************************************************)
(* The store: compare-and-swap on the goal's status and on the flow's      *)
(* revision.                                                               *)
(***************************************************************************)
GoalTransitions ==
    ({"PENDING"} \X {"ACTIVE"}) \cup ({"ACTIVE"} \X {"SUCCEEDED", "FAILED"})

TransitionGoal(from, to) ==
    goal' = IF goal.status = from /\ <<from, to>> \in GoalTransitions
            THEN [goal EXCEPT !.status = to] ELSE goal

Updated(row, revision, to, plan) ==
    IF row.revision = revision
    THEN [status |-> to, revision |-> revision + 1, plan |-> plan] ELSE row

UpdateFlow(f, revision, to, plan) ==
    flows' = [flows EXCEPT ![f] = Updated(@, revision, to, plan)]

\* Mutant: evidence that is there is not written over.
PatchedOnce(old, new) == IF old = NoEvidence THEN new ELSE old

\* update_meta: json_patch overwrites the members the new evidence has,
\* removes those that are null in it and keeps those it does not have.
Patched(old, new) ==
    [new EXCEPT !.member = CASE @ = "absent" -> old.member [] @ = "null" -> "absent" [] OTHER -> @]

\* list_active_goals and get_current_flow: the engine's copies of the rows.
NewestFlow == IF flows = << >> THEN NoFlow ELSE flows[Len(flows)]

Snapshot ==
    [Nothing EXCEPT !.status = goal.status, !.cycle = goal.cycle, !.bound = goal.bound,
                    !.newest = Len(flows), !.flow = NewestFlow, !.meta = meta]

Turn(point) == at' = point

\* _process_goal returns: the dispatcher's tick is next.
Return == at' = "kernel" /\ seen' = Nothing

-----------------------------------------------------------------------------
(***************************************************************************)
(* Planning: create_flow, bind_flow, one create_task per stage, and the    *)
(* update that makes the flow ACTIVE, each a commit of its own.            *)
(***************************************************************************)
NeedsPlan(flow) ==
    \/ goal.status = "PENDING"
    \/ flow.status \in {"absent", "SUPERSEDED", "PLANNED"}
    \/ flow.plan = {}

ProcessGoal ==
    /\ at = "goal" /\ goal.status \notin GoalTerminal
    /\ seen' = Snapshot
    /\ Turn(IF ~NeedsPlan(NewestFlow) THEN "collect"
            ELSE IF goal.status = "PENDING" THEN "activate" ELSE "plan")
    /\ UNCHANGED <<kernelVars, goalState, out>>

SkipGoal ==
    /\ at = "goal" /\ goal.status \in GoalTerminal
    /\ Return
    /\ UNCHANGED <<kernelVars, goalState, out>>

Activate ==
    /\ at = "activate"
    /\ TransitionGoal("PENDING", "ACTIVE")
    /\ Turn("plan")
    /\ UNCHANGED <<kernelVars, meta, flows, payload, result, seen, out>>

\* Mutant: any PLANNED flow makes the bound one be filled again.
ResumesNewest == seen.bound > 0 /\ NewestFlow.status = "PLANNED"

\* A bound flow that is still PLANNED is resumed, after a crash.
ResumesFlow == seen.bound > 0 /\ flows[seen.bound].status = "PLANNED"

CreateFlow ==
    /\ at = "plan" /\ Len(flows) < MaxFlows
    /\ IF ResumesFlow
       THEN /\ seen' = [seen EXCEPT !.target = seen.bound]
            /\ Turn("stage")
            /\ UNCHANGED flows
       ELSE /\ flows' = Append(flows, [status |-> "PLANNED", revision |-> 1, plan |-> {}])
            /\ seen' = [seen EXCEPT !.target = Len(flows) + 1]
            /\ Turn("bind")
    /\ UNCHANGED <<kernelVars, goal, meta, payload, result, out>>

BindFlow ==
    /\ at = "bind"
    /\ goal' = [goal EXCEPT !.bound = seen.target]
    /\ Turn("stage")
    /\ UNCHANGED <<kernelVars, meta, flows, payload, result, seen, out>>

\* create_task, which keeps the payload of a task that exists.
CreateStage ==
    LET t == <<seen.cycle, seen.stage>>
    IN  /\ at = "stage"
        /\ CreateTask(t)
        /\ payload' = [payload EXCEPT ![t] = IF status[t] = "absent" THEN seen.target ELSE @]
        /\ seen' = [seen EXCEPT !.stage = @ + 1]
        /\ Turn(IF seen.stage = Verification THEN "record" ELSE "stage")
        /\ UNCHANGED <<goal, meta, flows, result, out>>

RecordPlan ==
    /\ at = "record"
    /\ UpdateFlow(seen.target, flows[seen.target].revision, "ACTIVE", PlanTasks(seen.cycle))
    /\ Return
    /\ UNCHANGED <<kernelVars, goal, meta, payload, result, out>>

\* An exception of the planner fails the goal when _process_goal called it;
\* out of _replan it ends the goal's turn of this tick.
PlanningFails ==
    /\ PlannerRaises /\ at \in {"plan", "bind", "stage", "record"}
    /\ IF seen.replanning THEN UNCHANGED goal ELSE TransitionGoal(goal.status, "FAILED")
    /\ Return
    /\ UNCHANGED <<kernelVars, meta, flows, payload, result, out>>

-----------------------------------------------------------------------------
(***************************************************************************)
(* Collecting the evidence of the verification, and judging.  The judge    *)
(* sees goal and flow as they were read before the evidence was collected. *)
(***************************************************************************)
PlanTask(flow, k) == {t \in flow.plan : t[2] = k}

HasEvidence == seen.meta.verification.flow = seen.newest

Verified(t) == status[t] = "SUCCEEDED"

RecordEvidence ==
    /\ at = "collect" /\ ~HasEvidence
    /\ \E t \in PlanTask(seen.flow, Verification) :
          Verified(t) /\ meta' = [meta EXCEPT !.verification = Patched(@, result[t])]
    /\ Turn("mark")
    /\ UNCHANGED <<kernelVars, goal, flows, payload, result, seen, out>>

\* After the evidence, or again when a crash came between the two.
MarkFlow ==
    /\ \/ at = "mark"
       \/ at = "collect" /\ HasEvidence /\ seen.flow.status # "SUCCEEDED"
    /\ UpdateFlow(seen.newest,
                  IF at = "mark" THEN seen.flow.revision ELSE flows[seen.newest].revision,
                  "SUCCEEDED", seen.flow.plan)
    /\ Turn("judge")
    /\ UNCHANGED <<kernelVars, goal, meta, payload, result, seen, out>>

Judges ==
    \/ at = "judge"
    \/ /\ at = "collect"
       /\ IF HasEvidence THEN seen.flow.status = "SUCCEEDED"
          ELSE \A t \in PlanTask(seen.flow, Verification) : ~Verified(t)

\* _result_evidence_identity_valid: the evidence is that of the runs which
\* made the plan's tasks succeed, member by member.
IsResultOf(evidence, k) ==
    \E t \in PlanTask(seen.flow, k) :
        /\ status[t] = "SUCCEEDED" /\ payload[t] = seen.newest
        /\ evidence.run \in DOMAIN runs[t]
        /\ runs[t][evidence.run].status = "SUCCEEDED"
        /\ result[t] = evidence

EvidenceHolds ==
    LET producer == seen.meta.producer
        verification == seen.meta.verification
    IN  /\ producer.flow = seen.newest /\ verification.flow = seen.newest
        /\ verification.examined = <<producer.flow, producer.run>>
        /\ seen.meta.service # None /\ verification.service # seen.meta.service
        /\ goal.mutation \/ /\ seen.bound = seen.newest
                            /\ producer.service = seen.meta.service
                            /\ IsResultOf(producer, Implementation)
                            /\ IsResultOf(verification, Verification)

PlanHas(state) == \E t \in seen.flow.plan : status[t] = state

\* Mutant: the cycles are not counted.
VerdictUncounted ==
    IF /\ seen.flow.status = "SUCCEEDED" /\ HasCriteria
       /\ \A t \in seen.flow.plan : status[t] = "SUCCEEDED"
       /\ EvidenceHolds
    THEN "DONE"
    ELSE IF PlanHas("FAILED") THEN "REPLAN" ELSE "CONTINUE"

\* Mutant: an implementation that succeeded is enough.
VerdictUnverified ==
    IF \E t \in PlanTask(seen.flow, Implementation) : status[t] = "SUCCEEDED" THEN "DONE"
    ELSE IF ~PlanHas("FAILED") THEN "CONTINUE"
    ELSE IF seen.cycle < MaxCycles THEN "REPLAN" ELSE "FAIL"

Verdict ==
    IF /\ seen.flow.status = "SUCCEEDED" /\ HasCriteria
       /\ \A t \in seen.flow.plan : status[t] = "SUCCEEDED"
       /\ EvidenceHolds
    THEN "DONE"
    ELSE IF ~PlanHas("FAILED") THEN "CONTINUE"
    ELSE IF seen.cycle < MaxCycles THEN "REPLAN" ELSE "FAIL"

JudgeEnds(verdict, to) ==
    /\ Judges /\ Verdict = verdict
    /\ TransitionGoal(seen.status, to)
    /\ Return
    /\ UNCHANGED <<kernelVars, meta, flows, payload, result, out>>

JudgeDone == JudgeEnds("DONE", "SUCCEEDED")
JudgeFail == JudgeEnds("FAIL", "FAILED")

JudgeContinue ==
    /\ Judges /\ Verdict = "CONTINUE"
    /\ Return
    /\ UNCHANGED <<kernelVars, goalState, out>>

-----------------------------------------------------------------------------
(***************************************************************************)
(* Replanning: bump_cycle, supersede_flow, then a plan with new task keys. *)
(* The loop that cancels what is left of the old plan finds nothing: the   *)
(* kernel has cancelled the dependents of the failed task.                 *)
(***************************************************************************)
BumpCycle ==
    /\ Judges /\ Verdict = "REPLAN"
    /\ goal' = [goal EXCEPT !.cycle = @ + 1]
    /\ seen' = [Snapshot EXCEPT !.cycle = goal.cycle + 1, !.replanning = TRUE]
    /\ Turn("replan")
    /\ UNCHANGED <<kernelVars, meta, flows, payload, result, out>>

CyclesExhausted ==
    /\ at = "replan" /\ seen.cycle >= MaxCycles
    /\ TransitionGoal(seen.status, "FAILED")
    /\ Return
    /\ UNCHANGED <<kernelVars, meta, flows, payload, result, out>>

SupersedeFlow ==
    /\ at = "replan" /\ seen.cycle < MaxCycles
    /\ UpdateFlow(seen.newest, seen.flow.revision, "SUPERSEDED", seen.flow.plan)
    /\ Turn("plan")
    /\ UNCHANGED <<kernelVars, goal, meta, payload, result, seen, out>>

-----------------------------------------------------------------------------
(***************************************************************************)
(* The handler of a stage: it must be bound to the current flow, a service *)
(* is chosen, and the implementation leaves its evidence in goals.meta.    *)
(* The services, their health and the failover ladder are one choice.      *)
(***************************************************************************)
Task == cur[Engine].task

BoundToFlow(t) ==
    /\ payload[t] > 0 /\ goal.bound = payload[t]
    /\ t \in flows[payload[t]].plan

\* The verifier avoids the service that implemented the goal, and needs its
\* evidence.
MayRun(t, s) ==
    t[2] = Verification => s # meta.service /\ meta.producer # NoEvidence

\* What a stage leaves behind; nobody reads that of the analysis.
StageEvidence(t, n, s, m) ==
    CASE t[2] = Implementation ->
            [flow |-> payload[t], run |-> n, service |-> s, examined |-> <<0, 0>>, member |-> m]
      [] t[2] = Verification ->
            [flow |-> payload[t], run |-> n, service |-> s,
             examined |-> <<meta.producer.flow, meta.producer.run>>, member |-> m]
      [] OTHER -> NoEvidence

\* The judge looks at the optional members of a goal without mutation only.
StageSucceeds(s) ==
    \E m \in IF goal.mutation THEN {"absent"} ELSE Answers[s] :
        LET evidence == StageEvidence(Task, cur[Engine].run, s, m)
        IN  /\ HandlerEnds(Engine, "SUCCEEDED")
            /\ BoundToFlow(Task) /\ MayRun(Task, s)
            /\ meta' = IF Task[2] = Implementation
                       THEN [meta EXCEPT !.service = s, !.producer = Patched(@, evidence)] ELSE meta
            /\ out' = evidence
            /\ UNCHANGED <<goal, flows, payload, result, at, seen>>

StageFails ==
    /\ HandlerEnds(Engine, "FAILED")
    /\ UNCHANGED <<goalState, engineVars>>

\* finalize_and_complete stores the handler's result with the run.
FinalizeStage ==
    /\ FinalizeAndComplete(Engine)
    /\ result' = [result EXCEPT ![Task] =
                     IF runs'[Task][cur[Engine].run].status = "SUCCEEDED" THEN out ELSE @]
    /\ out' = NoEvidence
    /\ UNCHANGED <<goal, meta, flows, payload, at, seen>>

-----------------------------------------------------------------------------
(***************************************************************************)
(* The tick, kills of the engine, and time.                                *)
(***************************************************************************)
Recover ==
    /\ at = "recover"
    /\ ReconcileStep(Engine) \/ EndReconcile(Engine)
    /\ Turn(IF pc'[Engine] = "idle" THEN "goal" ELSE at)
    /\ UNCHANGED <<goalState, seen, out>>

DispatcherTick ==
    /\ at = "kernel"
    /\ ReconcileStep(Engine) \/ ClaimStep(Engine)
    /\ Turn(IF pc'[Engine] = "idle" THEN "recover" ELSE at)
    /\ UNCHANGED <<goalState, seen, out>>

GoalStep ==
    \/ ProcessGoal \/ SkipGoal \/ Activate
    \/ CreateFlow \/ BindFlow \/ CreateStage \/ RecordPlan \/ PlanningFails
    \/ RecordEvidence \/ MarkFlow
    \/ JudgeDone \/ JudgeFail \/ JudgeContinue
    \/ BumpCycle \/ CyclesExhausted \/ SupersedeFlow

EngineStep ==
    \/ Recover \/ GoalStep \/ DispatcherTick
    \/ \E s \in Services : StageSucceeds(s)
    \/ StageFails \/ FinalizeStage

EngineDies ==
    /\ crashes < MaxCrashes /\ <<at, pc[Engine]>> # <<"recover", "idle">>
    /\ crashes' = crashes + 1
    /\ Forgets(Engine)
    /\ at' = "recover" /\ seen' = Nothing /\ out' = NoEvidence
    /\ UNCHANGED <<goalState, rq, rqSeen>>

TimePasses == LeaseStep /\ UNCHANGED <<goalState, engineVars>>

GoalNext == EngineStep \/ EngineDies \/ TimePasses

Spec == GoalInit /\ [][GoalNext]_vars

\* The service restarts its engine and its loop goes on; time passes.
FairSpec == Spec /\ WF_vars(EngineStep) /\ WF_vars(TimePasses)
-----------------------------------------------------------------------------
(***************************************************************************)
(* Properties.                                                             *)
(***************************************************************************)
Evidence == [flow : Nat, run : Nat, service : Services \cup {None}, examined : Nat \X Nat,
             member : {"absent", "null", "value"}]

\* The rows of the goal and its flows have the values of their columns, and
\* no task more runs than max_attempts: lost runs, failed runs and claims that
\* never got a run are counted in three places.
GoalTypeOK ==
    /\ KernelTypeOK /\ RunsBounded
    /\ goal \in [status : {"PENDING", "ACTIVE", "SUCCEEDED", "FAILED"}, cycle : 0 .. MaxCycles,
                 bound : 0 .. Len(flows), mutation : BOOLEAN]
    /\ meta \in [service : Services \cup {None}, producer : Evidence, verification : Evidence]
    /\ \A f \in DOMAIN flows :
          /\ flows[f].status \in {"PLANNED", "ACTIVE", "SUCCEEDED", "SUPERSEDED"}
          /\ flows[f].plan \in {{}} \cup {PlanTasks(c) : c \in Cycles}
    /\ payload \in [Tasks -> 0 .. Len(flows)]
    /\ result \in [Tasks -> Evidence]

\* A goal that SUCCEEDED was verified: every task of its bound flow succeeded,
\* the implementation run that succeeded is the one the verification run
\* examined, and another service examined it.  Runs are lost and repeated and
\* cycles replanned in between, while the evidence sits in goals.meta, which
\* the handler writes before its run is finalised.
DoneIsVerified ==
    goal.status = "SUCCEEDED" =>
        \E impl, verif \in flows[goal.bound].plan :
            /\ impl[2] = Implementation /\ verif[2] = Verification
            /\ \A t \in flows[goal.bound].plan : status[t] = "SUCCEEDED"
            /\ runs[impl][result[impl].run].status = "SUCCEEDED"
            /\ result[verif].examined = <<goal.bound, result[impl].run>>
            /\ result[verif].service # result[impl].service

\* A flow in force is the one the goal is bound to, and its tasks carry its
\* id: however planning was interrupted and resumed, the handler never has
\* to refuse a planned task as unbound.
PlanIsBound ==
    \A f \in DOMAIN flows : flows[f].status \in {"ACTIVE", "SUCCEEDED"} =>
        /\ goal.bound = f /\ f = Len(flows)
        /\ flows[f].plan # {} /\ \A t \in flows[f].plan : payload[t] = f

\* The plan in force has succeeded as a whole.
PlanAchieved ==
    /\ goal.bound > 0 /\ flows[goal.bound].plan # {}
    /\ \A t \in flows[goal.bound].plan : status[t] = "SUCCEEDED"

Lifecycle == INSTANCE GoalLifecycle
    WITH status <- goal.status, cycle <- goal.cycle, achieved <- PlanAchieved

\* The engine implements GoalLifecycle, with "the plan of the bound flow has
\* succeeded in kernel_tasks" for its achieved: neither a crash nor a stale
\* copy of goal or flow makes it replan or fail a goal whose work is done, or
\* finish one whose work is not.
GoalRefined == Lifecycle!GoalSpec

\* The plan has succeeded, and the evidence in goals.meta has an optional
\* member of an earlier run that the run's own answer lacks, or lacks one
\* that is null in the answer.
EvidenceMixed ==
    /\ PlanAchieved /\ ~goal.mutation
    /\ \/ \E t \in PlanTask(flows[goal.bound], Implementation) :
             meta.producer.member # result[t].member
       \/ /\ meta.verification.flow = goal.bound
          /\ \E t \in PlanTask(flows[goal.bound], Verification) :
                meta.verification.member # result[t].member

\* A goal with acceptance criteria ends: no crash leaves it with evidence of
\* another run, with a half-made plan or with a task nobody executes.  What
\* the code does not exclude is that the merge of update_meta leaves a goal
\* without mutation evidence mixed of two runs, or without its null members:
\* the judge then says CONTINUE for good.
GoalEnds == HasCriteria ~> goal.status \in GoalTerminal \/ EvidenceMixed
=============================================================================
