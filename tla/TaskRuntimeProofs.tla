-------------------------- MODULE TaskRuntimeProofs --------------------------
(***************************************************************************)
(* What TLAPS proves of TaskRuntime, for every number of workers, owner    *)
(* requests and steps, every retry budget and every set of faults:         *)
(*   - the type invariant;                                                 *)
(*   - the journal is the history of the flow row, and the flow refines    *)
(*     FlowLifecycle, both from the inductive invariant Fresh;             *)
(*   - a finished step row is never rewritten.                             *)
(***************************************************************************)
EXTENDS TaskRuntime, TLAPS

USE DEF flowVars, leaseVars, stepVars, approvalVars, jobVars, requestVars, localVars

-----------------------------------------------------------------------------
(***************************************************************************)
(* Type correctness.                                                       *)
(***************************************************************************)

\* The statuses the code names are states of the graph.
LEMMA Targets ==
    {"RECEIVED", "QUEUED", "PLANNING", "WAITING_APPROVAL", "TOOL_EXECUTING",
     "OBSERVING", "VERIFYING", "DONE", "FAILED", "BLOCKED", "TIMEOUT",
     "CANCELLED", "POLICY_DENIED"} \subseteq TaskState
  BY DEF TaskState, TERMINAL_STATES

\* A journal stays a journal when a row is appended.
LEMMA JournalGrows ==
    ASSUME NEW s \in Seq(TaskState \X TaskState), NEW a \in TaskState, NEW b \in TaskState
    PROVE  Append(s, <<a, b>>) \in Seq(TaskState \X TaskState)
  OBVIOUS

\* An accepted transition of the repository keeps the flow row typed.
LEMMA MoveTyped ==
    ASSUME TypeOK, NEW target \in TaskState, Move(target)
    PROVE  /\ status' \in TaskState /\ revision' \in Nat
           /\ journal' \in Seq(TaskState \X TaskState)
  <1>1. /\ status \in TaskState /\ revision \in Nat
        /\ journal \in Seq(TaskState \X TaskState)
    BY DEF TypeOK, FlowTyped
  <1>2. journal' \in Seq(TaskState \X TaskState)
    BY <1>1, JournalGrows DEF Move
  <1> QED
    BY <1>1, <1>2 DEF Move

\* The re-read of a transition keeps the worker's copies typed.
LEMMA BeginTyped ==
    ASSUME TypeOK, NEW w \in Workers, NEW target \in TaskState, Begin(w, target),
           UNCHANGED late
    PROVE  WorkersTyped'
  <1>1. status \in TaskState /\ revision \in Nat
    BY DEF TypeOK, FlowTyped
  <1>2. pc' \in [Workers -> WorkerPC]
    BY DEF TypeOK, WorkersTyped, Begin, Goto, WorkerPC
  <1>3. /\ st' \in [Workers -> TaskState] /\ tgt' \in [Workers -> TaskState]
        /\ seen' \in [Workers -> Nat]
    BY <1>1, ZenonT(60) DEF TypeOK, WorkersTyped, Begin
  <1> QED
    BY <1>2, <1>3 DEF TypeOK, WorkersTyped, Begin

\* So does a move to another program point that leaves the copies alone.
LEMMA GotoTyped ==
    ASSUME TypeOK, NEW w \in Workers, NEW p \in WorkerPC, Goto(w, p),
           UNCHANGED <<localVars, guard, late>>
    PROVE  WorkersTyped'
  BY DEF TypeOK, WorkersTyped, Goto

\* The unit of work that finishes a step and moves the flow.
LEMMA FinishTyped ==
    ASSUME TypeOK, NEW w \in Workers, NEW outcome \in {"COMPLETED", "FAILED"},
           NEW target \in TaskState, NEW next \in WorkerPC,
           FinishStepAndMove(w, outcome, target, next)
    PROVE  /\ FlowTyped' /\ JobTyped' /\ RequestsTyped' /\ WorkersTyped'
           /\ step' \in [Steps -> StepState]
  <1>1. CASE StepCas(w) /\ CanMove(target)
    <2>1. /\ status' \in TaskState /\ revision' \in Nat
          /\ journal' \in Seq(TaskState \X TaskState)
      BY <1>1, MoveTyped DEF FinishStepAndMove
    <2>2. step' \in [Steps -> StepState]
      BY <1>1 DEF FinishStepAndMove, TypeOK, StepsTyped, StepState
    <2>3. st' \in [Workers -> TaskState] /\ pc' \in [Workers -> WorkerPC]
      BY <1>1, ZenonT(60) DEF FinishStepAndMove, TypeOK, WorkersTyped, Goto
    <2> QED
      BY <2>1, <2>2, <2>3
      DEF FinishStepAndMove, TypeOK, FlowTyped, JobTyped, RequestsTyped, WorkersTyped
  <1>2. CASE StepCas(w) /\ ~CanMove(target)
    <2>1. status \in TaskState
      BY DEF TypeOK, FlowTyped
    <2>2. step' \in [Steps -> StepState]
      BY <1>2 DEF FinishStepAndMove, TypeOK, StepsTyped, StepState
    <2>3. st' \in [Workers -> TaskState]
      BY <1>2, <2>1 DEF FinishStepAndMove, TypeOK, WorkersTyped
    <2>4. pc' \in [Workers -> WorkerPC]
      BY <1>2 DEF FinishStepAndMove, TypeOK, WorkersTyped, Goto, WorkerPC
    <2> QED
      BY <1>2, <2>2, <2>3, <2>4
      DEF FinishStepAndMove, TypeOK, FlowTyped, JobTyped, RequestsTyped, WorkersTyped
  <1>3. CASE ~StepCas(w)
    <2>1. pc' \in [Workers -> WorkerPC]
      BY <1>3 DEF FinishStepAndMove, TypeOK, WorkersTyped, Goto, WorkerPC
    <2> QED
      BY <1>3, <2>1
      DEF FinishStepAndMove, TypeOK, FlowTyped, StepsTyped, JobTyped, RequestsTyped,
          WorkersTyped
  <1> QED
    BY <1>1, <1>2, <1>3

\* The state a flow is created in is typed.
LEMMA TypeInit == Init => TypeOK
  <1> SUFFICES ASSUME Init PROVE TypeOK
    OBVIOUS
  <1>1. 1 \in Steps /\ "PENDING" \in StepState /\ 0 \in 0..MaxRetries + 1
    BY NStepsAssumption, MaxRetriesAssumption DEF Steps, StepState
  <1>2. journal \in Seq(TaskState \X TaskState)
    BY DEF Init
  <1>3. FlowTyped
    BY <1>2, Targets DEF Init, FlowTyped, Owners
  <1>4. StepsTyped
    BY <1>1 DEF Init, StepsTyped, OpState, ApprovalState, GrantState
  <1>5. JobTyped
    BY <1>1 DEF Init, JobTyped, JobState, Owners
  <1>6. RequestsTyped
    BY <1>1 DEF Init, RequestsTyped, RequestPC, SubmitPC
  <1>7. WorkersTyped
    BY <1>1, Targets DEF Init, WorkersTyped, WorkerPC
  <1> QED
    BY <1>3, <1>4, <1>5, <1>6, <1>7 DEF TypeOK

\* enqueue of a flow without a job, and the put-back of a job.
LEMMA EnqueueTyped ==
    ASSUME TypeOK, EnqueueNew, UNCHANGED <<cancelRequested, leaseOwner, leaseLive>>
    PROVE  FlowTyped' /\ JobTyped'
  BY MoveTyped, Targets DEF EnqueueNew, TypeOK, FlowTyped, JobTyped, JobState

LEMMA PutBackTyped ==
    ASSUME TypeOK, PutBack
    PROVE  JobTyped'
  BY DEF PutBack, TypeOK, JobTyped, JobState

\* Submission, and the leases that run out.
LEMMA SubmitTyped ==
    ASSUME TypeOK, SubmitStep \/ LeaseStep
    PROVE  TypeOK'
  <1>1. CASE SubmitEnqueue
    <2>1. FlowTyped' /\ JobTyped'
      BY <1>1, EnqueueTyped DEF SubmitEnqueue, TypeOK, FlowTyped, JobTyped
    <2>2. gw' \in SubmitPC
      BY <1>1 DEF SubmitEnqueue, SubmitPC
    <2> QED
      BY <1>1, <2>1, <2>2 DEF SubmitEnqueue, TypeOK, StepsTyped, RequestsTyped, WorkersTyped
  <1>2. CASE SubmitCriteriaFail
    <2>1. FlowTyped'
      BY <1>2, MoveTyped, Targets DEF SubmitCriteriaFail, TypeOK, FlowTyped
    <2>2. step' \in [Steps -> StepState]
      BY <1>2 DEF SubmitCriteriaFail, CancelSteps, TypeOK, StepsTyped, StepState
    <2> QED
      BY <1>2, <2>1, <2>2
      DEF SubmitCriteriaFail, TypeOK, StepsTyped, JobTyped, RequestsTyped, WorkersTyped,
          SubmitPC
  <1>3. CASE SubmitCrash
    BY <1>3
    DEF SubmitCrash, TypeOK, FlowTyped, StepsTyped, JobTyped, RequestsTyped, WorkersTyped,
        SubmitPC
  <1>4. CASE TaskLeaseExpires
    BY <1>4
    DEF TaskLeaseExpires, TypeOK, FlowTyped, StepsTyped, JobTyped, RequestsTyped, WorkersTyped
  <1>5. CASE JobLeaseExpires
    BY <1>5
    DEF JobLeaseExpires, TypeOK, FlowTyped, StepsTyped, JobTyped, RequestsTyped, WorkersTyped
  <1>6. CASE SubmitRequeue
    BY <1>6, PutBackTyped
    DEF SubmitRequeue, TypeOK, FlowTyped, StepsTyped, RequestsTyped, WorkersTyped, SubmitPC
  <1> QED
    BY <1>1, <1>2, <1>3, <1>4, <1>5, <1>6 DEF SubmitStep, LeaseStep

\* Owner requests.
LEMMA RequestTyped ==
    ASSUME TypeOK, NEW r \in Requests, RequestStep(r)
    PROVE  TypeOK'
  <1>1. CASE CancelLoad(r)
    BY <1>1
    DEF CancelLoad, TypeOK, FlowTyped, StepsTyped, JobTyped, RequestsTyped, WorkersTyped,
        RequestPC
  <1>2. CASE CancelWrite(r)
    <2>1. FlowTyped'
      BY <1>2, MoveTyped, Targets DEF CancelWrite, TypeOK, FlowTyped
    <2>2. step' \in [Steps -> StepState]
      BY <1>2 DEF CancelWrite, CancelSteps, TypeOK, StepsTyped, StepState
    <2>3. rq' \in [Requests -> RequestPC]
      BY <1>2 DEF CancelWrite, TypeOK, RequestsTyped, RequestPC
    <2>4. rqMem' \in [Requests -> [Steps -> StepState]]
      <3>1. [i \in Steps |-> "PENDING"] \in [Steps -> StepState]
        BY DEF StepState
      <3> QED
        BY <1>2, <3>1 DEF CancelWrite, TypeOK, RequestsTyped
    <2> QED
      BY <1>2, <2>1, <2>2, <2>3, <2>4
      DEF CancelWrite, TypeOK, StepsTyped, JobTyped, RequestsTyped, WorkersTyped
  <1>3. CASE DecideLoad(r)
    BY <1>3
    DEF DecideLoad, TypeOK, FlowTyped, StepsTyped, JobTyped, RequestsTyped, WorkersTyped,
        RequestPC
  <1>4. CASE DecideWrite(r)
    BY <1>4
    DEF DecideWrite, TypeOK, FlowTyped, StepsTyped, JobTyped, RequestsTyped, WorkersTyped,
        RequestPC, ApprovalState, GrantState
  <1>5. CASE DecideEnqueueLoad(r)
    BY <1>5
    DEF DecideEnqueueLoad, TypeOK, FlowTyped, StepsTyped, JobTyped, RequestsTyped,
        WorkersTyped, RequestPC
  <1>6. CASE DecideEnqueueWrite(r)
    BY <1>6, PutBackTyped
    DEF DecideEnqueueWrite, TypeOK, FlowTyped, StepsTyped, RequestsTyped,
        WorkersTyped, RequestPC
  <1> QED
    BY <1>1, <1>2, <1>3, <1>4, <1>5, <1>6 DEF RequestStep

\* The verifier service.
LEMMA VerifierTyped ==
    ASSUME TypeOK, VerifierStep
    PROVE  TypeOK'
  <1>1. ASSUME NEW w \in Workers, VerifierRead(w) PROVE TypeOK'
    BY <1>1
    DEF VerifierRead, TypeOK, FlowTyped, StepsTyped, JobTyped, RequestsTyped, WorkersTyped
  <1>2. ASSUME NEW r \in judging, VerifierDone(r) \/ VerifierReject(r) PROVE TypeOK'
    <2>1. FlowTyped'
      BY <1>2, MoveTyped, Targets DEF VerifierDone, VerifierReject, TypeOK, FlowTyped
    <2>2. judging' \subseteq Nat
      BY <1>2 DEF VerifierDone, VerifierReject, TypeOK, RequestsTyped
    <2> QED
      BY <1>2, <2>1, <2>2
      DEF VerifierDone, VerifierReject, TypeOK, StepsTyped, JobTyped, RequestsTyped,
          WorkersTyped
  <1> QED
    BY <1>1, <1>2 DEF VerifierStep

\* The worker's loop: sweep, claim, start, lease, load.
LEMMA LoopTyped ==
    ASSUME TypeOK, NEW w \in Workers,
           \/ SweepStep(w) \/ ClaimSelect(w) \/ ClaimUpdate(w)
           \/ RunStart(w) \/ AcquireLease(w) \/ ResumeLoad(w)
    PROVE  TypeOK'
  <1>1. CASE SweepSelect(w)
    BY <1>1
    DEF SweepSelect, DbUnchanged, Goto, WorkerPC,
        TypeOK, FlowTyped, StepsTyped, JobTyped, RequestsTyped, WorkersTyped
  <1>2. CASE SweepFail(w)
    <2>1. FlowTyped'
      BY <1>2, MoveTyped, Targets DEF SweepFail, TypeOK, FlowTyped
    <2> QED
      BY <1>2, <2>1
      DEF SweepFail, Goto, WorkerPC, TypeOK, StepsTyped, JobTyped, RequestsTyped, WorkersTyped
  <1>3. CASE SweepOrphan(w)
    BY <1>3
    DEF SweepOrphan, DbUnchanged, Goto, WorkerPC,
        TypeOK, FlowTyped, StepsTyped, JobTyped, RequestsTyped, WorkersTyped
  <1>9. CASE EnqueueOrphan(w)
    <2>1. FlowTyped' /\ JobTyped'
      BY <1>9, EnqueueTyped DEF EnqueueOrphan, TypeOK, FlowTyped, JobTyped
    <2>2. pc' \in [Workers -> WorkerPC]
      BY <1>9 DEF EnqueueOrphan, Goto, WorkerPC, TypeOK, WorkersTyped
    <2> QED
      BY <1>9, <2>1, <2>2 DEF EnqueueOrphan, TypeOK, StepsTyped, RequestsTyped, WorkersTyped
  <1>10. CASE RequeueOrphan(w)
    BY <1>10, PutBackTyped
    DEF RequeueOrphan, Goto, WorkerPC,
        TypeOK, FlowTyped, StepsTyped, RequestsTyped, WorkersTyped
  <1>4. CASE ClaimSelect(w)
    <2>1. late' \in [Workers -> BOOLEAN]
      <3>1. JobLeaseExpired \in BOOLEAN
        BY DEF JobLeaseExpired
      <3> QED
        BY <1>4, <3>1 DEF ClaimSelect, TypeOK, WorkersTyped
    <2>2. pc' \in [Workers -> WorkerPC]
      BY <1>4 DEF ClaimSelect, TypeOK, WorkersTyped, Goto, WorkerPC
    <2> QED
      BY <1>4, <2>1, <2>2
      DEF ClaimSelect,
          TypeOK, FlowTyped, StepsTyped, JobTyped, RequestsTyped, WorkersTyped
  <1>5. CASE ClaimUpdate(w)
    <2>1. attempts' \in 0..MaxRetries + 1
      BY <1>5, MaxRetriesAssumption DEF ClaimUpdate, Min2, TypeOK, JobTyped
    <2>2. /\ jobStatus' \in JobState /\ jobOwner' \in Owners /\ jobLive' \in BOOLEAN
      BY <1>5 DEF ClaimUpdate, TypeOK, JobTyped, JobState, Owners
    <2>3. late' \in [Workers -> BOOLEAN] /\ pc' \in [Workers -> WorkerPC]
      BY <1>5 DEF ClaimUpdate, TypeOK, WorkersTyped, Goto, WorkerPC
    <2> QED
      BY <1>5, <2>1, <2>2, <2>3
      DEF ClaimUpdate,
        TypeOK, FlowTyped, StepsTyped, JobTyped, RequestsTyped, WorkersTyped
  <1>6. CASE RunStart(w)
    BY <1>6
    DEF RunStart, DbUnchanged, Goto, WorkerPC,
        TypeOK, FlowTyped, StepsTyped, JobTyped, RequestsTyped, WorkersTyped
  <1>7. CASE AcquireLease(w)
    BY <1>7, ZenonT(60)
    DEF AcquireLease, Goto, WorkerPC, Owners,
        TypeOK, FlowTyped, StepsTyped, JobTyped, RequestsTyped, WorkersTyped
  <1>8. CASE ResumeLoad(w)
    <2>1. 1 \in Steps
      BY NStepsAssumption DEF Steps
    <2> QED
      BY <1>8, <2>1
      DEF ResumeLoad, DbUnchanged, Goto, WorkerPC,
        TypeOK, FlowTyped, StepsTyped, JobTyped, RequestsTyped, WorkersTyped
  <1> QED
    BY <1>1, <1>2, <1>3, <1>4, <1>5, <1>6, <1>7, <1>8, <1>9, <1>10
    DEF SweepStep, SweepContinues

\* The orchestrator up to the dispatch of the tool, and after it.
LEMMA ResumeTyped ==
    ASSUME TypeOK, NEW w \in Workers,
           \/ CasCommit(w) \/ ResumeQueued(w) \/ ResumePlanning(w) \/ ResumeWaiting(w)
           \/ ApprovalTimeout(w) \/ ConsumeApproval(w) \/ Dispatch(w)
           \/ ResumeObserving(w) \/ AfterVerify(w)
    PROVE  TypeOK'
  <1>1. CASE CasCommit(w)
    <2>1. /\ st[w] \in TaskState /\ tgt[w] \in TaskState /\ seen[w] \in Nat
          /\ journal \in Seq(TaskState \X TaskState)
      BY DEF TypeOK, FlowTyped, WorkersTyped
    <2>2. FlowTyped'
      <3>1. journal' \in Seq(TaskState \X TaskState)
        BY <1>1, <2>1, JournalGrows DEF CasCommit
      <3> QED
        BY <1>1, <2>1, <3>1 DEF CasCommit, TypeOK, FlowTyped
    <2>3. approval' \in ApprovalState
      BY <1>1 DEF CasCommit, RequestApproval, TypeOK, StepsTyped, ApprovalState
    <2>4. /\ st' \in [Workers -> TaskState] /\ tgt' \in [Workers -> TaskState]
          /\ seen' \in [Workers -> Nat]
      BY <1>1, <2>1, Targets DEF CasCommit, TypeOK, WorkersTyped
    <2>5. pc' \in [Workers -> WorkerPC]
      BY <1>1 DEF CasCommit, TypeOK, WorkersTyped, Goto, WorkerPC
    <2> QED
      BY <1>1, <2>2, <2>3, <2>4, <2>5
      DEF CasCommit, TypeOK, StepsTyped, JobTyped, RequestsTyped, WorkersTyped
  <1>2. CASE ResumeQueued(w) \/ ResumeObserving(w)
    <2>1. WorkersTyped'
      BY <1>2, BeginTyped, Targets DEF ResumeQueued, ResumeObserving, DbUnchanged
    <2> QED
      BY <1>2, <2>1
      DEF ResumeQueued, ResumeObserving, DbUnchanged, TypeOK, FlowTyped, StepsTyped, JobTyped,
          RequestsTyped
  <1>3. CASE ResumePlanning(w)
    <2>1. WorkersTyped'
      <3>1. "consume" \in WorkerPC
        BY DEF WorkerPC
      <3> QED
        BY <1>3, <3>1, BeginTyped, GotoTyped, Targets DEF ResumePlanning
    <2>2. approval' \in ApprovalState
      BY <1>3 DEF ResumePlanning, RequestApproval, TypeOK, StepsTyped, ApprovalState
    <2> QED
      BY <1>3, <2>1, <2>2
      DEF ResumePlanning, TypeOK, FlowTyped, StepsTyped, JobTyped, RequestsTyped
  <1>4. CASE ResumeWaiting(w)
    <2>1. WorkersTyped'
      <3>1. {"return", "timeout", "consume"} \subseteq WorkerPC
        BY DEF WorkerPC
      <3> QED
        BY <1>4, <3>1, BeginTyped, GotoTyped, Targets DEF ResumeWaiting, DbUnchanged
    <2> QED
      BY <1>4, <2>1
      DEF ResumeWaiting, DbUnchanged, TypeOK, FlowTyped, StepsTyped, JobTyped, RequestsTyped
  <1>5. CASE ApprovalTimeout(w)
    <2>1. WorkersTyped'
      BY <1>5, BeginTyped, Targets DEF ApprovalTimeout
    <2> QED
      BY <1>5, <2>1
      DEF ApprovalTimeout, TypeOK, FlowTyped, StepsTyped, JobTyped, RequestsTyped, ApprovalState
  <1>6. CASE ConsumeApproval(w)
    <2>1. WorkersTyped'
      <3>1. "dispatch" \in WorkerPC
        BY DEF WorkerPC
      <3> QED
        BY <1>6, <3>1, BeginTyped, GotoTyped, Targets DEF ConsumeApproval
    <2>2. grant' \in GrantState
      BY <1>6 DEF ConsumeApproval, TypeOK, StepsTyped, GrantState
    <2> QED
      BY <1>6, <2>1, <2>2
      DEF ConsumeApproval, TypeOK, FlowTyped, StepsTyped, JobTyped, RequestsTyped
  <1>7. CASE Dispatch(w)
    <2>1. FlowTyped'
      BY <1>7, MoveTyped, Targets DEF Dispatch, TypeOK, FlowTyped
    <2>2. step' \in [Steps -> StepState]
      BY <1>7 DEF Dispatch, TypeOK, StepsTyped, StepState
    <2>3. approval' \in ApprovalState
      BY <1>7 DEF Dispatch, RequestApproval, TypeOK, StepsTyped, ApprovalState
    <2>4. st' \in [Workers -> TaskState]
      BY <1>7, Targets DEF Dispatch, TypeOK, WorkersTyped
    <2>5. pc' \in [Workers -> WorkerPC]
      BY <1>7 DEF Dispatch, TypeOK, WorkersTyped, Goto, WorkerPC
    <2> QED
      BY <1>7, <2>1, <2>2, <2>3, <2>4, <2>5
      DEF Dispatch, TypeOK, StepsTyped, JobTyped, RequestsTyped, WorkersTyped
  <1>8. CASE AfterVerify(w)
    <2>1. WorkersTyped'
      <3>1. "return" \in WorkerPC
        BY DEF WorkerPC
      <3> QED
        BY <1>8, <3>1, BeginTyped, GotoTyped, Targets DEF AfterVerify, DbUnchanged
    <2> QED
      BY <1>8, <2>1
      DEF AfterVerify, DbUnchanged, TypeOK, FlowTyped, StepsTyped, JobTyped, RequestsTyped
  <1> QED
    BY <1>1, <1>2, <1>3, <1>4, <1>5, <1>6, <1>7, <1>8

\* The execution of the steps.
LEMMA ExecTyped ==
    ASSUME TypeOK, NEW w \in Workers,
           \/ EnterExec(w) \/ BlockSensitive(w) \/ SkipCompleted(w) \/ StopAtFailed(w)
           \/ BeginPendingStep(w) \/ RecoverOperation(w) \/ StartOperation(w)
           \/ ToolSucceeds(w) \/ RecordApplied(w) \/ ToolFails(w) \/ RetryStep(w)
           \/ FailStep(w) \/ ToolCancelled(w) \/ PersistStep(w) \/ PersistLast(w)
    PROVE  TypeOK'
  <1> cur[w] \in Steps /\ 1 \in Steps /\ NSteps \in Nat
    BY NStepsAssumption DEF TypeOK, WorkersTyped, Steps
  <1>0. {"return", "persist", "tool", "executed", "toolfailed", "resume", "step", "op"} \subseteq WorkerPC
    BY DEF WorkerPC
  <1>1. CASE EnterExec(w)
    BY <1>1, <1>0
    DEF EnterExec, DbUnchanged, Goto,
        TypeOK, FlowTyped, StepsTyped, JobTyped, RequestsTyped, WorkersTyped
  <1>2. CASE BlockSensitive(w)
    BY <1>2, <1>0, FinishTyped, Targets
    DEF BlockSensitive, FinishStepAndMove, TypeOK, StepsTyped
  <1>3. CASE SkipCompleted(w)
    <2>1. CASE cur[w] < NSteps /\ cur' = [cur EXCEPT ![w] = cur[w] + 1]
                /\ UNCHANGED <<pc, st, tgt, seen, mem, guard>>
      <3>1. cur[w] + 1 \in Steps
        BY <2>1 DEF Steps
      <3> QED
        BY <1>3, <2>1, <3>1
        DEF SkipCompleted, DbUnchanged,
        TypeOK, FlowTyped, StepsTyped, JobTyped, RequestsTyped, WorkersTyped
    <2>2. CASE Begin(w, "OBSERVING")
      <3>1. WorkersTyped'
        BY <1>3, <2>2, BeginTyped, Targets DEF SkipCompleted, DbUnchanged
      <3> QED
        BY <1>3, <3>1
        DEF SkipCompleted, DbUnchanged, TypeOK, FlowTyped, StepsTyped, JobTyped, RequestsTyped
    <2> QED
      BY <1>3, <2>1, <2>2 DEF SkipCompleted
  <1>4. CASE StopAtFailed(w) \/ RecoverOperation(w)
    BY <1>4, <1>0, ZenonT(60)
    DEF StopAtFailed, RecoverOperation, DbUnchanged, Goto,
        TypeOK, FlowTyped, StepsTyped, JobTyped, RequestsTyped, WorkersTyped
  <1>5. CASE BeginPendingStep(w)
    <2>1. step' \in [Steps -> StepState]
      BY <1>5 DEF BeginPendingStep, TypeOK, StepsTyped, StepState
    <2>2. mem' \in [Workers -> [Steps -> StepState]]
      <3>1. "RUNNING" \in StepState
        BY DEF StepState
      <3>2. mem \in [Workers -> [Steps -> StepState]]
        BY DEF TypeOK, WorkersTyped
      <3>3. mem' = mem \/ mem' = [mem EXCEPT ![w][cur[w]] = "RUNNING"]
        BY <1>5 DEF BeginPendingStep
      <3> QED
        BY <3>1, <3>2, <3>3
    <2>3. pc' \in [Workers -> WorkerPC]
      BY <1>5 DEF BeginPendingStep, TypeOK, WorkersTyped, Goto, WorkerPC
    <2> QED
      BY <1>5, <2>1, <2>2, <2>3
      DEF BeginPendingStep,
        TypeOK, FlowTyped, StepsTyped, JobTyped, RequestsTyped, WorkersTyped
  <1>6. CASE StartOperation(w)
    BY <1>6, <1>0
    DEF StartOperation, Goto, OpState,
        TypeOK, FlowTyped, StepsTyped, JobTyped, RequestsTyped, WorkersTyped
  <1>7. CASE ToolSucceeds(w)
    <2>1. effects' \in [Steps -> 0..2]
      <3>1. effects[cur[w]] \in 0..2
        BY DEF TypeOK, StepsTyped
      <3>2. Min2(effects[cur[w]] + 1, 2) \in 0..2
        BY <3>1 DEF Min2
      <3> QED
        BY <1>7, <3>2 DEF ToolSucceeds, TypeOK, StepsTyped
    <2> QED
      BY <1>7, <1>0, <2>1
      DEF ToolSucceeds, Goto,
        TypeOK, FlowTyped, StepsTyped, JobTyped, RequestsTyped, WorkersTyped
  <1>8. CASE RecordApplied(w) \/ ToolFails(w) \/ ToolCancelled(w)
    <2>1. op' \in [Steps -> OpState]
      BY <1>8 DEF RecordApplied, ToolFails, ToolCancelled, OpState, TypeOK, StepsTyped
    <2>2. pc' \in [Workers -> WorkerPC]
      BY <1>0, <1>8 DEF RecordApplied, ToolFails, ToolCancelled, Goto, TypeOK, WorkersTyped
    <2> QED
      <3>1. FlowTyped' /\ JobTyped' /\ RequestsTyped'
        BY <1>8
        DEF RecordApplied, ToolFails, ToolCancelled, TypeOK, FlowTyped, JobTyped, RequestsTyped
      <3>2. StepsTyped' /\ WorkersTyped'
        BY <1>8, <2>1, <2>2
        DEF RecordApplied, ToolFails, ToolCancelled, TypeOK, StepsTyped, WorkersTyped
      <3> QED
        BY <3>1, <3>2 DEF TypeOK
  <1>9. ASSUME CountRetry(cur[w]) PROVE retries' \in [Steps -> 0..MaxRetries + 1]
    <2>1. retries[cur[w]] \in 0..MaxRetries + 1
      BY DEF TypeOK, StepsTyped
    <2>2. Min2(retries[cur[w]] + 1, MaxRetries + 1) \in 0..MaxRetries + 1
      BY <2>1, MaxRetriesAssumption DEF Min2
    <2> QED
      BY <1>9, <2>2 DEF CountRetry, TypeOK, StepsTyped
  <1>10. CASE RetryStep(w)
    <2>1. retries' \in [Steps -> 0..MaxRetries + 1]
      BY <1>9, <1>10 DEF RetryStep
    <2> QED
      BY <1>10, <1>0, <2>1
      DEF RetryStep, Goto,
        TypeOK, FlowTyped, StepsTyped, JobTyped, RequestsTyped, WorkersTyped
  <1>11. CASE FailStep(w)
    <2>1. retries' \in [Steps -> 0..MaxRetries + 1]
      BY <1>9, <1>11 DEF FailStep
    <2>2. PICK target \in {"TIMEOUT", "BLOCKED", "FAILED"} :
              FinishStepAndMove(w, "FAILED", target, "return")
      BY <1>11 DEF FailStep
    <2>3. /\ FlowTyped' /\ JobTyped' /\ RequestsTyped' /\ WorkersTyped'
          /\ step' \in [Steps -> StepState]
      BY <1>0, <2>2, FinishTyped, Targets
    <2> QED
      BY <2>1, <2>2, <2>3 DEF FinishStepAndMove, TypeOK, StepsTyped
  <1>12. CASE PersistStep(w)
    <2>1. cur[w] < NSteps
      BY <1>12 DEF PersistStep
    <2>2. cur[w] + 1 \in Steps
      BY <2>1 DEF Steps
    <2>3. step' \in [Steps -> StepState]
      BY <1>12, <2>2 DEF PersistStep, Handover, TypeOK, StepsTyped, StepState
    <2>4. cur' \in [Workers -> Steps] /\ pc' \in [Workers -> WorkerPC]
      BY <1>12, <2>2 DEF PersistStep, Goto, TypeOK, WorkersTyped, WorkerPC
    <2>5. mem' \in [Workers -> [Steps -> StepState]]
      BY <1>12, <2>2 DEF PersistStep, TypeOK, WorkersTyped, StepState
    <2> QED
      BY <1>12, <2>3, <2>4, <2>5
      DEF PersistStep,
        TypeOK, FlowTyped, StepsTyped, JobTyped, RequestsTyped, WorkersTyped
  <1>13. CASE PersistLast(w)
    BY <1>13, <1>0, FinishTyped, Targets
    DEF PersistLast, FinishStepAndMove, TypeOK, StepsTyped
  <1> QED
    BY <1>1, <1>2, <1>3, <1>4, <1>5, <1>6, <1>7, <1>8, <1>10, <1>11, <1>12, <1>13

\* The end of a run, the guard thread and the faults.
LEMMA EndTyped ==
    ASSUME TypeOK, NEW w \in Workers,
           \/ ReleaseLease(w) \/ FinishJob(w) \/ HandleFailure(w)
           \/ GuardBeat(w) \/ Crash(w) \/ WorkerRaises(w)
    PROVE  TypeOK'
  <1>0. 1 \in Steps /\ "PENDING" \in StepState
    BY NStepsAssumption DEF Steps, StepState
  <1>1. CASE ReleaseLease(w)
    <2>1. FlowTyped'
      BY <1>1 DEF ReleaseLease, TypeOK, FlowTyped, Owners
    <2>2. st' \in [Workers -> TaskState]
      BY <1>1 DEF ReleaseLease, TypeOK, FlowTyped, WorkersTyped
    <2>3. pc' \in [Workers -> WorkerPC]
      <3>1. {"finish", "failing"} \subseteq WorkerPC
        BY DEF WorkerPC
      <3>2. pc' = [pc EXCEPT ![w] = "finish"] \/ pc' = [pc EXCEPT ![w] = "failing"]
        BY <1>1 DEF ReleaseLease, Goto
      <3> QED
        BY <3>1, <3>2 DEF TypeOK, WorkersTyped
    <2> QED
      BY <1>1, <2>1, <2>2, <2>3
      DEF ReleaseLease, TypeOK, StepsTyped, JobTyped, RequestsTyped, WorkersTyped
  <1>2. ASSUME Idle(w), late' \in [Workers -> BOOLEAN] PROVE WorkersTyped'
    BY <1>0, <1>2, Targets DEF Idle, Goto, TypeOK, WorkersTyped, WorkerPC
  <1>3. CASE FinishJob(w)
    <2>1. WorkersTyped'
      BY <1>2, <1>3 DEF FinishJob, TypeOK, WorkersTyped
    <2>2. JobTyped'
      BY <1>3 DEF FinishJob, JobOutcome, TypeOK, JobTyped, JobState, Owners
    <2> QED
      BY <1>3, <2>1, <2>2
      DEF FinishJob, TypeOK, FlowTyped, StepsTyped, RequestsTyped
  <1>4. CASE HandleFailure(w)
    <2>1. WorkersTyped'
      BY <1>2, <1>4 DEF HandleFailure, TypeOK, WorkersTyped
    <2>2. JobTyped'
      BY <1>4 DEF HandleFailure, TypeOK, JobTyped, JobState, Owners
    <2>3. FlowTyped'
      BY <1>4, MoveTyped, Targets DEF HandleFailure, TypeOK, FlowTyped
    <2> QED
      BY <1>4, <2>1, <2>2, <2>3
      DEF HandleFailure, TypeOK, StepsTyped, RequestsTyped
  <1>5. CASE GuardBeat(w)
    <2>1. jobLive' \in BOOLEAN /\ leaseLive' \in BOOLEAN
      BY <1>5 DEF GuardBeat, TypeOK, FlowTyped, JobTyped
    <2>2. guard' \in [Workers -> BOOLEAN]
      BY <1>5 DEF GuardBeat, TypeOK, FlowTyped, WorkersTyped
    <2>3. late' \in [Workers -> BOOLEAN]
      BY <1>5 DEF GuardBeat, TypeOK, WorkersTyped
    <2>4. pc' \in [Workers -> WorkerPC]
      BY <1>5 DEF GuardBeat, TypeOK, WorkersTyped, Goto, WorkerPC
    <2> QED
      BY <1>5, <2>1, <2>2, <2>3, <2>4
      DEF GuardBeat,
        TypeOK, FlowTyped, StepsTyped, JobTyped, RequestsTyped, WorkersTyped
  <1>6. CASE Crash(w)
    <2>1. WorkersTyped'
      <3>1. late' \in [Workers -> BOOLEAN]
        BY <1>6 DEF Crash, TypeOK, WorkersTyped
      <3> QED
        BY <1>2, <1>6, <3>1 DEF Crash
    <2> QED
      BY <1>6, <2>1
      DEF Crash, TypeOK, FlowTyped, StepsTyped, JobTyped, RequestsTyped, Owners
  <1>7. CASE WorkerRaises(w)
    BY <1>7, ZenonT(60)
    DEF WorkerRaises, DbUnchanged, Goto, WorkerPC,
        TypeOK, FlowTyped, StepsTyped, JobTyped, RequestsTyped, WorkersTyped
  <1> QED
    BY <1>1, <1>3, <1>4, <1>5, <1>6, <1>7

LEMMA TypeNext == TypeOK /\ [Next]_vars => TypeOK'
  <1> SUFFICES ASSUME TypeOK, [Next]_vars PROVE TypeOK'
    OBVIOUS
  <1>1. CASE UNCHANGED vars
    BY <1>1
    DEF vars, TypeOK, FlowTyped, StepsTyped, JobTyped, RequestsTyped, WorkersTyped
  <1>2. ASSUME NEW w \in Workers,
               WorkerStep(w) \/ SweepStep(w) \/ WorkerFault(w) \/ GuardBeat(w)
        PROVE  TypeOK'
    BY <1>2, LoopTyped, ResumeTyped, ExecTyped, EndTyped DEF WorkerStep, WorkerFault
  <1> QED
    BY <1>1, <1>2, SubmitTyped, RequestTyped, VerifierTyped DEF Next

\* Every row and every worker's copy of it keeps its type, whatever the
\* workers, the owner, the verifier and the faults do.
THEOREM TypeCorrect == Spec => []TypeOK
  <1> QED
    BY TypeInit, TypeNext, PTL DEF Spec
=============================================================================
