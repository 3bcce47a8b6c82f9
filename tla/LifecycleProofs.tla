--------------------------- MODULE LifecycleProofs ---------------------------
(***************************************************************************)
(* Why no interleaving of readers and writers corrupts a flow: proofs that *)
(* the journal is the history of the row, that TaskRuntime implements      *)
(* FlowLifecycle, that a finished step row is never rewritten, that the    *)
(* plan runs in order and is complete behind DONE, that execution is       *)
(* authorised, that the job row tells the outcome, and under which         *)
(* conditions one worker at a time runs the flow and an effect that can    *)
(* be read back happens at most once.                                      *)
(*                                                                         *)
(* A worker's transition reads the row in one step and writes it in a      *)
(* later one.  Fresh says what the compare of the revision buys: as long   *)
(* as the revision is the one that was read, the row is the one that was   *)
(* checked.  It holds because every write of status or of the cancellation *)
(* flag moves the revision (FlowWrites).                                   *)
(***************************************************************************)
EXTENDS TaskRuntimeProofs

USE DEF flowVars, leaseVars, stepVars, approvalVars, jobVars, requestVars, localVars

\* One accepted write of the flow row, as its observers see it.
FlowWrite ==
    /\ revision' = revision + 1
    /\ journal' = Append(journal, <<status, status'>>)
    /\ \/ /\ CheckTaskTransition(status, status', cancelRequested)
          /\ status' \in TaskState
          /\ cancelRequested' = cancelRequested
       \/ /\ CheckTaskTransition(status, "CANCELLED", TRUE)
          /\ status' = "CANCELLED" /\ cancelRequested' = TRUE
       \/ /\ status = "VERIFYING" /\ ~cancelRequested
          /\ status' = "DONE" /\ cancelRequested' = cancelRequested

FlowSame == UNCHANGED <<status, revision, journal, cancelRequested>>

\* A compare-and-swap in progress that can still succeed was checked against
\* the row as it is, and an accepted cancellation is a CANCELLED flow.
Fresh ==
    /\ \A w \in Workers : pc[w] = "cas" =>
          /\ seen[w] <= revision
          /\ seen[w] = revision =>
                /\ st[w] = status
                /\ CheckTaskTransition(status, tgt[w], cancelRequested)
    /\ cancelRequested => status = "CANCELLED"

\* A legal move of the repository is a write of the flow row.
LEMMA MoveWrites ==
    ASSUME NEW target \in TaskState, CanMove(target), Move(target),
           cancelRequested' = cancelRequested
    PROVE  FlowWrite
  BY DEF CanMove, Move, FlowWrite

\* Every step writes the flow row as FlowWrite says, or not at all.
LEMMA FlowWrites ==
    ASSUME TypeOK, Fresh, Next
    PROVE  FlowSame \/ FlowWrite
  <1> USE DEF FlowSame
  <1>1. CASE SubmitStep
    BY <1>1, MoveWrites, Targets
    DEF SubmitStep, SubmitRequeue, SubmitEnqueue, EnqueueNew, SubmitCriteriaFail, SubmitCrash
  <1>2. ASSUME NEW r \in Requests, RequestStep(r) PROVE FlowSame \/ FlowWrite
    <2>1. CASE CancelWrite(r)
      <3>1. CASE CanMove("CANCELLED") /\ Move("CANCELLED") /\ cancelRequested' = TRUE
        BY <3>1 DEF CanMove, Move, FlowWrite, CheckTaskTransition
      <3> QED
        BY <2>1, <3>1 DEF CancelWrite
    <2> QED
      BY <1>2, <2>1
      DEF RequestStep, CancelLoad, DecideLoad, DecideWrite, DecideEnqueueLoad,
          DecideEnqueueWrite
  <1>3. ASSUME NEW w \in Workers, SweepStep(w) \/ GuardBeat(w) PROVE FlowSame \/ FlowWrite
    BY <1>3, MoveWrites, Targets
    DEF SweepStep, SweepSelect, SweepOrphan, SweepContinues, SweepFail, EnqueueOrphan,
        RequeueOrphan, EnqueueNew, GuardBeat, DbUnchanged
  <1>4. ASSUME NEW w \in Workers, WorkerFault(w) PROVE FlowSame \/ FlowWrite
    BY <1>4 DEF WorkerFault, ToolFails, Crash, WorkerRaises, DbUnchanged
  <1>5. ASSUME NEW w \in Workers, CasCommit(w) PROVE FlowSame \/ FlowWrite
    <2>1. CASE CasHolds(w)
      <3>1. st[w] = status /\ CheckTaskTransition(status, tgt[w], cancelRequested)
        BY <1>5, <2>1 DEF CasCommit, CasHolds, Fresh
      <3>2. tgt[w] \in TaskState
        BY DEF TypeOK, WorkersTyped
      <3>3. /\ status' = tgt[w] /\ revision' = revision + 1
            /\ journal' = Append(journal, <<status, tgt[w]>>)
            /\ cancelRequested' = cancelRequested
        BY <1>5, <2>1, <3>1 DEF CasCommit, CasHolds
      <3> QED
        BY <3>1, <3>2, <3>3 DEF FlowWrite
    <2>2. CASE ~CasHolds(w)
      BY <1>5, <2>2 DEF CasCommit
    <2> QED
      BY <2>1, <2>2
  <1>6. ASSUME NEW w \in Workers, NEW outcome, NEW target \in TaskState, NEW next,
               FinishStepAndMove(w, outcome, target, next)
        PROVE  FlowSame \/ FlowWrite
    BY <1>6, MoveWrites DEF FinishStepAndMove
  <1>7. ASSUME NEW w \in Workers, WorkerStep(w) PROVE FlowSame \/ FlowWrite
    <2>1. CASE Dispatch(w) \/ HandleFailure(w)
      BY <2>1, MoveWrites, Targets DEF Dispatch, HandleFailure
    <2>2. CASE BlockSensitive(w) \/ FailStep(w) \/ PersistLast(w)
      BY <2>2, <1>6, Targets DEF BlockSensitive, FailStep, PersistLast
    <2>3. CASE \/ ClaimSelect(w) \/ ClaimUpdate(w) \/ RunStart(w) \/ AcquireLease(w)
               \/ ResumeLoad(w) \/ ResumeQueued(w) \/ ResumePlanning(w)
               \/ ResumeWaiting(w) \/ ApprovalTimeout(w) \/ ConsumeApproval(w)
      BY <2>3
      DEF ClaimSelect, ClaimUpdate, RunStart, AcquireLease, ResumeLoad, ResumeQueued,
          ResumePlanning, ResumeWaiting, ApprovalTimeout, ConsumeApproval, DbUnchanged
    <2>4. CASE \/ EnterExec(w) \/ SkipCompleted(w) \/ StopAtFailed(w)
               \/ BeginPendingStep(w) \/ RecoverOperation(w) \/ StartOperation(w)
               \/ ToolSucceeds(w) \/ RecordApplied(w) \/ RetryStep(w) \/ ToolCancelled(w)
               \/ PersistStep(w) \/ ResumeObserving(w) \/ AfterVerify(w)
               \/ ReleaseLease(w) \/ FinishJob(w)
      BY <2>4
      DEF EnterExec, SkipCompleted, StopAtFailed, BeginPendingStep, RecoverOperation,
          StartOperation, ToolSucceeds, RecordApplied, RetryStep, ToolCancelled,
          PersistStep, ResumeObserving, AfterVerify, ReleaseLease, FinishJob, DbUnchanged
    <2> QED
      BY <1>5, <1>7, <2>1, <2>2, <2>3, <2>4 DEF WorkerStep
  <1>8. CASE VerifierStep
    <2>1. ASSUME NEW w \in Workers, VerifierRead(w) PROVE FlowSame
      BY <2>1 DEF VerifierRead
    <2>2. ASSUME NEW r \in judging, VerifierDone(r) PROVE FlowSame \/ FlowWrite
      BY <2>2 DEF VerifierDone, FinalCas, Move, FlowWrite, Fresh
    <2>3. ASSUME NEW r \in judging, VerifierReject(r) PROVE FlowSame \/ FlowWrite
      BY <2>3, MoveWrites, Targets DEF VerifierReject
    <2> QED
      BY <1>8, <2>1, <2>2, <2>3 DEF VerifierStep
  <1>9. CASE LeaseStep
    BY <1>9 DEF LeaseStep, TaskLeaseExpires, JobLeaseExpires
  <1> QED
    BY <1>1, <1>2, <1>3, <1>4, <1>7, <1>8, <1>9 DEF Next

\* A compare-and-swap in progress has been so before, untouched, or was
\* prepared by this very step from the present row, which it leaves alone.
CasKept(w) == pc[w] = "cas" /\ UNCHANGED <<seen[w], tgt[w], st[w]>>

CasPrepared(w) ==
    /\ UNCHANGED <<status, revision, cancelRequested>>
    /\ seen'[w] = revision /\ st'[w] = status
    /\ CheckTaskTransition(status, tgt'[w], cancelRequested)

CasEntry(w) == pc'[w] = "cas" => CasKept(w) \/ CasPrepared(w)

\* A worker whose program point and copies are left alone.
LEMMA OthersKeep ==
    ASSUME TypeOK, NEW w \in Workers, NEW v \in Workers,
           pc'[v] = pc[v], seen'[v] = seen[v], tgt'[v] = tgt[v], st'[v] = st[v]
    PROVE  CasEntry(v)
  BY DEF CasEntry, CasKept

\* A worker at a program point other than "cas".
LEMMA ElsewhereKeeps ==
    ASSUME NEW v \in Workers, pc'[v] # "cas"
    PROVE  CasEntry(v)
  BY DEF CasEntry

\* Only Begin prepares a compare-and-swap.
LEMMA BeginEnters ==
    ASSUME TypeOK, NEW w \in Workers, NEW target, Begin(w, target),
           UNCHANGED <<status, revision, cancelRequested>>, NEW v \in Workers
    PROVE  CasEntry(v)
  <1>1. CASE v = w
    <2>1. CASE CanMove(target)
      BY <1>1, <2>1 DEF Begin, Goto, CasEntry, CasPrepared, CanMove, TypeOK, WorkersTyped
    <2>2. CASE ~CanMove(target)
      BY <1>1, <2>2, ElsewhereKeeps DEF Begin, Goto, TypeOK, WorkersTyped
    <2> QED
      BY <2>1, <2>2
  <1>2. CASE v # w
    BY <1>2, OthersKeep DEF Begin, Goto, TypeOK, WorkersTyped
  <1> QED
    BY <1>1, <1>2

\* A step of one worker that leads it to a program point other than "cas"
\* and touches no other worker's copies.
Elsewhere(w) ==
    /\ pc'[w] # "cas"
    /\ \A v \in Workers \ {w} :
          pc'[v] = pc[v] /\ seen'[v] = seen[v] /\ tgt'[v] = tgt[v] /\ st'[v] = st[v]

LEMMA ElsewhereEnters ==
    ASSUME TypeOK, NEW w \in Workers, Elsewhere(w), NEW v \in Workers
    PROVE  CasEntry(v)
  BY OthersKeep, ElsewhereKeeps DEF Elsewhere

LEMMA CasEntries ==
    ASSUME TypeOK, Next, NEW v \in Workers
    PROVE  CasEntry(v)
  <1> USE DEF TypeOK, WorkersTyped
  <1>1. CASE SubmitStep \/ LeaseStep \/ VerifierStep
    BY <1>1, OthersKeep
    DEF SubmitStep, SubmitRequeue, SubmitEnqueue, SubmitCriteriaFail, SubmitCrash, LeaseStep,
        TaskLeaseExpires, JobLeaseExpires, VerifierStep, VerifierRead, VerifierDone,
        VerifierReject
  <1>2. ASSUME NEW r \in Requests, RequestStep(r) PROVE CasEntry(v)
    BY <1>2, OthersKeep
    DEF RequestStep, CancelLoad, CancelWrite, DecideLoad, DecideWrite, DecideEnqueueLoad,
        DecideEnqueueWrite
  <1>3. ASSUME NEW w \in Workers, SweepStep(w) PROVE CasEntry(v)
    <2>1. CASE SweepSelect(w) \/ SweepFail(w) \/ SweepOrphan(w)
      BY <2>1, ElsewhereEnters
      DEF SweepSelect, SweepFail, SweepOrphan, Goto, Elsewhere
    <2>2. CASE EnqueueOrphan(w) \/ RequeueOrphan(w)
      BY <2>2, ElsewhereEnters DEF EnqueueOrphan, RequeueOrphan, Goto, Elsewhere
    <2> QED
      BY <1>3, <2>1, <2>2 DEF SweepStep, SweepContinues
  <1>4. ASSUME NEW w \in Workers, WorkerFault(w) PROVE CasEntry(v)
    <2>1. CASE ToolFails(w) \/ WorkerRaises(w)
      BY <2>1, ElsewhereEnters DEF ToolFails, WorkerRaises, Goto, Elsewhere
    <2>2. CASE Crash(w)
      BY <2>2, ElsewhereEnters DEF Crash, Idle, Goto, Elsewhere
    <2> QED
      BY <1>4, <2>1, <2>2 DEF WorkerFault
  <1>5. ASSUME NEW w \in Workers, GuardBeat(w) PROVE CasEntry(v)
    BY <1>5, OthersKeep, ElsewhereEnters DEF GuardBeat, Goto, Elsewhere
  <1>6. ASSUME NEW w \in Workers, WorkerStep(w) PROVE CasEntry(v)
    <2>1. CASE ClaimSelect(w) \/ ClaimUpdate(w) \/ RunStart(w) \/ AcquireLease(w)
      BY <2>1, ElsewhereEnters
      DEF ClaimSelect, ClaimUpdate, RunStart, AcquireLease, Goto, Elsewhere
    <2>2. CASE ResumeLoad(w) \/ EnterExec(w) \/ StopAtFailed(w) \/ RecoverOperation(w)
      BY <2>2, ElsewhereEnters
      DEF ResumeLoad, EnterExec, StopAtFailed, RecoverOperation, Goto, Elsewhere
    <2>3. CASE CasCommit(w)
      BY <2>3, ElsewhereEnters DEF CasCommit, Goto, Elsewhere
    <2>4. CASE ResumeQueued(w) \/ ResumeObserving(w) \/ ApprovalTimeout(w)
      BY <2>4, BeginEnters DEF ResumeQueued, ResumeObserving, ApprovalTimeout, DbUnchanged
    <2>5. ASSUME NEW p, p # "cas", Goto(w, p), UNCHANGED localVars PROVE CasEntry(v)
      BY <2>5, ElsewhereEnters DEF Goto, Elsewhere
    <2>6. CASE ResumePlanning(w) \/ ConsumeApproval(w)
      BY <2>5, <2>6, BeginEnters DEF ResumePlanning, ConsumeApproval
    <2>7. CASE ResumeWaiting(w) \/ AfterVerify(w)
      BY <2>5, <2>7, BeginEnters DEF ResumeWaiting, AfterVerify, DbUnchanged
    <2>8. CASE Dispatch(w)
      BY <2>8, ElsewhereEnters DEF Dispatch, Goto, Elsewhere
    <2>9. ASSUME NEW outcome, NEW target, NEW next, next # "cas",
                 FinishStepAndMove(w, outcome, target, next)
          PROVE  CasEntry(v)
      BY <2>9, ElsewhereEnters DEF FinishStepAndMove, Goto, Elsewhere
    <2>10. CASE BlockSensitive(w) \/ FailStep(w) \/ PersistLast(w)
      BY <2>9, <2>10 DEF BlockSensitive, FailStep, PersistLast
    <2>11. CASE SkipCompleted(w)
      BY <2>11, BeginEnters, OthersKeep DEF SkipCompleted, DbUnchanged
    <2>12. CASE BeginPendingStep(w) \/ PersistStep(w) \/ RetryStep(w)
      BY <2>12, ElsewhereEnters DEF BeginPendingStep, PersistStep, RetryStep, Goto, Elsewhere
    <2>13. CASE StartOperation(w) \/ ToolSucceeds(w) \/ RecordApplied(w) \/ ToolCancelled(w)
      BY <2>5, <2>13 DEF StartOperation, ToolSucceeds, RecordApplied, ToolCancelled
    <2>14. CASE ReleaseLease(w)
      BY <2>14, ElsewhereEnters DEF ReleaseLease, Goto, Elsewhere
    <2>15. CASE FinishJob(w) \/ HandleFailure(w)
      BY <2>15, ElsewhereEnters DEF FinishJob, HandleFailure, Idle, Goto, Elsewhere
    <2> QED
      BY <1>6, <2>1, <2>2, <2>3, <2>4, <2>6, <2>7, <2>8, <2>10, <2>11, <2>12, <2>13, <2>14,
         <2>15
      DEF WorkerStep
  <1> QED
    BY <1>1, <1>2, <1>3, <1>4, <1>5, <1>6 DEF Next

\* Fresh holds when a flow is created: nothing is in progress.
LEMMA FreshInit == Init => Fresh
  BY DEF Init, Fresh

\* Fresh is inductive: a write of the row moves the revision past every
\* revision read before, and a new reader has read the present row.
LEMMA FreshNext == TypeOK /\ Fresh /\ [Next]_vars => Fresh'
  <1> SUFFICES ASSUME TypeOK, Fresh, [Next]_vars PROVE Fresh'
    OBVIOUS
  <1>1. CASE UNCHANGED vars
    BY <1>1 DEF vars, Fresh, CheckTaskTransition
  <1>2. CASE Next
    <2>1. FlowSame \/ FlowWrite
      BY <1>2, FlowWrites
    <2>2. cancelRequested' => status' = "CANCELLED"
      BY <2>1 DEF FlowSame, FlowWrite, Fresh, CheckTaskTransition, TERMINAL_STATES
    <2>3. ASSUME NEW w \in Workers, pc'[w] = "cas"
          PROVE  /\ seen'[w] <= revision'
                 /\ seen'[w] = revision' =>
                       /\ st'[w] = status'
                       /\ CheckTaskTransition(status', tgt'[w], cancelRequested')
      <3>1. revision \in Nat /\ seen[w] \in Nat
        BY DEF TypeOK, FlowTyped, WorkersTyped
      <3>2. CasKept(w) \/ CasPrepared(w)
        BY <1>2, <2>3, CasEntries DEF CasEntry
      <3>3. CASE CasPrepared(w)
        BY <3>1, <3>3 DEF CasPrepared
      <3>4. CASE CasKept(w) /\ FlowSame
        BY <3>4 DEF CasKept, FlowSame, Fresh
      <3>5. CASE CasKept(w) /\ FlowWrite
        <4>1. seen'[w] <= revision /\ revision' = revision + 1
          BY <3>5 DEF CasKept, FlowWrite, Fresh
        <4>2. seen'[w] = seen[w]
          BY <3>5 DEF CasKept
        <4> QED
          BY <3>1, <4>1, <4>2
      <3> QED
        BY <2>1, <3>2, <3>3, <3>4, <3>5
    <2> QED
      BY <2>2, <2>3 DEF Fresh
  <1> QED
    BY <1>1, <1>2

\* The inductive invariant holds throughout.
THEOREM FreshInvariant == Spec => [](TypeOK /\ Fresh)
  <1> QED
    BY TypeInit, TypeNext, FreshInit, FreshNext, PTL DEF Spec

-----------------------------------------------------------------------------
(***************************************************************************)
(* The journal.                                                            *)
(***************************************************************************)

\* What one write adds to the journal.
LEMMA JournalAppended ==
    ASSUME TypeOK, Fresh, JournalIsHistory, FlowWrite
    PROVE  JournalIsHistory'
  <1>1. /\ revision \in Nat /\ status \in TaskState
        /\ journal \in Seq(TaskState \X TaskState)
    BY DEF TypeOK, FlowTyped
  <1>2. status' \in TaskState
    BY Targets DEF FlowWrite
  <1>3. /\ Len(journal') = Len(journal) + 1
        /\ journal'[Len(journal) + 1] = <<status, status'>>
        /\ \A n \in 1..Len(journal) : journal'[n] = journal[n]
        /\ Len(journal) \in Nat
    BY <1>1, <1>2 DEF FlowWrite
  <1>4. <<status, status'>> \in TASK_TRANSITIONS \cup VERIFIER_ONLY_TRANSITIONS
    BY DEF FlowWrite, CheckTaskTransition, VERIFIER_ONLY_TRANSITIONS
  <1>5. Len(journal') = revision'
    BY <1>3 DEF FlowWrite, JournalIsHistory
  <1>6. journal = << >> <=> Len(journal) = 0
    BY <1>1
  <1>7. status = IF Len(journal) = 0 THEN "RECEIVED" ELSE journal[Len(journal)][2]
    BY <1>6 DEF JournalIsHistory
  <1>8. ASSUME NEW n \in 1..Len(journal')
        PROVE  /\ journal'[n] \in TASK_TRANSITIONS \cup VERIFIER_ONLY_TRANSITIONS
               /\ journal'[n][1] = IF n = 1 THEN "RECEIVED" ELSE journal'[n - 1][2]
    <2>1. CASE n = Len(journal) + 1
      BY <1>3, <1>4, <1>7, <2>1
    <2>2. CASE n \in 1..Len(journal)
      BY <1>3, <2>2 DEF JournalIsHistory
    <2> QED
      BY <1>3, <1>8, <2>1, <2>2
  <1>9. journal' # << >> /\ status' = journal'[Len(journal')][2]
    BY <1>3
  <1> QED
    BY <1>5, <1>8, <1>9 DEF JournalIsHistory

\* The append-only journal is the exact history of the flow row, under every
\* interleaving of the submitter, the owner, the workers, the sweep and the
\* verifier.
THEOREM JournalCorrect == Spec => []JournalIsHistory
  <1>1. Init => JournalIsHistory
    BY DEF Init, JournalIsHistory
  <1>2. TypeOK /\ Fresh /\ JournalIsHistory /\ [Next]_vars => JournalIsHistory'
    <2> SUFFICES ASSUME TypeOK, Fresh, JournalIsHistory, [Next]_vars
                 PROVE  JournalIsHistory'
      OBVIOUS
    <2>1. CASE UNCHANGED vars \/ FlowSame
      BY <2>1 DEF vars, FlowSame, JournalIsHistory
    <2> QED
      BY <2>1, FlowWrites, JournalAppended
  <1> QED
    BY <1>1, <1>2, FreshInvariant, PTL DEF Spec

-----------------------------------------------------------------------------
(***************************************************************************)
(* The refinement.                                                         *)
(***************************************************************************)

\* The instance speaks of the same graph.
LEMMA SameGraph ==
    /\ Lifecycle!TaskState = TaskState
    /\ Lifecycle!VERIFIER_ONLY_TRANSITIONS = VERIFIER_ONLY_TRANSITIONS
    /\ \A s, t, c : Lifecycle!CheckTaskTransition(s, t, c) <=> CheckTaskTransition(s, t, c)
  BY DEF Lifecycle!TaskState, TaskState, Lifecycle!TERMINAL_STATES, TERMINAL_STATES,
         Lifecycle!VERIFIER_ONLY_TRANSITIONS, VERIFIER_ONLY_TRANSITIONS,
         Lifecycle!CheckTaskTransition, CheckTaskTransition,
         Lifecycle!TASK_TRANSITIONS, TASK_TRANSITIONS

\* One write of the flow row is one step of the abstract lifecycle.
LEMMA WriteRefines == FlowWrite => Lifecycle!LNext
  <1> SUFFICES ASSUME FlowWrite PROVE Lifecycle!LNext
    OBVIOUS
  <1>1. CASE /\ CheckTaskTransition(status, status', cancelRequested)
             /\ status' \in TaskState /\ cancelRequested' = cancelRequested
    BY <1>1, SameGraph DEF Lifecycle!LNext, Lifecycle!Advance
  <1>2. CASE /\ CheckTaskTransition(status, "CANCELLED", TRUE)
             /\ status' = "CANCELLED" /\ cancelRequested' = TRUE
    BY <1>2, SameGraph DEF Lifecycle!LNext, Lifecycle!Cancel
  <1>3. CASE /\ status = "VERIFYING" /\ ~cancelRequested
             /\ status' = "DONE" /\ cancelRequested' = cancelRequested
    BY <1>3, SameGraph
    DEF Lifecycle!LNext, Lifecycle!Finalize, VERIFIER_ONLY_TRANSITIONS
  <1> QED
    BY <1>1, <1>2, <1>3 DEF FlowWrite

\* The runtime implements the lifecycle: whatever workers, owner, verifier
\* and sweep do, an observer sees the status follow the graph, a cancelled
\* flow stay CANCELLED, and DONE come from VERIFYING alone.
THEOREM LifecycleImplemented == Spec => LifecycleRefined
  <1>1. Init => Lifecycle!LInit
    BY DEF Init, Lifecycle!LInit
  <1>2. TypeOK /\ Fresh /\ [Next]_vars => [Lifecycle!LNext]_(Lifecycle!lifecycle)
    <2> SUFFICES ASSUME TypeOK, Fresh, [Next]_vars
                 PROVE  Lifecycle!LNext \/ UNCHANGED <<status, cancelRequested>>
      BY DEF Lifecycle!lifecycle
    <2>1. CASE UNCHANGED vars
      BY <2>1 DEF vars
    <2> QED
      BY <2>1, FlowWrites, WriteRefines DEF FlowSame
  <1> QED
    BY <1>1, <1>2, FreshInvariant, PTL DEF Spec, LifecycleRefined, Lifecycle!LSpec

-----------------------------------------------------------------------------
(***************************************************************************)
(* The step rows.                                                          *)
(***************************************************************************)

\* What a step may do to the step rows.
StepsKept ==
    \A i \in Steps : step[i] \in {"COMPLETED", "FAILED", "CANCELLED"} => step'[i] = step[i]

\* A cancellation touches unfinished rows only.
LEMMA CancelKeeps ==
    ASSUME NEW rows, CancelSteps(rows)
    PROVE  StepsKept
  BY DEF CancelSteps, Unfinished, StepsKept

LEMMA StepsKeptNext ==
    ASSUME TypeOK, [Next]_vars
    PROVE  StepsKept
  <1>1. step \in [Steps -> StepState] /\ (\A w \in Workers : cur[w] \in Steps)
    BY DEF TypeOK, StepsTyped, WorkersTyped
  <1>2. UNCHANGED step => StepsKept
    BY DEF StepsKept
  <1>3. CASE SubmitStep
    BY <1>2, <1>3, CancelKeeps
    DEF SubmitStep, SubmitRequeue, SubmitEnqueue, SubmitCriteriaFail, SubmitCrash
  <1>4. ASSUME NEW r \in Requests, RequestStep(r) PROVE StepsKept
    BY <1>2, <1>4, CancelKeeps
    DEF RequestStep, CancelLoad, CancelWrite, DecideLoad, DecideWrite, DecideEnqueueLoad,
        DecideEnqueueWrite
  <1>5. ASSUME NEW w \in Workers, NEW outcome, NEW target, NEW next,
               FinishStepAndMove(w, outcome, target, next)
        PROVE  StepsKept
    BY <1>1, <1>5 DEF FinishStepAndMove, StepCas, StepsKept
  <1>6. ASSUME NEW w \in Workers, WorkerStep(w) PROVE StepsKept
    <2>1. CASE Dispatch(w) \/ BeginPendingStep(w)
      BY <1>1, <2>1 DEF Dispatch, BeginPendingStep, StepsKept
    <2>2. CASE PersistStep(w)
      BY <1>1, <2>2 DEF PersistStep, Handover, StepCas, StepsKept
    <2>3. CASE BlockSensitive(w) \/ FailStep(w) \/ PersistLast(w)
      BY <1>5, <2>3 DEF BlockSensitive, FailStep, PersistLast
    <2>4. CASE \/ ClaimSelect(w) \/ ClaimUpdate(w) \/ RunStart(w) \/ AcquireLease(w)
               \/ ResumeLoad(w) \/ CasCommit(w) \/ ResumeQueued(w) \/ ResumePlanning(w)
               \/ ResumeWaiting(w) \/ ApprovalTimeout(w) \/ ConsumeApproval(w)
      BY <1>2, <2>4
      DEF ClaimSelect, ClaimUpdate, RunStart, AcquireLease, ResumeLoad, CasCommit,
          ResumeQueued, ResumePlanning, ResumeWaiting, ApprovalTimeout, ConsumeApproval,
          DbUnchanged
    <2>5. CASE \/ EnterExec(w) \/ SkipCompleted(w) \/ StopAtFailed(w)
               \/ RecoverOperation(w) \/ StartOperation(w) \/ ToolSucceeds(w)
               \/ RecordApplied(w) \/ RetryStep(w) \/ ToolCancelled(w)
               \/ ResumeObserving(w) \/ AfterVerify(w)
               \/ ReleaseLease(w) \/ FinishJob(w) \/ HandleFailure(w)
      BY <1>2, <2>5
      DEF EnterExec, SkipCompleted, StopAtFailed, RecoverOperation, StartOperation,
          ToolSucceeds, RecordApplied, RetryStep, ToolCancelled, ResumeObserving,
          AfterVerify, ReleaseLease, FinishJob, HandleFailure, DbUnchanged
    <2> QED
      BY <1>6, <2>1, <2>2, <2>3, <2>4, <2>5 DEF WorkerStep
  <1>7. ASSUME NEW w \in Workers, SweepStep(w) \/ WorkerFault(w) \/ GuardBeat(w)
        PROVE  StepsKept
    BY <1>2, <1>7
    DEF SweepStep, SweepSelect, SweepOrphan, SweepContinues, SweepFail, EnqueueOrphan,
        RequeueOrphan, WorkerFault, ToolFails, Crash,
        WorkerRaises, GuardBeat, DbUnchanged
  <1>8. CASE VerifierStep \/ LeaseStep
    BY <1>2, <1>8
    DEF VerifierStep, VerifierRead, VerifierDone, VerifierReject, LeaseStep,
        TaskLeaseExpires, JobLeaseExpires
  <1>9. CASE UNCHANGED vars
    BY <1>2, <1>9 DEF vars
  <1> QED
    BY <1>3, <1>4, <1>6, <1>7, <1>8, <1>9 DEF Next

\* A finished step row is never rewritten, neither by a worker that loaded it
\* before the owner cancelled nor by a cancellation that loaded it before the
\* worker finished it.
THEOREM StepRowsCorrect == Spec => StepRowsAreFinal
  <1>1. TypeOK /\ [Next]_vars => [StepsKept]_vars
    BY StepsKeptNext
  <1> QED
    BY <1>1, TypeCorrect, PTL DEF Spec, StepRowsAreFinal, StepsKept

-----------------------------------------------------------------------------
(***************************************************************************)
(* The plan: steps in order, and all of them behind DONE.                  *)
(***************************************************************************)

\* A worker's copy of the step rows may be old, but what it shows as finished
\* is finished.
CopiesLag ==
    \A w \in Workers : \A i \in Steps :
        mem[w][i] \in {"COMPLETED", "FAILED", "CANCELLED"} => step[i] = mem[w][i]

\* The loop has left completed steps behind it.
Behind == \A w \in Workers : \A i \in Steps : i < cur[w] => mem[w][i] = "COMPLETED"

\* A flow past its execution has all its steps, and so has one whose move to
\* OBSERVING is on its way.
AllComplete == \A i \in Steps : step[i] = "COMPLETED"

PlanRan ==
    /\ status \in {"OBSERVING", "VERIFYING", "DONE"} => AllComplete
    /\ \A w \in Workers : pc[w] = "cas" /\ tgt[w] = "OBSERVING" => AllComplete

PlanInv == CopiesLag /\ Behind /\ StepsInOrder /\ PlanRan

-----------------------------------------------------------------------------
(***************************************************************************)
(* Authority, and what the job row tells.                                  *)
(***************************************************************************)

\* The flow may execute: the policy approves it, or an owner's grant exists.
Authorised == profile.auto \/ grant # "absent"

\* Program points behind the consumption of the approval, and behind the
\* safety classifier.
BehindApproval == {"dispatch", "enter", "step", "op", "tool", "executed", "persist",
                   "toolfailed", "toolcancelled"}
BehindClassifier == {"op", "tool", "executed", "persist", "toolfailed", "toolcancelled"}

\* Nobody is behind a gate that did not open, TOOL_EXECUTING is entered
\* through Dispatch alone, and no effect happened outside.
AuthorityInv ==
    /\ \A w \in Workers :
          /\ pc[w] \in BehindApproval => Authorised
          /\ pc[w] \in BehindClassifier => ~profile.sensitive
          /\ pc[w] = "cas" => tgt[w] # "TOOL_EXECUTING"
    /\ status = "TOOL_EXECUTING" => Authorised
    /\ ExecutionIsAuthorised

\* A worker that saw the flow end saw it as it is, and so does the job row.
OutcomeInv ==
    /\ \A w \in Workers : st[w] \in {"DONE", "CANCELLED"} => status = st[w]
    /\ JobTellsOutcome

-----------------------------------------------------------------------------
(***************************************************************************)
(* What a step of anybody does to the rows those invariants speak of.      *)
(***************************************************************************)
WorldStep ==
    /\ profile' = profile
    /\ Authorised => Authorised'
    /\ \/ effects' = effects
       \/ \E w \in Workers : ToolSucceeds(w)
    /\ status' = "TOOL_EXECUTING" =>
          \/ status = "TOOL_EXECUTING"
          \/ \E w \in Workers : pc[w] = "dispatch"
          \/ \E w \in Workers : pc[w] = "cas" /\ tgt[w] = "TOOL_EXECUTING"
    /\ status' = "OBSERVING" =>
          \/ status = "OBSERVING"
          \/ \E w \in Workers : pc[w] = "cas" /\ tgt[w] = "OBSERVING"
          \/ \E w \in Workers : cur[w] = NSteps /\ step' = [step EXCEPT ![NSteps] = "COMPLETED"]
    /\ jobStatus' \in {"DONE", "CANCELLED"} =>
          jobStatus' = jobStatus \/ \E w \in Workers : st[w] = jobStatus'

\* The parts of the world a step leaves alone.
LEMMA WorldKept ==
    ASSUME UNCHANGED <<profile, effects, status, jobStatus>>,
           grant' = grant \/ grant' # "absent"
    PROVE  WorldStep
  BY DEF WorldStep, Authorised

\* An accepted transition to another state than those two.
LEMMA WorldMoves ==
    ASSUME UNCHANGED <<profile, effects, grant>>,
           status' = status \/ status' \notin {"TOOL_EXECUTING", "OBSERVING"},
           jobStatus' = jobStatus \/ jobStatus' \notin {"DONE", "CANCELLED"}
    PROVE  WorldStep
  BY DEF WorldStep, Authorised

LEMMA WorldSteps ==
    ASSUME TypeOK, [Next]_vars
    PROVE  WorldStep
  <1>1. CASE SubmitStep
    BY <1>1, WorldMoves
    DEF SubmitStep, SubmitRequeue, SubmitEnqueue, EnqueueNew, SubmitCriteriaFail,
        SubmitCrash, PutBack, Move
  <1>2. ASSUME NEW r \in Requests, RequestStep(r) PROVE WorldStep
    <2>1. CASE CancelWrite(r) \/ DecideEnqueueWrite(r)
      BY <2>1, WorldMoves DEF CancelWrite, DecideEnqueueWrite, PutBack, Move
    <2>2. CASE CancelLoad(r) \/ DecideLoad(r) \/ DecideEnqueueLoad(r)
      BY <2>2, WorldKept DEF CancelLoad, DecideLoad, DecideEnqueueLoad
    <2>3. CASE DecideWrite(r)
      BY <2>3, WorldKept DEF DecideWrite
    <2> QED
      BY <1>2, <2>1, <2>2, <2>3 DEF RequestStep
  <1>3. ASSUME NEW w \in Workers, SweepStep(w) \/ GuardBeat(w) PROVE WorldStep
    BY <1>3, WorldMoves, WorldKept
    DEF SweepStep, SweepSelect, SweepOrphan, SweepContinues, SweepFail, EnqueueOrphan,
        RequeueOrphan, EnqueueNew, PutBack, GuardBeat, DbUnchanged, Move
  <1>4. ASSUME NEW w \in Workers, WorkerFault(w) PROVE WorldStep
    BY <1>4, WorldKept DEF WorkerFault, ToolFails, Crash, WorkerRaises, DbUnchanged
  <1>5. ASSUME NEW w \in Workers, WorkerStep(w) PROVE WorldStep
    <2>1. CASE CasCommit(w)
      BY <2>1 DEF CasCommit, WorldStep, Authorised
    <2>2. CASE Dispatch(w)
      BY <2>2 DEF Dispatch, Move, WorldStep, Authorised
    <2>3. CASE ToolSucceeds(w)
      BY <2>3 DEF ToolSucceeds, WorldStep, Authorised
    <2>4. CASE PersistLast(w)
      <3>1. UNCHANGED <<profile, effects, grant, jobStatus>>
        BY <2>4 DEF PersistLast, FinishStepAndMove
      <3>2. status' = status \/ (status' = "OBSERVING" /\ cur[w] = NSteps
                                  /\ step' = [step EXCEPT ![NSteps] = "COMPLETED"])
        BY <2>4 DEF PersistLast, FinishStepAndMove, Move
      <3> QED
        BY <3>1, <3>2 DEF WorldStep, Authorised
    <2>5. CASE BlockSensitive(w) \/ FailStep(w)
      BY <2>5, WorldMoves DEF BlockSensitive, FailStep, FinishStepAndMove, Move
    <2>6. CASE HandleFailure(w)
      BY <2>6, WorldMoves DEF HandleFailure, Move
    <2>7. CASE FinishJob(w)
      BY <2>7 DEF FinishJob, JobOutcome, WorldStep, Authorised
    <2>8. CASE ClaimSelect(w) \/ ClaimUpdate(w) \/ RunStart(w) \/ AcquireLease(w)
      BY <2>8, WorldMoves
      DEF ClaimSelect, ClaimUpdate, RunStart, AcquireLease, DbUnchanged
    <2>9. CASE \/ ResumeLoad(w) \/ ResumeQueued(w) \/ ResumePlanning(w) \/ ResumeWaiting(w)
               \/ ApprovalTimeout(w) \/ ConsumeApproval(w)
      BY <2>9, WorldKept
      DEF ResumeLoad, ResumeQueued, ResumePlanning, ResumeWaiting, ApprovalTimeout,
          ConsumeApproval, DbUnchanged
    <2>10. CASE \/ EnterExec(w) \/ SkipCompleted(w) \/ StopAtFailed(w)
                \/ BeginPendingStep(w) \/ RecoverOperation(w) \/ StartOperation(w)
                \/ RecordApplied(w) \/ RetryStep(w) \/ ToolCancelled(w) \/ PersistStep(w)
                \/ ResumeObserving(w) \/ AfterVerify(w) \/ ReleaseLease(w)
      BY <2>10, WorldKept
      DEF EnterExec, SkipCompleted, StopAtFailed, BeginPendingStep, RecoverOperation,
          StartOperation, RecordApplied, RetryStep, ToolCancelled, PersistStep,
          ResumeObserving, AfterVerify, ReleaseLease, DbUnchanged
    <2> QED
      BY <1>5, <2>1, <2>2, <2>3, <2>4, <2>5, <2>6, <2>7, <2>8, <2>9, <2>10 DEF WorkerStep
  <1>6. CASE VerifierStep \/ LeaseStep
    BY <1>6, WorldMoves
    DEF VerifierStep, VerifierRead, VerifierDone, VerifierReject, Move, LeaseStep,
        TaskLeaseExpires, JobLeaseExpires
  <1>7. CASE UNCHANGED vars
    BY <1>7, WorldKept DEF vars
  <1> QED
    BY <1>1, <1>2, <1>3, <1>4, <1>5, <1>6, <1>7 DEF Next

-----------------------------------------------------------------------------
(***************************************************************************)
(* What it does to the program point and the copies of a worker.           *)
(***************************************************************************)

\* The gates a worker passes.
Gates(v) ==
    /\ pc'[v] \in BehindApproval =>
          pc[v] \in BehindApproval \/ Authorised' \/ status = "TOOL_EXECUTING"
    /\ pc'[v] \in BehindClassifier => pc[v] \in BehindClassifier \/ ~profile.sensitive
    /\ pc'[v] = "cas" =>
          \/ pc[v] = "cas" /\ tgt'[v] = tgt[v]
          \/ tgt'[v] \notin {"TOOL_EXECUTING", "OBSERVING"}
          \/ /\ tgt'[v] = "OBSERVING" /\ step' = step
             /\ cur[v] = NSteps /\ mem[v][NSteps] = "COMPLETED"
    /\ st'[v] \in {st[v], status', "RECEIVED"}

\* What becomes of its copy of the step rows, and of its place in the plan.
Copies(v) ==
    \/ mem'[v] = mem[v] /\ cur'[v] \in {cur[v], 1}
    \/ mem'[v] = step /\ step' = step /\ cur'[v] = 1
    \/ mem'[v] = [i \in Steps |-> "PENDING"] /\ cur'[v] = 1
    \/ mem'[v] = mem[v] /\ mem[v][cur[v]] = "COMPLETED" /\ cur'[v] = cur[v] + 1
    \/ /\ mem'[v] = [mem[v] EXCEPT ![cur[v]] = "RUNNING"]
       /\ mem[v][cur[v]] = "PENDING" /\ step'[cur[v]] = "RUNNING" /\ cur'[v] = cur[v]
    \/ /\ cur[v] + 1 \in Steps
       /\ mem'[v] = [mem[v] EXCEPT ![cur[v]] = "COMPLETED", ![cur[v] + 1] = "RUNNING"]
       /\ step'[cur[v]] = "COMPLETED" /\ step'[cur[v] + 1] = "RUNNING"
       /\ cur'[v] = cur[v] + 1

\* A worker whose program point and copies are left alone.
Untouched(v) ==
    UNCHANGED <<pc[v], tgt[v], st[v], mem[v], cur[v]>>

LEMMA UntouchedPasses ==
    ASSUME NEW v, Untouched(v)
    PROVE  Gates(v) /\ Copies(v)
  BY DEF Untouched, Gates, Copies

\* A step of the worker w alone.
LEMMA OthersUntouched ==
    ASSUME TypeOK, [Next]_vars, NEW v \in Workers,
           ~\E w \in Workers : w = v /\ (WorkerStep(w) \/ SweepStep(w) \/ WorkerFault(w)
                                            \/ GuardBeat(w))
    PROVE  Untouched(v)
  <1> USE DEF TypeOK, WorkersTyped, Untouched
  <1>1. CASE SubmitStep \/ LeaseStep \/ VerifierStep
    BY <1>1
    DEF SubmitStep, SubmitRequeue, SubmitEnqueue, SubmitCriteriaFail, SubmitCrash, LeaseStep,
        TaskLeaseExpires, JobLeaseExpires, VerifierStep, VerifierRead, VerifierDone,
        VerifierReject
  <1>2. ASSUME NEW r \in Requests, RequestStep(r) PROVE Untouched(v)
    BY <1>2
    DEF RequestStep, CancelLoad, CancelWrite, DecideLoad, DecideWrite, DecideEnqueueLoad,
        DecideEnqueueWrite
  <1>3. ASSUME NEW w \in Workers, w # v, SweepStep(w) \/ GuardBeat(w) PROVE Untouched(v)
    BY <1>3 DEF SweepStep, SweepSelect, SweepOrphan, SweepContinues, SweepFail, EnqueueOrphan,
        RequeueOrphan, GuardBeat, Goto
  <1>4. ASSUME NEW w \in Workers, w # v, WorkerFault(w) PROVE Untouched(v)
    BY <1>4 DEF WorkerFault, ToolFails, Crash, WorkerRaises, Idle, Goto
  <1>5. ASSUME NEW w \in Workers, w # v, WorkerStep(w) PROVE Untouched(v)
    <2>1. CASE ClaimSelect(w) \/ ClaimUpdate(w) \/ RunStart(w) \/ AcquireLease(w)
      BY <1>5, <2>1 DEF ClaimSelect, ClaimUpdate, RunStart, AcquireLease, Goto
    <2>2. CASE \/ ResumeLoad(w) \/ CasCommit(w) \/ ResumeQueued(w) \/ ResumePlanning(w)
               \/ ResumeWaiting(w) \/ ApprovalTimeout(w) \/ ConsumeApproval(w)
      BY <1>5, <2>2
      DEF ResumeLoad, CasCommit, ResumeQueued, ResumePlanning, ResumeWaiting,
          ApprovalTimeout, ConsumeApproval, Begin, Goto
    <2>3. CASE Dispatch(w) \/ EnterExec(w) \/ StopAtFailed(w) \/ RecoverOperation(w)
      BY <1>5, <2>3 DEF Dispatch, EnterExec, StopAtFailed, RecoverOperation, Goto
    <2>4. CASE BlockSensitive(w) \/ FailStep(w) \/ PersistLast(w)
      BY <1>5, <2>4 DEF BlockSensitive, FailStep, PersistLast, FinishStepAndMove, Goto
    <2>5. CASE SkipCompleted(w) \/ ResumeObserving(w) \/ AfterVerify(w)
      BY <1>5, <2>5 DEF SkipCompleted, ResumeObserving, AfterVerify, Begin, Goto
    <2>6. CASE BeginPendingStep(w) \/ PersistStep(w) \/ RetryStep(w)
      BY <1>5, <2>6 DEF BeginPendingStep, PersistStep, RetryStep, Goto
    <2>7. CASE StartOperation(w) \/ ToolSucceeds(w) \/ RecordApplied(w) \/ ToolCancelled(w)
      BY <1>5, <2>7 DEF StartOperation, ToolSucceeds, RecordApplied, ToolCancelled, Goto
    <2>8. CASE ReleaseLease(w) \/ FinishJob(w) \/ HandleFailure(w)
      BY <1>5, <2>8 DEF ReleaseLease, FinishJob, HandleFailure, Idle, Goto
    <2> QED
      BY <1>5, <2>1, <2>2, <2>3, <2>4, <2>5, <2>6, <2>7, <2>8 DEF WorkerStep
  <1>6. CASE UNCHANGED vars
    BY <1>6 DEF vars
  <1> QED
    BY <1>1, <1>2, <1>3, <1>4, <1>5, <1>6 DEF Next

\* What the worker's own step does to it.
LEMMA OwnGates ==
    ASSUME TypeOK, NEW v \in Workers,
           WorkerStep(v) \/ SweepStep(v) \/ WorkerFault(v) \/ GuardBeat(v)
    PROVE  Gates(v)
  <1> USE DEF Gates, BehindApproval, BehindClassifier
  <1>0. /\ pc \in [Workers -> WorkerPC] /\ st \in [Workers -> TaskState]
        /\ tgt \in [Workers -> TaskState]
    BY DEF TypeOK, WorkersTyped
  <1>1. ASSUME NEW target \in TaskState \ {"TOOL_EXECUTING", "OBSERVING"}, Begin(v, target),
               UNCHANGED status
        PROVE  Gates(v)
    BY <1>0, <1>1 DEF Begin, Goto
  <1>2. ASSUME NEW p, Goto(v, p), UNCHANGED <<st, tgt>>,
               p \notin BehindApproval \cup {"cas"}
        PROVE  Gates(v)
    BY <1>0, <1>2 DEF Goto
  <1>3. ASSUME NEW outcome, NEW target, NEW next, next \notin BehindApproval \cup {"cas"},
               FinishStepAndMove(v, outcome, target, next)
        PROVE  Gates(v)
    BY <1>0, <1>3 DEF FinishStepAndMove, Goto, Move
  <1>4. CASE SweepStep(v) \/ GuardBeat(v)
    BY <1>0, <1>4 DEF SweepStep, SweepSelect, SweepOrphan, SweepContinues, SweepFail, EnqueueOrphan,
        RequeueOrphan, GuardBeat, Goto
  <1>5. CASE WorkerFault(v)
    BY <1>0, <1>5 DEF WorkerFault, ToolFails, Crash, WorkerRaises, Idle, Goto
  <1>6. CASE WorkerStep(v)
    <2>1. CASE ClaimSelect(v) \/ ClaimUpdate(v) \/ AcquireLease(v) \/ StopAtFailed(v)
      BY <1>0, <2>1 DEF ClaimSelect, ClaimUpdate, AcquireLease, StopAtFailed, Goto
    <2>2. CASE RunStart(v) \/ ResumeLoad(v) \/ ReleaseLease(v)
      BY <1>0, <2>2 DEF RunStart, ResumeLoad, ReleaseLease, DbUnchanged, Goto
    <2>3. CASE CasCommit(v)
      BY <1>0, <2>3 DEF CasCommit, Goto
    <2>4. CASE ResumeQueued(v) \/ ResumeObserving(v) \/ ApprovalTimeout(v) \/ AfterVerify(v)
      BY <1>0, <1>1, <1>2, <2>4, Targets
      DEF ResumeQueued, ResumeObserving, ApprovalTimeout, AfterVerify, DbUnchanged
    <2>5. CASE ResumePlanning(v) \/ ResumeWaiting(v)
      BY <1>0, <1>1, <1>2, <2>5, Targets DEF ResumePlanning, ResumeWaiting, DbUnchanged
    <2>6. CASE ConsumeApproval(v)
      <3>1. CASE /\ grant = "live" \/ (grant = "absent" /\ profile.auto)
                 /\ grant' = IF grant = "live" THEN "consumed" ELSE grant
                 /\ Goto(v, "dispatch") /\ UNCHANGED <<localVars, guard>>
        BY <1>0, <2>6, <3>1 DEF ConsumeApproval, Goto, Authorised
      <3>2. CASE Begin(v, "POLICY_DENIED")
        BY <1>1, <2>6, <3>2, Targets DEF ConsumeApproval
      <3> QED
        BY <2>6, <3>1, <3>2 DEF ConsumeApproval
    <2>7. CASE Dispatch(v) \/ EnterExec(v)
      BY <1>0, <2>7 DEF Dispatch, EnterExec, Move, Goto
    <2>8. CASE BlockSensitive(v) \/ FailStep(v) \/ PersistLast(v)
      BY <1>3, <2>8 DEF BlockSensitive, FailStep, PersistLast
    <2>9. CASE SkipCompleted(v)
      BY <1>0, <2>9 DEF SkipCompleted, Begin, Goto, DbUnchanged
    <2>10. CASE BeginPendingStep(v) \/ PersistStep(v) \/ RetryStep(v)
      BY <1>0, <2>10 DEF BeginPendingStep, PersistStep, RetryStep, SafetyBlocks, Goto
    <2>11. CASE RecoverOperation(v) \/ StartOperation(v)
      BY <1>0, <2>11 DEF RecoverOperation, StartOperation, AtOperation, SafetyBlocks, Goto
    <2>12. CASE ToolSucceeds(v) \/ RecordApplied(v) \/ ToolCancelled(v)
      BY <1>0, <2>12 DEF ToolSucceeds, RecordApplied, ToolCancelled, Goto
    <2>13. CASE FinishJob(v) \/ HandleFailure(v)
      BY <1>0, <2>13 DEF FinishJob, HandleFailure, Idle, Goto
    <2> QED
      BY <1>6, <2>1, <2>2, <2>3, <2>4, <2>5, <2>6, <2>7, <2>8, <2>9, <2>10, <2>11, <2>12, <2>13
      DEF WorkerStep
  <1> QED
    BY <1>4, <1>5, <1>6

LEMMA OwnCopies ==
    ASSUME TypeOK, NEW v \in Workers,
           WorkerStep(v) \/ SweepStep(v) \/ WorkerFault(v) \/ GuardBeat(v)
    PROVE  Copies(v)
  <1>0. /\ mem \in [Workers -> [Steps -> StepState]] /\ cur \in [Workers -> Steps]
        /\ step \in [Steps -> StepState]
    BY DEF TypeOK, WorkersTyped, StepsTyped
  <1>1. UNCHANGED <<mem, cur>> => Copies(v)
    BY DEF Copies
  <1>2. CASE SweepStep(v) \/ GuardBeat(v)
    BY <1>1, <1>2 DEF SweepStep, SweepSelect, SweepOrphan, SweepContinues, SweepFail, EnqueueOrphan,
        RequeueOrphan, GuardBeat
  <1>3. Idle(v) => Copies(v)
    BY <1>0 DEF Idle, Copies
  <1>4. CASE WorkerFault(v)
    BY <1>1, <1>3, <1>4 DEF WorkerFault, ToolFails, Crash, WorkerRaises
  <1>5. CASE WorkerStep(v)
    <2>1. CASE ClaimSelect(v) \/ ClaimUpdate(v) \/ RunStart(v) \/ AcquireLease(v)
      BY <1>1, <2>1 DEF ClaimSelect, ClaimUpdate, RunStart, AcquireLease
    <2>2. CASE \/ CasCommit(v) \/ ResumeQueued(v) \/ ResumePlanning(v) \/ ResumeWaiting(v)
               \/ ApprovalTimeout(v) \/ ConsumeApproval(v) \/ ResumeObserving(v)
               \/ AfterVerify(v)
      BY <1>1, <2>2
      DEF CasCommit, ResumeQueued, ResumePlanning, ResumeWaiting, ApprovalTimeout,
          ConsumeApproval, ResumeObserving, AfterVerify, Begin
    <2>3. CASE ResumeLoad(v) \/ EnterExec(v)
      BY <1>0, <2>3 DEF ResumeLoad, EnterExec, DbUnchanged, Copies
    <2>4. CASE SkipCompleted(v)
      BY <1>0, <1>1, <2>4 DEF SkipCompleted, Begin, Copies
    <2>5. CASE BeginPendingStep(v)
      BY <1>0, <1>1, <2>5 DEF BeginPendingStep, Copies
    <2>6. CASE RetryStep(v)
      BY <1>0, <2>6 DEF RetryStep, Copies
    <2>7. CASE PersistStep(v)
      <3>1. CASE /\ step' = Handover(cur[v])
                 /\ mem' = [mem EXCEPT ![v][cur[v]] = "COMPLETED", ![v][cur[v]+1] = "RUNNING"]
                 /\ cur' = [cur EXCEPT ![v] = cur[v] + 1]
        <4>1. cur[v] \in Steps /\ cur[v] + 1 \in Steps /\ cur[v] + 1 # cur[v]
          BY <1>0, <2>7, NStepsAssumption DEF PersistStep, Steps
        <4>2. cur'[v] = cur[v] + 1
          BY <1>0, <3>1
        <4>3. mem'[v] = [mem[v] EXCEPT ![cur[v]] = "COMPLETED", ![cur[v] + 1] = "RUNNING"]
          BY <1>0, <3>1, <4>1
        <4>4. step'[cur[v]] = "COMPLETED" /\ step'[cur[v] + 1] = "RUNNING"
          BY <1>0, <3>1, <4>1 DEF Handover
        <4> QED
          BY <4>1, <4>2, <4>3, <4>4 DEF Copies
      <3> QED
        BY <1>1, <2>7, <3>1 DEF PersistStep
    <2>8. CASE \/ Dispatch(v) \/ BlockSensitive(v) \/ FailStep(v) \/ PersistLast(v)
      BY <1>1, <2>8 DEF Dispatch, BlockSensitive, FailStep, PersistLast, FinishStepAndMove
    <2>9. CASE \/ StopAtFailed(v) \/ RecoverOperation(v) \/ StartOperation(v)
               \/ ToolSucceeds(v) \/ RecordApplied(v) \/ ToolCancelled(v) \/ ReleaseLease(v)
      BY <1>1, <2>9
      DEF StopAtFailed, RecoverOperation, StartOperation, ToolSucceeds, RecordApplied,
          ToolCancelled, ReleaseLease
    <2>10. CASE FinishJob(v) \/ HandleFailure(v)
      BY <1>3, <2>10 DEF FinishJob, HandleFailure
    <2> QED
      BY <1>5, <2>1, <2>2, <2>3, <2>4, <2>5, <2>6, <2>7, <2>8, <2>9, <2>10 DEF WorkerStep
  <1> QED
    BY <1>2, <1>4, <1>5

\* Every worker passes its gates and keeps its copies in every step.
LEMMA WorkersPass ==
    ASSUME TypeOK, [Next]_vars, NEW v \in Workers
    PROVE  Gates(v) /\ Copies(v)
  BY OwnGates, OwnCopies, OthersUntouched, UntouchedPasses

-----------------------------------------------------------------------------
(***************************************************************************)
(* The invariants are inductive.                                           *)
(***************************************************************************)

LEMMA PlanInit == Init => PlanInv /\ AuthorityInv /\ OutcomeInv
  <1> SUFFICES ASSUME Init PROVE PlanInv /\ AuthorityInv /\ OutcomeInv
    OBVIOUS
  <1>1. CopiesLag /\ Behind
    BY DEF Init, CopiesLag, Behind, Steps
  <1>2. StepsInOrder /\ PlanRan
    BY DEF Init, StepsInOrder, PlanRan
  <1>3. AuthorityInv
    BY DEF Init, AuthorityInv, ExecutionIsAuthorised, BehindApproval, BehindClassifier
  <1>4. OutcomeInv
    BY DEF Init, OutcomeInv, JobTellsOutcome
  <1> QED
    BY <1>1, <1>2, <1>3, <1>4 DEF PlanInv

\* What a worker's copy shows as finished stays so in the rows.
LEMMA CopiesLagNext ==
    ASSUME TypeOK, PlanInv, [Next]_vars
    PROVE  CopiesLag'
  <1> SUFFICES ASSUME NEW v \in Workers, NEW i \in Steps,
                      mem'[v][i] \in {"COMPLETED", "FAILED", "CANCELLED"}
               PROVE  step'[i] = mem'[v][i]
    BY DEF CopiesLag
  <1>1. mem[v] \in [Steps -> StepState] /\ cur[v] \in Steps
    BY DEF TypeOK, WorkersTyped
  <1>2. StepsKept
    BY StepsKeptNext
  <1>3. mem[v][i] \in {"COMPLETED", "FAILED", "CANCELLED"} => step'[i] = mem[v][i]
    BY <1>2 DEF PlanInv, CopiesLag, StepsKept
  <1>4. Copies(v)
    BY WorkersPass
  <1>5. CASE mem'[v] = mem[v]
    BY <1>3, <1>5
  <1>6. CASE mem'[v] = step /\ step' = step
    BY <1>6
  <1>7. CASE mem'[v] = [j \in Steps |-> "PENDING"]
    BY <1>7
  <1>8. CASE mem'[v] = [mem[v] EXCEPT ![cur[v]] = "RUNNING"]
    BY <1>1, <1>3, <1>8
  <1>9. CASE /\ cur[v] + 1 \in Steps
             /\ mem'[v] = [mem[v] EXCEPT ![cur[v]] = "COMPLETED", ![cur[v] + 1] = "RUNNING"]
             /\ step'[cur[v]] = "COMPLETED"
    BY <1>1, <1>3, <1>9 DEF Steps
  <1> QED
    BY <1>4, <1>5, <1>6, <1>7, <1>8, <1>9 DEF Copies

\* The loop leaves completed steps behind.
LEMMA BehindNext ==
    ASSUME TypeOK, PlanInv, [Next]_vars
    PROVE  Behind'
  <1> SUFFICES ASSUME NEW v \in Workers, NEW i \in Steps, i < cur'[v]
               PROVE  mem'[v][i] = "COMPLETED"
    BY DEF Behind
  <1>1. mem[v] \in [Steps -> StepState] /\ cur[v] \in Steps /\ i \in Nat /\ i >= 1
    BY DEF TypeOK, WorkersTyped, Steps
  <1>2. i < cur[v] => mem[v][i] = "COMPLETED"
    BY DEF PlanInv, Behind
  <1>3. Copies(v)
    BY WorkersPass
  <1>4. cur'[v] # 1
    BY <1>1
  <1>5. CASE mem'[v] = mem[v] /\ cur'[v] = cur[v]
    BY <1>2, <1>5
  <1>6. CASE mem'[v] = mem[v] /\ mem[v][cur[v]] = "COMPLETED" /\ cur'[v] = cur[v] + 1
    <2>1. i < cur[v] \/ i = cur[v]
      BY <1>1, <1>6 DEF Steps
    <2> QED
      BY <1>2, <1>6, <2>1
  <1>7. CASE mem'[v] = [mem[v] EXCEPT ![cur[v]] = "RUNNING"] /\ cur'[v] = cur[v]
    BY <1>1, <1>2, <1>7 DEF Steps
  <1>8. CASE /\ mem'[v] = [mem[v] EXCEPT ![cur[v]] = "COMPLETED", ![cur[v] + 1] = "RUNNING"]
             /\ cur[v] + 1 \in Steps /\ cur'[v] = cur[v] + 1
    <2>1. i < cur[v] \/ i = cur[v]
      BY <1>1, <1>8 DEF Steps
    <2>2. i # cur[v] + 1
      BY <1>1, <2>1 DEF Steps
    <2> QED
      BY <1>1, <1>2, <1>8, <2>1, <2>2
  <1> QED
    BY <1>3, <1>4, <1>5, <1>6, <1>7, <1>8 DEF Copies

\* A tool takes effect behind completed steps.
LEMMA OrderNext ==
    ASSUME TypeOK, PlanInv, [Next]_vars
    PROVE  StepsInOrder'
  <1> SUFFICES ASSUME NEW i \in Steps, NEW j \in Steps, i < j, effects'[j] > 0
               PROVE  step'[i] = "COMPLETED"
    BY DEF StepsInOrder
  <1>1. StepsKept /\ WorldStep
    BY StepsKeptNext, WorldSteps
  <1>2. step[i] = "COMPLETED" => step'[i] = "COMPLETED"
    BY <1>1 DEF StepsKept
  <1>3. CASE effects' = effects
    BY <1>2, <1>3 DEF PlanInv, StepsInOrder
  <1>4. ASSUME NEW w \in Workers, ToolSucceeds(w) PROVE step[i] = "COMPLETED"
    <2>1. effects \in [Steps -> 0..2]
      BY DEF TypeOK, StepsTyped
    <2>2. CASE cur[w] = j
      <3>1. mem[w][i] = "COMPLETED"
        BY <2>2 DEF PlanInv, Behind
      <3> QED
        BY <3>1 DEF PlanInv, CopiesLag
    <2>3. CASE cur[w] # j
      <3>1. effects'[j] = effects[j]
        BY <1>4, <2>1, <2>3 DEF ToolSucceeds
      <3> QED
        BY <3>1 DEF PlanInv, StepsInOrder
    <2> QED
      BY <2>2, <2>3
  <1> QED
    BY <1>1, <1>2, <1>3, <1>4 DEF WorldStep

\* A loop at the last step, with that one completed too, has them all.
LEMMA LastCompletes ==
    ASSUME TypeOK, PlanInv, NEW w \in Workers, cur[w] = NSteps,
           NEW i \in Steps, i # NSteps
    PROVE  step[i] = "COMPLETED"
  <1>1. i < cur[w]
    BY NStepsAssumption DEF Steps
  <1>2. mem[w][i] = "COMPLETED"
    BY <1>1 DEF PlanInv, Behind
  <1> QED
    BY <1>2 DEF PlanInv, CopiesLag

\* Execution is left towards the verifier only with every step completed.
LEMMA RanNext ==
    ASSUME TypeOK, Fresh, PlanInv, [Next]_vars
    PROVE  PlanRan'
  <1>1. StepsKept /\ WorldStep /\ NSteps \in Steps
    BY StepsKeptNext, WorldSteps, NStepsAssumption DEF Steps
  <1>2. AllComplete => AllComplete'
    BY <1>1 DEF StepsKept, AllComplete
  <1>3. FlowSame \/ FlowWrite
    BY FlowWrites DEF FlowSame, vars
  <1>4. status' \in {"VERIFYING", "DONE"} => status \in {"OBSERVING", "VERIFYING", "DONE"}
    BY <1>3 DEF FlowSame, FlowWrite, CheckTaskTransition, TASK_TRANSITIONS, TERMINAL_STATES
  <1>5. ASSUME status' = "OBSERVING" PROVE AllComplete'
    <2>1. CASE status = "OBSERVING"
      BY <1>2, <2>1 DEF PlanInv, PlanRan
    <2>2. ASSUME NEW w \in Workers, pc[w] = "cas", tgt[w] = "OBSERVING" PROVE AllComplete'
      BY <1>2, <2>2 DEF PlanInv, PlanRan
    <2>3. ASSUME NEW w \in Workers, cur[w] = NSteps,
                 step' = [step EXCEPT ![NSteps] = "COMPLETED"]
          PROVE  AllComplete'
      <3>1. step \in [Steps -> StepState]
        BY DEF TypeOK, StepsTyped
      <3>2. ASSUME NEW i \in Steps PROVE step'[i] = "COMPLETED"
        BY <1>1, <2>3, <3>1, LastCompletes
      <3> QED
        BY <3>2 DEF AllComplete
    <2> QED
      BY <1>1, <1>5, <2>1, <2>2, <2>3 DEF WorldStep
  <1>6. ASSUME NEW v \in Workers, pc'[v] = "cas", tgt'[v] = "OBSERVING" PROVE AllComplete'
    <2>1. Gates(v)
      BY WorkersPass
    <2>2. CASE pc[v] = "cas" /\ tgt'[v] = tgt[v]
      BY <1>2, <1>6, <2>2 DEF PlanInv, PlanRan
    <2>3. CASE step' = step /\ cur[v] = NSteps /\ mem[v][NSteps] = "COMPLETED"
      <3>1. step[NSteps] = "COMPLETED"
        BY <1>1, <2>3 DEF PlanInv, CopiesLag
      <3>2. AllComplete
        BY <2>3, <3>1, LastCompletes DEF AllComplete
      <3> QED
        BY <1>2, <3>2
    <2> QED
      BY <1>6, <2>1, <2>2, <2>3 DEF Gates
  <1> QED
    BY <1>2, <1>4, <1>5, <1>6 DEF PlanInv, PlanRan

LEMMA PlanNext == TypeOK /\ Fresh /\ PlanInv /\ [Next]_vars => PlanInv'
  BY CopiesLagNext, BehindNext, OrderNext, RanNext DEF PlanInv

\* Nobody acts without the approval and the classifier's consent.
LEMMA AuthorityNext ==
    ASSUME TypeOK, AuthorityInv, [Next]_vars
    PROVE  AuthorityInv'
  <1>1. WorldStep
    BY WorldSteps
  <1>2. profile' = profile /\ (Authorised => Authorised')
    BY <1>1 DEF WorldStep
  <1>3. ASSUME NEW v \in Workers
        PROVE  /\ pc'[v] \in BehindApproval => Authorised'
               /\ pc'[v] \in BehindClassifier => ~profile'.sensitive
               /\ pc'[v] = "cas" => tgt'[v] # "TOOL_EXECUTING"
    <2>1. Gates(v)
      BY WorkersPass
    <2> QED
      BY <1>2, <2>1 DEF Gates, AuthorityInv
  <1>4. status' = "TOOL_EXECUTING" => Authorised'
    <2>1. ASSUME NEW w \in Workers, pc[w] = "dispatch" PROVE Authorised
      BY <2>1 DEF AuthorityInv, BehindApproval
    <2>2. ASSUME NEW w \in Workers, pc[w] = "cas" PROVE tgt[w] # "TOOL_EXECUTING"
      BY <2>2 DEF AuthorityInv
    <2>3. status = "TOOL_EXECUTING" => Authorised
      BY DEF AuthorityInv
    <2> QED
      BY <1>1, <1>2, <2>1, <2>2, <2>3 DEF WorldStep
  <1>5. ExecutionIsAuthorised'
    <2>1. SUFFICES ASSUME NEW i \in Steps, effects'[i] > 0
                   PROVE  ~profile'.sensitive /\ Authorised'
      BY DEF ExecutionIsAuthorised, Authorised
    <2>2. CASE effects' = effects
      <3>1. ~profile.sensitive /\ Authorised
        BY <2>1, <2>2 DEF AuthorityInv, ExecutionIsAuthorised, Authorised
      <3> QED
        BY <1>2, <3>1
    <2>3. ASSUME NEW w \in Workers, ToolSucceeds(w) PROVE ~profile.sensitive /\ Authorised
      BY <2>3 DEF ToolSucceeds, AuthorityInv, BehindApproval, BehindClassifier
    <2> QED
      BY <1>1, <1>2, <2>2, <2>3 DEF WorldStep
  <1> QED
    BY <1>3, <1>4, <1>5 DEF AuthorityInv

\* An outcome that was seen stays the outcome.
LEMMA OutcomeNext ==
    ASSUME TypeOK, Fresh, OutcomeInv, [Next]_vars
    PROVE  OutcomeInv'
  <1>1. FlowSame \/ FlowWrite
    BY FlowWrites DEF FlowSame, vars
  <1>2. status \in {"DONE", "CANCELLED"} => status' = status
    BY <1>1 DEF FlowSame, FlowWrite, CheckTaskTransition, TERMINAL_STATES
  <1>3. ASSUME NEW v \in Workers, st'[v] \in {"DONE", "CANCELLED"} PROVE status' = st'[v]
    <2>1. Gates(v)
      BY WorkersPass
    <2> QED
      BY <1>2, <1>3, <2>1 DEF Gates, OutcomeInv
  <1>4. ASSUME jobStatus' \in {"DONE", "CANCELLED"} PROVE status' = jobStatus'
    <2>1. jobStatus' = jobStatus \/ \E w \in Workers : st[w] = jobStatus'
      BY <1>4, WorldSteps DEF WorldStep
    <2> QED
      BY <1>2, <1>4, <2>1 DEF OutcomeInv, JobTellsOutcome
  <1> QED
    BY <1>3, <1>4 DEF OutcomeInv, JobTellsOutcome

-----------------------------------------------------------------------------
\* The three invariants hold throughout.
THEOREM PlanInvariant == Spec => [](PlanInv /\ AuthorityInv /\ OutcomeInv)
  <1>1. TypeOK /\ Fresh /\ AuthorityInv /\ [Next]_vars => AuthorityInv'
    BY AuthorityNext
  <1>2. TypeOK /\ Fresh /\ OutcomeInv /\ [Next]_vars => OutcomeInv'
    BY OutcomeNext
  <1> QED
    BY PlanInit, PlanNext, <1>1, <1>2, FreshInvariant, PTL DEF Spec

\* A step takes effect only behind completed steps, for every number of
\* workers that run the plan at once (_recover_or_execute, _persist_artifact).
THEOREM StepsInOrderHolds == Spec => []StepsInOrder
  <1>1. PlanInv => StepsInOrder
    BY DEF PlanInv
  <1> QED
    BY PlanInvariant, <1>1, PTL

\* DONE means that the whole plan ran and no cancellation was accepted,
\* although the verifier that writes it reads no step row again (verify).
THEOREM DoneIsCompleteHolds == Spec => []DoneIsComplete
  <1>1. Fresh /\ PlanInv => DoneIsComplete
    BY DEF Fresh, PlanInv, PlanRan, AllComplete, DoneIsComplete
  <1> QED
    BY PlanInvariant, FreshInvariant, <1>1, PTL

\* No tool takes effect without the policy's or an owner's authority, nor one
\* the safety classifier blocks (_verify_and_consume_approval,
\* _block_sensitive_execution).
THEOREM ExecutionIsAuthorisedHolds == Spec => []ExecutionIsAuthorised
  <1>1. AuthorityInv => ExecutionIsAuthorised
    BY DEF AuthorityInv
  <1> QED
    BY PlanInvariant, <1>1, PTL

\* A job row that names the flow's end names the one the flow has, whoever
\* wrote the row last (finish, _handle_worker_failure).
THEOREM JobTellsOutcomeHolds == Spec => []JobTellsOutcome
  <1>1. OutcomeInv => JobTellsOutcome
    BY DEF OutcomeInv
  <1> QED
    BY PlanInvariant, <1>1, PTL

-----------------------------------------------------------------------------
(***************************************************************************)
(* One worker at a time, as long as guard threads do not stall.            *)
(***************************************************************************)

\* Workers with a claim, and those of them that may go on to run the flow.
Claimed(w) == pc[w] \notin {"idle", "claim", "sweep", "orphan", "putback"}
Engaged(w) == pc[w] = "acquire" \/ InRun(w)

\* The holder of a claim owns a RUNNING job whose lease its guard renews.
HoldsJob(w) ==
    /\ jobOwner = w /\ jobStatus = "RUNNING" /\ jobLive
    /\ pc[w] # "start" => guard[w]

\* While a worker holds a claim, or the job is not to be had, no claim in
\* progress has seen its lease expire.
ClaimExcludes ==
    /\ \A w \in Workers : Claimed(w) => HoldsJob(w)
    /\ (\E w \in Workers : Claimed(w)) \/ jobStatus \in {"DONE", "WAITING"} =>
          \A w \in Workers : ~late[w]

\* Unless the job was put back under its worker: until a cancellation is
\* accepted, the claim excludes others; after it nobody sets out to run the
\* flow any more.
ExclusionInv ==
    ~overwritten =>
        /\ \A v, w \in Workers : Engaged(v) /\ Engaged(w) => v = w
        /\ ~cancelRequested => ClaimExcludes

\* Only a worker with a claim on a flow that is not cancelled sets out.
LEMMA EngageStep ==
    ASSUME TypeOK, [Next]_vars, NEW v \in Workers, Engaged(v)'
    PROVE  Engaged(v) \/ (pc[v] = "start" /\ ~cancelRequested)
  <1> USE DEF Engaged, InRun
  <1>0. pc \in [Workers -> WorkerPC]
    BY DEF TypeOK, WorkersTyped
  <1>1. CASE ~\E w \in Workers : w = v /\ (WorkerStep(w) \/ SweepStep(w) \/ WorkerFault(w)
                                             \/ GuardBeat(w))
    BY <1>1, OthersUntouched DEF Untouched
  <1>2. CASE SweepStep(v) \/ GuardBeat(v)
    BY <1>0, <1>2 DEF SweepStep, SweepSelect, SweepOrphan, SweepContinues, SweepFail, EnqueueOrphan,
        RequeueOrphan, GuardBeat, Goto
  <1>3. CASE WorkerFault(v)
    BY <1>0, <1>3 DEF WorkerFault, ToolFails, Crash, WorkerRaises, Idle, Goto
  <1>4. CASE WorkerStep(v)
    <2>1. CASE ClaimSelect(v) \/ ClaimUpdate(v) \/ RunStart(v) \/ AcquireLease(v)
      BY <1>0, <2>1 DEF ClaimSelect, ClaimUpdate, RunStart, AcquireLease, Goto
    <2>2. CASE FinishJob(v) \/ HandleFailure(v)
      BY <1>0, <2>2 DEF FinishJob, HandleFailure, Idle, Goto
    <2>3. CASE \/ ResumeLoad(v) \/ CasCommit(v) \/ ResumeQueued(v) \/ ResumePlanning(v)
               \/ ResumeWaiting(v) \/ ApprovalTimeout(v) \/ ConsumeApproval(v)
               \/ Dispatch(v) \/ EnterExec(v) \/ ReleaseLease(v)
      BY <2>3
      DEF ResumeLoad, CasCommit, ResumeQueued, ResumePlanning, ResumeWaiting,
          ApprovalTimeout, ConsumeApproval, Dispatch, EnterExec, ReleaseLease
    <2>4. CASE \/ BlockSensitive(v) \/ SkipCompleted(v) \/ StopAtFailed(v)
               \/ BeginPendingStep(v) \/ RecoverOperation(v) \/ StartOperation(v)
               \/ ToolSucceeds(v) \/ RecordApplied(v) \/ RetryStep(v) \/ FailStep(v)
               \/ ToolCancelled(v) \/ PersistStep(v) \/ PersistLast(v)
               \/ ResumeObserving(v) \/ AfterVerify(v)
      BY <2>4
      DEF BlockSensitive, SkipCompleted, StopAtFailed, BeginPendingStep, RecoverOperation,
          AtOperation, StartOperation, ToolSucceeds, RecordApplied, RetryStep, FailStep,
          ToolCancelled, PersistStep, PersistLast, ResumeObserving, AfterVerify
    <2> QED
      BY <1>4, <2>1, <2>2, <2>3, <2>4 DEF WorkerStep
  <1> QED
    BY <1>1, <1>2, <1>3, <1>4

\* A step that leaves the job and the claims in progress alone, takes no
\* claim and stops no guard.
Quiet ==
    /\ UNCHANGED <<jobStatus, jobOwner, jobLive, late, cancelRequested>>
    /\ \A w \in Workers :
          Claimed(w)' => /\ Claimed(w)
                         /\ \/ guard'[w]
                            \/ guard'[w] = guard[w] /\ pc[w] # "start"
                            \/ guard'[w] = guard[w] /\ pc'[w] = pc[w]

LEMMA QuietKeeps ==
    ASSUME ClaimExcludes, Quiet
    PROVE  ClaimExcludes'
  BY DEF Quiet, ClaimExcludes, HoldsJob

\* A step at a program point behind the claim, with its guard left alone.
LEMMA RunsQuietly ==
    ASSUME TypeOK, NEW w \in Workers, Claimed(w), pc[w] # "start",
           UNCHANGED <<jobStatus, jobOwner, jobLive, late, cancelRequested, guard>>,
           \A v \in Workers \ {w} : pc'[v] = pc[v]
    PROVE  Quiet
  BY DEF Quiet, Claimed

\* The steps of a run are quiet.
LEMMA RunQuiet ==
    ASSUME TypeOK, NEW w \in Workers,
           WorkerStep(w), ~ClaimSelect(w), ~ClaimUpdate(w), ~FinishJob(w), ~HandleFailure(w)
    PROVE  Quiet
  <1>0. pc \in [Workers -> WorkerPC] /\ guard \in [Workers -> BOOLEAN]
    BY DEF TypeOK, WorkersTyped
  <1>1. CASE RunStart(w)
    BY <1>0, <1>1 DEF RunStart, DbUnchanged, Quiet, Claimed, Goto
  <1>2. CASE ~RunStart(w)
    <2>1. Claimed(w) /\ pc[w] # "start"
      BY <1>2
      DEF WorkerStep, Claimed, AcquireLease, ResumeLoad, CasCommit, ResumeQueued,
          ResumePlanning, ResumeWaiting, ApprovalTimeout, ConsumeApproval, Dispatch,
          EnterExec, BlockSensitive, SkipCompleted, StopAtFailed, BeginPendingStep,
          RecoverOperation, AtOperation, StartOperation, ToolSucceeds, RecordApplied,
          RetryStep, FailStep, ToolCancelled, PersistStep, PersistLast, ResumeObserving,
          AfterVerify, ReleaseLease
    <2>2. UNCHANGED <<jobStatus, jobOwner, jobLive, late, cancelRequested, guard>>
      <3>1. CASE \/ AcquireLease(w) \/ ResumeLoad(w) \/ CasCommit(w) \/ ResumeQueued(w)
                 \/ ResumePlanning(w) \/ ResumeWaiting(w) \/ ApprovalTimeout(w)
                 \/ ConsumeApproval(w) \/ Dispatch(w) \/ EnterExec(w) \/ ReleaseLease(w)
        BY <3>1
        DEF AcquireLease, ResumeLoad, CasCommit, ResumeQueued, ResumePlanning,
            ResumeWaiting, ApprovalTimeout, ConsumeApproval, Dispatch, EnterExec,
            ReleaseLease, DbUnchanged, Begin
      <3>2. CASE \/ BlockSensitive(w) \/ FailStep(w) \/ PersistLast(w)
        BY <3>2 DEF BlockSensitive, FailStep, PersistLast, FinishStepAndMove
      <3>3. CASE \/ SkipCompleted(w) \/ StopAtFailed(w) \/ BeginPendingStep(w)
                 \/ RecoverOperation(w) \/ StartOperation(w) \/ ToolSucceeds(w)
                 \/ RecordApplied(w) \/ RetryStep(w) \/ ToolCancelled(w)
                 \/ PersistStep(w) \/ ResumeObserving(w) \/ AfterVerify(w)
        BY <3>3
        DEF SkipCompleted, StopAtFailed, BeginPendingStep, RecoverOperation,
            StartOperation, ToolSucceeds, RecordApplied, RetryStep, ToolCancelled,
            PersistStep, ResumeObserving, AfterVerify, DbUnchanged, Begin
      <3> QED
        BY <1>2, <3>1, <3>2, <3>3 DEF WorkerStep
    <2>3. \A v \in Workers \ {w} : pc'[v] = pc[v]
      <3>1. CASE \/ AcquireLease(w) \/ ResumeLoad(w) \/ CasCommit(w) \/ ResumeQueued(w)
                 \/ ResumePlanning(w) \/ ResumeWaiting(w) \/ ApprovalTimeout(w)
                 \/ ConsumeApproval(w) \/ Dispatch(w) \/ EnterExec(w) \/ ReleaseLease(w)
        BY <1>0, <3>1
        DEF AcquireLease, ResumeLoad, CasCommit, ResumeQueued, ResumePlanning,
            ResumeWaiting, ApprovalTimeout, ConsumeApproval, Dispatch, EnterExec,
            ReleaseLease, Begin, Goto
      <3>2. CASE \/ BlockSensitive(w) \/ FailStep(w) \/ PersistLast(w)
        BY <1>0, <3>2 DEF BlockSensitive, FailStep, PersistLast, FinishStepAndMove, Goto
      <3>3. CASE \/ SkipCompleted(w) \/ StopAtFailed(w) \/ BeginPendingStep(w)
                 \/ RecoverOperation(w) \/ StartOperation(w) \/ ToolSucceeds(w)
                 \/ RecordApplied(w) \/ RetryStep(w) \/ ToolCancelled(w)
                 \/ PersistStep(w) \/ ResumeObserving(w) \/ AfterVerify(w)
        BY <1>0, <3>3
        DEF SkipCompleted, StopAtFailed, BeginPendingStep, RecoverOperation,
            StartOperation, ToolSucceeds, RecordApplied, RetryStep, ToolCancelled,
            PersistStep, ResumeObserving, AfterVerify, Begin, Goto
      <3> QED
        BY <1>2, <3>1, <3>2, <3>3 DEF WorkerStep
    <2> QED
      BY <2>1, <2>2, <2>3, RunsQuietly
  <1> QED
    BY <1>1, <1>2

\* The job row of a claim is not to be had by anybody else.
LEMMA ClaimNext ==
    ASSUME TypeOK, ClaimExcludes, ~overwritten', ~cancelRequested', [Next]_vars,
           ~cancelRequested, "stall" \notin Faults
    PROVE  ClaimExcludes'
  <1>0. /\ pc \in [Workers -> WorkerPC] /\ guard \in [Workers -> BOOLEAN]
        /\ late \in [Workers -> BOOLEAN]
        /\ \A w \in Workers : Claimed(w) => HoldsJob(w)
        /\ \A v, w \in Workers : Claimed(v) /\ Claimed(w) => v = w
    BY DEF TypeOK, WorkersTyped, ClaimExcludes, HoldsJob
  <1>1. ASSUME \A w \in Workers : ~Claimed(w)', jobStatus' \notin {"DONE", "WAITING"}
        PROVE  ClaimExcludes'
    BY <1>1 DEF ClaimExcludes
  <1>11. ASSUME EnqueueNew \/ PutBack, \A w \in Workers : Claimed(w)' => Claimed(w)
         PROVE  ClaimExcludes'
    <2>1. jobStatus # "RUNNING" /\ jobStatus' = "QUEUED"
      BY <1>11 DEF EnqueueNew, PutBack
    <2> QED
      BY <1>0, <1>1, <1>11, <2>1 DEF HoldsJob
  <1>2. CASE SubmitStep
    <2>1. CASE SubmitEnqueue /\ EnqueueNew
      BY <1>11, <2>1 DEF SubmitEnqueue, Claimed
    <2>2. CASE SubmitRequeue
      BY <1>11, <2>2 DEF SubmitRequeue, Claimed
    <2>3. CASE ~(SubmitEnqueue /\ EnqueueNew) /\ ~SubmitRequeue
      BY <1>2, <2>3, QuietKeeps
      DEF SubmitStep, SubmitEnqueue, SubmitCriteriaFail, SubmitCrash, Quiet, Claimed
    <2> QED
      BY <2>1, <2>2, <2>3
  <1>3. ASSUME NEW r \in Requests, RequestStep(r) PROVE ClaimExcludes'
    <2>1. CASE DecideEnqueueWrite(r)
      BY <1>11, <2>1 DEF DecideEnqueueWrite, Claimed
    <2>2. CASE \/ CancelLoad(r) \/ CancelWrite(r) \/ DecideLoad(r) \/ DecideWrite(r)
               \/ DecideEnqueueLoad(r)
      BY <2>2, QuietKeeps
      DEF CancelLoad, CancelWrite, DecideLoad, DecideWrite, DecideEnqueueLoad, Quiet, Claimed
    <2> QED
      BY <1>3, <2>1, <2>2 DEF RequestStep
  <1>4. ASSUME NEW w \in Workers, SweepStep(w) PROVE ClaimExcludes'
    <2>1. CASE (EnqueueOrphan(w) /\ EnqueueNew) \/ RequeueOrphan(w)
      <3>1. \A v \in Workers : Claimed(v)' => Claimed(v)
        BY <1>0, <2>1 DEF EnqueueOrphan, EnqueueNew, RequeueOrphan, Claimed, Goto
      <3> QED
        BY <1>11, <2>1, <3>1 DEF RequeueOrphan
    <2>2. CASE SweepSelect(w) \/ SweepFail(w) \/ SweepOrphan(w)
      BY <1>0, <2>2, QuietKeeps
      DEF SweepSelect, SweepFail, SweepOrphan, DbUnchanged, Goto, Quiet, Claimed
    <2>3. CASE EnqueueOrphan(w) /\ ~EnqueueNew
      BY <1>0, <2>3, QuietKeeps DEF EnqueueOrphan, Goto, Quiet, Claimed
    <2> QED
      BY <1>4, <2>1, <2>2, <2>3 DEF SweepStep, SweepContinues
  <1>5. ASSUME NEW w \in Workers, WorkerFault(w) PROVE ClaimExcludes'
    <2>1. CASE ToolFails(w) \/ WorkerRaises(w)
      BY <1>0, <2>1, QuietKeeps
      DEF ToolFails, WorkerRaises, DbUnchanged, Goto, Quiet, Claimed
    <2>2. CASE Crash(w)
      <3>1. /\ \A v \in Workers \ {w} : pc'[v] = pc[v] /\ guard'[v] = guard[v]
            /\ pc'[w] = "idle" /\ jobStatus' = jobStatus /\ jobLive' = jobLive
            /\ jobOwner' = (IF jobOwner = w THEN Ghost ELSE jobOwner)
            /\ \A v \in Workers : late'[v] => late[v]
        BY <1>0, <2>2 DEF Crash, Idle, Goto
      <3> QED
        BY <3>1 DEF ClaimExcludes, HoldsJob, Claimed
    <2> QED
      BY <1>5, <2>1, <2>2 DEF WorkerFault
  <1>6. ASSUME NEW w \in Workers, GuardBeat(w) PROVE ClaimExcludes'
    <2>1. CASE jobOwner = w /\ jobStatus = "RUNNING"
      BY <1>0, <1>6, <2>1 DEF GuardBeat, ClaimExcludes, HoldsJob, Claimed
    <2>2. CASE ~(jobOwner = w /\ jobStatus = "RUNNING")
      <3>1. ~Claimed(w) /\ guard' = [guard EXCEPT ![w] = FALSE] /\ pc' = pc
        BY <1>0, <1>6, <2>2 DEF GuardBeat, HoldsJob
      <3>2. UNCHANGED <<jobStatus, jobOwner, jobLive, late>>
        BY <1>6, <2>2 DEF GuardBeat
      <3> QED
        BY <1>0, <3>1, <3>2 DEF ClaimExcludes, HoldsJob, Claimed
    <2> QED
      BY <2>1, <2>2
  <1>7. ASSUME NEW w \in Workers, WorkerStep(w) PROVE ClaimExcludes'
    <2>1. CASE ClaimSelect(w)
      <3>1. /\ \A v \in Workers \ {w} : pc'[v] = pc[v] /\ late'[v] = late[v]
            /\ pc'[w] = "claim" /\ late'[w] = JobLeaseExpired /\ guard' = guard
            /\ UNCHANGED <<jobStatus, jobOwner, jobLive>>
        BY <1>0, <2>1 DEF ClaimSelect, Goto
      <3>2. (\E v \in Workers : Claimed(v)) \/ jobStatus \in {"DONE", "WAITING"}
               => ~JobLeaseExpired
        BY <1>0, <2>1 DEF ClaimSelect, Candidate, HoldsJob, JobLeaseExpired
      <3>3. \A v \in Workers : Claimed(v)' => Claimed(v) /\ v # w
        BY <3>1 DEF Claimed
      <3> QED
        BY <3>1, <3>2, <3>3 DEF ClaimExcludes, HoldsJob
    <2>2. CASE ClaimUpdate(w)
      <3>1. CASE Claimable(w)
        <4>1. \A v \in Workers : ~Claimed(v)
          BY <1>0, <3>1 DEF Claimable, JobLeaseExpired, HoldsJob
        <4>2. \A v \in Workers : Claimed(v)' => v = w
          BY <1>0, <2>2, <4>1 DEF ClaimUpdate, Claimed, Goto
        <4>3. /\ pc'[w] = "start" /\ jobOwner' = w /\ jobStatus' = "RUNNING" /\ jobLive'
              /\ \A v \in Workers : ~late'[v]
          BY <1>0, <2>2, <3>1 DEF ClaimUpdate, Goto
        <4> QED
          BY <4>2, <4>3 DEF ClaimExcludes, HoldsJob
      <3>2. CASE ~Claimable(w)
        <4>1. /\ UNCHANGED <<jobStatus, jobOwner, jobLive, guard>>
              /\ \A v \in Workers : late'[v] => late[v]
              /\ \A v \in Workers \ {w} : pc'[v] = pc[v]
              /\ pc'[w] = "idle"
          BY <1>0, <2>2, <3>2 DEF ClaimUpdate, Goto
        <4> QED
          BY <4>1 DEF ClaimExcludes, HoldsJob, Claimed
      <3> QED
        BY <3>1, <3>2
    <2>3. CASE FinishJob(w) \/ HandleFailure(w)
      <3>1. Claimed(w) /\ late' = late
        BY <2>3 DEF FinishJob, HandleFailure, Claimed
      <3>2. pc'[w] = "idle" /\ \A v \in Workers \ {w} : pc'[v] = pc[v]
        BY <1>0, <2>3 DEF FinishJob, HandleFailure, Idle, Goto
      <3>3. \A v \in Workers : ~Claimed(v)'
        BY <1>0, <3>1, <3>2 DEF Claimed
      <3> QED
        BY <3>1, <3>3 DEF ClaimExcludes
    <2> QED
      BY <1>7, <2>1, <2>2, <2>3, RunQuiet, QuietKeeps
  <1>8. CASE VerifierStep \/ TaskLeaseExpires
    BY <1>8, QuietKeeps
    DEF VerifierStep, VerifierRead, VerifierDone, VerifierReject, TaskLeaseExpires, Quiet,
        Claimed
  <1>9. CASE JobLeaseExpires
    <2>1. \A v \in Workers : ~Claimed(v)
      BY <1>0, <1>9, NoneAssumption DEF JobLeaseExpires, MayLapse, HoldsJob
    <2> QED
      BY <1>9, <2>1 DEF JobLeaseExpires, ClaimExcludes, Claimed
  <1>10. CASE UNCHANGED vars
    BY <1>10, QuietKeeps DEF vars, Quiet, Claimed
  <1> QED
    BY <1>2, <1>3, <1>4, <1>5, <1>6, <1>7, <1>8, <1>9, <1>10 DEF Next, LeaseStep

\* A cancellation, once accepted, stays.
LEMMA CancelStays ==
    ASSUME TypeOK, Fresh, [Next]_vars, cancelRequested
    PROVE  cancelRequested'
  <1>1. FlowSame \/ FlowWrite
    BY FlowWrites DEF FlowSame, vars
  <1> QED
    BY <1>1 DEF FlowSame, FlowWrite

\* So does the mark of a put-back under a worker.
LEMMA OverwrittenStays ==
    ASSUME TypeOK, [Next]_vars, overwritten
    PROVE  overwritten'
  <1>1. CASE SubmitStep
    BY <1>1
    DEF SubmitStep, SubmitEnqueue, SubmitRequeue, SubmitCriteriaFail, SubmitCrash,
        EnqueueNew, PutBack
  <1>2. ASSUME NEW r \in Requests, RequestStep(r) PROVE overwritten'
    BY <1>2
    DEF RequestStep, CancelLoad, CancelWrite, DecideLoad, DecideWrite, DecideEnqueueLoad,
        DecideEnqueueWrite, PutBack
  <1>3. ASSUME NEW w \in Workers, SweepStep(w) \/ WorkerFault(w) \/ GuardBeat(w)
        PROVE  overwritten'
    BY <1>3
    DEF SweepStep, SweepSelect, SweepOrphan, SweepContinues, SweepFail, EnqueueOrphan,
        RequeueOrphan, EnqueueNew, PutBack, WorkerFault, ToolFails, Crash, WorkerRaises,
        GuardBeat, DbUnchanged
  <1>4. ASSUME NEW w \in Workers, WorkerStep(w) PROVE overwritten'
    <2>1. CASE \/ AcquireLease(w) \/ ResumeLoad(w) \/ CasCommit(w) \/ ResumeQueued(w)
               \/ ResumePlanning(w) \/ ResumeWaiting(w) \/ ApprovalTimeout(w)
               \/ ConsumeApproval(w) \/ Dispatch(w) \/ EnterExec(w) \/ ReleaseLease(w)
               \/ ClaimSelect(w) \/ ClaimUpdate(w) \/ RunStart(w)
      BY <2>1
      DEF AcquireLease, ResumeLoad, CasCommit, ResumeQueued, ResumePlanning,
          ResumeWaiting, ApprovalTimeout, ConsumeApproval, Dispatch, EnterExec,
          ReleaseLease, DbUnchanged, ClaimSelect, ClaimUpdate, RunStart
    <2>2. CASE \/ BlockSensitive(w) \/ FailStep(w) \/ PersistLast(w)
      BY <2>2 DEF BlockSensitive, FailStep, PersistLast, FinishStepAndMove
    <2>3. CASE \/ SkipCompleted(w) \/ StopAtFailed(w) \/ BeginPendingStep(w)
               \/ RecoverOperation(w) \/ StartOperation(w) \/ ToolSucceeds(w)
               \/ RecordApplied(w) \/ RetryStep(w) \/ ToolCancelled(w)
               \/ PersistStep(w) \/ ResumeObserving(w) \/ AfterVerify(w)
               \/ FinishJob(w) \/ HandleFailure(w)
      BY <2>3
      DEF SkipCompleted, StopAtFailed, BeginPendingStep, RecoverOperation,
          StartOperation, ToolSucceeds, RecordApplied, RetryStep, ToolCancelled,
          PersistStep, ResumeObserving, AfterVerify, DbUnchanged, FinishJob,
          HandleFailure
    <2> QED
      BY <1>4, <2>1, <2>2, <2>3 DEF WorkerStep
  <1>5. CASE VerifierStep \/ LeaseStep \/ UNCHANGED vars
    BY <1>5
    DEF VerifierStep, VerifierRead, VerifierDone, VerifierReject, LeaseStep,
        TaskLeaseExpires, JobLeaseExpires, vars
  <1> QED
    BY <1>1, <1>2, <1>3, <1>4, <1>5 DEF Next

LEMMA ExclusionNext ==
    ASSUME TypeOK, Fresh, ExclusionInv, [Next]_vars, "stall" \notin Faults
    PROVE  ExclusionInv'
  <1> SUFFICES ASSUME ~overwritten', ~overwritten PROVE ExclusionInv'
    BY OverwrittenStays DEF ExclusionInv
  <1>1. ~cancelRequested' => ClaimExcludes'
    BY ClaimNext, CancelStays DEF ExclusionInv
  <1>2. ASSUME NEW v \in Workers, NEW w \in Workers, Engaged(v)', Engaged(w)' PROVE v = w
    <2>1. \A u \in {v, w} : Engaged(u) \/ (pc[u] = "start" /\ ~cancelRequested)
      BY <1>2, EngageStep
    <2>2. CASE Engaged(v) /\ Engaged(w)
      BY <2>2 DEF ExclusionInv
    <2>3. CASE ~cancelRequested
      <3>1. Claimed(v) /\ Claimed(w)
        BY <2>1 DEF Engaged, InRun, Claimed
      <3> QED
        BY <2>3, <3>1 DEF ExclusionInv, ClaimExcludes, HoldsJob
    <2> QED
      BY <2>1, <2>2, <2>3
  <1> QED
    BY <1>1, <1>2 DEF ExclusionInv

LEMMA ExclusionInit == Init => ExclusionInv
  BY DEF Init, ExclusionInv, ClaimExcludes, Claimed, Engaged, InRun

-----------------------------------------------------------------------------
\* One worker at a time runs the flow, for any number of workers and
\* requests, in every behaviour in which no guard thread stalls and enqueue
\* puts no job back under the worker that runs it (DurableQueue.claim and
\* enqueue, ExecutionGuard._watch): kills, errors, cancellations, failing
\* tools and stale put-backs of a job nobody runs are all allowed.
THEOREM OneWorkerRunsHolds ==
    ASSUME "stall" \notin Faults
    PROVE  Spec => []OneWorkerRuns
  <1>1. TypeOK /\ Fresh /\ ExclusionInv /\ [Next]_vars => ExclusionInv'
    BY ExclusionNext
  <1>2. ExclusionInv => OneWorkerRuns
    BY DEF ExclusionInv, Engaged, OneWorkerRuns, RunsAlone
  <1> QED
    BY <1>1, <1>2, ExclusionInit, FreshInvariant, PTL DEF Spec

-----------------------------------------------------------------------------
(***************************************************************************)
(* Effects that can be read back.                                          *)
(***************************************************************************)

\* The tool of a step that can be read back is called only before its effect.
OnceInv ==
    \A i \in Recoverable :
        /\ effects[i] <= 1
        /\ \A w \in Workers : pc[w] = "tool" /\ cur[w] = i => effects[i] = 0

\* A tool is about to run because nothing showed that it had.
LEMMA ToolEntry ==
    ASSUME TypeOK, [Next]_vars, NEW v \in Workers, pc'[v] = "tool"
    PROVE  /\ cur'[v] = cur[v]
           /\ pc[v] = "tool" \/ ~Evidence(v)
  <1>0. pc \in [Workers -> WorkerPC]
    BY DEF TypeOK, WorkersTyped
  <1>1. CASE ~\E w \in Workers : w = v /\ (WorkerStep(w) \/ SweepStep(w) \/ WorkerFault(w)
                                             \/ GuardBeat(w))
    BY <1>1, OthersUntouched DEF Untouched
  <1>2. CASE SweepStep(v) \/ GuardBeat(v)
    BY <1>0, <1>2 DEF SweepStep, SweepSelect, SweepOrphan, SweepContinues, SweepFail, EnqueueOrphan,
        RequeueOrphan, GuardBeat, Goto
  <1>3. CASE WorkerFault(v)
    BY <1>0, <1>3 DEF WorkerFault, ToolFails, Crash, WorkerRaises, Idle, Goto
  <1>4. CASE WorkerStep(v)
    <2>1. CASE ClaimSelect(v) \/ ClaimUpdate(v) \/ RunStart(v) \/ AcquireLease(v)
      BY <1>0, <2>1 DEF ClaimSelect, ClaimUpdate, RunStart, AcquireLease, Goto
    <2>2. CASE FinishJob(v) \/ HandleFailure(v) \/ ReleaseLease(v)
      BY <1>0, <2>2 DEF FinishJob, HandleFailure, ReleaseLease, Idle, Goto
    <2>3. CASE \/ ResumeLoad(v) \/ CasCommit(v) \/ ResumeQueued(v) \/ ResumePlanning(v)
               \/ ResumeWaiting(v) \/ ApprovalTimeout(v) \/ ConsumeApproval(v)
               \/ Dispatch(v) \/ EnterExec(v)
      BY <1>0, <2>3
      DEF ResumeLoad, CasCommit, ResumeQueued, ResumePlanning, ResumeWaiting,
          ApprovalTimeout, ConsumeApproval, Dispatch, EnterExec, Begin, Goto
    <2>4. CASE BlockSensitive(v) \/ FailStep(v) \/ PersistLast(v)
      BY <1>0, <2>4 DEF BlockSensitive, FailStep, PersistLast, FinishStepAndMove, Goto
    <2>5. CASE \/ SkipCompleted(v) \/ StopAtFailed(v) \/ BeginPendingStep(v)
               \/ RecoverOperation(v) \/ ToolSucceeds(v) \/ RecordApplied(v)
               \/ RetryStep(v) \/ ToolCancelled(v) \/ PersistStep(v)
               \/ ResumeObserving(v) \/ AfterVerify(v)
      BY <1>0, <2>5
      DEF SkipCompleted, StopAtFailed, BeginPendingStep, RecoverOperation, ToolSucceeds,
          RecordApplied, RetryStep, ToolCancelled, PersistStep, ResumeObserving,
          AfterVerify, Begin, Goto
    <2>6. CASE StartOperation(v)
      BY <2>6 DEF StartOperation
    <2> QED
      BY <1>4, <2>1, <2>2, <2>3, <2>4, <2>5, <2>6 DEF WorkerStep
  <1> QED
    BY <1>1, <1>2, <1>3, <1>4

LEMMA OnceNext ==
    ASSUME TypeOK, OnceInv, RunsAlone, [Next]_vars
    PROVE  OnceInv'
  <1> SUFFICES ASSUME NEW i \in Recoverable
               PROVE  /\ effects'[i] <= 1
                      /\ \A w \in Workers : pc'[w] = "tool" /\ cur'[w] = i => effects'[i] = 0
    BY DEF OnceInv
  <1>1. /\ i \in Steps /\ effects \in [Steps -> 0..2] /\ effects[i] <= 1
        /\ \A w \in Workers : cur[w] \in Steps
        /\ pc \in [Workers -> WorkerPC]
    BY RecoverableAssumption DEF TypeOK, StepsTyped, WorkersTyped, OnceInv, Steps
  <1>2. ASSUME NEW w \in Workers, pc'[w] = "tool", cur'[w] = i PROVE effects[i] = 0
    <2>1. cur[w] = i /\ (pc[w] = "tool" \/ ~Evidence(w))
      BY <1>2, ToolEntry
    <2> QED
      BY <1>1, <2>1 DEF OnceInv, Evidence
  <1>3. CASE effects'[i] = effects[i]
    BY <1>1, <1>2, <1>3
  <1>4. ASSUME NEW w \in Workers, ToolSucceeds(w), effects'[i] # effects[i]
        PROVE  /\ effects'[i] <= 1
               /\ \A v \in Workers : ~(pc'[v] = "tool" /\ cur'[v] = i)
    <2>1. effects' = [effects EXCEPT ![cur[w]] = Min2(@ + 1, 2)] /\ pc[w] = "tool"
      BY <1>4 DEF ToolSucceeds
    <2>2. cur[w] = i
      BY <1>1, <1>4, <2>1
    <2>3. effects[i] = 0
      BY <2>1, <2>2 DEF OnceInv
    <2>4. effects'[i] = 1
      BY <1>1, <2>1, <2>2, <2>3 DEF Min2
    <2>5. pc' = [pc EXCEPT ![w] = "executed"]
      BY <1>4 DEF ToolSucceeds, Goto
    <2>6. \A v \in Workers : v # w => pc[v] # "tool"
      BY <2>1 DEF RunsAlone, InRun
    <2> QED
      BY <1>1, <2>4, <2>5, <2>6
  <1> QED
    BY <1>3, <1>4, WorldSteps DEF WorldStep

\* As long as one worker at a time runs the flow, an effect that can be read
\* back happens at most once, whatever kills the worker between the effect
\* and its record (_recover_or_execute).
THEOREM RecoverableOnceIfExclusive == Spec /\ []RunsAlone => []RecoverableAtMostOnce
  <1>1. Init => OnceInv
    BY RecoverableAssumption DEF Init, OnceInv, Steps
  <1>2. TypeOK /\ OnceInv /\ RunsAlone /\ [Next]_vars => OnceInv'
    BY OnceNext
  <1>3. OnceInv => RecoverableAtMostOnce
    BY DEF OnceInv, RecoverableAtMostOnce
  <1> QED
    BY <1>1, <1>2, <1>3, TypeCorrect, PTL DEF Spec

\* In particular where a single worker serves the queue, stalls included.
THEOREM RecoverableAtMostOnceHolds ==
    ASSUME \A v, w \in Workers : v = w
    PROVE  Spec => []RecoverableAtMostOnce
  <1>1. RunsAlone
    BY DEF RunsAlone
  <1>2. []RunsAlone
    BY <1>1, PTL
  <1> QED
    BY <1>2, RecoverableOnceIfExclusive, PTL
=============================================================================
