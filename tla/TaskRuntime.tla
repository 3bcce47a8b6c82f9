----------------------------- MODULE TaskRuntime -----------------------------
(***************************************************************************)
(* One task flow from its acceptance to its terminal state: the rows       *)
(* task_flows, flow_steps, approvals, durable_operations and queue_jobs,   *)
(* and every process that writes them - the submitting service, the        *)
(* gateway's cancel and decision requests, the workers (claim, lease,      *)
(* orchestrator, failure handling, maintenance sweep, guard thread) and    *)
(* the verifier service.                                                   *)
(*                                                                         *)
(* An action is one commit, or one read whose result is used later.  A     *)
(* read followed by a compare-and-swap in another statement is two         *)
(* actions, unless the first statement already locked the row it compares. *)
(* Time is abstracted: a lease is live until an expiry action ends it.     *)
(***************************************************************************)
EXTENDS Integers, Sequences, FiniteSets, TaskStates

CONSTANTS
    Workers,      \* worker processes
    Requests,     \* owner requests to the gateway (cancel, decide)
    NSteps,       \* steps of the flow
    MaxRetries,   \* settings.max_retries
    Recoverable,  \* steps whose effect can be read back (workspace.write_text)
    Faults,       \* the faults that may happen, a subset of FaultKinds
    None,         \* SQL NULL of an owner column
    Ghost         \* the identity of a worker process that died

FaultKinds ==
    {"crash",        \* kill -9 of a worker between two of its commits
     "stall",        \* a live worker's guard thread misses its renewals
     "error",        \* an exception inside the worker's try block
     "tool",         \* a tool run that fails
     "submit",       \* the submitter dies before enqueue, or its criteria
                     \* write fails
     "verifier",     \* the verifier rejects, or does not answer in time
     "ttl"}          \* an approval outlives APPROVAL_GRANT_TTL_SECONDS

ASSUME NStepsAssumption == NSteps \in Nat \ {0}
ASSUME MaxRetriesAssumption == MaxRetries \in Nat
ASSUME NoneAssumption == None \notin Workers /\ Ghost \notin Workers /\ None # Ghost
ASSUME FaultsAssumption == Faults \subseteq FaultKinds
ASSUME RecoverableAssumption == Recoverable \subseteq 1..NSteps

Steps == 1..NSteps

VARIABLES
    \* task_flows
    status, revision, cancelRequested, leaseOwner, leaseLive,
    \* state_transitions: the accepted rows, as <<from_state, to_state>>
    journal,
    \* flow_steps (COMPLETED is flushed together with the step's artifact),
    \* their retry counters, and durable_operations
    step, retries, op,
    \* the outside world: how often the tool of a step took effect
    effects,
    \* approvals, the grant its token names, and what the fixed arguments of
    \* the flow mean to the risk policy and to the safety classifier
    approval, grant, profile,
    \* queue_jobs
    jobStatus, jobOwner, jobLive, attempts,
    \* history: a job was put back into the queue under a worker that runs it
    overwritten,
    \* submitter and gateway requests: program point and loaded step rows
    gw, rq, rqMem,
    \* workers: program point, in-memory task.status, target and revision of
    \* the transition in progress, step in progress, loaded step rows,
    \* whether the guard thread is running, and whether the present job lease
    \* had expired at the time a claim in progress read the clock
    pc, st, tgt, seen, cur, mem, guard, late,
    \* revisions under examination by verifier request handlers
    judging

flowVars == <<status, revision, journal>>
leaseVars == <<leaseOwner, leaseLive>>
stepVars == <<step, retries, op, effects>>
approvalVars == <<approval, grant>>
jobVars == <<jobStatus, jobOwner, jobLive, attempts, overwritten>>
requestVars == <<rq, rqMem>>
localVars == <<st, tgt, seen, cur, mem>>
vars == <<status, revision, cancelRequested, leaseOwner, leaseLive, journal,
          step, retries, op, effects, approval, grant, profile,
          jobStatus, jobOwner, jobLive, attempts, overwritten, gw, rq, rqMem,
          pc, st, tgt, seen, cur, mem, guard, late, judging>>

OpState == {"absent", "PENDING", "APPLIED", "FAILED"}
ApprovalState == {"absent", "PENDING", "APPROVED", "DENIED"}
GrantState == {"absent", "live", "consumed"}
JobState == {"absent", "QUEUED", "RUNNING", "WAITING", "DONE", "FAILED", "CANCELLED"}
WorkerPC == {"idle", "claim", "start", "acquire", "load", "resume", "cas",
             "consume", "timeout", "dispatch", "enter", "step", "op", "tool",
             "executed", "persist", "toolfailed", "toolcancelled",
             "await", "return", "raised", "finish", "failing",
             "sweep", "orphan", "putback"}
SubmitPC == {"created", "requeue", "done", "dead"}
RequestPC == {"idle", "cancel", "decide", "enqueue", "requeue", "done"}
Owners == Workers \cup {None, Ghost}

Min2(n, bound) == IF n < bound THEN n ELSE bound

Init ==
    /\ status = "RECEIVED" /\ revision = 0 /\ journal = << >>
    /\ cancelRequested = FALSE
    /\ leaseOwner = None /\ leaseLive = FALSE
    /\ step = [i \in Steps |-> "PENDING"]
    /\ retries = [i \in Steps |-> 0]
    /\ op = [i \in Steps |-> "absent"]
    /\ effects = [i \in Steps |-> 0]
    /\ approval = "absent" /\ grant = "absent"
    /\ profile \in [auto : BOOLEAN, sensitive : BOOLEAN]
    /\ jobStatus = "absent" /\ jobOwner = None /\ jobLive = FALSE /\ attempts = 0
    /\ overwritten = FALSE
    /\ gw = "created"
    /\ rq = [r \in Requests |-> "idle"]
    /\ rqMem = [r \in Requests |-> [i \in Steps |-> "PENDING"]]
    /\ pc = [w \in Workers |-> "idle"]
    /\ st = [w \in Workers |-> "RECEIVED"]
    /\ tgt = [w \in Workers |-> "RECEIVED"]
    /\ seen = [w \in Workers |-> 0]
    /\ cur = [w \in Workers |-> 1]
    /\ mem = [w \in Workers |-> [i \in Steps |-> "PENDING"]]
    /\ guard = [w \in Workers |-> FALSE]
    /\ late = [w \in Workers |-> FALSE]
    /\ judging = {}

-----------------------------------------------------------------------------
(***************************************************************************)
(* The repository: the accepted write of a transition, guarded by the      *)
(* graph on the row as it is now (CanMove), and the bare row write after a *)
(* compare-and-swap on a revision read earlier (Move).                     *)
(***************************************************************************)
CanMove(target) == CheckTaskTransition(status, target, cancelRequested)

Move(target) ==
    /\ status' = target
    /\ revision' = revision + 1
    /\ journal' = Append(journal, <<status, target>>)

\* Step rows that can still be cancelled, in a given copy of the rows.
Unfinished(rows) == {i \in Steps : rows[i] \in {"PENDING", "RUNNING"}}

\* transition_step on every unfinished row of a loaded copy: each write is a
\* compare-and-swap against the loaded row.
CancelSteps(rows) ==
    /\ \A i \in Unfinished(rows) : step[i] = rows[i]
    /\ step' = [i \in Steps |-> IF i \in Unfinished(rows) THEN "CANCELLED" ELSE step[i]]

-----------------------------------------------------------------------------
(***************************************************************************)
(* Submission (core/task_service.py) and DurableQueue.enqueue.             *)
(***************************************************************************)

\* enqueue of a flow without a job: job row and RECEIVED -> QUEUED in one
\* commit; a lost race (UNIQUE task_id, refused transition) changes nothing.
EnqueueNew ==
    /\ jobStatus = "absent"
    /\ CanMove("QUEUED")
    /\ Move("QUEUED")
    /\ jobStatus' = "QUEUED"
    /\ UNCHANGED <<jobOwner, jobLive, attempts, overwritten>>

\* A flow that has a job, seen by a caller whose copy of the flow is still
\* RECEIVED: a DONE or WAITING job is put back, whatever the flow has become.
SeenIdle == jobStatus \in {"DONE", "WAITING"}

\* The later write of existing.status, which compares nothing.
PutBack ==
    /\ jobStatus' = "QUEUED"
    /\ overwritten' = (overwritten \/ jobStatus = "RUNNING")
    /\ UNCHANGED <<jobOwner, jobLive, attempts>>

SubmitEnqueue ==
    /\ gw = "created"
    /\ \/ EnqueueNew /\ gw' = "done"
       \/ /\ ~(jobStatus = "absent" /\ CanMove("QUEUED"))
          /\ gw' = IF SeenIdle THEN "requeue" ELSE "done"
          /\ UNCHANGED <<flowVars, jobVars>>
    /\ UNCHANGED <<cancelRequested, leaseVars, stepVars, approvalVars, profile,
                   requestVars, pc, localVars, guard, judging, late>>

SubmitRequeue ==
    /\ gw = "requeue"
    /\ gw' = "done"
    /\ PutBack
    /\ UNCHANGED <<flowVars, cancelRequested, leaseVars, stepVars, approvalVars,
                   profile, requestVars, pc, localVars, guard, judging, late>>

\* The verifier-private criteria could not be written: the flow is cancelled
\* instead of queued, unless it has moved on; cancellation_requested stays as is.
SubmitCriteriaFail ==
    /\ "submit" \in Faults
    /\ gw = "created"
    /\ gw' = "done"
    /\ \/ /\ CancelSteps([i \in Steps |-> "PENDING"])
          /\ CanMove("CANCELLED")
          /\ Move("CANCELLED")
       \/ /\ ~(CanMove("CANCELLED") /\ \A i \in Steps : step[i] = "PENDING")
          /\ UNCHANGED <<flowVars, step>>
    /\ UNCHANGED <<cancelRequested, leaseVars, retries, op, effects, approvalVars,
                   profile, jobVars, requestVars, pc, localVars, guard, judging, late>>

\* The submitting process dies between create and enqueue, or within enqueue.
SubmitCrash ==
    /\ "submit" \in Faults
    /\ gw \in {"created", "requeue"}
    /\ gw' = "dead"
    /\ UNCHANGED <<flowVars, cancelRequested, leaseVars, stepVars, approvalVars,
                   profile, jobVars, requestVars, pc, localVars, guard, judging, late>>

-----------------------------------------------------------------------------
(***************************************************************************)
(* Owner requests (gateway/api.py).                                        *)
(***************************************************************************)

\* POST /flows/{id}/cancel loads the flow; a terminal flow is returned as is.
CancelLoad(r) ==
    /\ rq[r] = "idle"
    /\ status \notin TERMINAL_STATES
    /\ rq' = [rq EXCEPT ![r] = "cancel"]
    /\ rqMem' = [rqMem EXCEPT ![r] = step]
    /\ UNCHANGED <<flowVars, cancelRequested, leaseVars, stepVars, approvalVars,
                   profile, jobVars, gw, pc, localVars, guard, judging, late>>

\* TaskRepository.cancel: flag, step rows and the transition in one commit;
\* a step row that changed since the load, or a flow that became terminal,
\* answers 409 and rolls everything back.
CancelWrite(r) ==
    /\ rq[r] = "cancel"
    /\ rq' = [rq EXCEPT ![r] = "done"]
    /\ rqMem' = [rqMem EXCEPT ![r] = [i \in Steps |-> "PENDING"]]
    /\ \/ /\ CancelSteps(rqMem[r])
          /\ CanMove("CANCELLED")
          /\ Move("CANCELLED")
          /\ cancelRequested' = TRUE
       \/ /\ ~(CanMove("CANCELLED") /\ \A i \in Unfinished(rqMem[r]) : step[i] = rqMem[r][i])
          /\ UNCHANGED <<flowVars, step, cancelRequested>>
    /\ UNCHANGED <<leaseVars, retries, op, effects, approvalVars, profile,
                   jobVars, gw, pc, localVars, guard, judging, late>>

\* POST /approvals/{id}/decision: the loaded row must still be PENDING.
DecideLoad(r) ==
    /\ rq[r] = "idle"
    /\ approval = "PENDING"
    /\ rq' = [rq EXCEPT ![r] = "decide"]
    /\ UNCHANGED <<flowVars, cancelRequested, leaseVars, stepVars, approvalVars,
                   profile, jobVars, gw, rqMem, pc, localVars, guard, judging, late>>

\* decide_approval: the write does not compare the row again; an approval
\* mints a fresh one-shot grant and stores its token on the row.
DecideWrite(r) ==
    /\ rq[r] = "decide"
    /\ rq' = [rq EXCEPT ![r] = "enqueue"]
    /\ \/ approval' = "APPROVED" /\ grant' = "live"
       \/ approval' = "DENIED" /\ UNCHANGED grant
    /\ UNCHANGED <<flowVars, cancelRequested, leaseVars, stepVars, profile,
                   jobVars, gw, rqMem, pc, localVars, guard, judging, late>>

\* enqueue of a flow that has a job: only a DONE or WAITING job of a flow
\* outside these four states is put back.
Requeueable ==
    /\ SeenIdle
    /\ status \notin {"DONE", "CANCELLED", "FAILED", "POLICY_DENIED"}

DecideEnqueueLoad(r) ==
    /\ rq[r] = "enqueue"
    /\ rq' = [rq EXCEPT ![r] = IF Requeueable THEN "requeue" ELSE "done"]
    /\ UNCHANGED <<flowVars, cancelRequested, leaseVars, stepVars, approvalVars,
                   profile, jobVars, gw, rqMem, pc, localVars, guard, judging, late>>

\* The write of existing.status does not compare the job row again.
DecideEnqueueWrite(r) ==
    /\ rq[r] = "requeue"
    /\ rq' = [rq EXCEPT ![r] = "done"]
    /\ PutBack
    /\ UNCHANGED <<flowVars, cancelRequested, leaseVars, stepVars, approvalVars,
                   profile, gw, rqMem, pc, localVars, guard, judging, late>>

-----------------------------------------------------------------------------
(***************************************************************************)
(* The worker loop (worker/__init__.py): sweep, claim, run, finish.        *)
(***************************************************************************)
Goto(w, p) == pc' = [pc EXCEPT ![w] = p]

\* The database is not written by this step.
DbUnchanged ==
    UNCHANGED <<flowVars, cancelRequested, leaseVars, stepVars, approvalVars,
                profile, jobVars, gw, requestVars, judging, late>>

\* _recover_stale_flows selects a flow in an execution state that has no
\* QUEUED job and not both a live task lease and a RUNNING job.
Stale ==
    /\ status \in {"TOOL_EXECUTING", "RUNNING"}
    /\ jobStatus # "QUEUED"
    /\ ~(leaseOwner # None /\ leaseLive /\ jobStatus = "RUNNING")

SweepSelect(w) ==
    /\ pc[w] = "idle"
    /\ Stale
    /\ Goto(w, "sweep")
    /\ DbUnchanged /\ UNCHANGED <<localVars, guard>>

\* The sweep's transition re-reads the flow's status and revision, but
\* neither the lease nor the job.
SweepFail(w) ==
    /\ pc[w] = "sweep"
    /\ Goto(w, "idle")
    /\ \/ CanMove("FAILED") /\ Move("FAILED")
       \/ ~CanMove("FAILED") /\ UNCHANGED flowVars
    /\ UNCHANGED <<cancelRequested, leaseVars, stepVars, approvalVars, profile,
                   jobVars, gw, requestVars, localVars, guard, judging, late>>

\* Mutant: nobody looks for accepted flows that were never enqueued.
NoOrphanSweep(w) == FALSE
\* _recover_orphan_received_flows selects a RECEIVED flow without a job, older
\* than the grace period.
SweepOrphan(w) ==
    /\ pc[w] = "idle"
    /\ status = "RECEIVED" /\ jobStatus = "absent"
    /\ Goto(w, "orphan")
    /\ DbUnchanged /\ UNCHANGED <<localVars, guard>>

\* It enqueues what it selected, and somebody else may have done so since.
EnqueueOrphan(w) ==
    /\ pc[w] = "orphan"
    /\ \/ EnqueueNew /\ Goto(w, "idle")
       \/ /\ ~(jobStatus = "absent" /\ CanMove("QUEUED"))
          /\ Goto(w, IF SeenIdle THEN "putback" ELSE "idle")
          /\ UNCHANGED <<flowVars, jobVars>>
    /\ UNCHANGED <<cancelRequested, leaseVars, stepVars, approvalVars, profile,
                   gw, requestVars, localVars, guard, judging, late>>

RequeueOrphan(w) ==
    /\ pc[w] = "putback"
    /\ Goto(w, "idle")
    /\ PutBack
    /\ UNCHANGED <<flowVars, cancelRequested, leaseVars, stepVars, approvalVars,
                   profile, gw, requestVars, localVars, guard, judging, late>>

JobLeaseExpired == jobOwner # None /\ ~jobLive

\* Mutant: a claim that counts the attempts of the job.
CandidateCounted ==
    (jobStatus = "QUEUED" /\ attempts < MaxRetries) \/ (jobStatus = "RUNNING" /\ JobLeaseExpired)
\* The SELECT of DurableQueue.claim.
Candidate == jobStatus = "QUEUED" \/ (jobStatus = "RUNNING" /\ JobLeaseExpired)

\* DurableQueue.claim, the clock and the SELECT of a candidate.
ClaimSelect(w) ==
    /\ pc[w] = "idle"
    /\ Candidate
    /\ late' = [late EXCEPT ![w] = JobLeaseExpired]
    /\ Goto(w, "claim")
    /\ UNCHANGED <<flowVars, cancelRequested, leaseVars, stepVars, approvalVars,
                   profile, jobVars, gw, requestVars, localVars, guard, judging>>

\* Mutant: the UPDATE of a claim names the row only.
ClaimableAlways(w) == TRUE
\* DurableQueue.claim, the UPDATE: its WHERE asks for a QUEUED job or a lease
\* that had expired when the clock was read, whatever the status of the job
\* has become.
Claimable(w) == jobStatus = "QUEUED" \/ (JobLeaseExpired /\ late[w])

ClaimUpdate(w) ==
    /\ pc[w] = "claim"
    /\ \/ /\ Claimable(w)
          /\ jobStatus' = "RUNNING" /\ jobOwner' = w /\ jobLive' = TRUE
          /\ attempts' = Min2(attempts + 1, MaxRetries + 1)
          /\ late' = [v \in Workers |-> FALSE]
          /\ Goto(w, "start")
          /\ UNCHANGED overwritten
       \/ /\ ~Claimable(w)
          /\ late' = [late EXCEPT ![w] = FALSE]
          /\ Goto(w, "idle")
          /\ UNCHANGED jobVars
    /\ UNCHANGED <<flowVars, cancelRequested, leaseVars, stepVars, approvalVars,
                   profile, gw, requestVars, localVars, guard, judging>>

\* The worker loads the flow, starts the guard thread and calls
\* Orchestrator.run, which returns a cancelled or terminal flow at once.
RunStart(w) ==
    /\ pc[w] = "start"
    /\ guard' = [guard EXCEPT ![w] = TRUE]
    /\ st' = [st EXCEPT ![w] = status]
    /\ Goto(w, IF cancelRequested \/ status \in TERMINAL_STATES
               THEN "finish" ELSE "acquire")
    /\ seen' = [seen EXCEPT ![w] = revision]
    /\ DbUnchanged /\ UNCHANGED <<tgt, cur, mem>>

\* acquire_lease: free, expired or own, and the revision did not move
\* between its read and its update; otherwise LeaseConflict.
AcquireLease(w) ==
    /\ pc[w] = "acquire"
    /\ \/ /\ leaseOwner \in {None, w} \/ ~leaseLive
          /\ leaseOwner' = w /\ leaseLive' = TRUE
          /\ Goto(w, "load")
       \/ /\ (leaseOwner \notin {None, w} /\ leaseLive) \/ revision # seen[w]
          /\ Goto(w, "failing")
          /\ UNCHANGED leaseVars
    /\ seen' = [seen EXCEPT ![w] = 0]
    /\ UNCHANGED <<flowVars, cancelRequested, stepVars, approvalVars, profile,
                   jobVars, gw, requestVars, st, tgt, cur, mem, guard, judging, late>>

\* _resume reads the flow and its steps after the lease was committed.
ResumeLoad(w) ==
    /\ pc[w] = "load"
    /\ st' = [st EXCEPT ![w] = status]
    /\ mem' = [mem EXCEPT ![w] = step]
    /\ Goto(w, CASE status = "TOOL_EXECUTING" -> "step"
                 [] status = "VERIFYING" -> "await"
                 [] status \in TERMINAL_STATES -> "return"
                 [] OTHER -> "resume")
    /\ cur' = [cur EXCEPT ![w] = 1]
    /\ DbUnchanged /\ UNCHANGED <<tgt, seen, guard>>

-----------------------------------------------------------------------------
(***************************************************************************)
(* Transitions of the orchestrator that re-read the row (Begin) and then   *)
(* compare-and-swap its revision (CasCommit).                              *)
(***************************************************************************)

\* transition(): re-read and check; an illegal edge raises InvalidTransition.
Begin(w, target) ==
    /\ st' = [st EXCEPT ![w] = status]
    /\ \/ /\ CanMove(target)
          /\ tgt' = [tgt EXCEPT ![w] = target]
          /\ seen' = [seen EXCEPT ![w] = revision]
          /\ Goto(w, "cas")
       \/ /\ ~CanMove(target)
          /\ Goto(w, "raised")
          /\ UNCHANGED <<tgt, seen>>
    /\ UNCHANGED <<cur, mem, guard>>

\* request_approval inserts the row, and either the transition's commit or
\* the commit of release_lease makes it durable.
RequestApproval ==
    approval' = IF approval = "absent"
                THEN (IF profile.auto THEN "APPROVED" ELSE "PENDING")
                ELSE approval

\* Mutant: the UPDATE of a transition names the row only.
CasDropped(w) == TRUE
\* WHERE revision = expected.
CasHolds(w) == revision = seen[w]

CasCommit(w) ==
    /\ pc[w] = "cas"
    /\ \/ /\ CasHolds(w)
          /\ status' = tgt[w]
          /\ revision' = seen[w] + 1
          /\ journal' = Append(journal, <<st[w], tgt[w]>>)
          /\ st' = [st EXCEPT ![w] = tgt[w]]
          /\ Goto(w, CASE tgt[w] \in {"PLANNING", "OBSERVING"} -> "resume"
                       [] tgt[w] = "VERIFYING" -> "await"
                       [] OTHER -> "return")
       \/ /\ ~CasHolds(w)
          /\ Goto(w, "raised")
          /\ UNCHANGED <<flowVars, st>>
    /\ IF tgt[w] = "WAITING_APPROVAL" THEN RequestApproval ELSE UNCHANGED approval
    /\ tgt' = [tgt EXCEPT ![w] = "RECEIVED"]
    /\ seen' = [seen EXCEPT ![w] = 0]
    /\ UNCHANGED <<cancelRequested, leaseVars, stepVars, grant, profile, jobVars,
                   gw, requestVars, cur, mem, guard, judging, late>>

\* QUEUED: the plan is persisted.
ResumeQueued(w) ==
    /\ pc[w] = "resume" /\ st[w] = "QUEUED"
    /\ Begin(w, "PLANNING")
    /\ DbUnchanged

\* PLANNING: what the approval row (new or existing) says.
ResumePlanning(w) ==
    /\ pc[w] = "resume" /\ st[w] = "PLANNING"
    /\ \/ /\ approval = "PENDING" \/ (approval = "absent" /\ ~profile.auto)
          /\ Begin(w, "WAITING_APPROVAL")
          /\ IF CanMove("WAITING_APPROVAL") THEN UNCHANGED approval ELSE RequestApproval
       \/ /\ approval = "DENIED"
          /\ Begin(w, "POLICY_DENIED")
          /\ UNCHANGED approval
       \/ /\ approval = "APPROVED" \/ (approval = "absent" /\ profile.auto)
          /\ Goto(w, "consume")
          /\ UNCHANGED <<localVars, guard, approval>>
    /\ UNCHANGED <<flowVars, cancelRequested, leaseVars, stepVars, grant, profile,
                   jobVars, gw, requestVars, judging, late>>

\* WAITING_APPROVAL: an undecided approval returns the flow unless it timed
\* out; a decided one denies or dispatches.
ResumeWaiting(w) ==
    /\ pc[w] = "resume" /\ st[w] = "WAITING_APPROVAL"
    /\ \/ /\ approval = "PENDING"
          /\ \E p \in {"return", "timeout"} : Goto(w, p)
          /\ UNCHANGED <<localVars, guard>>
       \/ /\ approval = "DENIED"
          /\ Begin(w, "POLICY_DENIED")
       \/ /\ approval = "APPROVED"
          /\ Goto(w, "consume")
          /\ UNCHANGED <<localVars, guard>>
    /\ DbUnchanged

\* The timed-out approval is denied by "system_timeout" (a commit of its
\* own, without comparing the row again), then the flow is denied.
ApprovalTimeout(w) ==
    /\ pc[w] = "timeout"
    /\ approval' = "DENIED"
    /\ Begin(w, "POLICY_DENIED")
    /\ UNCHANGED <<flowVars, cancelRequested, leaseVars, stepVars, grant,
                   profile, jobVars, gw, requestVars, judging, late>>

\* _verify_and_consume_approval: an auto-approval carries no grant; a grant
\* is consumed in the grant store, in a commit of its own; an expired or
\* already consumed one denies the flow.
ConsumeApproval(w) ==
    /\ pc[w] = "consume"
    /\ \/ /\ "ttl" \in Faults
          /\ Begin(w, "POLICY_DENIED")
          /\ UNCHANGED grant
       \/ /\ grant = "live" \/ (grant = "absent" /\ profile.auto)
          /\ grant' = IF grant = "live" THEN "consumed" ELSE grant
          /\ Goto(w, "dispatch")
          /\ UNCHANGED <<localVars, guard>>
       \/ /\ grant = "consumed" \/ (grant = "absent" /\ ~profile.auto)
          /\ Begin(w, "POLICY_DENIED")
          /\ UNCHANGED grant
    /\ UNCHANGED <<flowVars, cancelRequested, leaseVars, stepVars, approval,
                   profile, jobVars, gw, requestVars, judging, late>>

\* _dispatch: first step RUNNING, side_effect_key and TOOL_EXECUTING in one
\* commit (the flow row is locked by the flush before the status is re-read).
Dispatch(w) ==
    /\ pc[w] = "dispatch"
    /\ RequestApproval
    /\ \/ /\ step[1] = "PENDING" /\ CanMove("TOOL_EXECUTING")
          /\ step' = [step EXCEPT ![1] = "RUNNING"]
          /\ Move("TOOL_EXECUTING")
          /\ st' = [st EXCEPT ![w] = "TOOL_EXECUTING"]
          /\ Goto(w, "enter")
       \/ /\ ~(step[1] = "PENDING" /\ CanMove("TOOL_EXECUTING"))
          /\ Goto(w, "raised")
          /\ UNCHANGED <<flowVars, step, st>>
    /\ UNCHANGED <<cancelRequested, leaseVars, retries, op, effects, grant,
                   profile, jobVars, gw, requestVars, tgt, seen, cur, mem,
                   guard, judging, late>>

-----------------------------------------------------------------------------
(***************************************************************************)
(* TOOL_EXECUTING: _block_sensitive_execution and _recover_or_execute.     *)
(* mem[w] is the copy of the step rows loaded on entry; every step write   *)
(* is a compare-and-swap against that copy.                                *)
(***************************************************************************)
EnterExec(w) ==
    /\ pc[w] = "enter"
    /\ mem' = [mem EXCEPT ![w] = step]
    /\ cur' = [cur EXCEPT ![w] = 1]
    /\ Goto(w, "step")
    /\ DbUnchanged /\ UNCHANGED <<st, tgt, seen, guard>>

\* Mutant: only the loaded copy of the step row is looked at.
StepCasDropped(w) == mem[w][cur[w]] = "RUNNING"
\* transition_step of the step in progress: the loaded copy may leave RUNNING,
\* and the row is still the one loaded.
StepCas(w) == mem[w][cur[w]] = "RUNNING" /\ step[cur[w]] = "RUNNING"

\* A unit of work that finishes step i as outcome and then moves the flow:
\* an exception after the step's flush still commits the step, because
\* release_lease in the finally clause commits the session.
FinishStepAndMove(w, outcome, target, next) ==
    LET i == cur[w] IN
    /\ \/ /\ StepCas(w) /\ CanMove(target)
          /\ step' = [step EXCEPT ![i] = outcome]
          /\ Move(target)
          /\ st' = [st EXCEPT ![w] = target]
          /\ Goto(w, next)
       \/ /\ StepCas(w) /\ ~CanMove(target)
          /\ step' = [step EXCEPT ![i] = outcome]
          /\ st' = [st EXCEPT ![w] = status]
          /\ Goto(w, "raised")
          /\ UNCHANGED flowVars
       \/ /\ ~StepCas(w)
          /\ Goto(w, "raised")
          /\ UNCHANGED <<flowVars, step, st>>
    /\ UNCHANGED <<cancelRequested, leaseVars, op, effects, approvalVars, profile,
                   jobVars, gw, requestVars, tgt, seen, cur, mem, guard, judging, late>>

\* Mutant: only an execution that is resumed is classified.
SafetyBlocksResumed == profile.sensitive /\ op[1] # "absent"
\* The fixed command of the flow is one the safety classifier refuses.
SafetyBlocks == profile.sensitive

BlockSensitive(w) ==
    /\ pc[w] = "step" /\ cur[w] = 1 /\ SafetyBlocks
    /\ FinishStepAndMove(w, "FAILED", "BLOCKED", "return")
    /\ UNCHANGED retries

\* A step that is already COMPLETED is skipped; after the last one the flow
\* moves to OBSERVING.
SkipCompleted(w) ==
    /\ pc[w] = "step" /\ ~SafetyBlocks
    /\ mem[w][cur[w]] = "COMPLETED"
    /\ \/ /\ cur[w] < NSteps
          /\ cur' = [cur EXCEPT ![w] = cur[w] + 1]
          /\ UNCHANGED <<pc, st, tgt, seen, mem, guard>>
       \/ /\ cur[w] = NSteps
          /\ Begin(w, "OBSERVING")
    /\ DbUnchanged

\* A FAILED step ends the run without an artifact.
StopAtFailed(w) ==
    /\ pc[w] = "step" /\ ~SafetyBlocks
    /\ mem[w][cur[w]] = "FAILED"
    /\ Goto(w, "return")
    /\ DbUnchanged /\ UNCHANGED <<localVars, guard>>

\* A step found PENDING is marked RUNNING in a commit of its own.
BeginPendingStep(w) ==
    /\ pc[w] = "step" /\ ~SafetyBlocks
    /\ mem[w][cur[w]] = "PENDING"
    /\ \/ /\ step[cur[w]] = "PENDING"
          /\ step' = [step EXCEPT ![cur[w]] = "RUNNING"]
          /\ mem' = [mem EXCEPT ![w][cur[w]] = "RUNNING"]
          /\ Goto(w, "op")
       \/ /\ step[cur[w]] # "PENDING"
          /\ Goto(w, "raised")
          /\ UNCHANGED <<step, mem>>
    /\ UNCHANGED <<flowVars, cancelRequested, leaseVars, retries, op, effects,
                   approvalVars, profile, jobVars, gw, requestVars, st, tgt,
                   seen, cur, guard, judging, late>>

\* The loop body past the status checks: neither RUNNING nor CANCELLED is
\* turned away.
AtOperation(w) ==
    \/ pc[w] = "op"
    \/ /\ pc[w] = "step" /\ ~SafetyBlocks
       /\ mem[w][cur[w]] \in {"RUNNING", "CANCELLED"}

\* Mutant: the file is not read back.
EvidenceRecorded(w) == op[cur[w]] = "APPLIED"
\* The tool's effect is known to have happened: recorded, or read back.
Evidence(w) == op[cur[w]] = "APPLIED" \/ (cur[w] \in Recoverable /\ effects[cur[w]] > 0)

\* An APPLIED operation, or a written file read back with the wanted
\* content, is taken as the step's evidence; otherwise the operation is
\* recorded PENDING before the tool is called.
RecoverOperation(w) ==
    /\ AtOperation(w)
    /\ Evidence(w)
    /\ Goto(w, "persist")
    /\ DbUnchanged /\ UNCHANGED <<localVars, guard>>

StartOperation(w) ==
    /\ AtOperation(w)
    /\ ~Evidence(w)
    /\ op' = [op EXCEPT ![cur[w]] = "PENDING"]
    /\ Goto(w, "tool")
    /\ UNCHANGED <<flowVars, cancelRequested, leaseVars, step, retries, effects,
                   approvalVars, profile, jobVars, gw, requestVars, localVars,
                   guard, judging, late>>

\* The tool takes effect in the world; nothing is recorded yet.
ToolSucceeds(w) ==
    /\ pc[w] = "tool"
    /\ effects' = [effects EXCEPT ![cur[w]] = Min2(@ + 1, 2)]
    /\ Goto(w, "executed")
    /\ UNCHANGED <<flowVars, cancelRequested, leaseVars, step, retries, op,
                   approvalVars, profile, jobVars, gw, requestVars, localVars,
                   guard, judging, late>>

RecordApplied(w) ==
    /\ pc[w] = "executed"
    /\ op' = [op EXCEPT ![cur[w]] = "APPLIED"]
    /\ Goto(w, "persist")
    /\ UNCHANGED <<flowVars, cancelRequested, leaseVars, step, retries, effects,
                   approvalVars, profile, jobVars, gw, requestVars, localVars,
                   guard, judging, late>>

\* Mutant: the budget is never used up.
RetryForever(i) == TRUE
\* The failure about to be counted is within the step's retry budget.
RetryBudgetLeft(i) == retries[i] + 1 <= MaxRetries

\* The tool fails, and the operation is recorded FAILED.
ToolFails(w) ==
    /\ "tool" \in Faults
    /\ pc[w] = "tool"
    /\ op' = [op EXCEPT ![cur[w]] = "FAILED"]
    /\ Goto(w, "toolfailed")
    /\ UNCHANGED <<flowVars, cancelRequested, leaseVars, step, retries, effects,
                   approvalVars, profile, jobVars, gw, requestVars, localVars,
                   guard, judging, late>>

CountRetry(i) == retries' = [retries EXCEPT ![i] = Min2(@ + 1, MaxRetries + 1)]

\* A retryable failure within the step's budget starts the loop over, with
\* the same copies of the step rows.
RetryStep(w) ==
    /\ pc[w] = "toolfailed"
    /\ RetryBudgetLeft(cur[w])
    /\ CountRetry(cur[w])
    /\ cur' = [cur EXCEPT ![w] = 1]
    /\ Goto(w, "step")
    /\ UNCHANGED <<flowVars, cancelRequested, leaseVars, step, op, effects,
                   approvalVars, profile, jobVars, gw, requestVars, st, tgt,
                   seen, mem, guard, judging, late>>

\* A failure that is not retried ends the step and the flow; the timeout and
\* the sandbox's refusal have target states of their own.
FailStep(w) ==
    /\ pc[w] = "toolfailed"
    /\ CountRetry(cur[w])
    /\ \E target \in {"TIMEOUT", "BLOCKED", "FAILED"} :
          FinishStepAndMove(w, "FAILED", target, "return")

\* The guard killed the container: the flow is CANCELLED already, and the
\* run ends.
ToolCancelled(w) ==
    /\ pc[w] = "toolcancelled"
    /\ op' = [op EXCEPT ![cur[w]] = "FAILED"]
    /\ Goto(w, "return")
    /\ UNCHANGED <<flowVars, cancelRequested, leaseVars, step, retries, effects,
                   approvalVars, profile, jobVars, gw, requestVars, localVars,
                   guard, judging, late>>

\* Mutant: the flush of the finished step is lost.
HandoverLost(i) == [step EXCEPT ![i+1] = "RUNNING"]
\* The commit that starts a step also makes the step before it durable.
Handover(i) == [step EXCEPT ![i] = "COMPLETED", ![i+1] = "RUNNING"]

\* _persist_artifact: step COMPLETED and its artifact are flushed, and become
\* durable with the next commit - the next step's RUNNING, the OBSERVING
\* transition, or release_lease after an exception.
PersistStep(w) ==
    LET i == cur[w] IN
    /\ pc[w] = "persist"
    /\ i < NSteps
    /\ \/ /\ StepCas(w)
          /\ mem[w][i+1] = "PENDING" /\ step[i+1] = "PENDING"
          /\ step' = Handover(i)
          /\ mem' = [mem EXCEPT ![w][i] = "COMPLETED", ![w][i+1] = "RUNNING"]
          /\ cur' = [cur EXCEPT ![w] = i + 1]
          /\ Goto(w, "op")
       \/ /\ "error" \in Faults
          /\ StepCas(w)
          /\ step' = [step EXCEPT ![i] = "COMPLETED"]
          /\ Goto(w, "raised")
          /\ UNCHANGED <<mem, cur>>
       \/ /\ ~StepCas(w)
          /\ Goto(w, "raised")
          /\ UNCHANGED <<step, mem, cur>>
    /\ UNCHANGED <<flowVars, cancelRequested, leaseVars, retries, op, effects,
                   approvalVars, profile, jobVars, gw, requestVars, st, tgt,
                   seen, guard, judging, late>>

PersistLast(w) ==
    /\ pc[w] = "persist"
    /\ cur[w] = NSteps
    /\ FinishStepAndMove(w, "COMPLETED", "OBSERVING", "resume")
    /\ UNCHANGED retries

ResumeObserving(w) ==
    /\ pc[w] = "resume" /\ st[w] = "OBSERVING"
    /\ Begin(w, "VERIFYING")
    /\ DbUnchanged

-----------------------------------------------------------------------------
(***************************************************************************)
(* The verifier service: it reads the flow, judges the artifact for as     *)
(* long as it takes, and finalizes by compare-and-swap on the revision it  *)
(* read.  A request outlives the worker that sent it.                      *)
(***************************************************************************)
VerifierRead(w) ==
    /\ pc[w] = "await"
    /\ status = "VERIFYING"
    /\ \E i \in Steps : step[i] = "COMPLETED"
    /\ revision \notin judging
    /\ judging' = judging \cup {revision}
    /\ UNCHANGED <<flowVars, cancelRequested, leaseVars, stepVars, approvalVars,
                   profile, jobVars, gw, requestVars, pc, localVars, guard, late>>

\* Mutant: the UPDATE to DONE names the row only.
FinalCasDropped(r) == TRUE
\* The WHERE of the UPDATE to DONE.
FinalCas(r) == status = "VERIFYING" /\ revision = r

VerifierDone(r) ==
    /\ r \in judging
    /\ judging' = judging \ {r}
    /\ \/ FinalCas(r) /\ Move("DONE")
       \/ ~FinalCas(r) /\ UNCHANGED flowVars
    /\ UNCHANGED <<cancelRequested, leaseVars, stepVars, approvalVars, profile,
                   jobVars, gw, requestVars, pc, localVars, guard, late>>

\* reject(): an ordinary transition to FAILED on the row as it is now.
VerifierReject(r) ==
    /\ "verifier" \in Faults
    /\ r \in judging
    /\ judging' = judging \ {r}
    /\ \/ CanMove("FAILED") /\ Move("FAILED")
       \/ ~CanMove("FAILED") /\ UNCHANGED flowVars
    /\ UNCHANGED <<cancelRequested, leaseVars, stepVars, approvalVars, profile,
                   jobVars, gw, requestVars, pc, localVars, guard, late>>

\* The answer, an error or the 90 s client timeout: the worker re-reads the
\* flow and fails it only if it is still VERIFYING.
AfterVerify(w) ==
    /\ pc[w] = "await"
    /\ \/ /\ status = "VERIFYING"
          /\ "verifier" \in Faults
          /\ Begin(w, "FAILED")
       \/ /\ status # "VERIFYING"
          /\ Goto(w, "return")
          /\ UNCHANGED <<localVars, guard>>
    /\ DbUnchanged

-----------------------------------------------------------------------------
(***************************************************************************)
(* The end of a run: release_lease, the job row, the failure handler.      *)
(***************************************************************************)

\* The result is re-read, and the finally clause releases the lease if it is
\* still this worker's.
ReleaseLease(w) ==
    /\ pc[w] \in {"return", "raised"}
    /\ IF leaseOwner = w THEN leaseOwner' = None /\ leaseLive' = FALSE
                         ELSE UNCHANGED leaseVars
    /\ IF pc[w] = "return"
       THEN Goto(w, "finish") /\ st' = [st EXCEPT ![w] = status]
       ELSE Goto(w, "failing") /\ UNCHANGED st
    /\ UNCHANGED <<flowVars, cancelRequested, stepVars, approvalVars, profile,
                   jobVars, gw, requestVars, tgt, seen, cur, mem, guard, judging, late>>

\* Back to the loop: the session's copies are dropped.
Idle(w) ==
    /\ Goto(w, "idle")
    /\ guard' = [guard EXCEPT ![w] = FALSE]
    /\ st' = [st EXCEPT ![w] = "RECEIVED"]
    /\ tgt' = [tgt EXCEPT ![w] = "RECEIVED"]
    /\ seen' = [seen EXCEPT ![w] = 0]
    /\ cur' = [cur EXCEPT ![w] = 1]
    /\ mem' = [mem EXCEPT ![w] = [i \in Steps |-> "PENDING"]]

\* Mutants: every run that ends finishes the job (BUG ANT-003), and the job
\* row takes the status of the flow as it is.
JobOutcomeDone(s) == IF s = "WAITING_APPROVAL" THEN "WAITING" ELSE "DONE"
JobOutcomeVerbatim(s) == s
\* The status of the job after a run that ended in flow status s.
JobOutcome(s) ==
    CASE s = "WAITING_APPROVAL" -> "WAITING"
      [] s = "DONE" -> "DONE"
      [] s = "CANCELLED" -> "CANCELLED"
      [] OTHER -> "FAILED"

\* The job mirrors the result of the run; no write compares the job's owner,
\* and only finish() clears the lease.
FinishJob(w) ==
    /\ pc[w] = "finish"
    /\ jobStatus' = JobOutcome(st[w])
    /\ IF st[w] = "DONE" THEN jobOwner' = None /\ jobLive' = FALSE
                         ELSE UNCHANGED <<jobOwner, jobLive>>
    /\ Idle(w)
    /\ UNCHANGED <<flowVars, cancelRequested, leaseVars, stepVars, approvalVars,
                   profile, attempts, overwritten, gw, requestVars, judging, late>>

\* _handle_worker_failure: retry while attempts last; then the job is FAILED,
\* and so is a flow last seen in TOOL_EXECUTING - if that transition is
\* refused the rollback takes the job's FAILED back too.
HandleFailure(w) ==
    /\ pc[w] = "failing"
    /\ Idle(w)
    /\ \/ /\ attempts <= MaxRetries
          /\ jobStatus' = "QUEUED" /\ jobOwner' = None /\ jobLive' = FALSE
          /\ UNCHANGED flowVars
       \/ /\ attempts > MaxRetries
          /\ st[w] # "TOOL_EXECUTING"
          /\ jobStatus' = "FAILED"
          /\ UNCHANGED <<jobOwner, jobLive, flowVars>>
       \/ /\ attempts > MaxRetries
          /\ st[w] = "TOOL_EXECUTING" /\ CanMove("FAILED")
          /\ jobStatus' = "FAILED"
          /\ Move("FAILED")
          /\ UNCHANGED <<jobOwner, jobLive>>
       \/ /\ attempts > MaxRetries
          /\ st[w] = "TOOL_EXECUTING" /\ ~CanMove("FAILED")
          /\ UNCHANGED <<jobStatus, jobOwner, jobLive, flowVars>>
    /\ UNCHANGED <<cancelRequested, leaseVars, stepVars, approvalVars, profile,
                   attempts, overwritten, gw, requestVars, judging, late>>

-----------------------------------------------------------------------------
(***************************************************************************)
(* Guard thread, passing time and faults.                                  *)
(***************************************************************************)

\* ExecutionGuard._watch: renew the job's lease, then the flow's; end when
\* the job lease is lost; on a cancelled flow kill the running container and
\* end.
GuardBeat(w) ==
    /\ guard[w]
    /\ IF jobOwner = w /\ jobStatus = "RUNNING"
       THEN /\ jobLive' = TRUE
            /\ late' = [v \in Workers |-> FALSE]
            /\ leaseLive' = (leaseLive \/ leaseOwner = w)
            /\ guard' = [guard EXCEPT ![w] = ~cancelRequested]
            /\ IF cancelRequested /\ pc[w] = "tool" /\ cur[w] \notin Recoverable
               THEN Goto(w, "toolcancelled") ELSE UNCHANGED pc
       ELSE /\ guard' = [guard EXCEPT ![w] = FALSE]
            /\ UNCHANGED <<jobLive, leaseLive, pc, late>>
    /\ UNCHANGED <<flowVars, cancelRequested, leaseOwner, stepVars, approvalVars,
                   profile, jobStatus, jobOwner, attempts, overwritten, gw,
                   requestVars, localVars, judging>>

\* A lease lapses when nobody renews it: its owner died, its guard ended, or
\* its guard thread stalls.
MayLapse(owner) ==
    \/ owner = Ghost
    \/ "stall" \in Faults
    \/ owner \in Workers /\ ~guard[owner] /\ pc[owner] # "start"

TaskLeaseExpires ==
    /\ leaseOwner # None /\ leaseLive /\ MayLapse(leaseOwner)
    /\ leaseLive' = FALSE
    /\ UNCHANGED <<flowVars, cancelRequested, leaseOwner, stepVars, approvalVars,
                   profile, jobVars, gw, requestVars, pc, localVars, guard, judging, late>>

JobLeaseExpires ==
    /\ jobOwner # None /\ jobLive /\ MayLapse(jobOwner)
    /\ jobLive' = FALSE
    /\ UNCHANGED <<flowVars, cancelRequested, leaseVars, stepVars, approvalVars,
                   profile, jobStatus, jobOwner, attempts, overwritten, gw,
                   requestVars, pc, localVars, guard, judging, late>>

\* kill -9 and restart under a new worker id: the session is rolled back, the
\* committed leases stay with an identity that will never renew them.
Crash(w) ==
    /\ "crash" \in Faults
    /\ pc[w] # "idle"
    /\ Idle(w)
    /\ late' = [late EXCEPT ![w] = FALSE]
    /\ leaseOwner' = IF leaseOwner = w THEN Ghost ELSE leaseOwner
    /\ jobOwner' = IF jobOwner = w THEN Ghost ELSE jobOwner
    /\ UNCHANGED <<flowVars, cancelRequested, leaseLive, stepVars, approvalVars,
                   profile, jobStatus, jobLive, attempts, overwritten, gw,
                   requestVars, judging>>

\* Any exception inside the worker's try block, before or after the lease.
WorkerRaises(w) ==
    /\ "error" \in Faults
    /\ \/ pc[w] = "acquire" /\ Goto(w, "failing")
       \/ /\ pc[w] \in {"load", "resume", "consume", "dispatch", "enter", "step",
                        "op", "executed"}
          /\ Goto(w, "raised")
    /\ DbUnchanged /\ UNCHANGED <<localVars, guard>>

-----------------------------------------------------------------------------
WorkerStep(w) ==
    \/ ClaimSelect(w) \/ ClaimUpdate(w) \/ RunStart(w) \/ AcquireLease(w)
    \/ ResumeLoad(w) \/ CasCommit(w) \/ ResumeQueued(w) \/ ResumePlanning(w)
    \/ ResumeWaiting(w) \/ ApprovalTimeout(w) \/ ConsumeApproval(w) \/ Dispatch(w)
    \/ EnterExec(w) \/ BlockSensitive(w) \/ SkipCompleted(w) \/ StopAtFailed(w)
    \/ BeginPendingStep(w) \/ RecoverOperation(w) \/ StartOperation(w)
    \/ ToolSucceeds(w) \/ RecordApplied(w) \/ RetryStep(w) \/ FailStep(w) \/ ToolCancelled(w)
    \/ PersistStep(w) \/ PersistLast(w) \/ ResumeObserving(w) \/ AfterVerify(w)
    \/ ReleaseLease(w) \/ FinishJob(w) \/ HandleFailure(w)

\* What a sweep selected is carried through.
SweepContinues(w) == SweepFail(w) \/ EnqueueOrphan(w) \/ RequeueOrphan(w)

SweepStep(w) == SweepSelect(w) \/ SweepOrphan(w) \/ SweepContinues(w)

WorkerFault(w) == ToolFails(w) \/ Crash(w) \/ WorkerRaises(w)

RequestStep(r) ==
    \/ CancelLoad(r) \/ CancelWrite(r)
    \/ DecideLoad(r) \/ DecideWrite(r) \/ DecideEnqueueLoad(r) \/ DecideEnqueueWrite(r)

SubmitStep == SubmitEnqueue \/ SubmitRequeue \/ SubmitCriteriaFail \/ SubmitCrash

VerifierStep ==
    \/ \E w \in Workers : VerifierRead(w)
    \/ \E r \in judging : VerifierDone(r) \/ VerifierReject(r)

LeaseStep == TaskLeaseExpires \/ JobLeaseExpires

Next ==
    \/ SubmitStep
    \/ \E r \in Requests : RequestStep(r)
    \/ \E w \in Workers : WorkerStep(w) \/ SweepStep(w) \/ WorkerFault(w) \/ GuardBeat(w)
    \/ VerifierStep
    \/ LeaseStep

Spec == Init /\ [][Next]_vars

\* A request that was accepted is carried through.
RequestContinues(r) ==
    \/ CancelWrite(r)
    \/ DecideWrite(r) \/ DecideEnqueueLoad(r) \/ DecideEnqueueWrite(r)

(***************************************************************************)
(* Fairness: processes that run keep running, time passes, the verifier    *)
(* answers, and the sweep that every worker repeats each ten seconds gets  *)
(* its turn somewhere.  The owner is free never to decide or cancel, and   *)
(* guard threads to do nothing.                                            *)
(***************************************************************************)
Fairness ==
    /\ WF_vars(SubmitStep)
    /\ \A r \in Requests : WF_vars(RequestContinues(r))
    /\ \A w \in Workers : WF_vars(WorkerStep(w) \/ SweepContinues(w))
    /\ SF_vars(\E w \in Workers : SweepSelect(w))
    /\ WF_vars(\E w \in Workers : SweepOrphan(w))
    /\ WF_vars(VerifierStep)
    /\ WF_vars(TaskLeaseExpires)
    /\ WF_vars(JobLeaseExpires)

FairSpec == Spec /\ Fairness

-----------------------------------------------------------------------------
(***************************************************************************)
(* Properties.                                                             *)
(***************************************************************************)

FlowTyped ==
    /\ status \in TaskState /\ revision \in Nat /\ cancelRequested \in BOOLEAN
    /\ leaseOwner \in Owners /\ leaseLive \in BOOLEAN
    /\ journal \in Seq(TaskState \X TaskState)

StepsTyped ==
    /\ step \in [Steps -> StepState]
    /\ retries \in [Steps -> 0..MaxRetries + 1]
    /\ op \in [Steps -> OpState]
    /\ effects \in [Steps -> 0..2]
    /\ approval \in ApprovalState /\ grant \in GrantState
    /\ profile \in [auto : BOOLEAN, sensitive : BOOLEAN]

JobTyped ==
    /\ jobStatus \in JobState /\ jobOwner \in Owners /\ jobLive \in BOOLEAN
    /\ attempts \in 0..MaxRetries + 1 /\ overwritten \in BOOLEAN

RequestsTyped ==
    /\ gw \in SubmitPC
    /\ rq \in [Requests -> RequestPC]
    /\ rqMem \in [Requests -> [Steps -> StepState]]
    /\ judging \subseteq Nat

WorkersTyped ==
    /\ pc \in [Workers -> WorkerPC]
    /\ st \in [Workers -> TaskState] /\ tgt \in [Workers -> TaskState]
    /\ seen \in [Workers -> Nat]
    /\ cur \in [Workers -> Steps]
    /\ mem \in [Workers -> [Steps -> StepState]]
    /\ guard \in [Workers -> BOOLEAN] /\ late \in [Workers -> BOOLEAN]

\* Every column and every local variable holds a value of its type.
TypeOK == FlowTyped /\ StepsTyped /\ JobTyped /\ RequestsTyped /\ WorkersTyped

\* The append-only journal is the history of the row: one entry per
\* revision, each starting where the one before it ended, each an edge of the
\* graph or the verifier's edge, the last one ending in the present status.
\* A status written over a row that changed after it was read would break it.
JournalIsHistory ==
    /\ Len(journal) = revision
    /\ \A n \in 1..Len(journal) :
          /\ journal[n] \in TASK_TRANSITIONS \cup VERIFIER_ONLY_TRANSITIONS
          /\ journal[n][1] = IF n = 1 THEN "RECEIVED" ELSE journal[n - 1][2]
    /\ status = IF journal = << >> THEN "RECEIVED" ELSE journal[Len(journal)][2]

\* DONE means that the whole plan ran: every step completed with its
\* artifact, and no cancellation was accepted.
DoneIsComplete ==
    status = "DONE" => ~cancelRequested /\ \A i \in Steps : step[i] = "COMPLETED"

\* No tool takes effect without authority: a flow the risk policy does not
\* auto-approve has an owner's grant, and a flow the safety classifier blocks
\* never runs a tool.
ExecutionIsAuthorised ==
    (\E i \in Steps : effects[i] > 0)
        => /\ ~profile.sensitive
           /\ profile.auto \/ grant # "absent"

\* Steps run in plan order: a step takes effect only after every earlier one
\* was completed with its artifact.
StepsInOrder ==
    \A i, j \in Steps : i < j /\ effects[j] > 0 => step[i] = "COMPLETED"

\* A job row that says how the flow ended says it truthfully.
JobTellsOutcome ==
    /\ jobStatus = "DONE" => status = "DONE"
    /\ jobStatus = "CANCELLED" => status = "CANCELLED"

\* A finished step row is never rewritten: not by a worker that loaded it
\* before the owner cancelled, nor by a cancellation that loaded it before
\* the worker finished it.
StepRowsAreFinal ==
    [][\A i \in Steps :
          step[i] \in {"COMPLETED", "FAILED", "CANCELLED"} => step'[i] = step[i]]_vars

\* The flow refines the abstract lifecycle.
Lifecycle == INSTANCE FlowLifecycle WITH status <- status, cancelRequested <- cancelRequested
LifecycleRefined == Lifecycle!LSpec

\* Workers that hold the flow: between acquire_lease and release_lease.
InRun(w) == pc[w] \in {"load", "resume", "cas", "consume", "timeout", "dispatch",
                       "enter", "step", "op", "tool", "executed", "persist",
                       "toolfailed", "toolcancelled", "await", "return", "raised"}

RunsAlone == \A v, w \in Workers : v # w => ~(InRun(v) /\ InRun(w))

\* One worker at a time runs the flow, unless enqueue put the job back under
\* the worker that runs it: its write of QUEUED (queue/__init__.py:61) does
\* not compare the job with the DONE or WAITING it read, and the submitter,
\* the orphan sweep and a decision may all be late with it.
OneWorkerRuns == ~overwritten => RunsAlone

\* The effect of a step that can be read back happens at most once, even when
\* the worker dies between the effect and its record.
RecoverableAtMostOnce == \A i \in Recoverable : effects[i] <= 1

\* Workers are killed only finitely often.
KillsCease == <>[][\A w \in Workers : ~Crash(w)]_vars

\* A flow the risk policy auto-approves reaches a terminal state, whatever
\* its submitter, its tools and its owner do.
AutoFlowEnds == profile.auto => <>(status \in TERMINAL_STATES)

\* A flow whose owner has decided and whose job is in the queue again, never
\* put back under a worker that ran it.
DecisionQueued ==
    /\ status = "WAITING_APPROVAL" /\ jobStatus = "QUEUED" /\ ~overwritten
    /\ approval \in {"APPROVED", "DENIED"}

\* Such a flow does not stay in WAITING_APPROVAL: the decision is applied.  (One
\* that finds the job still RUNNING puts nothing back, and nobody else does.)
RequeuedDecisionIsApplied == DecisionQueued ~> status # "WAITING_APPROVAL"

\* TOOL_EXECUTING is left, by the next claim or by the sweep, even when the
\* worker in it is killed again and again - as long as the killing stops.
ExecutionEnds == KillsCease => (status = "TOOL_EXECUTING" ~> status # "TOOL_EXECUTING")

=============================================================================
