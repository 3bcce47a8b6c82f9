------------------------------- MODULE Kernel -------------------------------
(***************************************************************************)
(* The durable execution kernel: the rows kernel_tasks, kernel_runs and    *)
(* kernel_dependencies, the dispatchers that reconcile, claim, run and     *)
(* finalise them, and cancellation.                                        *)
(*                                                                         *)
(* An action is one transaction, or one read whose result is used by a     *)
(* later write.  The store opens no transaction before its first UPDATE or *)
(* INSERT: an operation that starts with a conditional UPDATE is one       *)
(* action, one that reads a row first and then writes it by primary key is *)
(* two.  Time is abstracted: a lease is live until an expiry action.       *)
(***************************************************************************)
EXTENDS Integers, Sequences, FiniteSets

CONSTANTS
    Tasks,         \* kernel_tasks that may be created
    Parents,       \* kernel_dependencies: the parents of each task
    Dispatchers,   \* dispatcher processes
    Requests,      \* cancellation requests, each for one task
    MaxAttempts,   \* max_attempts of every task
    MaxRuns,       \* bound of the model on the runs of a task
    MaxCrashes,    \* bound of the model on kills of dispatchers
    NeedsGrant,    \* tasks whose action needs a one-shot approval grant
    Faults,        \* the faults that may happen, a subset of KernelFaults
    None,          \* SQL NULL of an owner column
    Ghost          \* the worker id of a dispatcher that died

KernelFaults ==
    {"handler",    \* the handler raises, or every service fails
     "deny",       \* the policy engine denies the action, or fails
     "block",      \* a handler blocks the event loop, and with it the
                   \* renewals, for longer than its leases
     "stall"}      \* a dispatcher is suspended longer than its lease
                   \* between the claim of a task and its run

ASSUME KernelAttempts == MaxAttempts \in Nat \ {0}
ASSUME KernelBounds == MaxRuns \in Nat \ {0} /\ MaxCrashes \in Nat
ASSUME KernelNames == {None, Ghost} \cap Dispatchers = {} /\ None # Ghost
ASSUME KernelGraph == Parents \in [Tasks -> SUBSET Tasks]
ASSUME KernelGrants == NeedsGrant \subseteq Tasks
ASSUME KernelFaultKinds == Faults \subseteq KernelFaults

VARIABLES
    \* kernel_tasks
    status, cancelReq, owner, lease, attempts,
    \* kernel_runs of a task; the position is the run_number
    runs,
    \* the approval grant of a task, and how often its handler was entered
    \* (history, kept for the tasks that need a grant)
    grant, entered,
    \* dispatchers: program point, the listed tasks still to visit, the run
    \* in progress, and what a read left behind for the write that uses it
    pc, todo, cur, memo,
    \* cancellation requests: program point and the status they read
    rq, rqSeen,
    \* kills so far
    crashes

taskVars == <<status, cancelReq, owner, lease, attempts>>
worldVars == <<grant, entered>>
requestVars == <<rq, rqSeen, crashes>>
kernelVars == <<status, cancelReq, owner, lease, attempts, runs, grant, entered,
                pc, todo, cur, memo, rq, rqSeen, crashes>>

TaskStatus == {"absent", "BLOCKED", "READY", "RUNNING", "SUCCEEDED", "FAILED", "CANCELLED"}
TerminalTask == {"SUCCEEDED", "FAILED", "CANCELLED"}
Dead == {"FAILED", "CANCELLED"}
RunStatus == {"RUNNING", "SUCCEEDED", "FAILED", "LOST"}
Owners == Dispatchers \cup {None, Ghost}

\* require_task_transition.
TaskTransitions ==
    ({"BLOCKED"} \X {"READY", "CANCELLED"})
        \cup ({"READY"} \X {"RUNNING", "CANCELLED"})
        \cup ({"RUNNING"} \X {"SUCCEEDED", "FAILED", "CANCELLED", "READY"})

Larger(a, b) == IF a > b THEN a ELSE b

\* Locals of a dispatcher between two ticks.
NoRun == [task |-> None, run |-> 0]
NoMemo == [to |-> "absent", run |-> 0, attempts |-> 0]

KernelInit ==
    /\ status = [t \in Tasks |-> "absent"]
    /\ cancelReq = [t \in Tasks |-> FALSE]
    /\ owner = [t \in Tasks |-> None]
    /\ lease = [t \in Tasks |-> "none"]
    /\ attempts = [t \in Tasks |-> 0]
    /\ runs = [t \in Tasks |-> << >>]
    /\ grant = [t \in Tasks |-> IF t \in NeedsGrant THEN "live" ELSE "none"]
    /\ entered = [t \in Tasks |-> 0]
    /\ pc = [d \in Dispatchers |-> "idle"]
    /\ todo = [d \in Dispatchers |-> {}]
    /\ cur = [d \in Dispatchers |-> NoRun]
    /\ memo = [d \in Dispatchers |-> NoMemo]
    /\ rq = [r \in Requests |-> None]
    /\ rqSeen = [r \in Requests |-> "absent"]
    /\ crashes = 0

-----------------------------------------------------------------------------
(***************************************************************************)
(* The dependency graph.  _reevaluate_children walks down from a task that *)
(* became terminal: a blocked child of a changed task is cancelled when    *)
(* one of its parents failed or was cancelled, and is ready when all have  *)
(* succeeded.  The cancelled ones are the smallest set closed under that.  *)
(***************************************************************************)
\* Mutant: a parent that failed is taken for one that is done.
UnfinishedParents(rows, t) == {p \in Parents[t] : rows[p] \notin TerminalTask}

UnmetParents(rows, t) == {p \in Parents[t] : rows[p] # "SUCCEEDED"}

Freed(rows, t) ==
    {c \in Tasks : rows[c] = "BLOCKED" /\ t \in Parents[c] /\ UnmetParents(rows, c) = {}}

DoomClosed(rows, t, set) ==
    \A c \in Tasks :
        /\ rows[c] = "BLOCKED"
        /\ Parents[c] \cap ({t} \cup Freed(rows, t) \cup set) # {}
        /\ \E p \in Parents[c] : rows[p] \in Dead \/ p \in set
        => c \in set

Doomed(rows, t) ==
    {c \in Tasks :
        /\ rows[c] = "BLOCKED"
        /\ \A set \in SUBSET Tasks : DoomClosed(rows, t, set) => c \in set}

ReevaluateChildren(rows, t) ==
    [c \in Tasks |-> IF c \in Doomed(rows, t) THEN "CANCELLED"
                     ELSE IF c \in Freed(rows, t) THEN "READY"
                     ELSE rows[c]]

\* The status column after t moved to a new state, dependents included.
Moved(t, to) ==
    LET rows == [status EXCEPT ![t] = to]
    IN  IF to \in TerminalTask THEN ReevaluateChildren(rows, t) ELSE rows

ReleaseTaskLease(t) ==
    /\ owner' = [owner EXCEPT ![t] = None]
    /\ lease' = [lease EXCEPT ![t] = "none"]

\* create_task: idempotent, and BLOCKED unless every parent has succeeded.
CreateTask(t) ==
    /\ \A p \in Parents[t] : status[p] # "absent"
    /\ status' = [status EXCEPT ![t] =
                    IF @ # "absent" THEN @
                    ELSE IF UnmetParents(status, t) = {} THEN "READY" ELSE "BLOCKED"]
    /\ UNCHANGED <<cancelReq, owner, lease, attempts, runs, grant, entered,
                   pc, todo, cur, memo, requestVars>>

-----------------------------------------------------------------------------
(***************************************************************************)
(* Reconciliation, phase 1: every RUNNING run whose lease expired is       *)
(* reclaimed as LOST.  The keys are listed first, but each UPDATE tests    *)
(* status and expiry again, so a stale key changes nothing and the list is *)
(* left out: the phase ends when no run is expired.                        *)
(***************************************************************************)
Goto(d, point) == pc' = [pc EXCEPT ![d] = point]

\* What becomes of a task whose run ended without success.
AfterLoss(t, count) ==
    IF cancelReq[t] THEN "CANCELLED"
    ELSE IF count < MaxAttempts THEN "READY" ELSE "FAILED"

ExpiredRun(t, n) == runs[t][n].status = "RUNNING" /\ ~runs[t][n].live

\* The conditional UPDATE of the run, and the task in the same transaction.
Reclaim(d, t, n) ==
    LET count == Larger(attempts[t], n)
        to == AfterLoss(t, count)
    IN  /\ pc[d] = "reclaim" /\ ExpiredRun(t, n)
        /\ <<status[t], to>> \in TaskTransitions
        /\ runs' = [runs EXCEPT ![t][n].status = "LOST", ![t][n].owner = d]
        /\ ReleaseTaskLease(t)
        /\ attempts' = [attempts EXCEPT ![t] = count]
        /\ status' = Moved(t, to)
        /\ UNCHANGED <<cancelReq, worldVars, pc, todo, cur, memo, requestVars>>

\* KernelStateError: the transaction is rolled back and the tick ends.
ReclaimRaises(d, t, n) ==
    /\ pc[d] = "reclaim" /\ ExpiredRun(t, n)
    /\ <<status[t], AfterLoss(t, Larger(attempts[t], n))>> \notin TaskTransitions
    /\ Goto(d, "idle")
    /\ UNCHANGED <<taskVars, runs, worldVars, todo, cur, memo, requestVars>>

StartTick(d) ==
    /\ pc[d] = "idle"
    /\ Goto(d, "reclaim")
    /\ UNCHANGED <<taskVars, runs, worldVars, todo, cur, memo, requestVars>>

-----------------------------------------------------------------------------
(***************************************************************************)
(* Phase 2: RUNNING tasks without a RUNNING run.  Listed by their lease,   *)
(* read again without it, and written by primary key.                      *)
(***************************************************************************)
FindOrphans(d) ==
    /\ pc[d] = "reclaim"
    /\ \A t \in Tasks : \A n \in DOMAIN runs[t] : ~ExpiredRun(t, n)
    /\ Goto(d, "orphans")
    /\ todo' = [todo EXCEPT ![d] = {t \in Tasks : status[t] = "RUNNING" /\ lease[t] # "live"}]
    /\ UNCHANGED <<taskVars, runs, worldVars, cur, memo, requestVars>>

HasRun(t, state) == \E n \in DOMAIN runs[t] : runs[t][n].status = state

\* Mutant: a task with an active run is taken for an orphan.
IsOrphanByStatus(t) == status[t] = "RUNNING"

IsOrphan(t) == status[t] = "RUNNING" /\ ~HasRun(t, "RUNNING")

\* An orphaned claim counts as an attempt only when the task has no run.
OrphanAttempts(t) ==
    IF Len(runs[t]) > 0 THEN Larger(attempts[t], Len(runs[t])) ELSE attempts[t] + 1

\* Mutant: any run is taken for a success.
OrphanTargetByRun(t) ==
    IF cancelReq[t] THEN "CANCELLED"
    ELSE IF Len(runs[t]) > 0 THEN "SUCCEEDED" ELSE AfterLoss(t, OrphanAttempts(t))

OrphanTarget(t) ==
    IF cancelReq[t] THEN "CANCELLED"
    ELSE IF HasRun(t, "SUCCEEDED") THEN "SUCCEEDED"
    ELSE AfterLoss(t, OrphanAttempts(t))

\* The session writes attempt_count by primary key, if the code changed the
\* value it had read: the value to write, 0 for none.
Dirty(read, computed) == IF computed = read THEN 0 ELSE computed
Flushed(stored, dirty) == IF dirty = 0 THEN stored ELSE dirty

OrphanRead(d, t) ==
    /\ pc[d] = "orphans"
    /\ IF IsOrphan(t)
       THEN /\ Goto(d, "recover")
            /\ cur' = [cur EXCEPT ![d] = [task |-> t, run |-> 0]]
            /\ memo' = [memo EXCEPT ![d] =
                  [to |-> OrphanTarget(t), run |-> 0,
                   attempts |-> IF OrphanTarget(t) \in {"READY", "FAILED"}
                                THEN Dirty(attempts[t], OrphanAttempts(t)) ELSE 0]]
       ELSE UNCHANGED <<pc, cur, memo>>
    /\ todo' = [todo EXCEPT ![d] = @ \ {t}]
    /\ UNCHANGED <<taskVars, runs, worldVars, requestVars>>

OrphanWrite(d) ==
    LET t == cur[d].task
    IN  /\ pc[d] = "recover"
        /\ status' = Moved(t, memo[d].to)
        /\ attempts' = [attempts EXCEPT ![t] = Flushed(@, memo[d].attempts)]
        /\ ReleaseTaskLease(t)
        /\ Goto(d, "orphans")
        /\ cur' = [cur EXCEPT ![d] = NoRun]
        /\ memo' = [memo EXCEPT ![d] = NoMemo]
        /\ UNCHANGED <<cancelReq, runs, worldVars, todo, requestVars>>

\* reconcile called for itself ends here; a tick goes on to dispatch.
EndReconcile(d) ==
    /\ pc[d] = "orphans" /\ todo[d] = {}
    /\ Goto(d, "idle")
    /\ UNCHANGED <<taskVars, runs, worldVars, todo, cur, memo, requestVars>>

-----------------------------------------------------------------------------
(***************************************************************************)
(* Dispatch: list the READY tasks, claim one, create its run, execute it,  *)
(* finalise run and task in one transaction.                               *)
(***************************************************************************)
Claimable(t) == status[t] = "READY" /\ ~cancelReq[t] /\ lease[t] # "live"

\* A tick goes on with the READY tasks, one after the other.
ListReadyTasks(d) ==
    /\ pc[d] = "orphans" /\ todo[d] = {}
    /\ Goto(d, "dispatch")
    /\ todo' = [todo EXCEPT ![d] = {t \in Tasks : Claimable(t)}]
    /\ UNCHANGED <<taskVars, runs, worldVars, cur, memo, requestVars>>

\* The conditional UPDATE finds no row: cancelled, or claimed by another.
SkipTask(d, t) ==
    /\ pc[d] = "dispatch" /\ ~Claimable(t)
    /\ todo' = [todo EXCEPT ![d] = @ \ {t}]
    /\ UNCHANGED <<taskVars, runs, worldVars, pc, cur, memo, requestVars>>

ClaimTask(d, t) ==
    /\ pc[d] = "dispatch"
    /\ Claimable(t) /\ Len(runs[t]) < MaxRuns
    /\ todo' = [todo EXCEPT ![d] = @ \ {t}]
    /\ status' = [status EXCEPT ![t] = "RUNNING"]
    /\ owner' = [owner EXCEPT ![t] = d]
    /\ lease' = [lease EXCEPT ![t] = "live"]
    /\ cur' = [cur EXCEPT ![d] = [task |-> t, run |-> 0]]
    /\ Goto(d, "claimed")
    /\ UNCHANGED <<cancelReq, attempts, runs, worldVars, memo, requestVars>>

Holds(d, t) == owner[t] = d /\ status[t] = "RUNNING"

\* cancel_claimed_task: the fence is read, the row written by primary key.
CancelClaimedRead(d) ==
    LET t == cur[d].task
    IN  /\ pc[d] = "claimed" /\ cancelReq[t]
        /\ IF Holds(d, t)
           THEN Goto(d, "cancel") /\ UNCHANGED cur
           ELSE Goto(d, "dispatch") /\ cur' = [cur EXCEPT ![d] = NoRun]
        /\ UNCHANGED <<taskVars, runs, worldVars, todo, memo, requestVars>>

CancelClaimedWrite(d) ==
    LET t == cur[d].task
    IN  /\ pc[d] = "cancel"
        /\ status' = Moved(t, "CANCELLED")
        /\ ReleaseTaskLease(t)
        /\ Goto(d, "dispatch")
        /\ cur' = [cur EXCEPT ![d] = NoRun]
        /\ UNCHANGED <<cancelReq, attempts, runs, worldVars, todo, memo, requestVars>>

\* release_lease, which keeps the status: phase 2 finds the task again.
GiveUp(d, t) ==
    /\ IF owner[t] = d THEN ReleaseTaskLease(t) ELSE UNCHANGED <<owner, lease>>
    /\ Goto(d, "dispatch")
    /\ cur' = [cur EXCEPT ![d] = NoRun]
    /\ memo' = [memo EXCEPT ![d] = NoMemo]

\* create_run, the reads: the fence, and the next run_number.
CreateRunRead(d) ==
    LET t == cur[d].task
    IN  /\ pc[d] = "claimed" /\ ~cancelReq[t]
        /\ IF Holds(d, t)
           THEN /\ Goto(d, "insert")
                /\ memo' = [memo EXCEPT ![d].run = Len(runs[t]) + 1,
                                        ![d].attempts =
                                            Dirty(attempts[t], Larger(attempts[t], Len(runs[t]) + 1))]
                /\ UNCHANGED <<owner, lease, cur>>
           ELSE GiveUp(d, t)
        /\ UNCHANGED <<status, cancelReq, attempts, runs, worldVars, todo, requestVars>>

\* create_run, the INSERT: UNIQUE (task_id, run_number) refuses a number taken.
CreateRunInsert(d) ==
    LET t == cur[d].task
        n == memo[d].run
    IN  /\ pc[d] = "insert"
        /\ IF n = Len(runs[t]) + 1
           THEN /\ runs' = [runs EXCEPT ![t] =
                               Append(@, [status |-> "RUNNING", owner |-> d, live |-> TRUE])]
                /\ attempts' = [attempts EXCEPT ![t] = Flushed(@, memo[d].attempts)]
                /\ Goto(d, "run")
                /\ cur' = [cur EXCEPT ![d].run = n]
                /\ memo' = [memo EXCEPT ![d] = NoMemo]
                /\ UNCHANGED <<owner, lease>>
           ELSE GiveUp(d, t) /\ UNCHANGED <<runs, attempts>>
        /\ UNCHANGED <<status, cancelReq, worldVars, todo, requestVars>>

\* execute_run: the policy boundary, which fails closed, and the grant, which
\* is consumed by a compare-and-swap before the handler is entered.
Denied(d) ==
    LET t == cur[d].task
    IN  /\ pc[d] = "run"
        /\ grant[t] = "consumed" \/ "deny" \in Faults
        /\ memo' = [memo EXCEPT ![d].to = "DENIED"]
        /\ Goto(d, "finalize")
        /\ UNCHANGED <<taskVars, runs, worldVars, todo, cur, requestVars>>

\* Mutant: the grant is checked and not consumed.
EnterHandlerUnconsumed(d) ==
    LET t == cur[d].task
    IN  /\ pc[d] = "run"
        /\ grant[t] # "consumed"
        /\ entered' = [entered EXCEPT ![t] = IF t \in NeedsGrant THEN @ + 1 ELSE @]
        /\ Goto(d, "handler")
        /\ UNCHANGED <<taskVars, runs, grant, todo, cur, memo, requestVars>>

EnterHandler(d) ==
    LET t == cur[d].task
    IN  /\ pc[d] = "run"
        /\ grant[t] # "consumed"
        /\ grant' = [grant EXCEPT ![t] = IF t \in NeedsGrant THEN "consumed" ELSE @]
        /\ entered' = [entered EXCEPT ![t] = IF t \in NeedsGrant THEN @ + 1 ELSE @]
        /\ Goto(d, "handler")
        /\ UNCHANGED <<taskVars, runs, todo, cur, memo, requestVars>>

\* The handler returns, or raises a retryable error.
HandlerEnds(d, outcome) ==
    /\ pc[d] = "handler"
    /\ outcome = "FAILED" => "handler" \in Faults
    /\ memo' = [memo EXCEPT ![d].to = outcome]
    /\ Goto(d, "finalize")
    /\ UNCHANGED <<taskVars, runs, worldVars, todo, cur, requestVars>>

\* Mutant: no fence.
RunIsAnyones(d, t, n) == TRUE

\* The fence of every write to a run.
RunIsMine(d, t, n) == runs[t][n].status = "RUNNING" /\ runs[t][n].owner = d

\* The renewal loop, as long as the handler lets the event loop run.
RenewLeases(d) ==
    LET t == cur[d].task
        n == cur[d].run
    IN  /\ pc[d] = "handler" /\ RunIsMine(d, t, n)
        /\ runs' = [runs EXCEPT ![t][n].live = TRUE]
        /\ lease' = [lease EXCEPT ![t] = IF Holds(d, t) THEN "live" ELSE @]
        /\ UNCHANGED <<status, cancelReq, owner, attempts, worldVars,
                       pc, todo, cur, memo, requestVars>>

\* finalize_and_complete: where run and task go.
RunEnds(outcome) == IF outcome = "SUCCEEDED" THEN "SUCCEEDED" ELSE "FAILED"

AdvanceTo(t, n, outcome) ==
    IF outcome = "SUCCEEDED" THEN "SUCCEEDED"
    ELSE IF cancelReq[t] THEN "CANCELLED"
    ELSE IF outcome = "FAILED" /\ Larger(attempts[t], n) < MaxAttempts THEN "READY"
    ELSE "FAILED"

FinalizeAndComplete(d) ==
    LET t == cur[d].task
        n == cur[d].run
        to == AdvanceTo(t, n, memo[d].to)
    IN  /\ pc[d] = "finalize"
        /\ IF RunIsMine(d, t, n) /\ <<status[t], to>> \in TaskTransitions
           THEN /\ runs' = [runs EXCEPT ![t][n].status = RunEnds(memo[d].to), ![t][n].owner = None]
                /\ attempts' = [attempts EXCEPT ![t] =
                                   IF memo[d].to = "SUCCEEDED" THEN @ ELSE Larger(@, n)]
                /\ status' = Moved(t, to)
                /\ ReleaseTaskLease(t)
           ELSE UNCHANGED <<runs, attempts, status, owner, lease>>
        /\ Goto(d, "dispatch")
        /\ cur' = [cur EXCEPT ![d] = NoRun]
        /\ memo' = [memo EXCEPT ![d] = NoMemo]
        /\ UNCHANGED <<cancelReq, worldVars, todo, requestVars>>

EndTick(d) ==
    /\ pc[d] = "dispatch" /\ todo[d] = {}
    /\ Goto(d, "idle")
    /\ UNCHANGED <<taskVars, runs, worldVars, todo, cur, memo, requestVars>>

-----------------------------------------------------------------------------
(***************************************************************************)
(* Cancellation: the row is read, then cancel_requested and, for a task    *)
(* that was not running, CANCELLED are written by primary key.             *)
(***************************************************************************)
CancelRead(r, t) ==
    /\ rq[r] = None /\ status[t] # "absent"
    /\ rq' = [rq EXCEPT ![r] = t]
    /\ rqSeen' = [rqSeen EXCEPT ![r] = status[t]]
    /\ UNCHANGED <<taskVars, runs, worldVars, pc, todo, cur, memo, crashes>>

CancelWrite(r) ==
    LET t == rq[r]
    IN  /\ rqSeen[r] # "absent"
        /\ cancelReq' = [cancelReq EXCEPT ![t] = TRUE]
        /\ IF rqSeen[r] \in {"READY", "BLOCKED"}
           THEN status' = Moved(t, "CANCELLED") /\ ReleaseTaskLease(t)
           ELSE UNCHANGED <<status, owner, lease>>
        /\ rqSeen' = [rqSeen EXCEPT ![r] = "absent"]
        /\ UNCHANGED <<attempts, runs, worldVars, pc, todo, cur, memo, rq, crashes>>

-----------------------------------------------------------------------------
(***************************************************************************)
(* Failures.  A restarted dispatcher has a new worker id: rows of the dead *)
(* one belong to Ghost.  The handlers of the orchestration service block   *)
(* the event loop, so a lease may run out under a live execution.          *)
(***************************************************************************)
Forgets(d) ==
    /\ Goto(d, "idle")
    /\ todo' = [todo EXCEPT ![d] = {}]
    /\ cur' = [cur EXCEPT ![d] = NoRun]
    /\ memo' = [memo EXCEPT ![d] = NoMemo]
    /\ owner' = [t \in Tasks |-> IF owner[t] = d THEN Ghost ELSE owner[t]]
    /\ runs' = [t \in Tasks |-> [n \in DOMAIN runs[t] |->
                  IF runs[t][n].owner = d THEN [runs[t][n] EXCEPT !.owner = Ghost]
                  ELSE runs[t][n]]]
    /\ UNCHANGED <<status, cancelReq, lease, attempts, worldVars>>

Crash(d) ==
    /\ crashes < MaxCrashes /\ pc[d] # "idle"
    /\ crashes' = crashes + 1
    /\ Forgets(d)
    /\ UNCHANGED <<rq, rqSeen>>

TaskLeaseExpires(t) ==
    /\ lease[t] = "live"
    /\ \/ owner[t] = Ghost
       \/ "stall" \in Faults
       \/ /\ "block" \in Faults /\ owner[t] \in Dispatchers
          /\ cur[owner[t]].task = t /\ cur[owner[t]].run > 0
    /\ lease' = [lease EXCEPT ![t] = "expired"]
    /\ UNCHANGED <<status, cancelReq, owner, attempts, runs, worldVars,
                   pc, todo, cur, memo, requestVars>>

RunLeaseExpires(t, n) ==
    /\ runs[t][n].status = "RUNNING" /\ runs[t][n].live
    /\ runs[t][n].owner = Ghost \/ "block" \in Faults
    /\ runs' = [runs EXCEPT ![t][n].live = FALSE]
    /\ UNCHANGED <<taskVars, worldVars, pc, todo, cur, memo, requestVars>>

-----------------------------------------------------------------------------
ReconcileStep(d) ==
    \/ StartTick(d) \/ FindOrphans(d) \/ OrphanWrite(d)
    \/ \E t \in Tasks : \E n \in DOMAIN runs[t] : Reclaim(d, t, n) \/ ReclaimRaises(d, t, n)
    \/ \E t \in todo[d] : OrphanRead(d, t)

ClaimStep(d) ==
    \/ ListReadyTasks(d)
    \/ \E t \in todo[d] : ClaimTask(d, t) \/ SkipTask(d, t)
    \/ CancelClaimedRead(d) \/ CancelClaimedWrite(d)
    \/ CreateRunRead(d) \/ CreateRunInsert(d)
    \/ Denied(d) \/ EnterHandler(d)
    \/ EndTick(d)

DispatchStep(d) ==
    \/ ClaimStep(d)
    \/ \E outcome \in {"SUCCEEDED", "FAILED"} : HandlerEnds(d, outcome)
    \/ FinalizeAndComplete(d)

CancelStep(r) == CancelWrite(r) \/ \E t \in Tasks : CancelRead(r, t)

LeaseStep ==
    \E t \in Tasks : TaskLeaseExpires(t) \/ \E n \in DOMAIN runs[t] : RunLeaseExpires(t, n)

KernelNext ==
    \/ \E t \in Tasks : status[t] = "absent" /\ CreateTask(t)
    \/ \E d \in Dispatchers :
          ReconcileStep(d) \/ EndReconcile(d) \/ DispatchStep(d) \/ RenewLeases(d) \/ Crash(d)
    \/ \E r \in Requests : CancelStep(r)
    \/ LeaseStep

KernelSpec == KernelInit /\ [][KernelNext]_kernelVars

-----------------------------------------------------------------------------
(***************************************************************************)
(* Properties.                                                             *)
(***************************************************************************)
\* The rows and the locals of the dispatchers have the values of their
\* columns; a run ends as SUCCEEDED, FAILED or LOST whatever its outcome.
KernelTypeOK ==
    /\ status \in [Tasks -> TaskStatus]
    /\ cancelReq \in [Tasks -> BOOLEAN]
    /\ owner \in [Tasks -> Owners]
    /\ lease \in [Tasks -> {"none", "live", "expired"}]
    /\ attempts \in [Tasks -> Nat]
    /\ runs \in [Tasks -> Seq([status : RunStatus, owner : Owners, live : BOOLEAN])]
    /\ grant \in [Tasks -> {"none", "live", "consumed"}]
    /\ entered \in [Tasks -> Nat]
    /\ pc \in [Dispatchers -> {"idle", "reclaim", "orphans", "recover", "dispatch",
                               "claimed", "cancel", "insert", "run", "handler", "finalize"}]
    /\ rqSeen \in [Requests -> TaskStatus]

\* A task that SUCCEEDED has a run that did: two dispatchers that reclaim,
\* recover, finalise and cancel one task at the same time, one of them from
\* rows read earlier, never report a success no run had.
SucceededHasRun == \A t \in Tasks : status[t] = "SUCCEEDED" => HasRun(t, "SUCCEEDED")

\* Whatever cancels, loses or recovers a parent, and whoever writes last, a
\* task is executed only after a run of each of its parents has succeeded
\* (_reevaluate_children, create_task).
DependentsWait ==
    \A t \in Tasks : Len(runs[t]) > 0 => \A p \in Parents[t] : HasRun(p, "SUCCEEDED")

\* A one-shot approval grant lets its handler be entered once, although lost
\* and recovered runs execute the task again and two dispatchers may do so at
\* the same time (_validate_approval_grant).
OneEntryPerGrant == \A t \in NeedsGrant : entered[t] <= 1

\* A task never has two active runs, and the one it has belongs to a RUNNING
\* task: otherwise the transition of its reclaim is refused, in every tick,
\* before anything is dispatched.  This is for a dispatcher that is alone, as
\* the engine's is: the recovery of an orphaned claim writes by primary key
\* what it read before, and two dispatchers that recover the same one both
\* execute it.
OneActiveRun ==
    \A t \in Tasks : \A n \in DOMAIN runs[t] :
        runs[t][n].status = "RUNNING" =>
            /\ status[t] = "RUNNING"
            /\ \A m \in DOMAIN runs[t] : runs[t][m].status = "RUNNING" => m = n

\* Crashes, orphaned claims and failures together start at most max_attempts
\* runs of a task.
RunsBounded == \A t \in Tasks : Len(runs[t]) <= MaxAttempts

\* A run that ended is never written again: a worker that lost its lease does
\* not overwrite the LOST its successor recorded (finalize_and_complete).
RunRowsAreFinal ==
    [][\A t \in Tasks : \A n \in DOMAIN runs[t] :
          runs[t][n].status # "RUNNING" => runs'[t][n].status = runs[t][n].status]_kernelVars

=============================================================================
