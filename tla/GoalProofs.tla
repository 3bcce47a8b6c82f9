----------------------------- MODULE GoalProofs -----------------------------
(***************************************************************************)
(* Proofs about GoalEngine, for every number of cycles, attempts, flows    *)
(* and kills, every set of services and every set of faults.  The first    *)
(* part is about the kernel with one dispatcher and no cancellation, which *)
(* is how the engine runs it; the second about the goal.                   *)
(***************************************************************************)
EXTENDS GoalEngine, KernelProofs

LEMMA Solo == Dispatchers = {Engine} /\ Requests = {} /\ Engine \notin {None, Ghost}
  BY GoalAlone, KernelNames

\* A task whose dispatcher is alone and whom nobody cancels: its last run only
\* may be active, and what it may still cost is counted.
Waiting(t) == status[t] = "READY" \/ IsOrphan(t)

SoloTask(t) ==
    /\ ~cancelReq[t]
    /\ \A n \in DOMAIN runs[t] :
          runs[t][n].status = "RUNNING" => status[t] = "RUNNING" /\ n = Len(runs[t])
    /\ HasRun(t, "SUCCEEDED") => status[t] = "SUCCEEDED"
    /\ Len(runs[t]) <= MaxAttempts
    /\ status[t] \in {"absent", "BLOCKED"} => Len(runs[t]) = 0 /\ attempts[t] = 0
    /\ Waiting(t) => Len(runs[t]) <= attempts[t] /\ attempts[t] < MaxAttempts

\* What the engine has in its hands nobody else changes.
Hand ==
    /\ pc[Engine] # "cancel"
    /\ pc[Engine] \in {"recover", "claimed", "insert"} => IsOrphan(cur[Engine].task)
    /\ pc[Engine] = "recover" =>
          LET t == cur[Engine].task
          IN  /\ memo[Engine].to = AfterLoss(t, OrphanAttempts(t))
              /\ memo[Engine].attempts = Dirty(attempts[t], OrphanAttempts(t))
    /\ Working(Engine) => RunIsMine(Engine, cur[Engine].task, cur[Engine].run)

SoloInv == KernelInv /\ (\A t \in Tasks : SoloTask(t)) /\ Hand

-----------------------------------------------------------------------------
(***************************************************************************)
(* The kernel under one dispatcher.                                        *)
(***************************************************************************)
\* What a step that finalises nothing and creates nothing does to a task.
Calm(t) ==
    /\ status'[t] = "absent" <=> status[t] = "absent"
    /\ status[t] \in TerminalTask => status'[t] = status[t]
    /\ status'[t] = "SUCCEEDED" => status[t] = "SUCCEEDED"

\* The runs of a task are as many and stand as they did.
SameRuns(t) ==
    /\ Len(runs'[t]) = Len(runs[t]) /\ DOMAIN runs'[t] = DOMAIN runs[t]
    /\ \A n \in DOMAIN runs[t] : runs'[t][n].status = runs[t][n].status

SameOwners(t) == \A n \in DOMAIN runs[t] : runs'[t][n].owner = runs[t][n].owner

LEMMA SameHas ==
  ASSUME NEW t \in Tasks, SameRuns(t), NEW state PROVE HasRun(t, state)' <=> HasRun(t, state)
  BY DEF SameRuns, HasRun

LEMMA RunsSame ==
  ASSUME KernelInv, UNCHANGED runs, NEW t \in Tasks PROVE SameRuns(t) /\ SameOwners(t)
  BY DEF SameRuns, SameOwners

\* Dependents of a task that moved were blocked.
LEMMA MovedBlocked ==
  ASSUME KernelTypeOK, NEW t \in Tasks, NEW to \in TaskStatus, NEW c \in Tasks, c # t,
         Moved(t, to)[c] # status[c]
  PROVE  status[c] = "BLOCKED" /\ Moved(t, to)[c] \in {"READY", "CANCELLED"}
<1> DEFINE rows == [status EXCEPT ![t] = to]
<1>1. rows[c] = status[c]
  BY DEF KernelTypeOK
<1> HIDE DEF rows
<1>2. Moved(t, to) = IF to \in TerminalTask THEN ReevaluateChildren(rows, t) ELSE rows
  BY DEF Moved, rows
<1>3. ReevaluateChildren(rows, t)[c] = IF c \in Doomed(rows, t) THEN "CANCELLED"
                                       ELSE IF c \in Freed(rows, t) THEN "READY" ELSE rows[c]
  BY DEF ReevaluateChildren
<1>4. c \in Doomed(rows, t) \cup Freed(rows, t) => rows[c] = "BLOCKED"
  BY DEF Doomed, Freed
<1> QED
  BY <1>1, <1>2, <1>3, <1>4

\* A task nobody works on.
LEMMA SoloKept ==
  ASSUME SoloInv, NEW t \in Tasks, SameRuns(t), cancelReq'[t] = cancelReq[t], attempts'[t] = attempts[t],
         \/ status'[t] = status[t]
         \/ status[t] \in {"absent", "BLOCKED"} /\ status'[t] \in {"BLOCKED", "READY", "CANCELLED"}
  PROVE  SoloTask(t)'
<1>1. SoloTask(t) /\ Len(runs[t]) \in Nat /\ DOMAIN runs[t] = 1 .. Len(runs[t]) /\ attempts[t] \in Nat
  BY RunsTyped DEF SoloInv, KernelInv, KernelTypeOK
<1>2. /\ HasRun(t, "SUCCEEDED")' <=> HasRun(t, "SUCCEEDED")
      /\ HasRun(t, "RUNNING")' <=> HasRun(t, "RUNNING")
  BY SameHas
<1>3. MaxAttempts \in Nat \ {0}
  BY KernelAttempts
<1>4. CASE status'[t] = status[t]
  BY <1>1, <1>2, <1>4 DEF SoloTask, SameRuns, Waiting, IsOrphan
<1>5. CASE status[t] \in {"absent", "BLOCKED"} /\ status'[t] \in {"BLOCKED", "READY", "CANCELLED"}
  <2>1. Len(runs[t]) = 0 /\ attempts[t] = 0 /\ DOMAIN runs[t] = {} /\ ~cancelReq[t]
    BY <1>1, <1>5 DEF SoloTask
  <2>2. ~HasRun(t, "SUCCEEDED")
    BY <2>1 DEF HasRun
  <2> QED
    BY <1>2, <1>3, <1>5, <2>1, <2>2 DEF SoloTask, SameRuns, Waiting, IsOrphan
<1> QED
  BY <1>4, <1>5

\* What the engine holds stays in its hands when its task is not touched.
LEMMA HandKept ==
  ASSUME SoloInv, UNCHANGED <<pc, cur, memo>>,
         Busy(Engine) => \A t \in Tasks : t = cur[Engine].task =>
            /\ SameRuns(t) /\ SameOwners(t) /\ status'[t] = status[t]
            /\ attempts'[t] = attempts[t] /\ cancelReq'[t] = cancelReq[t]
  PROVE  Hand'
<1>1. CASE ~Busy(Engine)
  BY <1>1 DEF SoloInv, Hand, Busy, Working
<1>2. CASE Busy(Engine)
  <2>1. Placed(Engine) /\ Hand
    BY Solo DEF SoloInv, KernelInv
  <2>2. PICK t \in Tasks : t = cur[Engine].task
    BY <1>2, <2>1 DEF Placed
  <2>3. /\ SameRuns(t) /\ SameOwners(t) /\ status'[t] = status[t]
        /\ attempts'[t] = attempts[t] /\ cancelReq'[t] = cancelReq[t]
    BY <1>2, <2>2
  <2>4. HasRun(t, "RUNNING")' <=> HasRun(t, "RUNNING")
    BY <2>3, SameHas
  <2>5. /\ AfterLoss(t, OrphanAttempts(t))' = AfterLoss(t, OrphanAttempts(t))
        /\ OrphanAttempts(t)' = OrphanAttempts(t)
    BY <2>3 DEF AfterLoss, OrphanAttempts, SameRuns
  <2>6. Working(Engine) => cur[Engine].run \in DOMAIN runs[t] /\ RunIsMine(Engine, t, cur[Engine].run)
    BY <2>1, <2>2 DEF Placed, Hand
  <2>7. Working(Engine) => RunIsMine(Engine, t, cur[Engine].run)'
    BY <2>3, <2>6 DEF RunIsMine, SameRuns, SameOwners
  <2>8. cur'[Engine].task = t /\ (Working(Engine)' <=> Working(Engine))
    BY <2>2 DEF Working
  <2> QED
    BY <2>1, <2>2, <2>3, <2>4, <2>5, <2>7, <2>8 DEF Hand, IsOrphan
<1> QED
  BY <1>1, <1>2

\* Steps that leave the rows as they are.
LEMMA RowsRest ==
  ASSUME SoloInv, KernelInv', UNCHANGED <<status, cancelReq, attempts>>,
         \A t \in Tasks : SameRuns(t), Hand'
  PROVE  SoloInv' /\ \A t \in Tasks : Calm(t)
<1>1. \A t \in Tasks : SoloTask(t)'
  BY SoloKept
<1> QED
  BY <1>1 DEF SoloInv, Calm

\* Steps that write the row of one task, and the blocked dependents of it.
LEMMA RowsMove ==
  ASSUME SoloInv, KernelInv', NEW t \in Tasks, SoloTask(t)', Hand', UNCHANGED cancelReq,
         NEW to \in TaskStatus, status' = Moved(t, to) \/ status' = [status EXCEPT ![t] = to],
         \A u \in Tasks : u # t => SameRuns(u) /\ attempts'[u] = attempts[u]
  PROVE  SoloInv' /\ \A u \in Tasks : u # t => Calm(u)
<1>1. ASSUME NEW u \in Tasks, u # t
      PROVE  \/ status'[u] = status[u]
             \/ status[u] = "BLOCKED" /\ status'[u] \in {"READY", "CANCELLED"}
  <2>1. KernelTypeOK /\ status \in [Tasks -> TaskStatus]
    BY DEF SoloInv, KernelInv, KernelTypeOK
  <2>2. CASE status' = Moved(t, to)
    BY <1>1, <2>1, <2>2, MovedBlocked
  <2>3. CASE status' = [status EXCEPT ![t] = to]
    BY <1>1, <2>1, <2>3
  <2> QED
    BY <2>2, <2>3
<1>2. ASSUME NEW u \in Tasks, u # t PROVE SoloTask(u)' /\ Calm(u)
  <2>1. SoloTask(u)'
    BY <1>1, <1>2, SoloKept
  <2>2. Calm(u)
    BY <1>1, <1>2 DEF Calm, TerminalTask
  <2> QED
    BY <2>1, <2>2
<1>3. \A u \in Tasks : SoloTask(u)'
  BY <1>2
<1> QED
  BY <1>2, <1>3 DEF SoloInv

-----------------------------------------------------------------------------
(***************************************************************************)
(* The engine's steps on the kernel, one lemma each.                       *)
(***************************************************************************)
LEMMA CreateSolo ==
  ASSUME SoloInv, NEW t \in Tasks, CreateTask(t)
  PROVE  /\ SoloInv' /\ RunsGrow
         /\ status'[t] # "absent" /\ (status'[t] = "SUCCEEDED" <=> status[t] = "SUCCEEDED")
         /\ status[t] # "absent" => status'[t] = status[t]
         /\ \A u \in Tasks : u # t => status'[u] = status[u]
<1>1. KernelInv' /\ RunsGrow
  BY CreateKeeps DEF SoloInv
<1>2. /\ UNCHANGED <<cancelReq, attempts, runs, pc, cur, memo>>
      /\ status' = [status EXCEPT ![t] =
                      IF @ # "absent" THEN @
                      ELSE IF UnmetParents(status, t) = {} THEN "READY" ELSE "BLOCKED"]
  BY DEF CreateTask
<1>3. /\ status \in [Tasks -> TaskStatus] /\ \A u \in Tasks : u # t => status'[u] = status[u]
      /\ status[t] # "absent" => status'[t] = status[t]
      /\ status[t] = "absent" => status'[t] \in {"READY", "BLOCKED"}
  BY <1>2 DEF SoloInv, KernelInv, KernelTypeOK
<1>4. \A u \in Tasks : SameRuns(u) /\ SameOwners(u)
  BY <1>2, RunsSame DEF SoloInv
<1>5. \A u \in Tasks : SoloTask(u)'
  BY <1>2, <1>3, <1>4, SoloKept
<1>6. ASSUME Busy(Engine), NEW u \in Tasks, u = cur[Engine].task PROVE status[u] # "absent"
  <2>1. CASE Working(Engine)
    <3>1. cur[Engine].run \in DOMAIN runs[u] /\ runs[u][cur[Engine].run].status = "RUNNING"
      BY <1>6, <2>1, Solo DEF SoloInv, Hand, RunIsMine, KernelInv, Placed
    <3> QED
      BY <3>1 DEF SoloInv, SoloTask
  <2>2. CASE ~Working(Engine)
    BY <1>6, <2>2 DEF SoloInv, Hand, Busy, Working, IsOrphan
  <2> QED
    BY <2>1, <2>2
<1>7. Hand'
  BY <1>2, <1>3, <1>4, <1>6, HandKept
<1> QED
  BY <1>1, <1>3, <1>5, <1>7 DEF SoloInv

LEMMA LeaseSolo ==
  ASSUME SoloInv, LeaseStep PROVE SoloInv' /\ RunsGrow /\ \A t \in Tasks : Calm(t)
<1>1. KernelInv' /\ RunsGrow
  BY LeaseKeeps DEF SoloInv
<1>2. UNCHANGED <<status, cancelReq, attempts, pc, cur, memo>>
  BY DEF LeaseStep, TaskLeaseExpires, RunLeaseExpires, taskVars
<1>3. \A u \in Tasks : SameRuns(u) /\ SameOwners(u)
  <2>1. CASE UNCHANGED runs
    BY <2>1, RunsSame DEF SoloInv
  <2>2. ASSUME NEW t \in Tasks, NEW n \in DOMAIN runs[t], RunLeaseExpires(t, n), NEW u \in Tasks
        PROVE  SameRuns(u) /\ SameOwners(u)
    <3> DEFINE row == [runs[t][n] EXCEPT !.live = FALSE]
               new == [runs[t] EXCEPT ![n] = row]
    <3>1. row.status = runs[t][n].status /\ row.owner = runs[t][n].owner /\ row \in RunRow
      BY RunsTyped DEF RunRow, SoloInv, KernelInv
    <3>2. runs' = [runs EXCEPT ![t] = new] /\ runs \in [Tasks -> Seq(RunRow)]
      BY <2>2, RunsTyped DEF RunLeaseExpires, SoloInv, KernelInv
    <3>3. /\ Len(new) = Len(runs[t]) /\ DOMAIN new = DOMAIN runs[t]
          /\ \A m \in DOMAIN runs[t] : new[m] = IF m = n THEN row ELSE runs[t][m]
      BY <3>1, RunsTyped, ExceptSeq, LenProperties DEF SoloInv, KernelInv
    <3> HIDE DEF row, new
    <3>4. runs'[u] = IF u = t THEN new ELSE runs[u]
      BY <3>2
    <3> QED
      BY <3>1, <3>3, <3>4 DEF SameRuns, SameOwners
  <2> QED
    BY <2>1, <2>2 DEF LeaseStep, TaskLeaseExpires
<1>4. Hand'
  BY <1>2, <1>3, HandKept
<1> QED
  BY <1>1, <1>2, <1>3, <1>4, RowsRest

\* The engine's own step to a place that holds nothing.
LEMMA RestSolo ==
  ASSUME SoloInv,
         \/ StartTick(Engine) \/ FindOrphans(Engine) \/ EndReconcile(Engine)
         \/ ListReadyTasks(Engine) \/ EndTick(Engine)
         \/ (\E t \in Tasks : \E n \in DOMAIN runs[t] : ReclaimRaises(Engine, t, n))
         \/ (\E t \in todo[Engine] : SkipTask(Engine, t))
  PROVE  SoloInv' /\ RunsGrow /\ \A t \in Tasks : Calm(t)
<1>1. KernelInv' /\ RunsGrow
  BY Solo, RestKeeps DEF SoloInv
<1>2. /\ UNCHANGED <<status, cancelReq, attempts, runs>>
      /\ pc'[Engine] \in {"idle", "reclaim", "orphans", "dispatch"}
  BY Solo DEF StartTick, FindOrphans, EndReconcile, ListReadyTasks, EndTick, ReclaimRaises, SkipTask,
     Goto, taskVars, SoloInv, KernelInv, KernelTypeOK
<1>3. Hand'
  BY <1>2 DEF Hand, Working
<1> QED
  BY <1>1, <1>2, <1>3, RowsRest, RunsSame DEF SoloInv

LEMMA ForgetsSolo ==
  ASSUME SoloInv, Forgets(Engine), UNCHANGED <<rq, rqSeen>>
  PROVE  SoloInv' /\ RunsGrow /\ (\A t \in Tasks : Calm(t)) /\ pc'[Engine] = "idle"
<1>1. KernelInv' /\ RunsGrow
  BY Solo, ForgetsKeeps DEF SoloInv
<1>2. /\ UNCHANGED <<status, cancelReq, attempts>> /\ pc'[Engine] = "idle"
      /\ runs' = [t \in Tasks |-> [n \in DOMAIN runs[t] |->
                    IF runs[t][n].owner = Engine THEN [runs[t][n] EXCEPT !.owner = Ghost]
                    ELSE runs[t][n]]]
  BY Solo DEF Forgets, Goto, SoloInv, KernelInv, KernelTypeOK
<1>3. ASSUME NEW t \in Tasks PROVE SameRuns(t)
  <2>1. /\ DOMAIN runs[t] = 1 .. Len(runs[t]) /\ Len(runs[t]) \in Nat
        /\ DOMAIN runs'[t] = 1 .. Len(runs'[t]) /\ Len(runs'[t]) \in Nat
        /\ DOMAIN runs'[t] = DOMAIN runs[t]
    BY <1>1, <1>2, RunsTyped, LenProperties DEF SoloInv, KernelInv, RunsGrow
  <2>2. Len(runs'[t]) = Len(runs[t])
    BY <2>1
  <2>3. ASSUME NEW n \in DOMAIN runs[t] PROVE runs'[t][n].status = runs[t][n].status
    <3>1. runs[t][n] \in RunRow
      BY RunsTyped DEF SoloInv, KernelInv
    <3>2. [runs[t][n] EXCEPT !.owner = Ghost].status = runs[t][n].status
      BY <3>1 DEF RunRow
    <3>3. runs'[t][n] = IF runs[t][n].owner = Engine THEN [runs[t][n] EXCEPT !.owner = Ghost]
                        ELSE runs[t][n]
      BY <1>2
    <3> QED
      BY <3>2, <3>3
  <2> QED
    BY <2>1, <2>2, <2>3 DEF SameRuns
<1>4. Hand'
  BY <1>2 DEF Hand, Working
<1> QED
  BY <1>1, <1>2, <1>3, <1>4, RowsRest

\* A place at which the engine holds no task.
Resting == pc[Engine] \in {"idle", "reclaim", "orphans", "dispatch"}

LEMMA SoloTyped ==
  ASSUME SoloInv, NEW t \in Tasks
  PROVE  /\ SoloTask(t) /\ attempts[t] \in Nat /\ attempts \in [Tasks -> Nat]
         /\ runs \in [Tasks -> Seq(RunRow)] /\ Len(runs[t]) \in Nat /\ DOMAIN runs[t] = 1 .. Len(runs[t])
         /\ \A n \in DOMAIN runs[t] : n \in Nat /\ runs[t][n] \in RunRow
<1>1. KernelTypeOK /\ SoloTask(t)
  BY DEF SoloInv, KernelInv
<1>2. /\ runs \in [Tasks -> Seq(RunRow)] /\ Len(runs[t]) \in Nat /\ DOMAIN runs[t] = 1 .. Len(runs[t])
      /\ \A n \in DOMAIN runs[t] : runs[t][n] \in RunRow
  BY <1>1, RunsTyped
<1>3. attempts[t] \in Nat /\ attempts \in [Tasks -> Nat]
  BY <1>1 DEF KernelTypeOK
<1> QED
  BY <1>1, <1>2, <1>3

\* The only active run of a task ends as "row", and its task with it or for
\* another attempt.
RunEnded(t, n, row, to, count) ==
    /\ runs[t][n].status = "RUNNING" /\ row.status \in {"SUCCEEDED", "FAILED", "LOST"}
    /\ runs' = [runs EXCEPT ![t] = [runs[t] EXCEPT ![n] = row]] /\ UNCHANGED cancelReq
    /\ status' = Moved(t, to) /\ attempts' = [attempts EXCEPT ![t] = count]
    /\ row.status = "SUCCEEDED" <=> to = "SUCCEEDED"
    /\ to = "READY" => n <= count /\ count < MaxAttempts

LEMMA RunEndsSolo ==
  ASSUME SoloInv, KernelInv', NEW t \in Tasks, NEW n \in DOMAIN runs[t], NEW row \in RunRow,
         NEW to \in {"SUCCEEDED", "READY", "FAILED"}, NEW count \in Nat,
         RunEnded(t, n, row, to, count), Resting'
  PROVE  /\ SoloInv' /\ (\A u \in Tasks : u # t => Calm(u))
         /\ status[t] = "RUNNING" /\ status'[t] = to /\ runs'[t][n] = row
<1> USE DEF RunEnded
<1>1. /\ SoloTask(t) /\ Len(runs[t]) \in Nat /\ DOMAIN runs[t] = 1 .. Len(runs[t])
      /\ KernelTypeOK /\ attempts \in [Tasks -> Nat] /\ runs \in [Tasks -> Seq(RunRow)]
      /\ to \in TaskStatus
  BY RunsTyped DEF SoloInv, KernelInv, KernelTypeOK, TaskStatus
<1>2. status[t] = "RUNNING" /\ n = Len(runs[t]) /\ n <= MaxAttempts /\ ~cancelReq[t]
      /\ ~HasRun(t, "SUCCEEDED")
  BY <1>1 DEF SoloTask
<1> DEFINE new == [runs[t] EXCEPT ![n] = row]
<1>3. /\ Len(new) = Len(runs[t]) /\ DOMAIN new = DOMAIN runs[t]
      /\ \A m \in DOMAIN runs[t] : new[m] = IF m = n THEN row ELSE runs[t][m]
  BY <1>1, RunsTyped, ExceptSeq, LenProperties
<1>4. \A u \in Tasks : runs'[u] = IF u = t THEN new ELSE runs[u]
  BY <1>1
<1> HIDE DEF new
<1>5. status'[t] = to
  BY <1>1, MovedColumn
<1>6. /\ \A m \in DOMAIN runs'[t] : runs'[t][m].status # "RUNNING"
      /\ HasRun(t, "SUCCEEDED")' => to = "SUCCEEDED"
  BY <1>1, <1>2, <1>3, <1>4 DEF SoloTask, HasRun
<1>7. SoloTask(t)'
  BY <1>1, <1>2, <1>3, <1>4, <1>5, <1>6 DEF SoloTask, Waiting, IsOrphan
<1>8. Hand'
  BY DEF Hand, Resting, Working
<1>9. \A u \in Tasks : u # t => SameRuns(u) /\ attempts'[u] = attempts[u]
  BY <1>1, <1>4 DEF SameRuns
<1>10. SoloInv' /\ \A u \in Tasks : u # t => Calm(u)
  BY <1>1, <1>7, <1>8, <1>9, RowsMove
<1> QED
  BY <1>1, <1>2, <1>3, <1>4, <1>5, <1>10

LEMMA ReclaimSolo ==
  ASSUME SoloInv, NEW t \in Tasks, NEW n \in DOMAIN runs[t], Reclaim(Engine, t, n)
  PROVE  SoloInv' /\ RunsGrow /\ \A u \in Tasks : Calm(u)
<1>1. KernelInv' /\ RunsGrow
  BY Solo, ReclaimKeeps DEF SoloInv
<1>2. /\ SoloTask(t) /\ attempts[t] \in Nat /\ n \in Nat /\ runs[t][n] \in RunRow
      /\ runs \in [Tasks -> Seq(RunRow)]
  BY SoloTyped
<1>3. PICK count \in Nat : count = Larger(attempts[t], n)
  BY <1>2 DEF Larger
<1>4. PICK to \in {"READY", "FAILED"} : to = AfterLoss(t, count)
  BY <1>2 DEF AfterLoss, SoloTask
<1>5. n <= count /\ (to = "READY" => count < MaxAttempts)
  BY <1>2, <1>3, <1>4 DEF Larger, AfterLoss
<1>6. PICK row : row = [runs[t][n] EXCEPT !.status = "LOST", !.owner = Engine]
  OBVIOUS
<1>7. row \in RunRow /\ row.status = "LOST"
  BY <1>2, <1>6, Solo DEF RunRow, RunStatus, Owners
<1>8. /\ runs[t][n].status = "RUNNING" /\ UNCHANGED cancelReq /\ status' = Moved(t, to)
      /\ attempts' = [attempts EXCEPT ![t] = count] /\ pc[Engine] = "reclaim" /\ UNCHANGED pc
  BY <1>3, <1>4 DEF Reclaim, ExpiredRun
<1>9. runs' = [runs EXCEPT ![t] = [runs[t] EXCEPT ![n] = row]]
  BY <1>2, <1>6 DEF Reclaim
<1>10. /\ SoloInv' /\ \A u \in Tasks : u # t => Calm(u)
       /\ status[t] = "RUNNING" /\ status'[t] = to
  BY <1>1, <1>5, <1>7, <1>8, <1>9, RunEndsSolo DEF Resting, RunEnded
<1>11. Calm(t)
  BY <1>10 DEF Calm, TerminalTask
<1> QED
  BY <1>1, <1>10, <1>11

\* Success is of a run and its task at once, and of the handler's making.
LEMMA FinalizeSolo ==
  ASSUME SoloInv, FinalizeAndComplete(Engine)
  PROVE  /\ SoloInv' /\ RunsGrow /\ pc[Engine] = "finalize" /\ pc'[Engine] = "dispatch"
         /\ cur[Engine].task \in Tasks /\ cur[Engine].run \in DOMAIN runs[cur[Engine].task]
         /\ \A u \in Tasks : u # cur[Engine].task => Calm(u)
         /\ status[cur[Engine].task] = "RUNNING" /\ status'[cur[Engine].task] # "absent"
         /\ status'[cur[Engine].task] = "SUCCEEDED" <=> memo[Engine].to = "SUCCEEDED"
         /\ runs'[cur[Engine].task][cur[Engine].run].status = "SUCCEEDED" <=> memo[Engine].to = "SUCCEEDED"
<1>1. KernelInv' /\ RunsGrow
  BY Solo, FinalizeKeeps DEF SoloInv
<1>2. PICK t, n, outcome : t = cur[Engine].task /\ n = cur[Engine].run /\ outcome = memo[Engine].to
  OBVIOUS
<1>3. pc[Engine] = "finalize" /\ t \in Tasks /\ n \in DOMAIN runs[t] /\ RunIsMine(Engine, t, n)
  BY <1>2, Solo DEF FinalizeAndComplete, SoloInv, KernelInv, Placed, Hand, Busy, Working
<1>4. /\ SoloTask(t) /\ attempts[t] \in Nat /\ n \in Nat /\ runs[t][n] \in RunRow
      /\ runs \in [Tasks -> Seq(RunRow)] /\ attempts \in [Tasks -> Nat]
  BY <1>3, SoloTyped
<1>5. runs[t][n].status = "RUNNING" /\ status[t] = "RUNNING"
  BY <1>3, <1>4 DEF RunIsMine, SoloTask
<1>6. PICK to \in {"SUCCEEDED", "READY", "FAILED"} : to = AdvanceTo(t, n, outcome)
  BY <1>4 DEF AdvanceTo, SoloTask
<1>7. PICK count \in Nat : count = IF outcome = "SUCCEEDED" THEN attempts[t] ELSE Larger(attempts[t], n)
  BY <1>4 DEF Larger
<1>8. /\ to = "SUCCEEDED" <=> outcome = "SUCCEEDED"
      /\ to = "READY" => n <= count /\ count < MaxAttempts
  BY <1>4, <1>6, <1>7 DEF AdvanceTo, Larger
<1>9. PICK row : row = [runs[t][n] EXCEPT !.status = RunEnds(outcome), !.owner = None]
  OBVIOUS
<1>10. /\ row \in RunRow /\ row.status \in {"SUCCEEDED", "FAILED", "LOST"}
       /\ row.status = "SUCCEEDED" <=> outcome = "SUCCEEDED"
  BY <1>4, <1>9 DEF RunRow, RunStatus, Owners, RunEnds
<1>11. <<status[t], to>> \in TaskTransitions
  BY <1>5, <1>6 DEF TaskTransitions
<1>12. /\ runs' = [runs EXCEPT ![t][n].status = RunEnds(outcome), ![t][n].owner = None]
       /\ attempts' = [attempts EXCEPT ![t] = IF outcome = "SUCCEEDED" THEN @ ELSE Larger(@, n)]
       /\ status' = Moved(t, to) /\ pc' = [pc EXCEPT ![Engine] = "dispatch"] /\ UNCHANGED cancelReq
  BY <1>2, <1>3, <1>6, <1>11 DEF FinalizeAndComplete, Goto
<1>13. runs' = [runs EXCEPT ![t] = [runs[t] EXCEPT ![n] = row]]
  BY <1>4, <1>9, <1>12
<1>14. attempts' = [attempts EXCEPT ![t] = count]
  BY <1>7, <1>12
<1>15. pc'[Engine] = "dispatch"
  BY <1>12, Solo DEF SoloInv, KernelInv, KernelTypeOK
<1>16. Resting' /\ (row.status = "SUCCEEDED" <=> to = "SUCCEEDED")
  BY <1>8, <1>10, <1>15 DEF Resting
<1>17. KernelInv' /\ t \in Tasks /\ n \in DOMAIN runs[t] /\ UNCHANGED cancelReq /\ status' = Moved(t, to)
  BY <1>1, <1>3, <1>12
<1>18. RunEnded(t, n, row, to, count)
  BY <1>5, <1>8, <1>10, <1>13, <1>14, <1>16, <1>17 DEF RunEnded
<1>19. /\ SoloInv' /\ \A u \in Tasks : u # t => Calm(u)
       /\ status'[t] = to /\ runs'[t][n] = row
  BY <1>10, <1>16, <1>17, <1>18, RunEndsSolo
<1> QED
  BY <1>1, <1>2, <1>3, <1>5, <1>8, <1>10, <1>15, <1>19

LEMMA ClaimSolo ==
  ASSUME SoloInv, NEW t \in todo[Engine], ClaimTask(Engine, t)
  PROVE  SoloInv' /\ RunsGrow /\ \A u \in Tasks : Calm(u)
<1>1. KernelInv' /\ RunsGrow
  BY Solo, ClaimKeeps DEF SoloInv
<1>2. t \in Tasks
  BY Solo DEF SoloInv, KernelInv, Locals
<1>3. SoloTask(t) /\ KernelTypeOK /\ cur \in [Dispatchers -> [task : Tasks \cup {None}, run : Nat]]
  BY <1>2 DEF SoloInv, KernelInv, Locals
<1>4. /\ UNCHANGED <<cancelReq, attempts, runs>> /\ status[t] = "READY"
      /\ status' = [status EXCEPT ![t] = "RUNNING"] /\ status'[t] = "RUNNING"
      /\ pc'[Engine] = "claimed" /\ cur'[Engine].task = t
  BY <1>2, <1>3, Solo DEF ClaimTask, Claimable, Goto, KernelTypeOK
<1>5. SameRuns(t) /\ \A u \in Tasks : SameRuns(u)
  BY <1>2, <1>4, RunsSame DEF SoloInv
<1>6. ~HasRun(t, "RUNNING") /\ ~HasRun(t, "RUNNING")'
  BY <1>2, <1>3, <1>4, <1>5, SameHas DEF SoloTask, HasRun
<1>7. SoloTask(t)' /\ IsOrphan(t)'
  BY <1>2, <1>3, <1>4, <1>6 DEF SoloTask, Waiting, IsOrphan, HasRun
<1>8. Hand'
  BY <1>4, <1>7 DEF Hand, Working, IsOrphan
<1>9. SoloInv' /\ \A u \in Tasks : u # t => Calm(u)
  BY <1>1, <1>2, <1>4, <1>5, <1>7, <1>8, RowsMove DEF TaskStatus
<1> QED
  BY <1>1, <1>4, <1>9 DEF Calm, TerminalTask

LEMMA OrphanReadSolo ==
  ASSUME SoloInv, NEW t \in todo[Engine], OrphanRead(Engine, t)
  PROVE  SoloInv' /\ RunsGrow /\ \A u \in Tasks : Calm(u)
<1>1. KernelInv' /\ RunsGrow
  BY Solo, OrphanReadKeeps DEF SoloInv
<1>2. t \in Tasks
  BY Solo DEF SoloInv, KernelInv, Locals
<1>3. /\ SoloTask(t) /\ pc \in [Dispatchers -> {"idle", "reclaim", "orphans", "recover", "dispatch",
                               "claimed", "cancel", "insert", "run", "handler", "finalize"}]
      /\ cur \in [Dispatchers -> [task : Tasks \cup {None}, run : Nat]]
      /\ memo \in [Dispatchers -> [to : TaskStatus \cup {"DENIED"}, run : Nat, attempts : Nat]]
  BY <1>2 DEF SoloInv, KernelInv, Locals, KernelTypeOK
<1>4. UNCHANGED <<status, cancelReq, attempts, runs>> /\ pc[Engine] = "orphans"
  BY DEF OrphanRead, taskVars
<1>5. ASSUME ~IsOrphan(t) PROVE Hand'
  <2>1. UNCHANGED <<pc, cur, memo>>
    BY <1>5 DEF OrphanRead
  <2> QED
    BY <1>4, <2>1 DEF Hand, Working
<1>6. ASSUME IsOrphan(t) PROVE Hand'
  <2>1. OrphanTarget(t) = AfterLoss(t, OrphanAttempts(t)) /\ OrphanTarget(t) \in {"READY", "FAILED"}
    BY <1>3, <1>6 DEF SoloTask, IsOrphan, OrphanTarget, AfterLoss
  <2>2. /\ pc'[Engine] = "recover" /\ cur'[Engine].task = t /\ memo'[Engine].to = OrphanTarget(t)
        /\ memo'[Engine].attempts = Dirty(attempts[t], OrphanAttempts(t))
    BY <1>3, <1>6, <2>1, Solo DEF OrphanRead, Goto
  <2>3. OrphanAttempts(cur[Engine].task)' = OrphanAttempts(t)
    BY <1>4, <2>2 DEF OrphanAttempts
  <2>4. AfterLoss(cur[Engine].task, OrphanAttempts(cur[Engine].task))' = AfterLoss(t, OrphanAttempts(t))
    BY <1>4, <2>2, <2>3 DEF AfterLoss
  <2>5. IsOrphan(cur[Engine].task)'
    BY <1>4, <1>6, <2>2 DEF IsOrphan, HasRun
  <2>6. attempts'[cur'[Engine].task] = attempts[t]
    BY <1>4, <2>2
  <2> QED
    BY <2>1, <2>2, <2>3, <2>4, <2>5, <2>6 DEF Hand, Working
<1>7. Hand'
  BY <1>5, <1>6
<1> QED
  BY <1>1, <1>4, <1>7, RowsRest, RunsSame DEF SoloInv

\* What the recovery of an orphaned claim writes is what it read: the task
\* gets another attempt, counted, or has had its last.
LEMMA OrphanWriteSolo ==
  ASSUME SoloInv, OrphanWrite(Engine)
  PROVE  SoloInv' /\ RunsGrow /\ \A u \in Tasks : Calm(u)
<1>1. KernelInv' /\ RunsGrow
  BY Solo, OrphanWriteKeeps DEF SoloInv
<1>2. PICK t \in Tasks : t = cur[Engine].task
  BY Solo DEF OrphanWrite, SoloInv, KernelInv, Placed, Busy
<1>3. /\ IsOrphan(t) /\ memo[Engine].to = AfterLoss(t, OrphanAttempts(t))
      /\ memo[Engine].attempts = Dirty(attempts[t], OrphanAttempts(t))
  BY <1>2 DEF OrphanWrite, SoloInv, Hand
<1>4. /\ SoloTask(t) /\ attempts \in [Tasks -> Nat] /\ attempts[t] \in Nat /\ Len(runs[t]) \in Nat
      /\ DOMAIN runs[t] = 1 .. Len(runs[t])
  BY SoloTyped
<1>5. PICK count \in Nat : count = OrphanAttempts(t)
  BY <1>4 DEF OrphanAttempts, Larger
<1>6. PICK to \in {"READY", "FAILED"} : to = AfterLoss(t, count)
  BY <1>4 DEF AfterLoss, SoloTask
<1>7. Len(runs[t]) <= count /\ count # 0 /\ (to = "READY" => count < MaxAttempts)
  BY <1>4, <1>5, <1>6 DEF OrphanAttempts, Larger, AfterLoss
<1>8. /\ UNCHANGED <<cancelReq, runs>> /\ status' = Moved(t, memo[Engine].to)
      /\ attempts' = [attempts EXCEPT ![t] = Flushed(@, memo[Engine].attempts)]
      /\ pc' = [pc EXCEPT ![Engine] = "orphans"]
  BY <1>2 DEF OrphanWrite, Goto
<1>9. status' = Moved(t, to)
  BY <1>3, <1>5, <1>6, <1>8
<1>10. attempts' = [attempts EXCEPT ![t] = count]
  BY <1>3, <1>5, <1>7, <1>8 DEF Flushed, Dirty
<1>11. pc'[Engine] = "orphans" /\ KernelTypeOK
  BY <1>8, Solo DEF SoloInv, KernelInv, KernelTypeOK
<1>12. status[t] = "RUNNING" /\ status'[t] = to
  BY <1>3, <1>9, <1>11, MovedColumn DEF IsOrphan, TaskStatus
<1>13. \A u \in Tasks : SameRuns(u)
  BY <1>8, RunsSame DEF SoloInv
<1>14. ~HasRun(t, "RUNNING") /\ ~HasRun(t, "SUCCEEDED") /\ ~HasRun(t, "RUNNING")' /\ ~HasRun(t, "SUCCEEDED")'
  BY <1>3, <1>4, <1>12, <1>13, SameHas DEF IsOrphan, SoloTask
<1>15. SoloTask(t)'
  BY <1>4, <1>7, <1>8, <1>10, <1>12, <1>14 DEF SoloTask, Waiting, IsOrphan, HasRun
<1>16. Hand'
  BY <1>11 DEF Hand, Working
<1>17. SoloInv' /\ \A u \in Tasks : u # t => Calm(u)
  <2>1. to \in TaskStatus /\ \A u \in Tasks : u # t => attempts'[u] = attempts[u]
    BY <1>4, <1>10 DEF TaskStatus
  <2> QED
    BY <1>1, <1>8, <1>9, <1>13, <1>15, <1>16, <2>1, RowsMove
<1> QED
  BY <1>1, <1>12, <1>17 DEF Calm, TerminalTask

LEMMA BeforeRunSolo ==
  ASSUME SoloInv, CancelClaimedRead(Engine) \/ CancelClaimedWrite(Engine) \/ CreateRunRead(Engine)
  PROVE  SoloInv' /\ RunsGrow /\ \A u \in Tasks : Calm(u)
<1>1. PICK t \in Tasks : t = cur[Engine].task
  BY Solo DEF CancelClaimedRead, CancelClaimedWrite, CreateRunRead, SoloInv, KernelInv, Placed, Busy
<1>2. CreateRunRead(Engine)
  <2>1. ~cancelReq[t] /\ pc[Engine] # "cancel"
    BY <1>1 DEF SoloInv, SoloTask, Hand
  <2> QED
    BY <1>1, <2>1 DEF CancelClaimedRead, CancelClaimedWrite
<1>3. KernelInv' /\ RunsGrow
  BY <1>2, Solo, BeforeRunKeeps DEF SoloInv
<1>4. UNCHANGED <<status, cancelReq, attempts, runs>> /\ IsOrphan(t)
  BY <1>1, <1>2 DEF CreateRunRead, SoloInv, Hand
<1>5. IsOrphan(t)'
  BY <1>4 DEF IsOrphan, HasRun
<1>6. /\ pc'[Engine] \in {"insert", "dispatch"}
      /\ pc'[Engine] = "insert" => cur'[Engine].task = t
  BY <1>1, <1>2, Solo DEF CreateRunRead, GiveUp, Goto, SoloInv, KernelInv, KernelTypeOK
<1>7. Hand'
  BY <1>5, <1>6 DEF Hand, Working, IsOrphan
<1> QED
  BY <1>3, <1>4, <1>7, RowsRest, RunsSame DEF SoloInv

\* A run is added to an orphaned task, which has attempts left.
LEMMA InsertSolo ==
  ASSUME SoloInv, CreateRunInsert(Engine)
  PROVE  SoloInv' /\ RunsGrow /\ \A u \in Tasks : Calm(u)
<1>1. KernelInv' /\ RunsGrow
  BY Solo, InsertKeeps DEF SoloInv
<1>2. PICK t \in Tasks, n \in Nat : t = cur[Engine].task /\ n = memo[Engine].run
  BY Solo DEF CreateRunInsert, SoloInv, KernelInv, Locals, Placed, Busy
<1>3. /\ SoloTask(t) /\ Len(runs[t]) \in Nat /\ DOMAIN runs[t] = 1 .. Len(runs[t])
      /\ runs \in [Tasks -> Seq(RunRow)] /\ attempts[t] \in Nat
  BY SoloTyped
<1>4. /\ IsOrphan(t) /\ UNCHANGED <<status, cancelReq>> /\ pc[Engine] = "insert"
  BY <1>2 DEF CreateRunInsert, SoloInv, Hand
<1>5. /\ cur \in [Dispatchers -> [task : Tasks \cup {None}, run : Nat]] /\ Engine \in Dispatchers
      /\ pc \in [Dispatchers -> {"idle", "reclaim", "orphans", "recover", "dispatch",
                               "claimed", "cancel", "insert", "run", "handler", "finalize"}]
      /\ attempts \in [Tasks -> Nat] /\ MaxAttempts \in Nat
  BY Solo, KernelAttempts DEF SoloInv, KernelInv, KernelTypeOK, Locals
<1>6. CASE n # Len(runs[t]) + 1
  <2>1. UNCHANGED <<runs, attempts>> /\ pc'[Engine] = "dispatch"
    BY <1>2, <1>5, <1>6 DEF CreateRunInsert, GiveUp, Goto
  <2>2. Hand'
    BY <2>1 DEF Hand, Working
  <2> QED
    BY <1>1, <1>4, <2>1, <2>2, RowsRest, RunsSame DEF SoloInv
<1>7. CASE n = Len(runs[t]) + 1
  <2> DEFINE row == [status |-> "RUNNING", owner |-> Engine, live |-> TRUE]
             new == Append(runs[t], row)
  <2>1. /\ runs' = [runs EXCEPT ![t] = new] /\ pc' = [pc EXCEPT ![Engine] = "run"]
        /\ attempts' = [attempts EXCEPT ![t] = Flushed(@, memo[Engine].attempts)]
        /\ cur' = [cur EXCEPT ![Engine].run = n]
    BY <1>2, <1>7 DEF CreateRunInsert, Goto
  <2>2. row \in RunRow /\ row.status = "RUNNING" /\ row.owner = Engine
    BY Solo DEF RunRow, RunStatus, Owners
  <2>3. /\ Len(new) = n /\ new[n] = row /\ DOMAIN new = 1 .. n /\ n \in Nat
        /\ \A m \in 1 .. Len(runs[t]) : new[m] = runs[t][m]
    BY <1>3, <1>7, <2>2, AppendProperties, LenProperties
  <2> HIDE DEF row, new
  <2>4. /\ runs'[t] = new /\ \A u \in Tasks : u # t => runs'[u] = runs[u] /\ attempts'[u] = attempts[u]
    BY <1>3, <1>5, <2>1
  <2>5. pc'[Engine] = "run" /\ cur'[Engine].task = t /\ cur'[Engine].run = n
    BY <1>2, <1>5, <2>1
  <2>6. status[t] = "RUNNING" /\ ~HasRun(t, "RUNNING") /\ ~HasRun(t, "SUCCEEDED")
    BY <1>3, <1>4 DEF IsOrphan, SoloTask
  <2>7. Len(runs[t]) < MaxAttempts
    BY <1>3, <1>4, <1>5 DEF SoloTask, Waiting
  <2>8. /\ \A m \in DOMAIN new : m # n => new[m].status \notin {"RUNNING", "SUCCEEDED"}
        /\ n \in DOMAIN new
    BY <1>3, <1>7, <2>3, <2>6 DEF HasRun
  <2>9. HasRun(t, "RUNNING")' /\ ~HasRun(t, "SUCCEEDED")'
    BY <2>2, <2>3, <2>4, <2>8 DEF HasRun
  <2>10. SoloTask(t)'
    <3>1. Len(runs'[t]) = n /\ n <= MaxAttempts
      BY <1>3, <1>5, <1>7, <2>3, <2>4, <2>7
    <3>2. ~cancelReq'[t] /\ status'[t] = "RUNNING" /\ ~Waiting(t)'
      BY <1>3, <1>4, <2>6, <2>9 DEF SoloTask, Waiting, IsOrphan
    <3> QED
      BY <2>4, <2>8, <2>9, <3>1, <3>2 DEF SoloTask
  <2>11. Hand'
    BY <2>2, <2>3, <2>4, <2>5 DEF Hand, RunIsMine
  <2>12. \A u \in Tasks : u # t => SameRuns(u) /\ attempts'[u] = attempts[u]
    BY <2>4 DEF SameRuns
  <2>13. status' = [status EXCEPT ![t] = "RUNNING"]
    BY <1>4, <2>6 DEF SoloInv, KernelInv, KernelTypeOK
  <2> QED
    BY <1>1, <1>4, <2>10, <2>11, <2>12, <2>13, RowsMove DEF Calm, TaskStatus
<1> QED
  BY <1>6, <1>7

LEMMA HandlerSolo ==
  ASSUME SoloInv, \/ Denied(Engine) \/ EnterHandler(Engine)
                  \/ HandlerEnds(Engine, "SUCCEEDED") \/ HandlerEnds(Engine, "FAILED")
  PROVE  SoloInv' /\ RunsGrow /\ \A u \in Tasks : Calm(u)
<1>1. KernelInv' /\ RunsGrow
  BY Solo, HandlerKeeps DEF SoloInv
<1>2. /\ UNCHANGED <<status, cancelReq, attempts, runs, cur>> /\ Working(Engine)
      /\ pc'[Engine] \in {"handler", "finalize"}
  BY Solo DEF Denied, EnterHandler, HandlerEnds, taskVars, Goto, Working, SoloInv, KernelInv, KernelTypeOK
<1>3. Hand'
  BY <1>2 DEF Hand, RunIsMine, SoloInv
<1> QED
  BY <1>1, <1>2, <1>3, RowsRest, RunsSame DEF SoloInv

\* Reconciliation and dispatch, except that a run is finalised.
LEMMA ReconcileSolo ==
  ASSUME SoloInv, ReconcileStep(Engine) \/ EndReconcile(Engine) \/ ClaimStep(Engine)
  PROVE  SoloInv' /\ RunsGrow /\ \A u \in Tasks : Calm(u)
<1>1. CASE ReconcileStep(Engine) \/ EndReconcile(Engine)
  BY <1>1, RestSolo, OrphanWriteSolo, OrphanReadSolo, ReclaimSolo DEF ReconcileStep
<1>2. CASE ClaimStep(Engine)
  BY <1>2, RestSolo, ClaimSolo, BeforeRunSolo, InsertSolo, HandlerSolo DEF ClaimStep
<1> QED
  BY <1>1, <1>2

-----------------------------------------------------------------------------
(***************************************************************************)
(* The inductive invariant of the goal.                                    *)
(***************************************************************************)
GoalStatus == {"PENDING", "ACTIVE", "SUCCEEDED", "FAILED"}
Plans == {{}} \cup {PlanTasks(c) : c \in Cycles}
Flow == [status : {"PLANNED", "ACTIVE", "SUCCEEDED", "SUPERSEDED"}, revision : Nat, plan : Plans]
Meta == [service : Services \cup {None}, producer : Evidence, verification : Evidence]
Places == {"recover", "kernel", "goal", "activate", "plan", "bind", "stage", "record",
           "collect", "mark", "judge", "replan"}

Seen == [status : GoalStatus, cycle : 0 .. MaxCycles, bound : Nat, newest : Nat,
         flow : Flow \cup {NoFlow}, meta : Meta, target : Nat, stage : 1 .. 4,
         replanning : BOOLEAN]

GoalTyped ==
    /\ goal \in [status : GoalStatus, cycle : 0 .. MaxCycles, bound : Nat, mutation : BOOLEAN]
    /\ goal.bound <= Len(flows)
    /\ meta \in Meta
    /\ flows \in Seq(Flow)
    /\ payload \in [Tasks -> Nat] /\ \A t \in Tasks : payload[t] <= Len(flows)
    /\ result \in [Tasks -> Evidence]
    /\ at \in Places /\ out \in Evidence /\ seen \in Seen

InForce(f) == flows[f].status \in {"ACTIVE", "SUCCEEDED"}
NoneInForce == \A f \in DOMAIN flows : ~InForce(f)
PlanFailed(f) == \E t \in flows[f].plan : status[t] = "FAILED"

\* The engine works on the goal only between two ticks of its dispatcher, and
\* on a goal that has not ended.
Turns ==
    /\ at # "kernel" => pc[Engine] \in {"idle", "reclaim", "orphans", "recover"}
    /\ goal.status \in GoalTerminal => at \in {"recover", "goal", "kernel"}

\* What the engine read of goal and flow is so still where it is used.
ReadPlanning ==
    /\ at \in {"activate", "plan", "bind", "stage", "record"} => seen.cycle = goal.cycle
    /\ at = "activate" => goal.status = "PENDING"
    /\ at \in {"activate", "plan"} => seen.bound = goal.bound
    /\ at \in {"activate", "plan", "bind"} => seen.stage = 1
    /\ at \in {"plan", "bind", "stage", "record"} =>
          NoneInForce /\ goal.cycle < MaxCycles /\ goal.status = "ACTIVE"
    /\ at = "bind" => /\ seen.target = Len(flows) /\ goal.bound < seen.target
                      /\ flows[seen.target].status = "PLANNED"
                      /\ goal.bound > 0 => flows[goal.bound].status # "PLANNED"
    /\ at \in {"stage", "record"} =>
          /\ seen.target = goal.bound /\ goal.bound > 0 /\ flows[goal.bound].status = "PLANNED"
          /\ at = "stage" => seen.stage \in Stages
          /\ at = "record" => seen.stage = 4
          /\ \A k \in Stages : k < seen.stage => status[<<goal.cycle, k>>] # "absent"

ReadJudging ==
    /\ at \in {"collect", "mark", "judge", "replan"} =>
          /\ seen.status = "ACTIVE" /\ goal.status = "ACTIVE" /\ seen.cycle = goal.cycle
          /\ seen.newest = Len(flows) /\ seen.newest > 0 /\ InForce(seen.newest)
          /\ seen.flow.plan = flows[seen.newest].plan
    /\ at = "replan" => /\ seen.flow.revision = flows[seen.newest].revision
                        /\ seen.stage = 1 /\ seen.bound = goal.bound
                        /\ PlanFailed(seen.newest)
                        /\ \A t \in Tasks : status[t] # "absent" => t[1] < goal.cycle

\* Flows: what their status says of their plan and of its tasks.
Planned ==
    /\ \A f \in DOMAIN flows :
          /\ flows[f].status = "PLANNED" <=> flows[f].plan = {}
          /\ \A t \in flows[f].plan : status[t] # "absent" /\ payload[t] = f
          /\ flows[f].status = "SUPERSEDED" => PlanFailed(f)
          /\ InForce(f) => f = goal.bound /\ f = Len(flows)
    /\ goal.bound > 0 /\ flows[goal.bound].status = "PLANNED" => goal.bound = Len(flows)
    /\ goal.status = "PENDING" => flows = << >>
    /\ goal.status \notin GoalTerminal /\ NoneInForce => goal.cycle < MaxCycles

\* Tasks: those of the present cycle are of the bound flow.
Created ==
    \A t \in Tasks : status[t] # "absent" =>
        /\ payload[t] > 0 /\ t[1] <= goal.cycle
        /\ t[1] = goal.cycle => payload[t] = goal.bound /\ flows[goal.bound].status # "SUPERSEDED"

Ended ==
    /\ goal.status = "SUCCEEDED" => PlanAchieved
    /\ goal.status = "FAILED" /\ goal.bound > 0 =>
          flows[goal.bound].plan = {} \/ PlanFailed(goal.bound)

\* Evidence of one run, whatever the merge made of its optional members.
SameRun(e, f) == e.flow = f.flow /\ e.run = f.run /\ e.service = f.service

\* A task that succeeded was bound to its flow and its result is that of its
\* run; what goals.meta says of the implementation comes from the run that
\* made it succeed, and the verification examined that very run.
Bound(t) ==
    status[t] = "SUCCEEDED" =>
        /\ t \in flows[payload[t]].plan
        /\ t[2] = Implementation =>
              result[t].run \in DOMAIN runs[t] /\ runs[t][result[t].run].status = "SUCCEEDED"

Proven(impl, verif) ==
    /\ status[impl] = "SUCCEEDED" =>
          /\ SameRun(meta.producer, result[impl])
          /\ meta.service = meta.producer.service /\ meta.producer.flow = goal.bound
    /\ status[verif] = "SUCCEEDED" =>
          /\ result[verif].examined = <<goal.bound, result[impl].run>>
          /\ result[verif].service # result[impl].service

Evident ==
    /\ \A t \in Tasks : Bound(t)
    /\ \A c \in Cycles : goal.bound > 0 /\ flows[goal.bound].plan = PlanTasks(c) =>
          Proven(<<c, Implementation>>, <<c, Verification>>)

\* The success of a handler that is not finalised yet.
Outcome ==
    pc[Engine] = "finalize" /\ memo[Engine].to = "SUCCEEDED" =>
        LET t == cur[Engine].task
        IN  /\ payload[t] = goal.bound /\ goal.bound > 0 /\ t \in flows[goal.bound].plan
            /\ t[2] = Implementation =>
                  /\ SameRun(meta.producer, out) /\ out.service = meta.service
                  /\ out.flow = goal.bound /\ out.run = cur[Engine].run
            /\ t[2] = Verification =>
                  /\ out.examined = <<meta.producer.flow, meta.producer.run>>
                  /\ out.service # meta.service

GoalInv ==
    /\ SoloInv /\ GoalTyped /\ Turns /\ ReadPlanning /\ ReadJudging /\ Planned /\ Created /\ Ended
    /\ Evident /\ Outcome

-----------------------------------------------------------------------------
(***************************************************************************)
(* Plans, flows and the engine's copies.                                   *)
(***************************************************************************)
LEMMA PlanOf ==
  ASSUME NEW c \in Cycles
  PROVE  /\ PlanTasks(c) \subseteq Tasks /\ PlanTasks(c) # {}
         /\ \A t \in PlanTasks(c) : t[1] = c /\ t[2] \in Stages /\ t = <<c, t[2]>>
         /\ \A k \in Stages : <<c, k>> \in PlanTasks(c) /\ <<c, k>> \in Tasks
  BY GoalGraph DEF PlanTasks, GoalTasks, Stages

LEMMA StageTasks ==
  ASSUME NEW c \in Cycles
  PROVE  /\ {Implementation, Verification} \subseteq Stages
         /\ <<c, Implementation>> \in Tasks /\ <<c, Verification>> \in Tasks
<1>1. Implementation \in Stages /\ Verification \in Stages
  BY DEF Stages, Implementation, Verification
<1> QED
  BY <1>1, PlanOf

LEMMA TaskKey == ASSUME NEW t \in Tasks PROVE t[1] \in Cycles /\ t[2] \in Stages /\ t = <<t[1], t[2]>>
  BY GoalGraph DEF GoalTasks

LEMMA FlowsTyped ==
  ASSUME GoalTyped
  PROVE  /\ Len(flows) \in Nat /\ DOMAIN flows = 1 .. Len(flows)
         /\ \A f \in DOMAIN flows : flows[f] \in Flow /\ flows[f].plan \subseteq Tasks
         /\ goal.bound \in Nat /\ (goal.bound > 0 => goal.bound \in DOMAIN flows)
<1>1. /\ Len(flows) \in Nat /\ DOMAIN flows = 1 .. Len(flows)
      /\ \A f \in DOMAIN flows : flows[f] \in Flow
  BY LenProperties, ElementOfSeq DEF GoalTyped
<1>2. goal.bound \in Nat /\ goal.bound <= Len(flows)
  BY DEF GoalTyped
<1>3. \A f \in DOMAIN flows : flows[f].plan \subseteq Tasks
  BY <1>1, PlanOf DEF Flow, Plans
<1> QED
  BY <1>1, <1>2, <1>3

\* One row of goal_flows is written.
LEMMA FlowWritten ==
  ASSUME GoalTyped, NEW f \in DOMAIN flows, NEW row \in Flow, flows' = [flows EXCEPT ![f] = row]
  PROVE  /\ flows' \in Seq(Flow) /\ Len(flows') = Len(flows) /\ DOMAIN flows' = DOMAIN flows
         /\ \A g \in DOMAIN flows : flows'[g] = IF g = f THEN row ELSE flows[g]
<1>1. flows \in Seq(Flow)
  BY DEF GoalTyped
<1>2. flows' \in Seq(Flow) /\ Len(flows') = Len(flows) /\ DOMAIN flows' = DOMAIN flows
  BY <1>1, ExceptSeq, LenProperties
<1> QED
  BY <1>1, <1>2

\* The merge of goals.meta keeps what identifies the new run.
LEMMA PatchedTyped ==
  ASSUME NEW old \in Evidence, NEW new \in Evidence
  PROVE  Patched(old, new) \in Evidence /\ SameRun(Patched(old, new), new)
<1>1. /\ old.member \in {"absent", "null", "value"} /\ new.member \in {"absent", "null", "value"}
      /\ new = [flow |-> new.flow, run |-> new.run, service |-> new.service,
                examined |-> new.examined, member |-> new.member]
      /\ new.flow \in Nat /\ new.run \in Nat /\ new.service \in Services \cup {None}
      /\ new.examined \in Nat \X Nat
  BY DEF Evidence
<1>2. PICK m \in {"absent", "null", "value"} : Patched(old, new) = [new EXCEPT !.member = m]
  BY <1>1 DEF Patched
<1>3. Patched(old, new) = [flow |-> new.flow, run |-> new.run, service |-> new.service,
                           examined |-> new.examined, member |-> m]
  BY <1>1, <1>2
<1> QED
  BY <1>1, <1>3 DEF Evidence, SameRun

LEMMA NothingTyped == NoFlow.status = "absent" /\ Nothing \in Seen /\ NoEvidence \in Evidence
<1>1. NoEvidence \in Evidence
  BY DEF NoEvidence, Evidence
<1>2. [service |-> None, producer |-> NoEvidence, verification |-> NoEvidence] \in Meta
  BY <1>1 DEF Meta
<1>3. Nothing \in Seen
  BY <1>2, GoalCycles DEF Nothing, Seen, GoalStatus
<1> QED
  BY <1>1, <1>3 DEF NoFlow

LEMMA SnapshotTyped ==
  ASSUME GoalTyped
  PROVE  /\ Snapshot \in Seen /\ Snapshot.status = goal.status /\ Snapshot.cycle = goal.cycle
         /\ Snapshot.bound = goal.bound /\ Snapshot.newest = Len(flows) /\ Snapshot.flow = NewestFlow
         /\ Snapshot.meta = meta /\ Snapshot.stage = 1
<1>1. NewestFlow \in Flow \cup {NoFlow}
  <2>1. CASE flows = << >>
    BY <2>1 DEF NewestFlow
  <2>2. CASE flows # << >>
    <3>1. flows \in Seq(Flow) /\ Len(flows) \in DOMAIN flows
      BY <2>2, FlowsTyped, EmptySeq DEF GoalTyped
    <3> QED
      BY <2>2, <3>1, FlowsTyped DEF NewestFlow
  <2> QED
    BY <2>1, <2>2
<1>2. goal.status \in GoalStatus /\ goal.cycle \in 0 .. MaxCycles /\ goal.bound \in Nat /\ meta \in Meta
  BY DEF GoalTyped
<1>3. Nothing \in Seen /\ Len(flows) \in Nat
  BY NothingTyped, FlowsTyped
<1> QED
  BY <1>1, <1>2, <1>3 DEF Snapshot, Seen, Nothing

\* The newest flow, when it is in force, is the bound one; none is otherwise.
LEMMA NewestInForce ==
  ASSUME GoalTyped, Planned
  PROVE  /\ NewestFlow.status \in {"ACTIVE", "SUCCEEDED"} =>
               /\ Len(flows) \in DOMAIN flows /\ Len(flows) > 0 /\ InForce(Len(flows))
               /\ NewestFlow = flows[Len(flows)] /\ goal.bound = Len(flows)
               /\ NewestFlow.plan # {}
         /\ NewestFlow.status \notin {"ACTIVE", "SUCCEEDED"} => NoneInForce
<1>1. CASE flows = << >>
  BY <1>1, NothingTyped, FlowsTyped DEF NewestFlow, NoneInForce
<1>2. CASE flows # << >>
  <2>1. NewestFlow = flows[Len(flows)] /\ Len(flows) \in DOMAIN flows /\ Len(flows) > 0
    BY <1>2, FlowsTyped, EmptySeq DEF NewestFlow, GoalTyped
  <2> QED
    BY <2>1 DEF Planned, InForce, NoneInForce
<1> QED
  BY <1>1, <1>2

-----------------------------------------------------------------------------
(***************************************************************************)
(* What steps of the kernel leave of the goal's invariant.                 *)
(***************************************************************************)
\* A row that exists stays, and one that is terminal stays as it is.
Stays(t) ==
    /\ status'[t] = "absent" <=> status[t] = "absent"
    /\ status[t] \in TerminalTask => status'[t] = status[t]

LEMMA CalmStays == ASSUME NEW t \in Tasks, Calm(t) PROVE Stays(t)
  BY DEF Calm, Stays

LEMMA KernelSame ==
  ASSUME SoloInv, UNCHANGED kernelVars PROVE SoloInv' /\ RunsGrow /\ \A t \in Tasks : Calm(t)
<1>1. KernelInv' /\ RunsGrow
  BY KernelStutters DEF SoloInv
<1>2. UNCHANGED <<status, cancelReq, attempts, runs, pc, cur, memo>>
  BY DEF kernelVars
<1>3. \A t \in Tasks : SameRuns(t) /\ SameOwners(t)
  BY <1>2, RunsSame DEF SoloInv
<1>4. Hand'
  BY <1>2, <1>3, HandKept
<1> QED
  BY <1>1, <1>2, <1>3, <1>4, RowsRest

LEMMA FailedKept ==
  ASSUME NEW f, flows[f].plan \subseteq Tasks, UNCHANGED flows, \A t \in Tasks : Stays(t), PlanFailed(f)
  PROVE  PlanFailed(f)'
  BY DEF PlanFailed, Stays, TerminalTask

LEMMA AchievedKept ==
  ASSUME GoalTyped, UNCHANGED <<goal, flows>>, \A t \in Tasks : Stays(t), PlanAchieved
  PROVE  PlanAchieved'
<1>1. flows[goal.bound].plan \subseteq Tasks
  BY FlowsTyped DEF PlanAchieved
<1> QED
  BY <1>1 DEF PlanAchieved, Stays, TerminalTask

LEMMA StoreKept ==
  ASSUME GoalTyped, Planned, Created, Ended, UNCHANGED <<goal, flows, payload>>,
         \A t \in Tasks : Stays(t)
  PROVE  Planned' /\ Created' /\ Ended'
<1>1. \A f \in DOMAIN flows : PlanFailed(f) => PlanFailed(f)'
  BY FlowsTyped, FailedKept
<1>2. \A t \in Tasks : status'[t] # "absent" <=> status[t] # "absent"
  BY DEF Stays
<1>3. Planned'
  <2>1. /\ \A f \in DOMAIN flows : InForce(f)' = InForce(f)
        /\ NoneInForce' = NoneInForce
    BY DEF InForce, NoneInForce
  <2>2. \A f \in DOMAIN flows : \A t \in flows[f].plan : status'[t] # "absent"
    BY <1>2, FlowsTyped DEF Planned
  <2> QED
    BY <1>1, <2>1, <2>2 DEF Planned
<1>4. Created'
  BY <1>2 DEF Created
<1>5. Ended'
  <2>1. goal.bound > 0 => goal.bound \in DOMAIN flows
    BY FlowsTyped
  <2> QED
    BY <1>1, <2>1, AchievedKept DEF Ended
<1> QED
  BY <1>3, <1>4, <1>5

LEMMA ReadKept ==
  ASSUME GoalTyped, ReadPlanning, ReadJudging, UNCHANGED <<goal, flows>>, \A t \in Tasks : Stays(t),
         UNCHANGED <<at, seen>> \/ at' \in {"recover", "kernel", "goal"}
  PROVE  ReadPlanning' /\ ReadJudging'
<1>1. CASE at' \in {"recover", "kernel", "goal"}
  BY <1>1 DEF ReadPlanning, ReadJudging
<1>2. CASE UNCHANGED <<at, seen>>
  <2>1. ReadPlanning'
    <3>1. at \in {"stage", "record"} =>
             \A k \in Stages : k < seen.stage => status'[<<goal.cycle, k>>] # "absent"
      <4> SUFFICES ASSUME at \in {"stage", "record"}, NEW k \in Stages, k < seen.stage
                   PROVE  status'[<<goal.cycle, k>>] # "absent"
        OBVIOUS
      <4>1. status[<<goal.cycle, k>>] # "absent" /\ goal.cycle \in Cycles
        BY GoalCycles DEF ReadPlanning, GoalTyped, Cycles
      <4> QED
        BY <4>1, PlanOf DEF Stays
    <3>2. NoneInForce' = NoneInForce
      BY DEF NoneInForce, InForce
    <3> QED
      BY <1>2, <3>1, <3>2 DEF ReadPlanning
  <2>2. ReadJudging'
    <3> PICK f : f = seen.newest
      OBVIOUS
    <3>1. at = "replan" => f \in DOMAIN flows /\ PlanFailed(f)
      BY FlowsTyped DEF ReadJudging
    <3>2. at = "replan" => \E t \in flows[f].plan : status'[t] = "FAILED"
      BY <3>1, FlowsTyped, FailedKept DEF PlanFailed
    <3>3. \A t \in Tasks : status'[t] # "absent" <=> status[t] # "absent"
      BY DEF Stays
    <3> QED
      BY <1>2, <3>2, <3>3 DEF ReadJudging, InForce, PlanFailed
  <2> QED
    BY <2>1, <2>2
<1> QED
  BY <1>1, <1>2

\* A step of the kernel after which no task has newly succeeded.
LEMMA EvidentKept ==
  ASSUME GoalTyped, Planned, Evident, RunsGrow, UNCHANGED <<goal, meta, flows, payload, result>>,
         \A t \in Tasks : Calm(t)
  PROVE  Evident'
<1>1. \A t \in Tasks : status'[t] = "SUCCEEDED" => status[t] = "SUCCEEDED"
  BY DEF Calm
<1>2. ASSUME NEW t \in Tasks PROVE Bound(t)'
  BY <1>1 DEF Evident, Bound, RunsGrow
<1>3. ASSUME NEW c \in Cycles, Proven(<<c, Implementation>>, <<c, Verification>>)
      PROVE  Proven(<<c, Implementation>>, <<c, Verification>>)'
  <2>1. <<c, Implementation>> \in Tasks /\ <<c, Verification>> \in Tasks
    BY StageTasks
  <2> QED
    BY <1>1, <1>3, <2>1 DEF Proven
<1> QED
  BY <1>2, <1>3 DEF Evident

LEMMA KernelTurn ==
  ASSUME GoalInv, SoloInv', RunsGrow, UNCHANGED goalState, \A t \in Tasks : Calm(t),
         UNCHANGED <<at, seen>> \/ (at' \in {"recover", "kernel", "goal"} /\ seen' \in Seen),
         out' \in Evidence, Turns', Outcome'
  PROVE  GoalInv'
<1> USE DEF GoalInv, goalState
<1>1. GoalTyped'
  BY DEF GoalTyped, Places
<1>2. \A t \in Tasks : Stays(t)
  BY CalmStays
<1>3. Planned' /\ Created' /\ Ended' /\ ReadPlanning' /\ ReadJudging'
  BY <1>2, StoreKept, ReadKept
<1>4. Evident'
  BY EvidentKept
<1> QED
  BY <1>1, <1>3, <1>4

-----------------------------------------------------------------------------
(***************************************************************************)
(* Steps of the engine on the kernel, one lemma each.                      *)
(***************************************************************************)
\* The columns of the engine's locals, where a step is read off its row.
LEMMA EngineTyped ==
  ASSUME SoloInv
  PROVE  /\ Engine \in Dispatchers
         /\ pc \in [Dispatchers -> {"idle", "reclaim", "orphans", "recover", "dispatch",
                               "claimed", "cancel", "insert", "run", "handler", "finalize"}]
         /\ todo[Engine] \subseteq Tasks
         /\ cur \in [Dispatchers -> [task : Tasks \cup {None}, run : Nat]]
         /\ memo \in [Dispatchers -> [to : TaskStatus \cup {"DENIED"}, run : Nat, attempts : Nat]]
  BY Solo DEF SoloInv, KernelInv, KernelTypeOK, Locals

\* Reconciliation holds no run and ends idle.
LEMMA ReconcilePlaces ==
  ASSUME SoloInv, ReconcileStep(Engine) \/ EndReconcile(Engine)
  PROVE  pc'[Engine] \in {"idle", "reclaim", "orphans", "recover"}
  BY EngineTyped DEF ReconcileStep, EndReconcile, StartTick, FindOrphans, OrphanWrite, Reclaim,
     ReclaimRaises, OrphanRead, Goto

\* Only a handler makes a run succeed.
LEMMA ClaimHolds ==
  ASSUME SoloInv, ClaimStep(Engine)
  PROVE  ~(pc'[Engine] = "finalize" /\ memo'[Engine].to = "SUCCEEDED")
<1> SUFFICES ASSUME pc'[Engine] = "finalize" PROVE memo'[Engine].to # "SUCCEEDED"
  OBVIOUS
<1>1. Denied(Engine)
  <2>1. ~ListReadyTasks(Engine) /\ ~EndTick(Engine) /\ ~EnterHandler(Engine)
    BY EngineTyped DEF ListReadyTasks, EndTick, EnterHandler, Goto
  <2>2. ~ \E t \in todo[Engine] : ClaimTask(Engine, t) \/ SkipTask(Engine, t)
    BY EngineTyped DEF ClaimTask, SkipTask, Goto
  <2>3. ~CancelClaimedRead(Engine) /\ ~CancelClaimedWrite(Engine)
    BY EngineTyped DEF CancelClaimedRead, CancelClaimedWrite, Goto
  <2>4. ~CreateRunRead(Engine) /\ ~CreateRunInsert(Engine)
    BY EngineTyped DEF CreateRunRead, CreateRunInsert, GiveUp, Goto
  <2> QED
    BY <2>1, <2>2, <2>3, <2>4 DEF ClaimStep
<1> QED
  BY <1>1, EngineTyped DEF Denied

LEMMA RecoverKeeps == ASSUME GoalInv, Recover PROVE GoalInv'
<1>1. SoloInv' /\ RunsGrow /\ \A t \in Tasks : Calm(t)
  BY ReconcileSolo DEF GoalInv, Recover
<1>2. pc'[Engine] \in {"idle", "reclaim", "orphans", "recover"}
  BY ReconcilePlaces DEF GoalInv, Recover
<1>3. UNCHANGED <<goalState, seen, out>> /\ at' \in {"recover", "goal"}
  BY DEF Recover, Turn
<1>4. Turns' /\ Outcome' /\ seen' \in Seen /\ out' \in Evidence
  BY <1>2, <1>3 DEF Turns, Outcome, GoalInv, GoalTyped
<1> QED
  BY <1>1, <1>3, <1>4, KernelTurn

LEMMA TickKeeps == ASSUME GoalInv, DispatcherTick PROVE GoalInv'
<1>1. SoloInv' /\ RunsGrow /\ \A t \in Tasks : Calm(t)
  BY ReconcileSolo DEF GoalInv, DispatcherTick
<1>2. UNCHANGED <<goalState, seen, out>> /\ at' \in {"recover", "kernel"} /\ (at' = "recover" => pc'[Engine] = "idle")
  BY DEF DispatcherTick, Turn
<1>3. ~(pc'[Engine] = "finalize" /\ memo'[Engine].to = "SUCCEEDED")
  BY ReconcilePlaces, ClaimHolds DEF GoalInv, DispatcherTick
<1>4. Turns' /\ Outcome' /\ seen' \in Seen /\ out' \in Evidence
  BY <1>2, <1>3 DEF Turns, Outcome, GoalInv, GoalTyped
<1> QED
  BY <1>1, <1>2, <1>4, KernelTurn

LEMMA DiesKeeps == ASSUME GoalInv, EngineDies PROVE GoalInv'
<1>1. SoloInv' /\ RunsGrow /\ (\A t \in Tasks : Calm(t)) /\ pc'[Engine] = "idle"
  BY ForgetsSolo DEF GoalInv, EngineDies
<1>2. UNCHANGED goalState /\ at' = "recover" /\ seen' = Nothing /\ out' = NoEvidence
  BY DEF EngineDies
<1>3. Turns' /\ Outcome' /\ seen' \in Seen /\ out' \in Evidence
  BY <1>1, <1>2, NothingTyped DEF Turns, Outcome
<1> QED
  BY <1>1, <1>2, <1>3, KernelTurn

LEMMA TimeKeeps == ASSUME GoalInv, TimePasses PROVE GoalInv'
<1>1. SoloInv' /\ RunsGrow /\ \A t \in Tasks : Calm(t)
  BY LeaseSolo DEF GoalInv, TimePasses
<1>2. UNCHANGED <<goalState, engineVars, pc, cur, memo>>
  BY DEF TimePasses, LeaseStep, TaskLeaseExpires, RunLeaseExpires
<1>3. Turns' /\ Outcome' /\ out' \in Evidence
  BY <1>2 DEF GoalInv, GoalTyped, Turns, Outcome, goalState, engineVars
<1> QED
  BY <1>1, <1>2, <1>3, KernelTurn DEF engineVars

LEMMA FailsKeeps == ASSUME GoalInv, StageFails PROVE GoalInv'
<1>1. SoloInv' /\ RunsGrow /\ \A t \in Tasks : Calm(t)
  BY HandlerSolo DEF GoalInv, StageFails
<1>2. UNCHANGED <<goalState, engineVars>> /\ pc[Engine] = "handler" /\ memo'[Engine].to = "FAILED"
  BY EngineTyped DEF StageFails, HandlerEnds, GoalInv
<1>3. Turns' /\ Outcome' /\ out' \in Evidence
  BY <1>2 DEF GoalInv, GoalTyped, Turns, Outcome, goalState, engineVars
<1> QED
  BY <1>1, <1>2, <1>3, KernelTurn DEF engineVars

\* Before the first step.
LEMMA GoalStarts == GoalInit => GoalInv
<1> SUFFICES ASSUME GoalInit PROVE GoalInv
  OBVIOUS
<1> USE DEF GoalInit
<1>1. KernelInv
  BY KernelStart
<1>2. /\ status = [t \in Tasks |-> "absent"] /\ cancelReq = [t \in Tasks |-> FALSE]
      /\ attempts = [t \in Tasks |-> 0] /\ runs = [t \in Tasks |-> << >>] /\ pc[Engine] = "idle"
  BY Solo DEF KernelInit
<1>3. Len(<< >>) = 0 /\ DOMAIN << >> = {} /\ MaxAttempts \in Nat
  BY KernelAttempts
<1>4. SoloInv
  <2>1. ASSUME NEW t \in Tasks PROVE SoloTask(t)
    BY <1>2, <1>3 DEF SoloTask, HasRun, Waiting, IsOrphan
  <2> QED
    BY <1>1, <1>2, <2>1 DEF SoloInv, Hand, Working
<1>5. GoalTyped
  <2>1. Nothing.meta \in Meta /\ NoEvidence \in Evidence /\ Nothing \in Seen
    BY NothingTyped DEF Seen
  <2>2. flows \in Seq(Flow) /\ Len(flows) = 0
    BY EmptySeq
  <2>3. goal \in [status : GoalStatus, cycle : 0 .. MaxCycles, bound : Nat, mutation : BOOLEAN]
    BY GoalCycles DEF GoalStatus
  <2> QED
    BY <2>1, <2>2, <2>3 DEF GoalTyped, Places
<1>6. Turns /\ ReadPlanning /\ ReadJudging /\ Outcome
  BY <1>2 DEF Turns, ReadPlanning, ReadJudging, Outcome, GoalTerminal
<1>7. Planned /\ Created /\ Ended /\ Evident
  BY <1>2, <1>3, GoalCycles DEF Planned, Created, Ended, Evident, Bound, GoalTerminal, NoneInForce
<1> QED
  BY <1>4, <1>5, <1>6, <1>7 DEF GoalInv

\* A verification has run only when the implementation has succeeded.
LEMMA ImplementationFirst ==
  ASSUME SoloInv, NEW c \in Cycles, DOMAIN runs[<<c, Verification>>] # {}
  PROVE  status[<<c, Implementation>>] = "SUCCEEDED"
<1> DEFINE impl == <<c, Implementation>>
           verif == <<c, Verification>>
<1>1. impl \in Tasks /\ verif \in Tasks
  BY StageTasks
<1>2. Parents[verif] = {<<c, k>> : k \in {2} \cap Stages}
  BY <1>1, GoalGraph DEF GoalParents, Verification
<1>3. impl \in Parents[verif]
  BY <1>2 DEF Stages, Implementation
<1>4. Len(runs[verif]) > 0
  <2>1. PICK n : n \in DOMAIN runs[verif]
    OBVIOUS
  <2>2. Len(runs[verif]) \in Nat /\ n \in 1 .. Len(runs[verif])
    BY <1>1, <2>1, SoloTyped
  <2> QED
    BY <2>2
<1>5. HasRun(impl, "SUCCEEDED")
  BY <1>1, <1>3, <1>4 DEF SoloInv, KernelInv, Admitted, ParentsDone
<1> QED
  BY <1>1, <1>5 DEF SoloInv, SoloTask

LEMMA VerifiedHasRun ==
  ASSUME SoloInv, NEW t \in Tasks, status[t] = "SUCCEEDED" PROVE DOMAIN runs[t] # {}
  BY DEF SoloInv, KernelInv, SucceededHasRun, HasRun

LEMMA BoundKept ==
  ASSUME Evident, RunsGrow, UNCHANGED <<flows, payload>>, NEW t \in Tasks, Calm(t), result'[t] = result[t]
  PROVE  Bound(t)'
  BY DEF Calm, Evident, Bound, RunsGrow

\* The task of a working engine, and where the goal stands meanwhile.
LEMMA AtWork ==
  ASSUME GoalInv, Working(Engine)
  PROVE  /\ cur[Engine].task \in Tasks /\ cur[Engine].run \in DOMAIN runs[cur[Engine].task]
         /\ status[cur[Engine].task] = "RUNNING" /\ at = "kernel" /\ cur[Engine].run \in Nat
<1>1. SoloInv /\ Turns
  BY DEF GoalInv
<1>2. cur[Engine].task \in Tasks /\ cur[Engine].run \in DOMAIN runs[cur[Engine].task]
  BY <1>1, Solo DEF SoloInv, KernelInv, Placed, Busy, Working
<1>3. status[cur[Engine].task] = "RUNNING" /\ cur[Engine].run \in Nat
  BY <1>1, <1>2, SoloTyped DEF SoloInv, SoloTask, Hand, RunIsMine
<1>4. at = "kernel"
  BY <1>1 DEF Turns, Working
<1> QED
  BY <1>2, <1>3, <1>4

LEMMA SucceedsKeeps == ASSUME GoalInv, NEW s \in Services, StageSucceeds(s) PROVE GoalInv'
<1>1. Working(Engine) /\ pc[Engine] = "handler"
  BY DEF StageSucceeds, HandlerEnds, Working
<1>2. PICK t, n, m, evidence :
         /\ t = Task /\ n = cur[Engine].run /\ evidence = StageEvidence(Task, cur[Engine].run, s, m)
         /\ m \in {"absent", "null", "value"}
         /\ HandlerEnds(Engine, "SUCCEEDED")
         /\ BoundToFlow(Task) /\ MayRun(Task, s)
         /\ meta' = IF Task[2] = Implementation
                    THEN [meta EXCEPT !.service = s, !.producer = Patched(meta.producer, evidence)] ELSE meta
         /\ out' = evidence
         /\ UNCHANGED <<goal, flows, payload, result, at, seen>>
  <2>1. (IF goal.mutation THEN {"absent"} ELSE Answers[s]) \subseteq {"absent", "null", "value"}
    BY GoalAnswers
  <2>2. GoalTyped /\ meta \in Meta
    BY DEF GoalInv, GoalTyped
  <2> QED
    BY <2>1, <2>2 DEF StageSucceeds, Meta
<1>3. t \in Tasks /\ n \in Nat /\ status[t] = "RUNNING" /\ at = "kernel"
  BY <1>1, <1>2, AtWork DEF Task
<1>4. /\ BoundToFlow(t) /\ MayRun(t, s) /\ out' = evidence
      /\ meta' = IF t[2] = Implementation
                 THEN [meta EXCEPT !.service = s, !.producer = Patched(meta.producer, evidence)] ELSE meta
      /\ UNCHANGED <<goal, flows, payload, result, at, seen>>
      /\ UNCHANGED cur /\ pc'[Engine] = "finalize"
  BY <1>2, EngineTyped DEF HandlerEnds, Goto, GoalInv
<1>5. SoloInv' /\ RunsGrow /\ \A u \in Tasks : Calm(u)
  BY HandlerSolo DEF GoalInv, StageSucceeds
<1>6. GoalTyped /\ payload[t] \in Nat /\ meta \in Meta /\ meta.producer.flow \in Nat /\ meta.producer.run \in Nat
  BY <1>3 DEF GoalInv, GoalTyped, Meta, Evidence
<1>7. /\ t[2] = Implementation =>
            evidence = [flow |-> payload[t], run |-> n, service |-> s, examined |-> <<0, 0>>, member |-> m]
      /\ t[2] = Verification =>
            evidence = [flow |-> payload[t], run |-> n, service |-> s,
                        examined |-> <<meta.producer.flow, meta.producer.run>>, member |-> m]
      /\ t[2] \notin {Implementation, Verification} => evidence = NoEvidence
  BY <1>2 DEF StageEvidence, Implementation, Verification
<1>8. evidence \in Evidence
  BY <1>2, <1>3, <1>6, <1>7, NothingTyped DEF Evidence
<1>9. meta' \in Meta /\ (t[2] = Implementation => SameRun(meta'.producer, evidence) /\ meta'.service = s)
  <2>1. meta.producer \in Evidence
    BY <1>6 DEF Meta
  <2>2. Patched(meta.producer, evidence) \in Evidence /\ SameRun(Patched(meta.producer, evidence), evidence)
    BY <1>8, <2>1, PatchedTyped
  <2> QED
    BY <1>4, <1>6, <2>2 DEF Meta
<1>10. GoalTyped'
  BY <1>4, <1>6, <1>8, <1>9 DEF GoalTyped
<1>11. \A u \in Tasks : Stays(u)
  BY <1>5, CalmStays
<1>12. Planned' /\ Created' /\ Ended' /\ ReadPlanning' /\ ReadJudging' /\ Turns'
  <2>1. Planned /\ Created /\ Ended /\ ReadPlanning /\ ReadJudging /\ Turns
    BY DEF GoalInv
  <2>2. Planned' /\ Created' /\ Ended'
    BY <1>4, <1>6, <1>11, <2>1, StoreKept
  <2>3. ReadPlanning' /\ ReadJudging'
    BY <1>4, <1>6, <1>11, <2>1, ReadKept
  <2> QED
    BY <1>3, <1>4, <2>1, <2>2, <2>3 DEF Turns
<1>13. Evident'
  <2>1. Evident
    BY DEF GoalInv
  <2>2. \A u \in Tasks : Bound(u)'
    BY <1>4, <1>5, <2>1, BoundKept
  <2>3. ASSUME NEW c \in Cycles, goal.bound > 0, flows[goal.bound].plan = PlanTasks(c)
        PROVE  Proven(<<c, Implementation>>, <<c, Verification>>)'
    <3>1. /\ <<c, Implementation>> \in Tasks /\ <<c, Verification>> \in Tasks
          /\ Proven(<<c, Implementation>>, <<c, Verification>>)
      BY <2>1, <2>3, StageTasks DEF Evident
    <3>2. t[2] = Implementation => t = <<c, Implementation>>
      BY <1>4, <2>3, PlanOf DEF BoundToFlow
    <3>3. /\ status'[<<c, Implementation>>] = "SUCCEEDED" => status[<<c, Implementation>>] = "SUCCEEDED"
          /\ status'[<<c, Verification>>] = "SUCCEEDED" => status[<<c, Verification>>] = "SUCCEEDED"
      BY <1>5, <3>1 DEF Calm
    <3>4. status'[<<c, Implementation>>] = "SUCCEEDED" => meta' = meta
      BY <1>3, <1>4, <3>2, <3>3
    <3> QED
      BY <1>4, <3>1, <3>3, <3>4 DEF Proven
  <2> QED
    BY <1>4, <2>2, <2>3 DEF Evident
<1>14. Outcome'
  <2>1. cur'[Engine].task = t /\ cur'[Engine].run = n
    BY <1>2, <1>4 DEF Task
  <2>2. payload'[t] = goal'.bound /\ goal'.bound > 0 /\ t \in flows'[goal'.bound].plan
    BY <1>4, <1>6 DEF BoundToFlow
  <2>3. t[2] = Implementation =>
           /\ SameRun(meta'.producer, out') /\ out'.service = meta'.service
           /\ out'.flow = goal'.bound /\ out'.run = n
    BY <1>4, <1>7, <1>9, <2>2
  <2>4. t[2] = Verification =>
           /\ out'.examined = <<meta'.producer.flow, meta'.producer.run>>
           /\ out'.service # meta'.service
    BY <1>4, <1>7 DEF MayRun, Implementation, Verification
  <2> QED
    BY <2>1, <2>2, <2>3, <2>4 DEF Outcome
<1> QED
  BY <1>5, <1>10, <1>12, <1>13, <1>14 DEF GoalInv

LEMMA FinalizeStageKeeps == ASSUME GoalInv, FinalizeStage PROVE GoalInv'
<1>1. Working(Engine) /\ pc[Engine] = "finalize"
  BY DEF FinalizeStage, FinalizeAndComplete, Working
<1>2. PICK t, n : t = cur[Engine].task /\ n = cur[Engine].run
  OBVIOUS
<1>3. t \in Tasks /\ n \in DOMAIN runs[t] /\ status[t] = "RUNNING" /\ at = "kernel"
  BY <1>1, <1>2, AtWork
<1>4. /\ SoloInv' /\ RunsGrow /\ pc'[Engine] = "dispatch"
      /\ \A u \in Tasks : u # t => Calm(u)
      /\ status'[t] # "absent"
      /\ status'[t] = "SUCCEEDED" <=> memo[Engine].to = "SUCCEEDED"
      /\ runs'[t][n].status = "SUCCEEDED" <=> memo[Engine].to = "SUCCEEDED"
  BY <1>2, FinalizeSolo DEF GoalInv, FinalizeStage
<1>5. /\ result' = [result EXCEPT ![t] = IF runs'[t][n].status = "SUCCEEDED" THEN out ELSE @]
      /\ out' = NoEvidence /\ UNCHANGED <<goal, meta, flows, payload, at, seen>>
  BY <1>2 DEF FinalizeStage, Task
<1>6. GoalTyped /\ result \in [Tasks -> Evidence] /\ out \in Evidence
  BY DEF GoalInv, GoalTyped
<1>7. Turns' /\ Outcome' /\ out' \in Evidence
  BY <1>3, <1>4, <1>5, NothingTyped DEF GoalInv, Turns, Outcome
<1>8. CASE memo[Engine].to # "SUCCEEDED"
  <2>1. result' = result /\ Calm(t)
    BY <1>3, <1>4, <1>5, <1>6, <1>8 DEF Calm, TerminalTask
  <2>2. UNCHANGED goalState /\ \A u \in Tasks : Calm(u)
    BY <1>4, <1>5, <2>1 DEF goalState
  <2> QED
    BY <1>4, <1>5, <1>7, <2>2, KernelTurn
<1>9. CASE memo[Engine].to = "SUCCEEDED"
  <2>1. /\ result'[t] = out /\ result' \in [Tasks -> Evidence]
        /\ \A u \in Tasks : u # t => result'[u] = result[u]
        /\ status'[t] = "SUCCEEDED" /\ runs'[t][n].status = "SUCCEEDED" /\ n \in DOMAIN runs'[t]
    BY <1>3, <1>4, <1>5, <1>6, <1>9 DEF RunsGrow
  <2>2. \A u \in Tasks : Stays(u)
    BY <1>3, <1>4, CalmStays DEF Stays, TerminalTask
  <2>3. Planned' /\ Created' /\ Ended' /\ ReadPlanning' /\ ReadJudging'
    <3>1. Planned /\ Created /\ Ended /\ ReadPlanning /\ ReadJudging
      BY DEF GoalInv
    <3> QED
      BY <1>5, <1>6, <2>2, <3>1, StoreKept, ReadKept
  <2>4. GoalTyped'
    BY <1>5, <1>6, <1>7, <2>1 DEF GoalTyped
  <2>5. /\ payload[t] = goal.bound /\ goal.bound > 0 /\ t \in flows[goal.bound].plan
        /\ t[2] = Implementation =>
              /\ SameRun(meta.producer, out) /\ out.service = meta.service
              /\ out.flow = goal.bound /\ out.run = n
        /\ t[2] = Verification =>
              /\ out.examined = <<meta.producer.flow, meta.producer.run>>
              /\ out.service # meta.service
    BY <1>1, <1>2, <1>9 DEF GoalInv, Outcome
  <2>6. Evident /\ SoloInv
    BY DEF GoalInv
  <2>7. ASSUME NEW u \in Tasks PROVE Bound(u)'
    <3>1. CASE u # t
      BY <1>4, <1>5, <2>1, <2>6, <3>1, BoundKept
    <3>2. CASE u = t
      BY <1>5, <2>1, <2>5, <3>2 DEF Bound
    <3> QED
      BY <3>1, <3>2
  <2>8. ASSUME NEW c \in Cycles, flows[goal.bound].plan = PlanTasks(c)
        PROVE  Proven(<<c, Implementation>>, <<c, Verification>>)'
    <3> PICK impl \in Tasks, verif \in Tasks :
           impl = <<c, Implementation>> /\ verif = <<c, Verification>>
      BY StageTasks
    <3>1. impl # verif /\ Proven(impl, verif) /\ t = <<c, t[2]>>
      BY <2>5, <2>6, <2>8, PlanOf DEF Evident, Implementation, Verification
    <3>2. t # impl => /\ status'[impl] = "SUCCEEDED" => status[impl] = "SUCCEEDED"
                      /\ result'[impl] = result[impl]
      BY <1>4, <2>1 DEF Calm
    <3>3. t # verif => /\ status'[verif] = "SUCCEEDED" => status[verif] = "SUCCEEDED"
                       /\ result'[verif] = result[verif]
      BY <1>4, <2>1 DEF Calm
    <3>4. CASE t = impl
      <4>1. t[2] = Implementation
        BY <3>4
      <4>2. status[verif] # "SUCCEEDED"
        BY <1>3, <2>6, <3>4, VerifiedHasRun, ImplementationFirst
      <4> QED
        BY <1>5, <2>1, <2>5, <3>1, <3>3, <3>4, <4>1, <4>2 DEF Proven, SameRun
    <3>5. CASE t = verif
      <4>1. t[2] = Verification
        BY <3>5
      <4>2. status[impl] = "SUCCEEDED"
        BY <1>3, <2>6, <3>5, ImplementationFirst
      <4> QED
        BY <1>5, <2>1, <2>5, <3>1, <3>2, <3>5, <4>1, <4>2 DEF Proven, SameRun
    <3>6. CASE t # impl /\ t # verif
      BY <1>5, <3>1, <3>2, <3>3, <3>6 DEF Proven
    <3> QED
      BY <3>4, <3>5, <3>6
  <2>9. Evident'
    BY <1>5, <2>7, <2>8 DEF Evident
  <2> QED
    BY <1>4, <1>7, <2>3, <2>4, <2>9 DEF GoalInv
<1> QED
  BY <1>8, <1>9

-----------------------------------------------------------------------------
(***************************************************************************)
(* The engine's steps on the goal.                                         *)
(***************************************************************************)
\* The engine plans and judges while nothing runs.
LEMMA GoalFrame ==
  ASSUME GoalInv, at # "kernel", UNCHANGED <<kernelVars, out>>
  PROVE  /\ SoloInv' /\ RunsGrow /\ (\A t \in Tasks : Calm(t)) /\ (\A t \in Tasks : Stays(t))
         /\ Outcome' /\ out' \in Evidence /\ status' = status /\ runs' = runs
         /\ pc'[Engine] \in {"idle", "reclaim", "orphans", "recover"}
<1>1. SoloInv' /\ RunsGrow /\ \A t \in Tasks : Calm(t)
  BY KernelSame DEF GoalInv
<1>2. \A t \in Tasks : Stays(t)
  BY <1>1, CalmStays
<1>3. pc' = pc /\ pc[Engine] \in {"idle", "reclaim", "orphans", "recover"}
  BY DEF GoalInv, Turns, kernelVars
<1>4. Outcome' /\ out' \in Evidence
  BY <1>3 DEF Outcome, GoalInv, GoalTyped
<1> QED
  BY <1>1, <1>2, <1>3, <1>4 DEF kernelVars

LEMMA ProcessKeeps == ASSUME GoalInv, ProcessGoal PROVE GoalInv'
<1>1. /\ UNCHANGED <<kernelVars, goal, meta, flows, payload, result, out>> /\ at = "goal"
      /\ goal.status \notin GoalTerminal /\ seen' = Snapshot
      /\ at' = IF ~NeedsPlan(NewestFlow) THEN "collect"
               ELSE IF goal.status = "PENDING" THEN "activate" ELSE "plan"
  BY DEF ProcessGoal, Turn, goalState
<1>2. /\ SoloInv' /\ RunsGrow /\ (\A t \in Tasks : Calm(t)) /\ (\A t \in Tasks : Stays(t))
      /\ Outcome' /\ out' \in Evidence /\ pc'[Engine] \in {"idle", "reclaim", "orphans", "recover"}
  BY <1>1, GoalFrame
<1>3. GoalTyped /\ Planned /\ Created /\ Ended /\ Evident
  BY DEF GoalInv
<1>4. /\ seen' \in Seen /\ seen'.status = goal.status /\ seen'.cycle = goal.cycle
      /\ seen'.bound = goal.bound /\ seen'.newest = Len(flows) /\ seen'.flow = NewestFlow
      /\ seen'.stage = 1
  BY <1>1, <1>3, SnapshotTyped
<1>5. GoalTyped' /\ Turns'
  BY <1>1, <1>2, <1>3, <1>4 DEF GoalTyped, Places, Turns
<1>6. Planned' /\ Created' /\ Ended' /\ Evident'
  BY <1>1, <1>2, <1>3, StoreKept, EvidentKept
<1>7. goal.status \in {"PENDING", "ACTIVE"}
  BY <1>1, <1>3 DEF GoalTyped, GoalStatus, GoalTerminal
<1>8. ReadPlanning' /\ ReadJudging'
  <2>1. CASE ~NeedsPlan(NewestFlow)
    <3>1. at' = "collect" /\ goal.status = "ACTIVE"
      BY <1>1, <1>7, <2>1 DEF NeedsPlan
    <3>2. NewestFlow.status \in {"ACTIVE", "SUCCEEDED"}
      <4>1. flows # << >>
        BY <2>1, NothingTyped DEF NeedsPlan, NewestFlow
      <4>2. NewestFlow \in Flow
        BY <1>3, <4>1, FlowsTyped, EmptySeq DEF NewestFlow, GoalTyped
      <4> QED
        BY <2>1, <4>2 DEF NeedsPlan, Flow
    <3>3. /\ Len(flows) > 0 /\ InForce(Len(flows)) /\ NewestFlow = flows[Len(flows)]
      BY <1>3, <3>2, NewestInForce
    <3> QED
      BY <1>1, <1>4, <3>1, <3>3 DEF ReadPlanning, ReadJudging, InForce
  <2>2. CASE NeedsPlan(NewestFlow) /\ goal.status = "PENDING"
    BY <1>1, <1>4, <2>2 DEF ReadPlanning, ReadJudging
  <2>3. CASE NeedsPlan(NewestFlow) /\ goal.status = "ACTIVE"
    <3>1. NoneInForce
      BY <1>3, <2>3, NewestInForce DEF NeedsPlan
    <3>2. goal.cycle < MaxCycles
      BY <1>1, <1>3, <3>1 DEF Planned
    <3> QED
      BY <1>1, <1>4, <2>3, <3>1, <3>2 DEF ReadPlanning, ReadJudging, NoneInForce, InForce
  <2> QED
    BY <1>7, <2>1, <2>2, <2>3
<1> QED
  BY <1>2, <1>5, <1>6, <1>8 DEF GoalInv

\* The turn ends, and the goal is as it was.
LEMMA ReturnKeeps ==
  ASSUME GoalInv, at # "kernel", Return, UNCHANGED <<kernelVars, goalState, out>> PROVE GoalInv'
<1>1. /\ SoloInv' /\ RunsGrow /\ (\A t \in Tasks : Calm(t)) /\ Outcome' /\ out' \in Evidence
  BY GoalFrame
<1>2. at' = "kernel" /\ seen' \in Seen
  BY NothingTyped DEF Return
<1>3. Turns'
  BY <1>2 DEF Turns
<1> QED
  BY <1>1, <1>2, <1>3, KernelTurn

\* The turn ends, and with it the goal, which was ACTIVE.
LEMMA GoalEndsKeeps ==
  ASSUME GoalInv, at # "kernel", Return, UNCHANGED <<kernelVars, meta, flows, payload, result, out>>,
         NEW to \in GoalTerminal, goal.status = "ACTIVE", goal' = [goal EXCEPT !.status = to],
         to = "SUCCEEDED" => PlanAchieved,
         to = "FAILED" /\ goal.bound > 0 => flows[goal.bound].plan = {} \/ PlanFailed(goal.bound)
  PROVE  GoalInv'
<1>1. /\ SoloInv' /\ RunsGrow /\ (\A t \in Tasks : Calm(t)) /\ Outcome' /\ out' \in Evidence
      /\ status' = status /\ runs' = runs
  BY GoalFrame
<1>2. at' = "kernel" /\ seen' \in Seen
  BY NothingTyped DEF Return
<1>3. GoalTyped /\ Planned /\ Created /\ Ended /\ Evident
  BY DEF GoalInv
<1>4. /\ goal'.status = to /\ goal'.cycle = goal.cycle /\ goal'.bound = goal.bound
      /\ goal' \in [status : GoalStatus, cycle : 0 .. MaxCycles, bound : Nat, mutation : BOOLEAN]
  BY <1>3 DEF GoalTyped, GoalTerminal, GoalStatus
<1>5. GoalTyped' /\ Turns' /\ ReadPlanning' /\ ReadJudging'
  BY <1>1, <1>2, <1>3, <1>4 DEF GoalTyped, Places, Turns, ReadPlanning, ReadJudging
<1>6. Created' /\ Evident'
  BY <1>1, <1>3, <1>4 DEF Created, Evident, Bound, Proven
<1>7. Planned'
  BY <1>1, <1>3, <1>4 DEF Planned, PlanFailed, InForce, NoneInForce, GoalTerminal
<1>8. Ended'
  BY <1>1, <1>4 DEF Ended, PlanAchieved, PlanFailed, GoalTerminal
<1> QED
  BY <1>1, <1>5, <1>6, <1>7, <1>8 DEF GoalInv

\* The compare-and-swap of a goal that is ACTIVE, as it was read.
LEMMA GoalMovesTo ==
  ASSUME NEW to \in GoalTerminal, TransitionGoal("ACTIVE", to), goal.status = "ACTIVE"
  PROVE  goal' = [goal EXCEPT !.status = to]
  BY DEF TransitionGoal, GoalTransitions, GoalTerminal

\* The bound flow of a goal that is being planned holds no work.
LEMMA PlanningHolds ==
  ASSUME GoalInv, at \in {"plan", "bind", "stage", "record"}, goal.bound > 0
  PROVE  /\ goal.bound \in DOMAIN flows
         /\ flows[goal.bound].plan = {} \/ PlanFailed(goal.bound)
         /\ flows[goal.bound].status \in {"PLANNED", "SUPERSEDED"}
<1>1. goal.bound \in DOMAIN flows /\ flows[goal.bound] \in Flow
  BY FlowsTyped DEF GoalInv
<1>2. ~InForce(goal.bound)
  BY <1>1 DEF GoalInv, ReadPlanning, NoneInForce
<1>3. flows[goal.bound].status \in {"PLANNED", "SUPERSEDED"}
  BY <1>1, <1>2 DEF Flow, InForce
<1> QED
  BY <1>1, <1>3 DEF GoalInv, Planned

LEMMA PlanningFailsKeeps == ASSUME GoalInv, PlanningFails PROVE GoalInv'
<1>1. /\ at \in {"plan", "bind", "stage", "record"} /\ Return
      /\ UNCHANGED <<kernelVars, meta, flows, payload, result, out>>
      /\ goal.status = "ACTIVE"
  BY DEF PlanningFails, GoalInv, ReadPlanning
<1>2. CASE UNCHANGED goal
  BY <1>1, <1>2, ReturnKeeps DEF goalState
<1>3. CASE TransitionGoal(goal.status, "FAILED")
  <2>1. goal' = [goal EXCEPT !.status = "FAILED"]
    BY <1>1, <1>3, GoalMovesTo DEF GoalTerminal
  <2>2. goal.bound > 0 => flows[goal.bound].plan = {} \/ PlanFailed(goal.bound)
    BY <1>1, PlanningHolds
  <2> QED
    BY <1>1, <2>1, <2>2, GoalEndsKeeps DEF GoalTerminal
<1> QED
  BY <1>2, <1>3 DEF PlanningFails

\* What the judge looks at is the flow in force.
LEMMA JudgedFlow ==
  ASSUME GoalInv, at \in {"collect", "mark", "judge", "replan"}
  PROVE  /\ seen.newest = goal.bound /\ goal.bound \in DOMAIN flows /\ goal.bound > 0
         /\ goal.bound = Len(flows) /\ InForce(goal.bound)
         /\ seen.flow.plan = flows[goal.bound].plan /\ seen.flow.plan # {} /\ seen.flow.plan \subseteq Tasks
         /\ goal.status = "ACTIVE" /\ seen.status = "ACTIVE" /\ seen.cycle = goal.cycle
         /\ \A f \in DOMAIN flows : InForce(f) => f = goal.bound
<1>1. GoalTyped /\ Planned /\ ReadJudging
  BY DEF GoalInv
<1>2. /\ seen.newest \in DOMAIN flows /\ InForce(seen.newest) /\ seen.flow.plan = flows[seen.newest].plan
      /\ seen.newest = Len(flows) /\ seen.newest > 0
      /\ goal.status = "ACTIVE" /\ seen.status = "ACTIVE" /\ seen.cycle = goal.cycle
  BY <1>1, FlowsTyped DEF ReadJudging
<1>3. seen.newest = goal.bound /\ flows[seen.newest].plan # {}
  BY <1>1, <1>2 DEF Planned, InForce
<1>4. \A f \in DOMAIN flows : InForce(f) => f = goal.bound
  BY <1>1 DEF Planned
<1> QED
  BY <1>1, <1>2, <1>3, <1>4, FlowsTyped

LEMMA JudgesAt == Judges => at \in {"collect", "judge"}
  BY DEF Judges

LEMMA JudgeDoneKeeps ==
  ASSUME GoalInv, JudgeDone PROVE GoalInv' /\ PlanAchieved /\ goal' = [goal EXCEPT !.status = "SUCCEEDED"]
<1>1. /\ at \in {"collect", "judge"} /\ Return /\ Verdict = "DONE" /\ TransitionGoal(seen.status, "SUCCEEDED")
      /\ UNCHANGED <<kernelVars, meta, flows, payload, result, out>>
  BY JudgesAt DEF JudgeDone, JudgeEnds
<1>2. \A t \in seen.flow.plan : status[t] = "SUCCEEDED"
  BY <1>1 DEF Verdict
<1>3. PlanAchieved
  BY <1>1, <1>2, JudgedFlow DEF PlanAchieved
<1>4. goal' = [goal EXCEPT !.status = "SUCCEEDED"]
  BY <1>1, JudgedFlow, GoalMovesTo DEF GoalTerminal
<1> QED
  BY <1>1, <1>3, <1>4, JudgedFlow, GoalEndsKeeps DEF GoalTerminal

LEMMA JudgeFailKeeps ==
  ASSUME GoalInv, JudgeFail
  PROVE  GoalInv' /\ PlanFailed(goal.bound) /\ goal' = [goal EXCEPT !.status = "FAILED"]
<1>1. /\ at \in {"collect", "judge"} /\ Return /\ Verdict = "FAIL" /\ TransitionGoal(seen.status, "FAILED")
      /\ UNCHANGED <<kernelVars, meta, flows, payload, result, out>>
  BY JudgesAt DEF JudgeFail, JudgeEnds
<1>2. PlanHas("FAILED")
  BY <1>1 DEF Verdict
<1>3. PlanFailed(goal.bound)
  BY <1>1, <1>2, JudgedFlow DEF PlanHas, PlanFailed
<1>4. goal' = [goal EXCEPT !.status = "FAILED"]
  BY <1>1, JudgedFlow, GoalMovesTo DEF GoalTerminal
<1> QED
  BY <1>1, <1>3, <1>4, JudgedFlow, GoalEndsKeeps DEF GoalTerminal

LEMMA ExhaustedKeeps ==
  ASSUME GoalInv, CyclesExhausted
  PROVE  GoalInv' /\ PlanFailed(goal.bound) /\ goal' = [goal EXCEPT !.status = "FAILED"]
<1>1. /\ at = "replan" /\ Return /\ TransitionGoal(seen.status, "FAILED")
      /\ UNCHANGED <<kernelVars, meta, flows, payload, result, out>>
  BY DEF CyclesExhausted
<1>2. PlanFailed(goal.bound)
  <2>1. PICK f : f = seen.newest
    OBVIOUS
  <2>2. PlanFailed(f) /\ f = goal.bound
    BY <1>1, <2>1, JudgedFlow DEF GoalInv, ReadJudging
  <2> QED
    BY <2>2
<1>3. goal' = [goal EXCEPT !.status = "FAILED"]
  BY <1>1, JudgedFlow, GoalMovesTo DEF GoalTerminal
<1> QED
  BY <1>1, <1>2, <1>3, JudgedFlow, GoalEndsKeeps DEF GoalTerminal

LEMMA ActivateKeeps ==
  ASSUME GoalInv, Activate PROVE GoalInv' /\ goal.status = "PENDING" /\ goal' = [goal EXCEPT !.status = "ACTIVE"]
<1>1. /\ at = "activate" /\ at' = "plan" /\ UNCHANGED <<kernelVars, meta, flows, payload, result, seen, out>>
      /\ goal.status = "PENDING"
  BY DEF Activate, Turn, GoalInv, ReadPlanning
<1>2. goal' = [goal EXCEPT !.status = "ACTIVE"]
  BY <1>1 DEF Activate, TransitionGoal, GoalTransitions
<1>3. GoalTyped /\ Planned /\ Created /\ Ended /\ Evident /\ ReadPlanning
  BY DEF GoalInv
<1>4. /\ SoloInv' /\ RunsGrow /\ Outcome' /\ out' \in Evidence /\ status' = status /\ runs' = runs
      /\ pc'[Engine] \in {"idle", "reclaim", "orphans", "recover"}
  BY <1>1, GoalFrame
<1>5. /\ goal'.status = "ACTIVE" /\ goal'.cycle = goal.cycle /\ goal'.bound = goal.bound
      /\ goal' \in [status : GoalStatus, cycle : 0 .. MaxCycles, bound : Nat, mutation : BOOLEAN]
  BY <1>2, <1>3 DEF GoalTyped, GoalStatus
<1>6. GoalTyped' /\ Turns'
  BY <1>1, <1>3, <1>4, <1>5 DEF GoalTyped, Places, Turns, GoalTerminal
<1>7. flows = << >> /\ DOMAIN flows = {} /\ goal.bound = 0 /\ goal.cycle < MaxCycles
  <2>1. flows = << >> /\ Len(flows) = 0 /\ DOMAIN flows = {}
    BY <1>1, <1>3 DEF Planned
  <2>2. goal.bound = 0
    BY <1>3, <2>1 DEF GoalTyped
  <2>3. goal.cycle < MaxCycles
    BY <1>1, <1>3, <2>1 DEF Planned, NoneInForce, GoalTerminal
  <2> QED
    BY <2>1, <2>2, <2>3
<1>8. ReadPlanning' /\ ReadJudging'
  BY <1>1, <1>3, <1>5, <1>7 DEF ReadPlanning, ReadJudging, NoneInForce
<1>9. Planned' /\ Created' /\ Ended' /\ Evident'
  <2>1. Planned' /\ Ended'
    BY <1>1, <1>5, <1>7 DEF Planned, Ended, GoalTerminal
  <2>2. Created' /\ Evident'
    BY <1>1, <1>3, <1>4, <1>5 DEF Created, Evident, Bound, Proven
  <2> QED
    BY <2>1, <2>2
<1> QED
  BY <1>1, <1>2, <1>4, <1>6, <1>8, <1>9 DEF GoalInv

LEMMA EvidenceKeeps == ASSUME GoalInv, RecordEvidence PROVE GoalInv'
<1>1. /\ at = "collect" /\ at' = "mark" /\ UNCHANGED <<kernelVars, goal, flows, payload, result, seen, out>>
  BY DEF RecordEvidence, Turn
<1>2. GoalTyped /\ Planned /\ Created /\ Ended /\ Evident /\ ReadPlanning /\ ReadJudging
  BY DEF GoalInv
<1>0. meta \in Meta /\ result \in [Tasks -> Evidence] /\ meta.verification \in Evidence
  BY <1>2 DEF GoalTyped, Meta
<1>3. PICK t \in Tasks : meta' = [meta EXCEPT !.verification = Patched(meta.verification, result[t])]
  BY <1>0, <1>1, JudgedFlow DEF RecordEvidence, PlanTask, Meta
<1>4. meta' \in Meta /\ meta'.producer = meta.producer /\ meta'.service = meta.service
  <2>1. Patched(meta.verification, result[t]) \in Evidence
    BY <1>0, PatchedTyped
  <2> QED
    BY <1>0, <1>3, <2>1 DEF Meta
<1>5. /\ SoloInv' /\ RunsGrow /\ (\A u \in Tasks : Stays(u)) /\ Outcome' /\ out' \in Evidence
      /\ status' = status /\ runs' = runs /\ pc'[Engine] \in {"idle", "reclaim", "orphans", "recover"}
  BY <1>1, GoalFrame
<1>6. GoalTyped' /\ Turns'
  <2>1. goal.status = "ACTIVE"
    BY <1>1, JudgedFlow
  <2> QED
    BY <1>1, <1>2, <1>4, <1>5, <2>1 DEF GoalTyped, Places, Turns, GoalTerminal
<1>7. Planned' /\ Created' /\ Ended'
  BY <1>1, <1>2, <1>5, StoreKept
<1>8. Evident'
  BY <1>1, <1>2, <1>4, <1>5 DEF Evident, Bound, Proven
<1>9. ReadPlanning' /\ ReadJudging'
  BY <1>1, <1>2 DEF ReadPlanning, ReadJudging, InForce
<1> QED
  BY <1>5, <1>6, <1>7, <1>8, <1>9 DEF GoalInv

LEMMA MarkKeeps == ASSUME GoalInv, MarkFlow PROVE GoalInv' /\ UNCHANGED goal /\ PlanAchieved' = PlanAchieved
<1>1. /\ at \in {"collect", "mark"} /\ at' = "judge"
      /\ UNCHANGED <<kernelVars, goal, meta, payload, result, seen, out>>
  BY DEF MarkFlow, Turn
<1>2. GoalTyped /\ Planned /\ Created /\ Ended /\ Evident /\ ReadPlanning /\ ReadJudging
  BY DEF GoalInv
<1>3. PICK f : f = goal.bound
  OBVIOUS
<1>4. /\ f \in DOMAIN flows /\ f > 0 /\ InForce(f) /\ seen.newest = f /\ f = Len(flows)
      /\ seen.flow.plan = flows[f].plan /\ goal.status = "ACTIVE" /\ flows[f] \in Flow
      /\ \A g \in DOMAIN flows : flows[g] \in Flow
  BY <1>1, <1>2, <1>3, JudgedFlow, FlowsTyped
<1>5. PICK row : row = Updated(flows[f], IF at = "mark" THEN seen.flow.revision ELSE flows[f].revision,
                               "SUCCEEDED", flows[f].plan)
  OBVIOUS
<1>6. flows' = [flows EXCEPT ![f] = row]
  BY <1>4, <1>5 DEF MarkFlow, UpdateFlow
<1>7. row \in Flow /\ row.plan = flows[f].plan /\ row.status \in {"ACTIVE", "SUCCEEDED"}
  <2>1. CASE row = flows[f]
    BY <1>4, <2>1 DEF InForce
  <2>2. CASE row # flows[f]
    <3> PICK revision : revision = IF at = "mark" THEN seen.flow.revision ELSE flows[f].revision
      OBVIOUS
    <3>1. flows[f].revision = revision /\ row = [status |-> "SUCCEEDED", revision |-> revision + 1, plan |-> flows[f].plan]
      BY <1>5, <2>2 DEF Updated
    <3>2. revision \in Nat /\ flows[f].plan \in Plans
      BY <1>4, <3>1 DEF Flow
    <3> QED
      BY <3>1, <3>2 DEF Flow
  <2> QED
    BY <2>1, <2>2
<1>8. /\ flows' \in Seq(Flow) /\ Len(flows') = Len(flows) /\ DOMAIN flows' = DOMAIN flows
      /\ \A g \in DOMAIN flows :
            /\ flows'[g].plan = flows[g].plan
            /\ g # f => flows'[g].status = flows[g].status
            /\ g = f => flows'[g].status \in {"ACTIVE", "SUCCEEDED"}
  BY <1>2, <1>4, <1>6, <1>7, FlowWritten
<1>9. /\ SoloInv' /\ RunsGrow /\ Outcome' /\ out' \in Evidence
      /\ status' = status /\ runs' = runs /\ pc'[Engine] \in {"idle", "reclaim", "orphans", "recover"}
  BY <1>1, GoalFrame
<1>10. GoalTyped' /\ Turns'
  BY <1>1, <1>2, <1>4, <1>8, <1>9 DEF GoalTyped, Places, Turns, GoalTerminal
<1>11. Planned'
  <2>1. ~NoneInForce'
    BY <1>4, <1>8 DEF NoneInForce, InForce
  <2>2. ASSUME NEW g \in DOMAIN flows
        PROVE  /\ flows'[g].status = "PLANNED" <=> flows'[g].plan = {}
               /\ \A t \in flows'[g].plan : status'[t] # "absent" /\ payload'[t] = g
               /\ flows'[g].status = "SUPERSEDED" => PlanFailed(g)'
               /\ InForce(g)' => g = goal'.bound /\ g = Len(flows')
    <3>1. CASE g = f
      BY <1>1, <1>2, <1>3, <1>4, <1>8, <1>9, <3>1 DEF Planned, InForce
    <3>2. CASE g # f
      BY <1>1, <1>2, <1>8, <1>9, <3>2 DEF Planned, InForce, PlanFailed
    <3> QED
      BY <3>1, <3>2
  <2> QED
    BY <1>1, <1>3, <1>4, <1>8, <2>1, <2>2 DEF Planned
<1>12. Created'
  BY <1>1, <1>2, <1>3, <1>4, <1>8, <1>9 DEF Created
<1>13. PlanAchieved' = PlanAchieved
  BY <1>1, <1>3, <1>4, <1>8, <1>9 DEF PlanAchieved
<1>14. Ended' /\ Evident'
  <2>1. Ended'
    BY <1>1, <1>4 DEF Ended
  <2>2. \A t \in Tasks : Bound(t)'
    <3> SUFFICES ASSUME NEW t \in Tasks, status[t] = "SUCCEEDED" PROVE Bound(t)'
      BY <1>9 DEF Bound
    <3>1. payload[t] \in DOMAIN flows
      BY <1>2, FlowsTyped DEF Created, GoalTyped
    <3> QED
      BY <1>1, <1>2, <1>8, <1>9, <3>1 DEF Evident, Bound
  <2>3. flows'[f].plan = flows[f].plan
    BY <1>4, <1>8
  <2> QED
    BY <1>1, <1>2, <1>3, <1>9, <2>1, <2>2, <2>3 DEF Evident, Proven
<1>15. ReadPlanning' /\ ReadJudging'
  BY <1>1, <1>2, <1>4, <1>8 DEF ReadPlanning, ReadJudging, InForce
<1> QED
  BY <1>1, <1>9, <1>10, <1>11, <1>12, <1>13, <1>14, <1>15 DEF GoalInv

LEMMA BumpKeeps ==
  ASSUME GoalInv, BumpCycle
  PROVE  /\ GoalInv' /\ PlanFailed(goal.bound) /\ goal.cycle < MaxCycles /\ goal.status = "ACTIVE"
         /\ goal' = [goal EXCEPT !.cycle = @ + 1]
<1>1. /\ at \in {"collect", "judge"} /\ at' = "replan" /\ Verdict = "REPLAN"
      /\ UNCHANGED <<kernelVars, meta, flows, payload, result, out>>
      /\ goal' = [goal EXCEPT !.cycle = @ + 1]
      /\ seen' = [Snapshot EXCEPT !.cycle = goal.cycle + 1, !.replanning = TRUE]
  BY JudgesAt DEF BumpCycle, Turn
<1>2. GoalTyped /\ Planned /\ Created /\ Ended /\ Evident /\ ReadPlanning /\ ReadJudging
  BY DEF GoalInv
<1>3. PlanHas("FAILED") /\ seen.cycle < MaxCycles
  BY <1>1 DEF Verdict
<1>4. PICK f : f = goal.bound
  OBVIOUS
<1>5. /\ f \in DOMAIN flows /\ f > 0 /\ InForce(f) /\ f = Len(flows)
      /\ goal.status = "ACTIVE" /\ seen.cycle = goal.cycle /\ seen.flow.plan = flows[f].plan
  BY <1>1, <1>4, JudgedFlow
<1>6. PlanFailed(f)
  BY <1>3, <1>5 DEF PlanHas, PlanFailed
<1>7. goal.cycle \in Nat /\ goal.cycle + 1 \in 0 .. MaxCycles
  BY <1>2, <1>3, <1>5, GoalCycles DEF GoalTyped
<1>8. /\ goal' \in [status : GoalStatus, cycle : 0 .. MaxCycles, bound : Nat, mutation : BOOLEAN]
      /\ goal'.status = "ACTIVE" /\ goal'.cycle = goal.cycle + 1 /\ goal'.bound = f
  BY <1>1, <1>2, <1>4, <1>5, <1>7 DEF GoalTyped
<1>9. NewestFlow = flows[f]
  BY <1>2, <1>5, NewestInForce DEF InForce, NewestFlow
<1>10. /\ seen' \in Seen /\ seen'.status = "ACTIVE" /\ seen'.cycle = goal.cycle + 1 /\ seen'.bound = f
       /\ seen'.newest = f /\ seen'.flow = flows[f] /\ seen'.stage = 1
  <2>1. /\ Snapshot \in Seen /\ Snapshot.status = goal.status /\ Snapshot.bound = goal.bound
        /\ Snapshot.newest = Len(flows) /\ Snapshot.flow = NewestFlow /\ Snapshot.stage = 1
    BY <1>2, SnapshotTyped
  <2> QED
    BY <1>1, <1>4, <1>5, <1>7, <1>9, <2>1 DEF Seen
<1>11. /\ SoloInv' /\ RunsGrow /\ Outcome' /\ out' \in Evidence
       /\ status' = status /\ runs' = runs /\ pc'[Engine] \in {"idle", "reclaim", "orphans", "recover"}
  BY <1>1, GoalFrame
<1>12. GoalTyped' /\ Turns'
  BY <1>1, <1>2, <1>4, <1>8, <1>10, <1>11 DEF GoalTyped, Places, Turns, GoalTerminal
<1>13. ~NoneInForce /\ ~NoneInForce'
  BY <1>1, <1>5 DEF NoneInForce, InForce
<1>14. Planned' /\ Ended'
  BY <1>1, <1>2, <1>4, <1>8, <1>11, <1>13 DEF Planned, Ended, InForce, PlanFailed
<1>15. ASSUME NEW t \in Tasks, status[t] # "absent"
       PROVE  t[1] <= goal.cycle /\ t[1] < goal.cycle + 1 /\ t[1] \in Nat
  <2>1. t[1] \in Nat /\ t[1] <= goal.cycle
    BY <1>2, <1>15, TaskKey, GoalCycles DEF Created, Cycles
  <2> QED
    BY <1>7, <2>1
<1>16. Created'
  <2> SUFFICES ASSUME NEW t \in Tasks, status[t] # "absent"
               PROVE  payload[t] > 0 /\ t[1] <= goal.cycle + 1 /\ t[1] # goal.cycle + 1
    BY <1>1, <1>8, <1>11 DEF Created
  <2> QED
    BY <1>2, <1>7, <1>15 DEF Created
<1>17. Evident'
  BY <1>1, <1>2, <1>4, <1>8, <1>11 DEF Evident, Bound, Proven
<1>18. ReadPlanning' /\ ReadJudging'
  <2>1. InForce(f)' /\ PlanFailed(f)'
    BY <1>1, <1>5, <1>6, <1>11 DEF InForce, PlanFailed
  <2> QED
    BY <1>1, <1>5, <1>8, <1>10, <1>11, <1>15, <2>1 DEF ReadPlanning, ReadJudging, InForce, PlanFailed
<1> QED
  BY <1>1, <1>3, <1>4, <1>5, <1>6, <1>11, <1>12, <1>14, <1>16, <1>17, <1>18 DEF GoalInv

\* One flow changes its plan or its state, and the goal stays.
LEMMA SupersedeKeeps == ASSUME GoalInv, SupersedeFlow PROVE GoalInv' /\ UNCHANGED goal /\ PlanAchieved' = PlanAchieved
<1>1. /\ at = "replan" /\ at' = "plan" /\ seen.cycle < MaxCycles
      /\ UNCHANGED <<kernelVars, goal, meta, payload, result, seen, out>>
  BY DEF SupersedeFlow, Turn
<1>2. GoalTyped /\ Planned /\ Created /\ Ended /\ Evident /\ ReadPlanning /\ ReadJudging
  BY DEF GoalInv
<1>3. PICK f : f = goal.bound
  OBVIOUS
<1>4. /\ f \in DOMAIN flows /\ f > 0 /\ InForce(f) /\ seen.newest = f /\ f = Len(flows)
      /\ seen.flow.plan = flows[f].plan /\ goal.status = "ACTIVE" /\ flows[f] \in Flow
      /\ seen.cycle = goal.cycle /\ flows[f].plan # {}
      /\ \A g \in DOMAIN flows : InForce(g) => g = f
  BY <1>1, <1>2, <1>3, JudgedFlow, FlowsTyped
<1>5. /\ PlanFailed(f) /\ seen.flow.revision = flows[f].revision /\ seen.stage = 1 /\ seen.bound = f
      /\ \A t \in Tasks : status[t] # "absent" => t[1] < goal.cycle
  BY <1>1, <1>2, <1>3, <1>4 DEF ReadJudging, PlanFailed
<1>6. PICK row : row = [status |-> "SUPERSEDED", revision |-> flows[f].revision + 1, plan |-> flows[f].plan]
  OBVIOUS
<1>7. flows' = [flows EXCEPT ![f] = row] /\ row \in Flow /\ row.status = "SUPERSEDED" /\ row.plan = flows[f].plan
  <2>1. flows' = [flows EXCEPT ![f] = row]
    BY <1>4, <1>5, <1>6 DEF SupersedeFlow, UpdateFlow, Updated
  <2> QED
    BY <1>4, <1>6, <2>1 DEF Flow
<1>8. /\ flows' \in Seq(Flow) /\ Len(flows') = Len(flows) /\ DOMAIN flows' = DOMAIN flows
      /\ \A g \in DOMAIN flows :
            /\ flows'[g].plan = flows[g].plan
            /\ g # f => flows'[g].status = flows[g].status
            /\ g = f => flows'[g].status = "SUPERSEDED"
  BY <1>2, <1>4, <1>7, FlowWritten
<1>9. /\ SoloInv' /\ RunsGrow /\ Outcome' /\ out' \in Evidence
      /\ status' = status /\ runs' = runs /\ pc'[Engine] \in {"idle", "reclaim", "orphans", "recover"}
  BY <1>1, GoalFrame
<1>10. GoalTyped' /\ Turns'
  BY <1>1, <1>2, <1>4, <1>8, <1>9 DEF GoalTyped, Places, Turns, GoalTerminal
<1>11. NoneInForce'
  BY <1>4, <1>8 DEF NoneInForce, InForce
<1>12. Planned'
  <2>1. ASSUME NEW g \in DOMAIN flows
        PROVE  /\ flows'[g].status = "PLANNED" <=> flows'[g].plan = {}
               /\ \A t \in flows'[g].plan : status'[t] # "absent" /\ payload'[t] = g
               /\ flows'[g].status = "SUPERSEDED" => PlanFailed(g)'
               /\ ~InForce(g)'
    <3>1. CASE g = f
      BY <1>1, <1>2, <1>4, <1>5, <1>8, <1>9, <3>1 DEF Planned, InForce, PlanFailed
    <3>2. CASE g # f
      BY <1>1, <1>2, <1>4, <1>8, <1>9, <3>2 DEF Planned, InForce, PlanFailed
    <3> QED
      BY <3>1, <3>2
  <2> QED
    BY <1>1, <1>3, <1>4, <1>8, <2>1 DEF Planned
<1>13. Created'
  <2> SUFFICES ASSUME NEW t \in Tasks, status[t] # "absent"
               PROVE  payload[t] > 0 /\ t[1] <= goal.cycle /\ t[1] # goal.cycle
    BY <1>1, <1>9 DEF Created
  <2>1. t[1] < goal.cycle /\ t[1] \in Nat /\ goal.cycle \in Nat
    BY <1>2, <1>5, TaskKey, GoalCycles DEF Cycles, GoalTyped
  <2> QED
    BY <1>2, <2>1 DEF Created
<1>14. PlanAchieved' = PlanAchieved
  BY <1>1, <1>3, <1>4, <1>8, <1>9 DEF PlanAchieved
<1>15. Ended' /\ Evident'
  <2>1. Ended'
    BY <1>1, <1>4 DEF Ended
  <2>2. \A t \in Tasks : Bound(t)'
    <3> SUFFICES ASSUME NEW t \in Tasks, status[t] = "SUCCEEDED" PROVE Bound(t)'
      BY <1>9 DEF Bound
    <3>1. payload[t] \in DOMAIN flows
      BY <1>2, FlowsTyped DEF Created, GoalTyped
    <3> QED
      BY <1>1, <1>2, <1>8, <1>9, <3>1 DEF Evident, Bound
  <2>3. flows'[f].plan = flows[f].plan
    BY <1>4, <1>8
  <2> QED
    BY <1>1, <1>2, <1>3, <1>9, <2>1, <2>2, <2>3 DEF Evident, Proven
<1>16. ReadPlanning' /\ ReadJudging'
  BY <1>1, <1>3, <1>4, <1>5, <1>11 DEF ReadPlanning, ReadJudging
<1> QED
  BY <1>1, <1>9, <1>10, <1>12, <1>13, <1>14, <1>15, <1>16 DEF GoalInv

LEMMA CreateFlowKeeps == ASSUME GoalInv, CreateFlow PROVE GoalInv' /\ UNCHANGED goal /\ PlanAchieved' = PlanAchieved
<1>1. /\ at = "plan" /\ UNCHANGED <<kernelVars, goal, meta, payload, result, out>>
      /\ \/ /\ ResumesFlow /\ at' = "stage" /\ UNCHANGED flows
            /\ seen' = [seen EXCEPT !.target = seen.bound]
         \/ /\ ~ResumesFlow /\ at' = "bind"
            /\ flows' = Append(flows, [status |-> "PLANNED", revision |-> 1, plan |-> {}])
            /\ seen' = [seen EXCEPT !.target = Len(flows) + 1]
  BY DEF CreateFlow, Turn
<1>2. GoalTyped /\ Planned /\ Created /\ Ended /\ Evident /\ ReadPlanning /\ ReadJudging
  BY DEF GoalInv
<1>3. /\ goal.status = "ACTIVE" /\ goal.cycle < MaxCycles /\ NoneInForce /\ seen.cycle = goal.cycle
      /\ seen.bound = goal.bound /\ seen.stage = 1
  BY <1>1, <1>2 DEF ReadPlanning
<1>4. /\ SoloInv' /\ RunsGrow /\ Outcome' /\ out' \in Evidence
      /\ (\A t \in Tasks : Calm(t)) /\ (\A t \in Tasks : Stays(t))
      /\ status' = status /\ runs' = runs /\ pc'[Engine] \in {"idle", "reclaim", "orphans", "recover"}
  BY <1>1, GoalFrame
<1>5. seen \in Seen /\ goal.bound \in Nat /\ Len(flows) \in Nat /\ DOMAIN flows = 1 .. Len(flows)
      /\ goal.bound <= Len(flows) /\ flows \in Seq(Flow) /\ (goal.bound > 0 => goal.bound \in DOMAIN flows)
  BY <1>2, FlowsTyped DEF GoalTyped
<1>6. CASE ResumesFlow /\ at' = "stage" /\ UNCHANGED flows /\ seen' = [seen EXCEPT !.target = seen.bound]
  <2>1. /\ seen' \in Seen /\ seen'.target = goal.bound /\ seen'.stage = 1 /\ seen'.cycle = goal.cycle
    BY <1>3, <1>5, <1>6 DEF Seen
  <2>2. GoalTyped' /\ Turns'
    BY <1>1, <1>2, <1>3, <1>4, <1>6, <2>1 DEF GoalTyped, Places, Turns, GoalTerminal
  <2>3. Planned' /\ Created' /\ Ended' /\ Evident'
    BY <1>1, <1>2, <1>4, <1>6, StoreKept, EvidentKept
  <2>4. goal.bound > 0 /\ flows[goal.bound].status = "PLANNED"
    BY <1>3, <1>6 DEF ResumesFlow
  <2>5. ReadPlanning' /\ ReadJudging'
    BY <1>1, <1>3, <1>6, <2>1, <2>4 DEF ReadPlanning, ReadJudging, NoneInForce, InForce, Stages
  <2>6. PlanAchieved' = PlanAchieved
    BY <1>1, <1>4, <1>6 DEF PlanAchieved
  <2> QED
    BY <1>1, <1>4, <2>2, <2>3, <2>5, <2>6 DEF GoalInv
<1>7. CASE /\ ~ResumesFlow /\ at' = "bind" /\ seen' = [seen EXCEPT !.target = Len(flows) + 1]
           /\ flows' = Append(flows, [status |-> "PLANNED", revision |-> 1, plan |-> {}])
  <2> PICK row : row = [status |-> "PLANNED", revision |-> 1, plan |-> {}]
    OBVIOUS
  <2>1. row \in Flow /\ row.status = "PLANNED" /\ row.plan = {}
    BY DEF Flow, Plans
  <2>2. /\ flows' \in Seq(Flow) /\ Len(flows') = Len(flows) + 1 /\ DOMAIN flows' = 1 .. Len(flows) + 1
        /\ flows'[Len(flows) + 1] = row /\ \A f \in DOMAIN flows : flows'[f] = flows[f]
    BY <1>5, <1>7, <2>1, AppendProperties, LenProperties
  <2>3. /\ seen' \in Seen /\ seen'.target = Len(flows) + 1 /\ seen'.stage = 1 /\ seen'.cycle = goal.cycle
    <3> PICK n \in Nat : n = Len(flows) + 1
      BY <1>5
    <3>1. seen' = [seen EXCEPT !.target = n]
      BY <1>7
    <3> QED
      BY <1>3, <1>5, <3>1 DEF Seen
  <2>4. GoalTyped'
    <3>1. \A t \in Tasks : payload[t] \in Nat /\ payload[t] <= Len(flows) + 1
      BY <1>2, <1>5 DEF GoalTyped
    <3> QED
      BY <1>1, <1>2, <1>4, <1>5, <1>7, <2>2, <2>3, <3>1 DEF GoalTyped, Places
  <2>5. Turns'
    BY <1>1, <1>3, <1>4 DEF Turns, GoalTerminal
  <2>6. ASSUME NEW f \in DOMAIN flows'
        PROVE  /\ flows'[f].status = "PLANNED" <=> flows'[f].plan = {}
               /\ \A t \in flows'[f].plan : status'[t] # "absent" /\ payload'[t] = f
               /\ flows'[f].status = "SUPERSEDED" => PlanFailed(f)'
               /\ ~InForce(f)'
    <3>1. CASE f = Len(flows) + 1
      BY <2>1, <2>2, <3>1 DEF InForce
    <3>2. CASE f \in DOMAIN flows
      BY <1>1, <1>2, <1>3, <1>4, <2>2, <3>2 DEF Planned, InForce, NoneInForce, PlanFailed
    <3> QED
      BY <1>5, <2>2, <3>1, <3>2
  <2>7. goal.bound > 0 => flows[goal.bound].status # "PLANNED" /\ flows'[goal.bound] = flows[goal.bound]
    BY <1>3, <1>5, <1>7, <2>2 DEF ResumesFlow
  <2>8. Planned' /\ NoneInForce'
    BY <1>1, <1>3, <2>6, <2>7 DEF Planned, NoneInForce
  <2>9. \A t \in Tasks : status[t] # "absent" => payload[t] \in DOMAIN flows
    BY <1>2, FlowsTyped DEF Created, GoalTyped
  <2>10. Created'
    <3>1. \A t \in Tasks : status[t] # "absent" /\ t[1] = goal.cycle => goal.bound > 0
      BY <1>2, <1>5 DEF Created
    <3> QED
      BY <1>1, <1>2, <1>4, <2>7, <3>1 DEF Created
  <2>11. PlanAchieved' = PlanAchieved /\ Ended'
    BY <1>1, <1>3, <1>4, <2>7 DEF PlanAchieved, Ended
  <2>12. Evident'
    <3>1. \A t \in Tasks : Bound(t)'
      BY <1>1, <1>2, <1>4, <2>2, <2>9 DEF Evident, Bound
    <3> QED
      BY <1>1, <1>2, <1>4, <2>7, <3>1 DEF Evident, Proven
  <2>13. ReadPlanning' /\ ReadJudging'
    BY <1>1, <1>3, <1>5, <1>7, <2>1, <2>2, <2>3, <2>7, <2>8 DEF ReadPlanning, ReadJudging
  <2> QED
    BY <1>1, <1>4, <2>4, <2>5, <2>8, <2>10, <2>11, <2>12, <2>13 DEF GoalInv
<1> QED
  BY <1>1, <1>6, <1>7

LEMMA BindKeeps ==
  ASSUME GoalInv, BindFlow
  PROVE  /\ GoalInv' /\ goal'.status = goal.status /\ goal'.cycle = goal.cycle
         /\ ~PlanAchieved /\ ~PlanAchieved'
<1>1. /\ at = "bind" /\ at' = "stage" /\ goal' = [goal EXCEPT !.bound = seen.target]
      /\ UNCHANGED <<kernelVars, meta, flows, payload, result, seen, out>>
  BY DEF BindFlow, Turn
<1>2. GoalTyped /\ Planned /\ Created /\ Ended /\ Evident /\ ReadPlanning /\ ReadJudging
  BY DEF GoalInv
<1>3. /\ goal.status = "ACTIVE" /\ goal.cycle < MaxCycles /\ NoneInForce /\ seen.cycle = goal.cycle
      /\ seen.stage = 1 /\ seen.target = Len(flows) /\ goal.bound < seen.target
      /\ flows[seen.target].status = "PLANNED" /\ (goal.bound > 0 => flows[goal.bound].status # "PLANNED")
  BY <1>1, <1>2 DEF ReadPlanning
<1>4. PICK f : f = seen.target
  OBVIOUS
<1>5. /\ Len(flows) \in Nat /\ DOMAIN flows = 1 .. Len(flows) /\ f = Len(flows) /\ goal.bound \in Nat
      /\ f \in DOMAIN flows /\ f > 0 /\ flows[f].plan = {} /\ flows[f].status = "PLANNED"
  BY <1>2, <1>3, <1>4, FlowsTyped DEF Planned
<1>6. /\ goal' \in [status : GoalStatus, cycle : 0 .. MaxCycles, bound : Nat, mutation : BOOLEAN]
      /\ goal'.status = "ACTIVE" /\ goal'.cycle = goal.cycle /\ goal'.bound = f
  BY <1>1, <1>2, <1>3, <1>4, <1>5 DEF GoalTyped
<1>7. /\ SoloInv' /\ RunsGrow /\ Outcome' /\ out' \in Evidence
      /\ status' = status /\ runs' = runs /\ pc'[Engine] \in {"idle", "reclaim", "orphans", "recover"}
  BY <1>1, GoalFrame
<1>8. GoalTyped' /\ Turns'
  BY <1>1, <1>2, <1>5, <1>6, <1>7 DEF GoalTyped, Places, Turns, GoalTerminal
<1>9. goal.bound > 0 =>
         /\ flows[goal.bound].status = "SUPERSEDED" /\ goal.bound \in DOMAIN flows
         /\ PlanFailed(goal.bound)
  BY <1>1, <1>2, <1>3, PlanningHolds DEF Planned
<1>10. NoneInForce' /\ Planned'
  <2>1. NoneInForce'
    BY <1>1, <1>3 DEF NoneInForce, InForce
  <2>2. \A g \in DOMAIN flows : PlanFailed(g)' = PlanFailed(g)
    BY <1>1, <1>7 DEF PlanFailed
  <2> QED
    BY <1>1, <1>2, <1>3, <1>5, <1>6, <1>7, <2>1, <2>2 DEF Planned, NoneInForce
<1>11. \A t \in Tasks : status[t] # "absent" => payload[t] > 0 /\ t[1] <= goal.cycle /\ t[1] # goal.cycle
  BY <1>2, <1>9 DEF Created
<1>12. Created' /\ Ended'
  BY <1>1, <1>6, <1>7, <1>11 DEF Created, Ended
<1>13. Evident'
  <2>1. \A c \in Cycles : flows[f].plan # PlanTasks(c)
    BY <1>5, PlanOf
  <2> QED
    BY <1>1, <1>2, <1>6, <1>7, <2>1 DEF Evident, Bound
<1>14. ReadPlanning' /\ ReadJudging'
  BY <1>1, <1>3, <1>4, <1>5, <1>6, <1>10 DEF ReadPlanning, ReadJudging, Stages
<1>15. ~PlanAchieved
  BY <1>9, FlowsTyped DEF PlanAchieved, PlanFailed
<1>16. ~PlanAchieved'
  BY <1>1, <1>5, <1>6 DEF PlanAchieved
<1> QED
  BY <1>3, <1>6, <1>7, <1>8, <1>10, <1>12, <1>13, <1>14, <1>15, <1>16 DEF GoalInv

\* The task of a stage is created, unless it is there, and gets the flow's id.
LEMMA CreateStageKeeps ==
  ASSUME GoalInv, CreateStage PROVE GoalInv' /\ UNCHANGED goal /\ ~PlanAchieved /\ ~PlanAchieved'
<1>1. PICK t : t = <<seen.cycle, seen.stage>>
  OBVIOUS
<1>2. /\ at = "stage" /\ CreateTask(t)
      /\ payload' = [payload EXCEPT ![t] = IF status[t] = "absent" THEN seen.target ELSE @]
      /\ seen' = [seen EXCEPT !.stage = @ + 1]
      /\ at' = IF seen.stage = Verification THEN "record" ELSE "stage"
      /\ UNCHANGED <<goal, meta, flows, result, out>>
  BY <1>1 DEF CreateStage, Turn
<1>3. GoalTyped /\ Planned /\ Created /\ Ended /\ Evident /\ ReadPlanning /\ ReadJudging
  BY DEF GoalInv
<1>4. PICK f : f = goal.bound
  OBVIOUS
<1>5. /\ goal.status = "ACTIVE" /\ goal.cycle < MaxCycles /\ NoneInForce /\ seen.cycle = goal.cycle
      /\ seen.target = f /\ f > 0 /\ flows[f].status = "PLANNED" /\ seen.stage \in Stages
      /\ \A k \in Stages : k < seen.stage => status[<<goal.cycle, k>>] # "absent"
  BY <1>2, <1>3, <1>4 DEF ReadPlanning
<1>6. /\ goal.cycle \in Cycles /\ f \in DOMAIN flows /\ f <= Len(flows) /\ f \in Nat
      /\ payload \in [Tasks -> Nat] /\ seen \in Seen /\ flows[f].plan = {}
  BY <1>3, <1>4, <1>5, FlowsTyped, GoalCycles DEF GoalTyped, Cycles, Planned
<1>7. t \in Tasks /\ t[1] = goal.cycle
  BY <1>1, <1>5, <1>6, PlanOf
<1>8. /\ SoloInv' /\ RunsGrow /\ status'[t] # "absent"
      /\ status'[t] = "SUCCEEDED" <=> status[t] = "SUCCEEDED"
      /\ status[t] # "absent" => status'[t] = status[t]
      /\ \A u \in Tasks : u # t => status'[u] = status[u]
  BY <1>2, <1>7, CreateSolo DEF GoalInv
<1>9. /\ pc' = pc /\ pc[Engine] \in {"idle", "reclaim", "orphans", "recover"}
      /\ runs' = runs
  BY <1>2 DEF CreateTask, GoalInv, Turns
<1>10. /\ payload' \in [Tasks -> Nat]
       /\ payload'[t] = IF status[t] = "absent" THEN f ELSE payload[t]
       /\ \A u \in Tasks : u # t => payload'[u] = payload[u]
  BY <1>2, <1>5, <1>6, <1>7
<1>11. \A u \in Tasks : status[u] # "absent" => status'[u] = status[u] /\ payload'[u] = payload[u]
  BY <1>8, <1>10
<1>12. \A u \in Tasks : status'[u] = "SUCCEEDED" <=> status[u] = "SUCCEEDED"
  BY <1>8
<1>13. /\ seen' \in Seen /\ seen'.stage = seen.stage + 1 /\ seen'.cycle = seen.cycle
       /\ seen'.target = f
  <2>1. seen.stage + 1 \in 1 .. 4
    BY <1>5 DEF Stages
  <2> QED
    BY <1>2, <1>5, <1>6, <2>1 DEF Seen
<1>14. GoalTyped' /\ Turns'
  <2>1. \A u \in Tasks : payload'[u] <= Len(flows)
    BY <1>3, <1>6, <1>10 DEF GoalTyped
  <2>2. at' \in {"record", "stage"}
    BY <1>2
  <2> QED
    BY <1>2, <1>3, <1>5, <1>9, <1>10, <1>13, <2>1, <2>2 DEF GoalTyped, Places, Turns, GoalTerminal
<1>15. Outcome'
  BY <1>9 DEF Outcome
<1>16. Planned'
  <2>1. NoneInForce' /\ \A g \in DOMAIN flows : ~InForce(g)'
    BY <1>2, <1>5 DEF NoneInForce, InForce
  <2>2. ASSUME NEW g \in DOMAIN flows
        PROVE  /\ \A u \in flows[g].plan : status'[u] # "absent" /\ payload'[u] = g
               /\ flows[g].status = "SUPERSEDED" => PlanFailed(g)'
    <3>1. \A u \in flows[g].plan : u \in Tasks /\ status[u] # "absent" /\ payload[u] = g
      BY <1>3, <2>2, FlowsTyped DEF Planned
    <3> QED
      BY <1>2, <1>3, <1>11, <2>2, <3>1 DEF Planned, PlanFailed
  <2> QED
    BY <1>2, <1>3, <1>5, <2>1, <2>2 DEF Planned
<1>17. Created'
  <2> SUFFICES ASSUME NEW u \in Tasks, status'[u] # "absent"
               PROVE  /\ payload'[u] > 0 /\ u[1] <= goal.cycle
                      /\ u[1] = goal.cycle => payload'[u] = f /\ flows[f].status # "SUPERSEDED"
    BY <1>2, <1>4 DEF Created
  <2>1. CASE status[u] # "absent"
    BY <1>3, <1>4, <1>5, <1>11, <2>1 DEF Created
  <2>2. CASE status[u] = "absent"
    <3>1. u = t /\ payload'[u] = f /\ goal.cycle \in Int
      BY <1>6, <1>8, <1>10, <2>2 DEF Cycles
    <3> QED
      BY <1>5, <1>7, <3>1
  <2> QED
    BY <2>1, <2>2
<1>18. ~PlanAchieved /\ ~PlanAchieved' /\ Ended'
  BY <1>2, <1>4, <1>5, <1>6 DEF PlanAchieved, Ended
<1>19. Evident'
  <2>1. \A u \in Tasks : Bound(u)'
    BY <1>2, <1>3, <1>9, <1>11, <1>12 DEF Evident, Bound
  <2>2. \A c \in Cycles : flows[f].plan # PlanTasks(c)
    BY <1>6, PlanOf
  <2> QED
    BY <1>2, <1>4, <2>1, <2>2 DEF Evident
<1>20. ReadPlanning' /\ ReadJudging'
  <2>1. NoneInForce'
    BY <1>2, <1>5 DEF NoneInForce, InForce
  <2>2. \A k \in Stages : k < seen.stage + 1 => status'[<<goal.cycle, k>>] # "absent"
    <3> SUFFICES ASSUME NEW k \in Stages, k < seen.stage + 1 PROVE status'[<<goal.cycle, k>>] # "absent"
      OBVIOUS
    <3>1. <<goal.cycle, k>> \in Tasks
      BY <1>6, PlanOf
    <3>2. k = seen.stage \/ k < seen.stage
      BY <1>5 DEF Stages
    <3> QED
      BY <1>1, <1>5, <1>8, <3>1, <3>2
  <2>3. at' \in {"stage", "record"} /\ (at' = "record" <=> seen.stage = 3)
    BY <1>2 DEF Verification
  <2>4. (at' = "stage" => seen'.stage \in Stages) /\ (at' = "record" => seen'.stage = 4)
    BY <1>5, <1>13, <2>3 DEF Stages
  <2> QED
    BY <1>2, <1>4, <1>5, <1>13, <2>1, <2>2, <2>3, <2>4 DEF ReadPlanning, ReadJudging
<1> QED
  BY <1>2, <1>8, <1>14, <1>15, <1>16, <1>17, <1>18, <1>19, <1>20 DEF GoalInv

\* The plan that is put in force is that of tasks which were all created for
\* it and of which none has succeeded.
LEMMA RecordKeeps == ASSUME GoalInv, RecordPlan PROVE GoalInv' /\ UNCHANGED goal /\ ~PlanAchieved /\ ~PlanAchieved'
<1>1. /\ at = "record" /\ Return /\ UNCHANGED <<kernelVars, goal, meta, payload, result, out>>
  BY DEF RecordPlan
<1>2. GoalTyped /\ Planned /\ Created /\ Ended /\ Evident /\ ReadPlanning /\ ReadJudging
  BY DEF GoalInv
<1>3. PICK f, c : f = goal.bound /\ c = goal.cycle
  OBVIOUS
<1>4. /\ goal.status = "ACTIVE" /\ c < MaxCycles /\ NoneInForce /\ seen.cycle = c
      /\ seen.target = f /\ f > 0 /\ flows[f].status = "PLANNED" /\ seen.stage = 4
      /\ \A k \in Stages : k < seen.stage => status[<<c, k>>] # "absent"
  BY <1>1, <1>2, <1>3 DEF ReadPlanning
<1>5. /\ c \in Cycles /\ f \in DOMAIN flows /\ flows[f].plan = {} /\ f = Len(flows) /\ flows[f] \in Flow
  BY <1>2, <1>3, <1>4, FlowsTyped, GoalCycles DEF GoalTyped, Cycles, Planned
<1>6. PICK row : row = [status |-> "ACTIVE", revision |-> flows[f].revision + 1, plan |-> PlanTasks(c)]
  OBVIOUS
<1>7. row \in Flow /\ row.status = "ACTIVE" /\ row.plan = PlanTasks(c) /\ flows' = [flows EXCEPT ![f] = row]
  <2>1. flows' = [flows EXCEPT ![f] = row]
    BY <1>4, <1>5, <1>6 DEF RecordPlan, UpdateFlow, Updated
  <2> QED
    BY <1>5, <1>6, <2>1 DEF Flow, Plans
<1>8. /\ flows' \in Seq(Flow) /\ Len(flows') = Len(flows) /\ DOMAIN flows' = DOMAIN flows
      /\ flows'[f] = row /\ \A g \in DOMAIN flows : g # f => flows'[g] = flows[g]
  BY <1>2, <1>5, <1>7, FlowWritten
<1>9. /\ SoloInv' /\ RunsGrow /\ Outcome' /\ out' \in Evidence /\ status' = status /\ runs' = runs
  BY <1>1, GoalFrame
<1>10. at' = "kernel" /\ seen' \in Seen
  BY <1>1, NothingTyped DEF Return
<1>11. GoalTyped' /\ Turns' /\ ReadPlanning' /\ ReadJudging'
  BY <1>1, <1>2, <1>8, <1>9, <1>10, <1>4 DEF GoalTyped, Places, Turns, ReadPlanning, ReadJudging
<1>12. \A t \in PlanTasks(c) : t \in Tasks /\ status[t] # "absent" /\ payload[t] = f
  <2> SUFFICES ASSUME NEW t \in PlanTasks(c) PROVE t \in Tasks /\ status[t] # "absent" /\ payload[t] = f
    OBVIOUS
  <2>1. t \in Tasks /\ t[1] = c /\ t[2] \in Stages /\ t = <<c, t[2]>>
    BY <1>5, PlanOf
  <2>2. t[2] < seen.stage
    BY <1>4, <2>1 DEF Stages
  <2>3. status[t] # "absent"
    BY <1>4, <2>1, <2>2
  <2> QED
    BY <1>2, <1>3, <2>1, <2>3 DEF Created
<1>13. \A t \in Tasks : status[t] = "SUCCEEDED" => payload[t] \in DOMAIN flows /\ payload[t] # f
  BY <1>2, <1>5, FlowsTyped DEF Evident, Bound, Created, GoalTyped
<1>14. Planned'
  <2>1. ASSUME NEW g \in DOMAIN flows
        PROVE  /\ flows'[g].status = "PLANNED" <=> flows'[g].plan = {}
               /\ \A t \in flows'[g].plan : status'[t] # "absent" /\ payload'[t] = g
               /\ flows'[g].status = "SUPERSEDED" => PlanFailed(g)'
               /\ InForce(g)' => g = goal'.bound /\ g = Len(flows')
    <3>1. CASE g = f
      BY <1>1, <1>3, <1>5, <1>7, <1>8, <1>9, <1>12, <3>1, PlanOf DEF InForce
    <3>2. CASE g # f
      BY <1>1, <1>2, <1>4, <1>8, <1>9, <3>2 DEF Planned, InForce, NoneInForce, PlanFailed
    <3> QED
      BY <3>1, <3>2
  <2> QED
    BY <1>1, <1>3, <1>4, <1>5, <1>7, <1>8, <2>1 DEF Planned
<1>15. Created'
  BY <1>1, <1>2, <1>3, <1>7, <1>8, <1>9 DEF Created
<1>16. ~PlanAchieved
  BY <1>3, <1>5 DEF PlanAchieved
<1>17. ~PlanAchieved'
  <2>1. <<c, Verification>> \in PlanTasks(c)
    BY <1>5, PlanOf, StageTasks
  <2>2. status[<<c, Verification>>] # "SUCCEEDED"
    BY <1>12, <1>13, <2>1
  <2>3. flows'[goal'.bound].plan = PlanTasks(c)
    BY <1>1, <1>3, <1>7, <1>8
  <2> QED
    BY <1>9, <2>1, <2>2, <2>3 DEF PlanAchieved
<1>18. Ended'
  BY <1>1, <1>4 DEF Ended
<1>19. Evident'
  <2>1. \A t \in Tasks : Bound(t)'
    BY <1>1, <1>2, <1>8, <1>9, <1>13 DEF Evident, Bound
  <2>2. ASSUME NEW e \in Cycles, PlanTasks(c) = PlanTasks(e)
        PROVE  Proven(<<e, Implementation>>, <<e, Verification>>)'
    <3> PICK impl \in Tasks, verif \in Tasks :
           impl = <<e, Implementation>> /\ verif = <<e, Verification>>
      BY StageTasks
    <3>1. impl \in PlanTasks(c) /\ verif \in PlanTasks(c)
      BY <2>2, PlanOf, StageTasks
    <3>2. status'[impl] # "SUCCEEDED" /\ status'[verif] # "SUCCEEDED"
      BY <1>9, <1>12, <1>13, <3>1
    <3> QED
      BY <3>2 DEF Proven
  <2> QED
    BY <1>1, <1>3, <1>7, <1>8, <2>1, <2>2 DEF Evident
<1> QED
  BY <1>1, <1>9, <1>11, <1>14, <1>15, <1>16, <1>17, <1>18, <1>19 DEF GoalInv

-----------------------------------------------------------------------------
(***************************************************************************)
(* The invariant of the engine, and what it says.                          *)
(***************************************************************************)
LEMMA GoalStutters == ASSUME GoalInv, UNCHANGED vars PROVE GoalInv'
<1>1. UNCHANGED <<goalState, engineVars>> /\ UNCHANGED kernelVars
  BY DEF vars
<1>2. SoloInv' /\ RunsGrow /\ \A t \in Tasks : Calm(t)
  BY <1>1, KernelSame DEF GoalInv
<1>3. Turns' /\ Outcome' /\ out' \in Evidence
  BY <1>1 DEF GoalInv, GoalTyped, Turns, Outcome, goalState, engineVars, kernelVars
<1> QED
  BY <1>1, <1>2, <1>3, KernelTurn DEF engineVars

LEMMA SkipsKeep == ASSUME GoalInv, SkipGoal \/ JudgeContinue PROVE GoalInv'
<1>1. /\ at # "kernel" /\ Return /\ UNCHANGED <<kernelVars, goalState, out>>
  BY JudgesAt DEF SkipGoal, JudgeContinue
<1> QED
  BY <1>1, ReturnKeeps

LEMMA GoalKeeps == ASSUME GoalInv, [GoalNext]_vars PROVE GoalInv'
<1>1. CASE GoalStep
  BY <1>1, ProcessKeeps, SkipsKeep, ActivateKeeps, CreateFlowKeeps, BindKeeps, CreateStageKeeps,
     RecordKeeps, PlanningFailsKeeps, EvidenceKeeps, MarkKeeps, JudgeDoneKeeps, JudgeFailKeeps,
     BumpKeeps, ExhaustedKeeps, SupersedeKeeps DEF GoalStep
<1>2. CASE Recover \/ DispatcherTick \/ StageFails \/ FinalizeStage \/ \E s \in Services : StageSucceeds(s)
  BY <1>2, RecoverKeeps, TickKeeps, FailsKeeps, FinalizeStageKeeps, SucceedsKeeps
<1>3. CASE EngineDies \/ TimePasses \/ UNCHANGED vars
  BY <1>3, DiesKeeps, TimeKeeps, GoalStutters
<1> QED
  BY <1>1, <1>2, <1>3 DEF GoalNext, EngineStep

\* The engine keeps its invariant, from the first commit on and across kills.
THEOREM GoalInvariant == Spec => []GoalInv
  BY GoalStarts, GoalKeeps, PTL DEF Spec

\* The rows of goal and flows have the values of their columns, and crashes,
\* orphaned claims and failures together start at most max_attempts runs of a
\* task (create_run, reconcile, find_expired_runs).
THEOREM GoalTypeCorrect == Spec => []GoalTypeOK
<1>1. ASSUME GoalInv PROVE GoalTypeOK
  <2>1. KernelTypeOK /\ RunsBounded /\ GoalTyped
    BY <1>1 DEF GoalInv, SoloInv, KernelInv, SoloTask, RunsBounded
  <2>2. /\ Len(flows) \in Nat /\ DOMAIN flows = 1 .. Len(flows)
        /\ \A f \in DOMAIN flows : flows[f] \in Flow
        /\ goal.bound \in 0 .. Len(flows)
    BY <2>1, FlowsTyped DEF GoalTyped
  <2>3. goal \in [status : {"PENDING", "ACTIVE", "SUCCEEDED", "FAILED"}, cycle : 0 .. MaxCycles,
                  bound : 0 .. Len(flows), mutation : BOOLEAN]
    BY <2>1, <2>2 DEF GoalTyped, GoalStatus
  <2>4. payload \in [Tasks -> 0 .. Len(flows)]
    BY <2>1, <2>2 DEF GoalTyped
  <2> QED
    BY <2>1, <2>2, <2>3, <2>4 DEF GoalTypeOK, GoalTyped, Meta, Flow, Plans
<1> QED
  BY <1>1, GoalInvariant, PTL

\* A task never has two active runs, and the one it has belongs to a RUNNING
\* task: no reclaim of the engine's dispatcher is ever refused
\* (find_expired_runs, reconcile).
THEOREM OneActiveRunHolds == Spec => []OneActiveRun
<1>1. ASSUME GoalInv PROVE OneActiveRun
  BY <1>1 DEF GoalInv, SoloInv, SoloTask, OneActiveRun
<1> QED
  BY <1>1, GoalInvariant, PTL

\* A flow in force is the bound one and its tasks carry its id, however
\* planning was interrupted and resumed (plan, bind_flow).
THEOREM PlanIsBoundHolds == Spec => []PlanIsBound
<1>1. ASSUME GoalInv PROVE PlanIsBound
  BY <1>1 DEF GoalInv, Planned, InForce, PlanIsBound
<1> QED
  BY <1>1, GoalInvariant, PTL

\* A goal that SUCCEEDED was verified: another service than the one that
\* implemented it examined the very run that made the implementation succeed,
\* however many runs were lost, repeated and replanned before (decide,
\* finalize_and_complete).
THEOREM DoneIsVerifiedHolds == Spec => []DoneIsVerified
<1>1. ASSUME GoalInv, goal.status = "SUCCEEDED"
      PROVE  \E impl, verif \in flows[goal.bound].plan :
                /\ impl[2] = Implementation /\ verif[2] = Verification
                /\ \A t \in flows[goal.bound].plan : status[t] = "SUCCEEDED"
                /\ runs[impl][result[impl].run].status = "SUCCEEDED"
                /\ result[verif].examined = <<goal.bound, result[impl].run>>
                /\ result[verif].service # result[impl].service
  <2>1. PlanAchieved
    BY <1>1 DEF GoalInv, Ended
  <2>2. PICK c \in Cycles : flows[goal.bound].plan = PlanTasks(c)
    <3>1. flows[goal.bound] \in Flow
      BY <1>1, <2>1, FlowsTyped DEF GoalInv, PlanAchieved
    <3> QED
      BY <2>1, <3>1 DEF PlanAchieved, Flow, Plans
  <2>3. PICK impl \in PlanTasks(c), verif \in PlanTasks(c) :
           impl = <<c, Implementation>> /\ verif = <<c, Verification>>
    BY PlanOf, StageTasks
  <2>4. impl \in Tasks /\ verif \in Tasks /\ status[impl] = "SUCCEEDED" /\ status[verif] = "SUCCEEDED"
    BY <2>1, <2>2, PlanOf DEF PlanAchieved
  <2>5. Bound(impl) /\ Proven(impl, verif)
    BY <1>1, <2>1, <2>2, <2>3, <2>4 DEF GoalInv, Evident, PlanAchieved
  <2>6. impl[2] = Implementation /\ verif[2] = Verification
    BY <2>3
  <2>7. /\ runs[impl][result[impl].run].status = "SUCCEEDED"
        /\ result[verif].examined = <<goal.bound, result[impl].run>>
        /\ result[verif].service # result[impl].service
    BY <2>4, <2>5, <2>6 DEF Bound, Proven
  <2>8. \A t \in flows[goal.bound].plan : status[t] = "SUCCEEDED"
    BY <2>1 DEF PlanAchieved
  <2> QED
    BY <2>2, <2>6, <2>7, <2>8
<1>2. GoalInv => DoneIsVerified
  BY <1>1 DEF DoneIsVerified
<1> QED
  BY <1>2, GoalInvariant, PTL

-----------------------------------------------------------------------------
(***************************************************************************)
(* The engine implements GoalLifecycle.                                    *)
(***************************************************************************)
Same == goal'.status = goal.status /\ goal'.cycle = goal.cycle /\ PlanAchieved' = PlanAchieved

LEMMA AchievedTyped == PlanAchieved \in BOOLEAN /\ PlanAchieved' \in BOOLEAN
  BY DEF PlanAchieved

\* A step of the kernel achieves the plan of a goal that is ACTIVE, or leaves
\* what the lifecycle sees.
LEMMA KernelMaps ==
  ASSUME GoalInv, UNCHANGED <<goal, flows>>, \A t \in Tasks : Stays(t)
  PROVE  Same \/ Lifecycle!Achieved
<1>1. GoalTyped /\ Planned /\ Ended
  BY DEF GoalInv
<1>2. PlanAchieved => PlanAchieved'
  BY <1>1, AchievedKept
<1>3. CASE PlanAchieved' = PlanAchieved
  BY <1>3 DEF Same
<1>4. CASE PlanAchieved' # PlanAchieved
  <2>1. ~PlanAchieved /\ PlanAchieved'
    BY <1>2, <1>4, AchievedTyped
  <2>2. PICK f : f = goal.bound
    OBVIOUS
  <2>3. f > 0 /\ flows[f].plan # {} /\ (\A t \in flows[f].plan : status'[t] = "SUCCEEDED") /\ f \in DOMAIN flows
    BY <1>1, <2>1, <2>2, FlowsTyped DEF PlanAchieved
  <2>4. goal.status # "PENDING"
    BY <1>1, <2>3 DEF Planned
  <2>5. goal.status # "SUCCEEDED"
    BY <1>1, <2>1 DEF Ended
  <2>6. ~PlanFailed(f)
    <3>1. PlanFailed(f) => PlanFailed(f)'
      BY <1>1, <2>3, FlowsTyped, FailedKept
    <3> QED
      BY <2>3, <3>1 DEF PlanFailed
  <2>7. goal.status # "FAILED"
    BY <1>1, <2>2, <2>3, <2>6 DEF Ended
  <2>8. goal.status = "ACTIVE"
    BY <1>1, <2>4, <2>5, <2>7 DEF GoalTyped, GoalStatus
  <2> QED
    BY <2>1, <2>8, AchievedTyped DEF Lifecycle!Achieved
<1> QED
  BY <1>3, <1>4

\* A goal that ends or starts, with its plan as it was.
LEMMA EndMaps ==
  ASSUME GoalInv, UNCHANGED <<flows, status>>, NEW to, goal' = [goal EXCEPT !.status = to]
  PROVE  goal'.status = to /\ goal'.cycle = goal.cycle /\ PlanAchieved' = PlanAchieved
<1>1. goal'.status = to /\ goal'.cycle = goal.cycle /\ goal'.bound = goal.bound
  BY DEF GoalInv, GoalTyped
<1> QED
  BY <1>1 DEF PlanAchieved

\* A flow whose plan is empty or has failed is not achieved.
LEMMA FailedUnachieved ==
  ASSUME flows[goal.bound].plan = {} \/ PlanFailed(goal.bound) PROVE ~PlanAchieved
  BY DEF PlanAchieved, PlanFailed

LEMMA AbandonMaps ==
  ASSUME GoalInv, UNCHANGED <<flows, status>>, goal' = [goal EXCEPT !.status = "FAILED"],
         goal.status = "ACTIVE", goal.bound > 0 => flows[goal.bound].plan = {} \/ PlanFailed(goal.bound)
  PROVE  Lifecycle!Abandoned
<1>1. ~PlanAchieved
  BY FailedUnachieved DEF PlanAchieved
<1> QED
  BY <1>1, EndMaps DEF Lifecycle!Abandoned

LEMMA GoalStepMaps == ASSUME GoalInv, GoalStep PROVE Same \/ Lifecycle!GoalMoves
<1>1. CASE ProcessGoal \/ SkipGoal \/ JudgeContinue \/ RecordEvidence
  <2>1. UNCHANGED <<goal, flows, status>>
    BY <1>1 DEF ProcessGoal, SkipGoal, JudgeContinue, RecordEvidence, goalState, kernelVars
  <2> QED
    BY <2>1 DEF Same, PlanAchieved
<1>2. CASE CreateFlow \/ CreateStage \/ RecordPlan \/ MarkFlow \/ SupersedeFlow
  BY <1>2, CreateFlowKeeps, CreateStageKeeps, RecordKeeps, MarkKeeps, SupersedeKeeps, AchievedTyped DEF Same
<1>3. CASE BindFlow
  BY <1>3, BindKeeps, AchievedTyped DEF Same
<1>4. CASE Activate
  <2>1. UNCHANGED <<flows, status>>
    BY <1>4 DEF Activate, kernelVars
  <2> QED
    BY <1>4, <2>1, ActivateKeeps, EndMaps DEF Lifecycle!Activated, Lifecycle!GoalMoves
<1>5. CASE JudgeDone
  <2>1. UNCHANGED <<flows, status>> /\ goal.status = "ACTIVE"
    BY <1>5, JudgesAt, JudgedFlow DEF JudgeDone, JudgeEnds, kernelVars
  <2>2. PlanAchieved /\ goal' = [goal EXCEPT !.status = "SUCCEEDED"]
    BY <1>5, JudgeDoneKeeps
  <2> QED
    BY <2>1, <2>2, EndMaps DEF Lifecycle!Succeeded, Lifecycle!GoalMoves
<1>6. CASE JudgeFail \/ CyclesExhausted
  <2>1. UNCHANGED <<flows, status>> /\ goal.status = "ACTIVE"
    BY <1>6, JudgesAt, JudgedFlow DEF JudgeFail, JudgeEnds, CyclesExhausted, kernelVars
  <2>2. PlanFailed(goal.bound) /\ goal' = [goal EXCEPT !.status = "FAILED"]
    BY <1>6, JudgeFailKeeps, ExhaustedKeeps
  <2> QED
    BY <2>1, <2>2, AbandonMaps DEF Lifecycle!GoalMoves
<1>7. CASE BumpCycle
  <2>1. UNCHANGED <<flows, status>>
    BY <1>7 DEF BumpCycle, kernelVars
  <2>2. /\ PlanFailed(goal.bound) /\ goal.cycle < MaxCycles /\ goal.status = "ACTIVE"
        /\ goal' = [goal EXCEPT !.cycle = @ + 1]
    BY <1>7, BumpKeeps
  <2>3. goal'.status = goal.status /\ goal'.cycle = goal.cycle + 1 /\ goal'.bound = goal.bound
    BY <2>2 DEF GoalInv, GoalTyped
  <2>4. ~PlanAchieved /\ PlanAchieved' = PlanAchieved
    BY <2>1, <2>2, <2>3, FailedUnachieved DEF PlanAchieved
  <2> QED
    BY <2>2, <2>3, <2>4 DEF Lifecycle!NextCycle, Lifecycle!GoalMoves
<1>8. CASE PlanningFails
  <2>1. /\ UNCHANGED <<flows, status>> /\ goal.status = "ACTIVE"
        /\ goal.bound > 0 => flows[goal.bound].plan = {} \/ PlanFailed(goal.bound)
    BY <1>8, PlanningHolds DEF PlanningFails, kernelVars, GoalInv, ReadPlanning
  <2>2. CASE UNCHANGED goal
    BY <2>1, <2>2 DEF Same, PlanAchieved
  <2>3. CASE TransitionGoal(goal.status, "FAILED")
    <3>1. goal' = [goal EXCEPT !.status = "FAILED"]
      BY <2>1, <2>3, GoalMovesTo DEF GoalTerminal
    <3> QED
      BY <2>1, <3>1, AbandonMaps DEF Lifecycle!GoalMoves
  <2> QED
    BY <1>8, <2>2, <2>3 DEF PlanningFails
<1> QED
  BY <1>1, <1>2, <1>3, <1>4, <1>5, <1>6, <1>7, <1>8 DEF GoalStep

LEMMA EngineMaps == ASSUME GoalInv, [GoalNext]_vars PROVE Same \/ Lifecycle!GoalMoves
<1>1. CASE GoalStep
  BY <1>1, GoalStepMaps
<1>2. CASE Recover \/ DispatcherTick
  <2>1. \A t \in Tasks : Stays(t)
    BY <1>2, ReconcileSolo, CalmStays DEF GoalInv, Recover, DispatcherTick
  <2>2. UNCHANGED <<goal, flows>>
    BY <1>2 DEF Recover, DispatcherTick, goalState
  <2> QED
    BY <2>1, <2>2, KernelMaps DEF Lifecycle!GoalMoves
<1>3. CASE StageFails \/ \E s \in Services : StageSucceeds(s)
  <2>1. \A t \in Tasks : Stays(t)
    BY <1>3, HandlerSolo, CalmStays DEF GoalInv, StageFails, StageSucceeds
  <2>2. UNCHANGED <<goal, flows>>
    BY <1>3 DEF StageFails, StageSucceeds, goalState
  <2> QED
    BY <2>1, <2>2, KernelMaps DEF Lifecycle!GoalMoves
<1>4. CASE FinalizeStage
  <2>1. \A t \in Tasks : Stays(t)
    <3> PICK t : t = cur[Engine].task
      OBVIOUS
    <3>1. /\ \A u \in Tasks : u # t => Calm(u)
          /\ status[t] = "RUNNING" /\ status'[t] # "absent"
      BY <1>4, FinalizeSolo DEF GoalInv, FinalizeStage
    <3> QED
      BY <3>1, CalmStays DEF Stays, TerminalTask
  <2>2. UNCHANGED <<goal, flows>>
    BY <1>4 DEF FinalizeStage
  <2> QED
    BY <2>1, <2>2, KernelMaps DEF Lifecycle!GoalMoves
<1>5. CASE EngineDies \/ TimePasses \/ UNCHANGED vars
  <2>1. UNCHANGED <<goal, flows>>
    BY <1>5 DEF EngineDies, TimePasses, vars, goalState
  <2>2. UNCHANGED status
    BY <1>5 DEF EngineDies, Forgets, TimePasses, LeaseStep, TaskLeaseExpires, RunLeaseExpires,
       taskVars, vars, kernelVars
  <2> QED
    BY <2>1, <2>2 DEF Same, PlanAchieved
<1> QED
  BY <1>1, <1>2, <1>3, <1>4, <1>5 DEF GoalNext, EngineStep

\* The engine implements GoalLifecycle: it works in at most max_cycles cycles,
\* no crash and no stale copy of goal or flow makes it replan or fail a goal
\* whose bound plan has succeeded, or finish one whose plan has not
\* (_process_goal, decide, _replan).
THEOREM GoalImplemented == Spec => GoalRefined
<1>1. GoalInit => Lifecycle!GoalStart
  <2> SUFFICES ASSUME GoalInit PROVE Lifecycle!GoalStart
    OBVIOUS
  <2>1. goal.status = "PENDING" /\ goal.cycle = 0 /\ goal.bound = 0
    BY DEF GoalInit
  <2>2. PlanAchieved = FALSE
    BY <2>1, AchievedTyped DEF PlanAchieved
  <2> QED
    BY <2>1, <2>2 DEF Lifecycle!GoalStart
<1>2. GoalInv /\ [GoalNext]_vars => [Lifecycle!GoalMoves]_Lifecycle!goalVars
  BY EngineMaps DEF Same, Lifecycle!goalVars
<1> QED
  BY <1>1, <1>2, GoalInvariant, PTL DEF Spec, GoalRefined, Lifecycle!GoalSpec

=============================================================================
