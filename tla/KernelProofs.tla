---------------------------- MODULE KernelProofs ----------------------------
(***************************************************************************)
(* Proofs about Kernel, for every number of tasks, dispatchers, requests   *)
(* and runs, every graph of dependencies and every set of faults.          *)
(***************************************************************************)
EXTENDS Kernel, SequenceTheorems, TLAPS

RunRow == [status : RunStatus, owner : Owners, live : BOOLEAN]

\* A dispatcher with a task in its hands, and with a run of it.
Busy(d) == pc[d] \in {"recover", "claimed", "cancel", "insert", "run", "handler", "finalize"}
Working(d) == pc[d] \in {"run", "handler", "finalize"}

\* The locals of dispatchers and requests.
Locals ==
    /\ todo \in [Dispatchers -> SUBSET Tasks]
    /\ cur \in [Dispatchers -> [task : Tasks \cup {None}, run : Nat]]
    /\ memo \in [Dispatchers -> [to : TaskStatus \cup {"DENIED"}, run : Nat, attempts : Nat]]
    /\ rq \in [Requests -> Tasks \cup {None}]
    /\ \A r \in Requests : rqSeen[r] # "absent" => rq[r] \in Tasks

ParentsDone(t) == \A p \in Parents[t] : HasRun(p, "SUCCEEDED")

\* What a dispatcher knows at its place.  What a recovery has read and will
\* write by primary key stays true however long it takes: a run that succeeded
\* is never written again.
Placed(d) ==
    /\ Busy(d) => cur[d].task \in Tasks /\ ParentsDone(cur[d].task)
    /\ Working(d) => cur[d].run \in DOMAIN runs[cur[d].task]
    /\ pc[d] = "recover" =>
          /\ memo[d].to \in {"CANCELLED", "SUCCEEDED", "READY", "FAILED"}
          /\ memo[d].to = "SUCCEEDED" => HasRun(cur[d].task, "SUCCEEDED")

\* A task that may be claimed, or ever was, has parents that are done.
Admitted ==
    \A t \in Tasks : status[t] \in {"READY", "RUNNING"} \/ Len(runs[t]) > 0 => ParentsDone(t)

\* A grant that let its handler be entered is consumed.
Granted ==
    \A t \in NeedsGrant : entered[t] = 0 \/ (entered[t] = 1 /\ grant[t] = "consumed")

KernelInv ==
    /\ KernelTypeOK /\ Locals /\ (\A d \in Dispatchers : Placed(d))
    /\ SucceededHasRun /\ Admitted /\ Granted

-----------------------------------------------------------------------------
(***************************************************************************)
(* Rows of runs.  A step writes one row, adds one, or takes the rows of a  *)
(* dead dispatcher out of its hands; what a run became stays.              *)
(***************************************************************************)
RunsGrow ==
    /\ runs' \in [Tasks -> Seq(RunRow)]
    /\ \A t \in Tasks : DOMAIN runs[t] \subseteq DOMAIN runs'[t]
    /\ \A t \in Tasks : \A n \in DOMAIN runs[t] :
          runs[t][n].status # "RUNNING" => runs'[t][n].status = runs[t][n].status

LEMMA RunsTyped ==
  ASSUME KernelTypeOK, NEW t \in Tasks
  PROVE  /\ runs \in [Tasks -> Seq(RunRow)] /\ runs[t] \in Seq(RunRow)
         /\ Len(runs[t]) \in Nat /\ DOMAIN runs[t] = 1 .. Len(runs[t])
         /\ \A n \in DOMAIN runs[t] : runs[t][n] \in RunRow
<1>1. runs \in [Tasks -> Seq(RunRow)] /\ runs[t] \in Seq(RunRow)
  BY DEF KernelTypeOK, RunRow
<1> QED
  BY <1>1, LenProperties, ElementOfSeq

LEMMA RunsStay == ASSUME KernelTypeOK, UNCHANGED runs PROVE RunsGrow
  BY DEF KernelTypeOK, RunsGrow, RunRow

LEMMA WriteRow ==
  ASSUME KernelTypeOK, NEW t \in Tasks, NEW n \in DOMAIN runs[t], NEW row \in RunRow,
         runs[t][n].status = "RUNNING" \/ row.status = runs[t][n].status,
         runs' = [runs EXCEPT ![t] = [runs[t] EXCEPT ![n] = row]]
  PROVE  /\ RunsGrow /\ n \in DOMAIN runs'[t] /\ runs'[t][n] = row
         /\ \A u \in Tasks : Len(runs'[u]) = Len(runs[u])
<1> DEFINE new == [runs[t] EXCEPT ![n] = row]
<1>1. /\ new \in Seq(RunRow) /\ Len(new) = Len(runs[t]) /\ DOMAIN new = DOMAIN runs[t]
      /\ \A m \in DOMAIN runs[t] : new[m] = IF m = n THEN row ELSE runs[t][m]
  BY RunsTyped, ExceptSeq, LenProperties
<1> HIDE DEF new
<1>2. \A u \in Tasks : runs'[u] = IF u = t THEN new ELSE runs[u]
  BY RunsTyped DEF new
<1>3. runs' \in [Tasks -> Seq(RunRow)]
  BY <1>1, RunsTyped DEF new
<1> QED
  BY <1>1, <1>2, <1>3 DEF RunsGrow

LEMMA AddRow ==
  ASSUME KernelTypeOK, NEW t \in Tasks, NEW row \in RunRow,
         runs' = [runs EXCEPT ![t] = Append(@, row)]
  PROVE  /\ RunsGrow /\ Len(runs[t]) + 1 \in DOMAIN runs'[t]
         /\ \A u \in Tasks : u # t => Len(runs'[u]) = Len(runs[u])
<1> DEFINE new == Append(runs[t], row)
<1>1. /\ new \in Seq(RunRow) /\ Len(new) = Len(runs[t]) + 1 /\ Len(runs[t]) \in Nat
      /\ DOMAIN runs[t] = 1 .. Len(runs[t]) /\ DOMAIN new = 1 .. (Len(runs[t]) + 1)
      /\ \A m \in DOMAIN runs[t] : new[m] = runs[t][m]
  BY RunsTyped, AppendProperties, LenProperties
<1> HIDE DEF new
<1>2. \A u \in Tasks : runs'[u] = IF u = t THEN new ELSE runs[u]
  BY RunsTyped DEF new
<1>3. runs' \in [Tasks -> Seq(RunRow)]
  BY <1>1, RunsTyped DEF new
<1>4. DOMAIN runs[t] \subseteq DOMAIN new /\ Len(runs[t]) + 1 \in DOMAIN new
  BY <1>1
<1> QED
  BY <1>1, <1>2, <1>3, <1>4 DEF RunsGrow

\* What has run stays so.
LEMMA RunsKept ==
  ASSUME KernelTypeOK, RunsGrow, NEW t \in Tasks, HasRun(t, "SUCCEEDED")
  PROVE  HasRun(t, "SUCCEEDED")'
  BY DEF HasRun, RunsGrow

LEMMA DoneKept ==
  ASSUME KernelTypeOK, RunsGrow, NEW t \in Tasks, ParentsDone(t)
  PROVE  ParentsDone(t)'
  BY KernelGraph, RunsKept DEF ParentsDone

-----------------------------------------------------------------------------
(***************************************************************************)
(* The status column.                                                      *)
(***************************************************************************)

\* A task that moves takes dependents along: some blocked ones are cancelled,
\* some become ready, whose parents have all succeeded now.
LEMMA MovedColumn ==
  ASSUME KernelTypeOK, NEW t \in Tasks, NEW to \in TaskStatus \ {"absent", "BLOCKED"}
  PROVE  /\ Moved(t, to) \in [Tasks -> TaskStatus] /\ Moved(t, to)[t] = to
         /\ \A c \in Tasks : c # t =>
               \/ Moved(t, to)[c] = status[c]
               \/ Moved(t, to)[c] = "CANCELLED"
               \/ /\ Moved(t, to)[c] = "READY"
                  /\ \A p \in Parents[c] : IF p = t THEN to = "SUCCEEDED" ELSE status[p] = "SUCCEEDED"
<1> DEFINE rows == [status EXCEPT ![t] = to]
<1>1. /\ rows \in [Tasks -> TaskStatus] /\ rows[t] = to /\ \A c \in Tasks : c # t => rows[c] = status[c]
  BY DEF KernelTypeOK
<1> HIDE DEF rows
<1>2. CASE to \in TerminalTask
  <2>1. Moved(t, to) = ReevaluateChildren(rows, t)
    BY <1>2 DEF Moved, rows
  <2>2. \A c \in Tasks : rows[c] # "BLOCKED" => c \notin Doomed(rows, t) /\ c \notin Freed(rows, t)
    BY DEF Doomed, Freed
  <2>3. \A c \in Freed(rows, t) : \A p \in Parents[c] :
           IF p = t THEN to = "SUCCEEDED" ELSE status[p] = "SUCCEEDED"
    BY <1>1, KernelGraph DEF Freed, UnmetParents
  <2>4. \A c \in Tasks : ReevaluateChildren(rows, t)[c] =
           IF c \in Doomed(rows, t) THEN "CANCELLED"
           ELSE IF c \in Freed(rows, t) THEN "READY" ELSE rows[c]
    BY DEF ReevaluateChildren
  <2>5. ReevaluateChildren(rows, t) \in [Tasks -> TaskStatus]
    BY <1>1 DEF ReevaluateChildren, TaskStatus
  <2>6. rows[t] # "BLOCKED"
    BY <1>1
  <2> QED
    BY <1>1, <2>1, <2>2, <2>3, <2>4, <2>5, <2>6
<1>3. CASE to \notin TerminalTask
  BY <1>1, <1>3 DEF Moved, rows
<1> QED
  BY <1>2, <1>3

\* A step that moves one task keeps what the status column says.
LEMMA ColumnMoves ==
  ASSUME KernelInv, RunsGrow, NEW t \in Tasks, NEW to \in TaskStatus \ {"absent", "BLOCKED"},
         status' = Moved(t, to), to \in {"READY", "RUNNING"} => ParentsDone(t),
         to = "SUCCEEDED" => HasRun(t, "SUCCEEDED")'
  PROVE  /\ status' \in [Tasks -> TaskStatus] /\ SucceededHasRun'
         /\ \A u \in Tasks : status'[u] \in {"READY", "RUNNING"} => ParentsDone(u)'
<1> USE DEF KernelInv
<1>1. SucceededHasRun'
  BY MovedColumn, RunsKept DEF SucceededHasRun
<1>2. ASSUME NEW u \in Tasks, status'[u] \in {"READY", "RUNNING"} PROVE ParentsDone(u)'
  <2>1. CASE ParentsDone(u)
    BY <2>1, DoneKept
  <2>2. CASE \A p \in Parents[u] : IF p = t THEN to = "SUCCEEDED" ELSE status[p] = "SUCCEEDED"
    <3> SUFFICES ASSUME NEW p \in Parents[u] PROVE HasRun(p, "SUCCEEDED")'
      BY DEF ParentsDone
    <3>1. p \in Tasks
      BY KernelGraph
    <3> QED
      BY <2>2, <3>1, RunsKept DEF SucceededHasRun
  <2> QED
    BY <1>2, <2>1, <2>2, MovedColumn DEF Admitted
<1> QED
  BY <1>1, <1>2, MovedColumn

LEMMA ColumnStays ==
  ASSUME KernelInv, RunsGrow, UNCHANGED status
  PROVE  /\ SucceededHasRun'
         /\ \A u \in Tasks : status'[u] \in {"READY", "RUNNING"} => ParentsDone(u)'
  BY RunsKept, DoneKept DEF KernelInv, SucceededHasRun, Admitted

-----------------------------------------------------------------------------
(***************************************************************************)
(* Steps.                                                                  *)
(***************************************************************************)

\* What others know stays true.
LEMMA OthersPlaced ==
  ASSUME KernelInv, RunsGrow, NEW e \in Dispatchers,
         pc'[e] = pc[e] /\ cur'[e] = cur[e] /\ memo'[e] = memo[e]
  PROVE  Placed(e)'
<1> USE DEF KernelInv
<1>1. Placed(e)
  OBVIOUS
<1>2. (Busy(e)' <=> Busy(e)) /\ (Working(e)' <=> Working(e)) /\ (Working(e) => Busy(e))
  BY DEF Busy, Working
<1>3. Busy(e) => ParentsDone(cur[e].task)'
  BY <1>1, DoneKept DEF Placed
<1>4. Working(e) => cur[e].run \in DOMAIN runs'[cur[e].task]
  BY <1>1, <1>2 DEF Placed, RunsGrow
<1>5. pc[e] = "recover" /\ memo[e].to = "SUCCEEDED" => HasRun(cur[e].task, "SUCCEEDED")'
  BY <1>1, RunsKept DEF Placed, Busy
<1> QED
  BY <1>1, <1>2, <1>3, <1>4, <1>5 DEF Placed

\* The step of one dispatcher.
LEMMA DispatcherStep ==
  ASSUME KernelInv, RunsGrow, KernelTypeOK', Locals', Granted', NEW d \in Dispatchers, Placed(d)',
         \A e \in Dispatchers : e # d => pc'[e] = pc[e] /\ cur'[e] = cur[e] /\ memo'[e] = memo[e],
         SucceededHasRun', \A u \in Tasks : status'[u] \in {"READY", "RUNNING"} => ParentsDone(u)',
         \A u \in Tasks : Len(runs'[u]) > 0 => Len(runs[u]) > 0 \/ ParentsDone(u)
  PROVE  KernelInv' /\ RunsGrow
<1>1. \A e \in Dispatchers : Placed(e)'
  BY OthersPlaced
<1>2. Admitted'
  BY DoneKept DEF Admitted, KernelInv
<1> QED
  BY <1>1, <1>2 DEF KernelInv

\* A step that changes nothing but the locals of one dispatcher.
LEMMA LocalStep ==
  ASSUME KernelInv, NEW d \in Dispatchers, UNCHANGED <<taskVars, runs, worldVars, requestVars>>,
         NEW point \in {"idle", "reclaim", "orphans", "recover", "dispatch", "claimed", "cancel",
                        "insert", "run", "handler", "finalize"},
         pc' = [pc EXCEPT ![d] = point], Locals', Placed(d)',
         \A e \in Dispatchers : e # d => cur'[e] = cur[e] /\ memo'[e] = memo[e]
  PROVE  KernelInv' /\ RunsGrow
<1>1. KernelTypeOK'
  BY DEF KernelInv, KernelTypeOK, taskVars, worldVars, requestVars
<1>2. RunsGrow /\ UNCHANGED <<status, runs>>
  BY RunsStay DEF KernelInv, taskVars
<1>3. Granted'
  BY DEF KernelInv, Granted, worldVars
<1>4. \A e \in Dispatchers : e # d => pc'[e] = pc[e]
  BY DEF KernelInv, KernelTypeOK
<1> QED
  BY <1>1, <1>2, <1>3, <1>4, ColumnStays, DispatcherStep

LEMMA KernelStart == KernelInit => KernelInv
<1> SUFFICES ASSUME KernelInit PROVE KernelInv
  OBVIOUS
<1>1. KernelTypeOK
  BY EmptySeq DEF KernelInit, KernelTypeOK, TaskStatus, Owners
<1>2. Locals
  BY DEF KernelInit, Locals, NoRun, NoMemo, TaskStatus
<1>3. (\A d \in Dispatchers : Placed(d)) /\ SucceededHasRun /\ Admitted /\ Granted
  BY KernelGrants DEF KernelInit, Placed, Busy, Working, SucceededHasRun, Admitted, Granted
<1> QED
  BY <1>1, <1>2, <1>3 DEF KernelInv

LEMMA KernelStutters == ASSUME KernelInv, UNCHANGED kernelVars PROVE KernelInv' /\ RunsGrow
<1> USE DEF KernelInv, kernelVars
<1>1. KernelTypeOK' /\ Locals'
  BY DEF KernelTypeOK, Locals
<1>2. RunsGrow
  BY RunsStay
<1>3. Admitted' /\ SucceededHasRun' /\ Granted'
  BY <1>2, ColumnStays, DoneKept DEF Admitted, Granted
<1>4. \A d \in Dispatchers : Placed(d)'
  BY <1>2, OthersPlaced
<1> QED
  BY <1>1, <1>2, <1>3, <1>4

LEMMA CreateKeeps == ASSUME KernelInv, NEW t \in Tasks, CreateTask(t) PROVE KernelInv' /\ RunsGrow
<1> USE DEF KernelInv
<1>1. /\ UNCHANGED <<cancelReq, owner, lease, attempts, runs, grant, entered, pc, todo, cur, memo,
                     rq, rqSeen>>
      /\ status' = [status EXCEPT ![t] =
                      IF @ # "absent" THEN @
                      ELSE IF UnmetParents(status, t) = {} THEN "READY" ELSE "BLOCKED"]
  BY DEF CreateTask, requestVars
<1>2. RunsGrow /\ KernelTypeOK' /\ Locals' /\ Granted'
  <2>1. status' \in [Tasks -> TaskStatus]
    BY <1>1 DEF KernelTypeOK, TaskStatus
  <2> QED
    BY <1>1, <2>1, RunsStay DEF KernelTypeOK, Locals, Granted
<1>3. SucceededHasRun'
  BY <1>1, <1>2, RunsKept DEF SucceededHasRun, KernelTypeOK
<1>4. ASSUME UnmetParents(status, t) = {} PROVE ParentsDone(t)
  BY <1>4, KernelGraph DEF UnmetParents, ParentsDone, SucceededHasRun
<1>5. \A u \in Tasks : status'[u] \in {"READY", "RUNNING"} => ParentsDone(u)
  BY <1>1, <1>4 DEF Admitted, KernelTypeOK
<1>6. Admitted'
  BY <1>1, <1>2, <1>5, DoneKept DEF Admitted
<1>7. \A d \in Dispatchers : Placed(d)'
  BY <1>1, <1>2, OthersPlaced
<1> QED
  BY <1>2, <1>3, <1>6, <1>7

LEMMA RestKeeps ==
  ASSUME KernelInv, NEW d \in Dispatchers,
         StartTick(d) \/ FindOrphans(d) \/ EndReconcile(d) \/ ListReadyTasks(d) \/ EndTick(d)
         \/ (\E t \in Tasks : \E n \in DOMAIN runs[t] : ReclaimRaises(d, t, n))
         \/ (\E t \in todo[d] : SkipTask(d, t))
  PROVE  KernelInv' /\ RunsGrow
<1> USE DEF KernelInv
<1>1. PICK point \in {"idle", "reclaim", "orphans", "dispatch"} : pc' = [pc EXCEPT ![d] = point]
  BY DEF StartTick, FindOrphans, EndReconcile, ListReadyTasks, EndTick, ReclaimRaises, SkipTask,
         Goto, KernelTypeOK
<1>2. UNCHANGED <<taskVars, runs, worldVars, requestVars, cur, memo>>
  BY DEF StartTick, FindOrphans, EndReconcile, ListReadyTasks, EndTick, ReclaimRaises, SkipTask
<1>3. todo' \in [Dispatchers -> SUBSET Tasks]
  BY ZenonT(60) DEF StartTick, FindOrphans, EndReconcile, ListReadyTasks, EndTick, ReclaimRaises, SkipTask,
         Locals
<1>4. Locals'
  BY <1>2, <1>3 DEF Locals, requestVars
<1>5. pc'[d] = point
  BY <1>1 DEF KernelTypeOK
<1>6. Placed(d)'
  BY <1>5 DEF Placed, Busy, Working
<1> QED
  BY <1>1, <1>2, <1>4, <1>6, LocalStep

LEMMA ReclaimKeeps ==
  ASSUME KernelInv, NEW d \in Dispatchers, NEW t \in Tasks, NEW n \in DOMAIN runs[t],
         Reclaim(d, t, n)
  PROVE  KernelInv' /\ RunsGrow
<1> DEFINE count == Larger(attempts[t], n)
           to == AfterLoss(t, count)
           row == [runs[t][n] EXCEPT !.status = "LOST", !.owner = d]
<1> USE DEF KernelInv
<1>1. /\ UNCHANGED <<cancelReq, grant, entered, pc, todo, cur, memo, rq, rqSeen>>
      /\ status' = Moved(t, to) /\ runs[t][n].status = "RUNNING"
      /\ owner' = [owner EXCEPT ![t] = None] /\ lease' = [lease EXCEPT ![t] = "none"]
      /\ attempts' = [attempts EXCEPT ![t] = count]
      /\ runs' = [runs EXCEPT ![t] = [runs[t] EXCEPT ![n] = row]]
  BY RunsTyped DEF Reclaim, ExpiredRun, ReleaseTaskLease, worldVars, requestVars
<1>2. row \in RunRow
  BY RunsTyped, ZenonT(60) DEF RunRow, RunStatus, Owners
<1>3. RunsGrow /\ \A u \in Tasks : Len(runs'[u]) = Len(runs[u])
  BY <1>1, <1>2, WriteRow
<1>4. to \in {"CANCELLED", "READY", "FAILED"} /\ ParentsDone(t)
  BY RunsTyped DEF AfterLoss, Admitted
<1>5. /\ status' \in [Tasks -> TaskStatus] /\ SucceededHasRun'
      /\ \A u \in Tasks : status'[u] \in {"READY", "RUNNING"} => ParentsDone(u)'
  BY <1>1, <1>3, <1>4, ColumnMoves DEF TaskStatus
<1>6. KernelTypeOK' /\ Locals'
  <2>1. count \in Nat
    BY RunsTyped DEF Larger, KernelTypeOK
  <2> QED
    BY <1>1, <1>3, <1>5, <2>1 DEF KernelTypeOK, Owners, RunsGrow, RunRow, Locals
<1>7. Placed(d)' /\ Granted'
  BY <1>1, <1>3, OthersPlaced DEF Granted
<1> QED
  BY <1>1, <1>3, <1>5, <1>6, <1>7, DispatcherStep

LEMMA OrphanReadKeeps ==
  ASSUME KernelInv, NEW d \in Dispatchers, NEW t \in todo[d], OrphanRead(d, t) PROVE KernelInv' /\ RunsGrow
<1> USE DEF KernelInv
<1>1. t \in Tasks
  BY DEF Locals
<1>2. /\ UNCHANGED <<taskVars, runs, worldVars, requestVars>> /\ pc[d] = "orphans"
      /\ todo' = [todo EXCEPT ![d] = @ \ {t}]
  BY DEF OrphanRead
<1>3. CASE /\ IsOrphan(t) /\ pc' = [pc EXCEPT ![d] = "recover"]
           /\ cur' = [cur EXCEPT ![d] = [task |-> t, run |-> 0]]
           /\ memo' = [memo EXCEPT ![d] =
                  [to |-> OrphanTarget(t), run |-> 0,
                   attempts |-> IF OrphanTarget(t) \in {"READY", "FAILED"}
                                THEN Dirty(attempts[t], OrphanAttempts(t)) ELSE 0]]
  <2>1. /\ OrphanTarget(t) \in {"CANCELLED", "SUCCEEDED", "READY", "FAILED"}
        /\ OrphanTarget(t) = "SUCCEEDED" => HasRun(t, "SUCCEEDED")
    BY DEF OrphanTarget, AfterLoss
  <2>2. Dirty(attempts[t], OrphanAttempts(t)) \in Nat
    BY <1>1, RunsTyped DEF Dirty, OrphanAttempts, Larger, KernelTypeOK
  <2>3. Locals'
    BY <1>1, <1>2, <1>3, <2>1, <2>2 DEF Locals, TaskStatus, requestVars
  <2>4. pc'[d] = "recover" /\ cur'[d].task = t /\ memo'[d].to = OrphanTarget(t)
    BY <1>3 DEF Locals, KernelTypeOK
  <2>5. ParentsDone(t) /\ UNCHANGED <<runs, status>>
    BY <1>1, <1>2, <1>3 DEF Admitted, IsOrphan, taskVars
  <2>6. Placed(d)'
    BY <1>1, <2>1, <2>4, <2>5 DEF Placed, Busy, Working, ParentsDone, HasRun
  <2> QED
    BY <1>2, <1>3, <2>3, <2>6, LocalStep DEF Locals
<1>4. CASE UNCHANGED <<pc, cur, memo>>
  <2>1. Locals'
    BY <1>2, <1>4 DEF Locals, requestVars
  <2>2. Placed(d)' /\ pc' = [pc EXCEPT ![d] = "orphans"]
    BY <1>2, <1>4 DEF Placed, Busy, Working, KernelTypeOK
  <2> QED
    BY <1>2, <1>4, <2>1, <2>2, LocalStep
<1> QED
  BY <1>3, <1>4 DEF OrphanRead, Goto

\* The writes by primary key: a recovery, and a claimed task that is cancelled.
LEMMA OrphanWriteKeeps == ASSUME KernelInv, NEW d \in Dispatchers, OrphanWrite(d) PROVE KernelInv' /\ RunsGrow
<1> DEFINE t == cur[d].task
           to == memo[d].to
<1> USE DEF KernelInv
<1>1. /\ UNCHANGED <<cancelReq, runs, grant, entered, todo, rq, rqSeen>> /\ pc[d] = "recover"
      /\ status' = Moved(t, to) /\ attempts' = [attempts EXCEPT ![t] = Flushed(@, memo[d].attempts)]
      /\ owner' = [owner EXCEPT ![t] = None] /\ lease' = [lease EXCEPT ![t] = "none"]
      /\ pc' = [pc EXCEPT ![d] = "orphans"]
      /\ cur' = [cur EXCEPT ![d] = NoRun] /\ memo' = [memo EXCEPT ![d] = NoMemo]
  BY DEF OrphanWrite, ReleaseTaskLease, Goto, worldVars, requestVars
<1>2. /\ t \in Tasks /\ ParentsDone(t) /\ to \in {"CANCELLED", "SUCCEEDED", "READY", "FAILED"}
      /\ to = "SUCCEEDED" => HasRun(t, "SUCCEEDED")
  BY <1>1 DEF Placed, Busy
<1>3. RunsGrow
  BY <1>1, RunsStay
<1>4. /\ status' \in [Tasks -> TaskStatus] /\ SucceededHasRun'
      /\ \A u \in Tasks : status'[u] \in {"READY", "RUNNING"} => ParentsDone(u)'
  BY <1>1, <1>2, <1>3, RunsKept, ColumnMoves DEF TaskStatus
<1>5. KernelTypeOK' /\ Locals'
  <2>1. Flushed(attempts[t], memo[d].attempts) \in Nat
    BY <1>2 DEF Flushed, KernelTypeOK, Locals
  <2>2. NoRun \in [task : Tasks \cup {None}, run : Nat]
        /\ NoMemo \in [to : TaskStatus \cup {"DENIED"}, run : Nat, attempts : Nat]
    BY DEF NoRun, NoMemo, TaskStatus
  <2> QED
    BY <1>1, <1>4, <2>1, <2>2 DEF KernelTypeOK, Owners, Locals
<1>6. Placed(d)' /\ Granted'
  <2>1. pc'[d] = "orphans"
    BY <1>1 DEF KernelTypeOK
  <2> QED
    BY <1>1, <2>1 DEF Placed, Busy, Working, Granted
<1> QED
  BY <1>1, <1>3, <1>4, <1>5, <1>6, DispatcherStep DEF KernelTypeOK, Locals

LEMMA CancelClaimedKeeps ==
  ASSUME KernelInv, NEW d \in Dispatchers, CancelClaimedWrite(d) PROVE KernelInv' /\ RunsGrow
<1> DEFINE t == cur[d].task
<1> USE DEF KernelInv
<1>1. /\ UNCHANGED <<cancelReq, attempts, runs, grant, entered, todo, memo, rq, rqSeen>>
      /\ status' = Moved(t, "CANCELLED") /\ pc[d] = "cancel"
      /\ owner' = [owner EXCEPT ![t] = None] /\ lease' = [lease EXCEPT ![t] = "none"]
      /\ pc' = [pc EXCEPT ![d] = "dispatch"] /\ cur' = [cur EXCEPT ![d] = NoRun]
  BY DEF CancelClaimedWrite, ReleaseTaskLease, Goto, worldVars, requestVars
<1>2. t \in Tasks
  BY <1>1 DEF Placed, Busy
<1>3. RunsGrow
  BY <1>1, RunsStay
<1>4. /\ status' \in [Tasks -> TaskStatus] /\ SucceededHasRun'
      /\ \A u \in Tasks : status'[u] \in {"READY", "RUNNING"} => ParentsDone(u)'
  BY <1>1, <1>2, <1>3, ColumnMoves DEF TaskStatus
<1>5. KernelTypeOK' /\ Locals'
  <2>1. NoRun \in [task : Tasks \cup {None}, run : Nat]
    BY DEF NoRun
  <2> QED
    BY <1>1, <1>4, <2>1 DEF KernelTypeOK, Owners, Locals
<1>6. Placed(d)' /\ Granted'
  <2>1. pc'[d] = "dispatch"
    BY <1>1 DEF KernelTypeOK
  <2> QED
    BY <1>1, <2>1 DEF Placed, Busy, Working, Granted
<1> QED
  BY <1>1, <1>3, <1>4, <1>5, <1>6, DispatcherStep DEF KernelTypeOK, Locals

LEMMA ClaimKeeps ==
  ASSUME KernelInv, NEW d \in Dispatchers, NEW t \in todo[d], ClaimTask(d, t) PROVE KernelInv' /\ RunsGrow
<1> USE DEF KernelInv
<1>1. /\ UNCHANGED <<cancelReq, attempts, runs, grant, entered, memo, rq, rqSeen>>
      /\ status[t] = "READY" /\ status' = [status EXCEPT ![t] = "RUNNING"]
      /\ owner' = [owner EXCEPT ![t] = d] /\ lease' = [lease EXCEPT ![t] = "live"]
      /\ todo' = [todo EXCEPT ![d] = @ \ {t}]
      /\ cur' = [cur EXCEPT ![d] = [task |-> t, run |-> 0]]
      /\ pc' = [pc EXCEPT ![d] = "claimed"] /\ t \in Tasks
  BY DEF ClaimTask, Claimable, Goto, worldVars, requestVars, Locals
<1>2. RunsGrow
  BY <1>1, RunsStay
<1>3. KernelTypeOK' /\ Locals'
  BY <1>1 DEF KernelTypeOK, Owners, TaskStatus, Locals
<1>4. SucceededHasRun'
  BY <1>1, <1>2, RunsKept DEF SucceededHasRun, KernelTypeOK
<1>5. \A u \in Tasks : status'[u] \in {"READY", "RUNNING"} => ParentsDone(u)'
  BY <1>1, <1>2, DoneKept DEF Admitted, KernelTypeOK
<1>6. Placed(d)'
  <2>1. pc'[d] = "claimed" /\ cur'[d].task = t
    BY <1>1 DEF KernelTypeOK, Locals
  <2>2. ParentsDone(t)'
    BY <1>1, <1>2, DoneKept DEF Admitted
  <2> QED
    BY <1>1, <2>1, <2>2 DEF Placed, Busy, Working
<1> QED
  BY <1>1, <1>2, <1>3, <1>4, <1>5, <1>6, DispatcherStep DEF KernelTypeOK, Locals, Granted

\* The steps before a run exists, which write no status.
LEMMA BeforeRunKeeps ==
  ASSUME KernelInv, NEW d \in Dispatchers, CancelClaimedRead(d) \/ CreateRunRead(d)
  PROVE  KernelInv' /\ RunsGrow
<1> USE DEF KernelInv
<1>0. PICK t \in Tasks : t = cur[d].task
  BY DEF CancelClaimedRead, CreateRunRead, Placed, Busy
<1>1. /\ UNCHANGED <<status, cancelReq, attempts, runs, grant, entered, todo, rq, rqSeen>>
      /\ pc[d] = "claimed" /\ ParentsDone(t)
  BY <1>0 DEF CancelClaimedRead, CreateRunRead, taskVars, worldVars, requestVars, Placed, Busy
<1>2. RunsGrow
  BY <1>1, RunsStay
<1>3. PICK point \in {"cancel", "insert", "dispatch"} :
         /\ pc' = [pc EXCEPT ![d] = point]
         /\ point # "dispatch" => UNCHANGED cur
  BY DEF CancelClaimedRead, CreateRunRead, GiveUp, Goto
<1>4. /\ owner' \in [Tasks -> Owners] /\ lease' \in [Tasks -> {"none", "live", "expired"}]
      /\ cur' \in [Dispatchers -> [task : Tasks \cup {None}, run : Nat]]
      /\ \A e \in Dispatchers : e # d => cur'[e] = cur[e]
  <2>1. CASE GiveUp(d, t)
    BY <2>1 DEF GiveUp, ReleaseTaskLease, NoRun, KernelTypeOK, Owners, Locals
  <2>2. CASE UNCHANGED <<owner, lease>> /\ (UNCHANGED cur \/ cur' = [cur EXCEPT ![d] = NoRun])
    <3>1. NoRun \in [task : Tasks \cup {None}, run : Nat]
      BY DEF NoRun
    <3>2. owner' \in [Tasks -> Owners] /\ lease' \in [Tasks -> {"none", "live", "expired"}]
      BY <2>2 DEF KernelTypeOK
    <3>3. cur \in [Dispatchers -> [task : Tasks \cup {None}, run : Nat]]
      BY DEF Locals
    <3>4. CASE UNCHANGED cur
      BY <3>2, <3>3, <3>4
    <3>5. CASE cur' = [cur EXCEPT ![d] = NoRun]
      BY <3>1, <3>2, <3>3, <3>5
    <3> QED
      BY <2>2, <3>4, <3>5
  <2> QED
    BY <1>0, <2>1, <2>2 DEF CancelClaimedRead, CreateRunRead, taskVars
<1>5. /\ memo' \in [Dispatchers -> [to : TaskStatus \cup {"DENIED"}, run : Nat, attempts : Nat]]
      /\ \A e \in Dispatchers : e # d => memo'[e] = memo[e]
  <2>1. CASE CancelClaimedRead(d)
    BY <2>1 DEF CancelClaimedRead, Locals
  <2>2. CASE CreateRunRead(d) /\ GiveUp(d, t)
    BY <2>2 DEF GiveUp, Locals, NoMemo, TaskStatus
  <2>3. CASE memo' = [memo EXCEPT ![d].run = Len(runs[t]) + 1,
                                  ![d].attempts =
                                     Dirty(attempts[t], Larger(attempts[t], Len(runs[t]) + 1))]
    <3>1. Dirty(attempts[t], Larger(attempts[t], Len(runs[t]) + 1)) \in Nat /\ Len(runs[t]) + 1 \in Nat
      BY <1>1, RunsTyped DEF Dirty, Larger, KernelTypeOK
    <3> QED
      BY <2>3, <3>1, ZenonT(60) DEF Locals
  <2> QED
    BY <1>0, <2>1, <2>2, <2>3 DEF CreateRunRead
<1>6. KernelTypeOK' /\ Locals'
  BY <1>1, <1>3, <1>4, <1>5 DEF KernelTypeOK, Locals
<1>7. Placed(d)'
  <2>1. pc'[d] = point
    BY <1>3 DEF KernelTypeOK
  <2>2. ParentsDone(t)'
    BY <1>1, <1>2, DoneKept
  <2> QED
    BY <1>0, <1>1, <1>3, <2>1, <2>2 DEF Placed, Busy, Working
<1> QED
  BY <1>1, <1>2, <1>3, <1>4, <1>5, <1>6, <1>7, ColumnStays, DispatcherStep DEF KernelTypeOK, Granted

LEMMA InsertKeeps ==
  ASSUME KernelInv, NEW d \in Dispatchers, CreateRunInsert(d) PROVE KernelInv' /\ RunsGrow
<1> DEFINE row == [status |-> "RUNNING", owner |-> d, live |-> TRUE]
<1> USE DEF KernelInv
<1>0. PICK t \in Tasks, n \in Nat : t = cur[d].task /\ n = memo[d].run
  BY DEF CreateRunInsert, Placed, Busy, Locals
<1>1. /\ UNCHANGED <<status, cancelReq, grant, entered, todo, rq, rqSeen>>
      /\ pc[d] = "insert" /\ ParentsDone(t)
      /\ memo' = [memo EXCEPT ![d] = NoMemo]
  BY <1>0 DEF CreateRunInsert, GiveUp, worldVars, requestVars, Placed, Busy
<1>2. NoMemo \in [to : TaskStatus \cup {"DENIED"}, run : Nat, attempts : Nat]
      /\ NoRun \in [task : Tasks \cup {None}, run : Nat]
  BY DEF NoMemo, NoRun, TaskStatus
<1>3. CASE /\ n = Len(runs[t]) + 1 /\ runs' = [runs EXCEPT ![t] = Append(@, row)]
           /\ attempts' = [attempts EXCEPT ![t] = Flushed(@, memo[d].attempts)]
           /\ pc' = [pc EXCEPT ![d] = "run"] /\ cur' = [cur EXCEPT ![d].run = n]
           /\ UNCHANGED <<owner, lease>>
  <2>1. row \in RunRow
    BY DEF RunRow, RunStatus, Owners
  <2>2. /\ RunsGrow /\ n \in DOMAIN runs'[t]
        /\ \A u \in Tasks : u # t => Len(runs'[u]) = Len(runs[u])
    BY <1>1, <1>3, <2>1, AddRow
  <2>3. Flushed(attempts[t], memo[d].attempts) \in Nat /\ n \in Nat
    BY <1>1 DEF Flushed, KernelTypeOK, Locals
  <2>4. KernelTypeOK' /\ Locals'
    <3>1. cur' \in [Dispatchers -> [task : Tasks \cup {None}, run : Nat]]
      BY <1>3, ZenonT(60) DEF Locals
    <3>2. attempts' \in [Tasks -> Nat]
      BY <1>3, <2>3 DEF KernelTypeOK
    <3>3. pc' \in [Dispatchers -> {"idle", "reclaim", "orphans", "recover", "dispatch",
                                   "claimed", "cancel", "insert", "run", "handler", "finalize"}]
      BY <1>3 DEF KernelTypeOK
    <3>4. KernelTypeOK'
      BY <1>1, <1>3, <2>2, <3>2, <3>3 DEF KernelTypeOK, RunsGrow, RunRow
    <3>5. Locals'
      BY <1>1, <1>2, <3>1 DEF Locals
    <3> QED
      BY <3>4, <3>5
  <2>5. pc'[d] = "run" /\ cur'[d].task = t /\ cur'[d].run = n
    BY <1>0, <1>3 DEF KernelTypeOK, Locals
  <2>6. ParentsDone(t)'
    BY <1>1, <2>2, DoneKept
  <2>7. Placed(d)'
    BY <1>1, <2>2, <2>5, <2>6 DEF Placed, Busy, Working
  <2>8. \A u \in Tasks : Len(runs'[u]) > 0 => Len(runs[u]) > 0 \/ ParentsDone(u)
    BY <1>1, <2>2
  <2> QED
    BY <1>1, <1>3, <2>2, <2>4, <2>7, <2>8, ColumnStays, DispatcherStep
       DEF KernelTypeOK, Locals, Granted
<1>4. CASE GiveUp(d, t) /\ UNCHANGED <<runs, attempts>>
  <2>1. RunsGrow
    BY <1>4, RunsStay
  <2>2. /\ owner' \in [Tasks -> Owners] /\ lease' \in [Tasks -> {"none", "live", "expired"}]
    BY <1>4 DEF GiveUp, ReleaseTaskLease, KernelTypeOK, Owners
  <2>3. KernelTypeOK' /\ Locals'
    <3>1. pc' = [pc EXCEPT ![d] = "dispatch"] /\ cur' = [cur EXCEPT ![d] = NoRun]
      BY <1>4 DEF GiveUp, Goto
    <3>2. pc' \in [Dispatchers -> {"idle", "reclaim", "orphans", "recover", "dispatch",
                                   "claimed", "cancel", "insert", "run", "handler", "finalize"}]
      BY <3>1 DEF KernelTypeOK
    <3>3. KernelTypeOK'
      BY <1>1, <1>4, <2>2, <3>2 DEF KernelTypeOK
    <3>4. Locals'
      BY <1>1, <1>2, <3>1 DEF Locals
    <3> QED
      BY <3>3, <3>4
  <2>4. Placed(d)'
    <3>1. pc'[d] = "dispatch"
      BY <1>4 DEF GiveUp, Goto, KernelTypeOK
    <3> QED
      BY <3>1 DEF Placed, Busy, Working
  <2> QED
    BY <1>1, <1>4, <2>1, <2>3, <2>4, ColumnStays, DispatcherStep
       DEF KernelTypeOK, Locals, Granted, GiveUp, Goto
<1> QED
  BY <1>0, <1>3, <1>4 DEF CreateRunInsert, Goto

\* The handler: the grant is consumed with the entry.
LEMMA HandlerKeeps ==
  ASSUME KernelInv, NEW d \in Dispatchers,
         Denied(d) \/ EnterHandler(d) \/ HandlerEnds(d, "SUCCEEDED") \/ HandlerEnds(d, "FAILED")
  PROVE  KernelInv' /\ RunsGrow
<1> USE DEF KernelInv
<1>0. PICK t \in Tasks : t = cur[d].task
  BY DEF Denied, EnterHandler, HandlerEnds, Placed, Busy
<1>1. /\ UNCHANGED <<status, cancelReq, owner, lease, attempts, runs, todo, cur, rq, rqSeen>>
      /\ pc[d] \in {"run", "handler"}
  BY DEF Denied, EnterHandler, HandlerEnds, taskVars, requestVars
<1>2. RunsGrow
  BY <1>1, RunsStay
<1>3. ParentsDone(t) /\ cur[d].run \in DOMAIN runs[t]
  BY <1>0, <1>1 DEF Placed, Busy, Working
<1>4. PICK point \in {"handler", "finalize"} : pc' = [pc EXCEPT ![d] = point]
  BY DEF Denied, EnterHandler, HandlerEnds, Goto
<1>5. /\ memo' \in [Dispatchers -> [to : TaskStatus \cup {"DENIED"}, run : Nat, attempts : Nat]]
      /\ \A e \in Dispatchers : e # d => memo'[e] = memo[e]
  <2>1. memo' = memo \/ \E to \in TaskStatus \cup {"DENIED"} : memo' = [memo EXCEPT ![d].to = to]
    BY DEF Denied, EnterHandler, HandlerEnds, TaskStatus
  <2> QED
    BY <2>1, ZenonT(60) DEF Locals
<1>6. grant' \in [Tasks -> {"none", "live", "consumed"}] /\ entered' \in [Tasks -> Nat] /\ Granted'
  <2>1. CASE UNCHANGED <<grant, entered>>
    BY <2>1 DEF KernelTypeOK, Granted
  <2>2. CASE EnterHandler(d)
    <3>1. /\ \A u \in Tasks : u # t => grant'[u] = grant[u] /\ entered'[u] = entered[u]
          /\ t \in NeedsGrant => grant'[t] = "consumed" /\ entered'[t] = entered[t] + 1
          /\ grant[t] # "consumed"
      BY <1>0, <2>2 DEF EnterHandler, KernelTypeOK
    <3>2. Granted'
      BY <1>3, <3>1, KernelGrants DEF Granted
    <3> QED
      BY <1>0, <2>2, <3>2 DEF EnterHandler, KernelTypeOK
  <2> QED
    BY <2>1, <2>2 DEF Denied, HandlerEnds, worldVars
<1>7. KernelTypeOK' /\ Locals'
  BY <1>1, <1>4, <1>5, <1>6 DEF KernelTypeOK, Locals
<1>8. Placed(d)'
  <2>1. pc'[d] = point
    BY <1>4 DEF KernelTypeOK
  <2>2. ParentsDone(t)'
    BY <1>2, <1>3, DoneKept
  <2> QED
    BY <1>0, <1>1, <1>3, <2>1, <2>2 DEF Placed, Busy, Working
<1> QED
  BY <1>1, <1>2, <1>4, <1>5, <1>6, <1>7, <1>8, ColumnStays, DispatcherStep DEF KernelTypeOK

LEMMA RenewKeeps == ASSUME KernelInv, NEW d \in Dispatchers, RenewLeases(d) PROVE KernelInv' /\ RunsGrow
<1> DEFINE t == cur[d].task
           n == cur[d].run
           row == [runs[t][n] EXCEPT !.live = TRUE]
<1> USE DEF KernelInv
<1>1. t \in Tasks /\ n \in DOMAIN runs[t]
  BY DEF RenewLeases, Placed, Busy, Working
<1>2. /\ UNCHANGED <<status, cancelReq, owner, attempts, grant, entered, pc, todo, cur, memo,
                     rq, rqSeen>>
      /\ runs' = [runs EXCEPT ![t] = [runs[t] EXCEPT ![n] = row]]
      /\ lease' \in [Tasks -> {"none", "live", "expired"}]
  BY <1>1, RunsTyped DEF RenewLeases, KernelTypeOK, worldVars, requestVars
<1>3. row \in RunRow /\ row.status = runs[t][n].status
  BY <1>1, RunsTyped, ZenonT(60) DEF RunRow
<1>4. RunsGrow /\ \A u \in Tasks : Len(runs'[u]) = Len(runs[u])
  BY <1>1, <1>2, <1>3, WriteRow
<1>5. KernelTypeOK' /\ Locals' /\ Granted'
  BY <1>2, <1>4 DEF KernelTypeOK, RunsGrow, RunRow, Locals, Granted
<1>6. Placed(d)'
  BY <1>2, <1>4, OthersPlaced
<1> QED
  BY <1>2, <1>4, <1>5, <1>6, ColumnStays, DispatcherStep

LEMMA FinalizeKeeps ==
  ASSUME KernelInv, NEW d \in Dispatchers, FinalizeAndComplete(d) PROVE KernelInv' /\ RunsGrow
<1> USE DEF KernelInv
<1>0. PICK t \in Tasks, n \in Nat : t = cur[d].task /\ n = cur[d].run
  BY DEF FinalizeAndComplete, Placed, Busy, Locals
<1>6. PICK outcome, to : outcome = memo[d].to /\ to = AdvanceTo(t, n, outcome)
  OBVIOUS
<1>7. PICK row : row = [runs[t][n] EXCEPT !.status = RunEnds(outcome), !.owner = None]
  OBVIOUS
<1>1. n \in DOMAIN runs[t] /\ ParentsDone(t)
  BY <1>0 DEF FinalizeAndComplete, Placed, Busy, Working
<1>2. /\ UNCHANGED <<cancelReq, grant, entered, todo, rq, rqSeen>>
      /\ pc' = [pc EXCEPT ![d] = "dispatch"]
      /\ cur' = [cur EXCEPT ![d] = NoRun] /\ memo' = [memo EXCEPT ![d] = NoMemo]
  BY DEF FinalizeAndComplete, Goto, worldVars, requestVars
<1>3. /\ RunsGrow /\ \A u \in Tasks : Len(runs'[u]) = Len(runs[u])
      /\ owner' \in [Tasks -> Owners] /\ lease' \in [Tasks -> {"none", "live", "expired"}]
      /\ attempts' \in [Tasks -> Nat]
      /\ status' \in [Tasks -> TaskStatus] /\ SucceededHasRun'
      /\ \A u \in Tasks : status'[u] \in {"READY", "RUNNING"} => ParentsDone(u)'
  <2>1. CASE UNCHANGED <<runs, attempts, status, owner, lease>>
    BY <2>1, RunsStay, ColumnStays DEF KernelTypeOK
  <2>2. CASE /\ RunIsMine(d, t, n)
             /\ runs' = [runs EXCEPT ![t][n].status = RunEnds(outcome), ![t][n].owner = None]
             /\ attempts' = [attempts EXCEPT ![t] =
                                IF outcome = "SUCCEEDED" THEN @ ELSE Larger(@, n)]
             /\ status' = Moved(t, to) /\ ReleaseTaskLease(t)
    <3>1. runs' = [runs EXCEPT ![t] = [runs[t] EXCEPT ![n] = row]]
      BY <1>1, <1>7, <2>2, RunsTyped
    <3>2. row \in RunRow /\ row.status = RunEnds(outcome)
      BY <1>1, <1>7, RunsTyped, ZenonT(60) DEF RunRow, RunEnds, RunStatus, Owners
    <3>3. /\ RunsGrow /\ n \in DOMAIN runs'[t] /\ runs'[t][n] = row
          /\ \A u \in Tasks : Len(runs'[u]) = Len(runs[u])
      <4>1. runs[t][n].status = "RUNNING"
        BY <2>2 DEF RunIsMine
      <4> QED
        BY ONLY KernelTypeOK, <1>1, <3>1, <3>2, <4>1, WriteRow
    <3>4. /\ to \in {"SUCCEEDED", "CANCELLED", "READY", "FAILED"}
          /\ to = "SUCCEEDED" => outcome = "SUCCEEDED"
      BY <1>6 DEF AdvanceTo
    <3>5. to = "SUCCEEDED" => HasRun(t, "SUCCEEDED")'
      <4>1. ASSUME to = "SUCCEEDED" PROVE \E m \in DOMAIN runs'[t] : runs'[t][m].status = "SUCCEEDED"
        BY <3>2, <3>3, <3>4, <4>1 DEF RunEnds
      <4>2. \A u \in Tasks : (\E m \in DOMAIN runs'[u] : runs'[u][m].status = "SUCCEEDED")
               => HasRun(u, "SUCCEEDED")'
        BY DEF HasRun
      <4> QED
        BY <1>1, <4>1, <4>2
    <3>6. /\ status' \in [Tasks -> TaskStatus] /\ SucceededHasRun'
          /\ \A u \in Tasks : status'[u] \in {"READY", "RUNNING"} => ParentsDone(u)'
      BY <1>1, <2>2, <3>3, <3>4, <3>5, ColumnMoves DEF TaskStatus
    <3>7. attempts' \in [Tasks -> Nat]
      BY <1>1, <2>2, RunsTyped DEF Larger, KernelTypeOK
    <3> QED
      BY <2>2, <3>3, <3>6, <3>7 DEF ReleaseTaskLease, KernelTypeOK, Owners
  <2> QED
    BY <1>0, <1>6, <2>1, <2>2 DEF FinalizeAndComplete
<1>4. KernelTypeOK' /\ Locals' /\ Granted'
  <2>1. NoRun \in [task : Tasks \cup {None}, run : Nat]
        /\ NoMemo \in [to : TaskStatus \cup {"DENIED"}, run : Nat, attempts : Nat]
    BY DEF NoRun, NoMemo, TaskStatus
  <2> QED
    BY <1>2, <1>3, <2>1 DEF KernelTypeOK, RunsGrow, RunRow, Locals, Granted
<1>5. Placed(d)'
  <2>1. pc'[d] = "dispatch"
    BY <1>2 DEF KernelTypeOK
  <2> QED
    BY <2>1 DEF Placed, Busy, Working
<1> QED
  BY <1>2, <1>3, <1>4, <1>5, DispatcherStep DEF KernelTypeOK, Locals

LEMMA CancelReadKeeps ==
  ASSUME KernelInv, NEW r \in Requests, NEW t \in Tasks, CancelRead(r, t) PROVE KernelInv' /\ RunsGrow
<1> USE DEF KernelInv
<1>1. /\ UNCHANGED <<status, cancelReq, owner, lease, attempts, runs, grant, entered,
                     pc, todo, cur, memo>>
      /\ rq' = [rq EXCEPT ![r] = t] /\ rqSeen' = [rqSeen EXCEPT ![r] = status[t]]
  BY DEF CancelRead, taskVars, worldVars
<1>2. KernelTypeOK' /\ Locals'
  BY <1>1 DEF KernelTypeOK, Locals
<1>3. RunsGrow
  BY <1>1, RunsStay
<1>4. Admitted' /\ SucceededHasRun' /\ Granted'
  BY <1>1, <1>3, ColumnStays, DoneKept DEF Admitted, Granted
<1>5. \A d \in Dispatchers : Placed(d)'
  BY <1>1, <1>3, OthersPlaced
<1> QED
  BY <1>2, <1>3, <1>4, <1>5

LEMMA CancelWriteKeeps == ASSUME KernelInv, NEW r \in Requests, CancelWrite(r) PROVE KernelInv' /\ RunsGrow
<1> USE DEF KernelInv
<1>0. PICK t \in Tasks : t = rq[r]
  BY DEF CancelWrite, Locals
<1>1. /\ UNCHANGED <<attempts, runs, grant, entered, pc, todo, cur, memo, rq>>
      /\ cancelReq' = [cancelReq EXCEPT ![t] = TRUE]
      /\ rqSeen' = [rqSeen EXCEPT ![r] = "absent"]
      /\ \/ status' = Moved(t, "CANCELLED") /\ ReleaseTaskLease(t)
         \/ UNCHANGED <<status, owner, lease>>
  BY <1>0 DEF CancelWrite, worldVars
<1>2. RunsGrow
  BY <1>1, RunsStay
<1>3. /\ status' \in [Tasks -> TaskStatus] /\ SucceededHasRun'
      /\ \A u \in Tasks : status'[u] \in {"READY", "RUNNING"} => ParentsDone(u)'
  <2>1. CASE status' = Moved(t, "CANCELLED")
    BY <1>2, <2>1, ColumnMoves DEF TaskStatus
  <2>2. CASE UNCHANGED status
    BY <1>2, <2>2, ColumnStays DEF KernelTypeOK
  <2> QED
    BY <1>1, <2>1, <2>2
<1>4. KernelTypeOK' /\ Locals'
  <2>1. owner' \in [Tasks -> Owners] /\ lease' \in [Tasks -> {"none", "live", "expired"}]
    BY <1>1 DEF ReleaseTaskLease, KernelTypeOK, Owners
  <2>2. "absent" \in TaskStatus
    BY DEF TaskStatus
  <2> QED
    BY <1>1, <1>3, <2>1, <2>2 DEF KernelTypeOK, Locals
<1>5. Admitted' /\ Granted'
  BY <1>1, <1>2, <1>3, DoneKept DEF Admitted, Granted
<1>6. \A d \in Dispatchers : Placed(d)'
  BY <1>1, <1>2, OthersPlaced
<1> QED
  BY <1>2, <1>3, <1>4, <1>5, <1>6

\* A kill: the rows the dispatcher owned keep what they say of their run.
LEMMA ForgetsKeeps ==
  ASSUME KernelInv, NEW d \in Dispatchers, Forgets(d), UNCHANGED <<rq, rqSeen>>
  PROVE  KernelInv' /\ RunsGrow
<1> USE DEF KernelInv
<1>1. /\ UNCHANGED <<status, cancelReq, lease, attempts, grant, entered, rq, rqSeen>>
      /\ pc' = [pc EXCEPT ![d] = "idle"] /\ todo' = [todo EXCEPT ![d] = {}]
      /\ cur' = [cur EXCEPT ![d] = NoRun] /\ memo' = [memo EXCEPT ![d] = NoMemo]
      /\ owner' = [t \in Tasks |-> IF owner[t] = d THEN Ghost ELSE owner[t]]
      /\ runs' = [t \in Tasks |-> [n \in DOMAIN runs[t] |->
                    IF runs[t][n].owner = d THEN [runs[t][n] EXCEPT !.owner = Ghost]
                    ELSE runs[t][n]]]
  BY DEF Forgets, Goto, worldVars
<1>2. ASSUME NEW t \in Tasks
      PROVE  /\ runs'[t] \in Seq(RunRow) /\ Len(runs'[t]) = Len(runs[t])
             /\ DOMAIN runs'[t] = DOMAIN runs[t]
             /\ \A n \in DOMAIN runs[t] : runs'[t][n].status = runs[t][n].status
  <2>1. runs'[t] = [n \in 1 .. Len(runs[t]) |->
                      IF runs[t][n].owner = d THEN [runs[t][n] EXCEPT !.owner = Ghost]
                      ELSE runs[t][n]]
    BY <1>1, RunsTyped
  <2>2. \A n \in 1 .. Len(runs[t]) : runs'[t][n] \in RunRow /\ runs'[t][n].status = runs[t][n].status
    <3> TAKE n \in 1 .. Len(runs[t])
    <3>1. runs[t][n] \in RunRow
      BY RunsTyped
    <3>2. [runs[t][n] EXCEPT !.owner = Ghost] \in RunRow
          /\ [runs[t][n] EXCEPT !.owner = Ghost].status = runs[t][n].status
      BY <3>1 DEF RunRow, Owners
    <3>3. runs'[t][n] = IF runs[t][n].owner = d THEN [runs[t][n] EXCEPT !.owner = Ghost] ELSE runs[t][n]
      BY <2>1
    <3> QED
      BY <3>1, <3>2, <3>3
  <2>3. runs'[t] \in [1 .. Len(runs[t]) -> RunRow]
    BY <2>1, <2>2
  <2>4. runs'[t] \in Seq(RunRow) /\ Len(runs'[t]) = Len(runs[t])
    BY <2>3, RunsTyped
  <2> QED
    BY <2>2, <2>3, <2>4, RunsTyped
<1>3. RunsGrow
  BY <1>1, <1>2 DEF RunsGrow
<1>4. KernelTypeOK' /\ Locals' /\ Granted'
  <2>1. NoRun \in [task : Tasks \cup {None}, run : Nat]
        /\ NoMemo \in [to : TaskStatus \cup {"DENIED"}, run : Nat, attempts : Nat]
    BY DEF NoRun, NoMemo, TaskStatus
  <2>2. owner' \in [Tasks -> Owners]
    BY <1>1 DEF KernelTypeOK, Owners
  <2>3. KernelTypeOK'
    BY <1>1, <1>3, <2>2 DEF KernelTypeOK, RunsGrow, RunRow
  <2>4. Locals'
    BY <1>1, <2>1 DEF Locals
  <2> QED
    BY <1>1, <2>3, <2>4 DEF Granted
<1>5. Placed(d)'
  <2>1. pc'[d] = "idle"
    BY <1>1 DEF KernelTypeOK
  <2> QED
    BY <2>1 DEF Placed, Busy, Working
<1> QED
  BY <1>1, <1>2, <1>3, <1>4, <1>5, ColumnStays, DispatcherStep DEF KernelTypeOK, Locals

LEMMA LeaseKeeps == ASSUME KernelInv, LeaseStep PROVE KernelInv' /\ RunsGrow
<1> USE DEF KernelInv
<1>1. /\ UNCHANGED <<status, cancelReq, owner, attempts, grant, entered, pc, todo, cur, memo,
                     rq, rqSeen>>
      /\ lease' \in [Tasks -> {"none", "live", "expired"}]
  BY DEF LeaseStep, TaskLeaseExpires, RunLeaseExpires, taskVars, worldVars, requestVars, KernelTypeOK
<1>2. RunsGrow /\ \A u \in Tasks : Len(runs'[u]) = Len(runs[u])
  <2>1. CASE UNCHANGED runs
    BY <2>1, RunsStay
  <2>2. ASSUME NEW t \in Tasks, NEW n \in DOMAIN runs[t], RunLeaseExpires(t, n)
        PROVE  RunsGrow /\ \A u \in Tasks : Len(runs'[u]) = Len(runs[u])
    <3> DEFINE row == [runs[t][n] EXCEPT !.live = FALSE]
    <3>1. row \in RunRow /\ row.status = runs[t][n].status
      BY RunsTyped DEF RunRow
    <3>2. runs' = [runs EXCEPT ![t] = [runs[t] EXCEPT ![n] = row]]
      BY <2>2, RunsTyped DEF RunLeaseExpires
    <3> QED
      BY <3>1, <3>2, WriteRow
  <2> QED
    BY <2>1, <2>2 DEF LeaseStep, TaskLeaseExpires
<1>3. KernelTypeOK' /\ Locals' /\ Granted'
  BY <1>1, <1>2 DEF KernelTypeOK, RunsGrow, RunRow, Locals, Granted
<1>4. Admitted' /\ SucceededHasRun'
  BY <1>1, <1>2, ColumnStays, DoneKept DEF Admitted
<1>5. \A d \in Dispatchers : Placed(d)'
  BY <1>1, <1>2, OthersPlaced
<1> QED
  BY <1>2, <1>3, <1>4, <1>5

LEMMA KernelKeeps ==
  ASSUME KernelInv, [KernelNext]_kernelVars PROVE KernelInv' /\ RunsGrow
<1>1. ASSUME NEW d \in Dispatchers,
             ReconcileStep(d) \/ EndReconcile(d) \/ DispatchStep(d) \/ RenewLeases(d) \/ Crash(d)
      PROVE  KernelInv' /\ RunsGrow
  <2>1. CASE ReconcileStep(d)
    BY <2>1, RestKeeps, OrphanWriteKeeps, OrphanReadKeeps, ReclaimKeeps DEF ReconcileStep
  <2>2. CASE DispatchStep(d)
    BY <2>2, RestKeeps, ClaimKeeps, BeforeRunKeeps, CancelClaimedKeeps, InsertKeeps, HandlerKeeps,
       FinalizeKeeps DEF DispatchStep, ClaimStep
  <2> QED
    BY <1>1, <2>1, <2>2, RestKeeps, RenewKeeps, ForgetsKeeps DEF Crash
<1>2. ASSUME NEW r \in Requests, CancelStep(r) PROVE KernelInv' /\ RunsGrow
  BY <1>2, CancelReadKeeps, CancelWriteKeeps DEF CancelStep
<1> QED
  BY <1>1, <1>2, CreateKeeps, LeaseKeeps, KernelStutters DEF KernelNext

-----------------------------------------------------------------------------
(***************************************************************************)
(* Theorems.                                                               *)
(***************************************************************************)

\* The inductive invariant of the kernel.
THEOREM KernelInvariant == KernelSpec => []KernelInv
  BY KernelStart, KernelKeeps, PTL DEF KernelSpec

\* The rows of the kernel and its dispatchers' places have the values of their
\* columns (the models of kernel_tasks, kernel_runs).
THEOREM KernelTypeCorrect == KernelSpec => []KernelTypeOK
<1>1. KernelInv => KernelTypeOK
  BY DEF KernelInv
<1> QED
  BY <1>1, KernelInvariant, PTL

\* A task that SUCCEEDED has a run that did, however many dispatchers reclaim,
\* recover, finalise and cancel it (reconcile, finalize_and_complete).
THEOREM SucceededHasRunHolds == KernelSpec => []SucceededHasRun
<1>1. KernelInv => SucceededHasRun
  BY DEF KernelInv
<1> QED
  BY <1>1, KernelInvariant, PTL

\* A task is executed only after a run of each of its parents has succeeded
\* (_reevaluate_children, create_task).
THEOREM DependentsWaitHolds == KernelSpec => []DependentsWait
<1>1. KernelInv => DependentsWait
  BY DEF KernelInv, Admitted, ParentsDone, DependentsWait
<1> QED
  BY <1>1, KernelInvariant, PTL

\* A one-shot grant lets its handler be entered once (_validate_approval_grant).
THEOREM OneEntryPerGrantHolds == KernelSpec => []OneEntryPerGrant
<1>1. KernelInv => OneEntryPerGrant
  BY DEF KernelInv, Granted, OneEntryPerGrant
<1> QED
  BY <1>1, KernelInvariant, PTL

\* A run that ended is never written again, whoever still holds a copy of its
\* row (finalize_and_complete, find_expired_runs).
THEOREM RunRowsAreFinalHolds == KernelSpec => RunRowsAreFinal
<1>1. KernelInv /\ [KernelNext]_kernelVars =>
         [\A t \in Tasks : \A n \in DOMAIN runs[t] :
            runs[t][n].status # "RUNNING" => runs'[t][n].status = runs[t][n].status]_kernelVars
  BY KernelKeeps DEF RunsGrow
<1> QED
  BY <1>1, KernelInvariant, PTL DEF KernelSpec, RunRowsAreFinal
=============================================================================
