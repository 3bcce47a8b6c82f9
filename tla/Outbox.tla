------------------------------- MODULE Outbox -------------------------------
(***************************************************************************)
(* The delivery outbox: the messages of one task in delivery_outbox and    *)
(* delivery_receipts, the delivery service's workers (claim, dispatch,     *)
(* backoff, receipt) and the Telegram adapter with its one editable        *)
(* progress message.  The provider's chat is external.                     *)
(*                                                                         *)
(* An action is one commit, one read, or one call of the provider.  A      *)
(* dispatch writes its row by primary key and compares nothing: lease and  *)
(* owner are looked at by claim alone.                                     *)
(***************************************************************************)
EXTENDS Integers, FiniteSets

CONSTANTS
    Workers,      \* processes of the delivery service
    NRows,        \* outbox rows of the task, numbered by created_at
    Kind,         \* event_type of a row: "transition" or "result"
    Text,         \* the text a row renders to
    MaxAttempts,  \* settings.delivery_max_attempts
    Simulated,    \* rows whose channel only simulates: every row under
                  \* delivery_mock, those of the fake channel otherwise
    Wiring,       \* "router": as delivery_worker.main builds the worker;
                  \* "adapter": a worker that holds its adapter itself
    Faults,       \* the faults that may happen, a subset of FaultKinds
    MaxFaults,    \* bound: kills, stops, stalls and deletions in a behaviour
    NoText        \* the adapter shows nothing it knows of

FaultKinds ==
    {"kill",       \* kill -9 between two steps of a dispatch
     "stop",       \* SIGTERM: the loop ends between two dispatches
     "stall",      \* a lease runs out under a live worker
     "refuse",     \* the provider refuses, or cannot be reached
     "timeout",    \* the provider accepts, its answer does not arrive
     "permanent",  \* unknown channel or missing configuration
     "delete"}     \* somebody deletes the progress message in the chat

Rows == 1..NRows
Texts == {Text[r] : r \in Rows}

ASSUME RowsAssumption == NRows \in Nat
ASSUME KindAssumption == Kind \in [Rows -> {"transition", "result"}]
ASSUME TextAssumption == Text \in [Rows -> Texts] /\ NoText \notin Texts
ASSUME LimitAssumption == MaxAttempts \in Nat \ {0} /\ MaxFaults \in Nat
ASSUME ModeAssumption ==
    /\ Wiring \in {"router", "adapter"}
    /\ Simulated \subseteq Rows
    /\ Wiring = "adapter" => Simulated \in {{}, Rows}
ASSUME OutboxFaultsAssumption == Faults \subseteq FaultKinds

VARIABLES
    \* delivery_outbox: status, lease, attempts, whether available_at has
    \* passed, and whether delivered_at is set
    status, lease, attempts, ready, marker,
    \* delivery_receipts: absent, or transmitted flag, message id (0: NULL)
    \* and position in the order of delivered_at
    receipt,
    \* the chat: accepted calls per row, live progress messages, ids given
    sent, live, given,
    \* workers: program point, row, loaded row, outcome of the dispatch
    pc, cur, item, out,
    \* the adapter of a worker's process: _progress_message_ids and
    \* _progress_texts of the task (0 and NoText: no entry)
    bubble, shown,
    \* history: accepted calls whose answer was lost; faults so far, and
    \* whether a lease has run out under a live worker
    lost, faults

rowVars == <<status, lease, attempts, ready, marker>>
chatVars == <<sent, live, given>>
adapterVars == <<bubble, shown>>
workerVars == <<pc, cur, item, out>>
vars == <<rowVars, receipt, chatVars, workerVars, adapterVars, lost, faults>>

Status == {"absent", "PENDING", "SENDING", "DELIVERED", "SIMULATED", "FAILED"}
Final == {"DELIVERED", "SIMULATED", "FAILED"}
NoReceipt == [exists |-> FALSE, transmitted |-> FALSE, msg |-> 0, at |-> 0]
Receipt == [exists : BOOLEAN, transmitted : BOOLEAN, msg : Nat, at : Nat]
NoItem == [attempts |-> 0, marker |-> FALSE]
NoOutcome == [transmitted |-> FALSE, msg |-> 0]
WorkerPC == {"dead", "idle", "claim", "load", "check", "send", "mark", "receipt",
             "retry", "giveup"}

Init ==
    /\ status = [r \in Rows |-> "absent"]
    /\ lease = [r \in Rows |-> "none"]
    /\ attempts = [r \in Rows |-> 0]
    /\ ready = [r \in Rows |-> TRUE]
    /\ marker = [r \in Rows |-> FALSE]
    /\ receipt = [r \in Rows |-> NoReceipt]
    /\ sent = [r \in Rows |-> 0]
    /\ live = {}
    /\ given = 0
    /\ pc = [w \in Workers |-> "idle"]
    /\ cur = [w \in Workers |-> 0]
    /\ item = [w \in Workers |-> NoItem]
    /\ out = [w \in Workers |-> NoOutcome]
    /\ bubble = [w \in Workers |-> 0]
    /\ shown = [w \in Workers |-> NoText]
    /\ lost = [r \in Rows |-> 0]
    /\ faults = [count |-> 0, stalled |-> FALSE]

Goto(w, label) == pc' = [pc EXCEPT ![w] = label]

-----------------------------------------------------------------------------
(***************************************************************************)
(* Producers: a transition's or a result's row is committed, in order.     *)
(***************************************************************************)
Enqueue(r) ==
    /\ status[r] = "absent"
    /\ \A q \in Rows : q < r => status[q] # "absent"
    /\ status' = [status EXCEPT ![r] = "PENDING"]
    /\ UNCHANGED <<lease, attempts, ready, marker, receipt, chatVars, workerVars,
                   adapterVars, lost, faults>>

(***************************************************************************)
(* DeliveryWorker.claim: SELECT the oldest candidate, then UPDATE it.      *)
(***************************************************************************)

\* Mutant: rows of a worker that died are not looked at.
CandidatePending(r) == ready[r] /\ status[r] = "PENDING"

Candidate(r) ==
    /\ ready[r]
    /\ \/ status[r] = "PENDING"
       \/ status[r] = "SENDING" /\ lease[r] = "expired"

Select(w, r) ==
    /\ pc[w] = "idle"
    /\ Candidate(r)
    /\ \A q \in Rows : q < r => ~Candidate(q)
    /\ cur' = [cur EXCEPT ![w] = r]
    /\ Goto(w, "claim")
    /\ UNCHANGED <<rowVars, receipt, chatVars, item, out, adapterVars, lost, faults>>

\* Mutant: the UPDATE trusts the SELECT.
ClaimableAlways(r) == status[r] \in Status

\* The WHERE of the UPDATE: available_at is not compared again.
Claimable(r) == status[r] = "PENDING" \/ lease[r] = "expired"

ClaimUpdate(w) ==
    LET r == cur[w] IN
    /\ pc[w] = "claim"
    /\ \/ /\ Claimable(r)
          /\ status' = [status EXCEPT ![r] = "SENDING"]
          /\ lease' = [lease EXCEPT ![r] = "live"]
          /\ attempts' = [attempts EXCEPT ![r] = @ + 1]
          /\ Goto(w, "load")
       \/ /\ ~Claimable(r)
          /\ Goto(w, "idle")
          /\ UNCHANGED <<status, lease, attempts>>
    /\ UNCHANGED <<ready, marker, receipt, chatVars, cur, item, out, adapterVars,
                   lost, faults>>

\* session.get after the claim's commit.
Load(w) ==
    /\ pc[w] = "load"
    /\ item' = [item EXCEPT ![w] = [attempts |-> attempts[cur[w]],
                                    marker |-> marker[cur[w]]]]
    /\ Goto(w, "check")
    /\ UNCHANGED <<rowVars, receipt, chatVars, cur, out, adapterVars, lost, faults>>

(***************************************************************************)
(* dispatch_one: receipt and marker of an earlier attempt.                 *)
(***************************************************************************)
Settle(r, s) ==
    /\ status' = [status EXCEPT ![r] = s]
    /\ lease' = [lease EXCEPT ![r] = "none"]

\* A receipt exists: the row takes its status, nothing is sent.
FoundReceipt(w) ==
    LET r == cur[w] IN
    /\ pc[w] = "check"
    /\ receipt[r].exists
    /\ Settle(r, IF receipt[r].transmitted THEN "DELIVERED" ELSE "SIMULATED")
    /\ marker' = [marker EXCEPT ![r] = receipt[r].transmitted \/ (@ /\ ~item[w].marker)]
    /\ Goto(w, "idle")
    /\ UNCHANGED <<attempts, ready, receipt, chatVars, cur, item, out, adapterVars,
                   lost, faults>>

\* delivered_at of the loaded row is set.
HonoursMarker(w) == item[w].marker

\* No receipt, but the marker: the missing receipt is written, without id.
FoundMarker(w) ==
    /\ pc[w] = "check"
    /\ ~receipt[cur[w]].exists
    /\ HonoursMarker(w)
    /\ out' = [out EXCEPT ![w] = [transmitted |-> TRUE, msg |-> 0]]
    /\ Goto(w, "receipt")
    /\ UNCHANGED <<rowVars, receipt, chatVars, cur, item, adapterVars, lost, faults>>

\* Receipts of transitions that name a message, and the latest of them.
Named == {q \in Rows : receipt[q].msg # 0 /\ Kind[q] = "transition"}
IsLatest(q) == q \in Named /\ \A p \in Named : receipt[p].at <= receipt[q].at

\* Neither: the event goes to the adapter.  A worker that holds its adapter
\* first restores the progress message from the latest receipt.
Dispatch(w) ==
    LET r == cur[w]
        restores == Kind[r] = "transition" /\ Wiring = "adapter" /\ Named # {} IN
    /\ pc[w] = "check"
    /\ ~receipt[r].exists
    /\ ~HonoursMarker(w)
    /\ \/ /\ restores
          /\ \E q \in Rows : /\ IsLatest(q)
                             /\ bubble' = [bubble EXCEPT ![w] = receipt[q].msg]
       \/ ~restores /\ UNCHANGED bubble
    /\ Goto(w, "send")
    /\ UNCHANGED <<rowVars, receipt, chatVars, cur, item, out, shown, lost, faults>>

-----------------------------------------------------------------------------
(***************************************************************************)
(* TelegramAdapter.deliver_outcome and the provider.                       *)
(***************************************************************************)
Edits(w) == Kind[cur[w]] = "transition" /\ bubble[w] # 0

ShowsAlready(w) == Edits(w) /\ shown[w] = Text[cur[w]]

\* delivery_mock or the fake channel: nothing leaves the process.
Simulate(w) ==
    /\ pc[w] = "send" /\ cur[w] \in Simulated
    /\ out' = [out EXCEPT ![w] = NoOutcome]
    /\ Goto(w, "receipt")
    /\ UNCHANGED <<rowVars, receipt, chatVars, cur, item, adapterVars, lost, faults>>

\* The progress message shows this text already.
SkipSame(w) ==
    /\ pc[w] = "send" /\ cur[w] \notin Simulated /\ ShowsAlready(w)
    /\ out' = [out EXCEPT ![w] = [transmitted |-> TRUE, msg |-> bubble[w]]]
    /\ Goto(w, "mark")
    /\ UNCHANGED <<rowVars, receipt, chatVars, cur, item, adapterVars, lost, faults>>

\* The provider accepts a new message: it exists, whether or not we learn it.
Accept(w) ==
    /\ given' = given + 1
    /\ sent' = [sent EXCEPT ![cur[w]] = @ + 1]
    /\ live' = IF Kind[cur[w]] = "transition" THEN live \cup {given + 1} ELSE live

\* A result ends the progress message before it is sent - of the adapter that
\* sends it: the router caches one adapter per channel name, and results have
\* a channel of their own.
Close(w) ==
    IF Kind[cur[w]] = "result" /\ Wiring = "adapter"
      THEN /\ bubble' = [bubble EXCEPT ![w] = 0]
           /\ shown' = [shown EXCEPT ![w] = NoText]
      ELSE UNCHANGED adapterVars

\* sendMessage: a result, or the first progress message this adapter knows of.
Send(w) ==
    /\ pc[w] = "send" /\ cur[w] \notin Simulated /\ ~Edits(w)
    /\ Accept(w)
    /\ out' = [out EXCEPT ![w] = [transmitted |-> TRUE, msg |-> given + 1]]
    /\ IF Kind[cur[w]] = "transition"
         THEN /\ bubble' = [bubble EXCEPT ![w] = given + 1]
              /\ shown' = [shown EXCEPT ![w] = Text[cur[w]]]
         ELSE Close(w)
    /\ Goto(w, "mark")
    /\ UNCHANGED <<rowVars, receipt, cur, item, lost, faults>>

\* editMessageText of the live progress message.
Edit(w) ==
    /\ pc[w] = "send" /\ cur[w] \notin Simulated /\ Edits(w) /\ ~ShowsAlready(w)
    /\ bubble[w] \in live
    /\ sent' = [sent EXCEPT ![cur[w]] = @ + 1]
    /\ out' = [out EXCEPT ![w] = [transmitted |-> TRUE, msg |-> bubble[w]]]
    /\ shown' = [shown EXCEPT ![w] = Text[cur[w]]]
    /\ Goto(w, "mark")
    /\ UNCHANGED <<rowVars, receipt, live, given, cur, item, bubble, lost, faults>>

\* The message is gone: forget it and call _deliver_progress again.
EditRejected(w) ==
    /\ pc[w] = "send" /\ cur[w] \notin Simulated /\ Edits(w) /\ ~ShowsAlready(w)
    /\ bubble[w] \notin live
    /\ bubble' = [bubble EXCEPT ![w] = 0]
    /\ shown' = [shown EXCEPT ![w] = NoText]
    /\ UNCHANGED <<rowVars, receipt, chatVars, workerVars, lost, faults>>

\* The call raises before anything was accepted.
Refused(w) ==
    /\ pc[w] = "send" /\ cur[w] \notin Simulated /\ ~ShowsAlready(w)
    /\ "refuse" \in Faults
    /\ Close(w)
    /\ Goto(w, "retry")
    /\ UNCHANGED <<rowVars, receipt, chatVars, cur, item, out, lost, faults>>

\* The call raises after the provider accepted it.
TimesOut(w) ==
    /\ pc[w] = "send" /\ cur[w] \notin Simulated /\ ~ShowsAlready(w)
    /\ "timeout" \in Faults
    /\ \/ ~Edits(w) /\ Accept(w)
       \/ /\ Edits(w) /\ bubble[w] \in live
          /\ sent' = [sent EXCEPT ![cur[w]] = @ + 1]
          /\ UNCHANGED <<live, given>>
    /\ lost' = [lost EXCEPT ![cur[w]] = @ + 1]
    /\ Close(w)
    /\ Goto(w, "retry")
    /\ UNCHANGED <<rowVars, receipt, cur, item, out, faults>>

\* DeliveryPermanentError: unknown channel, or credentials missing.
Misconfigured(w) ==
    /\ pc[w] = "send"
    /\ "permanent" \in Faults
    /\ Goto(w, "giveup")
    /\ UNCHANGED <<rowVars, receipt, chatVars, cur, item, out, adapterVars, lost, faults>>

-----------------------------------------------------------------------------
(***************************************************************************)
(* dispatch_one after the adapter.                                         *)
(***************************************************************************)

Terminal(w) == pc[w] = "giveup" \/ item[w].attempts >= MaxAttempts

\* The except branch: FAILED for good, or PENDING after a backoff.
Fail(w) ==
    LET r == cur[w] IN
    /\ pc[w] \in {"retry", "giveup"}
    /\ Settle(r, IF Terminal(w) THEN "FAILED" ELSE "PENDING")
    /\ ready' = [ready EXCEPT ![r] = @ /\ Terminal(w)]
    /\ Goto(w, "idle")
    /\ UNCHANGED <<attempts, marker, receipt, chatVars, cur, item, out, adapterVars,
                   lost, faults>>

\* Mutant: the send-confirmed marker is left to the receipt's commit.
MarkLater(r) == marker[r]

\* delivered_at is committed before the receipt.
MarkNow(r) == TRUE

CommitMarker(w) ==
    /\ pc[w] = "mark"
    /\ marker' = [marker EXCEPT ![cur[w]] = MarkNow(cur[w])]
    /\ Goto(w, "receipt")
    /\ UNCHANGED <<status, lease, attempts, ready, receipt, chatVars, cur, item, out,
                   adapterVars, lost, faults>>

\* Mutant: the read-back level lands in the status column.
OutcomeLevel(w) == IF out[w].transmitted THEN "SEND_ACK" ELSE "UNSUPPORTED"

\* Mutant: a simulated dispatch counts as delivered.
OutcomeDelivered(w) == "DELIVERED"

OutcomeStatus(w) == IF out[w].transmitted THEN "DELIVERED" ELSE "SIMULATED"

\* INSERT of the receipt and the row's final status in one commit.  The key
\* is the table's primary key: a second INSERT raises, nothing catches it,
\* and the process ends.
CommitReceipt(w) ==
    LET r == cur[w] IN
    /\ pc[w] = "receipt"
    /\ \/ /\ ~receipt[r].exists
          /\ receipt' = [receipt EXCEPT ![r] =
                [exists |-> TRUE, transmitted |-> out[w].transmitted, msg |-> out[w].msg,
                 at |-> Cardinality({q \in Rows : receipt[q].exists}) + 1]]
          /\ Settle(r, OutcomeStatus(w))
          /\ Goto(w, "idle")
       \/ /\ receipt[r].exists
          /\ Goto(w, "dead")
          /\ UNCHANGED <<receipt, status, lease>>
    /\ UNCHANGED <<attempts, ready, marker, chatVars, cur, item, out, adapterVars,
                   lost, faults>>

-----------------------------------------------------------------------------
(***************************************************************************)
(* Processes and time.                                                     *)
(***************************************************************************)
CountFault(kind) ==
    /\ kind \in Faults
    /\ faults.count < MaxFaults
    /\ faults' = [count |-> faults.count + 1, stalled |-> faults.stalled \/ kind = "stall"]

\* kill -9.  A call whose answer was not yet made durable is lost with it.
Kill(w) ==
    /\ pc[w] \notin {"dead", "idle"}
    /\ CountFault("kill")
    /\ Goto(w, "dead")
    /\ lost' = [lost EXCEPT ![cur[w]] = @ + (IF pc[w] = "mark" /\ sent[cur[w]] > 0 THEN 1 ELSE 0)]
    /\ UNCHANGED <<rowVars, receipt, chatVars, cur, item, out, adapterVars>>

\* SIGTERM: main leaves its loop after the dispatch.
Stop(w) ==
    /\ pc[w] = "idle"
    /\ CountFault("stop")
    /\ Goto(w, "dead")
    /\ UNCHANGED <<rowVars, receipt, chatVars, cur, item, out, adapterVars, lost>>

\* The service manager starts a new process: a new router, new adapters.
Restart(w) ==
    /\ pc[w] = "dead"
    /\ Goto(w, "idle")
    /\ bubble' = [bubble EXCEPT ![w] = 0]
    /\ shown' = [shown EXCEPT ![w] = NoText]
    /\ UNCHANGED <<rowVars, receipt, chatVars, cur, item, out, lost, faults>>

Serves(w, r) == cur[w] = r /\ pc[w] \notin {"dead", "idle", "claim"}

\* A lease outlives a dispatch unless its worker died, or stalls.
LeaseExpires(r) ==
    /\ lease[r] = "live"
    /\ \A w \in Workers : ~Serves(w, r)
    /\ lease' = [lease EXCEPT ![r] = "expired"]
    /\ UNCHANGED <<status, attempts, ready, marker, receipt, chatVars, workerVars,
                   adapterVars, lost, faults>>

LeaseLapses(r) ==
    /\ lease[r] = "live"
    /\ \E w \in Workers : Serves(w, r)
    /\ CountFault("stall")
    /\ lease' = [lease EXCEPT ![r] = "expired"]
    /\ UNCHANGED <<status, attempts, ready, marker, receipt, chatVars, workerVars,
                   adapterVars, lost>>

BackoffElapses(r) ==
    /\ ~ready[r]
    /\ ready' = [ready EXCEPT ![r] = TRUE]
    /\ UNCHANGED <<status, lease, attempts, marker, receipt, chatVars, workerVars,
                   adapterVars, lost, faults>>

ChatDeletes ==
    /\ \E m \in live : live' = live \ {m}
    /\ CountFault("delete")
    /\ UNCHANGED <<rowVars, receipt, sent, given, workerVars, adapterVars, lost>>

WorkerStep(w) ==
    \/ \E r \in Rows : Select(w, r)
    \/ ClaimUpdate(w) \/ Load(w)
    \/ FoundReceipt(w) \/ FoundMarker(w) \/ Dispatch(w)
    \/ Simulate(w) \/ SkipSame(w) \/ Send(w) \/ Edit(w) \/ EditRejected(w)
    \/ Refused(w) \/ TimesOut(w) \/ Misconfigured(w)
    \/ Fail(w) \/ CommitMarker(w) \/ CommitReceipt(w)

Next ==
    \/ \E r \in Rows : Enqueue(r) \/ LeaseExpires(r) \/ LeaseLapses(r) \/ BackoffElapses(r)
    \/ \E w \in Workers : WorkerStep(w) \/ Kill(w) \/ Stop(w) \/ Restart(w)
    \/ ChatDeletes

Spec == Init /\ [][Next]_vars

\* A running worker goes on, a dead one is started again, time passes.
Fairness ==
    /\ \A w \in Workers : WF_vars(WorkerStep(w)) /\ WF_vars(Restart(w))
    /\ \A r \in Rows : WF_vars(LeaseExpires(r)) /\ WF_vars(BackoffElapses(r))

FairSpec == Spec /\ Fairness

-----------------------------------------------------------------------------
(***************************************************************************)
(* Properties.                                                             *)
(***************************************************************************)
RowsTyped ==
    /\ status \in [Rows -> Status]
    /\ lease \in [Rows -> {"none", "live", "expired"}]
    /\ attempts \in [Rows -> Nat]
    /\ ready \in [Rows -> BOOLEAN]
    /\ marker \in [Rows -> BOOLEAN]

ReceiptsTyped == receipt \in [Rows -> Receipt]

ChatTyped ==
    /\ sent \in [Rows -> Nat]
    /\ live \subseteq Nat /\ given \in Nat
    /\ lost \in [Rows -> Nat] /\ faults \in [count : Nat, stalled : BOOLEAN]

WorkersTyped ==
    /\ pc \in [Workers -> WorkerPC]
    /\ cur \in [Workers -> Rows \cup {0}]
    /\ item \in [Workers -> [attempts : Nat, marker : BOOLEAN]]
    /\ out \in [Workers -> [transmitted : BOOLEAN, msg : Nat]]

AdaptersTyped ==
    /\ bubble \in [Workers -> Nat]
    /\ shown \in [Workers -> Texts \cup {NoText}]

\* Rows, receipts, the chat, the workers and their adapters hold values of
\* their columns and attributes.
TypeOK == RowsTyped /\ ReceiptsTyped /\ ChatTyped /\ WorkersTyped /\ AdaptersTyped

\* The chat has accepted the text of row r.
Said(r) == \E q \in Rows : Text[q] = Text[r] /\ sent[q] > 0

\* No false DELIVERED (dispatch_one): whatever claims that a row was
\* transmitted - its status, its delivered_at, its receipt - the chat has
\* accepted its text, through kills, zombies, shortcuts and recovery.
DeliveredWasSaid ==
    \A r \in Rows :
        (status[r] = "DELIVERED" \/ marker[r] \/ receipt[r].transmitted) => Said(r)

\* While leases cover dispatches, a row that has a receipt can only end the
\* way the receipt tells it: in particular FAILED means that no attempt of
\* the row was ever confirmed.
StatusAgreesWithReceipt ==
    ~faults.stalled =>
        \A r \in Rows :
            /\ receipt[r].exists /\ status[r] \in Final =>
                   status[r] = IF receipt[r].transmitted THEN "DELIVERED" ELSE "SIMULATED"
            /\ status[r] \in {"DELIVERED", "SIMULATED"} => receipt[r].exists

\* While leases cover dispatches, a row is transmitted again only when the
\* answer to an earlier transmission was lost before it was durable: the
\* marker and the receipt together close every other window.
ResentOnlyIfLost == ~faults.stalled => \A r \in Rows : sent[r] <= 1 + lost[r]

\* Every row a producer wrote ends, whatever killed or delayed its workers.
EveryRowEnds == \A r \in Rows : (status[r] # "absent") ~> (status[r] \in Final)
=============================================================================
