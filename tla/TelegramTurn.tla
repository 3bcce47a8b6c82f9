---------------------------- MODULE TelegramTurn ----------------------------
(***************************************************************************)
(* A Telegram message on its way to the dialogue core: TelegramBridge with *)
(* its per-chat queues, TurnLedger, which survives the bot, and the        *)
(* gateway's executions (ToolLedger).  Telegram, which delivers a message  *)
(* once or more often, and the HTTP client are external.                   *)
(*                                                                         *)
(* The bot has one event loop: an action is a section under the bridge's   *)
(* lock, one transaction of the ledger, or one end of the HTTP call.       *)
(***************************************************************************)
EXTENDS ToolLedger, Sequences

CONSTANTS
    ChatOf,         \* the chat of a message
    NDrains,        \* bound: _drain tasks alive at a time
    MaxQueue,       \* max_queue_per_session
    MaxSessions,    \* max_sessions
    MaxDeliveries,  \* bound: deliveries of a message
    MaxStarts,      \* bound: processes of the bot
    Faults,         \* the faults that may happen
    MaxFaults       \* bound: how many happen

TurnFaults ==
    {"kill",     \* kill -9 of the bot
     "close",    \* an orderly stop of the bot
     "gateway",  \* kill -9 of the gateway
     "refuse",   \* the gateway cannot be reached
     "disk",     \* the settling write of the turn ledger fails
     "cancel",   \* /stop in the chat
     "spoil"}    \* a file a call wrote is removed, changed or made unreadable

Chats == {ChatOf[m] : m \in Turns}
Drains == 1..NDrains

ASSUME ChatAssumption == DOMAIN ChatOf = Turns /\ None \notin Chats
ASSUME CapacityAssumption == MaxQueue \in Nat \ {0} /\ MaxSessions \in Nat \ {0}
ASSUME TurnBoundsAssumption ==
    NDrains \in Nat /\ MaxDeliveries \in [Turns -> Nat] /\ MaxStarts \in Nat /\ MaxFaults \in Nat
ASSUME TurnFaultsAssumption == Faults \subseteq TurnFaults

VARIABLES
    \* telegram_turns: state and owner_token; chats with unfinished rows of
    \* earlier processes in telegram_queue
    row, owner, stale,
    \* the bot: up, closing or down; its owner_token; startup recovery is over
    bot, me, recovered,
    \* _sessions: the chats that have one, their pending deques and workers
    session, pending, worker,
    \* _inflight, and the turn() callers that wait for its future
    inflight, waiting,
    \* requests cancel_chat took out of the queue and has not yet finished
    dropped,
    \* _drain tasks: the place, the chat, the request, the HTTP call
    dpc, dchat, dreq, dexec,
    \* history: deliveries of a message, faults
    given, faults

rowVars == <<row, owner, stale>>
botVars == <<bot, me, recovered>>
queueVars == <<session, pending, worker>>
futureVars == <<inflight, waiting, dropped>>
drainVars == <<dpc, dchat, dreq, dexec>>
vars == <<ledgerVars, rowVars, botVars, queueVars, futureVars, drainVars, given, faults>>

NoQueues == [c \in Chats |-> <<>>]
NoWorkers == [c \in Chats |-> 0]
NoDrains(f) == [d \in Drains |-> f]

Init ==
    /\ LedgerInit
    /\ row = [m \in Turns |-> "none"] /\ owner = [m \in Turns |-> 0] /\ stale = {}
    /\ bot = "up" /\ me = 1 /\ recovered = TRUE
    /\ session = {} /\ pending = NoQueues /\ worker = NoWorkers
    /\ inflight = {} /\ waiting = [m \in Turns |-> 0] /\ dropped = [m \in Turns |-> "no"]
    /\ dpc = NoDrains("free") /\ dchat = NoDrains(None)
    /\ dreq = NoDrains(None) /\ dexec = NoDrains(0)
    /\ given = [m \in Turns |-> 0] /\ faults = 0

DGoto(d, label) == dpc' = [dpc EXCEPT ![d] = label]

CountFault(kind) ==
    /\ kind \in Faults
    /\ faults < MaxFaults
    /\ faults' = faults + 1

-----------------------------------------------------------------------------
(***************************************************************************)
(* TelegramBridge.turn                                                     *)
(***************************************************************************)

\* _reserve_session: the budget of sessions, and the depth of a queue.
HasRoom(c) ==
    IF c \in session THEN Len(pending[c]) < MaxQueue
                     ELSE Cardinality(session) < MaxSessions

Alive(d) == d # 0 /\ dpc[d] # "free"

\* create_task(_drain) for each of these chats that has no worker that lives
\* (the model takes the first free places for the tasks).
EnsureWorkers(cs) ==
    LET idle == {c \in cs : ~Alive(worker[c])}
        free == {d \in Drains : dpc[d] = "free"}
    IN  \E new \in [idle -> free] :
            LET IsNew(d) == \E c \in idle : new[c] = d IN
            /\ \A c, e \in idle : new[c] = new[e] => c = e
            /\ \A d, e \in free : IsNew(d) /\ e < d => IsNew(e)
            /\ worker' = [c \in Chats |-> IF c \in idle THEN new[c] ELSE worker[c]]
            /\ dpc' = [d \in Drains |-> IF IsNew(d) THEN "pop" ELSE dpc[d]]
            /\ dchat' = [d \in Drains |->
                            IF IsNew(d) THEN CHOOSE c \in idle : new[c] = d ELSE dchat[d]]

\* TurnLedger.claim grants the turn: it is new, or it failed.
Claimable(m) == row[m] \in {"none", "FAILED"}

Deliver(m) ==
    /\ bot = "up" /\ given[m] < MaxDeliveries[m]
    /\ given' = [given EXCEPT ![m] = @ + 1]
    /\ UNCHANGED <<ledgerVars, botVars, stale, dropped, dreq, dexec, faults>>

\* A message that is already in flight: its caller joins the future.
Join(m) ==
    /\ m \in inflight
    /\ Deliver(m)
    /\ waiting' = [waiting EXCEPT ![m] = @ + 1]
    /\ UNCHANGED <<row, owner, queueVars, inflight, dpc, dchat>>

\* REPLAY of a COMPLETED row, AmbiguousTurn for one in flight elsewhere or in
\* the past: the caller has its answer, and nothing is submitted.
AnswerAtOnce(m) ==
    /\ m \notin inflight /\ ~Claimable(m)
    /\ Deliver(m)
    /\ UNCHANGED <<row, owner, queueVars, inflight, waiting, dpc, dchat>>

\* BridgeOverflow: claimed and failed again in the section of the lock.
Overflow(m) ==
    /\ m \notin inflight /\ Claimable(m) /\ ~HasRoom(ChatOf[m])
    /\ Deliver(m)
    /\ row' = [row EXCEPT ![m] = "FAILED"]
    /\ owner' = [owner EXCEPT ![m] = me]
    /\ UNCHANGED <<queueVars, inflight, waiting, dpc, dchat>>

Accept(m) ==
    LET c == ChatOf[m] IN
    /\ m \notin inflight /\ Claimable(m) /\ HasRoom(c)
    /\ Deliver(m)
    /\ row' = [row EXCEPT ![m] = "IN_FLIGHT"]
    /\ owner' = [owner EXCEPT ![m] = me]
    /\ session' = session \cup {c}
    /\ pending' = [pending EXCEPT ![c] = Append(@, m)]
    /\ inflight' = inflight \cup {m}
    /\ waiting' = [waiting EXCEPT ![m] = 1]
    /\ EnsureWorkers({c})

Turn(m) == Join(m) \/ AnswerAtOnce(m) \/ Overflow(m) \/ Accept(m)

-----------------------------------------------------------------------------
(***************************************************************************)
(* TelegramBridge._drain, _execute and _settle                             *)
(***************************************************************************)
DrainUnchanged ==
    UNCHANGED <<botVars, stale, dropped, given>>

\* The section that decides to go on or to end: the session is removed with
\* the decision, so that no message is queued for a worker that ends.
Pop(d) ==
    LET c == dchat[d] IN
    /\ dpc[d] = "pop"
    /\ \/ /\ pending[c] # <<>>
          /\ DGoto(d, "submit")
          /\ dreq' = [dreq EXCEPT ![d] = Head(pending[c])]
          /\ pending' = [pending EXCEPT ![c] = Tail(@)]
          /\ UNCHANGED <<session, worker, dchat>>
       \/ /\ pending[c] = <<>>
          /\ DGoto(d, "free")
          /\ dchat' = [dchat EXCEPT ![d] = None]
          /\ session' = session \ {c}
          /\ worker' = [worker EXCEPT ![c] = 0]
          /\ UNCHANGED <<dreq, pending>>
    /\ DrainUnchanged
    /\ UNCHANGED <<ledgerVars, row, owner, inflight, waiting, dexec, faults>>

\* send_dialogue_turn: the gateway starts to execute the turn - or never does,
\* and the call times out (here: when all executions the model has are busy).
Submit(d) ==
    /\ dpc[d] = "submit"
    /\ \/ /\ \E x \in Execs : Begin(x, dreq[d]) /\ dexec' = [dexec EXCEPT ![d] = x]
          /\ DGoto(d, "wait")
       \/ /\ \A x \in Execs : ~FirstFree(x)
          /\ DGoto(d, "fail")
          /\ UNCHANGED <<ledgerVars, dexec>>
    /\ DrainUnchanged
    /\ UNCHANGED <<row, owner, queueVars, inflight, waiting, dchat, dreq, faults>>

Refused(d) ==
    /\ dpc[d] = "submit"
    /\ CountFault("refuse")
    /\ DGoto(d, "fail")
    /\ DrainUnchanged
    /\ UNCHANGED <<ledgerVars, row, owner, queueVars, inflight, waiting, dchat, dreq, dexec>>

EndExec(x) ==
    /\ XGoto(x, "free")
    /\ xturn' = [xturn EXCEPT ![x] = None] /\ xkey' = [xkey EXCEPT ![x] = None]
    /\ UNCHANGED toolVars

\* The answer arrives, whatever the tools made of the turn.
Answer(d) ==
    /\ dpc[d] = "wait" /\ xpc[dexec[d]] = "reply"
    /\ EndExec(dexec[d])
    /\ DGoto(d, "complete")
    /\ dexec' = [dexec EXCEPT ![d] = 0]
    /\ DrainUnchanged
    /\ UNCHANGED <<row, owner, queueVars, inflight, waiting, dchat, dreq, faults>>

\* The client's read times out after two minutes; the gateway is not told and
\* goes on.
TimeOut(d) ==
    /\ dpc[d] = "wait"
    /\ DGoto(d, "fail")
    /\ dexec' = [dexec EXCEPT ![d] = 0]
    /\ DrainUnchanged
    /\ UNCHANGED <<ledgerVars, row, owner, queueVars, inflight, waiting, dchat, dreq, faults>>

\* TurnLedger.complete and fail.
Settled(m, outcome) ==
    IF outcome = "complete" THEN "COMPLETED"
    ELSE IF row[m] = "IN_FLIGHT" THEN "FAILED" ELSE row[m]

\* Mutant: the error of the write ends the worker.
AfterErrorDead == "free"

\* _settle logs the error of the write and resolves the future all the same.
AfterError == "settled"

SettleLedger(d) ==
    LET m == dreq[d] IN
    /\ dpc[d] \in {"complete", "fail"}
    /\ \/ /\ row' = [row EXCEPT ![m] = Settled(m, dpc[d])]
          /\ DGoto(d, "settled")
          /\ UNCHANGED faults
       \/ /\ CountFault("disk")
          /\ DGoto(d, AfterError)
          /\ UNCHANGED row
    /\ DrainUnchanged
    /\ UNCHANGED <<ledgerVars, owner, queueVars, inflight, waiting, dchat, dreq, dexec>>

\* The future is taken out of _inflight and resolved: all its callers go on.
Resolve(m) ==
    /\ inflight' = inflight \ {m}
    /\ waiting' = [waiting EXCEPT ![m] = 0]

SettleFuture(d) ==
    /\ dpc[d] = "settled"
    /\ Resolve(dreq[d])
    /\ DGoto(d, "pop")
    /\ dreq' = [dreq EXCEPT ![d] = None]
    /\ DrainUnchanged
    /\ UNCHANGED <<ledgerVars, row, owner, queueVars, dchat, dexec, faults>>

-----------------------------------------------------------------------------
(***************************************************************************)
(* TelegramBridge.cancel_chat: the queue is emptied under the lock, then   *)
(* each request is failed in the ledger and its future resolved.           *)
(***************************************************************************)
ElementsOf(seq) == {seq[i] : i \in DOMAIN seq}

\* Mutant: the requests are cancelled and stay queued.
QueueKept(c) == pending[c]

QueueCancelled(c) == <<>>

CancelChat(c) ==
    /\ bot # "down" /\ c \in session /\ pending[c] # <<>>
    /\ CountFault("cancel")
    /\ dropped' = [m \in Turns |-> IF m \in ElementsOf(pending[c]) THEN "fail" ELSE dropped[m]]
    /\ pending' = [pending EXCEPT ![c] = QueueCancelled(c)]
    /\ UNCHANGED <<ledgerVars, rowVars, botVars, session, worker, inflight, waiting, drainVars, given>>

CancelInLedger(m) ==
    /\ dropped[m] = "fail"
    /\ row' = [row EXCEPT ![m] = Settled(m, "fail")]
    /\ dropped' = [dropped EXCEPT ![m] = "resolve"]
    /\ UNCHANGED <<ledgerVars, owner, stale, botVars, queueVars, inflight, waiting,
                   drainVars, given, faults>>

CancelFuture(m) ==
    /\ dropped[m] = "resolve"
    /\ Resolve(m)
    /\ dropped' = [dropped EXCEPT ![m] = "no"]
    /\ UNCHANGED <<ledgerVars, rowVars, botVars, queueVars, drainVars, given, faults>>

-----------------------------------------------------------------------------
(***************************************************************************)
(* The processes of the bot and of the gateway.                            *)
(***************************************************************************)

\* What the bot knows ends with its process; rows of unfinished requests stay
\* in telegram_queue as QUEUED or RUNNING, for good.
Forget ==
    /\ bot' = "down"
    /\ stale' = stale \cup {ChatOf[m] : m \in inflight}
    /\ session' = {} /\ pending' = NoQueues /\ worker' = NoWorkers
    /\ inflight' = {} /\ waiting' = [m \in Turns |-> 0]
    /\ dropped' = [m \in Turns |-> "no"]
    /\ dpc' = NoDrains("free") /\ dchat' = NoDrains(None)
    /\ dreq' = NoDrains(None) /\ dexec' = NoDrains(0)
    /\ UNCHANGED <<ledgerVars, row, owner, me, recovered, given>>

Kill == bot # "down" /\ CountFault("kill") /\ Forget

\* close: nothing is accepted any more; recovery is cancelled.
Close ==
    /\ bot = "up" /\ CountFault("close")
    /\ bot' = "closing" /\ recovered' = TRUE
    /\ UNCHANGED <<ledgerVars, rowVars, me, queueVars, futureVars, drainVars, given>>

\* After the grace period a worker that still waits for the gateway is
\* cancelled: it fails its turn and ends without looking at the queue.
CancelDrain(d) ==
    /\ bot = "closing" /\ dpc[d] = "wait"
    /\ row' = [row EXCEPT ![dreq[d]] = Settled(dreq[d], "fail")]
    /\ Resolve(dreq[d])
    /\ DGoto(d, "free")
    /\ dchat' = [dchat EXCEPT ![d] = None] /\ dreq' = [dreq EXCEPT ![d] = None]
    /\ dexec' = [dexec EXCEPT ![d] = 0]
    /\ UNCHANGED <<ledgerVars, owner, stale, botVars, queueVars, dropped, given, faults>>

\* The process ends: what is still queued keeps its row IN_FLIGHT.
Closed ==
    /\ bot = "closing" /\ \A d \in Drains : dpc[d] = "free"
    /\ Forget
    /\ UNCHANGED faults

\* A new process, with a new owner_token, starts its recovery beside polling.
Start ==
    /\ bot = "down" /\ me < MaxStarts
    /\ bot' = "up" /\ me' = me + 1 /\ recovered' = FALSE
    /\ UNCHANGED <<ledgerVars, rowVars, queueVars, futureVars, drainVars, given, faults>>

\* Mutant: rows of this process are reclaimed too.
OrphanByAge(m) == row[m] = "IN_FLIGHT"

\* reclaim_orphaned_turns, of rows no write touched for a minute.
Orphan(m) == row[m] = "IN_FLIGHT" /\ owner[m] # me

\* The chats of unfinished requests that recovery gives a worker: those with a
\* session, and others while max_sessions allows one more.
Resumes(cs) ==
    /\ stale \cap session \subseteq cs
    /\ cs \subseteq session \/ Cardinality(session \cup cs) <= MaxSessions
    /\ cs = stale \/ Cardinality(session \cup cs) >= MaxSessions

\* recover_on_startup: the rows become retryable; the chats of unfinished
\* requests in telegram_queue get a session and a worker, which finds nothing to
\* do.
Recover ==
    /\ bot = "up" /\ ~recovered
    /\ recovered' = TRUE
    /\ \E old \in SUBSET {m \in Turns : Orphan(m)} :
          row' = [m \in Turns |-> IF m \in old THEN "FAILED" ELSE row[m]]
    /\ \E cs \in SUBSET stale :
          Resumes(cs) /\ session' = session \cup cs /\ EnsureWorkers(cs)
    /\ UNCHANGED <<ledgerVars, owner, stale, bot, me, pending, futureVars, dreq, dexec,
                   given, faults>>

\* kill -9 of the gateway, which is started again: its clients' calls fail.
GatewayKill ==
    /\ CountFault("gateway")
    /\ LoseExecs
    /\ dpc' = [d \in Drains |-> IF dpc[d] = "wait" THEN "fail" ELSE dpc[d]]
    /\ dexec' = NoDrains(0)
    /\ UNCHANGED <<rowVars, botVars, queueVars, futureVars, dchat, dreq, given>>

\* The answer to a client that is gone.
Unheard(x) ==
    /\ xpc[x] = "reply" /\ \A d \in Drains : dexec[d] # x
    /\ EndExec(x)
    /\ UNCHANGED <<rowVars, botVars, queueVars, futureVars, drainVars, given, faults>>

Execute(x) ==
    /\ ExecStep(x)
    /\ UNCHANGED <<rowVars, botVars, queueVars, futureVars, drainVars, given, faults>>

FileIsSpoiled(k) ==
    /\ CountFault("spoil")
    /\ Spoil(k)
    /\ UNCHANGED <<rowVars, botVars, queueVars, futureVars, drainVars, given>>

-----------------------------------------------------------------------------
DrainStep(d) ==
    \/ Pop(d) \/ Submit(d) \/ Answer(d) \/ TimeOut(d) \/ SettleLedger(d) \/ SettleFuture(d)

CancelStep(m) == CancelInLedger(m) \/ CancelFuture(m)

Next ==
    \/ \E m \in Turns : Turn(m) \/ CancelStep(m)
    \/ \E d \in Drains : DrainStep(d) \/ Refused(d) \/ CancelDrain(d)
    \/ \E x \in Execs : Execute(x) \/ Unheard(x)
    \/ \E c \in Chats : CancelChat(c)
    \/ \E k \in Keys : FileIsSpoiled(k)
    \/ Kill \/ Close \/ Closed \/ Start \/ Recover \/ GatewayKill

Spec == Init /\ [][Next]_vars

BotStep ==
    \/ \E d \in Drains : DrainStep(d)
    \/ \E m \in Turns : CancelStep(m)
    \/ Closed

\* The bot's event loop runs while a task of it is ready.  Nothing is asked of
\* the gateway: the HTTP call ends, in the worst case, with the client's read
\* timeout.
FairSpec == Spec /\ WF_vars(BotStep)

-----------------------------------------------------------------------------
(***************************************************************************)
(* Properties                                                              *)
(***************************************************************************)
DrainPC == {"free", "pop", "submit", "wait", "complete", "fail", "settled"}

TurnTypeOK ==
    /\ LedgerTypeOK
    /\ row \in [Turns -> {"none", "IN_FLIGHT", "COMPLETED", "FAILED"}]
    /\ owner \in [Turns -> 0 .. me] /\ stale \subseteq Chats
    /\ bot \in {"up", "closing", "down"} /\ recovered \in BOOLEAN
    /\ session \subseteq Chats /\ inflight \subseteq Turns
    /\ pending \in [Chats -> Seq(inflight)] /\ worker \in [Chats -> Drains \cup {0}]
    /\ waiting \in [Turns -> Nat] /\ dropped \in [Turns -> {"no", "fail", "resolve"}]
    /\ dpc \in [Drains -> DrainPC] /\ dchat \in [Drains -> Chats \cup {None}]
    /\ dreq \in [Drains -> Turns \cup {None}] /\ dexec \in [Drains -> Execs \cup {0}]

Submitting(d) == dpc[d] \in {"submit", "wait"}

\* One request of a chat at a time is on its way to the gateway, and it holds
\* its row of the turn ledger: what is answered or given up elsewhere - by a
\* cancellation, a recovery, a full queue - is not in a worker's hands.
OneTurnPerChat ==
    \A d \in Drains : Submitting(d) =>
        /\ row[dreq[d]] = "IN_FLIGHT" /\ owner[dreq[d]] = me
        /\ \A e \in Drains : Submitting(e) /\ dchat[e] = dchat[d] => e = d

\* Whoever waits in turn() goes on: with an answer, an error, TurnCancelled,
\* or with the end of the process.  (No message has waiting callers for ever:
\* the same as waiting[m] > 0 ~> waiting[m] = 0.)
CallersAnswered == \A m \in Turns : []<>(waiting[m] = 0)
=============================================================================
