----------------------------- MODULE ToolLedger -----------------------------
(***************************************************************************)
(* The tool calls of dialogue turns in the gateway's process:              *)
(* UnifiedToolExecutionLayer.execute with its ledger in memory, and        *)
(* DurableToolLedger, which survives a kill.                               *)
(*                                                                         *)
(* The process has one event loop: an action is what runs between two      *)
(* awaits.  Calls that carry no turn identity and the shell tools use      *)
(* neither ledger and are left out.                                        *)
(***************************************************************************)
EXTENDS Naturals, FiniteSets

CONSTANTS
    Turns,     \* turn identities
    Calls,     \* tool calls: compute_call_hash of tool and arguments, the
               \* same when a turn is executed again
    CallsOf,   \* the calls the model may ask for in a turn
    ReadOnly,  \* calls of read-only tools
    Declares,  \* calls whose answer may name a path: an artifact claim
    Unconfirmable, \* those whose claim is no regular file (archive.extract's
               \* target_dir), or relative where no workspace is configured
    NExecs,    \* bound: turns the gateway executes at a time
    None

Keys == Turns \X Calls
Execs == 1..NExecs

ASSUME CallsAssumption ==
    /\ CallsOf \in [Turns -> SUBSET Calls]
    /\ ReadOnly \subseteq Calls /\ Declares \subseteq Calls \ ReadOnly
    /\ Unconfirmable \subseteq Declares
ASSUME ExecsAssumption == NExecs \in Nat
ASSUME NoKeyAssumption == None \notin Turns /\ None \notin Keys

VARIABLES
    \* durable_tool_ledger.status, and whether the recorded result names a path
    durable, claims,
    \* UnifiedToolExecutionLayer._ledger
    ram,
    \* executions of turns: the place, the turn, the call
    xpc, xturn, xkey,
    \* the world: effects of a call, whether the path its answer claims is a
    \* file as the answer declares it, how often such a file was spoiled
    effects, intact, spoiled,
    \* history: how often a recorded success was discarded
    discarded

toolVars == <<durable, claims, ram, effects, intact, spoiled, discarded>>
execVars == <<xpc, xturn, xkey>>
ledgerVars == <<toolVars, execVars>>

Recorded == {"none", "PENDING", "COMPLETED", "EXECUTION_UNKNOWN"}
ExecPC == {"free", "think", "lookup", "join", "dispatch", "wrote", "returned",
           "raised", "reply"}

LedgerInit ==
    /\ durable = [k \in Keys |-> "none"] /\ claims = [k \in Keys |-> FALSE]
    /\ ram = [k \in Keys |-> "none"]
    /\ xpc = [x \in Execs |-> "free"]
    /\ xturn = [x \in Execs |-> None] /\ xkey = [x \in Execs |-> None]
    /\ effects = [k \in Keys |-> 0]
    /\ intact = [k \in Keys |-> FALSE] /\ spoiled = [k \in Keys |-> 0]
    /\ discarded = [k \in Keys |-> 0]

XGoto(x, label) == xpc' = [xpc EXCEPT ![x] = label]

\* The handler of POST /api/v1/dialogue/turn starts, in the first free slot.
FirstFree(x) == xpc[x] = "free" /\ \A y \in Execs : y < x => xpc[y] # "free"

Begin(x, m) ==
    /\ FirstFree(x)
    /\ XGoto(x, "think")
    /\ xturn' = [xturn EXCEPT ![x] = m]
    /\ xkey' = [xkey EXCEPT ![x] = None]
    /\ UNCHANGED toolVars

\* The model asks for a call (bound: one in an execution) or answers.  The
\* policy is asked before any ledger, every time, and keeps nothing: a denial
\* is an answer without a call.
Choose(x) ==
    /\ xpc[x] = "think"
    /\ \/ /\ \E c \in CallsOf[xturn[x]] : xkey' = [xkey EXCEPT ![x] = <<xturn[x], c>>]
          /\ XGoto(x, "lookup")
       \/ XGoto(x, "reply") /\ UNCHANGED xkey
    /\ UNCHANGED <<xturn, toolVars>>

-----------------------------------------------------------------------------
(***************************************************************************)
(* The section under the lock: what is already known of this call.         *)
(***************************************************************************)

\* _replay_is_faithful: a path that is claimed is a regular file that can be
\* read, of the digest the answer declares, if it declares one.
Faithful(k) == claims[k] => intact[k]

ReadsOnly(k) == k[2] \in ReadOnly

\* A recorded answer is replayed: of this process, or of an earlier one.
Replays(k) ==
    /\ Faithful(k)
    /\ ram[k] = "COMPLETED" \/ (durable[k] = "COMPLETED" /\ ~ReadsOnly(k))

\* Mutant: only what this process knows keeps a call from being repeated.
InDoubtHere(k) == ram[k] = "EXECUTION_UNKNOWN"

\* Nobody knows whether the call took effect: fail closed.
InDoubt(k) == durable[k] \in {"PENDING", "EXECUTION_UNKNOWN"} /\ ~ReadsOnly(k)

\* Anything else is reserved, a success that cannot be confirmed after it was
\* discarded.
Reserve(k) ==
    /\ ram' = [ram EXCEPT ![k] = "PENDING"]
    /\ durable' = [durable EXCEPT ![k] = IF @ = "none" \/ ~Faithful(k) THEN "PENDING" ELSE @]
    /\ claims' = [claims EXCEPT ![k] = @ /\ Faithful(k)]
    /\ discarded' = [discarded EXCEPT ![k] = IF Faithful(k) THEN @ ELSE @ + 1]

Lookup(x) ==
    LET k == xkey[x] IN
    /\ xpc[x] = "lookup"
    /\ \/ /\ ram[k] = "PENDING"
          /\ XGoto(x, "join") /\ UNCHANGED <<ram, durable, claims, discarded>>
       \/ /\ ram[k] # "PENDING" /\ (Replays(k) \/ InDoubt(k))
          /\ XGoto(x, "reply") /\ UNCHANGED <<ram, durable, claims, discarded>>
       \/ /\ ram[k] # "PENDING" /\ ~Replays(k) /\ ~InDoubt(k)
          /\ Reserve(k)
          /\ XGoto(x, "dispatch")
    /\ UNCHANGED <<xturn, xkey, effects, intact, spoiled>>

-----------------------------------------------------------------------------
(***************************************************************************)
(* registry.dispatch and the record of its end.                            *)
(***************************************************************************)

\* The tool takes effect or not, and returns or raises.  A tool that fails
\* usually returns its error, as a result that claims nothing, whatever it has
\* done already.
Dispatch(x) ==
    LET k == xkey[x] IN
    /\ xpc[x] = "dispatch"
    /\ \/ /\ ~ReadsOnly(k)
          /\ effects' = [effects EXCEPT ![k] = @ + 1]
          /\ intact' = [intact EXCEPT ![k] = k[2] \in Declares \ Unconfirmable]
          /\ \/ k[2] \in Declares /\ XGoto(x, "wrote")
             \/ XGoto(x, "returned")
             \/ XGoto(x, "raised")
       \/ /\ XGoto(x, "returned") \/ XGoto(x, "raised")
          /\ UNCHANGED <<effects, intact>>
    /\ UNCHANGED <<xturn, xkey, durable, claims, ram, spoiled, discarded>>

\* CLEARED for a read that raised.
Clears(k) == ReadsOnly(k)

Outcome(x) ==
    IF xpc[x] # "raised" THEN "COMPLETED"
    ELSE IF Clears(xkey[x]) THEN "none" ELSE "EXECUTION_UNKNOWN"

\* _update_ledger: memory and table, and everybody who joined is woken to read
\* the memory again and to answer its model with what is there.
UpdateLedger(x) ==
    LET k == xkey[x] IN
    /\ xpc[x] \in {"wrote", "returned", "raised"}
    /\ ram' = [ram EXCEPT ![k] = Outcome(x)]
    /\ durable' = [durable EXCEPT ![k] = Outcome(x)]
    /\ xpc' = [y \in Execs |->
                  IF y = x \/ (xpc[y] = "join" /\ xkey[y] = k) THEN "reply" ELSE xpc[y]]
    /\ claims' = [claims EXCEPT ![k] = xpc[x] = "wrote"]
    /\ UNCHANGED <<xturn, xkey, effects, intact, spoiled, discarded>>

ExecStep(x) ==
    \/ Choose(x) \/ Lookup(x) \/ Dispatch(x) \/ UpdateLedger(x)

-----------------------------------------------------------------------------
\* kill -9 of the gateway: memory and executions end, the table stays.
LoseExecs ==
    /\ ram' = [k \in Keys |-> "none"]
    /\ xpc' = [x \in Execs |-> "free"]
    /\ xturn' = [x \in Execs |-> None] /\ xkey' = [x \in Execs |-> None]
    /\ UNCHANGED <<durable, claims, effects, intact, spoiled, discarded>>

\* The file a call wrote is removed, changed or made unreadable, by anybody,
\* another call of the model included; it stays so until the call runs again.
Spoil(k) ==
    /\ intact[k]
    /\ intact' = [intact EXCEPT ![k] = FALSE]
    /\ spoiled' = [spoiled EXCEPT ![k] = @ + 1]
    /\ UNCHANGED <<durable, claims, ram, effects, discarded, execVars>>

LedgerTypeOK ==
    /\ durable \in [Keys -> Recorded] /\ ram \in [Keys -> Recorded]
    /\ claims \in [Keys -> BOOLEAN] /\ intact \in [Keys -> BOOLEAN]
    /\ effects \in [Keys -> Nat] /\ spoiled \in [Keys -> Nat] /\ discarded \in [Keys -> Nat]
    /\ xpc \in [Execs -> ExecPC]
    /\ xturn \in [Execs -> Turns \cup {None}]
    /\ xkey \in [Execs -> Keys \cup {None}]

\* A call takes effect again in its turn only after its recorded success was
\* discarded, never on a doubt - whichever process was killed, however often the
\* turn was delivered, given up and executed again beside itself.  And a success
\* that could be confirmed is discarded only for a file that was spoiled: it is
\* claims nothing can confirm that cost the "needless re-execution" the code
\* accepts (_replay_is_faithful, EXECUTION_UNKNOWN).
EffectOnce ==
    \A k \in Keys :
        /\ effects[k] <= 1 + discarded[k]
        /\ k[2] \notin Unconfirmable => discarded[k] <= spoiled[k]
=============================================================================
