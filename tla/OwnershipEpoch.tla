--------------------------- MODULE OwnershipEpoch ---------------------------
(***************************************************************************)
(* Workspace ownership: the ledger row of one repository with its fencing  *)
(* epoch and lease (epoch.py), the central authority in front of it        *)
(* (central.py), and the executions that mint a token, take a write permit *)
(* at each mutation and release the lease (wiring.py).                     *)
(*                                                                         *)
(* Every change of the row is one conditional UPDATE.  It compares with a  *)
(* clock that was read up to Delay before it runs.                         *)
(***************************************************************************)
EXTENDS Integers

CONSTANTS
    Executions,     \* running pieces of work that bind one token each
    OwnerOf,        \* the owner_id an execution presents
    NoOwner,        \* owner_id is NULL
    LeaseSeconds,   \* DEFAULT_LEASE_SECONDS
    PermitSeconds,  \* permit_seconds
    Delay,          \* longest time from reading the clock to the UPDATE
    Faults,         \* the faults that may happen, a subset of FaultKinds
    MaxTime,        \* bound of the clock
    MaxEpoch        \* bound: no execution begins at a later epoch

FaultKinds ==
    {"kill",       \* a process dies, its lease stays
     "authority",  \* the ledger cannot be reached
     "audit"}      \* the row is updated, the audit INSERT after it raises

Owners == {OwnerOf[e] : e \in Executions}

ASSUME OwnerAssumption == OwnerOf \in [Executions -> Owners] /\ NoOwner \notin Owners
ASSUME TimeAssumption ==
    /\ LeaseSeconds \in Nat /\ PermitSeconds \in Nat
    /\ Delay \in Nat /\ MaxTime \in Nat /\ MaxEpoch \in Nat
ASSUME OwnershipFaultsAssumption == Faults \subseteq FaultKinds

VARIABLES
    state, owner, epoch, expires,  \* the row (expires 0: NULL)
    now,                           \* the clock
    pc, token, until,              \* executions: program point, fencing_epoch
                                   \* (0: DENY-ALL), end of the last permit
    wrote                          \* history: the newest epoch that has written

row == <<state, owner, epoch, expires>>
vars == <<row, now, pc, token, until, wrote>>

ExecutionPC == {"idle", "reconcile", "acquire", "bound", "writing"}

Init ==
    /\ state = "FREE" /\ owner = NoOwner /\ epoch = 0 /\ expires = 0
    /\ now = 0
    /\ pc = [e \in Executions |-> "idle"]
    /\ token = [e \in Executions |-> 0]
    /\ until = [e \in Executions |-> 0]
    /\ wrote = 0

\* What a call may have read from the clock.
Read(ts) == ts <= now /\ now <= ts + Delay

Goto(e, label) == pc' = [pc EXCEPT ![e] = label]
Bind(e, t) == Goto(e, "bound") /\ token' = [token EXCEPT ![e] = t]
Finish(e) == Goto(e, "idle") /\ token' = [token EXCEPT ![e] = 0]

\* The epoch survives its lease.
Free ==
    /\ state' = "FREE" /\ owner' = NoOwner /\ expires' = 0
    /\ UNCHANGED epoch

-----------------------------------------------------------------------------
(***************************************************************************)
(* mint_execution_ownership and bind_workspace_ownership: reconcile, then  *)
(* acquire; busy or unavailable binds the DENY-ALL token.                  *)
(***************************************************************************)
Begin(e) ==
    /\ pc[e] = "idle"
    /\ epoch < MaxEpoch
    /\ Goto(e, "reconcile")
    /\ UNCHANGED <<row, now, token, until, wrote>>

\* Mutant: the row is left EXPIRED, which no claim looks for.
ReclaimedAsExpired == state' = "EXPIRED" /\ UNCHANGED <<owner, epoch, expires>>

\* HELD becomes EXPIRED becomes FREE in one transaction.
Reclaimed == Free

Reconcile(e, ts) ==
    /\ pc[e] = "reconcile" /\ Read(ts)
    /\ \/ state = "HELD" /\ expires < ts /\ Reclaimed
       \/ ~(state = "HELD" /\ expires < ts) /\ UNCHANGED row
    /\ Goto(e, "acquire")
    /\ UNCHANGED <<now, token, until, wrote>>

\* The row is freed and the audit row is not written: DENY-ALL.
ReconcileUnaudited(e, ts) ==
    /\ pc[e] = "reconcile" /\ Read(ts)
    /\ "audit" \in Faults
    /\ state = "HELD" /\ expires < ts
    /\ Reclaimed
    /\ Bind(e, 0)
    /\ UNCHANGED <<now, until, wrote>>

\* Mutant: a lease counts as expired at its last instant.
ClaimableEarly(ts) == state = "FREE" \/ expires <= ts

Claimable(ts) == state = "FREE" \/ expires < ts

\* _claim's UPDATE.
Claim(e, ts) ==
    /\ Claimable(ts)
    /\ state' = "HELD" /\ owner' = OwnerOf[e]
    /\ epoch' = epoch + 1
    /\ expires' = ts + LeaseSeconds

Acquire(e, ts) ==
    /\ pc[e] = "acquire" /\ Read(ts)
    /\ \/ Claim(e, ts) /\ Bind(e, epoch + 1)
       \/ ~Claimable(ts) /\ Bind(e, 0) /\ UNCHANGED row
    /\ UNCHANGED <<now, until, wrote>>

\* The claim is committed and the audit row is not: DENY-ALL over a HELD row.
AcquireUnaudited(e, ts) ==
    /\ pc[e] = "acquire" /\ Read(ts)
    /\ "audit" \in Faults
    /\ Claim(e, ts)
    /\ Bind(e, 0)
    /\ UNCHANGED <<now, until, wrote>>

Unavailable(e) ==
    /\ pc[e] \in {"reconcile", "acquire"}
    /\ "authority" \in Faults
    /\ Bind(e, 0)
    /\ UNCHANGED <<row, now, until, wrote>>

-----------------------------------------------------------------------------
(***************************************************************************)
(* enforce_write_fence, the mutation, and the release after the run.       *)
(***************************************************************************)

\* Mutant: the holder's name is enough.
PermitForOwner(e, ts) == state = "HELD" /\ owner = OwnerOf[e] /\ expires > ts

PermitMatches(e, ts) ==
    /\ state = "HELD" /\ owner = OwnerOf[e]
    /\ epoch = token[e]
    /\ expires > ts

ValidUntil(ts) == ts + PermitSeconds

\* acquire_write_permit: the check and the hold are one UPDATE.
HoldFence(e, ts) ==
    /\ pc[e] = "bound" /\ Read(ts)
    /\ PermitMatches(e, ts)
    /\ expires' = ValidUntil(ts)
    /\ UNCHANGED <<state, owner, epoch>>

\* A denial raises and leaves everything as it is: it is no action here.
Permit(e, ts) ==
    /\ HoldFence(e, ts)
    /\ until' = [until EXCEPT ![e] = ValidUntil(ts)]
    /\ Goto(e, "writing")
    /\ UNCHANGED <<now, token, wrote>>

\* CentralAuthorityFailure after the UPDATE: held, but nothing is written.
PermitUnaudited(e, ts) ==
    /\ "audit" \in Faults
    /\ HoldFence(e, ts)
    /\ UNCHANGED <<now, pc, token, until, wrote>>

\* The file is written, or the command has run; nothing checks until again.
Write(e) ==
    /\ pc[e] = "writing"
    /\ Goto(e, "bound")
    /\ wrote' = IF token[e] > wrote THEN token[e] ELSE wrote
    /\ UNCHANGED <<row, now, token, until>>

\* Mutant: whoever ends frees the repository.
ReleaseMatchesHeld(e) == token[e] # 0 /\ state = "HELD"

\* release compares the owner's name, not the epoch; DENY-ALL skips it.
ReleaseMatches(e) == token[e] # 0 /\ state = "HELD" /\ owner = OwnerOf[e]

Release(e) ==
    /\ pc[e] = "bound"
    /\ \/ ReleaseMatches(e) /\ Free
       \/ ~ReleaseMatches(e) /\ UNCHANGED row
    /\ Finish(e)
    /\ UNCHANGED <<now, until, wrote>>

\* The process dies, or release raises.
Kill(e) ==
    /\ pc[e] # "idle"
    /\ "kill" \in Faults
    /\ Finish(e)
    /\ UNCHANGED <<row, now, until, wrote>>

Tick ==
    /\ now < MaxTime
    /\ now' = now + 1
    /\ UNCHANGED <<row, pc, token, until, wrote>>

ExecutionStep(e) ==
    \/ Begin(e) \/ Unavailable(e) \/ Write(e) \/ Release(e) \/ Kill(e)
    \/ \E ts \in 0..now :
          \/ Reconcile(e, ts) \/ ReconcileUnaudited(e, ts)
          \/ Acquire(e, ts) \/ AcquireUnaudited(e, ts)
          \/ Permit(e, ts) \/ PermitUnaudited(e, ts)

Next == Tick \/ \E e \in Executions : ExecutionStep(e)

Spec == Init /\ [][Next]_vars

-----------------------------------------------------------------------------
(***************************************************************************)
(* Properties.                                                             *)
(***************************************************************************)

\* The row, the clock and the tokens hold values of their columns; EXPIRED
\* is never left in the row.
TypeOK ==
    /\ state \in {"FREE", "HELD"} /\ owner \in Owners \cup {NoOwner}
    /\ epoch \in Nat /\ expires \in Nat /\ now \in Nat /\ wrote \in Nat
    /\ pc \in [Executions -> ExecutionPC]
    /\ token \in [Executions -> Nat]
    /\ until \in [Executions -> Nat]

ValidPermit(e) == pc[e] = "writing" /\ now <= until[e]

\* central.py: between a permit's grant and the end of its validity,
\* ownership cannot change.
PermitHoldsOwnership ==
    \A e \in Executions :
        ValidPermit(e) => state = "HELD" /\ owner = OwnerOf[e] /\ epoch = token[e]

\* INV-01: two executions are never inside a permitted mutation at once.
OneWriter ==
    \A e, f \in Executions : ValidPermit(e) /\ ValidPermit(f) => e = f

\* INV-03: an epoch is issued once, so no two executions hold the same token.
TokensUnique ==
    \A e, f \in Executions : token[e] = token[f] /\ token[e] # 0 => e = f

\* INV-04: once a newer epoch has written, an older token gets no permit,
\* even when a mutation outlived its own permit.
StaleWriterBlocked ==
    [][\A e \in Executions :
          pc[e] # "writing" /\ pc'[e] = "writing" => token[e] >= wrote]_vars

\* INV-05: whatever died or failed, the repository can be claimed again at
\* most one lease or one permit from now.
LeaseIsBounded ==
    state = "HELD" =>
        expires <= now + LeaseSeconds \/ expires <= now + PermitSeconds
=============================================================================
