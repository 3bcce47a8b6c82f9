-------------------------- MODULE OwnershipProofs ---------------------------
(***************************************************************************)
(* Proofs about OwnershipEpoch, for every number of executions, every      *)
(* lease and permit length and every delay between clock and UPDATE.       *)
(***************************************************************************)
EXTENDS OwnershipEpoch, TLAPS

USE OwnerAssumption, TimeAssumption DEF Owners

-----------------------------------------------------------------------------
(***************************************************************************)
(* Type correctness.                                                       *)
(***************************************************************************)

\* A clock value that was read is a natural number.
LEMMA ReadIsNat == ASSUME TypeOK, NEW ts \in 0..now PROVE ts \in Nat
  BY DEF TypeOK

\* Every step of an execution keeps the row and the tokens well typed.
LEMMA TypeStep == TypeOK /\ [Next]_vars => TypeOK'
<1> SUFFICES ASSUME TypeOK, [Next]_vars PROVE TypeOK'
  OBVIOUS
<1>1. CASE Tick
  BY <1>1 DEF TypeOK, Tick, row
<1>2. ASSUME NEW e \in Executions, Begin(e) PROVE TypeOK'
  BY <1>2 DEF TypeOK, Begin, Goto, row, ExecutionPC
<1>3. ASSUME NEW e \in Executions, Unavailable(e) PROVE TypeOK'
  BY <1>3 DEF TypeOK, Unavailable, Bind, Goto, row, ExecutionPC
<1>4. ASSUME NEW e \in Executions, Write(e) PROVE TypeOK'
  BY <1>4 DEF TypeOK, Write, Goto, row, ExecutionPC
<1>5. ASSUME NEW e \in Executions, Release(e) PROVE TypeOK'
  BY <1>5 DEF TypeOK, Release, Finish, Free, Goto, row, ExecutionPC
<1>6. ASSUME NEW e \in Executions, Kill(e) PROVE TypeOK'
  BY <1>6 DEF TypeOK, Kill, Finish, Goto, row, ExecutionPC
<1>7. ASSUME NEW e \in Executions, NEW ts \in 0..now, Reconcile(e, ts) PROVE TypeOK'
  BY <1>7 DEF TypeOK, Reconcile, Reclaimed, Free, Goto, row, ExecutionPC
<1>8. ASSUME NEW e \in Executions, NEW ts \in 0..now, ReconcileUnaudited(e, ts)
      PROVE TypeOK'
  BY <1>8 DEF TypeOK, ReconcileUnaudited, Reclaimed, Free, Bind, Goto, ExecutionPC
<1>9. ASSUME NEW e \in Executions, NEW ts \in 0..now, Acquire(e, ts) PROVE TypeOK'
  BY <1>9, ReadIsNat DEF TypeOK, Acquire, Claim, Bind, Goto, row, ExecutionPC
<1>10. ASSUME NEW e \in Executions, NEW ts \in 0..now, AcquireUnaudited(e, ts)
       PROVE TypeOK'
  BY <1>10, ReadIsNat DEF TypeOK, AcquireUnaudited, Claim, Bind, Goto, ExecutionPC
<1>11. ASSUME NEW e \in Executions, NEW ts \in 0..now, Permit(e, ts) PROVE TypeOK'
  BY <1>11, ReadIsNat DEF TypeOK, Permit, HoldFence, ValidUntil, Goto, ExecutionPC
<1>12. ASSUME NEW e \in Executions, NEW ts \in 0..now, PermitUnaudited(e, ts)
       PROVE TypeOK'
  BY <1>12, ReadIsNat DEF TypeOK, PermitUnaudited, HoldFence, ValidUntil
<1>13. CASE UNCHANGED vars
  BY <1>13 DEF TypeOK, vars, row
<1> QED
  BY <1>1, <1>2, <1>3, <1>4, <1>5, <1>6, <1>7, <1>8, <1>9, <1>10, <1>11, <1>12,
     <1>13 DEF Next, ExecutionStep

\* The ledger row, the clock and the tokens keep their types; the row is
\* never left EXPIRED.
THEOREM LedgerTypeCorrect == Spec => []TypeOK
<1>1. Init => TypeOK
  BY DEF Init, TypeOK, ExecutionPC
<1> QED
  BY <1>1, TypeStep, PTL DEF Spec

-----------------------------------------------------------------------------
(***************************************************************************)
(* Epochs: no token is newer than the row, a held row has an epoch, and    *)
(* no two executions hold the same token.                                  *)
(***************************************************************************)
TokensIssued == \A e \in Executions : token[e] <= epoch
HeldHasEpoch == state = "HELD" => epoch > 0
EpochInv == TypeOK /\ TokensIssued /\ HeldHasEpoch /\ TokensUnique /\ wrote <= epoch

\* A step that binds or drops one token leaves the others; a claim's epoch is
\* newer than every token.
LEMMA EpochStep == EpochInv /\ [Next]_vars => EpochInv'
<1> SUFFICES ASSUME EpochInv, [Next]_vars PROVE EpochInv'
  OBVIOUS
<1> USE DEF EpochInv
<1>0. TypeOK'
  BY TypeStep
<1>1. ASSUME UNCHANGED token, epoch' = epoch, wrote' = wrote, state' = "HELD" => state = "HELD"
      PROVE EpochInv'
  BY <1>0, <1>1 DEF TokensIssued, HeldHasEpoch, TokensUnique
<1>2. ASSUME NEW e \in Executions, token' = [token EXCEPT ![e] = 0],
             epoch' = epoch, wrote' = wrote, state' = "HELD" => state = "HELD"
      PROVE EpochInv'
  BY <1>0, <1>2 DEF TypeOK, TokensIssued, HeldHasEpoch, TokensUnique
<1>3. ASSUME NEW e \in Executions, NEW t \in {0, epoch + 1},
             token' = [token EXCEPT ![e] = t], epoch' = epoch + 1, wrote' = wrote
      PROVE EpochInv'
  BY <1>0, <1>3 DEF TypeOK, TokensIssued, HeldHasEpoch, TokensUnique
<1>4. CASE Tick
  BY <1>1, <1>4 DEF Tick, row
<1>5. ASSUME NEW e \in Executions, Begin(e) PROVE EpochInv'
  BY <1>1, <1>5 DEF Begin, row
<1>6. ASSUME NEW e \in Executions, Unavailable(e) PROVE EpochInv'
  BY <1>2, <1>6 DEF Unavailable, Bind, row
<1>7. ASSUME NEW e \in Executions, Write(e) PROVE EpochInv'
  <2>1. wrote' <= epoch
    BY <1>7 DEF Write, TokensIssued
  <2> QED
    BY <1>0, <1>7, <2>1 DEF Write, row, TokensIssued, HeldHasEpoch, TokensUnique
<1>8. ASSUME NEW e \in Executions, Release(e) PROVE EpochInv'
  BY <1>2, <1>8 DEF Release, Finish, Free, row
<1>9. ASSUME NEW e \in Executions, Kill(e) PROVE EpochInv'
  BY <1>2, <1>9 DEF Kill, Finish, row
<1>10. ASSUME NEW e \in Executions, NEW ts \in 0..now, Reconcile(e, ts) PROVE EpochInv'
  BY <1>1, <1>10 DEF Reconcile, Reclaimed, Free, row
<1>11. ASSUME NEW e \in Executions, NEW ts \in 0..now, ReconcileUnaudited(e, ts)
       PROVE EpochInv'
  BY <1>2, <1>11 DEF ReconcileUnaudited, Reclaimed, Free, Bind
<1>12. ASSUME NEW e \in Executions, NEW ts \in 0..now, Acquire(e, ts) PROVE EpochInv'
  <2>1. CASE Claim(e, ts) /\ Bind(e, epoch + 1)
    BY <1>3, <1>12, <2>1 DEF Acquire, Claim, Bind
  <2>2. CASE ~Claimable(ts) /\ Bind(e, 0) /\ UNCHANGED row
    BY <1>2, <1>12, <2>2 DEF Acquire, Bind, row
  <2> QED
    BY <1>12, <2>1, <2>2 DEF Acquire
<1>13. ASSUME NEW e \in Executions, NEW ts \in 0..now, AcquireUnaudited(e, ts)
       PROVE EpochInv'
  BY <1>3, <1>13 DEF AcquireUnaudited, Claim, Bind
<1>14. ASSUME NEW e \in Executions, NEW ts \in 0..now, Permit(e, ts) PROVE EpochInv'
  BY <1>1, <1>14 DEF Permit, HoldFence
<1>15. ASSUME NEW e \in Executions, NEW ts \in 0..now, PermitUnaudited(e, ts)
       PROVE EpochInv'
  BY <1>1, <1>15 DEF PermitUnaudited, HoldFence
<1>16. CASE UNCHANGED vars
  BY <1>1, <1>16 DEF vars, row
<1> QED
  BY <1>4, <1>5, <1>6, <1>7, <1>8, <1>9, <1>10, <1>11, <1>12, <1>13, <1>14, <1>15,
     <1>16 DEF Next, ExecutionStep

\* The initial row has no epoch and nobody a token.
LEMMA EpochInit == Init => EpochInv
  BY DEF Init, EpochInv, TypeOK, ExecutionPC, TokensIssued, HeldHasEpoch, TokensUnique

\* INV-03: whatever the owner ids, no epoch is ever held by two executions.
THEOREM EpochsAreUnique == Spec => []TokensUnique
<1>1. EpochInv => TokensUnique
  BY DEF EpochInv
<1> QED
  BY <1>1, EpochInit, EpochStep, PTL DEF Spec

\* INV-04: whatever the owner ids, an older token gets no permit once a newer
\* epoch has written.
THEOREM StaleWriterIsBlocked == Spec => StaleWriterBlocked
<1> DEFINE Blocked == \A e \in Executions :
                         pc[e] # "writing" /\ pc'[e] = "writing" => token[e] >= wrote
<1>1. EpochInv /\ [Next]_vars => [Blocked]_vars
  <2> SUFFICES ASSUME EpochInv, Next, NEW f \in Executions,
                      pc[f] # "writing", pc'[f] = "writing"
               PROVE  token[f] >= wrote
    OBVIOUS
  <2> USE DEF EpochInv, TypeOK, Goto
  <2>1. ASSUME NEW e \in Executions, NEW ts \in 0..now, Permit(e, ts)
        PROVE token[f] >= wrote
    BY <2>1 DEF Permit, HoldFence, PermitMatches
  <2>3. ~Tick
    BY DEF Tick
  <2>4. ASSUME NEW e \in Executions, Begin(e) PROVE FALSE
    BY <2>4 DEF Begin
  <2>5. ASSUME NEW e \in Executions, Unavailable(e) PROVE FALSE
    BY <2>5 DEF Unavailable, Bind
  <2>6. ASSUME NEW e \in Executions, Write(e) PROVE FALSE
    BY <2>6 DEF Write
  <2>7. ASSUME NEW e \in Executions, Release(e) PROVE FALSE
    BY <2>7 DEF Release, Finish
  <2>8. ASSUME NEW e \in Executions, Kill(e) PROVE FALSE
    BY <2>8 DEF Kill, Finish
  <2>9. ASSUME NEW e \in Executions, NEW ts \in 0..now,
               Reconcile(e, ts) \/ ReconcileUnaudited(e, ts)
        PROVE FALSE
    BY <2>9 DEF Reconcile, ReconcileUnaudited, Bind
  <2>10. ASSUME NEW e \in Executions, NEW ts \in 0..now,
                Acquire(e, ts) \/ AcquireUnaudited(e, ts)
         PROVE FALSE
    BY <2>10 DEF Acquire, AcquireUnaudited, Bind
  <2>11. ASSUME NEW e \in Executions, NEW ts \in 0..now, PermitUnaudited(e, ts)
         PROVE FALSE
    BY <2>11 DEF PermitUnaudited
  <2> QED
    BY <2>1, <2>3, <2>4, <2>5, <2>6, <2>7, <2>8, <2>9, <2>10, <2>11
       DEF Next, ExecutionStep
<1> QED
  BY <1>1, EpochInit, EpochStep, PTL DEF Spec, StaleWriterBlocked

-----------------------------------------------------------------------------
(***************************************************************************)
(* Permits.  When owner ids are distinct, a valid permit pins the row: the *)
(* lease outlives the permit, so neither claim nor reconcile touches it,   *)
(* and nobody else's release or permit matches.                            *)
(***************************************************************************)
OwnersDistinct == \A e, f \in Executions : OwnerOf[e] = OwnerOf[f] => e = f

PermitPins ==
    \A e \in Executions :
        ValidPermit(e) => /\ state = "HELD" /\ owner = OwnerOf[e] /\ epoch = token[e]
                          /\ until[e] <= expires

\* Every step leaves a pinned row alone as long as the permit is valid.
LEMMA PermitStep ==
    ASSUME OwnersDistinct, EpochInv, PermitPins, [Next]_vars
    PROVE  PermitPins'
<1> SUFFICES ASSUME NEW f \in Executions, ValidPermit(f)'
             PROVE  /\ state' = "HELD" /\ owner' = OwnerOf[f] /\ epoch' = token'[f]
                    /\ until'[f] <= expires'
  BY DEF PermitPins, ValidPermit
<1> DEFINE Pinned == /\ state' = "HELD" /\ owner' = OwnerOf[f] /\ epoch' = token'[f]
                     /\ until'[f] <= expires'
<1> USE DEF EpochInv, TypeOK
<1>1. ASSUME pc[f] = "writing", now <= now', until'[f] = until[f]
      PROVE  /\ state = "HELD" /\ owner = OwnerOf[f] /\ epoch = token[f]
             /\ until[f] <= expires /\ now <= until[f]
  BY <1>1, TypeStep DEF PermitPins, ValidPermit
<1>2. CASE Tick
  BY <1>1, <1>2 DEF Tick, ValidPermit, row
<1>3. ASSUME NEW e \in Executions, Begin(e) PROVE Pinned
  BY <1>1, <1>3 DEF Begin, Goto, ValidPermit, row
<1>4. ASSUME NEW e \in Executions, Unavailable(e) PROVE Pinned
  BY <1>1, <1>4 DEF Unavailable, Bind, Goto, ValidPermit, row
<1>5. ASSUME NEW e \in Executions, Write(e) PROVE Pinned
  BY <1>1, <1>5 DEF Write, Goto, ValidPermit, row
<1>6. ASSUME NEW e \in Executions, Release(e) PROVE Pinned
  <2>1. e # f /\ pc[f] = "writing" /\ now' = now /\ until' = until /\ token'[f] = token[f]
    BY <1>6 DEF Release, Finish, Goto, ValidPermit
  <2>2. ~ReleaseMatches(e)
    BY <1>1, <2>1 DEF ReleaseMatches, OwnersDistinct
  <2> QED
    BY <1>1, <1>6, <2>1, <2>2 DEF Release, row
<1>7. ASSUME NEW e \in Executions, Kill(e) PROVE Pinned
  BY <1>1, <1>7 DEF Kill, Finish, Goto, ValidPermit, row
<1>8. ASSUME NEW e \in Executions, NEW ts \in 0..now, Reconcile(e, ts) PROVE Pinned
  <2>1. pc[f] = "writing" /\ now' = now /\ until' = until /\ token' = token
    BY <1>8 DEF Reconcile, Goto, ValidPermit
  <2>2. ~(expires < ts)
    BY <1>1, <2>1
  <2> QED
    BY <1>1, <1>8, <2>1, <2>2 DEF Reconcile, row
<1>9. ASSUME NEW e \in Executions, NEW ts \in 0..now, ReconcileUnaudited(e, ts)
      PROVE Pinned
  <2>1. pc[f] = "writing" /\ now' = now /\ until' = until
    BY <1>9 DEF ReconcileUnaudited, Bind, Goto, ValidPermit
  <2> QED
    BY <1>1, <1>9, <2>1 DEF ReconcileUnaudited
<1>10. ASSUME NEW e \in Executions, NEW ts \in 0..now,
              Acquire(e, ts) \/ AcquireUnaudited(e, ts)
       PROVE Pinned
  <2>1. e # f /\ pc[f] = "writing" /\ now' = now /\ until' = until /\ token'[f] = token[f]
    BY <1>10 DEF Acquire, AcquireUnaudited, Bind, Goto, ValidPermit
  <2>2. ~Claimable(ts)
    BY <1>1, <2>1 DEF Claimable
  <2> QED
    BY <1>1, <1>10, <2>1, <2>2 DEF Acquire, AcquireUnaudited, Claim, row
<1>11. ASSUME NEW e \in Executions, NEW ts \in 0..now, HoldFence(e, ts), pc[f] = "writing"
       PROVE ~(now <= until[f])
  <2>1. SUFFICES ASSUME now <= until[f] PROVE FALSE
    OBVIOUS
  <2>2. epoch = token[f] /\ state = "HELD"
    BY <1>11, <2>1 DEF PermitPins, ValidPermit
  <2>3. token[e] = token[f] /\ token[e] # 0
    BY <1>11, <2>2 DEF HoldFence, PermitMatches, HeldHasEpoch
  <2>4. e = f
    BY <2>3 DEF TokensUnique
  <2> QED
    BY <1>11, <2>4 DEF HoldFence
<1>12. ASSUME NEW e \in Executions, NEW ts \in 0..now, Permit(e, ts) PROVE Pinned
  <2>1. CASE e = f
    <3>1. ts + PermitSeconds \in Nat
      BY ReadIsNat
    <3> QED
      BY <1>12, <2>1, <3>1 DEF Permit, HoldFence, PermitMatches, ValidUntil
  <2>2. CASE e # f
    <3>1. HoldFence(e, ts) /\ pc[f] = "writing" /\ now <= until[f]
      BY <1>12, <2>2 DEF Permit, Goto, ValidPermit
    <3> QED
      BY <1>11, <3>1
  <2> QED
    BY <2>1, <2>2
<1>13. ASSUME NEW e \in Executions, NEW ts \in 0..now, PermitUnaudited(e, ts) PROVE Pinned
  <2>1. HoldFence(e, ts) /\ pc[f] = "writing" /\ now <= until[f]
    BY <1>13 DEF PermitUnaudited, ValidPermit
  <2> QED
    BY <1>11, <2>1
<1>14. CASE UNCHANGED vars
  BY <1>1, <1>14 DEF vars, row, ValidPermit
<1> QED
  BY <1>2, <1>3, <1>4, <1>5, <1>6, <1>7, <1>8, <1>9, <1>10, <1>12, <1>13, <1>14
     DEF Next, ExecutionStep

\* central.py's guarantee, for executions with distinct owner ids: ownership
\* cannot change while a permit is valid.
THEOREM PermitGuarantee == ASSUME OwnersDistinct PROVE Spec => []PermitHoldsOwnership
<1>1. Init => EpochInv /\ PermitPins
  BY EpochInit DEF Init, PermitPins, ValidPermit
<1>2. (EpochInv /\ PermitPins) /\ [Next]_vars => (EpochInv /\ PermitPins)'
  BY EpochStep, PermitStep
<1>3. EpochInv /\ PermitPins => PermitHoldsOwnership
  BY DEF PermitPins, PermitHoldsOwnership
<1> QED
  BY <1>1, <1>2, <1>3, PTL DEF Spec

\* INV-01, for executions with distinct owner ids: at most one execution is
\* inside a permitted mutation.
THEOREM SingleWriter == ASSUME OwnersDistinct PROVE Spec => []OneWriter
<1>1. PermitHoldsOwnership => OneWriter
  BY DEF PermitHoldsOwnership, OneWriter, OwnersDistinct
<1> QED
  BY <1>1, PermitGuarantee, PTL

-----------------------------------------------------------------------------
\* INV-05: a HELD row can be claimed again at most one lease or one permit
\* from now, whoever died or failed holding it.
THEOREM LeaseLifetime == Spec => []LeaseIsBounded
<1> USE DEF LeaseIsBounded
<1>1. Init => TypeOK /\ LeaseIsBounded
  BY DEF Init, TypeOK, ExecutionPC
<1>2. TypeOK /\ LeaseIsBounded /\ [Next]_vars => TypeOK' /\ LeaseIsBounded'
  <2> SUFFICES ASSUME TypeOK, LeaseIsBounded, [Next]_vars PROVE LeaseIsBounded'
    BY TypeStep
  <2> USE DEF TypeOK
  <2>1. CASE Tick
    BY <2>1 DEF Tick, row
  <2>2. ASSUME UNCHANGED row, now' = now PROVE LeaseIsBounded'
    BY <2>2 DEF row
  <2>3. ASSUME Free PROVE LeaseIsBounded'
    BY <2>3 DEF Free
  <2>4. ASSUME NEW e \in Executions, NEW ts \in 0..now, now' = now,
               Claim(e, ts) \/ HoldFence(e, ts)
        PROVE LeaseIsBounded'
    BY <2>4, ReadIsNat DEF Claim, HoldFence, ValidUntil
  <2>5. ASSUME NEW e \in Executions, Begin(e) \/ Unavailable(e) \/ Write(e) \/ Kill(e)
        PROVE LeaseIsBounded'
    BY <2>2, <2>5 DEF Begin, Unavailable, Write, Kill
  <2>6. ASSUME NEW e \in Executions, Release(e) PROVE LeaseIsBounded'
    BY <2>2, <2>3, <2>6 DEF Release
  <2>7. ASSUME NEW e \in Executions, NEW ts \in 0..now,
               Reconcile(e, ts) \/ ReconcileUnaudited(e, ts)
        PROVE LeaseIsBounded'
    BY <2>2, <2>3, <2>7 DEF Reconcile, ReconcileUnaudited, Reclaimed
  <2>8. ASSUME NEW e \in Executions, NEW ts \in 0..now,
               Acquire(e, ts) \/ AcquireUnaudited(e, ts)
        PROVE LeaseIsBounded'
    BY <2>2, <2>4, <2>8 DEF Acquire, AcquireUnaudited
  <2>9. ASSUME NEW e \in Executions, NEW ts \in 0..now,
               Permit(e, ts) \/ PermitUnaudited(e, ts)
        PROVE LeaseIsBounded'
    BY <2>4, <2>9 DEF Permit, PermitUnaudited
  <2>10. CASE UNCHANGED vars
    BY <2>2, <2>10 DEF vars
  <2> QED
    BY <2>1, <2>5, <2>6, <2>7, <2>8, <2>9, <2>10 DEF Next, ExecutionStep
<1> QED
  BY <1>1, <1>2, PTL DEF Spec
=============================================================================
