---------------------------- MODULE OutboxProofs ----------------------------
(***************************************************************************)
(* What TLAPS proves of Outbox, for every number of workers and rows,      *)
(* every text, attempt limit, wiring and set of faults: the types, that    *)
(* nothing claims a transmission the chat has not accepted and, as long as *)
(* no dispatch outlives its lease, that status and receipt agree and that  *)
(* only a lost answer lets the chat hear a row twice.                      *)
(***************************************************************************)
EXTENDS Outbox, FiniteSetTheorems, TLAPS

USE DEF rowVars, chatVars, workerVars, adapterVars

\* The row a worker is at is a row of the task once it has selected one.
AtRow == \A w \in Workers : pc[w] \notin {"idle", "dead"} => cur[w] \in Rows

\* The chat has accepted a text.
Heard(t) == \E q \in Rows : Text[q] = t /\ sent[q] > 0

\* Local knowledge of a worker is true: a loaded marker, an outcome that is
\* about to be committed, and the text its adapter believes is shown.
LocalTruth ==
    \A w \in Workers :
        /\ pc[w] = "check" /\ item[w].marker => Said(cur[w])
        /\ pc[w] \in {"mark", "receipt"} /\ out[w].transmitted => Said(cur[w])
        /\ shown[w] # NoText => Heard(shown[w])

\* What "mark" is reached with.
MarkTransmits == \A w \in Workers : pc[w] = "mark" => out[w].transmitted

DeliveryInv ==
    /\ TypeOK /\ AtRow /\ LocalTruth /\ MarkTransmits /\ DeliveredWasSaid

-----------------------------------------------------------------------------
\* The initial state: no row, no worker at work.
LEMMA InitInv == Init => DeliveryInv
  BY TextAssumption, RowsAssumption
  DEF Init, DeliveryInv, TypeOK, RowsTyped, ReceiptsTyped, ChatTyped, WorkersTyped,
      AdaptersTyped, AtRow, LocalTruth, MarkTransmits, DeliveredWasSaid,
      Status, Receipt, NoReceipt, NoItem, NoOutcome, WorkerPC
\* The position of a new receipt is a number.
LEMMA ReceiptCount == Cardinality({q \in Rows : receipt[q].exists}) \in Nat
  <1>1. IsFiniteSet(Rows)
    BY FS_Interval, RowsAssumption DEF Rows
  <1>2. IsFiniteSet({q \in Rows : receipt[q].exists})
    BY <1>1, FS_Subset
  <1> QED
    BY <1>2, FS_CardinalityType

\* A row's text is a text, and not the adapter's blank.
LEMMA TextOfRow == ASSUME NEW r \in Rows PROVE Text[r] \in Texts /\ Text[r] # NoText
  BY TextAssumption DEF Texts

\* Every step keeps the types.
LEMMA TypeStep == ASSUME TypeOK, AtRow, [Next]_vars PROVE TypeOK'
  <1> USE DEF TypeOK
  <1>1. ASSUME NEW r \in Rows, Enqueue(r) PROVE TypeOK'
    <2>1. RowsTyped'
      BY <1>1 DEF Enqueue, RowsTyped, Status
    <2> QED
      BY <1>1, <2>1 DEF Enqueue, ReceiptsTyped, ChatTyped, WorkersTyped, AdaptersTyped
  <1>2. ASSUME NEW w \in Workers, NEW r \in Rows, Select(w, r) PROVE TypeOK'
    <2>1. WorkersTyped'
      BY <1>2 DEF Select, WorkersTyped, Goto, WorkerPC
    <2> QED
      BY <1>2, <2>1 DEF Select, RowsTyped, ReceiptsTyped, ChatTyped, AdaptersTyped
  <1>3. ASSUME NEW w \in Workers, ClaimUpdate(w) PROVE TypeOK'
    <2>1. RowsTyped'
      BY <1>3 DEF ClaimUpdate, RowsTyped, Status
    <2>2. WorkersTyped'
      BY <1>3 DEF ClaimUpdate, WorkersTyped, Goto, WorkerPC
    <2> QED
      BY <1>3, <2>1, <2>2 DEF ClaimUpdate, ReceiptsTyped, ChatTyped, AdaptersTyped
  <1>4. ASSUME NEW w \in Workers, Load(w) PROVE TypeOK'
    <2>1. WorkersTyped'
      BY <1>4 DEF Load, WorkersTyped, Goto, WorkerPC, AtRow, RowsTyped
    <2> QED
      BY <1>4, <2>1 DEF Load, RowsTyped, ReceiptsTyped, ChatTyped, AdaptersTyped
  <1>5. ASSUME NEW w \in Workers, FoundReceipt(w) PROVE TypeOK'
    <2>1. RowsTyped'
      BY <1>5 DEF FoundReceipt, RowsTyped, Settle, Status
    <2>2. WorkersTyped'
      BY <1>5 DEF FoundReceipt, WorkersTyped, Goto, WorkerPC
    <2> QED
      BY <1>5, <2>1, <2>2 DEF FoundReceipt, ReceiptsTyped, ChatTyped, AdaptersTyped
  <1>6. ASSUME NEW w \in Workers, FoundMarker(w) PROVE TypeOK'
    <2>1. WorkersTyped'
      BY <1>6 DEF FoundMarker, WorkersTyped, Goto, WorkerPC
    <2> QED
      BY <1>6, <2>1 DEF FoundMarker, RowsTyped, ReceiptsTyped, ChatTyped, AdaptersTyped
  <1>7. ASSUME NEW w \in Workers, Dispatch(w) PROVE TypeOK'
    <2>1. WorkersTyped'
      BY <1>7 DEF Dispatch, WorkersTyped, Goto, WorkerPC
    <2>2. AdaptersTyped'
      BY <1>7 DEF Dispatch, AdaptersTyped, Receipt, ReceiptsTyped, IsLatest
    <2> QED
      BY <1>7, <2>1, <2>2 DEF Dispatch, RowsTyped, ReceiptsTyped, ChatTyped
  <1>8. ASSUME NEW w \in Workers, Simulate(w) PROVE TypeOK'
    <2>1. WorkersTyped'
      BY <1>8 DEF Simulate, WorkersTyped, Goto, WorkerPC, NoOutcome
    <2> QED
      BY <1>8, <2>1 DEF Simulate, RowsTyped, ReceiptsTyped, ChatTyped, AdaptersTyped
  <1>9. ASSUME NEW w \in Workers, SkipSame(w) PROVE TypeOK'
    <2>1. WorkersTyped'
      BY <1>9 DEF SkipSame, WorkersTyped, Goto, WorkerPC, AdaptersTyped
    <2> QED
      BY <1>9, <2>1 DEF SkipSame, RowsTyped, ReceiptsTyped, ChatTyped, AdaptersTyped
  <1>10. ASSUME NEW w \in Workers, Send(w) PROVE TypeOK'
    <2>1. ChatTyped'
      <3>1. cur[w] \in Rows
        BY <1>10 DEF Send, AtRow
      <3>2. sent' \in [Rows -> Nat]
        BY <1>10, <3>1 DEF Send, Accept, ChatTyped
      <3> QED
        BY <1>10, <3>2 DEF Send, Accept, ChatTyped
    <2>2. WorkersTyped'
      BY <1>10 DEF Send, WorkersTyped, Goto, WorkerPC, ChatTyped
    <2>3. AdaptersTyped'
      BY <1>10, TextOfRow DEF Send, AdaptersTyped, Close, ChatTyped, AtRow
    <2> QED
      BY <1>10, <2>1, <2>2, <2>3 DEF Send, RowsTyped, ReceiptsTyped
  <1>11. ASSUME NEW w \in Workers, Edit(w) PROVE TypeOK'
    <2>1. ChatTyped'
      <3>1. cur[w] \in Rows
        BY <1>11 DEF Edit, AtRow
      <3>2. sent' \in [Rows -> Nat]
        BY <1>11, <3>1 DEF Edit, ChatTyped
      <3> QED
        BY <1>11, <3>2 DEF Edit, ChatTyped
    <2>2. WorkersTyped'
      BY <1>11 DEF Edit, WorkersTyped, Goto, WorkerPC, AdaptersTyped
    <2>3. AdaptersTyped'
      BY <1>11, TextOfRow DEF Edit, AdaptersTyped, AtRow
    <2> QED
      BY <1>11, <2>1, <2>2, <2>3 DEF Edit, RowsTyped, ReceiptsTyped
  <1>12. ASSUME NEW w \in Workers, EditRejected(w) PROVE TypeOK'
    <2>1. AdaptersTyped'
      BY <1>12 DEF EditRejected, AdaptersTyped
    <2> QED
      BY <1>12, <2>1 DEF EditRejected, RowsTyped, ReceiptsTyped, ChatTyped, WorkersTyped
  <1>13. ASSUME NEW w \in Workers, Refused(w) PROVE TypeOK'
    <2>1. WorkersTyped'
      BY <1>13 DEF Refused, WorkersTyped, Goto, WorkerPC
    <2>2. AdaptersTyped'
      BY <1>13 DEF Refused, AdaptersTyped, Close
    <2> QED
      BY <1>13, <2>1, <2>2 DEF Refused, RowsTyped, ReceiptsTyped, ChatTyped
  <1>14. ASSUME NEW w \in Workers, TimesOut(w) PROVE TypeOK'
    <2>1. ChatTyped'
      <3>1. cur[w] \in Rows
        BY <1>14 DEF TimesOut, AtRow
      <3>2. sent' \in [Rows -> Nat]
        BY <1>14, <3>1 DEF TimesOut, Accept, ChatTyped
      <3>3. lost' \in [Rows -> Nat]
        BY <1>14, <3>1 DEF TimesOut, ChatTyped
      <3>4. live' \subseteq Nat /\ given' \in Nat
        <4>1. CASE Accept(w)
          BY <4>1 DEF Accept, ChatTyped
        <4>2. CASE ~Accept(w)
          BY <1>14, <4>2 DEF TimesOut, ChatTyped
        <4> QED
          BY <4>1, <4>2
      <3>5. faults' = faults
        BY <1>14 DEF TimesOut
      <3> QED
        BY <3>2, <3>3, <3>4, <3>5 DEF ChatTyped
    <2>2. WorkersTyped'
      BY <1>14 DEF TimesOut, WorkersTyped, Goto, WorkerPC
    <2>3. AdaptersTyped'
      BY <1>14 DEF TimesOut, AdaptersTyped, Close
    <2> QED
      BY <1>14, <2>1, <2>2, <2>3 DEF TimesOut, RowsTyped, ReceiptsTyped
  <1>15. ASSUME NEW w \in Workers, Misconfigured(w) PROVE TypeOK'
    <2>1. WorkersTyped'
      BY <1>15 DEF Misconfigured, WorkersTyped, Goto, WorkerPC
    <2> QED
      BY <1>15, <2>1 DEF Misconfigured, RowsTyped, ReceiptsTyped, ChatTyped, AdaptersTyped
  <1>16. ASSUME NEW w \in Workers, Fail(w) PROVE TypeOK'
    <2>1. RowsTyped'
      BY <1>16 DEF Fail, RowsTyped, Settle, Status
    <2>2. WorkersTyped'
      BY <1>16 DEF Fail, WorkersTyped, Goto, WorkerPC
    <2> QED
      BY <1>16, <2>1, <2>2 DEF Fail, ReceiptsTyped, ChatTyped, AdaptersTyped
  <1>17. ASSUME NEW w \in Workers, CommitMarker(w) PROVE TypeOK'
    <2>1. RowsTyped'
      BY <1>17 DEF CommitMarker, RowsTyped, MarkNow
    <2>2. WorkersTyped'
      BY <1>17 DEF CommitMarker, WorkersTyped, Goto, WorkerPC
    <2> QED
      BY <1>17, <2>1, <2>2 DEF CommitMarker, ReceiptsTyped, ChatTyped, AdaptersTyped
  <1>18. ASSUME NEW w \in Workers, CommitReceipt(w) PROVE TypeOK'
    <2>1. RowsTyped'
      BY <1>18 DEF CommitReceipt, RowsTyped, Settle, Status, OutcomeStatus
    <2>2. ReceiptsTyped'
      <3>1. CASE ~receipt[cur[w]].exists
        <4>1. out[w].transmitted \in BOOLEAN /\ out[w].msg \in Nat
          BY DEF WorkersTyped
        <4>2. Cardinality({q \in Rows : receipt[q].exists}) + 1 \in Nat
          BY ReceiptCount
        <4> DEFINE fresh == [exists |-> TRUE, transmitted |-> out[w].transmitted,
                             msg |-> out[w].msg,
                             at |-> Cardinality({q \in Rows : receipt[q].exists}) + 1]
        <4>3. fresh \in Receipt
          BY <4>1, <4>2 DEF Receipt
        <4>4. receipt' = [receipt EXCEPT ![cur[w]] = fresh]
          BY <1>18, <3>1 DEF CommitReceipt
        <4> QED
          BY <4>3, <4>4 DEF ReceiptsTyped
      <3>2. CASE receipt[cur[w]].exists
        BY <1>18, <3>2 DEF CommitReceipt, ReceiptsTyped
      <3> QED
        BY <3>1, <3>2
    <2>3. WorkersTyped'
      BY <1>18 DEF CommitReceipt, WorkersTyped, Goto, WorkerPC
    <2> QED
      BY <1>18, <2>1, <2>2, <2>3 DEF CommitReceipt, ChatTyped, AdaptersTyped
  <1>19. ASSUME NEW w \in Workers, Kill(w) PROVE TypeOK'
    <2>1. ChatTyped'
      <3>1. cur[w] \in Rows
        BY <1>19 DEF Kill, AtRow
      <3>2. lost' \in [Rows -> Nat]
        BY <1>19, <3>1 DEF Kill, ChatTyped
      <3> QED
        BY <1>19, <3>2 DEF Kill, CountFault, ChatTyped
    <2>2. WorkersTyped'
      BY <1>19 DEF Kill, WorkersTyped, Goto, WorkerPC
    <2> QED
      BY <1>19, <2>1, <2>2 DEF Kill, RowsTyped, ReceiptsTyped, AdaptersTyped
  <1>20. ASSUME NEW w \in Workers, Stop(w) PROVE TypeOK'
    <2>1. ChatTyped'
      BY <1>20 DEF Stop, ChatTyped, CountFault
    <2>2. WorkersTyped'
      BY <1>20 DEF Stop, WorkersTyped, Goto, WorkerPC
    <2> QED
      BY <1>20, <2>1, <2>2 DEF Stop, RowsTyped, ReceiptsTyped, AdaptersTyped
  <1>21. ASSUME NEW w \in Workers, Restart(w) PROVE TypeOK'
    <2>1. WorkersTyped'
      BY <1>21 DEF Restart, WorkersTyped, Goto, WorkerPC
    <2>2. AdaptersTyped'
      BY <1>21 DEF Restart, AdaptersTyped
    <2> QED
      BY <1>21, <2>1, <2>2 DEF Restart, RowsTyped, ReceiptsTyped, ChatTyped
  <1>22. ASSUME NEW r \in Rows, LeaseExpires(r) PROVE TypeOK'
    <2>1. RowsTyped'
      BY <1>22 DEF LeaseExpires, RowsTyped
    <2> QED
      BY <1>22, <2>1 DEF LeaseExpires, ReceiptsTyped, ChatTyped, WorkersTyped, AdaptersTyped
  <1>23. ASSUME NEW r \in Rows, LeaseLapses(r) PROVE TypeOK'
    <2>1. RowsTyped'
      BY <1>23 DEF LeaseLapses, RowsTyped
    <2>2. ChatTyped'
      BY <1>23 DEF LeaseLapses, ChatTyped, CountFault
    <2> QED
      BY <1>23, <2>1, <2>2 DEF LeaseLapses, ReceiptsTyped, WorkersTyped, AdaptersTyped
  <1>24. ASSUME NEW r \in Rows, BackoffElapses(r) PROVE TypeOK'
    <2>1. RowsTyped'
      BY <1>24 DEF BackoffElapses, RowsTyped
    <2> QED
      BY <1>24, <2>1 DEF BackoffElapses, ReceiptsTyped, ChatTyped, WorkersTyped, AdaptersTyped
  <1>25. ASSUME ChatDeletes PROVE TypeOK'
    <2>1. ChatTyped'
      BY <1>25 DEF ChatDeletes, ChatTyped, CountFault
    <2> QED
      BY <1>25, <2>1 DEF ChatDeletes, RowsTyped, ReceiptsTyped, WorkersTyped, AdaptersTyped
  <1>26. CASE UNCHANGED vars
    BY <1>26 DEF vars, RowsTyped, ReceiptsTyped, ChatTyped, WorkersTyped, AdaptersTyped
  <1> QED
    BY <1>1, <1>2, <1>3, <1>4, <1>5, <1>6, <1>7, <1>8, <1>9, <1>10, <1>11, <1>12, <1>13, <1>14, <1>15, <1>16, <1>17, <1>18, <1>19, <1>20, <1>21, <1>22, <1>23, <1>24, <1>25, <1>26 DEF Next, WorkerStep

\* What the chat accepted stays accepted: its counters only grow.
LEMMA HeardStays ==
    ASSUME TypeOK, AtRow, [Next]_vars
    PROVE  /\ \A t : Heard(t) => Heard(t)'
           /\ \A r \in Rows : Said(r) => Said(r)'
  <1>1. sent \in [Rows -> Nat]
    BY DEF TypeOK, ChatTyped
  <1>2. sent' = sent \/ \E w \in Workers : cur[w] \in Rows /\ sent' = [sent EXCEPT ![cur[w]] = @ + 1]
    <2>1. ASSUME NEW w \in Workers, Send(w)
         PROVE  sent' = sent \/ (cur[w] \in Rows /\ sent' = [sent EXCEPT ![cur[w]] = @ + 1])
      BY <2>1 DEF Send, Accept, AtRow
    <2>2. ASSUME NEW w \in Workers, Edit(w)
         PROVE  sent' = sent \/ (cur[w] \in Rows /\ sent' = [sent EXCEPT ![cur[w]] = @ + 1])
      BY <2>2 DEF Edit, Accept, AtRow
    <2>3. ASSUME NEW w \in Workers, TimesOut(w)
         PROVE  sent' = sent \/ (cur[w] \in Rows /\ sent' = [sent EXCEPT ![cur[w]] = @ + 1])
      BY <2>3 DEF TimesOut, Accept, AtRow
    <2> QED
      BY <2>1, <2>2, <2>3, ZenonT(60) DEF Next, WorkerStep, vars, Enqueue, Select, ClaimUpdate, Load, FoundReceipt, FoundMarker, Dispatch, Simulate, SkipSame, EditRejected, Refused, Misconfigured, Fail, CommitMarker, CommitReceipt, Kill, Stop, Restart, LeaseExpires, LeaseLapses, BackoffElapses, ChatDeletes
  <1>3. \A q \in Rows : sent[q] > 0 => sent'[q] > 0
    BY <1>1, <1>2
  <1> QED
    BY <1>3 DEF Heard, Said

\* Every step keeps the claims true.
LEMMA TruthStep ==
    ASSUME DeliveryInv, [Next]_vars
    PROVE  AtRow' /\ MarkTransmits' /\ LocalTruth' /\ DeliveredWasSaid'
  <1>1. /\ TypeOK /\ AtRow /\ MarkTransmits /\ LocalTruth /\ DeliveredWasSaid
        /\ WorkersTyped /\ AdaptersTyped
    BY DEF DeliveryInv, TypeOK
  <1>2. /\ \A t : Heard(t) => Heard(t)'
        /\ \A r \in Rows : Said(r) => Said(r)'
    BY <1>1, HeardStays
  <1>3. ASSUME NEW r \in Rows, Enqueue(r)
        PROVE  AtRow' /\ MarkTransmits' /\ LocalTruth' /\ DeliveredWasSaid'
    <2>1. AtRow'
      BY <1>1, <1>2, <1>3 DEF Enqueue, AtRow, WorkersTyped
    <2>2. MarkTransmits'
      BY <1>1, <1>2, <1>3 DEF Enqueue, MarkTransmits, WorkersTyped
    <2>3. LocalTruth'
      BY <1>1, <1>2, <1>3 DEF Enqueue, LocalTruth, WorkersTyped, AdaptersTyped, AtRow
    <2>4. DeliveredWasSaid'
      BY <1>1, <1>2, <1>3 DEF Enqueue, DeliveredWasSaid, RowsTyped, ReceiptsTyped, TypeOK
    <2> QED
      BY <2>1, <2>2, <2>3, <2>4
  <1>4. ASSUME NEW w \in Workers, NEW r \in Rows, Select(w, r)
        PROVE  AtRow' /\ MarkTransmits' /\ LocalTruth' /\ DeliveredWasSaid'
    <2>1. AtRow'
      BY <1>1, <1>2, <1>4 DEF Select, AtRow, WorkersTyped, Goto
    <2>2. MarkTransmits'
      BY <1>1, <1>2, <1>4 DEF Select, MarkTransmits, WorkersTyped, Goto
    <2>3. LocalTruth'
      BY <1>1, <1>2, <1>4 DEF Select, LocalTruth, WorkersTyped, AdaptersTyped, AtRow, Goto
    <2>4. DeliveredWasSaid'
      BY <1>1, <1>2, <1>4 DEF Select, DeliveredWasSaid, RowsTyped, ReceiptsTyped, TypeOK
    <2> QED
      BY <2>1, <2>2, <2>3, <2>4
  <1>5. ASSUME NEW w \in Workers, ClaimUpdate(w)
        PROVE  AtRow' /\ MarkTransmits' /\ LocalTruth' /\ DeliveredWasSaid'
    <2>1. AtRow'
      BY <1>1, <1>2, <1>5 DEF ClaimUpdate, AtRow, WorkersTyped, Goto
    <2>2. MarkTransmits'
      BY <1>1, <1>2, <1>5 DEF ClaimUpdate, MarkTransmits, WorkersTyped, Goto
    <2>3. LocalTruth'
      BY <1>1, <1>2, <1>5 DEF ClaimUpdate, LocalTruth, WorkersTyped, AdaptersTyped, AtRow, Goto
    <2>4. DeliveredWasSaid'
      BY <1>1, <1>2, <1>5 DEF ClaimUpdate, DeliveredWasSaid, RowsTyped, ReceiptsTyped, TypeOK
    <2> QED
      BY <2>1, <2>2, <2>3, <2>4
  <1>6. ASSUME NEW w \in Workers, Load(w)
        PROVE  AtRow' /\ MarkTransmits' /\ LocalTruth' /\ DeliveredWasSaid'
    <2>1. AtRow'
      BY <1>1, <1>2, <1>6 DEF Load, AtRow, WorkersTyped, Goto
    <2>2. MarkTransmits'
      BY <1>1, <1>2, <1>6 DEF Load, MarkTransmits, WorkersTyped, Goto
    <2>3. LocalTruth'
      BY <1>1, <1>2, <1>6 DEF Load, LocalTruth, WorkersTyped, AdaptersTyped, AtRow, Goto, DeliveredWasSaid, RowsTyped
    <2>4. DeliveredWasSaid'
      BY <1>1, <1>2, <1>6 DEF Load, DeliveredWasSaid, RowsTyped, ReceiptsTyped, TypeOK
    <2> QED
      BY <2>1, <2>2, <2>3, <2>4
  <1>7. ASSUME NEW w \in Workers, FoundReceipt(w)
        PROVE  AtRow' /\ MarkTransmits' /\ LocalTruth' /\ DeliveredWasSaid'
    <2>1. AtRow'
      BY <1>1, <1>2, <1>7 DEF FoundReceipt, AtRow, WorkersTyped, Goto
    <2>2. MarkTransmits'
      BY <1>1, <1>2, <1>7 DEF FoundReceipt, MarkTransmits, WorkersTyped, Goto
    <2>3. LocalTruth'
      BY <1>1, <1>2, <1>7 DEF FoundReceipt, LocalTruth, WorkersTyped, AdaptersTyped, AtRow, Goto
    <2>4. DeliveredWasSaid'
      BY <1>1, <1>2, <1>7 DEF FoundReceipt, DeliveredWasSaid, RowsTyped, ReceiptsTyped, TypeOK, Settle, AtRow
    <2> QED
      BY <2>1, <2>2, <2>3, <2>4
  <1>8. ASSUME NEW w \in Workers, FoundMarker(w)
        PROVE  AtRow' /\ MarkTransmits' /\ LocalTruth' /\ DeliveredWasSaid'
    <2>1. AtRow'
      BY <1>1, <1>2, <1>8 DEF FoundMarker, AtRow, WorkersTyped, Goto
    <2>2. MarkTransmits'
      BY <1>1, <1>2, <1>8 DEF FoundMarker, MarkTransmits, WorkersTyped, Goto
    <2>3. LocalTruth'
      BY <1>1, <1>2, <1>8 DEF FoundMarker, LocalTruth, WorkersTyped, AdaptersTyped, AtRow, Goto, HonoursMarker
    <2>4. DeliveredWasSaid'
      BY <1>1, <1>2, <1>8 DEF FoundMarker, DeliveredWasSaid, RowsTyped, ReceiptsTyped, TypeOK
    <2> QED
      BY <2>1, <2>2, <2>3, <2>4
  <1>9. ASSUME NEW w \in Workers, Dispatch(w)
        PROVE  AtRow' /\ MarkTransmits' /\ LocalTruth' /\ DeliveredWasSaid'
    <2>1. AtRow'
      BY <1>1, <1>2, <1>9 DEF Dispatch, AtRow, WorkersTyped, Goto
    <2>2. MarkTransmits'
      BY <1>1, <1>2, <1>9 DEF Dispatch, MarkTransmits, WorkersTyped, Goto
    <2>3. LocalTruth'
      BY <1>1, <1>2, <1>9 DEF Dispatch, LocalTruth, WorkersTyped, AdaptersTyped, AtRow, Goto
    <2>4. DeliveredWasSaid'
      BY <1>1, <1>2, <1>9 DEF Dispatch, DeliveredWasSaid, RowsTyped, ReceiptsTyped, TypeOK
    <2> QED
      BY <2>1, <2>2, <2>3, <2>4
  <1>10. ASSUME NEW w \in Workers, Simulate(w)
        PROVE  AtRow' /\ MarkTransmits' /\ LocalTruth' /\ DeliveredWasSaid'
    <2>1. AtRow'
      BY <1>1, <1>2, <1>10 DEF Simulate, AtRow, WorkersTyped, Goto
    <2>2. MarkTransmits'
      BY <1>1, <1>2, <1>10 DEF Simulate, MarkTransmits, WorkersTyped, Goto
    <2>3. LocalTruth'
      BY <1>1, <1>2, <1>10 DEF Simulate, LocalTruth, WorkersTyped, AdaptersTyped, AtRow, Goto, NoOutcome
    <2>4. DeliveredWasSaid'
      BY <1>1, <1>2, <1>10 DEF Simulate, DeliveredWasSaid, RowsTyped, ReceiptsTyped, TypeOK
    <2> QED
      BY <2>1, <2>2, <2>3, <2>4
  <1>11. ASSUME NEW w \in Workers, SkipSame(w)
        PROVE  AtRow' /\ MarkTransmits' /\ LocalTruth' /\ DeliveredWasSaid'
    <2>1. AtRow'
      BY <1>1, <1>2, <1>11 DEF SkipSame, AtRow, WorkersTyped, Goto
    <2>2. MarkTransmits'
      BY <1>1, <1>2, <1>11 DEF SkipSame, MarkTransmits, WorkersTyped, Goto
    <2>3. LocalTruth'
      BY <1>1, <1>2, <1>11, TextOfRow DEF SkipSame, LocalTruth, WorkersTyped, AdaptersTyped, AtRow, Goto, ShowsAlready, Said, Heard
    <2>4. DeliveredWasSaid'
      BY <1>1, <1>2, <1>11 DEF SkipSame, DeliveredWasSaid, RowsTyped, ReceiptsTyped, TypeOK
    <2> QED
      BY <2>1, <2>2, <2>3, <2>4
  <1>12. ASSUME NEW w \in Workers, Send(w)
        PROVE  AtRow' /\ MarkTransmits' /\ LocalTruth' /\ DeliveredWasSaid'
    <2>1. AtRow'
      BY <1>1, <1>2, <1>12 DEF Send, AtRow, WorkersTyped, Goto
    <2>2. MarkTransmits'
      BY <1>1, <1>2, <1>12 DEF Send, MarkTransmits, WorkersTyped, Goto
    <2>3. LocalTruth'
      <3>1. cur[w] \in Rows /\ cur' = cur
        BY <1>1, <1>12 DEF Send, AtRow
      <3>2. sent' = [sent EXCEPT ![cur[w]] = @ + 1]
        BY <1>12 DEF Send, Accept
      <3>3. sent'[cur[w]] > 0
        BY <1>1, <3>1, <3>2 DEF TypeOK, ChatTyped
      <3>4. Said(cur[w])' /\ Heard(Text[cur[w]])'
        BY <3>1, <3>3 DEF Said, Heard
      <3>5. shown' = [shown EXCEPT ![w] = Text[cur[w]]] \/ shown' = shown
            \/ shown' = [shown EXCEPT ![w] = NoText]
        BY <1>12 DEF Send, Close
      <3> QED
        BY <1>1, <1>2, <1>12, <3>1, <3>4, <3>5
        DEF Send, LocalTruth, WorkersTyped, AdaptersTyped, AtRow, Goto
    <2>4. DeliveredWasSaid'
      BY <1>1, <1>2, <1>12 DEF Send, DeliveredWasSaid, RowsTyped, ReceiptsTyped, TypeOK
    <2> QED
      BY <2>1, <2>2, <2>3, <2>4
  <1>13. ASSUME NEW w \in Workers, Edit(w)
        PROVE  AtRow' /\ MarkTransmits' /\ LocalTruth' /\ DeliveredWasSaid'
    <2>1. AtRow'
      BY <1>1, <1>2, <1>13 DEF Edit, AtRow, WorkersTyped, Goto
    <2>2. MarkTransmits'
      BY <1>1, <1>2, <1>13 DEF Edit, MarkTransmits, WorkersTyped, Goto
    <2>3. LocalTruth'
      <3>1. cur[w] \in Rows /\ cur' = cur
        BY <1>1, <1>13 DEF Edit, AtRow
      <3>2. sent'[cur[w]] > 0
        BY <1>1, <1>13, <3>1 DEF Edit, TypeOK, ChatTyped
      <3>3. Said(cur[w])' /\ Heard(Text[cur[w]])'
        BY <3>1, <3>2 DEF Said, Heard
      <3> QED
        BY <1>1, <1>2, <1>13, <3>1, <3>3
        DEF Edit, LocalTruth, WorkersTyped, AdaptersTyped, AtRow, Goto
    <2>4. DeliveredWasSaid'
      BY <1>1, <1>2, <1>13 DEF Edit, DeliveredWasSaid, RowsTyped, ReceiptsTyped, TypeOK
    <2> QED
      BY <2>1, <2>2, <2>3, <2>4
  <1>14. ASSUME NEW w \in Workers, EditRejected(w)
        PROVE  AtRow' /\ MarkTransmits' /\ LocalTruth' /\ DeliveredWasSaid'
    <2>1. AtRow'
      BY <1>1, <1>2, <1>14 DEF EditRejected, AtRow, WorkersTyped
    <2>2. MarkTransmits'
      BY <1>1, <1>2, <1>14 DEF EditRejected, MarkTransmits, WorkersTyped
    <2>3. LocalTruth'
      BY <1>1, <1>2, <1>14 DEF EditRejected, LocalTruth, WorkersTyped, AdaptersTyped, AtRow
    <2>4. DeliveredWasSaid'
      BY <1>1, <1>2, <1>14 DEF EditRejected, DeliveredWasSaid, RowsTyped, ReceiptsTyped, TypeOK
    <2> QED
      BY <2>1, <2>2, <2>3, <2>4
  <1>15. ASSUME NEW w \in Workers, Refused(w)
        PROVE  AtRow' /\ MarkTransmits' /\ LocalTruth' /\ DeliveredWasSaid'
    <2>1. AtRow'
      BY <1>1, <1>2, <1>15 DEF Refused, AtRow, WorkersTyped, Goto
    <2>2. MarkTransmits'
      BY <1>1, <1>2, <1>15 DEF Refused, MarkTransmits, WorkersTyped, Goto
    <2>3. LocalTruth'
      BY <1>1, <1>2, <1>15 DEF Refused, LocalTruth, WorkersTyped, AdaptersTyped, AtRow, Goto, Close
    <2>4. DeliveredWasSaid'
      BY <1>1, <1>2, <1>15 DEF Refused, DeliveredWasSaid, RowsTyped, ReceiptsTyped, TypeOK
    <2> QED
      BY <2>1, <2>2, <2>3, <2>4
  <1>16. ASSUME NEW w \in Workers, TimesOut(w)
        PROVE  AtRow' /\ MarkTransmits' /\ LocalTruth' /\ DeliveredWasSaid'
    <2>1. AtRow'
      BY <1>1, <1>2, <1>16 DEF TimesOut, AtRow, WorkersTyped, Goto
    <2>2. MarkTransmits'
      BY <1>1, <1>2, <1>16 DEF TimesOut, MarkTransmits, WorkersTyped, Goto
    <2>3. LocalTruth'
      BY <1>1, <1>2, <1>16 DEF TimesOut, LocalTruth, WorkersTyped, AdaptersTyped, AtRow, Goto, Close
    <2>4. DeliveredWasSaid'
      BY <1>1, <1>2, <1>16 DEF TimesOut, DeliveredWasSaid, RowsTyped, ReceiptsTyped, TypeOK
    <2> QED
      BY <2>1, <2>2, <2>3, <2>4
  <1>17. ASSUME NEW w \in Workers, Misconfigured(w)
        PROVE  AtRow' /\ MarkTransmits' /\ LocalTruth' /\ DeliveredWasSaid'
    <2>1. AtRow'
      BY <1>1, <1>2, <1>17 DEF Misconfigured, AtRow, WorkersTyped, Goto
    <2>2. MarkTransmits'
      BY <1>1, <1>2, <1>17 DEF Misconfigured, MarkTransmits, WorkersTyped, Goto
    <2>3. LocalTruth'
      BY <1>1, <1>2, <1>17 DEF Misconfigured, LocalTruth, WorkersTyped, AdaptersTyped, AtRow, Goto
    <2>4. DeliveredWasSaid'
      BY <1>1, <1>2, <1>17 DEF Misconfigured, DeliveredWasSaid, RowsTyped, ReceiptsTyped, TypeOK
    <2> QED
      BY <2>1, <2>2, <2>3, <2>4
  <1>18. ASSUME NEW w \in Workers, Fail(w)
        PROVE  AtRow' /\ MarkTransmits' /\ LocalTruth' /\ DeliveredWasSaid'
    <2>1. AtRow'
      BY <1>1, <1>2, <1>18 DEF Fail, AtRow, WorkersTyped, Goto
    <2>2. MarkTransmits'
      BY <1>1, <1>2, <1>18 DEF Fail, MarkTransmits, WorkersTyped, Goto
    <2>3. LocalTruth'
      BY <1>1, <1>2, <1>18 DEF Fail, LocalTruth, WorkersTyped, AdaptersTyped, AtRow, Goto
    <2>4. DeliveredWasSaid'
      BY <1>1, <1>2, <1>18 DEF Fail, DeliveredWasSaid, RowsTyped, ReceiptsTyped, TypeOK, Settle
    <2> QED
      BY <2>1, <2>2, <2>3, <2>4
  <1>19. ASSUME NEW w \in Workers, CommitMarker(w)
        PROVE  AtRow' /\ MarkTransmits' /\ LocalTruth' /\ DeliveredWasSaid'
    <2>1. AtRow'
      BY <1>1, <1>2, <1>19 DEF CommitMarker, AtRow, WorkersTyped, Goto
    <2>2. MarkTransmits'
      BY <1>1, <1>2, <1>19 DEF CommitMarker, MarkTransmits, WorkersTyped, Goto
    <2>3. LocalTruth'
      BY <1>1, <1>2, <1>19 DEF CommitMarker, LocalTruth, WorkersTyped, AdaptersTyped, AtRow, Goto
    <2>4. DeliveredWasSaid'
      BY <1>1, <1>2, <1>19 DEF CommitMarker, DeliveredWasSaid, RowsTyped, ReceiptsTyped, TypeOK, MarkNow, MarkTransmits, LocalTruth
    <2> QED
      BY <2>1, <2>2, <2>3, <2>4
  <1>20. ASSUME NEW w \in Workers, CommitReceipt(w)
        PROVE  AtRow' /\ MarkTransmits' /\ LocalTruth' /\ DeliveredWasSaid'
    <2>1. AtRow'
      BY <1>1, <1>2, <1>20 DEF CommitReceipt, AtRow, WorkersTyped, Goto
    <2>2. MarkTransmits'
      BY <1>1, <1>2, <1>20 DEF CommitReceipt, MarkTransmits, WorkersTyped, Goto
    <2>3. LocalTruth'
      BY <1>1, <1>2, <1>20 DEF CommitReceipt, LocalTruth, WorkersTyped, AdaptersTyped, AtRow, Goto
    <2>4. DeliveredWasSaid'
      <3>1. cur[w] \in Rows /\ (out[w].transmitted => Said(cur[w]))
        BY <1>1, <1>20 DEF CommitReceipt, AtRow, LocalTruth
      <3>2. CASE ~receipt[cur[w]].exists
        <4>1. /\ \A r \in Rows : r # cur[w] => receipt'[r] = receipt[r] /\ status'[r] = status[r]
              /\ receipt'[cur[w]].transmitted = out[w].transmitted
              /\ status'[cur[w]] = OutcomeStatus(w)
              /\ marker' = marker
          BY <1>1, <1>20, <3>1, <3>2
          DEF CommitReceipt, Settle, RowsTyped, ReceiptsTyped, TypeOK
        <4> QED
          BY <1>1, <1>2, <3>1, <4>1 DEF DeliveredWasSaid, OutcomeStatus
      <3>3. CASE receipt[cur[w]].exists
        BY <1>1, <1>2, <1>20, <3>3 DEF CommitReceipt, DeliveredWasSaid
      <3> QED
        BY <3>2, <3>3
    <2> QED
      BY <2>1, <2>2, <2>3, <2>4
  <1>21. ASSUME NEW w \in Workers, Kill(w)
        PROVE  AtRow' /\ MarkTransmits' /\ LocalTruth' /\ DeliveredWasSaid'
    <2>1. AtRow'
      BY <1>1, <1>2, <1>21 DEF Kill, AtRow, WorkersTyped, Goto
    <2>2. MarkTransmits'
      BY <1>1, <1>2, <1>21 DEF Kill, MarkTransmits, WorkersTyped, Goto
    <2>3. LocalTruth'
      BY <1>1, <1>2, <1>21 DEF Kill, LocalTruth, WorkersTyped, AdaptersTyped, AtRow, Goto
    <2>4. DeliveredWasSaid'
      BY <1>1, <1>2, <1>21 DEF Kill, DeliveredWasSaid, RowsTyped, ReceiptsTyped, TypeOK
    <2> QED
      BY <2>1, <2>2, <2>3, <2>4
  <1>22. ASSUME NEW w \in Workers, Stop(w)
        PROVE  AtRow' /\ MarkTransmits' /\ LocalTruth' /\ DeliveredWasSaid'
    <2>1. AtRow'
      BY <1>1, <1>2, <1>22 DEF Stop, AtRow, WorkersTyped, Goto
    <2>2. MarkTransmits'
      BY <1>1, <1>2, <1>22 DEF Stop, MarkTransmits, WorkersTyped, Goto
    <2>3. LocalTruth'
      BY <1>1, <1>2, <1>22 DEF Stop, LocalTruth, WorkersTyped, AdaptersTyped, AtRow, Goto
    <2>4. DeliveredWasSaid'
      BY <1>1, <1>2, <1>22 DEF Stop, DeliveredWasSaid, RowsTyped, ReceiptsTyped, TypeOK
    <2> QED
      BY <2>1, <2>2, <2>3, <2>4
  <1>23. ASSUME NEW w \in Workers, Restart(w)
        PROVE  AtRow' /\ MarkTransmits' /\ LocalTruth' /\ DeliveredWasSaid'
    <2>1. AtRow'
      BY <1>1, <1>2, <1>23 DEF Restart, AtRow, WorkersTyped, Goto
    <2>2. MarkTransmits'
      BY <1>1, <1>2, <1>23 DEF Restart, MarkTransmits, WorkersTyped, Goto
    <2>3. LocalTruth'
      BY <1>1, <1>2, <1>23 DEF Restart, LocalTruth, WorkersTyped, AdaptersTyped, AtRow, Goto
    <2>4. DeliveredWasSaid'
      BY <1>1, <1>2, <1>23 DEF Restart, DeliveredWasSaid, RowsTyped, ReceiptsTyped, TypeOK
    <2> QED
      BY <2>1, <2>2, <2>3, <2>4
  <1>24. ASSUME NEW r \in Rows, LeaseExpires(r)
        PROVE  AtRow' /\ MarkTransmits' /\ LocalTruth' /\ DeliveredWasSaid'
    <2>1. AtRow'
      BY <1>1, <1>2, <1>24 DEF LeaseExpires, AtRow, WorkersTyped
    <2>2. MarkTransmits'
      BY <1>1, <1>2, <1>24 DEF LeaseExpires, MarkTransmits, WorkersTyped
    <2>3. LocalTruth'
      BY <1>1, <1>2, <1>24 DEF LeaseExpires, LocalTruth, WorkersTyped, AdaptersTyped, AtRow
    <2>4. DeliveredWasSaid'
      BY <1>1, <1>2, <1>24 DEF LeaseExpires, DeliveredWasSaid, RowsTyped, ReceiptsTyped, TypeOK
    <2> QED
      BY <2>1, <2>2, <2>3, <2>4
  <1>25. ASSUME NEW r \in Rows, LeaseLapses(r)
        PROVE  AtRow' /\ MarkTransmits' /\ LocalTruth' /\ DeliveredWasSaid'
    <2>1. AtRow'
      BY <1>1, <1>2, <1>25 DEF LeaseLapses, AtRow, WorkersTyped
    <2>2. MarkTransmits'
      BY <1>1, <1>2, <1>25 DEF LeaseLapses, MarkTransmits, WorkersTyped
    <2>3. LocalTruth'
      BY <1>1, <1>2, <1>25 DEF LeaseLapses, LocalTruth, WorkersTyped, AdaptersTyped, AtRow
    <2>4. DeliveredWasSaid'
      BY <1>1, <1>2, <1>25 DEF LeaseLapses, DeliveredWasSaid, RowsTyped, ReceiptsTyped, TypeOK
    <2> QED
      BY <2>1, <2>2, <2>3, <2>4
  <1>26. ASSUME NEW r \in Rows, BackoffElapses(r)
        PROVE  AtRow' /\ MarkTransmits' /\ LocalTruth' /\ DeliveredWasSaid'
    <2>1. AtRow'
      BY <1>1, <1>2, <1>26 DEF BackoffElapses, AtRow, WorkersTyped
    <2>2. MarkTransmits'
      BY <1>1, <1>2, <1>26 DEF BackoffElapses, MarkTransmits, WorkersTyped
    <2>3. LocalTruth'
      BY <1>1, <1>2, <1>26 DEF BackoffElapses, LocalTruth, WorkersTyped, AdaptersTyped, AtRow
    <2>4. DeliveredWasSaid'
      BY <1>1, <1>2, <1>26 DEF BackoffElapses, DeliveredWasSaid, RowsTyped, ReceiptsTyped, TypeOK
    <2> QED
      BY <2>1, <2>2, <2>3, <2>4
  <1>27. ASSUME ChatDeletes
        PROVE  AtRow' /\ MarkTransmits' /\ LocalTruth' /\ DeliveredWasSaid'
    <2>1. AtRow'
      BY <1>1, <1>2, <1>27 DEF ChatDeletes, AtRow, WorkersTyped
    <2>2. MarkTransmits'
      BY <1>1, <1>2, <1>27 DEF ChatDeletes, MarkTransmits, WorkersTyped
    <2>3. LocalTruth'
      BY <1>1, <1>2, <1>27 DEF ChatDeletes, LocalTruth, WorkersTyped, AdaptersTyped, AtRow
    <2>4. DeliveredWasSaid'
      BY <1>1, <1>2, <1>27 DEF ChatDeletes, DeliveredWasSaid, RowsTyped, ReceiptsTyped, TypeOK
    <2> QED
      BY <2>1, <2>2, <2>3, <2>4
  <1>28. CASE UNCHANGED vars
    BY <1>1, <1>2, <1>28 DEF vars, AtRow, MarkTransmits, LocalTruth, DeliveredWasSaid
  <1> QED
    BY <1>3, <1>4, <1>5, <1>6, <1>7, <1>8, <1>9, <1>10, <1>11, <1>12, <1>13, <1>14, <1>15, <1>16, <1>17, <1>18, <1>19, <1>20, <1>21, <1>22, <1>23, <1>24, <1>25, <1>26, <1>27, <1>28 DEF Next, WorkerStep

-----------------------------------------------------------------------------
\* DeliveryInv is an invariant of the outbox.
THEOREM DeliveryInvariant == Spec => []DeliveryInv
  <1>1. DeliveryInv /\ [Next]_vars => DeliveryInv'
    BY TypeStep, TruthStep DEF DeliveryInv
  <1> QED
    BY InitInv, <1>1, PTL DEF Spec

\* Rows, receipts, chat, workers and adapters stay typed, whatever fails.
THEOREM OutboxTypeCorrect == Spec => []TypeOK
  <1>1. DeliveryInv => TypeOK
    BY DEF DeliveryInv
  <1> QED
    BY DeliveryInvariant, <1>1, PTL

\* No false DELIVERED: a status, a delivered_at or a receipt that claims a
\* transmission is backed by a call the chat accepted.
THEOREM DeliveredWasSaidCorrect == Spec => []DeliveredWasSaid
  <1>1. DeliveryInv => DeliveredWasSaid
    BY DEF DeliveryInv
  <1> QED
    BY DeliveryInvariant, <1>1, PTL

-----------------------------------------------------------------------------
(***************************************************************************)
(* While leases cover dispatches.                                          *)
(***************************************************************************)

\* A worker dispatches the row it claimed.
Serving(w) == pc[w] \notin {"dead", "idle", "claim"}

\* A row has a lease exactly while it is SENDING.
LeaseOfSending == \A r \in Rows : lease[r] # "none" <=> status[r] = "SENDING"

\* The lease of a served row runs, and the row has one server.
Held == \A w \in Workers : Serving(w) => lease[cur[w]] = "live"
Alone == \A w, v \in Workers : Serving(w) /\ Serving(v) /\ cur[w] = cur[v] => w = v

\* What a server knows of its row is what the row's columns hold.
Known ==
    \A w \in Workers :
        /\ pc[w] = "check" => (item[w].marker <=> marker[cur[w]])
        /\ pc[w] \in {"send", "retry", "giveup", "mark"} =>
               ~receipt[cur[w]].exists /\ ~marker[cur[w]]
        /\ pc[w] = "receipt" =>
               ~receipt[cur[w]].exists /\ (out[w].transmitted <=> marker[cur[w]])

\* A receipt and the marker of a row agree.
ReceiptAgrees == \A r \in Rows : receipt[r].exists => (receipt[r].transmitted <=> marker[r])

\* A row's status tells its receipt.
StatusTells ==
    \A r \in Rows :
        /\ receipt[r].exists /\ status[r] \in Final =>
               status[r] = IF receipt[r].transmitted THEN "DELIVERED" ELSE "SIMULATED"
        /\ status[r] \in {"DELIVERED", "SIMULATED"} => receipt[r].exists

\* A call whose answer is known and not lost: marked, or about to be.
Answered(r) == marker[r] \/ \E w \in Workers : cur[w] = r /\ pc[w] = "mark"

\* Without such a call every accepted one was lost; with it, all but one.
Counted ==
    \A r \in Rows : /\ sent[r] <= 1 + lost[r]
                    /\ ~Answered(r) => sent[r] <= lost[r]

Calm == Held /\ Alone /\ Known /\ ReceiptAgrees /\ StatusTells /\ Counted

CalmInv == LeaseOfSending /\ (~faults.stalled => Calm)

\* The initial state: nothing is leased, served, received or sent.
LEMMA InitCalm == Init => CalmInv
  BY DEF Init, CalmInv, LeaseOfSending, Calm, Held, Alone, Known, ReceiptAgrees,
      StatusTells, Counted, Answered, Serving, NoReceipt, Final

\* Every step keeps CalmInv.
LEMMA CalmStep == ASSUME DeliveryInv, CalmInv, [Next]_vars PROVE CalmInv'
  <1>1. /\ TypeOK /\ AtRow /\ MarkTransmits /\ LeaseOfSending
        /\ status \in [Rows -> Status] /\ lease \in [Rows -> {"none", "live", "expired"}]
        /\ marker \in [Rows -> BOOLEAN] /\ receipt \in [Rows -> Receipt]
        /\ sent \in [Rows -> Nat] /\ lost \in [Rows -> Nat]
        /\ pc \in [Workers -> WorkerPC] /\ cur \in [Workers -> Rows \cup {0}]
        /\ item \in [Workers -> [attempts : Nat, marker : BOOLEAN]]
        /\ out \in [Workers -> [transmitted : BOOLEAN, msg : Nat]]
        /\ faults \in [count : Nat, stalled : BOOLEAN]
        /\ \A w \in Workers : pc[w] \notin {"idle", "dead"} => cur[w] \in Rows
        /\ ~faults.stalled => Calm
    BY DEF DeliveryInv, CalmInv, TypeOK, RowsTyped, ReceiptsTyped, ChatTyped, WorkersTyped, AtRow
  <1>2. ASSUME NEW r \in Rows, Enqueue(r) PROVE LeaseOfSending' /\ (~faults.stalled' => Calm')
    <2>1. LeaseOfSending'
      BY <1>1, <1>2 DEF Enqueue, LeaseOfSending, Status
    <2>2. SUFFICES ASSUME ~faults.stalled' PROVE Calm'
      BY <2>1
    <2>3. ~faults.stalled
      BY <1>1, <1>2, <2>2 DEF Enqueue
    <2>4. Calm
      BY <1>1, <2>3
    <2>5. Held'
      BY <1>1, <1>2, <2>4 DEF Calm, Enqueue, Held, Alone, LeaseOfSending, Serving
    <2>6. Alone'
      BY <1>1, <1>2, <2>4 DEF Calm, Enqueue, Alone, Held, LeaseOfSending, Serving
    <2>7. Known'
      BY <1>1, <1>2, <2>4 DEF Calm, Enqueue, Known
    <2>8. ReceiptAgrees'
      BY <1>1, <1>2, <2>4 DEF Calm, Enqueue, ReceiptAgrees
    <2>9. StatusTells'
      BY <1>1, <1>2, <2>4 DEF Calm, Enqueue, StatusTells, Final
    <2>10. Counted'
      BY <1>1, <1>2, <2>4 DEF Calm, Enqueue, Counted, Answered
    <2> QED
      BY <2>5, <2>6, <2>7, <2>8, <2>9, <2>10 DEF Calm
  <1>3. ASSUME NEW w \in Workers, NEW r \in Rows, Select(w, r) PROVE LeaseOfSending' /\ (~faults.stalled' => Calm')
    <2>1. LeaseOfSending'
      BY <1>1, <1>3 DEF Select, LeaseOfSending, Status
    <2>2. SUFFICES ASSUME ~faults.stalled' PROVE Calm'
      BY <2>1
    <2>3. ~faults.stalled
      BY <1>1, <1>3, <2>2 DEF Select
    <2>4. Calm
      BY <1>1, <2>3
    <2>5. Held'
      BY <1>1, <1>3, <2>4 DEF Calm, Select, Goto, Held, Alone, LeaseOfSending, Serving
    <2>6. Alone'
      BY <1>1, <1>3, <2>4 DEF Calm, Select, Goto, Alone, Held, LeaseOfSending, Serving
    <2>7. Known'
      BY <1>1, <1>3, <2>4 DEF Calm, Select, Goto, Known
    <2>8. ReceiptAgrees'
      BY <1>1, <1>3, <2>4 DEF Calm, Select, ReceiptAgrees
    <2>9. StatusTells'
      BY <1>1, <1>3, <2>4 DEF Calm, Select, StatusTells, Final
    <2>10. Counted'
      BY <1>1, <1>3, <2>4 DEF Calm, Select, Goto, Counted, Answered
    <2> QED
      BY <2>5, <2>6, <2>7, <2>8, <2>9, <2>10 DEF Calm
  <1>4. ASSUME NEW w \in Workers, ClaimUpdate(w) PROVE LeaseOfSending' /\ (~faults.stalled' => Calm')
    <2>1. LeaseOfSending'
      BY <1>1, <1>4 DEF ClaimUpdate, Claimable, LeaseOfSending, Status
    <2>2. SUFFICES ASSUME ~faults.stalled' PROVE Calm'
      BY <2>1
    <2>3. ~faults.stalled
      BY <1>1, <1>4, <2>2 DEF ClaimUpdate
    <2>4. Calm
      BY <1>1, <2>3
    <2>5. Held'
      BY <1>1, <1>4, <2>4 DEF Calm, ClaimUpdate, Claimable, Goto, Held, Alone, LeaseOfSending, Serving
    <2>6. Alone'
      <3>1. CASE Claimable(cur[w])
        <4>1. \A v \in Workers : Serving(v) => cur[v] # cur[w]
          BY <1>1, <1>4, <2>4, <3>1 DEF Calm, Claimable, ClaimUpdate, Held, LeaseOfSending
        <4>2. cur' = cur /\ \A v \in Workers : v # w => (Serving(v)' <=> Serving(v))
          BY <1>1, <1>4 DEF ClaimUpdate, Goto, Serving
        <4> QED
          BY <2>4, <4>1, <4>2 DEF Calm, Alone
      <3>2. CASE ~Claimable(cur[w])
        BY <1>1, <1>4, <2>4, <3>2 DEF Calm, ClaimUpdate, Goto, Alone, Serving
      <3> QED
        BY <3>1, <3>2
    <2>7. Known'
      BY <1>1, <1>4, <2>4 DEF Calm, ClaimUpdate, Claimable, Goto, Known
    <2>8. ReceiptAgrees'
      BY <1>1, <1>4, <2>4 DEF Calm, ClaimUpdate, Claimable, ReceiptAgrees
    <2>9. StatusTells'
      BY <1>1, <1>4, <2>4 DEF Calm, ClaimUpdate, Claimable, StatusTells, Final
    <2>10. Counted'
      BY <1>1, <1>4, <2>4 DEF Calm, ClaimUpdate, Claimable, Goto, Counted, Answered
    <2> QED
      BY <2>5, <2>6, <2>7, <2>8, <2>9, <2>10 DEF Calm
  <1>5. ASSUME NEW w \in Workers, Load(w) PROVE LeaseOfSending' /\ (~faults.stalled' => Calm')
    <2>1. LeaseOfSending'
      BY <1>1, <1>5 DEF Load, LeaseOfSending, Status
    <2>2. SUFFICES ASSUME ~faults.stalled' PROVE Calm'
      BY <2>1
    <2>3. ~faults.stalled
      BY <1>1, <1>5, <2>2 DEF Load
    <2>4. Calm
      BY <1>1, <2>3
    <2>5. Held'
      BY <1>1, <1>5, <2>4 DEF Calm, Load, Goto, Held, Alone, LeaseOfSending, Serving
    <2>6. Alone'
      BY <1>1, <1>5, <2>4 DEF Calm, Load, Goto, Alone, Held, LeaseOfSending, Serving
    <2>7. Known'
      BY <1>1, <1>5, <2>4 DEF Calm, Load, Goto, Known
    <2>8. ReceiptAgrees'
      BY <1>1, <1>5, <2>4 DEF Calm, Load, ReceiptAgrees
    <2>9. StatusTells'
      BY <1>1, <1>5, <2>4 DEF Calm, Load, StatusTells, Final
    <2>10. Counted'
      BY <1>1, <1>5, <2>4 DEF Calm, Load, Goto, Counted, Answered
    <2> QED
      BY <2>5, <2>6, <2>7, <2>8, <2>9, <2>10 DEF Calm
  <1>6. ASSUME NEW w \in Workers, FoundReceipt(w) PROVE LeaseOfSending' /\ (~faults.stalled' => Calm')
    <2>1. LeaseOfSending'
      BY <1>1, <1>6 DEF FoundReceipt, Settle, LeaseOfSending, Status
    <2>2. SUFFICES ASSUME ~faults.stalled' PROVE Calm'
      BY <2>1
    <2>3. ~faults.stalled
      BY <1>1, <1>6, <2>2 DEF FoundReceipt
    <2>4. Calm
      BY <1>1, <2>3
    <2>5. Held'
      BY <1>1, <1>6, <2>4 DEF Calm, FoundReceipt, Settle, Goto, Held, Alone, LeaseOfSending, Serving
    <2>6. Alone'
      BY <1>1, <1>6, <2>4 DEF Calm, FoundReceipt, Settle, Goto, Alone, Held, LeaseOfSending, Serving
    <2>7. Known'
      BY <1>1, <1>6, <2>4, SMTT(30) DEF Calm, FoundReceipt, Settle, Alone, Serving, Goto, Known
    <2>8. ReceiptAgrees'
      BY <1>1, <1>6, <2>4 DEF Calm, FoundReceipt, Settle, ReceiptAgrees
    <2>9. StatusTells'
      BY <1>1, <1>6, <2>4 DEF Calm, FoundReceipt, Settle, StatusTells, Final
    <2>10. Counted'
      BY <1>1, <1>6, <2>4 DEF Calm, FoundReceipt, Settle, ReceiptAgrees, Goto, Counted, Answered
    <2> QED
      BY <2>5, <2>6, <2>7, <2>8, <2>9, <2>10 DEF Calm
  <1>7. ASSUME NEW w \in Workers, FoundMarker(w) PROVE LeaseOfSending' /\ (~faults.stalled' => Calm')
    <2>1. LeaseOfSending'
      BY <1>1, <1>7 DEF FoundMarker, LeaseOfSending, Status
    <2>2. SUFFICES ASSUME ~faults.stalled' PROVE Calm'
      BY <2>1
    <2>3. ~faults.stalled
      BY <1>1, <1>7, <2>2 DEF FoundMarker
    <2>4. Calm
      BY <1>1, <2>3
    <2>5. Held'
      BY <1>1, <1>7, <2>4 DEF Calm, FoundMarker, Goto, Held, Alone, LeaseOfSending, Serving
    <2>6. Alone'
      BY <1>1, <1>7, <2>4 DEF Calm, FoundMarker, Goto, Alone, Held, LeaseOfSending, Serving
    <2>7. Known'
      BY <1>1, <1>7, <2>4 DEF Calm, FoundMarker, HonoursMarker, Goto, Known
    <2>8. ReceiptAgrees'
      BY <1>1, <1>7, <2>4 DEF Calm, FoundMarker, ReceiptAgrees
    <2>9. StatusTells'
      BY <1>1, <1>7, <2>4 DEF Calm, FoundMarker, StatusTells, Final
    <2>10. Counted'
      BY <1>1, <1>7, <2>4 DEF Calm, FoundMarker, Goto, Counted, Answered
    <2> QED
      BY <2>5, <2>6, <2>7, <2>8, <2>9, <2>10 DEF Calm
  <1>8. ASSUME NEW w \in Workers, Dispatch(w) PROVE LeaseOfSending' /\ (~faults.stalled' => Calm')
    <2>1. LeaseOfSending'
      BY <1>1, <1>8 DEF Dispatch, LeaseOfSending, Status
    <2>2. SUFFICES ASSUME ~faults.stalled' PROVE Calm'
      BY <2>1
    <2>3. ~faults.stalled
      BY <1>1, <1>8, <2>2 DEF Dispatch
    <2>4. Calm
      BY <1>1, <2>3
    <2>5. Held'
      BY <1>1, <1>8, <2>4 DEF Calm, Dispatch, Goto, Held, Alone, LeaseOfSending, Serving
    <2>6. Alone'
      BY <1>1, <1>8, <2>4 DEF Calm, Dispatch, Goto, Alone, Held, LeaseOfSending, Serving
    <2>7. Known'
      BY <1>1, <1>8, <2>4 DEF Calm, Dispatch, HonoursMarker, Goto, Known
    <2>8. ReceiptAgrees'
      BY <1>1, <1>8, <2>4 DEF Calm, Dispatch, ReceiptAgrees
    <2>9. StatusTells'
      BY <1>1, <1>8, <2>4 DEF Calm, Dispatch, StatusTells, Final
    <2>10. Counted'
      BY <1>1, <1>8, <2>4 DEF Calm, Dispatch, Goto, Counted, Answered
    <2> QED
      BY <2>5, <2>6, <2>7, <2>8, <2>9, <2>10 DEF Calm
  <1>9. ASSUME NEW w \in Workers, Simulate(w) PROVE LeaseOfSending' /\ (~faults.stalled' => Calm')
    <2>1. LeaseOfSending'
      BY <1>1, <1>9 DEF Simulate, LeaseOfSending, Status
    <2>2. SUFFICES ASSUME ~faults.stalled' PROVE Calm'
      BY <2>1
    <2>3. ~faults.stalled
      BY <1>1, <1>9, <2>2 DEF Simulate
    <2>4. Calm
      BY <1>1, <2>3
    <2>5. Held'
      BY <1>1, <1>9, <2>4 DEF Calm, Simulate, Goto, Held, Alone, LeaseOfSending, Serving
    <2>6. Alone'
      BY <1>1, <1>9, <2>4 DEF Calm, Simulate, Goto, Alone, Held, LeaseOfSending, Serving
    <2>7. Known'
      BY <1>1, <1>9, <2>4 DEF Calm, Simulate, NoOutcome, Goto, Known
    <2>8. ReceiptAgrees'
      BY <1>1, <1>9, <2>4 DEF Calm, Simulate, ReceiptAgrees
    <2>9. StatusTells'
      BY <1>1, <1>9, <2>4 DEF Calm, Simulate, StatusTells, Final
    <2>10. Counted'
      BY <1>1, <1>9, <2>4 DEF Calm, Simulate, Goto, Counted, Answered
    <2> QED
      BY <2>5, <2>6, <2>7, <2>8, <2>9, <2>10 DEF Calm
  <1>10. ASSUME NEW w \in Workers, SkipSame(w) PROVE LeaseOfSending' /\ (~faults.stalled' => Calm')
    <2>1. LeaseOfSending'
      BY <1>1, <1>10 DEF SkipSame, LeaseOfSending, Status
    <2>2. SUFFICES ASSUME ~faults.stalled' PROVE Calm'
      BY <2>1
    <2>3. ~faults.stalled
      BY <1>1, <1>10, <2>2 DEF SkipSame
    <2>4. Calm
      BY <1>1, <2>3
    <2>5. Held'
      BY <1>1, <1>10, <2>4 DEF Calm, SkipSame, Goto, Held, Alone, LeaseOfSending, Serving
    <2>6. Alone'
      BY <1>1, <1>10, <2>4 DEF Calm, SkipSame, Goto, Alone, Held, LeaseOfSending, Serving
    <2>7. Known'
      BY <1>1, <1>10, <2>4 DEF Calm, SkipSame, Goto, Known
    <2>8. ReceiptAgrees'
      BY <1>1, <1>10, <2>4 DEF Calm, SkipSame, ReceiptAgrees
    <2>9. StatusTells'
      BY <1>1, <1>10, <2>4 DEF Calm, SkipSame, StatusTells, Final
    <2>10. Counted'
      BY <1>1, <1>10, <2>4 DEF Calm, SkipSame, Goto, Counted, Answered
    <2> QED
      BY <2>5, <2>6, <2>7, <2>8, <2>9, <2>10 DEF Calm
  <1>11. ASSUME NEW w \in Workers, Send(w) PROVE LeaseOfSending' /\ (~faults.stalled' => Calm')
    <2>1. LeaseOfSending'
      BY <1>1, <1>11 DEF Send, LeaseOfSending, Status
    <2>2. SUFFICES ASSUME ~faults.stalled' PROVE Calm'
      BY <2>1
    <2>3. ~faults.stalled
      BY <1>1, <1>11, <2>2 DEF Send
    <2>4. Calm
      BY <1>1, <2>3
    <2>5. Held'
      BY <1>1, <1>11, <2>4 DEF Calm, Send, Goto, Held, Alone, LeaseOfSending, Serving
    <2>6. Alone'
      BY <1>1, <1>11, <2>4 DEF Calm, Send, Goto, Alone, Held, LeaseOfSending, Serving
    <2>7. Known'
      BY <1>1, <1>11, <2>4 DEF Calm, Send, Goto, Known
    <2>8. ReceiptAgrees'
      BY <1>1, <1>11, <2>4 DEF Calm, Send, ReceiptAgrees
    <2>9. StatusTells'
      BY <1>1, <1>11, <2>4 DEF Calm, Send, StatusTells, Final
    <2>10. Counted'
      <3>1. ~Answered(cur[w]) /\ cur[w] \in Rows
        BY <1>1, <1>11, <2>4 DEF Calm, Send, Known, Alone, Answered, Serving
      <3>2. sent[cur[w]] <= lost[cur[w]] /\ sent[cur[w]] \in Nat /\ lost[cur[w]] \in Nat
        BY <1>1, <2>4, <3>1 DEF Calm, Counted
      <3>3. /\ sent' = [sent EXCEPT ![cur[w]] = @ + 1] /\ lost' = lost
            /\ cur' = cur /\ marker' = marker /\ pc' = [pc EXCEPT ![w] = "mark"]
        BY <1>11 DEF Send, Accept, Goto
      <3>4. sent'[cur[w]] = sent[cur[w]] + 1 /\ Answered(cur[w])'
        BY <1>1, <3>1, <3>3 DEF Answered
      <3>5. ASSUME NEW q \in Rows, q # cur[w]
            PROVE  sent'[q] = sent[q] /\ (Answered(q) => Answered(q)')
        BY <1>1, <1>11, <3>3, <3>5 DEF Send, Answered
      <3> QED
        BY <2>4, <3>2, <3>3, <3>4, <3>5 DEF Calm, Counted
    <2> QED
      BY <2>5, <2>6, <2>7, <2>8, <2>9, <2>10 DEF Calm
  <1>12. ASSUME NEW w \in Workers, Edit(w) PROVE LeaseOfSending' /\ (~faults.stalled' => Calm')
    <2>1. LeaseOfSending'
      BY <1>1, <1>12 DEF Edit, LeaseOfSending, Status
    <2>2. SUFFICES ASSUME ~faults.stalled' PROVE Calm'
      BY <2>1
    <2>3. ~faults.stalled
      BY <1>1, <1>12, <2>2 DEF Edit
    <2>4. Calm
      BY <1>1, <2>3
    <2>5. Held'
      BY <1>1, <1>12, <2>4 DEF Calm, Edit, Goto, Held, Alone, LeaseOfSending, Serving
    <2>6. Alone'
      BY <1>1, <1>12, <2>4 DEF Calm, Edit, Goto, Alone, Held, LeaseOfSending, Serving
    <2>7. Known'
      BY <1>1, <1>12, <2>4 DEF Calm, Edit, Goto, Known
    <2>8. ReceiptAgrees'
      BY <1>1, <1>12, <2>4 DEF Calm, Edit, ReceiptAgrees
    <2>9. StatusTells'
      BY <1>1, <1>12, <2>4 DEF Calm, Edit, StatusTells, Final
    <2>10. Counted'
      <3>1. ~Answered(cur[w]) /\ cur[w] \in Rows
        BY <1>1, <1>12, <2>4 DEF Calm, Edit, Known, Alone, Answered, Serving
      <3>2. sent[cur[w]] <= lost[cur[w]] /\ sent[cur[w]] \in Nat /\ lost[cur[w]] \in Nat
        BY <1>1, <2>4, <3>1 DEF Calm, Counted
      <3>3. /\ sent' = [sent EXCEPT ![cur[w]] = @ + 1] /\ lost' = lost
            /\ cur' = cur /\ marker' = marker /\ pc' = [pc EXCEPT ![w] = "mark"]
        BY <1>12 DEF Edit, Goto
      <3>4. sent'[cur[w]] = sent[cur[w]] + 1 /\ Answered(cur[w])'
        BY <1>1, <3>1, <3>3 DEF Answered
      <3>5. ASSUME NEW q \in Rows, q # cur[w]
            PROVE  sent'[q] = sent[q] /\ (Answered(q) => Answered(q)')
        BY <1>1, <1>12, <3>3, <3>5 DEF Edit, Answered
      <3> QED
        BY <2>4, <3>2, <3>3, <3>4, <3>5 DEF Calm, Counted
    <2> QED
      BY <2>5, <2>6, <2>7, <2>8, <2>9, <2>10 DEF Calm
  <1>13. ASSUME NEW w \in Workers, EditRejected(w) PROVE LeaseOfSending' /\ (~faults.stalled' => Calm')
    <2>1. LeaseOfSending'
      BY <1>1, <1>13 DEF EditRejected, LeaseOfSending, Status
    <2>2. SUFFICES ASSUME ~faults.stalled' PROVE Calm'
      BY <2>1
    <2>3. ~faults.stalled
      BY <1>1, <1>13, <2>2 DEF EditRejected
    <2>4. Calm
      BY <1>1, <2>3
    <2>5. Held'
      BY <1>1, <1>13, <2>4 DEF Calm, EditRejected, Held, Alone, LeaseOfSending, Serving
    <2>6. Alone'
      BY <1>1, <1>13, <2>4 DEF Calm, EditRejected, Alone, Held, LeaseOfSending, Serving
    <2>7. Known'
      BY <1>1, <1>13, <2>4 DEF Calm, EditRejected, Known
    <2>8. ReceiptAgrees'
      BY <1>1, <1>13, <2>4 DEF Calm, EditRejected, ReceiptAgrees
    <2>9. StatusTells'
      BY <1>1, <1>13, <2>4 DEF Calm, EditRejected, StatusTells, Final
    <2>10. Counted'
      BY <1>1, <1>13, <2>4 DEF Calm, EditRejected, Counted, Answered
    <2> QED
      BY <2>5, <2>6, <2>7, <2>8, <2>9, <2>10 DEF Calm
  <1>14. ASSUME NEW w \in Workers, Refused(w) PROVE LeaseOfSending' /\ (~faults.stalled' => Calm')
    <2>1. LeaseOfSending'
      BY <1>1, <1>14 DEF Refused, LeaseOfSending, Status
    <2>2. SUFFICES ASSUME ~faults.stalled' PROVE Calm'
      BY <2>1
    <2>3. ~faults.stalled
      BY <1>1, <1>14, <2>2 DEF Refused
    <2>4. Calm
      BY <1>1, <2>3
    <2>5. Held'
      BY <1>1, <1>14, <2>4 DEF Calm, Refused, Goto, Held, Alone, LeaseOfSending, Serving
    <2>6. Alone'
      BY <1>1, <1>14, <2>4 DEF Calm, Refused, Goto, Alone, Held, LeaseOfSending, Serving
    <2>7. Known'
      BY <1>1, <1>14, <2>4 DEF Calm, Refused, Goto, Known
    <2>8. ReceiptAgrees'
      BY <1>1, <1>14, <2>4 DEF Calm, Refused, ReceiptAgrees
    <2>9. StatusTells'
      BY <1>1, <1>14, <2>4 DEF Calm, Refused, StatusTells, Final
    <2>10. Counted'
      BY <1>1, <1>14, <2>4 DEF Calm, Refused, Goto, Counted, Answered
    <2> QED
      BY <2>5, <2>6, <2>7, <2>8, <2>9, <2>10 DEF Calm
  <1>15. ASSUME NEW w \in Workers, TimesOut(w) PROVE LeaseOfSending' /\ (~faults.stalled' => Calm')
    <2>1. LeaseOfSending'
      BY <1>1, <1>15 DEF TimesOut, LeaseOfSending, Status
    <2>2. SUFFICES ASSUME ~faults.stalled' PROVE Calm'
      BY <2>1
    <2>3. ~faults.stalled
      BY <1>1, <1>15, <2>2 DEF TimesOut
    <2>4. Calm
      BY <1>1, <2>3
    <2>5. Held'
      BY <1>1, <1>15, <2>4 DEF Calm, TimesOut, Goto, Held, Alone, LeaseOfSending, Serving
    <2>6. Alone'
      BY <1>1, <1>15, <2>4 DEF Calm, TimesOut, Goto, Alone, Held, LeaseOfSending, Serving
    <2>7. Known'
      BY <1>1, <1>15, <2>4 DEF Calm, TimesOut, Goto, Known
    <2>8. ReceiptAgrees'
      BY <1>1, <1>15, <2>4 DEF Calm, TimesOut, ReceiptAgrees
    <2>9. StatusTells'
      BY <1>1, <1>15, <2>4 DEF Calm, TimesOut, StatusTells, Final
    <2>10. Counted'
      BY <1>1, <1>15, <2>4 DEF Calm, TimesOut, Accept, Known, Goto, Counted, Answered
    <2> QED
      BY <2>5, <2>6, <2>7, <2>8, <2>9, <2>10 DEF Calm
  <1>16. ASSUME NEW w \in Workers, Misconfigured(w) PROVE LeaseOfSending' /\ (~faults.stalled' => Calm')
    <2>1. LeaseOfSending'
      BY <1>1, <1>16 DEF Misconfigured, LeaseOfSending, Status
    <2>2. SUFFICES ASSUME ~faults.stalled' PROVE Calm'
      BY <2>1
    <2>3. ~faults.stalled
      BY <1>1, <1>16, <2>2 DEF Misconfigured
    <2>4. Calm
      BY <1>1, <2>3
    <2>5. Held'
      BY <1>1, <1>16, <2>4 DEF Calm, Misconfigured, Goto, Held, Alone, LeaseOfSending, Serving
    <2>6. Alone'
      BY <1>1, <1>16, <2>4 DEF Calm, Misconfigured, Goto, Alone, Held, LeaseOfSending, Serving
    <2>7. Known'
      BY <1>1, <1>16, <2>4 DEF Calm, Misconfigured, Goto, Known
    <2>8. ReceiptAgrees'
      BY <1>1, <1>16, <2>4 DEF Calm, Misconfigured, ReceiptAgrees
    <2>9. StatusTells'
      BY <1>1, <1>16, <2>4 DEF Calm, Misconfigured, StatusTells, Final
    <2>10. Counted'
      BY <1>1, <1>16, <2>4 DEF Calm, Misconfigured, Goto, Counted, Answered
    <2> QED
      BY <2>5, <2>6, <2>7, <2>8, <2>9, <2>10 DEF Calm
  <1>17. ASSUME NEW w \in Workers, Fail(w) PROVE LeaseOfSending' /\ (~faults.stalled' => Calm')
    <2>1. LeaseOfSending'
      BY <1>1, <1>17 DEF Fail, Settle, LeaseOfSending, Status
    <2>2. SUFFICES ASSUME ~faults.stalled' PROVE Calm'
      BY <2>1
    <2>3. ~faults.stalled
      BY <1>1, <1>17, <2>2 DEF Fail
    <2>4. Calm
      BY <1>1, <2>3
    <2>5. Held'
      BY <1>1, <1>17, <2>4, ZenonT(60) DEF Calm, Fail, Settle, Goto, Held, Alone, LeaseOfSending, Serving
    <2>6. Alone'
      BY <1>1, <1>17, <2>4 DEF Calm, Fail, Settle, Goto, Alone, Held, LeaseOfSending, Serving
    <2>7. Known'
      BY <1>1, <1>17, <2>4 DEF Calm, Fail, Settle, Goto, Known
    <2>8. ReceiptAgrees'
      BY <1>1, <1>17, <2>4 DEF Calm, Fail, Settle, ReceiptAgrees
    <2>9. StatusTells'
      BY <1>1, <1>17, <2>4 DEF Calm, Fail, Settle, Known, StatusTells, Final
    <2>10. Counted'
      BY <1>1, <1>17, <2>4 DEF Calm, Fail, Settle, Goto, Counted, Answered
    <2> QED
      BY <2>5, <2>6, <2>7, <2>8, <2>9, <2>10 DEF Calm
  <1>18. ASSUME NEW w \in Workers, CommitMarker(w) PROVE LeaseOfSending' /\ (~faults.stalled' => Calm')
    <2>1. LeaseOfSending'
      BY <1>1, <1>18 DEF CommitMarker, LeaseOfSending, Status
    <2>2. SUFFICES ASSUME ~faults.stalled' PROVE Calm'
      BY <2>1
    <2>3. ~faults.stalled
      BY <1>1, <1>18, <2>2 DEF CommitMarker
    <2>4. Calm
      BY <1>1, <2>3
    <2>5. Held'
      BY <1>1, <1>18, <2>4 DEF Calm, CommitMarker, Goto, Held, Alone, LeaseOfSending, Serving
    <2>6. Alone'
      BY <1>1, <1>18, <2>4 DEF Calm, CommitMarker, Goto, Alone, Held, LeaseOfSending, Serving
    <2>7. Known'
      BY <1>1, <1>18, <2>4, ZenonT(60) DEF Calm, CommitMarker, MarkNow, MarkTransmits, Alone, Serving, Goto, Known
    <2>8. ReceiptAgrees'
      BY <1>1, <1>18, <2>4 DEF Calm, CommitMarker, MarkNow, Known, ReceiptAgrees
    <2>9. StatusTells'
      BY <1>1, <1>18, <2>4 DEF Calm, CommitMarker, StatusTells, Final
    <2>10. Counted'
      BY <1>1, <1>18, <2>4 DEF Calm, CommitMarker, MarkNow, Goto, Counted, Answered
    <2> QED
      BY <2>5, <2>6, <2>7, <2>8, <2>9, <2>10 DEF Calm
  <1>19. ASSUME NEW w \in Workers, CommitReceipt(w) PROVE LeaseOfSending' /\ (~faults.stalled' => Calm')
    <2>1. LeaseOfSending'
      BY <1>1, <1>19 DEF CommitReceipt, Settle, OutcomeStatus, LeaseOfSending, Status
    <2>2. SUFFICES ASSUME ~faults.stalled' PROVE Calm'
      BY <2>1
    <2>3. ~faults.stalled
      BY <1>1, <1>19, <2>2 DEF CommitReceipt
    <2>4. Calm
      BY <1>1, <2>3
    <2>5. Held'
      <3>1. \A v \in Workers : v # w /\ Serving(v) => cur[v] # cur[w]
        BY <1>1, <1>19, <2>4 DEF Calm, CommitReceipt, Alone, Serving
      <3>2. /\ cur' = cur /\ ~Serving(w)'
            /\ \A v \in Workers : v # w => (Serving(v)' <=> Serving(v))
        BY <1>1, <1>19 DEF CommitReceipt, Goto, Serving
      <3>3. \A q \in Rows : q # cur[w] => lease'[q] = lease[q]
        BY <1>1, <1>19 DEF CommitReceipt, Settle
      <3> QED
        BY <1>1, <2>4, <3>1, <3>2, <3>3 DEF Calm, Held, Serving
    <2>6. Alone'
      BY <1>1, <1>19, <2>4, ZenonT(60) DEF Calm, CommitReceipt, Settle, OutcomeStatus, Goto, Alone, Held, LeaseOfSending, Serving
    <2>7. Known'
      <3>1. \A v \in Workers : v # w /\ Serving(v) => cur[v] # cur[w]
        BY <1>1, <1>19, <2>4 DEF Calm, CommitReceipt, Alone, Serving
      <3>2. /\ cur' = cur /\ item' = item /\ out' = out /\ marker' = marker
            /\ pc'[w] \in {"idle", "dead"}
            /\ \A v \in Workers : v # w => pc'[v] = pc[v]
        BY <1>1, <1>19 DEF CommitReceipt, Goto
      <3>3. \A q \in Rows : q # cur[w] => receipt'[q] = receipt[q]
        BY <1>1, <1>19 DEF CommitReceipt
      <3> QED
        BY <1>1, <2>4, <3>1, <3>2, <3>3 DEF Calm, Known, Serving
    <2>8. ReceiptAgrees'
      BY <1>1, <1>19, <2>4 DEF Calm, CommitReceipt, Settle, OutcomeStatus, Known, ReceiptAgrees
    <2>9. StatusTells'
      BY <1>1, <1>19, <2>4 DEF Calm, CommitReceipt, Settle, OutcomeStatus, StatusTells, Final
    <2>10. Counted'
      BY <1>1, <1>19, <2>4 DEF Calm, CommitReceipt, Settle, OutcomeStatus, Goto, Counted, Answered
    <2> QED
      BY <2>5, <2>6, <2>7, <2>8, <2>9, <2>10 DEF Calm
  <1>20. ASSUME NEW w \in Workers, Kill(w) PROVE LeaseOfSending' /\ (~faults.stalled' => Calm')
    <2>1. LeaseOfSending'
      BY <1>1, <1>20 DEF Kill, LeaseOfSending, Status
    <2>2. SUFFICES ASSUME ~faults.stalled' PROVE Calm'
      BY <2>1
    <2>3. ~faults.stalled
      BY <1>1, <1>20, <2>2 DEF Kill, CountFault
    <2>4. Calm
      BY <1>1, <2>3
    <2>5. Held'
      BY <1>1, <1>20, <2>4 DEF Calm, Kill, Goto, Held, Alone, LeaseOfSending, Serving
    <2>6. Alone'
      BY <1>1, <1>20, <2>4 DEF Calm, Kill, Goto, Alone, Held, LeaseOfSending, Serving
    <2>7. Known'
      BY <1>1, <1>20, <2>4 DEF Calm, Kill, Goto, Known
    <2>8. ReceiptAgrees'
      BY <1>1, <1>20, <2>4 DEF Calm, Kill, ReceiptAgrees
    <2>9. StatusTells'
      BY <1>1, <1>20, <2>4 DEF Calm, Kill, StatusTells, Final
    <2>10. Counted'
      BY <1>1, <1>20, <2>4 DEF Calm, Kill, Goto, Counted, Answered
    <2> QED
      BY <2>5, <2>6, <2>7, <2>8, <2>9, <2>10 DEF Calm
  <1>21. ASSUME NEW w \in Workers, Stop(w) PROVE LeaseOfSending' /\ (~faults.stalled' => Calm')
    <2>1. LeaseOfSending'
      BY <1>1, <1>21 DEF Stop, LeaseOfSending, Status
    <2>2. SUFFICES ASSUME ~faults.stalled' PROVE Calm'
      BY <2>1
    <2>3. ~faults.stalled
      BY <1>1, <1>21, <2>2 DEF Stop, CountFault
    <2>4. Calm
      BY <1>1, <2>3
    <2>5. Held'
      BY <1>1, <1>21, <2>4 DEF Calm, Stop, Goto, Held, Alone, LeaseOfSending, Serving
    <2>6. Alone'
      BY <1>1, <1>21, <2>4 DEF Calm, Stop, Goto, Alone, Held, LeaseOfSending, Serving
    <2>7. Known'
      BY <1>1, <1>21, <2>4 DEF Calm, Stop, Goto, Known
    <2>8. ReceiptAgrees'
      BY <1>1, <1>21, <2>4 DEF Calm, Stop, ReceiptAgrees
    <2>9. StatusTells'
      BY <1>1, <1>21, <2>4 DEF Calm, Stop, StatusTells, Final
    <2>10. Counted'
      BY <1>1, <1>21, <2>4 DEF Calm, Stop, Goto, Counted, Answered
    <2> QED
      BY <2>5, <2>6, <2>7, <2>8, <2>9, <2>10 DEF Calm
  <1>22. ASSUME NEW w \in Workers, Restart(w) PROVE LeaseOfSending' /\ (~faults.stalled' => Calm')
    <2>1. LeaseOfSending'
      BY <1>1, <1>22 DEF Restart, LeaseOfSending, Status
    <2>2. SUFFICES ASSUME ~faults.stalled' PROVE Calm'
      BY <2>1
    <2>3. ~faults.stalled
      BY <1>1, <1>22, <2>2 DEF Restart
    <2>4. Calm
      BY <1>1, <2>3
    <2>5. Held'
      BY <1>1, <1>22, <2>4 DEF Calm, Restart, Goto, Held, Alone, LeaseOfSending, Serving
    <2>6. Alone'
      BY <1>1, <1>22, <2>4 DEF Calm, Restart, Goto, Alone, Held, LeaseOfSending, Serving
    <2>7. Known'
      BY <1>1, <1>22, <2>4 DEF Calm, Restart, Goto, Known
    <2>8. ReceiptAgrees'
      BY <1>1, <1>22, <2>4 DEF Calm, Restart, ReceiptAgrees
    <2>9. StatusTells'
      BY <1>1, <1>22, <2>4 DEF Calm, Restart, StatusTells, Final
    <2>10. Counted'
      BY <1>1, <1>22, <2>4 DEF Calm, Restart, Goto, Counted, Answered
    <2> QED
      BY <2>5, <2>6, <2>7, <2>8, <2>9, <2>10 DEF Calm
  <1>23. ASSUME NEW r \in Rows, LeaseExpires(r) PROVE LeaseOfSending' /\ (~faults.stalled' => Calm')
    <2>1. LeaseOfSending'
      BY <1>1, <1>23 DEF LeaseExpires, LeaseOfSending, Status
    <2>2. SUFFICES ASSUME ~faults.stalled' PROVE Calm'
      BY <2>1
    <2>3. ~faults.stalled
      BY <1>1, <1>23, <2>2 DEF LeaseExpires
    <2>4. Calm
      BY <1>1, <2>3
    <2>5. Held'
      BY <1>1, <1>23, <2>4 DEF Calm, LeaseExpires, Held, Alone, LeaseOfSending, Serving, Serves
    <2>6. Alone'
      BY <1>1, <1>23, <2>4 DEF Calm, LeaseExpires, Alone, Held, LeaseOfSending, Serving
    <2>7. Known'
      BY <1>1, <1>23, <2>4 DEF Calm, LeaseExpires, Known
    <2>8. ReceiptAgrees'
      BY <1>1, <1>23, <2>4 DEF Calm, LeaseExpires, ReceiptAgrees
    <2>9. StatusTells'
      BY <1>1, <1>23, <2>4 DEF Calm, LeaseExpires, StatusTells, Final
    <2>10. Counted'
      BY <1>1, <1>23, <2>4 DEF Calm, LeaseExpires, Counted, Answered
    <2> QED
      BY <2>5, <2>6, <2>7, <2>8, <2>9, <2>10 DEF Calm
  <1>24. ASSUME NEW r \in Rows, BackoffElapses(r) PROVE LeaseOfSending' /\ (~faults.stalled' => Calm')
    <2>1. LeaseOfSending'
      BY <1>1, <1>24 DEF BackoffElapses, LeaseOfSending, Status
    <2>2. SUFFICES ASSUME ~faults.stalled' PROVE Calm'
      BY <2>1
    <2>3. ~faults.stalled
      BY <1>1, <1>24, <2>2 DEF BackoffElapses
    <2>4. Calm
      BY <1>1, <2>3
    <2>5. Held'
      BY <1>1, <1>24, <2>4 DEF Calm, BackoffElapses, Held, Alone, LeaseOfSending, Serving
    <2>6. Alone'
      BY <1>1, <1>24, <2>4 DEF Calm, BackoffElapses, Alone, Held, LeaseOfSending, Serving
    <2>7. Known'
      BY <1>1, <1>24, <2>4 DEF Calm, BackoffElapses, Known
    <2>8. ReceiptAgrees'
      BY <1>1, <1>24, <2>4 DEF Calm, BackoffElapses, ReceiptAgrees
    <2>9. StatusTells'
      BY <1>1, <1>24, <2>4 DEF Calm, BackoffElapses, StatusTells, Final
    <2>10. Counted'
      BY <1>1, <1>24, <2>4 DEF Calm, BackoffElapses, Counted, Answered
    <2> QED
      BY <2>5, <2>6, <2>7, <2>8, <2>9, <2>10 DEF Calm
  <1>25. ASSUME ChatDeletes PROVE LeaseOfSending' /\ (~faults.stalled' => Calm')
    <2>1. LeaseOfSending'
      BY <1>1, <1>25 DEF ChatDeletes, LeaseOfSending, Status
    <2>2. SUFFICES ASSUME ~faults.stalled' PROVE Calm'
      BY <2>1
    <2>3. ~faults.stalled
      BY <1>1, <1>25, <2>2 DEF ChatDeletes, CountFault
    <2>4. Calm
      BY <1>1, <2>3
    <2>5. Held'
      BY <1>1, <1>25, <2>4 DEF Calm, ChatDeletes, Held, Alone, LeaseOfSending, Serving
    <2>6. Alone'
      BY <1>1, <1>25, <2>4 DEF Calm, ChatDeletes, Alone, Held, LeaseOfSending, Serving
    <2>7. Known'
      BY <1>1, <1>25, <2>4 DEF Calm, ChatDeletes, Known
    <2>8. ReceiptAgrees'
      BY <1>1, <1>25, <2>4 DEF Calm, ChatDeletes, ReceiptAgrees
    <2>9. StatusTells'
      BY <1>1, <1>25, <2>4 DEF Calm, ChatDeletes, StatusTells, Final
    <2>10. Counted'
      BY <1>1, <1>25, <2>4 DEF Calm, ChatDeletes, Counted, Answered
    <2> QED
      BY <2>5, <2>6, <2>7, <2>8, <2>9, <2>10 DEF Calm
  <1>26. ASSUME NEW r \in Rows, LeaseLapses(r) PROVE LeaseOfSending' /\ (~faults.stalled' => Calm')
    BY <1>1, <1>26 DEF LeaseLapses, CountFault, LeaseOfSending
  <1>27. CASE UNCHANGED vars
    <2>1. LeaseOfSending'
      BY <1>1, <1>27 DEF vars, LeaseOfSending
    <2>2. (Held' <=> Held) /\ (Alone' <=> Alone)
      BY <1>27 DEF vars, Held, Alone, Serving
    <2>3. Known' <=> Known
      BY <1>27 DEF vars, Known
    <2>4. (ReceiptAgrees' <=> ReceiptAgrees) /\ (StatusTells' <=> StatusTells)
      BY <1>27 DEF vars, ReceiptAgrees, StatusTells
    <2>5. Counted' <=> Counted
      BY <1>27 DEF vars, Counted, Answered
    <2>6. faults' = faults
      BY <1>27 DEF vars
    <2>7. Calm' <=> Calm
      BY <2>2, <2>3, <2>4, <2>5 DEF Calm
    <2> QED
      BY <1>1, <2>1, <2>6, <2>7 DEF CalmInv
  <1> QED
    BY <1>2, <1>3, <1>4, <1>5, <1>6, <1>7, <1>8, <1>9, <1>10, <1>11, <1>12, <1>13, <1>14, <1>15, <1>16, <1>17, <1>18, <1>19, <1>20, <1>21, <1>22, <1>23, <1>24, <1>25, <1>26, <1>27 DEF Next, WorkerStep, CalmInv

\* CalmInv is an invariant of the outbox.
THEOREM CalmInvariant == Spec => []CalmInv
  <1>1. DeliveryInv /\ CalmInv /\ [Next]_vars => CalmInv'
    BY CalmStep
  <1> QED
    BY InitCalm, <1>1, DeliveryInvariant, PTL DEF Spec

\* While leases cover dispatches, a row with a receipt ends as the receipt
\* tells, and only a receipt ends it as delivered or simulated (dispatch_one).
THEOREM StatusAgreesWithReceiptHolds == Spec => []StatusAgreesWithReceipt
  <1>1. CalmInv => StatusAgreesWithReceipt
    BY DEF CalmInv, Calm, StatusTells, StatusAgreesWithReceipt
  <1> QED
    BY CalmInvariant, <1>1, PTL

\* While leases cover dispatches, the chat is told the same row again only
\* after an answer was lost (dispatch_one, DeliveryWorker.claim).
THEOREM ResentOnlyIfLostHolds == Spec => []ResentOnlyIfLost
  <1>1. CalmInv => ResentOnlyIfLost
    BY DEF CalmInv, Calm, Counted, ResentOnlyIfLost
  <1> QED
    BY CalmInvariant, <1>1, PTL
=============================================================================
