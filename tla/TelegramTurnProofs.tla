------------------------- MODULE TelegramTurnProofs -------------------------
(***************************************************************************)
(* Proofs about ToolLedger and TelegramTurn, for every number of turns,    *)
(* calls, executions, chats, workers and deliveries, every capacity and    *)
(* every set of faults.                                                    *)
(***************************************************************************)
EXTENDS TelegramTurn, SequenceTheorems, TLAPS

USE CallsAssumption, ExecsAssumption, NoKeyAssumption, ChatAssumption,
    CapacityAssumption, TurnBoundsAssumption, TurnFaultsAssumption
    DEF Keys, Execs, Chats, Drains

-----------------------------------------------------------------------------
(***************************************************************************)
(* The tool ledger.  Its variables are changed by the steps of an          *)
(* execution, its begin and end, a kill of the gateway and the spoiling of *)
(* a file; every other step leaves them alone.                             *)
(***************************************************************************)
LedgerMoves ==
    \/ \E x \in Execs : ExecStep(x) \/ EndExec(x) \/ \E m \in Turns : Begin(x, m)
    \/ LoseExecs
    \/ \E k \in Keys : Spoil(k)
    \/ UNCHANGED ledgerVars

\* An execution between the reservation of its call and the record of its end.
Active(x) == xpc[x] \in {"dispatch", "wrote", "returned", "raised"}

\* Program points and what an execution knows there.
Located ==
    \A x \in Execs :
        /\ xpc[x] = "think" => xturn[x] \in Turns
        /\ xpc[x] \in {"lookup", "join"} \/ Active(x) => xkey[x] \in Keys

\* The call of an active execution is reserved, in memory and, unless it only
\* reads, in the table; so a call has one active execution.
Reserved ==
    \A x \in Execs : Active(x) =>
        /\ ram[xkey[x]] = "PENDING"
        /\ ReadsOnly(xkey[x]) \/ durable[xkey[x]] = "PENDING"
OneActive == \A x, y \in Execs : Active(x) /\ Active(y) /\ xkey[x] = xkey[y] => x = y

\* Only calls that declare a file have one, and an answer that names it.
Declared ==
    /\ \A k \in Keys : /\ claims[k] => k[2] \in Declares
                       /\ intact[k] => k[2] \in Declares \ Unconfirmable
    /\ \A x \in Execs : xpc[x] = "wrote" => xkey[x][2] \in Declares

\* The effects of a call: none without a record in the table or of a call that
\* only reads; none too many while the tool has not run yet.
Unrecorded == \A k \in Keys : durable[k] = "none" \/ ReadsOnly(k) => effects[k] = 0
NotYet == \A x \in Execs : xpc[x] = "dispatch" /\ ~ReadsOnly(xkey[x]) =>
             effects[xkey[x]] <= discarded[xkey[x]]

\* A success that is recorded, or will be, and whose file is no longer as it was
\* written is paid for: its file was spoiled once more than it was discarded.
Unpaid(k) == k[2] \notin Unconfirmable /\ ~intact[k]
Paid ==
    /\ \A k \in Keys : claims[k] /\ Unpaid(k) => discarded[k] < spoiled[k]
    /\ \A x \in Execs : xpc[x] = "wrote" /\ Unpaid(xkey[x]) =>
                         discarded[xkey[x]] < spoiled[xkey[x]]

LedgerInv ==
    /\ LedgerTypeOK /\ Located /\ Reserved /\ OneActive /\ Declared
    /\ Unrecorded /\ NotYet /\ Paid /\ EffectOnce

LEMMA LedgerStart == LedgerInit => LedgerInv
  BY DEF LedgerInit, LedgerInv, LedgerTypeOK, Located, Reserved, OneActive, Declared,
         Unrecorded, NotYet, Paid, Unpaid, EffectOnce, Active, Recorded, ExecPC

LEMMA LedgerBegin ==
  ASSUME LedgerInv, NEW x \in Execs, NEW m \in Turns, Begin(x, m) PROVE LedgerInv'
  BY SMTT(30) DEF LedgerInv, LedgerTypeOK, Located, Reserved, OneActive, Declared, Unrecorded, NotYet,
         Paid, Unpaid, EffectOnce, Active, Recorded, ExecPC, Begin, XGoto, toolVars, ReadsOnly

LEMMA LedgerEnd ==
  ASSUME LedgerInv, NEW x \in Execs, EndExec(x) PROVE LedgerInv'
  BY SMTT(30) DEF LedgerInv, LedgerTypeOK, Located, Reserved, OneActive, Declared, Unrecorded, NotYet,
         Paid, Unpaid, EffectOnce, Active, Recorded, ExecPC, EndExec, XGoto, toolVars, ReadsOnly

LEMMA LedgerChoose ==
  ASSUME LedgerInv, NEW x \in Execs, Choose(x) PROVE LedgerInv'
<1> USE DEF LedgerInv
<1>1. /\ xpc[x] = "think" /\ xturn[x] \in Turns /\ UNCHANGED <<xturn, toolVars>>
      /\ \/ /\ \E c \in CallsOf[xturn[x]] : xkey' = [xkey EXCEPT ![x] = <<xturn[x], c>>]
            /\ XGoto(x, "lookup")
         \/ XGoto(x, "reply") /\ UNCHANGED xkey
  BY DEF Choose, Located
<1>2. PICK label \in {"lookup", "reply"}, k \in Keys \cup {xkey[x]} :
         /\ xpc' = [xpc EXCEPT ![x] = label] /\ xkey' = [xkey EXCEPT ![x] = k]
         /\ label = "lookup" => k \in Keys
  BY <1>1 DEF XGoto, LedgerTypeOK
<1>3. LedgerTypeOK'
  BY <1>1, <1>2 DEF LedgerTypeOK, ExecPC, toolVars
<1>4. \A y \in Execs : y # x => xpc'[y] = xpc[y] /\ xkey'[y] = xkey[y]
  BY <1>2 DEF LedgerTypeOK
<1>5. xpc'[x] \in {"lookup", "reply"} /\ (xpc'[x] = "lookup" => xkey'[x] \in Keys)
  BY <1>2 DEF LedgerTypeOK
<1>6. \A y \in Execs : Active(y)' => y # x /\ Active(y)
  BY <1>4, <1>5 DEF Active
<1>7. Located'
  BY <1>1, <1>4, <1>5 DEF Located, Active
<1>8. (Reserved /\ OneActive)'
  BY <1>1, <1>4, <1>6 DEF Reserved, OneActive, toolVars, ReadsOnly
<1>9. (Declared /\ NotYet /\ Paid)'
  BY <1>1, <1>4, <1>5 DEF Declared, NotYet, Paid, Unpaid, toolVars, ReadsOnly
<1>10. (Unrecorded /\ EffectOnce)'
  BY <1>1 DEF Unrecorded, EffectOnce, toolVars, ReadsOnly
<1> QED
  BY <1>3, <1>7, <1>8, <1>9, <1>10

LEMMA LedgerLookup ==
  ASSUME LedgerInv, NEW x \in Execs, Lookup(x) PROVE LedgerInv'
<1> DEFINE k == xkey[x]
<1> USE DEF LedgerInv
<1>1. k \in Keys
  BY DEF Lookup, Located
<1>2. CASE UNCHANGED <<ram, durable, claims, discarded>> /\ (XGoto(x, "join") \/ XGoto(x, "reply"))
  <2>1. UNCHANGED <<xturn, xkey, toolVars>>
    BY <1>2 DEF Lookup, toolVars
  <2>2. PICK label \in {"join", "reply"} : xpc' = [xpc EXCEPT ![x] = label]
    BY <1>2 DEF XGoto
  <2>3. LedgerTypeOK'
    BY <2>1, <2>2 DEF LedgerTypeOK, ExecPC, toolVars
  <2>4. \A y \in Execs : (xpc'[y] \in {"join", "reply"} /\ y = x) \/ xpc'[y] = xpc[y]
    BY <2>2 DEF LedgerTypeOK
  <2>5. \A y \in Execs : Active(y)' => Active(y)
    BY <2>4 DEF Active
  <2>6. (Located /\ Reserved /\ OneActive)'
    BY <1>1, <2>1, <2>4, <2>5 DEF Located, Reserved, OneActive, toolVars, ReadsOnly
  <2>7. (Declared /\ Unrecorded /\ NotYet /\ Paid /\ EffectOnce)'
    BY <2>1, <2>4 DEF Declared, Unrecorded, NotYet, Paid, Unpaid, EffectOnce, toolVars, ReadsOnly
  <2> QED
    BY <2>3, <2>6, <2>7
<1>3. CASE ram[k] # "PENDING" /\ ~Replays(k) /\ ~InDoubt(k) /\ Reserve(k) /\ XGoto(x, "dispatch")
  <2>1. ~ReadsOnly(k) => durable'[k] = "PENDING" /\ effects[k] <= discarded'[k]
    BY <1>1, <1>3 DEF LedgerTypeOK, Recorded, Replays, InDoubt, Reserve, Faithful, Declared,
                      Unrecorded, EffectOnce
  <2>2. ram' = [ram EXCEPT ![k] = "PENDING"] /\ xpc' = [xpc EXCEPT ![x] = "dispatch"]
    BY <1>3 DEF Reserve, XGoto
  <2>3. \A y \in Execs : Active(y) => xkey[y] # k
    BY <1>3 DEF Reserved
  <2>4. UNCHANGED <<xturn, xkey, effects, intact, spoiled>>
    BY DEF Lookup
  <2>5. /\ durable' = [durable EXCEPT ![k] = durable'[k]] /\ durable'[k] \in {"PENDING", durable[k]}
        /\ claims' = [claims EXCEPT ![k] = claims[k] /\ Faithful(k)]
        /\ discarded' = [discarded EXCEPT ![k] = discarded'[k]]
        /\ discarded'[k] = IF Faithful(k) THEN discarded[k] ELSE discarded[k] + 1
    BY <1>1, <1>3 DEF Reserve, LedgerTypeOK
  <2>6. LedgerTypeOK'
    <3>1. durable'[k] \in Recorded /\ (claims[k] /\ Faithful(k)) \in BOOLEAN /\ discarded'[k] \in Nat
      BY <1>1, <2>5 DEF LedgerTypeOK, Recorded, Faithful
    <3>2. /\ durable' \in [Keys -> Recorded] /\ claims' \in [Keys -> BOOLEAN]
          /\ discarded' \in [Keys -> Nat]
      BY <1>1, <2>5, <3>1 DEF LedgerTypeOK
    <3>3. ram' \in [Keys -> Recorded] /\ xpc' \in [Execs -> ExecPC]
      BY <1>1, <2>2 DEF LedgerTypeOK, Recorded, ExecPC
    <3> QED
      BY <2>4, <3>2, <3>3 DEF LedgerTypeOK
  <2>7. (Located /\ Reserved /\ OneActive)'
    BY <1>1, <2>1, <2>2, <2>3, <2>4, <2>5, SMTT(30)
       DEF LedgerTypeOK, Located, Reserved, OneActive, Active, ReadsOnly
  <2>11. \A y \in Execs : xpc'[y] = "wrote" => xpc[y] = "wrote" /\ xkey[y] # k /\ xkey[y] \in Keys
    BY <2>2, <2>3 DEF LedgerTypeOK, Active, Located
  <2>12. \A l \in Keys : /\ claims'[l] => claims[l]
                         /\ l # k => discarded'[l] = discarded[l]
    BY <1>1, <2>5 DEF LedgerTypeOK
  <2>8. Declared'
    BY <2>4, <2>11, <2>12 DEF Declared
  <2>13. Paid'
    <3>1. claims'[k] => discarded'[k] = discarded[k]
      BY <1>1, <2>5 DEF LedgerTypeOK
    <3> QED
      BY <2>4, <2>11, <2>12, <3>1 DEF Paid, Unpaid
  <2>14. EffectOnce'
    <3>1. /\ discarded[k] \in Nat /\ spoiled[k] \in Nat /\ effects[k] \in Nat
          /\ effects[k] <= 1 + discarded[k]
          /\ k[2] \notin Unconfirmable => discarded[k] <= spoiled[k]
      BY <1>1 DEF LedgerTypeOK, EffectOnce
    <3>2. k[2] \notin Unconfirmable /\ ~Faithful(k) => discarded[k] < spoiled[k]
      BY <1>1 DEF Faithful, Paid, Unpaid
    <3>3. /\ effects[k] <= 1 + discarded'[k]
          /\ k[2] \notin Unconfirmable => discarded'[k] <= spoiled[k]
      BY <2>5, <3>1, <3>2
    <3> QED
      BY <2>4, <2>12, <3>3 DEF EffectOnce
  <2>9. Unrecorded'
    <3>1. \A l \in Keys : durable'[l] = "none" => durable[l] = "none"
      BY <1>1, <2>5 DEF LedgerTypeOK
    <3> QED
      BY <2>4, <3>1 DEF Unrecorded, ReadsOnly
  <2>10. NotYet'
    <3>1. \A y \in Execs : xpc'[y] = "dispatch" => y = x \/ (Active(y) /\ xpc[y] = "dispatch")
      BY <2>2 DEF LedgerTypeOK, Active
    <3> QED
      BY <1>1, <2>1, <2>3, <2>4, <2>12, <3>1 DEF NotYet, ReadsOnly, Located
  <2> QED
    BY <2>6, <2>7, <2>8, <2>9, <2>10, <2>13, <2>14
<1> QED
  BY <1>2, <1>3 DEF Lookup

LEMMA LedgerDispatch ==
  ASSUME LedgerInv, NEW x \in Execs, Dispatch(x) PROVE LedgerInv'
<1> DEFINE k == xkey[x]
<1> USE DEF LedgerInv
<1>1. k \in Keys /\ xpc[x] = "dispatch" /\ UNCHANGED <<xturn, xkey, durable, claims, ram, spoiled, discarded>>
  BY DEF Dispatch, Located, Active
<1>2. PICK label \in {"wrote", "returned", "raised"} :
         /\ XGoto(x, label)
         /\ \/ UNCHANGED <<effects, intact>> /\ label # "wrote"
            \/ /\ ~ReadsOnly(k)
               /\ effects' = [effects EXCEPT ![k] = @ + 1]
               /\ intact' = [intact EXCEPT ![k] = k[2] \in Declares \ Unconfirmable]
               /\ label = "wrote" => k[2] \in Declares
  BY DEF Dispatch
<1>3. (Located /\ Reserved /\ OneActive)'
  BY <1>1, <1>2 DEF LedgerTypeOK, Located, Reserved, OneActive, Active, XGoto, ReadsOnly
<1>6. xpc' = [xpc EXCEPT ![x] = label]
  BY <1>2 DEF XGoto
<1>4. CASE UNCHANGED <<effects, intact>> /\ label # "wrote"
  <2>1. LedgerTypeOK'
    BY <1>1, <1>4, <1>6 DEF LedgerTypeOK, ExecPC
  <2>2. \A y \in Execs : xpc'[y] \in {"wrote", "dispatch"} => xpc[y] = xpc'[y]
    BY <1>4, <1>6 DEF LedgerTypeOK
  <2>3. (Declared /\ Unrecorded /\ NotYet /\ Paid /\ EffectOnce)'
    BY <1>1, <1>4, <2>2 DEF Declared, Unrecorded, NotYet, Paid, Unpaid, EffectOnce, ReadsOnly
  <2> QED
    BY <1>3, <2>1, <2>3
<1>5. CASE /\ ~ReadsOnly(k)
           /\ effects' = [effects EXCEPT ![k] = @ + 1]
           /\ intact' = [intact EXCEPT ![k] = k[2] \in Declares \ Unconfirmable]
           /\ label = "wrote" => k[2] \in Declares
  <2>1. effects[k] <= discarded[k] /\ durable[k] = "PENDING"
    BY <1>1, <1>5 DEF NotYet, Reserved, Active
  <2>2. LedgerTypeOK'
    <3>1. effects' \in [Keys -> Nat] /\ intact' \in [Keys -> BOOLEAN]
      BY <1>1, <1>5 DEF LedgerTypeOK
    <3>2. xpc' \in [Execs -> ExecPC]
      BY <1>6 DEF LedgerTypeOK, ExecPC
    <3> QED
      BY <1>1, <3>1, <3>2 DEF LedgerTypeOK
  <2>6. \A l \in Keys :
           /\ effects'[l] = IF l = k THEN effects[k] + 1 ELSE effects[l]
           /\ intact'[l] = IF l = k THEN k[2] \in Declares \ Unconfirmable ELSE intact[l]
    BY <1>1, <1>5 DEF LedgerTypeOK
  <2>7. \A y \in Execs : xpc'[y] = IF y = x THEN label ELSE xpc[y]
    BY <1>6 DEF LedgerTypeOK
  <2>3. (Unrecorded /\ EffectOnce)'
    <3>1. effects[k] \in Nat /\ discarded[k] \in Nat
      BY <1>1 DEF LedgerTypeOK
    <3>2. Unrecorded'
      BY <1>1, <1>5, <2>1, <2>6 DEF Unrecorded, ReadsOnly
    <3>3. EffectOnce'
      BY <1>1, <2>1, <2>6, <3>1 DEF EffectOnce
    <3> QED
      BY <3>2, <3>3
  <2>5. Declared'
    BY <1>1, <1>5, <2>6, <2>7 DEF Declared
  <2>8. Paid'
    <3>1. \A l \in Keys : claims[l] /\ Unpaid(l)' => discarded[l] < spoiled[l]
      <4> TAKE l \in Keys
      <4>1. claims[l] /\ Unpaid(l)' => Unpaid(l)
        BY <2>6 DEF Unpaid, Declared
      <4> QED
        BY <4>1 DEF Paid
    <3>2. ~(label = "wrote" /\ Unpaid(k)')
      BY <1>1, <1>5, <2>6 DEF Unpaid
    <3>3. \A y \in Execs : y # x /\ xpc[y] = "wrote" => xkey[y] \in Keys /\ xkey[y] # k
      BY <1>1 DEF OneActive, Active, Located
    <3> QED
      BY <1>1, <2>6, <2>7, <3>1, <3>2, <3>3 DEF Paid, Unpaid
  <2>4. NotYet'
    <3> SUFFICES ASSUME NEW y \in Execs, xpc'[y] = "dispatch", ~ReadsOnly(xkey[y])
                 PROVE effects'[xkey[y]] <= discarded[xkey[y]]
      BY <1>1 DEF NotYet, ReadsOnly
    <3>1. y # x /\ xpc[y] = "dispatch"
      BY <1>2 DEF LedgerTypeOK, XGoto
    <3>2. xkey[y] # k
      BY <1>1, <3>1 DEF OneActive, Active
    <3> QED
      BY <1>1, <1>5, <3>1, <3>2 DEF NotYet, Located, Active, LedgerTypeOK
  <2> QED
    BY <1>3, <2>2, <2>3, <2>4, <2>5, <2>8
<1> QED
  BY <1>2, <1>4, <1>5

LEMMA LedgerUpdate ==
  ASSUME LedgerInv, NEW x \in Execs, UpdateLedger(x) PROVE LedgerInv'
<1> DEFINE k == xkey[x]
<1> USE DEF LedgerInv
<1>1. k \in Keys /\ Active(x) /\ UNCHANGED <<xturn, xkey, effects, intact, spoiled, discarded>>
  BY DEF UpdateLedger, Located, Active
<1>2. Outcome(x) \in {"COMPLETED", "none", "EXECUTION_UNKNOWN"}
      /\ (Outcome(x) = "none" => ReadsOnly(k))
  BY DEF Outcome, Clears
<1>3. \A y \in Execs : Active(y)' => Active(y) /\ xkey[y] # k /\ xpc'[y] = xpc[y]
  BY <1>1 DEF UpdateLedger, Active, OneActive
<1>4. \A y \in Execs : xpc'[y] \in {"reply", xpc[y]}
  BY DEF UpdateLedger
<1>5. LedgerTypeOK'
  BY <1>1, <1>2, <1>4 DEF UpdateLedger, LedgerTypeOK, Recorded, ExecPC
<1>6. (Located /\ OneActive)'
  BY <1>1, <1>3, <1>4 DEF Located, OneActive, Active
<1>7. Reserved'
  BY <1>1, <1>3 DEF UpdateLedger, Reserved, LedgerTypeOK, ReadsOnly, Located
<1>8. Declared'
  BY <1>1, <1>4 DEF UpdateLedger, Declared, LedgerTypeOK
<1>9. (Unrecorded /\ EffectOnce)'
  BY <1>1, <1>2 DEF UpdateLedger, Unrecorded, EffectOnce, LedgerTypeOK, ReadsOnly
<1>11. Paid'
  <2>1. \A l \in Keys : claims'[l] = IF l = k THEN xpc[x] = "wrote" ELSE claims[l]
    BY <1>1 DEF UpdateLedger, LedgerTypeOK
  <2>2. \A l \in Keys : claims'[l] /\ Unpaid(l) => discarded[l] < spoiled[l]
    <3> TAKE l \in Keys
    <3>1. CASE l = k
      BY <1>1, <2>1, <3>1 DEF Paid
    <3>2. CASE l # k
      BY <2>1, <3>2 DEF Paid
    <3> QED
      BY <3>1, <3>2
  <2>3. \A y \in Execs : xpc'[y] = "wrote" => xpc[y] = "wrote"
    BY <1>4
  <2> QED
    BY <1>1, <2>2, <2>3 DEF Paid, Unpaid
<1>10. NotYet'
  BY <1>1, <1>3 DEF NotYet, ReadsOnly, Active
<1> QED
  BY <1>5, <1>6, <1>7, <1>8, <1>9, <1>10, <1>11

LEMMA LedgerLoss == ASSUME LedgerInv, LoseExecs PROVE LedgerInv'
<1> USE DEF LedgerInv
<1>1. LedgerTypeOK'
  BY DEF LoseExecs, LedgerTypeOK, Recorded, ExecPC
<1>2. \A x \in Execs : xpc'[x] = "free"
  BY DEF LoseExecs
<1>3. (Located /\ Reserved /\ OneActive /\ Declared /\ NotYet /\ Paid)'
  BY <1>2 DEF LoseExecs, Located, Reserved, OneActive, Declared, NotYet, Paid, Unpaid, Active
<1>4. (Unrecorded /\ EffectOnce)'
  BY DEF LoseExecs, Unrecorded, EffectOnce, ReadsOnly
<1> QED
  BY <1>1, <1>3, <1>4

LEMMA LedgerSpoil ==
  ASSUME LedgerInv, NEW k \in Keys, Spoil(k) PROVE LedgerInv'
<1> USE DEF LedgerInv
<1>1. UNCHANGED <<durable, claims, ram, effects, discarded, xpc, xturn, xkey>>
  BY DEF Spoil, execVars
<1>2. \A l \in Keys : /\ intact'[l] = (intact[l] /\ l # k)
                      /\ spoiled'[l] = IF l = k THEN spoiled[l] + 1 ELSE spoiled[l]
  BY DEF Spoil, LedgerTypeOK
<1>3. \A l \in Keys : discarded[l] \in Nat /\ spoiled[l] \in Nat
  BY DEF LedgerTypeOK
<1>4. LedgerTypeOK'
  BY <1>1, SMTT(30) DEF Spoil, LedgerTypeOK
<1>5. (Located /\ Reserved /\ OneActive /\ Unrecorded /\ NotYet)'
  BY <1>1 DEF Located, Reserved, OneActive, Unrecorded, NotYet, Active, ReadsOnly
<1>6. Declared'
  BY <1>1, <1>2 DEF Declared
<1>7. EffectOnce'
  BY <1>1, <1>2, <1>3 DEF EffectOnce
<1>8. Paid'
  <2>1. \A l \in Keys : /\ spoiled[l] <= spoiled'[l]
                        /\ Unpaid(l)' => Unpaid(l) \/ discarded[l] < spoiled'[l]
    <3> TAKE l \in Keys
    <3>1. spoiled'[l] = IF l = k THEN spoiled[l] + 1 ELSE spoiled[l]
      BY <1>2
    <3>2. l # k /\ Unpaid(l)' => Unpaid(l)
      BY <1>2 DEF Unpaid
    <3>3. Unpaid(l)' => discarded[l] <= spoiled[l]
      BY DEF EffectOnce, Unpaid
    <3> QED
      BY <1>3, <3>1, <3>2, <3>3
  <2>2. \A x \in Execs : xpc[x] = "wrote" => xkey[x] \in Keys
    BY DEF Located, Active
  <2> QED
    BY <1>1, <1>2, <1>3, <2>1, <2>2 DEF Paid
<1> QED
  BY <1>4, <1>5, <1>6, <1>7, <1>8

LEMMA LedgerStutters == ASSUME LedgerInv, UNCHANGED ledgerVars PROVE LedgerInv'
  BY DEF LedgerInv, LedgerTypeOK, Located, Reserved, OneActive, Declared, Unrecorded, NotYet,
         Paid, Unpaid, EffectOnce, Active, ReadsOnly, ledgerVars, toolVars, execVars

LEMMA LedgerKeeps == ASSUME LedgerInv, LedgerMoves PROVE LedgerInv'
<1>1. ASSUME NEW x \in Execs, ExecStep(x) PROVE LedgerInv'
  BY <1>1, LedgerChoose, LedgerLookup, LedgerDispatch, LedgerUpdate DEF ExecStep
<1> QED
  BY <1>1, LedgerEnd, LedgerBegin, LedgerLoss, LedgerSpoil, LedgerStutters DEF LedgerMoves

-----------------------------------------------------------------------------
(***************************************************************************)
(* The bridge.  A request has one place at a time: a queue, the hands of   *)
(* one worker, or those of the cancellation that took it out of the queue. *)
(***************************************************************************)

\* A worker between the pop of a request and the end of its future.
Holds(d) == dpc[d] \in {"submit", "wait", "complete", "fail", "settled"}

Elements(c) == ElementsOf(pending[c])
Distinct(seq) == \A i, j \in DOMAIN seq : seq[i] = seq[j] => i = j

\* A chat has one worker, the one its session names.
Workers == \A d \in Drains : dpc[d] # "free" => dchat[d] \in Chats /\ worker[dchat[d]] = d

\* What a worker holds is in flight, of its chat, and nowhere else.
Held ==
    \A d \in Drains : Holds(d) =>
        /\ dreq[d] \in inflight /\ ChatOf[dreq[d]] = dchat[d]
        /\ dropped[dreq[d]] = "no"
        /\ \A c \in Chats : dreq[d] \notin Elements(c)

\* What is queued is in flight, of the chat, claimed by this process, once.
Queued ==
    \A c \in Chats :
        /\ \A m \in Elements(c) : /\ m \in inflight /\ ChatOf[m] = c
                                  /\ row[m] = "IN_FLIGHT" /\ owner[m] = me
                                  /\ dropped[m] = "no"
        /\ Distinct(pending[c])

Cancelled == \A m \in Turns : dropped[m] # "no" => m \in inflight
Claimed == \A d \in Drains : Submitting(d) => row[dreq[d]] = "IN_FLIGHT" /\ owner[dreq[d]] = me
Calling == \A d \in Drains : dpc[d] = "wait" => dexec[d] \in Execs

\* A bot that is down knows nothing.
Down ==
    bot = "down" => /\ inflight = {} /\ \A c \in Chats : pending[c] = <<>>
                    /\ \A d \in Drains : dpc[d] = "free"
                    /\ \A m \in Turns : dropped[m] = "no"

BridgeInv ==
    /\ TurnTypeOK /\ me \in Nat
    /\ Workers /\ Held /\ Queued /\ Cancelled /\ Claimed /\ Calling /\ Down

-----------------------------------------------------------------------------
(***************************************************************************)
(* Queues.                                                                 *)
(***************************************************************************)
LEMMA NothingQueued == ElementsOf(<<>>) = {} /\ Distinct(<<>>)
  BY DEF ElementsOf, Distinct

\* A queue of requests in flight stays one while none of them is resolved.
LEMMA QueueWithin ==
  ASSUME NEW S, NEW T, NEW seq \in Seq(S), ElementsOf(seq) \subseteq T
  PROVE  seq \in Seq(T)
  BY LenProperties DEF ElementsOf

LEMMA QueueElements ==
  ASSUME NEW S, NEW seq \in Seq(S) PROVE ElementsOf(seq) \subseteq S
  BY DEF ElementsOf

LEMMA QueueAppend ==
  ASSUME NEW S, NEW seq \in Seq(S), NEW m \in S
  PROVE  /\ Append(seq, m) \in Seq(S)
         /\ ElementsOf(Append(seq, m)) = ElementsOf(seq) \cup {m}
         /\ Distinct(seq) /\ m \notin ElementsOf(seq) => Distinct(Append(seq, m))
<1> DEFINE app == Append(seq, m)
<1>1. /\ app \in Seq(S) /\ Len(seq) \in Nat /\ DOMAIN seq = 1 .. Len(seq)
      /\ DOMAIN app = 1 .. (Len(seq) + 1)
      /\ \A i \in 1 .. Len(seq) : app[i] = seq[i]
      /\ app[Len(seq) + 1] = m
  OBVIOUS
<1> HIDE DEF app
<1>2. ElementsOf(app) = ElementsOf(seq) \cup {m}
  <2>1. 1 .. (Len(seq) + 1) = (1 .. Len(seq)) \cup {Len(seq) + 1}
    BY <1>1
  <2>2. ASSUME NEW y \in ElementsOf(app) PROVE y \in ElementsOf(seq) \cup {m}
    BY <1>1, <2>1 DEF ElementsOf
  <2>3. ASSUME NEW i \in DOMAIN seq PROVE seq[i] \in ElementsOf(app)
    <3>1. i \in DOMAIN app /\ app[i] = seq[i]
      BY <1>1, <2>1
    <3> QED
      BY <3>1 DEF ElementsOf
  <2>4. m \in ElementsOf(app)
    <3>1. Len(seq) + 1 \in DOMAIN app
      BY <1>1
    <3> QED
      BY <1>1, <3>1 DEF ElementsOf
  <2>5. ElementsOf(seq) \subseteq ElementsOf(app)
    BY <2>3 DEF ElementsOf
  <2> QED
    BY <2>2, <2>4, <2>5
<1>3. ASSUME Distinct(seq), m \notin ElementsOf(seq) PROVE Distinct(app)
  BY <1>1, <1>3, SMTT(30) DEF Distinct, ElementsOf
<1> QED
  BY <1>1, <1>2, <1>3 DEF app

LEMMA QueuePop ==
  ASSUME NEW S, NEW seq \in Seq(S), seq # <<>>
  PROVE  /\ Tail(seq) \in Seq(S) /\ Head(seq) \in ElementsOf(seq)
         /\ ElementsOf(Tail(seq)) \subseteq ElementsOf(seq)
         /\ Distinct(seq) => Distinct(Tail(seq)) /\ Head(seq) \notin ElementsOf(Tail(seq))
<1> DEFINE rest == Tail(seq)  first == Head(seq)
<1>1. /\ rest \in Seq(S) /\ Len(seq) \in Nat \ {0} /\ DOMAIN seq = 1 .. Len(seq)
      /\ DOMAIN rest = 1 .. (Len(seq) - 1)
      /\ \A i \in 1 .. (Len(seq) - 1) : rest[i] = seq[i + 1]
      /\ first = seq[1]
  BY EmptySeq, HeadTailProperties
<1> HIDE DEF rest, first
<1>2. \A i \in DOMAIN rest : i + 1 \in DOMAIN seq /\ i + 1 # 1 /\ rest[i] = seq[i + 1]
  BY <1>1
<1>3. first \in ElementsOf(seq)
  <2>1. 1 \in DOMAIN seq
    BY <1>1
  <2> QED
    BY <1>1, <2>1 DEF ElementsOf
<1>4. ElementsOf(rest) \subseteq ElementsOf(seq)
  <2> SUFFICES ASSUME NEW i \in DOMAIN rest PROVE rest[i] \in ElementsOf(seq)
    BY DEF ElementsOf
  <2> QED
    BY <1>2 DEF ElementsOf
<1>5. ASSUME Distinct(seq) PROVE Distinct(rest) /\ first \notin ElementsOf(rest)
  <2>1. Distinct(rest)
    <3> SUFFICES ASSUME NEW i \in DOMAIN rest, NEW j \in DOMAIN rest, rest[i] = rest[j] PROVE i = j
      BY DEF Distinct
    <3>1. i + 1 = j + 1 /\ i \in Nat /\ j \in Nat
      BY <1>1, <1>2, <1>5, SMTT(30) DEF Distinct
    <3> QED
      BY <3>1
  <2>2. ASSUME NEW i \in DOMAIN rest, rest[i] = first PROVE FALSE
    <3>1. 1 \in DOMAIN seq
      BY <1>1
    <3> QED
      BY <1>1, <1>2, <1>5, <2>2, <3>1 DEF Distinct
  <2> QED
    BY <2>1, <2>2 DEF ElementsOf
<1> QED
  BY <1>1, <1>3, <1>4, <1>5 DEF rest, first

-----------------------------------------------------------------------------
(***************************************************************************)
(* The bridge keeps its invariant.                                         *)
(***************************************************************************)
LEMMA TheChat == ASSUME NEW m \in Turns PROVE ChatOf[m] \in Chats
  OBVIOUS

HIDE DEF Chats, Keys, Execs

LEMMA HeldOnce ==
  ASSUME BridgeInv, NEW d \in Drains, Holds(d)
  PROVE  /\ dreq[d] \in Turns /\ dreq[d] \in inflight /\ dchat[d] \in Chats
         /\ \A e \in Drains : dpc[e] # "free" /\ dchat[e] = dchat[d] => e = d
         /\ \A e \in Drains : Holds(e) /\ dreq[e] = dreq[d] => e = d
<1>1. \A e \in Drains : Holds(e) => dpc[e] # "free"
  BY DEF Holds
<1>2. inflight \subseteq Turns
  BY DEF BridgeInv, TurnTypeOK
<1>3. \A e \in Drains : dpc[e] # "free" => dchat[e] \in Chats /\ worker[dchat[e]] = e
  BY DEF BridgeInv, Workers
<1>4. \A e \in Drains : Holds(e) => dreq[e] \in inflight /\ ChatOf[dreq[e]] = dchat[e]
  BY DEF BridgeInv, Held
<1> QED
  BY <1>1, <1>2, <1>3, <1>4

LEMMA BridgeStart == Init => BridgeInv
<1> SUFFICES ASSUME Init PROVE BridgeInv
  OBVIOUS
<1>1. TurnTypeOK /\ me \in Nat
  BY LedgerStart DEF Init, TurnTypeOK, LedgerInv, NoQueues, NoWorkers, NoDrains, DrainPC
<1>2. Workers /\ Held /\ Cancelled /\ Claimed /\ Calling /\ Down
  BY DEF Init, Workers, Held, Holds, Cancelled, Claimed, Submitting, Calling, Down, NoDrains, NoQueues
<1>3. Queued
  BY NothingQueued DEF Init, Queued, Elements, NoQueues
<1> QED
  BY <1>1, <1>2, <1>3 DEF BridgeInv

LEMMA BridgeStutters ==
  ASSUME BridgeInv, LedgerTypeOK',
         UNCHANGED <<rowVars, botVars, queueVars, futureVars, drainVars>>
  PROVE  BridgeInv'
  BY DEF BridgeInv, TurnTypeOK, Workers, Held, Holds, Queued, Elements, Cancelled, Claimed,
         Submitting, Calling, Down, rowVars, botVars, queueVars, futureVars, drainVars

LEMMA BridgeJoin == ASSUME BridgeInv, LedgerTypeOK', NEW m \in Turns, Join(m) PROVE BridgeInv'
<1> USE DEF BridgeInv, Join, Deliver, botVars, queueVars
<1>1. TurnTypeOK'
  BY DEF TurnTypeOK
<1>2. (Workers /\ Held /\ Cancelled /\ Claimed /\ Calling /\ Down)'
  BY DEF Workers, Held, Holds, Elements, Cancelled, Claimed, Submitting, Calling, Down
<1>3. Queued'
  BY DEF Queued, Elements
<1> QED
  BY <1>1, <1>2, <1>3

LEMMA BridgeOverflow ==
  ASSUME BridgeInv, LedgerTypeOK', NEW m \in Turns, Overflow(m) PROVE BridgeInv'
<1> USE DEF BridgeInv, Overflow, Deliver, botVars, queueVars
<1>1. TurnTypeOK'
  BY DEF TurnTypeOK
<1>2. (Workers /\ Held /\ Cancelled /\ Calling /\ Down)'
  BY DEF Workers, Held, Holds, Elements, Cancelled, Calling, Down
<1>3. \A l \in Turns : l # m => row'[l] = row[l] /\ owner'[l] = owner[l]
  BY DEF TurnTypeOK
<1>6. inflight \subseteq Turns
  BY DEF TurnTypeOK
<1>4. Queued'
  BY <1>3, <1>6 DEF Queued, Elements
<1>5. Claimed'
  BY <1>3 DEF Claimed, Submitting, Held, Holds, TurnTypeOK
<1> QED
  BY <1>1, <1>2, <1>4, <1>5

\* A chat gets a worker only when its worker lives no more; a new worker holds
\* nothing yet.
LEMMA OneWorker ==
  ASSUME BridgeInv, NEW cs \in SUBSET Chats, EnsureWorkers(cs)
  PROVE  /\ worker' \in [Chats -> Drains \cup {0}] /\ dpc' \in [Drains -> DrainPC]
         /\ dchat' \in [Drains -> Chats \cup {None}] /\ Workers'
         /\ \A d \in Drains : dpc'[d] # "pop" => dpc'[d] = dpc[d] /\ dchat'[d] = dchat[d]
<1> DEFINE idle == {c \in cs : ~Alive(worker[c])}
           free == {d \in Drains : dpc[d] = "free"}
<1>1. PICK new \in [idle -> free] :
         /\ \A c, e \in idle : new[c] = new[e] => c = e
         /\ \A d, e \in free : (\E c \in idle : new[c] = d) /\ e < d => \E c \in idle : new[c] = e
         /\ worker' = [c \in Chats |-> IF c \in idle THEN new[c] ELSE worker[c]]
         /\ dpc' = [d \in Drains |-> IF \E c \in idle : new[c] = d THEN "pop" ELSE dpc[d]]
         /\ dchat' = [d \in Drains |-> IF \E c \in idle : new[c] = d
                                         THEN CHOOSE c \in idle : new[c] = d ELSE dchat[d]]
  BY DEF EnsureWorkers
<1> USE DEF BridgeInv
<1>2. \A c \in idle : c \in Chats /\ new[c] \in Drains /\ dpc[new[c]] = "free"
  OBVIOUS
<1>3. \A c \in idle : (CHOOSE e \in idle : new[e] = new[c]) = c
  BY <1>1
<1>4. \A d \in Drains : (\E c \in idle : new[c] = d) =>
         /\ dpc'[d] = "pop" /\ dchat'[d] \in idle /\ new[dchat'[d]] = d
  BY <1>1, <1>3
<1>5. \A d \in Drains : ~(\E c \in idle : new[c] = d) =>
         dpc'[d] = dpc[d] /\ dchat'[d] = dchat[d]
  BY <1>1
<1>6. /\ worker' \in [Chats -> Drains \cup {0}] /\ dpc' \in [Drains -> DrainPC]
      /\ dchat' \in [Drains -> Chats \cup {None}]
  <2>1. worker' \in [Chats -> Drains \cup {0}]
    BY <1>1, <1>2 DEF TurnTypeOK
  <2>2. \A d \in Drains : dpc'[d] \in DrainPC /\ dchat'[d] \in Chats \cup {None}
    <3> TAKE d \in Drains
    <3>1. dpc[d] \in DrainPC /\ dchat[d] \in Chats \cup {None} /\ "pop" \in DrainPC
      BY DEF TurnTypeOK, DrainPC
    <3>2. CASE \E c \in idle : new[c] = d
      BY <1>2, <1>4, <3>1, <3>2
    <3>3. CASE ~\E c \in idle : new[c] = d
      BY <1>5, <3>1, <3>3
    <3> QED
      BY <3>2, <3>3
  <2> QED
    BY <1>1, <2>1, <2>2
<1>7. ASSUME NEW d \in Drains, dpc'[d] # "free"
      PROVE  dchat'[d] \in Chats /\ worker'[dchat'[d]] = d
  <2>1. CASE \E c \in idle : new[c] = d
    BY <1>1, <1>2, <1>4, <2>1
  <2>2. CASE ~\E c \in idle : new[c] = d
    <3>1. dpc[d] # "free" /\ dchat'[d] = dchat[d] /\ dchat[d] \in Chats /\ worker[dchat[d]] = d
      BY <1>5, <1>7, <2>2 DEF Workers
    <3>2. dchat[d] \notin idle
      BY <3>1 DEF Alive
    <3> QED
      BY <1>1, <3>1, <3>2
  <2> QED
    BY <2>1, <2>2
<1> QED
  BY <1>4, <1>5, <1>6, <1>7 DEF Workers

LEMMA BridgeAccept ==
  ASSUME BridgeInv, LedgerTypeOK', NEW m \in Turns, Accept(m) PROVE BridgeInv'
<1> DEFINE c == ChatOf[m]
<1> USE DEF BridgeInv
<1>1. /\ m \notin inflight /\ c \in Chats /\ EnsureWorkers({c}) /\ bot = "up"
      /\ row' = [row EXCEPT ![m] = "IN_FLIGHT"] /\ owner' = [owner EXCEPT ![m] = me]
      /\ session' = session \cup {c} /\ pending' = [pending EXCEPT ![c] = Append(@, m)]
      /\ inflight' = inflight \cup {m} /\ waiting' = [waiting EXCEPT ![m] = 1]
      /\ UNCHANGED <<bot, me, recovered, stale, dropped, dreq, dexec>>
  BY TheChat DEF Accept, Deliver, botVars
<1>2. /\ worker' \in [Chats -> Drains \cup {0}] /\ dpc' \in [Drains -> DrainPC]
      /\ dchat' \in [Drains -> Chats \cup {None}] /\ Workers'
      /\ \A d \in Drains : dpc'[d] # "pop" => dpc'[d] = dpc[d] /\ dchat'[d] = dchat[d]
  BY <1>1, OneWorker
<1>3. /\ \A l \in Turns : l # m => row'[l] = row[l] /\ owner'[l] = owner[l]
      /\ row'[m] = "IN_FLIGHT" /\ owner'[m] = me
  BY <1>1 DEF TurnTypeOK
<1>15. inflight \subseteq Turns /\ pending \in [Chats -> Seq(inflight)]
  BY DEF TurnTypeOK
<1>4. \A e \in Chats : pending[e] \in Seq(inflight')
  <2> SUFFICES ASSUME NEW e \in Chats PROVE pending[e] \in Seq(inflight')
    OBVIOUS
  <2>1. pending[e] \in Seq(inflight) /\ inflight \subseteq inflight'
    BY <1>1, <1>15
  <2> QED
    BY <2>1, SeqMonotonic
<1>5. /\ pending'[c] \in Seq(inflight') /\ Elements(c)' = Elements(c) \cup {m}
      /\ Distinct(pending[c]) /\ m \notin Elements(c) => Distinct(pending'[c])
  <2>1. pending'[c] = Append(pending[c], m) /\ m \in inflight' /\ pending[c] \in Seq(inflight')
    BY <1>1, <1>4, <1>15
  <2> QED
    BY <2>1, QueueAppend DEF Elements
<1>6. \A e \in Chats : e # c => pending'[e] = pending[e] /\ Elements(e)' = Elements(e)
  BY <1>1 DEF TurnTypeOK, Elements
<1>7. \A e \in Chats : m \notin Elements(e)
  BY <1>1 DEF Queued
<1>8. dropped[m] = "no"
  BY <1>1 DEF Cancelled
<1>9. TurnTypeOK'
  <2>1. pending' \in [Chats -> Seq(inflight')]
    BY <1>1, <1>4, <1>5, <1>6 DEF TurnTypeOK
  <2>2. row' \in [Turns -> {"none", "IN_FLIGHT", "COMPLETED", "FAILED"}] /\ owner' \in [Turns -> 0 .. me']
    BY <1>1 DEF TurnTypeOK
  <2>3. waiting' \in [Turns -> Nat] /\ inflight' \subseteq Turns
    BY <1>1 DEF TurnTypeOK
  <2> QED
    BY <1>1, <1>2, <2>1, <2>2, <2>3 DEF TurnTypeOK
<1>10. \A d \in Drains : Holds(d)' => Holds(d) /\ dpc'[d] = dpc[d] /\ dchat'[d] = dchat[d]
  BY <1>2 DEF Holds
<1>11. Held'
  <2> SUFFICES ASSUME NEW d \in Drains, Holds(d)'
               PROVE  /\ dreq[d] \in inflight' /\ ChatOf[dreq[d]] = dchat'[d]
                      /\ dropped[dreq[d]] = "no"
                      /\ \A e \in Chats : dreq[d] \notin Elements(e)'
    BY <1>1 DEF Held
  <2>1. dreq[d] # m /\ dreq[d] \in inflight /\ ChatOf[dreq[d]] = dchat'[d] /\ dropped[dreq[d]] = "no"
        /\ \A e \in Chats : dreq[d] \notin Elements(e)
    BY <1>1, <1>10 DEF Held
  <2> QED
    BY <1>1, <1>5, <1>6, <2>1, ZenonT(60)
<1>12. Queued'
  <2> SUFFICES ASSUME NEW e \in Chats
               PROVE  /\ \A l \in Elements(e)' : /\ l \in inflight' /\ ChatOf[l] = e
                                                 /\ row'[l] = "IN_FLIGHT" /\ owner'[l] = me
                                                 /\ dropped[l] = "no"
                      /\ Distinct(pending'[e])
    BY <1>1 DEF Queued
  <2>1. Distinct(pending'[e])
    BY <1>5, <1>6, <1>7 DEF Queued
  <2>2. \A l \in Elements(e)' : (l = m /\ e = c) \/ l \in Elements(e)
    BY <1>5, <1>6
  <2>3. \A l \in Elements(e) : /\ l \in inflight' /\ ChatOf[l] = e /\ row'[l] = "IN_FLIGHT"
                               /\ owner'[l] = me /\ dropped[l] = "no"
    BY <1>1, <1>3, <1>15 DEF Queued
  <2> QED
    BY <1>1, <1>3, <1>8, <2>1, <2>2, <2>3
<1>13. (Claimed /\ Calling)'
  BY <1>1, <1>2, <1>3, <1>10 DEF Claimed, Submitting, Held, Holds, Calling, TurnTypeOK
<1>14. (Cancelled /\ Down)'
  BY <1>1 DEF Cancelled, Down
<1> QED
  BY <1>1, <1>2, <1>9, <1>11, <1>12, <1>13, <1>14

\* A worker that keeps its request: its row may change once it is not submitted
\* any more.
LEMMA WorkerKeeps ==
  ASSUME BridgeInv, LedgerTypeOK', NEW d \in Drains, Holds(d),
         NEW label \in {"wait", "complete", "fail", "settled"}, DGoto(d, label),
         UNCHANGED <<owner, stale, botVars, queueVars, futureVars, dchat, dreq>>,
         row' \in [Turns -> {"none", "IN_FLIGHT", "COMPLETED", "FAILED"}],
         \A m \in Turns : m # dreq[d] => row'[m] = row[m],
         label = "wait" => UNCHANGED row /\ dpc[d] = "submit" /\ dexec'[d] \in Execs,
         dexec' \in [Drains -> Execs \cup {0}], \A e \in Drains : e # d => dexec'[e] = dexec[e]
  PROVE  BridgeInv'
<1> USE DEF BridgeInv, queueVars, botVars, futureVars
<1>1. \A e \in Drains : dpc'[e] = IF e = d THEN label ELSE dpc[e]
  BY DEF DGoto, TurnTypeOK
<1>2. \A e \in Drains : (Holds(e)' <=> Holds(e)) /\ (dpc'[e] # "free" <=> dpc[e] # "free")
  BY <1>1 DEF Holds
<1>3. \A c \in Chats : Elements(c)' = Elements(c)
  BY DEF Elements
<1>4. TurnTypeOK'
  <2>1. dpc' \in [Drains -> DrainPC]
    BY DEF DGoto, TurnTypeOK, DrainPC
  <2> QED
    BY <2>1 DEF TurnTypeOK
<1>5. (Workers /\ Held)'
  <2>1. Workers'
    BY <1>2 DEF Workers
  <2>2. Held'
    <3> SUFFICES ASSUME NEW e \in Drains, Holds(e)'
                 PROVE  /\ dreq[e] \in inflight /\ ChatOf[dreq[e]] = dchat[e] /\ dropped[dreq[e]] = "no"
                        /\ \A c \in Chats : dreq[e] \notin Elements(c)'
      BY DEF Held
    <3> QED
      BY <1>2, <1>3 DEF Held
  <2> QED
    BY <2>1, <2>2
<1>6. inflight \subseteq Turns
  BY DEF TurnTypeOK
<1>7. Queued'
  <2>1. \A c \in Chats : \A m \in Elements(c) : m # dreq[d] /\ m \in Turns
    BY <1>6, SMTT(30) DEF Queued, Held
  <2>2. \A c \in Chats : \A m \in Elements(c) : row'[m] = row[m]
    BY <2>1
  <2> SUFFICES ASSUME NEW c \in Chats
               PROVE  /\ \A m \in Elements(c) : /\ m \in inflight /\ ChatOf[m] = c
                                                /\ row'[m] = "IN_FLIGHT" /\ owner[m] = me
                                                /\ dropped[m] = "no"
                      /\ Distinct(pending[c])
    BY <1>3 DEF Queued
  <2> QED
    BY <2>2 DEF Queued
<1>8. Claimed'
  <2> SUFFICES ASSUME NEW e \in Drains, Submitting(e)'
               PROVE  row'[dreq[e]] = "IN_FLIGHT" /\ owner[dreq[e]] = me
    BY DEF Claimed
  <2>1. Submitting(e)
    BY <1>1 DEF Submitting
  <2>2. CASE e = d
    BY <1>1, <2>1, <2>2 DEF Submitting, Claimed
  <2>3. CASE e # d
    <3>1. Holds(e)
      BY <2>1 DEF Submitting, Holds
    <3>2. dreq[e] # dreq[d] /\ dreq[e] \in Turns
      BY <2>3, <3>1, HeldOnce
    <3> QED
      BY <2>1, <3>2 DEF Claimed
  <2> QED
    BY <2>2, <2>3
<1>9. (Cancelled /\ Calling /\ Down)'
  BY <1>1, <1>2, <1>3 DEF Cancelled, Calling, Down
<1> QED
  BY <1>4, <1>5, <1>7, <1>8, <1>9

\* A worker lets its request go: the future is resolved, and nobody else had
\* anything to do with it.
LEMMA WorkerReleases ==
  ASSUME BridgeInv, LedgerTypeOK', NEW d \in Drains, Holds(d),
         Resolve(dreq[d]), dreq' = [dreq EXCEPT ![d] = None],
         NEW label \in {"pop", "free"}, DGoto(d, label),
         UNCHANGED <<owner, stale, botVars, queueVars, dropped>>,
         row' \in [Turns -> {"none", "IN_FLIGHT", "COMPLETED", "FAILED"}],
         \A m \in Turns : m # dreq[d] => row'[m] = row[m],
         dchat' \in [Drains -> Chats \cup {None}], \A e \in Drains : e # d => dchat'[e] = dchat[e],
         label = "pop" => dchat'[d] = dchat[d],
         dexec' \in [Drains -> Execs \cup {0}], \A e \in Drains : e # d => dexec'[e] = dexec[e]
  PROVE  BridgeInv'
<1> DEFINE m == dreq[d]
<1> USE DEF BridgeInv, queueVars, botVars
<1>1. \A e \in Drains : dpc'[e] = IF e = d THEN label ELSE dpc[e]
  BY DEF DGoto, TurnTypeOK
<1>2. \A e \in Drains : e # d => dreq'[e] = dreq[e]
  BY DEF TurnTypeOK
<1>3. \A c \in Chats : Elements(c)' = Elements(c) /\ m \notin Elements(c)
  BY DEF Elements, Held
<1>4. m \in Turns /\ inflight \subseteq Turns /\ inflight' = inflight \ {m} /\ dropped[m] = "no"
  BY HeldOnce DEF TurnTypeOK, Resolve, Held
<1>5. \A e \in Drains : Holds(e)' => e # d /\ Holds(e) /\ dreq[e] # m
  BY <1>1, HeldOnce DEF Holds
<1>6. TurnTypeOK'
  <2>1. dpc' \in [Drains -> DrainPC] /\ dreq' \in [Drains -> Turns \cup {None}]
    BY DEF DGoto, TurnTypeOK, DrainPC
  <2>2. pending \in [Chats -> Seq(inflight')]
    <3> SUFFICES ASSUME NEW c \in Chats PROVE pending[c] \in Seq(inflight')
      BY DEF TurnTypeOK
    <3>1. pending[c] \in Seq(inflight)
      BY DEF TurnTypeOK
    <3>2. Elements(c) \subseteq inflight'
      BY <1>3, <1>4 DEF Queued
    <3> QED
      BY <3>1, <3>2, QueueWithin DEF Elements
  <2>3. waiting' \in [Turns -> Nat]
    BY DEF Resolve, TurnTypeOK
  <2> QED
    BY <1>4, <2>1, <2>2, <2>3 DEF TurnTypeOK
<1>7. Workers'
  <2> SUFFICES ASSUME NEW e \in Drains, dpc'[e] # "free"
               PROVE  dchat'[e] \in Chats /\ worker[dchat'[e]] = e
    BY DEF Workers
  <2>1. dchat'[e] = dchat[e] /\ dpc[e] # "free"
    BY <1>1 DEF Holds
  <2> QED
    BY <2>1 DEF Workers
<1>8. Held'
  <2> SUFFICES ASSUME NEW e \in Drains, Holds(e)'
               PROVE  /\ dreq'[e] \in inflight' /\ ChatOf[dreq'[e]] = dchat'[e] /\ dropped[dreq'[e]] = "no"
                      /\ \A c \in Chats : dreq'[e] \notin Elements(c)'
    BY DEF Held
  <2> QED
    BY <1>2, <1>3, <1>4, <1>5 DEF Held
<1>9. Queued'
  <2>1. \A c \in Chats : \A l \in Elements(c) : l # m /\ l \in Turns
    BY <1>3, <1>4 DEF Queued
  <2>2. \A c \in Chats : \A l \in Elements(c) : row'[l] = row[l] /\ l \in inflight'
    BY <1>4, <2>1 DEF Queued
  <2> SUFFICES ASSUME NEW c \in Chats
               PROVE  /\ \A l \in Elements(c) : /\ l \in inflight' /\ ChatOf[l] = c
                                                /\ row'[l] = "IN_FLIGHT" /\ owner[l] = me
                                                /\ dropped[l] = "no"
                      /\ Distinct(pending[c])
    BY <1>3 DEF Queued
  <2> QED
    BY <2>2 DEF Queued
<1>10. Claimed'
  <2> SUFFICES ASSUME NEW e \in Drains, Submitting(e)'
               PROVE  row'[dreq'[e]] = "IN_FLIGHT" /\ owner[dreq'[e]] = me
    BY DEF Claimed
  <2>1. Holds(e)' /\ Submitting(e) /\ e # d
    BY <1>1 DEF Submitting, Holds
  <2>2. dreq'[e] = dreq[e] /\ dreq[e] # m /\ dreq[e] \in Turns
    BY <1>2, <1>5, <2>1, HeldOnce
  <2> QED
    BY <2>1, <2>2, SMTT(30) DEF Claimed
<1>11. (Cancelled /\ Calling /\ Down)'
  BY <1>1, <1>3, <1>4 DEF Cancelled, Calling, Down, Holds
<1> QED
  BY <1>6, <1>7, <1>8, <1>9, <1>10, <1>11

LEMMA BridgeDrain ==
  ASSUME BridgeInv, LedgerTypeOK', NEW d \in Drains,
         Submit(d) \/ Refused(d) \/ Answer(d) \/ TimeOut(d) \/ SettleLedger(d) \/ SettleFuture(d)
         \/ CancelDrain(d)
  PROVE  BridgeInv'
<1> USE DEF DrainUnchanged, futureVars
<1>1. row \in [Turns -> {"none", "IN_FLIGHT", "COMPLETED", "FAILED"}]
      /\ dexec \in [Drains -> Execs \cup {0}] /\ dchat \in [Drains -> Chats \cup {None}]
  BY DEF BridgeInv, TurnTypeOK
<1>2. CASE Submit(d)
  <2>1. CASE \E x \in Execs : Begin(x, dreq[d]) /\ dexec' = [dexec EXCEPT ![d] = x]
    <3> SUFFICES ASSUME NEW x \in Execs, dexec' = [dexec EXCEPT ![d] = x], DGoto(d, "wait")
                 PROVE BridgeInv'
      BY <1>2, <2>1 DEF Submit, Begin, FirstFree
    <3> QED
      BY <1>1, <1>2, WorkerKeeps DEF Submit, Holds
  <2>2. CASE DGoto(d, "fail") /\ UNCHANGED dexec
    BY <1>1, <1>2, <2>2, WorkerKeeps DEF Submit, Holds
  <2> QED
    BY <1>2, <2>1, <2>2 DEF Submit
<1>3. CASE Refused(d)
  BY <1>1, <1>3, WorkerKeeps DEF Refused, Holds
<1>4. CASE Answer(d)
  BY <1>1, <1>4, WorkerKeeps DEF Answer, Holds
<1>5. CASE TimeOut(d)
  BY <1>1, <1>5, WorkerKeeps DEF TimeOut, Holds
<1>6. \A m \in Turns : Settled(m, "fail") \in {"none", "IN_FLIGHT", "COMPLETED", "FAILED"}
                       /\ Settled(m, dpc[d]) \in {"none", "IN_FLIGHT", "COMPLETED", "FAILED"}
  BY <1>1 DEF Settled
<1>7. CASE SettleLedger(d)
  <2>1. Holds(d) /\ DGoto(d, "settled") /\ dreq[d] \in Turns
    BY <1>7, HeldOnce DEF SettleLedger, Holds, AfterError
  <2> DEFINE m == dreq[d]
  <2>2. /\ row' \in [Turns -> {"none", "IN_FLIGHT", "COMPLETED", "FAILED"}]
        /\ \A l \in Turns : l # m => row'[l] = row[l]
    BY <1>1, <1>6, <1>7, <2>1 DEF SettleLedger
  <2> QED
    BY <1>1, <1>7, <2>1, <2>2, WorkerKeeps DEF SettleLedger
<1>8. CASE SettleFuture(d)
  BY <1>1, <1>8, WorkerReleases DEF SettleFuture, Holds
<1>9. CASE CancelDrain(d)
  <2>1. Holds(d) /\ dreq[d] \in Turns
    BY <1>9, HeldOnce DEF CancelDrain, Holds
  <2>2. /\ row' \in [Turns -> {"none", "IN_FLIGHT", "COMPLETED", "FAILED"}]
        /\ \A l \in Turns : l # dreq[d] => row'[l] = row[l]
    BY <1>1, <1>6, <1>9, <2>1 DEF CancelDrain
  <2>3. /\ dchat' \in [Drains -> Chats \cup {None}] /\ \A e \in Drains : e # d => dchat'[e] = dchat[e]
        /\ dexec' \in [Drains -> Execs \cup {0}] /\ \A e \in Drains : e # d => dexec'[e] = dexec[e]
    BY <1>1, <1>9 DEF CancelDrain
  <2> QED
    BY <1>9, <2>1, <2>2, <2>3, WorkerReleases DEF CancelDrain
<1> QED
  BY <1>2, <1>3, <1>4, <1>5, <1>7, <1>8, <1>9

LEMMA BridgePop == ASSUME BridgeInv, LedgerTypeOK', NEW d \in Drains, Pop(d) PROVE BridgeInv'
<1> DEFINE c == dchat[d]
<1> USE DEF BridgeInv, DrainUnchanged, botVars
<1>1. /\ dpc[d] = "pop" /\ c \in Chats /\ worker[c] = d
      /\ UNCHANGED <<row, owner, stale, bot, me, recovered, inflight, waiting, dropped, dexec>>
  BY DEF Pop, Workers
<1>2. pending \in [Chats -> Seq(inflight)] /\ inflight \subseteq Turns
  BY DEF TurnTypeOK
<1>3. bot # "down"
  BY <1>1 DEF Down
<1>4. \A e \in Drains : e # d /\ dpc[e] # "free" => dchat[e] # c
  BY <1>1 DEF Workers
<1>5. CASE /\ pending[c] # <<>> /\ DGoto(d, "submit")
           /\ dreq' = [dreq EXCEPT ![d] = Head(pending[c])]
           /\ pending' = [pending EXCEPT ![c] = Tail(@)]
           /\ UNCHANGED <<session, worker, dchat>>
  <2> DEFINE m == Head(pending[c])
  <2>1. /\ pending'[c] \in Seq(inflight) /\ m \in Elements(c) /\ Elements(c)' \subseteq Elements(c)
        /\ Distinct(pending'[c]) /\ m \notin Elements(c)'
    BY <1>1, <1>2, <1>5, QueuePop DEF Elements, Queued
  <2>2. \A e \in Chats : e # c => pending'[e] = pending[e] /\ Elements(e)' = Elements(e)
    BY <1>5, <1>2 DEF Elements
  <2>3. /\ m \in inflight /\ ChatOf[m] = c /\ row[m] = "IN_FLIGHT" /\ owner[m] = me /\ dropped[m] = "no"
    BY <1>1, <2>1 DEF Queued
  <2>12. \A e \in Chats : Elements(e)' \subseteq Elements(e)
    <3> SUFFICES ASSUME NEW e \in Chats PROVE Elements(e)' \subseteq Elements(e)
      OBVIOUS
    <3>1. CASE e = c
      BY <1>5, <2>1, <3>1
    <3>2. CASE e # c
      BY <2>2, <3>2
    <3> QED
      BY <3>1, <3>2
  <2>4. \A e \in Chats : m \notin Elements(e)'
    <3> SUFFICES ASSUME NEW e \in Chats, m \in Elements(e)' PROVE FALSE
      OBVIOUS
    <3>1. e # c
      BY <1>5, <2>1
    <3>2. m \in Elements(e)
      BY <2>12
    <3> QED
      BY <2>3, <3>1, <3>2 DEF Queued
  <2>5. \A e \in Drains : /\ dpc'[e] = IF e = d THEN "submit" ELSE dpc[e]
                          /\ dreq'[e] = IF e = d THEN m ELSE dreq[e]
    BY <1>5 DEF DGoto, TurnTypeOK
  <2>6. TurnTypeOK'
    <3>1. dpc' \in [Drains -> DrainPC] /\ dreq' \in [Drains -> Turns \cup {None}]
      BY <1>2, <1>5, <2>3 DEF DGoto, TurnTypeOK, DrainPC
    <3>2. pending' \in [Chats -> Seq(inflight)]
      BY <1>2, <1>5, <2>1
    <3> QED
      BY <1>1, <1>5, <3>1, <3>2 DEF TurnTypeOK
  <2>7. Workers'
    BY <1>1, <1>5, <2>5 DEF Workers
  <2>8. Held'
    <3> SUFFICES ASSUME NEW e \in Drains, Holds(e)'
                 PROVE  /\ dreq'[e] \in inflight /\ ChatOf[dreq'[e]] = dchat[e]
                        /\ dropped[dreq'[e]] = "no"
                        /\ \A f \in Chats : dreq'[e] \notin Elements(f)'
      BY <1>1, <1>5 DEF Held
    <3>1. CASE e = d
      BY <2>3, <2>4, <2>5, <3>1
    <3>2. CASE e # d
      <4>1. Holds(e) /\ dreq'[e] = dreq[e]
        BY <2>5, <3>2 DEF Holds
      <4> QED
        BY <2>12, <4>1 DEF Held
    <3> QED
      BY <3>1, <3>2
  <2>9. Queued'
    <3> SUFFICES ASSUME NEW e \in Chats
                 PROVE  /\ \A l \in Elements(e)' : /\ l \in inflight /\ ChatOf[l] = e
                                                   /\ row[l] = "IN_FLIGHT" /\ owner[l] = me
                                                   /\ dropped[l] = "no"
                        /\ Distinct(pending'[e])
      BY <1>1 DEF Queued
    <3>1. Distinct(pending'[e])
      BY <2>1, <2>2 DEF Queued
    <3>2. \A l \in Elements(e)' : l \in Elements(e)
      BY <2>12
    <3> QED
      BY <3>1, <3>2 DEF Queued
  <2>10. Claimed'
    BY <1>1, <2>3, <2>5 DEF Claimed, Submitting
  <2>11. (Cancelled /\ Calling /\ Down)'
    BY <1>1, <1>3, <2>5 DEF Cancelled, Calling, Down
  <2> QED
    BY <1>1, <2>6, <2>7, <2>8, <2>9, <2>10, <2>11
<1>6. CASE /\ DGoto(d, "free") /\ dchat' = [dchat EXCEPT ![d] = None]
           /\ session' = session \ {c} /\ worker' = [worker EXCEPT ![c] = 0]
           /\ UNCHANGED <<dreq, pending>>
  <2>1. \A e \in Drains : /\ dpc'[e] = IF e = d THEN "free" ELSE dpc[e]
                          /\ e # d => dchat'[e] = dchat[e]
    BY <1>6 DEF DGoto, TurnTypeOK
  <2>2. \A e \in Chats : Elements(e)' = Elements(e)
    BY <1>6 DEF Elements
  <2>3. \A e \in Drains : Holds(e)' => Holds(e) /\ e # d
    BY <2>1 DEF Holds
  <2>4. TurnTypeOK'
    BY <1>1, <1>6 DEF TurnTypeOK, DGoto, DrainPC
  <2>5. Workers'
    BY <1>1, <1>4, <1>6, <2>1 DEF Workers, TurnTypeOK
  <2>6. Held'
    BY <1>1, <1>6, <2>1, <2>2, <2>3 DEF Held
  <2>7. Queued'
    BY <1>1, <1>6, <2>2 DEF Queued
  <2>8. (Claimed /\ Cancelled /\ Calling /\ Down)'
    BY <1>1, <1>3, <1>6, <2>1 DEF Claimed, Submitting, Cancelled, Calling, Down
  <2> QED
    BY <1>1, <2>4, <2>5, <2>6, <2>7, <2>8
<1> QED
  BY <1>5, <1>6 DEF Pop

LEMMA BridgeCancelChat ==
  ASSUME BridgeInv, LedgerTypeOK', NEW c \in Chats, CancelChat(c) PROVE BridgeInv'
<1> USE DEF BridgeInv
<1>1. /\ bot # "down" /\ pending' = [pending EXCEPT ![c] = <<>>]
      /\ \A m \in Turns : dropped'[m] = IF m \in Elements(c) THEN "fail" ELSE dropped[m]
      /\ dropped' \in [Turns -> {"no", "fail", "resolve"}]
      /\ UNCHANGED <<row, owner, stale, bot, me, recovered, session, worker, inflight, waiting,
                     dpc, dchat, dreq, dexec>>
  BY DEF CancelChat, QueueCancelled, Elements, TurnTypeOK, rowVars, botVars, drainVars
<1>2. inflight \subseteq Turns /\ pending \in [Chats -> Seq(inflight)]
  BY DEF TurnTypeOK
<1>3. pending'[c] = <<>> /\ Elements(c)' = {} /\ Distinct(pending'[c])
  BY <1>1, <1>2, NothingQueued DEF Elements
<1>4. \A e \in Chats : e # c => pending'[e] = pending[e] /\ Elements(e)' = Elements(e)
  BY <1>1, <1>2 DEF Elements
<1>5. \A e \in Chats : \A m \in Elements(e) : e # c => m \notin Elements(c) /\ m \in Turns
  BY <1>2 DEF Queued
<1>6. TurnTypeOK'
  <2>1. pending' \in [Chats -> Seq(inflight)]
    BY <1>1, <1>2, EmptySeq
  <2> QED
    BY <1>1, <2>1 DEF TurnTypeOK
<1>7. Held'
  <2> SUFFICES ASSUME NEW e \in Drains, Holds(e)
               PROVE  /\ dreq[e] \in inflight /\ ChatOf[dreq[e]] = dchat[e] /\ dropped'[dreq[e]] = "no"
                      /\ \A f \in Chats : dreq[e] \notin Elements(f)'
    BY <1>1 DEF Held, Holds
  <2>1. \A f \in Chats : dreq[e] \notin Elements(f)
    BY DEF Held
  <2>2. \A f \in Chats : dreq[e] \notin Elements(f)'
    <3> TAKE f \in Chats
    <3>1. CASE f = c
      BY <1>3, <3>1
    <3>2. CASE f # c
      BY <1>4, <2>1, <3>2
    <3> QED
      BY <3>1, <3>2
  <2>3. dreq[e] \in inflight /\ ChatOf[dreq[e]] = dchat[e] /\ dropped[dreq[e]] = "no"
    BY DEF Held
  <2> QED
    BY <1>1, <1>2, <2>1, <2>2, <2>3
<1>8. Queued'
  BY <1>1, <1>3, <1>4, <1>5 DEF Queued
<1>9. (Workers /\ Claimed /\ Calling)'
  BY <1>1 DEF Workers, Claimed, Submitting, Calling
<1>10. Cancelled'
  BY <1>1 DEF Cancelled, Queued
<1>11. Down'
  BY <1>1 DEF Down
<1> QED
  BY <1>1, <1>6, <1>7, <1>8, <1>9, <1>10, <1>11

\* A request that a cancellation took out is in no queue and no worker's hands.
LEMMA TakenOut ==
  ASSUME BridgeInv, NEW m \in Turns, dropped[m] # "no"
  PROVE  /\ m \in inflight /\ \A c \in Chats : m \notin Elements(c)
         /\ \A d \in Drains : Holds(d) => dreq[d] # m
  BY DEF BridgeInv, Cancelled, Queued, Held

LEMMA BridgeCancelStep ==
  ASSUME BridgeInv, LedgerTypeOK', NEW m \in Turns, CancelStep(m) PROVE BridgeInv'
<1> USE DEF BridgeInv, botVars, queueVars, drainVars
<1>1. /\ dropped[m] # "no"
      /\ UNCHANGED <<owner, stale, bot, me, recovered, session, pending, worker, dpc, dchat, dreq, dexec>>
  BY DEF CancelStep, CancelInLedger, CancelFuture, rowVars
<1>2. /\ m \in inflight /\ \A c \in Chats : m \notin Elements(c)
      /\ \A d \in Drains : Holds(d) => dreq[d] # m
  BY <1>1, TakenOut
<1>3. \A l \in Turns : l # m => row'[l] = row[l] /\ dropped'[l] = dropped[l]
                                /\ (l \in inflight => l \in inflight')
  BY DEF CancelStep, CancelInLedger, CancelFuture, Resolve, rowVars, TurnTypeOK
<1>4. /\ row' \in [Turns -> {"none", "IN_FLIGHT", "COMPLETED", "FAILED"}]
      /\ dropped' \in [Turns -> {"no", "fail", "resolve"}]
      /\ waiting' \in [Turns -> Nat] /\ inflight' \subseteq inflight
      /\ dropped'[m] # "no" => m \in inflight'
  <2>1. CASE CancelInLedger(m)
    <3>1. Settled(m, "fail") \in {"none", "IN_FLIGHT", "COMPLETED", "FAILED"}
      BY DEF Settled, TurnTypeOK
    <3> QED
      BY <1>2, <2>1, <3>1 DEF CancelInLedger, TurnTypeOK
  <2>2. CASE CancelFuture(m)
    BY <2>2 DEF CancelFuture, Resolve, TurnTypeOK, rowVars
  <2> QED
    BY <2>1, <2>2 DEF CancelStep
<1>5. inflight \subseteq Turns /\ pending \in [Chats -> Seq(inflight)]
  BY DEF TurnTypeOK
<1>6. \A c \in Chats : Elements(c)' = Elements(c)
  BY <1>1 DEF Elements
<1>7. \A c \in Chats : \A l \in Elements(c) : l \in Turns /\ l # m /\ l \in inflight'
  BY <1>2, <1>3, <1>5 DEF Queued
<1>8. \A d \in Drains : Holds(d)' => Holds(d)
  BY <1>1 DEF Holds
<1>9. TurnTypeOK'
  <2>1. pending \in [Chats -> Seq(inflight')]
    <3> SUFFICES ASSUME NEW c \in Chats PROVE pending[c] \in Seq(inflight')
      BY <1>5
    <3>1. Elements(c) \subseteq inflight'
      BY <1>7
    <3> QED
      BY <1>5, <3>1, QueueWithin DEF Elements
  <2> QED
    BY <1>1, <1>4, <2>1 DEF TurnTypeOK
<1>10. Held'
  <2> SUFFICES ASSUME NEW d \in Drains, Holds(d)
               PROVE  /\ dreq[d] \in inflight' /\ ChatOf[dreq[d]] = dchat[d] /\ dropped'[dreq[d]] = "no"
                      /\ \A c \in Chats : dreq[d] \notin Elements(c)
    BY <1>1, <1>6, <1>8 DEF Held
  <2> QED
    BY <1>2, <1>3, <1>5 DEF Held
<1>11. Queued'
  BY <1>1, <1>3, <1>6, <1>7 DEF Queued
<1>12. Claimed'
  <2> SUFFICES ASSUME NEW d \in Drains, Submitting(d)
               PROVE  row'[dreq[d]] = "IN_FLIGHT" /\ owner[dreq[d]] = me
    BY <1>1 DEF Claimed, Submitting
  <2>1. Holds(d)
    BY DEF Holds, Submitting
  <2>2. dreq[d] \in Turns /\ dreq[d] # m
    BY <1>2, <1>5, <2>1 DEF Held
  <2> QED
    BY <1>3, <2>2 DEF Claimed
<1>13. (Workers /\ Calling)'
  BY <1>1 DEF Workers, Calling
<1>14. Cancelled'
  <2> SUFFICES ASSUME NEW l \in Turns, dropped'[l] # "no" PROVE l \in inflight'
    BY DEF Cancelled
  <2> QED
    BY <1>3, <1>4 DEF Cancelled
<1>15. Down'
  BY <1>1, <1>2 DEF Down
<1> QED
  BY <1>1, <1>9, <1>10, <1>11, <1>12, <1>13, <1>14, <1>15

LEMMA BridgeForget == ASSUME BridgeInv, LedgerTypeOK', Forget PROVE BridgeInv'
<1> USE DEF BridgeInv, Forget
<1>1. TurnTypeOK'
  <2>1. pending' \in [Chats -> Seq(inflight')]
    BY EmptySeq DEF NoQueues
  <2>2. stale' \subseteq Chats
    BY TheChat DEF TurnTypeOK
  <2> QED
    BY <2>1, <2>2 DEF TurnTypeOK, NoWorkers, NoDrains, DrainPC
<1>2. (Workers /\ Held /\ Cancelled /\ Claimed /\ Calling /\ Down)'
  BY DEF Workers, Held, Holds, Cancelled, Claimed, Submitting, Calling, Down, NoDrains, NoQueues
<1>3. Queued'
  BY NothingQueued DEF Queued, Elements, NoQueues
<1> QED
  BY <1>1, <1>2, <1>3

LEMMA BridgeClose == ASSUME BridgeInv, LedgerTypeOK', Close PROVE BridgeInv'
<1> USE DEF BridgeInv, Close, rowVars, queueVars, futureVars, drainVars
<1>1. TurnTypeOK'
  BY DEF TurnTypeOK
<1>2. (Workers /\ Held /\ Queued /\ Cancelled /\ Claimed /\ Calling /\ Down)'
  BY DEF Workers, Held, Holds, Elements, Queued, Cancelled, Claimed, Submitting, Calling, Down
<1> QED
  BY <1>1, <1>2

LEMMA BridgeRestart == ASSUME BridgeInv, LedgerTypeOK', Start PROVE BridgeInv'
<1> USE DEF BridgeInv, Start, rowVars, queueVars, futureVars, drainVars
<1>1. TurnTypeOK' /\ me' \in Nat
  <2>1. owner' \in [Turns -> 0 .. me'] /\ bot' = "up" /\ recovered' = FALSE
    BY DEF TurnTypeOK
  <2>2. UNCHANGED <<row, stale, session, pending, worker, inflight, waiting, dropped, dpc, dchat,
                    dreq, dexec>>
    OBVIOUS
  <2>3. me' \in Nat
    OBVIOUS
  <2> HIDE DEF Start
  <2> QED
    BY <2>1, <2>2, <2>3 DEF TurnTypeOK
<1>2. (Workers /\ Held /\ Cancelled /\ Claimed /\ Calling /\ Down)'
  BY DEF Workers, Held, Holds, Elements, Cancelled, Claimed, Submitting, Calling, Down
<1>3. Queued'
  BY NothingQueued DEF Queued, Elements, Down
<1> QED
  BY <1>1, <1>2, <1>3

\* The rows a recovery gives back are of earlier processes: no request of this
\* one is among them.
LEMMA BridgeRecover == ASSUME BridgeInv, LedgerTypeOK', Recover PROVE BridgeInv'
<1> USE DEF BridgeInv
<1>1. /\ UNCHANGED <<owner, stale, bot, me, pending, inflight, waiting, dropped, dreq, dexec>>
      /\ recovered' = TRUE /\ stale \subseteq Chats /\ bot # "down"
  BY DEF Recover, futureVars, TurnTypeOK
<1>2. /\ row' \in [Turns -> {"none", "IN_FLIGHT", "COMPLETED", "FAILED"}]
      /\ \A m \in Turns : ~Orphan(m) => row'[m] = row[m]
  BY DEF Recover, TurnTypeOK
<1>3. /\ session' \subseteq Chats
      /\ worker' \in [Chats -> Drains \cup {0}] /\ dpc' \in [Drains -> DrainPC]
      /\ dchat' \in [Drains -> Chats \cup {None}] /\ Workers'
      /\ \A d \in Drains : dpc'[d] # "pop" => dpc'[d] = dpc[d] /\ dchat'[d] = dchat[d]
  <2>1. PICK cs \in SUBSET stale : session' = session \cup cs /\ EnsureWorkers(cs)
    BY DEF Recover
  <2>2. cs \in SUBSET Chats
    BY <1>1
  <2> QED
    BY <2>1, <2>2, OneWorker DEF TurnTypeOK
<1>4. TurnTypeOK'
  BY <1>1, <1>2, <1>3 DEF TurnTypeOK
<1>5. \A c \in Chats : Elements(c)' = Elements(c)
  BY <1>1 DEF Elements
<1>6. \A d \in Drains : Holds(d)' => Holds(d) /\ dchat'[d] = dchat[d]
  BY <1>3 DEF Holds
<1>7. Held'
  <2> SUFFICES ASSUME NEW d \in Drains, Holds(d)'
               PROVE  /\ dreq[d] \in inflight /\ ChatOf[dreq[d]] = dchat'[d] /\ dropped[dreq[d]] = "no"
                      /\ \A c \in Chats : dreq[d] \notin Elements(c)
    BY <1>1, <1>5 DEF Held
  <2> QED
    BY <1>6 DEF Held
<1>8. inflight \subseteq Turns
  BY DEF TurnTypeOK
<1>9. Queued'
  <2>1. \A c \in Chats : \A m \in Elements(c) : row'[m] = row[m]
    BY <1>2, <1>8 DEF Orphan, Queued
  <2> QED
    BY <1>1, <1>5, <2>1 DEF Queued
<1>10. Claimed'
  <2> SUFFICES ASSUME NEW d \in Drains, Submitting(d)'
               PROVE  row'[dreq[d]] = "IN_FLIGHT" /\ owner[dreq[d]] = me
    BY <1>1 DEF Claimed
  <2>1. Submitting(d) /\ Holds(d)
    BY <1>3 DEF Submitting, Holds
  <2>2. dreq[d] \in Turns
    BY <1>8, <2>1 DEF Held
  <2> QED
    BY <1>2, <2>1, <2>2 DEF Claimed, Orphan
<1>11. (Cancelled /\ Calling /\ Down)'
  BY <1>1, <1>3 DEF Cancelled, Calling, Down
<1> QED
  BY <1>1, <1>3, <1>4, <1>7, <1>9, <1>10, <1>11

LEMMA BridgeGatewayKill == ASSUME BridgeInv, LedgerTypeOK', GatewayKill PROVE BridgeInv'
<1> USE DEF BridgeInv
<1>1. /\ \A d \in Drains : dpc'[d] = IF dpc[d] = "wait" THEN "fail" ELSE dpc[d]
      /\ dpc' \in [Drains -> DrainPC] /\ dexec' \in [Drains -> Execs \cup {0}]
      /\ UNCHANGED <<row, owner, stale, bot, me, recovered, session, pending, worker,
                     inflight, waiting, dropped, dchat, dreq>>
  BY DEF GatewayKill, rowVars, botVars, queueVars, futureVars, TurnTypeOK, DrainPC, NoDrains
<1>2. TurnTypeOK'
  BY <1>1 DEF TurnTypeOK
<1>3. (Workers /\ Held /\ Queued)'
  <2>1. \A c \in Chats : Elements(c)' = Elements(c)
    BY <1>1 DEF Elements
  <2>2. \A d \in Drains : (Holds(d)' => Holds(d)) /\ (dpc'[d] # "free" => dpc[d] # "free")
    BY <1>1 DEF Holds
  <2>3. Workers'
    BY <1>1, <2>2 DEF Workers
  <2>4. Held'
    BY <1>1, <2>1, <2>2 DEF Held
  <2>5. Queued'
    BY <1>1, <2>1 DEF Queued
  <2> QED
    BY <2>3, <2>4, <2>5
<1>4. (Cancelled /\ Claimed /\ Calling /\ Down)'
  BY <1>1 DEF Cancelled, Claimed, Submitting, Calling, Down
<1> QED
  BY <1>1, <1>2, <1>3, <1>4

LEMMA BridgeKeeps == ASSUME BridgeInv, LedgerTypeOK', [Next]_vars PROVE BridgeInv'
<1>1. CASE UNCHANGED vars
  BY <1>1, BridgeStutters DEF vars
<1>2. ASSUME NEW m \in Turns, Turn(m) \/ CancelStep(m) PROVE BridgeInv'
  <2>1. CASE AnswerAtOnce(m)
    BY <2>1, BridgeStutters DEF AnswerAtOnce, Deliver, rowVars, futureVars, drainVars
  <2> QED
    BY <1>2, <2>1, BridgeJoin, BridgeOverflow, BridgeAccept, BridgeCancelStep DEF Turn
<1>3. ASSUME NEW d \in Drains, DrainStep(d) \/ Refused(d) \/ CancelDrain(d) PROVE BridgeInv'
  BY <1>3, BridgePop, BridgeDrain DEF DrainStep
<1>4. ASSUME NEW x \in Execs, Execute(x) \/ Unheard(x) PROVE BridgeInv'
  BY <1>4, BridgeStutters DEF Execute, Unheard
<1>5. ASSUME NEW c \in Chats, CancelChat(c) PROVE BridgeInv'
  BY <1>5, BridgeCancelChat
<1>6. ASSUME NEW k \in Keys, FileIsSpoiled(k) PROVE BridgeInv'
  BY <1>6, BridgeStutters DEF FileIsSpoiled
<1>7. CASE Kill \/ Close \/ Closed \/ Start \/ Recover \/ GatewayKill
  BY <1>7, BridgeForget, BridgeClose, BridgeRestart, BridgeRecover, BridgeGatewayKill
     DEF Kill, Closed
<1> QED
  BY <1>1, <1>2, <1>3, <1>4, <1>5, <1>6, <1>7 DEF Next

-----------------------------------------------------------------------------
(***************************************************************************)
(* Theorems.                                                               *)
(***************************************************************************)

\* Whatever step is taken, the ledger makes one of its moves: the bridge has
\* no hand in it but the begin and the end of an execution.
LEMMA LedgerStep == ASSUME BridgeInv, [Next]_vars PROVE LedgerMoves
<1>1. CASE UNCHANGED vars
  BY <1>1 DEF vars, LedgerMoves
<1>2. ASSUME NEW m \in Turns, Turn(m) \/ CancelStep(m) PROVE UNCHANGED ledgerVars
  BY <1>2 DEF Turn, Join, AnswerAtOnce, Overflow, Accept, Deliver, CancelStep, CancelInLedger,
              CancelFuture
<1>3. ASSUME NEW d \in Drains, DrainStep(d) \/ Refused(d) \/ CancelDrain(d) PROVE LedgerMoves
  <2>1. CASE Submit(d)
    <3>1. dreq[d] \in Turns
      BY <2>1, HeldOnce DEF Submit, Holds
    <3> QED
      BY <2>1, <3>1 DEF Submit, LedgerMoves
  <2>2. CASE Answer(d)
    BY <2>2 DEF Answer, LedgerMoves, BridgeInv, Calling
  <2>3. CASE Pop(d) \/ TimeOut(d) \/ SettleLedger(d) \/ SettleFuture(d) \/ Refused(d)
             \/ CancelDrain(d)
    BY <2>3 DEF Pop, TimeOut, SettleLedger, SettleFuture, Refused, CancelDrain, LedgerMoves
  <2> QED
    BY <1>3, <2>1, <2>2, <2>3 DEF DrainStep
<1>4. ASSUME NEW x \in Execs, Execute(x) \/ Unheard(x) PROVE LedgerMoves
  BY <1>4 DEF Execute, Unheard, LedgerMoves
<1>5. ASSUME NEW c \in Chats, CancelChat(c) PROVE LedgerMoves
  BY <1>5 DEF CancelChat, LedgerMoves
<1>6. ASSUME NEW k \in Keys, FileIsSpoiled(k) PROVE LedgerMoves
  BY <1>6 DEF FileIsSpoiled, LedgerMoves
<1>7. CASE Kill \/ Close \/ Closed \/ Start \/ Recover \/ GatewayKill
  BY <1>7 DEF Kill, Close, Closed, Forget, Start, Recover, GatewayKill, LedgerMoves
<1> QED
  BY <1>1, <1>2, <1>3, <1>4, <1>5, <1>6, <1>7 DEF Next, LedgerMoves

\* The ledger and the bridge together: what TLC checks and what it rests on.
THEOREM TurnInvariant == Spec => [](LedgerInv /\ BridgeInv)
<1>1. Init => LedgerInv /\ BridgeInv
  BY LedgerStart, BridgeStart DEF Init
<1>2. LedgerInv /\ BridgeInv /\ [Next]_vars => LedgerInv' /\ BridgeInv'
  <2> SUFFICES ASSUME LedgerInv, BridgeInv, [Next]_vars PROVE LedgerInv' /\ BridgeInv'
    OBVIOUS
  <2>1. LedgerInv'
    BY LedgerStep, LedgerKeeps
  <2>2. LedgerTypeOK'
    BY <2>1 DEF LedgerInv
  <2>3. BridgeInv'
    BY <2>2, BridgeKeeps
  <2> QED
    BY <2>1, <2>3
<1> QED
  BY <1>1, <1>2, PTL DEF Spec

\* Every variable of the bot and of the ledger keeps its kind of value
\* (TelegramBridge, TurnLedger, DurableToolLedger).
THEOREM TurnTypeCorrect == Spec => []TurnTypeOK
<1>1. BridgeInv => TurnTypeOK
  BY DEF BridgeInv
<1> QED
  BY <1>1, TurnInvariant, PTL

\* A call takes effect again in its turn only after its recorded success was
\* discarded, and one that could be confirmed is discarded only for a file that
\* was spoiled, whatever is killed, delivered again or given up
\* (UnifiedToolExecutionLayer.execute, _replay_is_faithful, DurableToolLedger).
THEOREM EffectOnceHolds == Spec => []EffectOnce
<1>1. LedgerInv => EffectOnce
  BY DEF LedgerInv
<1> QED
  BY <1>1, TurnInvariant, PTL

\* One request of a chat is on its way to the gateway, and it holds its row of
\* the turn ledger (TelegramBridge._drain, cancel_chat, recover_on_startup).
THEOREM OneTurnPerChatHolds == Spec => []OneTurnPerChat
<1>1. ASSUME BridgeInv PROVE OneTurnPerChat
  <2> SUFFICES ASSUME NEW d \in Drains, Submitting(d)
               PROVE  /\ row[dreq[d]] = "IN_FLIGHT" /\ owner[dreq[d]] = me
                      /\ \A e \in Drains : Submitting(e) /\ dchat[e] = dchat[d] => e = d
    BY DEF OneTurnPerChat
  <2>1. Holds(d) /\ \A e \in Drains : Submitting(e) => dpc[e] # "free"
    BY DEF Holds, Submitting
  <2> QED
    BY <1>1, <2>1, HeldOnce DEF BridgeInv, Claimed
<1> QED
  BY <1>1, TurnInvariant, PTL
=============================================================================
