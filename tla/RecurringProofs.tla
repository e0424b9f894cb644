--------------------------- MODULE RecurringProofs ---------------------------
(***************************************************************************)
(* Proofs about recurring payments, for any accounts, amounts, intervals   *)
(* and bounds.  What the index of the payers says and how far a schedule   *)
(* has come need nothing but the types, which the schedule's positive      *)
(* intervals belong to.                                                    *)
(***************************************************************************)
EXTENDS Recurring, BalanceProofs

IInv == NeverChargedAhead /\ PayerIndexExact

\* Nothing is set up initially.
LEMMA InitInv == Init => IInv
<1> SUFFICES ASSUME Init PROVE IInv
  OBVIOUS
<1>1. recurrings = <<>> /\ now = 0 /\ 1 .. Len(recurrings) = {}
  BY DEF Init
<1>2. ledger \in LedgerType
  BY RecurringAssumption, ContractAssumption DEF Init, LedgerType, Address
<1>3. recurrings \in Seq(RecurringRecord) /\ Len(recurrings) <= MaxRecurring
  BY <1>1, EmptySeq, RecurringAssumption
<1>4. payerRecurrings \in [Account -> [RecurringId -> Nat]]
  BY DEF Init
<1>5. TypeOK
  BY <1>1, <1>2, <1>3, <1>4, HostAssumption DEF TypeOK, Ledger
<1>6. PayerIndexExact
  BY <1>1 DEF Init, PayerIndexExact, Exists
<1> QED
  BY <1>1, <1>5, <1>6 DEF IInv, NeverChargedAhead

\* A well-typed record, its id and its ledger.
LEMMA At ==
    ASSUME TypeOK, NEW i, Exists(i)
    PROVE  /\ i \in 1 .. Len(recurrings) /\ i \in RecurringId
           /\ recurrings[i] \in RecurringRecord
           /\ recurrings[i].amount > 0 /\ recurrings[i].interval > 0
           /\ Len(recurrings) \in Nat
<1>1. i \in 1 .. Len(recurrings) /\ Len(recurrings) \in Nat
  BY LenProperties DEF Exists, TypeOK
<1>2. recurrings[i] \in RecurringRecord
  BY <1>1, RecordAt DEF TypeOK
<1> QED
  BY <1>1, <1>2, RecurringAssumption DEF TypeOK, RecurringId

\* The operations that write one record back: whatever they do to the money,
\* the schedule stays behind the ledger; the payer stays the same.
LEMMA WriteBack ==
    ASSUME IInv, NEW i, Exists(i), NEW r \in RecurringRecord,
           r.amount > 0, r.interval > 0, r.last_charged_ledger <= now,
           r.payer = recurrings[i].payer,
           recurrings' = [recurrings EXCEPT ![i] = r],
           ledger' \in LedgerType, UNCHANGED <<now, payerRecurrings>>
    PROVE  IInv'
<1>0. TypeOK
  BY DEF IInv, NeverChargedAhead
<1>1. i \in 1 .. Len(recurrings)
  BY <1>0, At
<1>2. /\ recurrings' \in Seq(RecurringRecord) /\ Len(recurrings') = Len(recurrings)
      /\ \A j \in 1 .. Len(recurrings) : recurrings'[j] = IF j = i THEN r ELSE recurrings[j]
  BY <1>0, <1>1, RecordUpdate DEF TypeOK
<1>3. NeverChargedAhead'
  BY <1>2 DEF IInv, NeverChargedAhead, TypeOK
<1>4. PayerIndexExact'
  BY <1>2 DEF IInv, PayerIndexExact, Exists
<1> QED
  BY <1>3, <1>4 DEF IInv

\* setup_recurring appends a record and its id.
LEMMA SetupKeepsInv ==
    ASSUME IInv, NEW p \in Account, NEW q \in Account, NEW x \in Amounts, NEW v \in Intervals,
           SetupRecurring(p, q, x, v)
    PROVE  IInv'
<1> DEFINE n == Len(recurrings) + 1
           r == [payer |-> p, payee |-> q, amount |-> x, interval |-> v,
                 last_charged_ledger |-> now, active |-> TRUE, paused |-> FALSE]
<1>0. TypeOK /\ now \in Nat
  BY HostAssumption DEF IInv, NeverChargedAhead, TypeOK, Ledger
<1>1. /\ r \in RecurringRecord /\ r.payer = p
      /\ r.amount > 0 /\ r.interval > 0 /\ r.last_charged_ledger <= now
  BY <1>0, RecurringAssumption DEF SetupRecurring, RecurringRecord
<1>2. recurrings' = Append(recurrings, r)
  BY DEF SetupRecurring
<1> HIDE DEF r
<1>3. /\ recurrings' \in Seq(RecurringRecord) /\ Len(recurrings') = n /\ n - 1 \in Nat
      /\ \A j \in 1 .. n - 1 : recurrings'[j] = recurrings[j]
      /\ recurrings'[n] = r
  BY <1>0, <1>1, <1>2, RecordAppend DEF TypeOK
<1>4. n \in RecurringId /\ n <= MaxRecurring
  BY <1>3, RecurringAssumption DEF SetupRecurring, RecurringId
<1>5. /\ payerRecurrings' = [payerRecurrings EXCEPT ![p][n] = @ + 1]
      /\ UNCHANGED <<now, ledger>>
  BY DEF SetupRecurring
<1>9. /\ payerRecurrings' \in [Account -> [RecurringId -> Nat]]
      /\ \A a \in Account, j \in RecurringId :
            payerRecurrings'[a][j] = IF a = p /\ j = n THEN payerRecurrings[a][j] + 1
                                                      ELSE payerRecurrings[a][j]
  <2>1. payerRecurrings \in [Account -> [RecurringId -> Nat]]
    BY <1>0 DEF TypeOK
  <2> QED BY <1>4, <1>5, <2>1
<1>6. TypeOK'
  <2>1. \A j \in 1 .. n : recurrings'[j].amount > 0 /\ recurrings'[j].interval > 0
    <3> SUFFICES ASSUME NEW j \in 1 .. n
                 PROVE  recurrings'[j].amount > 0 /\ recurrings'[j].interval > 0
      OBVIOUS
    <3>1. CASE j = n
      BY <1>1, <1>3, <3>1
    <3>2. CASE j # n
      <4>1. j \in 1 .. n - 1
        BY <1>3, <3>2
      <4>2. n - 1 = Len(recurrings) /\ recurrings'[j] = recurrings[j]
        BY <1>3, <4>1
      <4>3. recurrings[j].amount > 0 /\ recurrings[j].interval > 0
        BY <1>0, <4>1, <4>2 DEF TypeOK
      <4> QED BY <4>2, <4>3
    <3> QED BY <3>1, <3>2
  <2> QED BY <1>0, <1>3, <1>4, <1>5, <1>9, <2>1 DEF TypeOK
<1>7. NeverChargedAhead'
  BY <1>1, <1>3, <1>5, <1>6 DEF IInv, NeverChargedAhead
<1>8. PayerIndexExact'
  <2> SUFFICES ASSUME NEW a \in Account, NEW j \in RecurringId
               PROVE  payerRecurrings'[a][j] =
                         IF j \in 1 .. n /\ recurrings'[j].payer = a THEN 1 ELSE 0
    BY <1>3 DEF PayerIndexExact, Exists
  <2>1. payerRecurrings[a][j] = IF j \in 1 .. n - 1 /\ recurrings[j].payer = a THEN 1 ELSE 0
    BY DEF IInv, PayerIndexExact, Exists
  <2>2. CASE j = n
    BY <1>1, <1>3, <1>9, <2>1, <2>2
  <2>3. CASE j # n
    <3>1. j \in 1 .. n <=> j \in 1 .. n - 1
      BY <1>3, <2>3 DEF RecurringId
    <3> QED BY <1>3, <1>9, <2>1, <2>3, <3>1
  <2> QED BY <2>2, <2>3
<1> QED
  BY <1>7, <1>8 DEF IInv

\* transfer_recurring_payer moves the id from one payer's index to another's.
LEMMA HandOverKeepsInv ==
    ASSUME IInv, NEW p \in Account, NEW q \in Account, NEW i \in RecurringId,
           TransferRecurringPayer(p, q, i)
    PROVE  IInv'
<1> DEFINE r == [recurrings[i] EXCEPT !.payer = q]
<1>0. TypeOK
  BY DEF IInv, NeverChargedAhead
<1>1. /\ i \in 1 .. Len(recurrings) /\ recurrings[i] \in RecurringRecord
      /\ recurrings[i].amount > 0 /\ recurrings[i].interval > 0
      /\ recurrings[i].last_charged_ledger <= now
  BY <1>0, At DEF TransferRecurringPayer, IInv, NeverChargedAhead
<1>2. /\ r \in RecurringRecord /\ r.payer = q /\ r.amount > 0 /\ r.interval > 0
      /\ r.last_charged_ledger <= now
  BY <1>1 DEF RecurringRecord
<1>3. recurrings' = [recurrings EXCEPT ![i] = r]
  BY DEF TransferRecurringPayer
<1> HIDE DEF r
<1>4. /\ recurrings' \in Seq(RecurringRecord) /\ Len(recurrings') = Len(recurrings)
      /\ \A j \in 1 .. Len(recurrings) : recurrings'[j] = IF j = i THEN r ELSE recurrings[j]
  BY <1>0, <1>1, <1>2, <1>3, RecordUpdate DEF TypeOK
<1>5. /\ payerRecurrings' = [payerRecurrings EXCEPT ![p][i] = 0, ![q][i] = @ + 1]
      /\ q # p /\ recurrings[i].payer = p /\ UNCHANGED <<now, ledger>>
  BY DEF TransferRecurringPayer
<1>8. /\ payerRecurrings' \in [Account -> [RecurringId -> Nat]]
      /\ \A a \in Account, j \in RecurringId :
            payerRecurrings'[a][j] = IF j = i /\ a = p THEN 0
                                     ELSE IF j = i /\ a = q THEN payerRecurrings[a][j] + 1
                                     ELSE payerRecurrings[a][j]
  <2>1. payerRecurrings \in [Account -> [RecurringId -> Nat]]
    BY <1>0 DEF TypeOK
  <2> DEFINE h == [payerRecurrings EXCEPT ![p][i] = 0]
  <2>2. /\ h \in [Account -> [RecurringId -> Nat]]
        /\ \A a \in Account, j \in RecurringId :
              h[a][j] = IF j = i /\ a = p THEN 0 ELSE payerRecurrings[a][j]
    BY <2>1
  <2>3. payerRecurrings' = [h EXCEPT ![q][i] = @ + 1]
    BY <1>5
  <2> HIDE DEF h
  <2>4. /\ payerRecurrings' \in [Account -> [RecurringId -> Nat]]
        /\ \A a \in Account, j \in RecurringId :
              payerRecurrings'[a][j] = IF j = i /\ a = q THEN h[a][j] + 1 ELSE h[a][j]
    BY <2>2, <2>3
  <2>5. q # p
    BY <1>5
  <2> QED BY <2>2, <2>4, <2>5
<1>6. NeverChargedAhead'
  BY <1>0, <1>2, <1>4, <1>5, <1>8 DEF IInv, NeverChargedAhead, TypeOK
<1>7. PayerIndexExact'
  <2> SUFFICES ASSUME NEW a \in Account, NEW j \in RecurringId
               PROVE  payerRecurrings'[a][j] =
                         IF j \in 1 .. Len(recurrings) /\ recurrings'[j].payer = a THEN 1 ELSE 0
    BY <1>4 DEF PayerIndexExact, Exists
  <2>1. payerRecurrings[a][j] = IF j \in 1 .. Len(recurrings) /\ recurrings[j].payer = a THEN 1 ELSE 0
    BY DEF IInv, PayerIndexExact, Exists
  <2>2. q # p /\ recurrings[i].payer = p
    BY <1>5
  <2>3. CASE j = i
    BY <1>1, <1>2, <1>4, <1>8, <2>1, <2>2, <2>3
  <2>4. CASE j # i
    BY <1>4, <1>8, <2>1, <2>4
  <2> QED BY <2>3, <2>4
<1> QED
  BY <1>6, <1>7 DEF IInv

\* cancel_recurring_batch clears the active flag of the records named.
LEMMA CancelBatchKeepsInv ==
    ASSUME IInv, NEW c \in Account, NEW ids \in SUBSET RecurringId, CancelRecurringBatch(c, ids)
    PROVE  IInv'
<1> DEFINE r(j) == IF j \in ids THEN [recurrings[j] EXCEPT !.active = FALSE] ELSE recurrings[j]
           n == Len(recurrings)
<1>0. TypeOK
  BY DEF IInv, NeverChargedAhead
<1>1. n \in Nat /\ recurrings' = [j \in 1 .. n |-> r(j)] /\ UNCHANGED <<now, ledger, payerRecurrings>>
  BY <1>0, LenProperties DEF TypeOK, CancelRecurringBatch
<1>2. ASSUME NEW j \in 1 .. n
      PROVE  /\ r(j) \in RecurringRecord /\ r(j).payer = recurrings[j].payer
             /\ r(j).amount = recurrings[j].amount /\ r(j).interval = recurrings[j].interval
             /\ r(j).last_charged_ledger = recurrings[j].last_charged_ledger
  <2>1. recurrings[j] \in RecurringRecord
    BY <1>0, RecordAt DEF TypeOK
  <2> QED BY <2>1 DEF RecurringRecord
<1> HIDE DEF r
<1>3. /\ recurrings' \in Seq(RecurringRecord) /\ Len(recurrings') = n
      /\ \A j \in 1 .. n : recurrings'[j] = r(j)
  BY <1>1, <1>2, IsASeq
<1>4. NeverChargedAhead'
  BY <1>1, <1>2, <1>3 DEF IInv, NeverChargedAhead, TypeOK
<1>5. PayerIndexExact'
  BY <1>1, <1>2, <1>3 DEF IInv, PayerIndexExact, Exists
<1> QED
  BY <1>4, <1>5 DEF IInv

\* Every step keeps the invariant.
LEMMA NextKeepsInv == IInv /\ [Next]_vars => IInv'
<1> SUFFICES ASSUME IInv, [Next]_vars PROVE IInv'
  OBVIOUS
<1>0. TypeOK /\ now \in Nat /\ ledger \in LedgerType
  BY HostAssumption DEF IInv, NeverChargedAhead, TypeOK, Ledger
<1>9. ASSUME NEW i, Exists(i)
      PROVE  /\ recurrings[i] \in RecurringRecord /\ recurrings[i].last_charged_ledger <= now
             /\ recurrings[i].amount > 0 /\ recurrings[i].interval > 0
  BY <1>0, <1>9, At DEF IInv, NeverChargedAhead
<1>1. CASE \E p, q \in Account, x \in Amounts, v \in Intervals : SetupRecurring(p, q, x, v)
  BY <1>1, SetupKeepsInv
<1>2. ASSUME NEW i \in RecurringId, ExecuteRecurring(i) PROVE IInv'
  <2> DEFINE r == [recurrings[i] EXCEPT !.last_charged_ledger = NextExecutionLedger(i)]
  <2>1. Exists(i) /\ IsExecutable(i)
    BY <1>2 DEF ExecuteRecurring
  <2>2. /\ r \in RecurringRecord /\ r.amount > 0 /\ r.interval > 0
        /\ r.last_charged_ledger <= now /\ r.payer = recurrings[i].payer
    BY <1>0, <1>9, <2>1 DEF RecurringRecord, NextExecutionLedger, IsExecutable
  <2>3. recurrings' = [recurrings EXCEPT ![i] = r] /\ UNCHANGED <<now, payerRecurrings>>
    BY <1>2 DEF ExecuteRecurring
  <2>4. ledger' \in LedgerType
    <3>1. /\ recurrings[i].payer \in Address /\ recurrings[i].payee \in Address
          /\ recurrings[i].amount \in Nat
      BY <1>9, <2>1 DEF RecurringRecord, Address
    <3> QED BY <1>0, <1>2, <2>1, <3>1, MoveLemma DEF ExecuteRecurring, IsExecutable
  <2> HIDE DEF r
  <2> QED BY <2>1, <2>2, <2>3, <2>4, WriteBack
<1>3. ASSUME NEW i, Exists(i), NEW r, recurrings' = [recurrings EXCEPT ![i] = r],
             r \in {[recurrings[i] EXCEPT !.active = FALSE], [recurrings[i] EXCEPT !.paused = TRUE],
                    [recurrings[i] EXCEPT !.paused = FALSE]},
             UNCHANGED <<now, ledger, payerRecurrings>>
      PROVE  IInv'
  <2>1. /\ r \in RecurringRecord /\ r.amount > 0 /\ r.interval > 0
        /\ r.last_charged_ledger <= now /\ r.payer = recurrings[i].payer
    BY <1>3, <1>9 DEF RecurringRecord
  <2> QED BY <1>0, <1>3, <2>1, WriteBack
<1>4. CASE \E c \in Account, i \in RecurringId : CancelRecurring(c, i)
  BY <1>3, <1>4 DEF CancelRecurring
<1>5. CASE \E c \in Account, ids \in SUBSET RecurringId : CancelRecurringBatch(c, ids)
  BY <1>5, CancelBatchKeepsInv
<1>6. CASE \E c \in Account, i \in RecurringId : PauseRecurring(c, i) \/ ResumeRecurring(c, i)
  BY <1>3, <1>6 DEF PauseRecurring, ResumeRecurring
<1>7. ASSUME NEW c \in Account, NEW i \in RecurringId, NEW x \in Amounts, NEW v \in Intervals,
             AmendRecurring(c, i, x, v)
      PROVE  IInv'
  <2> DEFINE r == [recurrings[i] EXCEPT !.amount = x, !.interval = v]
  <2>1. Exists(i) /\ x > 0 /\ v > 0
    BY <1>7 DEF AmendRecurring
  <2>2. /\ r \in RecurringRecord /\ r.amount > 0 /\ r.interval > 0
        /\ r.last_charged_ledger <= now /\ r.payer = recurrings[i].payer
    BY <1>9, <2>1, RecurringAssumption DEF RecurringRecord
  <2>3. recurrings' = [recurrings EXCEPT ![i] = r] /\ UNCHANGED <<now, ledger, payerRecurrings>>
    BY <1>7 DEF AmendRecurring
  <2> HIDE DEF r
  <2> QED BY <1>0, <2>1, <2>2, <2>3, WriteBack
<1>8. CASE \E p, q \in Account, i \in RecurringId : TransferRecurringPayer(p, q, i)
  BY <1>8, HandOverKeepsInv
<1>10. CASE \E f, t \in Account, x \in Amounts : Transfer(f, t, x)
  <2> PICK f \in Account, t \in Account, x \in Amounts : Transfer(f, t, x)
    BY <1>10
  <2>1. ledger' \in LedgerType
    BY <1>0, MoveLemma, RecurringAssumption DEF Transfer, Address
  <2> QED BY <2>1 DEF Transfer, IInv, NeverChargedAhead, PayerIndexExact, TypeOK, Exists
<1>11. CASE Tick
  <2>1. now' \in Ledger /\ now <= now' /\ UNCHANGED <<ledger, recurrings, payerRecurrings>>
    BY <1>0, <1>11, HostAssumption DEF Tick, LedgerCloses, Ledger
  <2>2. NeverChargedAhead'
    <3>1. \A i \in 1 .. Len(recurrings) : recurrings[i].last_charged_ledger <= now'
      <4> SUFFICES ASSUME NEW i \in 1 .. Len(recurrings)
                   PROVE  recurrings[i].last_charged_ledger <= now'
        OBVIOUS
      <4>1. recurrings[i].last_charged_ledger \in Nat /\ recurrings[i].last_charged_ledger <= now
        BY <1>9 DEF Exists, RecurringRecord
      <4> QED BY <1>0, <2>1, <4>1, HostAssumption DEF Ledger
    <3> QED BY <1>0, <2>1, <3>1 DEF NeverChargedAhead, TypeOK
  <2> QED BY <2>1, <2>2 DEF IInv, PayerIndexExact, Exists
<1>12. CASE UNCHANGED vars
  BY <1>12 DEF vars, IInv, NeverChargedAhead, PayerIndexExact, TypeOK, Exists
<1> QED
  BY <1>1, <1>2, <1>4, <1>5, <1>6, <1>7, <1>8, <1>10, <1>11, <1>12 DEF Next

\* The invariant holds in every reachable state.
THEOREM Invariance == Spec => []IInv
BY InitInv, NextKeepsInv, PTL DEF Spec

\* A payment is never taken before its time, and every record is well typed.
THEOREM NeverAhead == Spec => []NeverChargedAhead
<1>1. IInv => NeverChargedAhead
  BY DEF IInv
<1> QED BY <1>1, Invariance, PTL

\* Every payer's index lists exactly the payments it is the payer of.
THEOREM PayerIndexCorrect == Spec => []PayerIndexExact
<1>1. IInv => PayerIndexExact
  BY DEF IInv
<1> QED BY <1>1, Invariance, PTL

\* A cancelled payment is never charged, amended, handed over or revived.
THEOREM CancelFinal == Spec => CancelIsFinal
<1>1. IInv /\ [Next]_vars => [CancelledStep]_vars
  <2> SUFFICES ASSUME IInv, Next, NEW i \in 1 .. Len(recurrings), ~recurrings[i].active
               PROVE  recurrings'[i] = [recurrings[i] EXCEPT !.paused = recurrings'[i].paused]
    BY DEF CancelledStep
  <2>1. recurrings[i] \in RecurringRecord /\ Exists(i) /\ Len(recurrings) \in Nat
        /\ recurrings \in Seq(RecurringRecord)
    BY At DEF IInv, NeverChargedAhead, TypeOK, Exists
  <2>2. CASE recurrings'[i] = recurrings[i]
    BY <2>1, <2>2 DEF RecurringRecord
  <2>3. ASSUME NEW b \in BOOLEAN, recurrings'[i] = [recurrings[i] EXCEPT !.paused = b]
        PROVE  recurrings'[i] = [recurrings[i] EXCEPT !.paused = recurrings'[i].paused]
    BY <2>1, <2>3 DEF RecurringRecord
  <2>4. ASSUME recurrings'[i] = [recurrings[i] EXCEPT !.active = FALSE]
        PROVE  recurrings'[i] = recurrings[i]
    BY <2>1, <2>4 DEF RecurringRecord
  <2>5. ASSUME NEW j \in RecurringId, Exists(j), NEW r, recurrings' = [recurrings EXCEPT ![j] = r]
        PROVE  recurrings'[i] = IF i = j THEN r ELSE recurrings[i]
    BY <2>1, <2>5
  <2>6. ASSUME NEW p \in Account, NEW q \in Account, NEW x \in Amounts, NEW v \in Intervals,
               SetupRecurring(p, q, x, v)
        PROVE  recurrings'[i] = recurrings[i]
    BY <2>1, <2>6 DEF SetupRecurring
  <2>7. ASSUME NEW j \in RecurringId, ExecuteRecurring(j) PROVE recurrings'[i] = recurrings[i]
    BY <2>5, <2>7 DEF ExecuteRecurring, IsExecutable
  <2>8. ASSUME NEW c \in Account, NEW j \in RecurringId, CancelRecurring(c, j)
        PROVE  recurrings'[i] = recurrings[i]
    BY <2>4, <2>5, <2>8 DEF CancelRecurring
  <2>9. ASSUME NEW c \in Account, NEW ids \in SUBSET RecurringId, CancelRecurringBatch(c, ids)
        PROVE  recurrings'[i] = recurrings[i]
    BY <2>4, <2>9 DEF CancelRecurringBatch
  <2>10. ASSUME NEW c \in Account, NEW j \in RecurringId, PauseRecurring(c, j) \/ ResumeRecurring(c, j)
         PROVE  recurrings'[i] = [recurrings[i] EXCEPT !.paused = recurrings'[i].paused]
    BY <2>2, <2>3, <2>5, <2>10 DEF PauseRecurring, ResumeRecurring
  <2>11. ASSUME NEW c \in Account, NEW j \in RecurringId, NEW x \in Amounts, NEW v \in Intervals,
                AmendRecurring(c, j, x, v)
         PROVE  recurrings'[i] = recurrings[i]
    BY <2>5, <2>11 DEF AmendRecurring
  <2>12. ASSUME NEW p \in Account, NEW q \in Account, NEW j \in RecurringId,
                TransferRecurringPayer(p, q, j)
         PROVE  recurrings'[i] = recurrings[i]
    BY <2>5, <2>12 DEF TransferRecurringPayer
  <2> QED
    BY <2>2, <2>6, <2>7, <2>8, <2>9, <2>10, <2>11, <2>12 DEF Next, Transfer, Tick
<1> QED BY <1>1, Invariance, PTL DEF Spec, CancelIsFinal

==============================================================================
