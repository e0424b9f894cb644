---------------------------- MODULE DisputeProofs ----------------------------
(***************************************************************************)
(* Proofs about escrows and disputes, for any accounts, amounts and        *)
(* bounds.  TypeOK is inductive by itself; the safety invariants are       *)
(* proved together, because each needs the others:                         *)
(*   - a new dispute is the first over its escrow because an earlier one   *)
(*     would be open, hence linked (LinkIsOpenDispute), or closed, hence   *)
(*     its escrow settled (OutcomeRecorded);                               *)
(*   - closing a dispute removes the right link because no other dispute   *)
(*     is about the same escrow (OneDisputePerEscrow).                     *)
(* The second part proves that escrows and disputes implement custody.     *)
(***************************************************************************)
EXTENDS DisputeCustody, BalanceProofs

\* The initial state satisfies the type invariant: nothing is stored but the
\* balances minted before.
LEMMA InitType == Init => TypeOK
<1> SUFFICES ASSUME Init PROVE TypeOK
  OBVIOUS
<1> USE HostAssumption, EscrowAssumption, DisputeAssumption, ContractAssumption
<1>1. ledger \in LedgerType
  BY DEF Init, EscrowInit, LedgerType, Address
<1>0. now = 0 /\ escrows = <<>>
  BY DEF Init, EscrowInit
<1>2. now \in Ledger
  BY <1>0 DEF Ledger
<1>3. escrows \in Seq(EscrowRecord) /\ Len(escrows) <= MaxEscrows
  BY <1>0, EmptySeq
<1>4. depositorEscrows \in [Address -> Seq(EscrowId)]
  <2>1. <<>> \in Seq(EscrowId)
    BY EmptySeq
  <2> QED BY <2>1 DEF Init, EscrowInit
<1>5. expiryWarned \subseteq EscrowId /\ escrowDispute \in [EscrowId -> DisputeId \cup {NoDispute}]
  BY DEF Init, EscrowInit
<1>6. disputes \in Seq(DisputeRecord) /\ Len(disputes) <= MaxDisputes
  BY EmptySeq DEF Init
<1>7. disputeHistory \in [EscrowId -> Seq(DisputeId)] /\ openDisputes \in [DisputeId -> Nat]
  <2>1. <<>> \in Seq(DisputeId)
    BY EmptySeq
  <2> QED BY <2>1 DEF Init
<1> QED
  BY <1>1, <1>2, <1>3, <1>4, <1>5, <1>6, <1>7 DEF TypeOK

\* Reading a record of an existing id keeps the warning flags well typed.
LEMMA GetEscrowType ==
    ASSUME TypeOK, NEW i \in EscrowId, GetEscrow(i)
    PROVE  /\ i \in 1 .. Len(escrows)
           /\ escrows[i] \in EscrowRecord
           /\ expiryWarned' \subseteq EscrowId
BY RecordAt DEF TypeOK, GetEscrow, Exists

\* Marking a record released and paying it out: one record changes, and the
\* ledger keeps its type and its exact holder set.
LEMMA SettleReleasedEffect ==
    ASSUME TypeOK, NEW i \in 1 .. Len(escrows), NEW to \in Address,
           SettleReleased(i, to)
    PROVE  /\ ~Settled(i)
           /\ escrows' \in Seq(EscrowRecord) /\ Len(escrows') = Len(escrows)
           /\ \A j \in 1 .. Len(escrows) :
                 escrows'[j] = IF j = i THEN [escrows[i] EXCEPT !.released = TRUE]
                               ELSE escrows[j]
           /\ ledger' \in LedgerType
           /\ HoldersExact => HoldersExact'
<1> DEFINE r == [escrows[i] EXCEPT !.released = TRUE]
<1>0. escrows[i] \in EscrowRecord
  BY RecordAt DEF TypeOK
<1>1. escrows[i] \in EscrowRecord /\ r \in EscrowRecord
  BY <1>0 DEF EscrowRecord
<1>2. escrows' = [escrows EXCEPT ![i] = r]
  BY DEF SettleReleased
<1>3. /\ escrows' \in Seq(EscrowRecord) /\ Len(escrows') = Len(escrows)
      /\ \A j \in 1 .. Len(escrows) : escrows'[j] = IF j = i THEN r ELSE escrows[j]
  <2> HIDE DEF r
  <2> QED BY <1>1, <1>2, RecordUpdate DEF TypeOK
<1>4. ledger' \in LedgerType /\ (HolderSetExact(ledger) => HolderSetExact(ledger'))
  <2>1. Contract \in Address /\ escrows[i].amount \in Nat /\ ledger \in LedgerType
    BY <1>0 DEF EscrowRecord, Address, TypeOK
  <2> QED BY <2>1, MoveLemma DEF SettleReleased, PayOut
<1> QED
  BY <1>3, <1>4 DEF SettleReleased, HoldersExact, HolderSetExact

\* The same for a record marked refunded.
LEMMA SettleRefundedEffect ==
    ASSUME TypeOK, NEW i \in 1 .. Len(escrows), SettleRefunded(i)
    PROVE  /\ ~Settled(i)
           /\ escrows' \in Seq(EscrowRecord) /\ Len(escrows') = Len(escrows)
           /\ \A j \in 1 .. Len(escrows) :
                 escrows'[j] = IF j = i THEN [escrows[i] EXCEPT !.refunded = TRUE]
                               ELSE escrows[j]
           /\ ledger' \in LedgerType
           /\ HoldersExact => HoldersExact'
<1> DEFINE r == [escrows[i] EXCEPT !.refunded = TRUE]
<1>0. escrows[i] \in EscrowRecord
  BY RecordAt DEF TypeOK
<1>1. escrows[i] \in EscrowRecord /\ r \in EscrowRecord
  BY <1>0 DEF EscrowRecord
<1>2. escrows' = [escrows EXCEPT ![i] = r]
  BY DEF SettleRefunded
<1>3. /\ escrows' \in Seq(EscrowRecord) /\ Len(escrows') = Len(escrows)
      /\ \A j \in 1 .. Len(escrows) : escrows'[j] = IF j = i THEN r ELSE escrows[j]
  <2> HIDE DEF r
  <2> QED BY <1>1, <1>2, RecordUpdate DEF TypeOK
<1>4. ledger' \in LedgerType /\ (HolderSetExact(ledger) => HolderSetExact(ledger'))
  <2>1. /\ Contract \in Address /\ escrows[i].amount \in Nat /\ ledger \in LedgerType
        /\ escrows[i].depositor \in Address
    BY <1>0 DEF EscrowRecord, Address, TypeOK
  <2> QED BY <2>1, MoveLemma DEF SettleRefunded, PayOut
<1> QED
  BY <1>3, <1>4 DEF SettleRefunded, HoldersExact, HolderSetExact

(***************************************************************************)
(* What a step of escrow.rs may do to the records: settled ones stay as    *)
(* they are, no record gets both flags, and a refund needs a free escrow.  *)
(***************************************************************************)
RecordsEffect ==
    /\ Len(escrows') \in Nat /\ Len(escrows) <= Len(escrows')
    /\ \A j \in 1 .. Len(escrows) : Settled(j) => escrows'[j] = escrows[j]
    /\ \A j \in 1 .. Len(escrows') :
          escrows'[j].released /\ escrows'[j].refunded
             => j \in 1 .. Len(escrows) /\ escrows[j].released /\ escrows[j].refunded
    /\ \A j \in 1 .. Len(escrows) :
          ~escrows[j].refunded /\ escrows'[j].refunded => escrowDispute[j] = NoDispute

EscrowEffect ==
    /\ TypeOK'
    /\ HoldersExact => HoldersExact'
    /\ RecordsEffect
    /\ UNCHANGED <<escrowDispute, disputes, disputeHistory, openDisputes>>

\* create_escrow appends one active record and one id to an index.
LEMMA CreateEscrowEffect ==
    ASSUME TypeOK, UNCHANGED disputeVars,
           NEW d \in Account, NEW b \in Beneficiaries, NEW x \in Amounts, NEW e \in Ledger,
           CreateEscrow(d, b, x, e)
    PROVE  EscrowEffect
<1> DEFINE r == [depositor |-> d, beneficiary |-> b, amount |-> x, released |-> FALSE,
                 refunded |-> FALSE, expiry_ledger |-> e]
<1>1. b \in Address /\ x \in Nat /\ d \in Address /\ Contract \in Address
  BY EscrowAssumption DEF Address
<1>2. r \in EscrowRecord /\ r.released = FALSE /\ r.refunded = FALSE
  BY <1>1 DEF EscrowRecord
<1>3. escrows' = Append(escrows, r) /\ Len(escrows) < MaxEscrows
  BY DEF CreateEscrow
<1> HIDE DEF r
<1>4. /\ escrows' \in Seq(EscrowRecord) /\ Len(escrows') = Len(escrows) + 1
      /\ \A j \in 1 .. Len(escrows) : escrows'[j] = escrows[j]
      /\ escrows'[Len(escrows) + 1] = r
      /\ Len(escrows) \in Nat
  BY <1>2, <1>3, AppendProperties, LenProperties DEF TypeOK
<1>5. ledger' \in LedgerType /\ (HolderSetExact(ledger) => HolderSetExact(ledger'))
  BY <1>1, MoveLemma DEF CreateEscrow, TypeOK
<1>6. depositorEscrows' \in [Address -> Seq(EscrowId)]
  <2>1. Len(escrows) + 1 \in EscrowId
    BY <1>3, <1>4, EscrowAssumption DEF EscrowId
  <2>2. Append(depositorEscrows[d], Len(escrows) + 1) \in Seq(EscrowId)
    BY <1>1, <2>1, AppendProperties DEF TypeOK
  <2> QED BY <1>1, <2>2 DEF CreateEscrow, TypeOK
<1>7. UNCHANGED <<now, expiryWarned, escrowDispute, disputes, disputeHistory, openDisputes>>
  BY DEF CreateEscrow, disputeVars
<1>8. TypeOK'
  BY <1>3, <1>4, <1>5, <1>6, <1>7, EscrowAssumption DEF TypeOK
<1>9. RecordsEffect
  BY <1>2, <1>4 DEF RecordsEffect, Settled
<1> QED
  BY <1>5, <1>7, <1>8, <1>9 DEF EscrowEffect, HoldersExact, HolderSetExact

\* A step that releases escrow i, whoever receives the money, and leaves the
\* indexes alone.
LEMMA ReleaseEffect ==
    ASSUME TypeOK, UNCHANGED disputeVars, NEW i \in EscrowId, NEW to \in Address,
           GetEscrow(i), SettleReleased(i, to),
           UNCHANGED <<now, depositorEscrows, escrowDispute>>
    PROVE  EscrowEffect
<1>1. i \in 1 .. Len(escrows) /\ escrows[i] \in EscrowRecord /\ expiryWarned' \subseteq EscrowId
  BY GetEscrowType
<1>2. /\ ~Settled(i)
      /\ escrows' \in Seq(EscrowRecord) /\ Len(escrows') = Len(escrows)
      /\ \A j \in 1 .. Len(escrows) :
            escrows'[j] = IF j = i THEN [escrows[i] EXCEPT !.released = TRUE] ELSE escrows[j]
      /\ ledger' \in LedgerType
      /\ HoldersExact => HoldersExact'
  BY <1>1, SettleReleasedEffect
<1>3. TypeOK'
  BY <1>1, <1>2 DEF TypeOK, disputeVars
<1>4. escrows'[i].released = TRUE /\ escrows'[i].refunded = escrows[i].refunded
  BY <1>1, <1>2 DEF EscrowRecord
<1>5. Len(escrows) \in Nat
  BY LenProperties DEF TypeOK
<1>6. RecordsEffect
  BY <1>1, <1>2, <1>4, <1>5 DEF RecordsEffect, Settled
<1> QED
  BY <1>2, <1>3, <1>6 DEF EscrowEffect, disputeVars

\* refund_escrow checks the dispute key before it refunds.
LEMMA RefundEffect ==
    ASSUME TypeOK, UNCHANGED disputeVars, NEW c \in Account, NEW i \in EscrowId,
           RefundEscrow(c, i)
    PROVE  EscrowEffect
<1>1. i \in 1 .. Len(escrows) /\ escrows[i] \in EscrowRecord /\ expiryWarned' \subseteq EscrowId
  BY GetEscrowType DEF RefundEscrow
<1>2. /\ ~Settled(i)
      /\ escrows' \in Seq(EscrowRecord) /\ Len(escrows') = Len(escrows)
      /\ \A j \in 1 .. Len(escrows) :
            escrows'[j] = IF j = i THEN [escrows[i] EXCEPT !.refunded = TRUE] ELSE escrows[j]
      /\ ledger' \in LedgerType
      /\ HoldersExact => HoldersExact'
  BY <1>1, SettleRefundedEffect DEF RefundEscrow
<1>3. escrowDispute[i] = NoDispute /\ UNCHANGED <<now, depositorEscrows, escrowDispute>>
  BY DEF RefundEscrow
<1>4. TypeOK'
  BY <1>1, <1>2, <1>3 DEF TypeOK, disputeVars
<1>5. escrows'[i].refunded = TRUE /\ escrows'[i].released = escrows[i].released
  BY <1>1, <1>2 DEF EscrowRecord
<1>6. Len(escrows) \in Nat
  BY LenProperties DEF TypeOK
<1>7. RecordsEffect
  BY <1>1, <1>2, <1>3, <1>5, <1>6 DEF RecordsEffect, Settled
<1> QED
  BY <1>2, <1>3, <1>4, <1>7 DEF EscrowEffect, disputeVars

\* topup_escrow changes the amount of one active record.
LEMMA TopupEffect ==
    ASSUME TypeOK, UNCHANGED disputeVars, NEW d \in Account, NEW i \in EscrowId,
           NEW x \in Amounts, TopupEscrow(d, i, x)
    PROVE  EscrowEffect
<1> DEFINE r == [escrows[i] EXCEPT !.amount = @ + x]
<1>1. i \in 1 .. Len(escrows) /\ escrows[i] \in EscrowRecord /\ expiryWarned' \subseteq EscrowId
  BY GetEscrowType DEF TopupEscrow
<1>2. x \in Nat /\ d \in Address /\ Contract \in Address
  BY EscrowAssumption DEF Address
<1>3. /\ r \in EscrowRecord
      /\ r.released = escrows[i].released /\ r.refunded = escrows[i].refunded
  BY <1>1, <1>2 DEF EscrowRecord
<1>4. escrows' = [escrows EXCEPT ![i] = r] /\ ~Settled(i)
  BY DEF TopupEscrow
<1> HIDE DEF r
<1>5. /\ escrows' \in Seq(EscrowRecord) /\ Len(escrows') = Len(escrows)
      /\ \A j \in 1 .. Len(escrows) : escrows'[j] = IF j = i THEN r ELSE escrows[j]
  BY <1>1, <1>3, <1>4, RecordUpdate DEF TypeOK
<1>6. ledger' \in LedgerType /\ (HolderSetExact(ledger) => HolderSetExact(ledger'))
  BY <1>2, MoveLemma DEF TopupEscrow, TypeOK
<1>7. UNCHANGED <<now, depositorEscrows, escrowDispute>>
  BY DEF TopupEscrow
<1>8. TypeOK'
  BY <1>1, <1>5, <1>6, <1>7 DEF TypeOK, disputeVars
<1>9. Len(escrows) \in Nat
  BY LenProperties DEF TypeOK
<1>10. RecordsEffect
  BY <1>1, <1>3, <1>4, <1>5, <1>9 DEF RecordsEffect, Settled
<1> QED
  BY <1>6, <1>7, <1>8, <1>10 DEF EscrowEffect, disputeVars, HoldersExact, HolderSetExact

\* Every step of escrow.rs, of the token around it and of the ledger clock.
LEMMA EscrowNextEffect ==
    ASSUME TypeOK, EscrowNext, UNCHANGED disputeVars
    PROVE  EscrowEffect
<1>0. Len(escrows) \in Nat
  BY LenProperties DEF TypeOK
<1>1. ASSUME NEW d \in Account, NEW b \in Beneficiaries, NEW x \in Amounts, NEW e \in Ledger,
             CreateEscrow(d, b, x, e)
      PROVE  EscrowEffect
  BY <1>1, CreateEscrowEffect
<1>2. ASSUME NEW c \in Account, NEW i \in EscrowId, ReleaseEscrow(c, i) PROVE EscrowEffect
  <2>1. escrows[i].beneficiary \in Address
    BY <1>2, GetEscrowType DEF ReleaseEscrow, EscrowRecord
  <2> QED BY <1>2, <2>1, ReleaseEffect DEF ReleaseEscrow
<1>3. ASSUME NEW c \in Account, NEW i \in EscrowId, RefundEscrow(c, i) PROVE EscrowEffect
  BY <1>3, RefundEffect
<1>4. ASSUME NEW d \in Account, NEW i \in EscrowId, NEW x \in Amounts, TopupEscrow(d, i, x)
      PROVE  EscrowEffect
  BY <1>4, TopupEffect
<1>5. ASSUME NEW a \in Account, NEW i \in EscrowId, NEW r \in Beneficiaries,
             AdminSettleEscrow(a, i, r)
      PROVE  EscrowEffect
  <2>1. r \in Address
    BY EscrowAssumption
  <2> QED BY <1>5, <2>1, ReleaseEffect DEF AdminSettleEscrow
<1>6. ASSUME NEW i \in EscrowId, ReadEscrow(i) PROVE EscrowEffect
  <2>1. expiryWarned' \subseteq EscrowId
    BY <1>6, GetEscrowType DEF ReadEscrow
  <2> QED
    BY <1>0, <1>6, <2>1 DEF ReadEscrow, EscrowEffect, RecordsEffect, TypeOK, HoldersExact,
                            HolderSetExact, disputeVars
<1>7. ASSUME NEW f \in Account, NEW t \in Beneficiaries, NEW x \in Amounts, Transfer(f, t, x)
      PROVE  EscrowEffect
  <2>1. f \in Address /\ t \in Address /\ x \in Nat
    BY EscrowAssumption DEF Address
  <2>2. ledger' \in LedgerType /\ (HolderSetExact(ledger) => HolderSetExact(ledger'))
    BY <1>7, <2>1, MoveLemma DEF Transfer, TypeOK
  <2> QED
    BY <1>0, <1>7, <2>2 DEF Transfer, EscrowEffect, RecordsEffect, TypeOK, HoldersExact,
                            HolderSetExact, disputeVars
<1>8. ASSUME Tick PROVE EscrowEffect
  <2>1. now' \in Ledger
    BY <1>8, HostAssumption DEF Tick, LedgerCloses, TypeOK, Ledger
  <2> QED
    BY <1>0, <1>8, <2>1 DEF Tick, EscrowEffect, RecordsEffect, TypeOK, HoldersExact,
                            HolderSetExact, disputeVars
<1> QED
  BY <1>1, <1>2, <1>3, <1>4, <1>5, <1>6, <1>7, <1>8 DEF EscrowNext

-----------------------------------------------------------------------------
(***************************************************************************)
(* The inductive invariant.                                                *)
(***************************************************************************)
DisputeInv ==
    /\ OutcomeRecorded
    /\ LinkIsOpenDispute
    /\ OneDisputePerEscrow
    /\ OpenIndexExact

IInv == TypeOK /\ HoldersExact /\ DisputeInv

\* Nothing is disputed initially.
LEMMA InitInv == Init => IInv
<1> SUFFICES ASSUME Init PROVE IInv
  OBVIOUS
<1>1. TypeOK
  BY InitType
<1>2. HoldersExact
  BY DEF Init, EscrowInit, HoldersExact, HolderSetExact
<1>3. /\ escrows = <<>> /\ disputes = <<>> /\ disputeHistory = [i \in EscrowId |-> <<>>]
      /\ escrowDispute = [i \in EscrowId |-> NoDispute]
      /\ openDisputes = [d \in DisputeId |-> 0]
  BY DEF Init, EscrowInit
<1>4. 1 .. Len(escrows) = {} /\ 1 .. Len(disputes) = {}
  BY <1>3
<1>5. OutcomeRecorded
  BY <1>4 DEF OutcomeRecorded
<1>6. LinkIsOpenDispute
  BY <1>3, <1>4 DEF LinkIsOpenDispute, DisputeExists, NoDispute, DisputeId
<1>7. OneDisputePerEscrow
  BY <1>3, <1>4 DEF OneDisputePerEscrow
<1>8. OpenIndexExact
  BY <1>3, <1>4 DEF OpenIndexExact, DisputeExists
<1> QED
  BY <1>1, <1>2, <1>5, <1>6, <1>7, <1>8 DEF IInv, DisputeInv

\* Escrow steps leave the disputes alone and keep what they record true.
LEMMA EscrowKeepsInv ==
    ASSUME IInv, EscrowEffect
    PROVE  IInv'
<1> USE DEF IInv, DisputeInv
<1>1. TypeOK' /\ HoldersExact'
  BY DEF EscrowEffect
<1>2. LinkIsOpenDispute' /\ OneDisputePerEscrow' /\ OpenIndexExact'
  BY DEF EscrowEffect, LinkIsOpenDispute, OneDisputePerEscrow, OpenIndexExact, DisputeExists
<1>3. OutcomeRecorded'
  <2>1. \A j \in 1 .. Len(escrows') : ~(escrows'[j].released /\ escrows'[j].refunded)
    BY DEF EscrowEffect, RecordsEffect, OutcomeRecorded
  <2>2. ASSUME NEW d \in 1 .. Len(disputes)
        PROVE  LET i == disputes[d].escrow_id
               IN  /\ i \in 1 .. Len(escrows')
                   /\ disputes[d].status = "ResolvedForBeneficiary" => escrows'[i].released
                   /\ disputes[d].status \in {"ResolvedForDepositor", "Expired"}
                         => escrows'[i].refunded
                   /\ disputes[d].status = "Appealed"
                         => escrows'[i].released \/ escrows'[i].refunded
    <3> DEFINE i == disputes[d].escrow_id
    <3>1. i \in 1 .. Len(escrows) /\ Len(escrows) \in Nat
      BY LenProperties DEF OutcomeRecorded, Exists, TypeOK
    <3>2. i \in 1 .. Len(escrows')
      BY <3>1 DEF EscrowEffect, RecordsEffect
    <3>3. Settled(i) => escrows'[i] = escrows[i]
      BY <3>1 DEF EscrowEffect, RecordsEffect
    <3> QED BY <3>1, <3>2, <3>3 DEF OutcomeRecorded, Settled
  <2> QED BY <2>1, <2>2 DEF EscrowEffect, OutcomeRecorded, Exists, Settled
<1> QED
  BY <1>1, <1>2, <1>3

\* open_dispute: by the link and the recorded outcomes, the new dispute is the
\* first over its escrow.
LEMMA OpenDisputeKeepsInv ==
    ASSUME IInv, NEW c \in Account, NEW i \in EscrowId, NEW r \in Resolvers, NEW e \in Ledger,
           OpenDispute(c, i, r, e)
    PROVE  IInv'
<1> USE DEF IInv, DisputeInv
<1> DEFINE n == Len(disputes) + 1
           rec == [escrow_id |-> i, claimant |-> c, resolver |-> r, status |-> "Open",
                   expiry_ledger |-> e, appeal_resolver |-> NoResolver]
<1>1. /\ i \in 1 .. Len(escrows) /\ escrows[i] \in EscrowRecord
      /\ expiryWarned' \subseteq EscrowId
  BY GetEscrowType DEF OpenDispute
<1>2. rec \in DisputeRecord /\ rec.escrow_id = i /\ rec.status = "Open"
  BY DisputeAssumption DEF DisputeRecord, DisputeStatus
<1>3. /\ disputes' = Append(disputes, rec) /\ Len(disputes) < MaxDisputes
      /\ escrowDispute' = [escrowDispute EXCEPT ![i] = n]
      /\ disputeHistory' = [disputeHistory EXCEPT ![i] = Append(@, n)]
      /\ openDisputes' = [openDisputes EXCEPT ![n] = @ + 1]
      /\ ~Settled(i) /\ escrowDispute[i] = NoDispute
      /\ UNCHANGED <<now, ledger, escrows, depositorEscrows>>
  BY DEF OpenDispute, AppendOpenDispute
<1> HIDE DEF rec
<1>4. /\ disputes' \in Seq(DisputeRecord) /\ Len(disputes') = n
      /\ \A d \in 1 .. Len(disputes) : disputes'[d] = disputes[d]
      /\ disputes'[n] = rec
      /\ Len(disputes) \in Nat
  BY <1>2, <1>3, AppendProperties, LenProperties DEF TypeOK
<1>5. n \in DisputeId
  BY <1>3, <1>4, DisputeAssumption DEF DisputeId
<1> HIDE DEF n
<1>6. n \notin 1 .. Len(disputes) /\ 1 .. Len(disputes') = 1 .. Len(disputes) \cup {n}
  BY <1>4 DEF n
<1>7. TypeOK'
  <2>1. Append(disputeHistory[i], n) \in Seq(DisputeId)
    BY <1>5, AppendProperties DEF TypeOK
  <2>2. disputeHistory' \in [EscrowId -> Seq(DisputeId)]
    BY <1>3, <2>1 DEF TypeOK
  <2>3. /\ escrowDispute' \in [EscrowId -> DisputeId \cup {NoDispute}]
        /\ openDisputes' \in [DisputeId -> Nat]
    BY <1>3, <1>5 DEF TypeOK
  <2>4. Len(disputes') <= MaxDisputes
    BY <1>3, <1>4, DisputeAssumption DEF n
  <2> QED BY <1>1, <1>3, <1>4, <2>2, <2>3, <2>4 DEF TypeOK
<1>8. HoldersExact'
  BY <1>3 DEF HoldersExact, HolderSetExact
<1>9. ASSUME NEW d \in 1 .. Len(disputes) PROVE disputes[d].escrow_id # i
  <2> SUFFICES ASSUME disputes[d].escrow_id = i PROVE FALSE
    OBVIOUS
  <2>1. d \in DisputeId
    BY <1>4, DisputeAssumption DEF TypeOK, DisputeId
  <2>2. disputes[d].status = "Open" => escrowDispute[i] = d
    BY <2>1 DEF LinkIsOpenDispute, DisputeExists
  <2>3. disputes[d].status # "Open"
    BY <1>3, <2>1, <2>2 DEF NoDispute, DisputeId
  <2>4. disputes[d].status \in DisputeStatus
    <3>1. disputes[d] \in DisputeRecord
      BY RecordAt DEF TypeOK
    <3> QED BY <3>1 DEF DisputeRecord
  <2>5. Settled(i)
    BY <2>3, <2>4 DEF OutcomeRecorded, Settled, DisputeStatus
  <2> QED BY <1>3, <2>5
<1>10. OutcomeRecorded'
  BY <1>1, <1>2, <1>3, <1>4, <1>6 DEF OutcomeRecorded, Exists, Settled
<1>11. LinkIsOpenDispute'
  <2> SUFFICES ASSUME NEW j \in EscrowId, NEW d \in DisputeId
               PROVE  escrowDispute'[j] = d
                        <=> /\ d \in 1 .. Len(disputes')
                            /\ disputes'[d].escrow_id = j /\ disputes'[d].status = "Open"
    BY DEF LinkIsOpenDispute, DisputeExists
  <2>1. escrowDispute'[j] = IF j = i THEN n ELSE escrowDispute[j]
    BY <1>3 DEF TypeOK
  <2>2. escrowDispute[j] = d
          <=> /\ d \in 1 .. Len(disputes)
              /\ disputes[d].escrow_id = j /\ disputes[d].status = "Open"
    BY DEF LinkIsOpenDispute, DisputeExists
  <2>3. CASE d = n
    BY <1>2, <1>4, <1>6, <2>1, <2>2, <2>3
  <2>4. CASE d # n
    BY <1>4, <1>6, <1>9, <2>1, <2>2, <2>4
  <2> QED BY <2>3, <2>4
<1>12. OneDisputePerEscrow'
  <2>1. \A d, f \in 1 .. Len(disputes') :
           disputes'[d].escrow_id = disputes'[f].escrow_id => d = f
    BY <1>2, <1>4, <1>6, <1>9 DEF OneDisputePerEscrow
  <2>2. ASSUME NEW j \in EscrowId
        PROVE  \/ disputeHistory'[j] = <<>> /\ \A d \in 1 .. Len(disputes') : disputes'[d].escrow_id # j
               \/ \E d \in 1 .. Len(disputes') : disputes'[d].escrow_id = j /\ disputeHistory'[j] = <<d>>
    <3>1. CASE j = i
      <4>1. disputeHistory[i] = <<>>
        BY <1>9 DEF OneDisputePerEscrow
      <4>2. disputeHistory'[i] = Append(<<>>, n)
        BY <1>3, <4>1 DEF TypeOK
      <4>3. disputeHistory'[i] = <<n>>
        BY <4>2
      <4> QED BY <1>2, <1>4, <1>6, <3>1, <4>3
    <3>2. CASE j # i
      <4>1. disputeHistory'[j] = disputeHistory[j]
        BY <1>3, <3>2 DEF TypeOK
      <4> QED BY <1>2, <1>4, <1>6, <3>2, <4>1 DEF OneDisputePerEscrow
    <3> QED BY <3>1, <3>2
  <2> QED BY <2>1, <2>2 DEF OneDisputePerEscrow
<1>13. OpenIndexExact'
  <2> SUFFICES ASSUME NEW d \in DisputeId
               PROVE  openDisputes'[d] =
                        IF /\ d \in 1 .. Len(disputes')
                           /\ \/ disputes'[d].status = "Open"
                              \/ /\ disputes'[d].status = "Appealed"
                                 /\ disputes'[d].appeal_resolver # NoResolver
                        THEN 1 ELSE 0
    BY DEF OpenIndexExact, DisputeExists
  <2>1. openDisputes'[d] = IF d = n THEN openDisputes[n] + 1 ELSE openDisputes[d]
    BY <1>3, <1>5 DEF TypeOK
  <2>2. CASE d = n
    <3>1. openDisputes[n] = 0
      BY <1>5, <1>6 DEF OpenIndexExact, DisputeExists
    <3> QED BY <1>2, <1>4, <1>6, <2>1, <2>2, <3>1
  <2>3. CASE d # n
    BY <1>4, <1>6, <2>1, <2>3 DEF OpenIndexExact, DisputeExists
  <2> QED BY <2>2, <2>3
<1> QED
  BY <1>7, <1>8, <1>10, <1>11, <1>12, <1>13

\* settle_escrow_by_outcome sets the flag the outcome names on an active
\* record, and only that.
LEMMA OutcomeEffect ==
    ASSUME TypeOK, NEW i \in EscrowId, NEW b \in BOOLEAN, SettleEscrowByOutcome(i, b)
    PROVE  /\ i \in 1 .. Len(escrows) /\ ~Settled(i)
           /\ expiryWarned' \subseteq EscrowId
           /\ escrows' \in Seq(EscrowRecord) /\ Len(escrows') = Len(escrows)
           /\ escrows'[i].released = b /\ escrows'[i].refunded = ~b
           /\ \A j \in 1 .. Len(escrows) : j # i => escrows'[j] = escrows[j]
           /\ ledger' \in LedgerType
           /\ HoldersExact => HoldersExact'
<1>1. i \in 1 .. Len(escrows) /\ escrows[i] \in EscrowRecord /\ expiryWarned' \subseteq EscrowId
  BY GetEscrowType DEF SettleEscrowByOutcome
<1>2. escrows[i].beneficiary \in Address
  BY <1>1 DEF EscrowRecord
<1>3. CASE b = TRUE
  <2>1. SettleReleased(i, escrows[i].beneficiary)
    BY <1>3 DEF SettleEscrowByOutcome
  <2>2. /\ ~Settled(i)
        /\ escrows' \in Seq(EscrowRecord) /\ Len(escrows') = Len(escrows)
        /\ \A j \in 1 .. Len(escrows) :
              escrows'[j] = IF j = i THEN [escrows[i] EXCEPT !.released = TRUE] ELSE escrows[j]
        /\ ledger' \in LedgerType
        /\ HoldersExact => HoldersExact'
    BY <1>1, <1>2, <2>1, SettleReleasedEffect
  <2>3. escrows[i].refunded = FALSE
    BY <1>1, <2>2 DEF Settled, EscrowRecord
  <2>4. escrows'[i].released = TRUE /\ escrows'[i].refunded = FALSE
    BY <1>1, <2>2, <2>3 DEF EscrowRecord
  <2> QED BY <1>1, <1>3, <2>2, <2>4
<1>4. CASE b = FALSE
  <2>1. SettleRefunded(i)
    BY <1>4 DEF SettleEscrowByOutcome
  <2>2. /\ ~Settled(i)
        /\ escrows' \in Seq(EscrowRecord) /\ Len(escrows') = Len(escrows)
        /\ \A j \in 1 .. Len(escrows) :
              escrows'[j] = IF j = i THEN [escrows[i] EXCEPT !.refunded = TRUE] ELSE escrows[j]
        /\ ledger' \in LedgerType
        /\ HoldersExact => HoldersExact'
    BY <1>1, <2>1, SettleRefundedEffect
  <2>3. escrows[i].released = FALSE
    BY <1>1, <2>2 DEF Settled, EscrowRecord
  <2>4. escrows'[i].refunded = TRUE /\ escrows'[i].released = FALSE
    BY <1>1, <2>2, <2>3 DEF EscrowRecord
  <2> QED BY <1>1, <1>4, <2>2, <2>4
<1> QED
  BY <1>3, <1>4

\* Closing a dispute, by resolution or by expiry, with a status that fits.
LEMMA CloseDisputeKeepsInv ==
    ASSUME IInv, NEW d \in 1 .. Len(disputes), NEW b \in BOOLEAN,
           NEW st \in {"ResolvedForBeneficiary", "ResolvedForDepositor", "Expired"},
           b <=> st = "ResolvedForBeneficiary",
           CloseDispute(d, b, st)
    PROVE  /\ IInv'
           /\ \A j \in 1 .. Len(escrows) : Settled(j) => escrows'[j] = escrows[j]
           /\ \A j \in 1 .. Len(escrows) :
                 ~escrows[j].refunded /\ escrows'[j].refunded => escrowDispute'[j] = NoDispute
<1> USE DEF IInv, DisputeInv
<1> DEFINE i == disputes[d].escrow_id
           rec == [disputes[d] EXCEPT !.status = st]
<1>1. disputes[d] \in DisputeRecord
  BY RecordAt DEF TypeOK
<1>2. i \in EscrowId /\ rec \in DisputeRecord /\ rec.escrow_id = i /\ rec.status = st
  BY <1>1 DEF DisputeRecord, DisputeStatus
<1>3. /\ disputes[d].status = "Open"
      /\ SettleEscrowByOutcome(i, b)
      /\ disputes' = [disputes EXCEPT ![d] = rec]
      /\ escrowDispute' = [escrowDispute EXCEPT ![i] = NoDispute]
      /\ openDisputes' = [openDisputes EXCEPT ![d] = 0]
      /\ UNCHANGED <<now, depositorEscrows, disputeHistory>>
  BY DEF CloseDispute, RemoveOpenDispute
<1> HIDE DEF rec
<1>4. /\ disputes' \in Seq(DisputeRecord) /\ Len(disputes') = Len(disputes)
      /\ \A f \in 1 .. Len(disputes) : disputes'[f] = IF f = d THEN rec ELSE disputes[f]
  BY <1>2, <1>3, RecordUpdate DEF TypeOK
<1>5. /\ i \in 1 .. Len(escrows) /\ ~Settled(i)
      /\ expiryWarned' \subseteq EscrowId
      /\ escrows' \in Seq(EscrowRecord) /\ Len(escrows') = Len(escrows)
      /\ escrows'[i].released = b /\ escrows'[i].refunded = ~b
      /\ \A j \in 1 .. Len(escrows) : j # i => escrows'[j] = escrows[j]
      /\ ledger' \in LedgerType
      /\ HoldersExact'
  BY <1>2, <1>3, OutcomeEffect
<1> HIDE DEF i
<1>6. \A f \in 1 .. Len(disputes) : /\ disputes'[f].escrow_id = disputes[f].escrow_id
                                    /\ disputes[f].escrow_id = i => f = d
  BY <1>2, <1>4 DEF OneDisputePerEscrow, i
<1>7. d \in DisputeId
  BY DisputeAssumption, LenProperties DEF TypeOK, DisputeId
<1>8. TypeOK'
  <2>1. /\ escrowDispute' \in [EscrowId -> DisputeId \cup {NoDispute}]
        /\ openDisputes' \in [DisputeId -> Nat]
    BY <1>3 DEF TypeOK
  <2> QED BY <1>3, <1>4, <1>5, <2>1 DEF TypeOK
<1>9. OutcomeRecorded'
  <2>1. \A j \in 1 .. Len(escrows') : ~(escrows'[j].released /\ escrows'[j].refunded)
    BY <1>5 DEF OutcomeRecorded
  <2>2. ASSUME NEW f \in 1 .. Len(disputes), f # d
        PROVE  /\ disputes[f].escrow_id # i /\ disputes[f].escrow_id \in 1 .. Len(escrows)
               /\ escrows'[disputes[f].escrow_id] = escrows[disputes[f].escrow_id]
               /\ disputes'[f] = disputes[f]
    BY <1>4, <1>5, <1>6, <2>2 DEF OutcomeRecorded, Exists
  <2>3. disputes'[d].escrow_id = i /\ disputes'[d].status = st
    BY <1>2, <1>4
  <2>4. ASSUME NEW f \in 1 .. Len(disputes)
        PROVE  LET j == disputes'[f].escrow_id
               IN  /\ j \in 1 .. Len(escrows')
                   /\ disputes'[f].status = "ResolvedForBeneficiary" => escrows'[j].released
                   /\ disputes'[f].status \in {"ResolvedForDepositor", "Expired"}
                         => escrows'[j].refunded
                   /\ disputes'[f].status = "Appealed"
                         => escrows'[j].released \/ escrows'[j].refunded
    <3>1. CASE f = d
      BY <1>5, <2>3, <3>1
    <3>2. CASE f # d
      BY <1>5, <2>2, <3>2 DEF OutcomeRecorded, Settled
    <3> QED BY <3>1, <3>2
  <2> QED BY <1>4, <2>1, <2>4 DEF OutcomeRecorded, Exists, Settled
<1>10. LinkIsOpenDispute'
  <2> SUFFICES ASSUME NEW j \in EscrowId, NEW f \in DisputeId
               PROVE  escrowDispute'[j] = f
                        <=> /\ f \in 1 .. Len(disputes')
                            /\ disputes'[f].escrow_id = j /\ disputes'[f].status = "Open"
    BY DEF LinkIsOpenDispute, DisputeExists
  <2>1. escrowDispute'[j] = IF j = i THEN NoDispute ELSE escrowDispute[j]
    BY <1>3 DEF TypeOK
  <2>2. escrowDispute[j] = f
          <=> /\ f \in 1 .. Len(disputes)
              /\ disputes[f].escrow_id = j /\ disputes[f].status = "Open"
    BY DEF LinkIsOpenDispute, DisputeExists
  <2>3. NoDispute # f
    BY DEF NoDispute, DisputeId
  <2>4. disputes[d].escrow_id = i /\ rec.status # "Open" /\ rec.escrow_id = i
    BY <1>2 DEF i
  <2>5. CASE f = d
    BY <1>4, <2>1, <2>2, <2>3, <2>4, <2>5
  <2>6. CASE f # d
    BY <1>4, <1>6, <2>1, <2>2, <2>3, <2>6
  <2> QED BY <2>5, <2>6
<1>11. OneDisputePerEscrow'
  <2>1. \A f, g \in 1 .. Len(disputes') :
           disputes'[f].escrow_id = disputes'[g].escrow_id => f = g
    BY <1>4, <1>6 DEF OneDisputePerEscrow
  <2>2. \A j \in EscrowId :
          \/ disputeHistory'[j] = <<>> /\ \A f \in 1 .. Len(disputes') : disputes'[f].escrow_id # j
          \/ \E f \in 1 .. Len(disputes') : disputes'[f].escrow_id = j /\ disputeHistory'[j] = <<f>>
    BY <1>3, <1>4, <1>6 DEF OneDisputePerEscrow
  <2> QED BY <2>1, <2>2 DEF OneDisputePerEscrow
<1>12. OpenIndexExact'
  <2> SUFFICES ASSUME NEW f \in DisputeId
               PROVE  openDisputes'[f] =
                        IF /\ f \in 1 .. Len(disputes')
                           /\ \/ disputes'[f].status = "Open"
                              \/ /\ disputes'[f].status = "Appealed"
                                 /\ disputes'[f].appeal_resolver # NoResolver
                        THEN 1 ELSE 0
    BY DEF OpenIndexExact, DisputeExists
  <2>1. openDisputes'[f] = IF f = d THEN 0 ELSE openDisputes[f]
    BY <1>3 DEF TypeOK
  <2>2. CASE f = d
    BY <1>2, <1>4, <2>1, <2>2
  <2>3. CASE f # d
    BY <1>4, <2>1, <2>3 DEF OpenIndexExact, DisputeExists
  <2> QED BY <2>2, <2>3
<1>13. \A j \in 1 .. Len(escrows) : Settled(j) => escrows'[j] = escrows[j]
  BY <1>5
<1>14. ASSUME NEW j \in 1 .. Len(escrows), ~escrows[j].refunded, escrows'[j].refunded
       PROVE  escrowDispute'[j] = NoDispute
  <2>1. j = i
    BY <1>5, <1>14
  <2> QED BY <1>2, <1>3, <2>1 DEF TypeOK
<1> QED
  BY <1>5, <1>8, <1>9, <1>10, <1>11, <1>12, <1>13, <1>14

\* appeal_dispute lists the dispute again; it was taken off when it closed.
LEMMA AppealKeepsInv ==
    ASSUME IInv, NEW c \in Account, NEW d \in DisputeId, NEW r \in Resolvers,
           AppealDispute(c, d, r)
    PROVE  IInv'
<1> USE DEF IInv, DisputeInv
<1> DEFINE rec == [[disputes[d] EXCEPT !.status = "Appealed"] EXCEPT !.appeal_resolver = r]
<1>1. d \in 1 .. Len(disputes) /\ r \in Address /\ r # NoResolver
  BY DisputeAssumption DEF AppealDispute, DisputeExists
<1>2. disputes[d] \in DisputeRecord
  BY <1>1, RecordAt DEF TypeOK
<1>3. /\ rec \in DisputeRecord /\ rec.escrow_id = disputes[d].escrow_id
      /\ rec.status = "Appealed" /\ rec.appeal_resolver = r
  BY <1>1, <1>2 DEF DisputeRecord, DisputeStatus
<1>4. /\ disputes[d].status \in {"ResolvedForBeneficiary", "ResolvedForDepositor"}
      /\ openDisputes' = [openDisputes EXCEPT ![d] = @ + 1]
      /\ UNCHANGED <<now, ledger, escrows, depositorEscrows, expiryWarned, escrowDispute,
                     disputeHistory>>
  BY DEF AppealDispute, AppendOpenDispute, escrowVars
<1>5. disputes' = [disputes EXCEPT ![d] = rec]
  <2>1. disputes' = [disputes EXCEPT ![d].status = "Appealed", ![d].appeal_resolver = r]
    BY DEF AppealDispute
  <2> QED BY <1>1, <2>1 DEF TypeOK
<1> HIDE DEF rec
<1>6. /\ disputes' \in Seq(DisputeRecord) /\ Len(disputes') = Len(disputes)
      /\ \A f \in 1 .. Len(disputes) : disputes'[f] = IF f = d THEN rec ELSE disputes[f]
  BY <1>1, <1>3, <1>5, RecordUpdate DEF TypeOK
<1>7. \A f \in 1 .. Len(disputes) : disputes'[f].escrow_id = disputes[f].escrow_id
  BY <1>3, <1>6
<1>8. TypeOK' /\ HoldersExact'
  BY <1>4, <1>6 DEF TypeOK, HoldersExact, HolderSetExact
<1>9. OutcomeRecorded'
  BY <1>1, <1>3, <1>4, <1>6, <1>7 DEF OutcomeRecorded, Exists, Settled
<1>10. LinkIsOpenDispute'
  BY <1>1, <1>3, <1>4, <1>6, <1>7 DEF LinkIsOpenDispute, DisputeExists
<1>11. OneDisputePerEscrow'
  BY <1>4, <1>6, <1>7 DEF OneDisputePerEscrow
<1>12. OpenIndexExact'
  <2>1. openDisputes[d] = 0
    BY <1>4 DEF OpenIndexExact
  <2>2. \A f \in DisputeId : openDisputes'[f] = IF f = d THEN 1 ELSE openDisputes[f]
    BY <1>4, <2>1 DEF TypeOK
  <2> QED BY <1>1, <1>3, <1>6, <2>2 DEF OpenIndexExact, DisputeExists
<1> QED
  BY <1>8, <1>9, <1>10, <1>11, <1>12

\* An overturned appeal swaps the two flags of one settled record.
LEMMA OverturnEffect ==
    ASSUME TypeOK, OutcomeRecorded, NEW i \in 1 .. Len(escrows), Settled(i), Overturn(i)
    PROVE  /\ escrows' \in Seq(EscrowRecord) /\ Len(escrows') = Len(escrows)
           /\ \A j \in 1 .. Len(escrows) :
                 escrows'[j] = IF j = i THEN [escrows[i] EXCEPT !.released = ~@, !.refunded = ~@]
                               ELSE escrows[j]
           /\ escrows'[i].released = ~escrows[i].released
           /\ escrows'[i].refunded = escrows[i].released
           /\ ledger' \in LedgerType
           /\ HoldersExact => HoldersExact'
<1> DEFINE paid == escrows[i].released
           rec == [[escrows[i] EXCEPT !.released = ~paid] EXCEPT !.refunded = paid]
<1>1. escrows[i] \in EscrowRecord
  BY RecordAt DEF TypeOK
<1>2. paid \in BOOLEAN /\ escrows[i].refunded = ~paid
  BY <1>1 DEF EscrowRecord, OutcomeRecorded, Settled
<1>3. rec \in EscrowRecord /\ rec.released = ~paid /\ rec.refunded = paid
  BY <1>1, <1>2 DEF EscrowRecord
<1>4. rec = [escrows[i] EXCEPT !.released = ~@, !.refunded = ~@]
  BY <1>1, <1>2 DEF EscrowRecord
<1>5. escrows' = [escrows EXCEPT ![i] = rec]
  <2>1. escrows' = [escrows EXCEPT ![i].released = ~paid, ![i].refunded = paid]
    BY DEF Overturn
  <2> QED BY <2>1 DEF TypeOK
<1>6. ledger' \in LedgerType /\ (HolderSetExact(ledger) => HolderSetExact(ledger'))
  <2> DEFINE from == IF paid THEN escrows[i].beneficiary ELSE escrows[i].depositor
             to == IF paid THEN escrows[i].depositor ELSE escrows[i].beneficiary
  <2>1. /\ from \in Address /\ to \in Address /\ escrows[i].amount \in Nat
        /\ ledger \in LedgerType
    BY <1>1 DEF EscrowRecord, Address, TypeOK
  <2>2. /\ CanSpend(ledger, from, escrows[i].amount)
        /\ ledger' = Move(ledger, from, to, escrows[i].amount)
    BY DEF Overturn
  <2> HIDE DEF from, to
  <2> QED BY <2>1, <2>2, MoveLemma
<1> HIDE DEF rec
<1>7. /\ escrows' \in Seq(EscrowRecord) /\ Len(escrows') = Len(escrows)
      /\ \A j \in 1 .. Len(escrows) : escrows'[j] = IF j = i THEN rec ELSE escrows[j]
  BY <1>3, <1>5, RecordUpdate DEF TypeOK
<1> QED
  BY <1>3, <1>4, <1>6, <1>7 DEF HoldersExact, HolderSetExact

\* resolve_appeal: an upheld resolution only clears the appeal resolver; an
\* overturned one swaps the outcome of escrow and dispute together.
LEMMA ResolveAppealKeepsInv ==
    ASSUME IInv, NEW c \in Account, NEW d \in DisputeId, NEW o \in BOOLEAN,
           ResolveAppeal(c, d, o)
    PROVE  /\ IInv'
           /\ \A j \in 1 .. Len(escrows) : escrows'[j] # escrows[j] =>
                 /\ disputes[d].escrow_id = j /\ disputes[d].status = "Appealed"
                 /\ disputes'[d].status # "Appealed"
                 /\ escrows'[j] = [escrows[j] EXCEPT !.released = ~@, !.refunded = ~@]
           /\ \A j \in 1 .. Len(escrows) :
                 ~escrows[j].refunded /\ escrows'[j].refunded => escrowDispute'[j] = NoDispute
<1> USE DEF IInv, DisputeInv
<1> DEFINE i == disputes[d].escrow_id
           st == IF o THEN ResolvedFor(~escrows[i].released) ELSE "Appealed"
           rec == [[disputes[d] EXCEPT !.status = st] EXCEPT !.appeal_resolver = NoResolver]
<1>1. d \in 1 .. Len(disputes) /\ disputes[d].status = "Appealed" /\ GetEscrow(i)
  BY DEF ResolveAppeal, DisputeExists
<1>2. disputes[d] \in DisputeRecord /\ i \in EscrowId
  <2>1. disputes[d] \in DisputeRecord
    BY <1>1, RecordAt DEF TypeOK
  <2> QED BY <2>1 DEF DisputeRecord
<1>3. /\ i \in 1 .. Len(escrows) /\ escrows[i] \in EscrowRecord
      /\ expiryWarned' \subseteq EscrowId /\ Settled(i)
  BY <1>1, <1>2, GetEscrowType DEF OutcomeRecorded
<1>4. /\ openDisputes' = [openDisputes EXCEPT ![d] = 0]
      /\ UNCHANGED <<now, depositorEscrows, escrowDispute, disputeHistory>>
  BY DEF ResolveAppeal, RemoveOpenDispute
<1>5. /\ st \in DisputeStatus /\ st # "Open"
      /\ o => st \in {"ResolvedForBeneficiary", "ResolvedForDepositor"}
      /\ ~o => st = "Appealed"
  BY DEF ResolvedFor, DisputeStatus
<1>6. st = "ResolvedForBeneficiary" <=> o /\ ~escrows[i].released
  BY DEF ResolvedFor
<1>7. disputes' = [disputes EXCEPT ![d] = rec]
  <2>1. CASE o
    <3>1. disputes' = [disputes EXCEPT ![d].status = ResolvedFor(~escrows[i].released),
                                       ![d].appeal_resolver = NoResolver]
      BY <2>1 DEF ResolveAppeal
    <3> QED BY <1>1, <2>1, <3>1 DEF TypeOK
  <2>2. CASE ~o
    <3>1. disputes' = [disputes EXCEPT ![d].appeal_resolver = NoResolver]
      BY <2>2 DEF ResolveAppeal
    <3>2. [disputes[d] EXCEPT !.status = "Appealed"] = disputes[d]
      BY <1>1, <1>2 DEF DisputeRecord
    <3> QED BY <1>1, <2>2, <3>1, <3>2 DEF TypeOK
  <2> QED BY <2>1, <2>2
<1>8. o => Overturn(i)
  BY DEF ResolveAppeal
<1>9. ~o => UNCHANGED <<ledger, escrows>>
  BY DEF ResolveAppeal
<1> HIDE DEF st
<1>10. /\ rec \in DisputeRecord /\ rec.escrow_id = i /\ rec.status = st
       /\ rec.appeal_resolver = NoResolver
  BY <1>2, <1>5 DEF DisputeRecord
<1> HIDE DEF rec
<1>11. /\ disputes' \in Seq(DisputeRecord) /\ Len(disputes') = Len(disputes)
       /\ \A f \in 1 .. Len(disputes) : disputes'[f] = IF f = d THEN rec ELSE disputes[f]
  BY <1>1, <1>7, <1>10, RecordUpdate DEF TypeOK
<1>12. \A f \in 1 .. Len(disputes) : /\ disputes'[f].escrow_id = disputes[f].escrow_id
                                     /\ disputes[f].escrow_id = i => f = d
  BY <1>1, <1>10, <1>11 DEF OneDisputePerEscrow
<1>13. /\ escrows' \in Seq(EscrowRecord) /\ Len(escrows') = Len(escrows)
       /\ ledger' \in LedgerType /\ HoldersExact'
       /\ \A j \in 1 .. Len(escrows) : j # i => escrows'[j] = escrows[j]
       /\ escrows'[i] = IF o THEN [escrows[i] EXCEPT !.released = ~@, !.refunded = ~@]
                         ELSE escrows[i]
       /\ o => /\ escrows'[i].released = ~escrows[i].released
               /\ escrows'[i].refunded = escrows[i].released
  <2>1. CASE o
    BY <1>3, <1>8, <2>1, OverturnEffect
  <2>2. CASE ~o
    BY <1>3, <1>9, <2>2 DEF TypeOK, HoldersExact, HolderSetExact
  <2> QED BY <2>1, <2>2
<1>14. escrows[i].released \in BOOLEAN
  BY <1>3 DEF EscrowRecord
<1> HIDE DEF i
<1>15. TypeOK'
  <2>1. openDisputes' \in [DisputeId -> Nat]
    BY <1>4 DEF TypeOK
  <2> QED BY <1>3, <1>4, <1>11, <1>13, <2>1 DEF TypeOK
<1>16. OutcomeRecorded'
  <2>1. \A j \in 1 .. Len(escrows') : ~(escrows'[j].released /\ escrows'[j].refunded)
    BY <1>3, <1>13, <1>14 DEF OutcomeRecorded
  <2>2. ASSUME NEW f \in 1 .. Len(disputes)
        PROVE  LET j == disputes'[f].escrow_id
               IN  /\ j \in 1 .. Len(escrows')
                   /\ disputes'[f].status = "ResolvedForBeneficiary" => escrows'[j].released
                   /\ disputes'[f].status \in {"ResolvedForDepositor", "Expired"}
                         => escrows'[j].refunded
                   /\ disputes'[f].status = "Appealed"
                         => escrows'[j].released \/ escrows'[j].refunded
    <3>1. CASE f = d
      <4>1. disputes'[f].escrow_id = i /\ disputes'[f].status = st
        BY <1>1, <1>10, <1>11, <3>1
      <4>2. CASE o
        <5>1. st = "ResolvedForBeneficiary" => escrows'[i].released
          BY <1>6, <1>13, <4>2
        <5>2. st = "ResolvedForDepositor" => escrows'[i].refunded
          BY <1>6, <1>13, <1>14, <4>2
        <5> QED BY <1>3, <1>5, <1>13, <4>1, <4>2, <5>1, <5>2
      <4>3. CASE ~o
        BY <1>3, <1>5, <1>13, <4>1, <4>3 DEF Settled
      <4> QED BY <4>2, <4>3
    <3>2. CASE f # d
      <4>1. disputes'[f] = disputes[f] /\ disputes[f].escrow_id # i
        BY <1>11, <1>12, <3>2
      <4>2. disputes[f].escrow_id \in 1 .. Len(escrows)
        BY DEF OutcomeRecorded, Exists
      <4>3. escrows'[disputes[f].escrow_id] = escrows[disputes[f].escrow_id]
        BY <1>13, <4>1, <4>2
      <4> QED BY <1>13, <4>1, <4>2, <4>3 DEF OutcomeRecorded, Settled
    <3> QED BY <3>1, <3>2
  <2> QED BY <1>11, <2>1, <2>2 DEF OutcomeRecorded, Exists, Settled
<1>17. LinkIsOpenDispute'
  BY <1>1, <1>4, <1>5, <1>10, <1>11, <1>12 DEF LinkIsOpenDispute, DisputeExists
<1>18. OneDisputePerEscrow'
  BY <1>4, <1>11, <1>12 DEF OneDisputePerEscrow
<1>19. OpenIndexExact'
  <2>1. \A f \in DisputeId : openDisputes'[f] = IF f = d THEN 0 ELSE openDisputes[f]
    BY <1>4 DEF TypeOK
  <2> QED BY <1>1, <1>5, <1>10, <1>11, <2>1 DEF OpenIndexExact, DisputeExists
<1>20. ASSUME NEW j \in 1 .. Len(escrows), escrows'[j] # escrows[j]
       PROVE  /\ disputes[d].escrow_id = j /\ disputes[d].status = "Appealed"
              /\ disputes'[d].status # "Appealed"
              /\ escrows'[j] = [escrows[j] EXCEPT !.released = ~@, !.refunded = ~@]
  <2>1. j = i /\ o
    BY <1>13, <1>20
  <2>2. disputes'[d].status = st /\ st # "Appealed"
    BY <1>1, <1>5, <1>10, <1>11, <2>1
  <2> QED BY <1>1, <1>13, <2>1, <2>2 DEF i
<1>21. ASSUME NEW j \in 1 .. Len(escrows), ~escrows[j].refunded, escrows'[j].refunded
       PROVE  escrowDispute'[j] = NoDispute
  <2>1. j = i
    BY <1>13, <1>21
  <2>2. \A f \in DisputeId : escrowDispute[i] # f
    BY <1>1, <1>2, <1>12 DEF LinkIsOpenDispute, DisputeExists
  <2> QED BY <1>2, <1>4, <2>1, <2>2 DEF TypeOK
<1> QED
  BY <1>13, <1>15, <1>16, <1>17, <1>18, <1>19, <1>20, <1>21

-----------------------------------------------------------------------------
\* Every step keeps the invariant, leaves settled escrows to appeals, and
\* refunds a disputed escrow only by closing its dispute.
LEMMA NextKeepsInv ==
    ASSUME IInv, Next
    PROVE  IInv' /\ SettledStep /\ RefundStep
<1>0. TypeOK
  BY DEF IInv
<1>1. CASE EscrowNext /\ UNCHANGED disputeVars
  <2>1. EscrowEffect
    BY <1>0, <1>1, EscrowNextEffect
  <2>2. IInv'
    BY <2>1, EscrowKeepsInv
  <2> QED BY <2>1, <2>2 DEF EscrowEffect, RecordsEffect, SettledStep, RefundStep
<1>2. ASSUME NEW c \in Account, NEW i \in EscrowId, NEW r \in Resolvers, NEW e \in Ledger,
             OpenDispute(c, i, r, e)
      PROVE  IInv' /\ SettledStep /\ RefundStep
  <2>1. IInv'
    BY <1>2, OpenDisputeKeepsInv
  <2>2. escrows' = escrows
    BY <1>2 DEF OpenDispute
  <2> QED BY <2>1, <2>2 DEF SettledStep, RefundStep
<1>3. ASSUME NEW r \in Account, NEW d \in DisputeId, NEW b \in BOOLEAN,
             DisputeExists(d), CloseDispute(d, b, ResolvedFor(b))
      PROVE  IInv' /\ SettledStep /\ RefundStep
  <2>1. /\ d \in 1 .. Len(disputes)
        /\ ResolvedFor(b) \in {"ResolvedForBeneficiary", "ResolvedForDepositor", "Expired"}
        /\ b <=> ResolvedFor(b) = "ResolvedForBeneficiary"
    BY <1>3 DEF DisputeExists, ResolvedFor
  <2> QED BY <1>3, <2>1, CloseDisputeKeepsInv DEF SettledStep, RefundStep
<1>4. ASSUME NEW d \in DisputeId, ExpireDispute(d)
      PROVE  IInv' /\ SettledStep /\ RefundStep
  <2>1. d \in 1 .. Len(disputes) /\ CloseDispute(d, FALSE, "Expired")
    BY <1>4 DEF ExpireDispute, DisputeExists
  <2> QED BY <2>1, CloseDisputeKeepsInv DEF SettledStep, RefundStep
<1>5. ASSUME NEW c \in Account, NEW d \in DisputeId, NEW r \in Resolvers, AppealDispute(c, d, r)
      PROVE  IInv' /\ SettledStep /\ RefundStep
  <2>1. IInv'
    BY <1>5, AppealKeepsInv
  <2>2. escrows' = escrows
    BY <1>5 DEF AppealDispute, escrowVars
  <2> QED BY <2>1, <2>2 DEF SettledStep, RefundStep
<1>6. ASSUME NEW c \in Account, NEW d \in DisputeId, NEW o \in BOOLEAN, ResolveAppeal(c, d, o)
      PROVE  IInv' /\ SettledStep /\ RefundStep
  <2>1. d \in 1 .. Len(disputes)
    BY <1>6 DEF ResolveAppeal, DisputeExists
  <2>2. /\ IInv'
        /\ \A j \in 1 .. Len(escrows) : escrows'[j] # escrows[j] =>
              /\ disputes[d].escrow_id = j /\ disputes[d].status = "Appealed"
              /\ disputes'[d].status # "Appealed"
              /\ escrows'[j] = [escrows[j] EXCEPT !.released = ~@, !.refunded = ~@]
        /\ RefundStep
    BY <1>6, ResolveAppealKeepsInv DEF RefundStep
  <2> QED BY <2>1, <2>2 DEF SettledStep
<1> QED
  BY <1>1, <1>2, <1>3, <1>4, <1>5, <1>6
     DEF Next, DisputeNext, ResolveDispute, ResolveDisputeWithNote

\* A step that changes no variable changes nothing.
LEMMA StutterKeepsInv ==
    ASSUME IInv, UNCHANGED vars
    PROVE  IInv'
BY DEF vars, IInv, TypeOK, HoldersExact, HolderSetExact, DisputeInv, OutcomeRecorded,
       LinkIsOpenDispute, OneDisputePerEscrow, OpenIndexExact, Exists, Settled, DisputeExists

\* The inductive invariant holds in every reachable state.
THEOREM Invariance == Spec => []IInv
<1>1. IInv /\ [Next]_vars => IInv'
  BY NextKeepsInv, StutterKeepsInv
<1> QED
  BY InitInv, <1>1, PTL DEF Spec

\* Balances stay natural numbers, records and indexes keep their shape: no
\* order of escrow and dispute calls overdraws an account.
THEOREM TypeCorrect == Spec => []TypeOK
BY Invariance, PTL DEF IInv

\* The holder set is exact however money moves through escrows and appeals.
THEOREM HoldersCorrect == Spec => []HoldersExact
BY Invariance, PTL DEF IInv

\* Escrow flags and dispute statuses always tell the same outcome.
THEOREM OutcomeCorrect == Spec => []OutcomeRecorded
<1>1. IInv => OutcomeRecorded
  BY DEF IInv, DisputeInv
<1> QED BY Invariance, <1>1, PTL

\* EscrowDispute links an escrow to its open dispute and to nothing else.
THEOREM LinkCorrect == Spec => []LinkIsOpenDispute
<1>1. IInv => LinkIsOpenDispute
  BY DEF IInv, DisputeInv
<1> QED BY Invariance, <1>1, PTL

\* No escrow is ever disputed twice, and its history holds its one dispute.
THEOREM DisputedOnce == Spec => []OneDisputePerEscrow
<1>1. IInv => OneDisputePerEscrow
  BY DEF IInv, DisputeInv
<1> QED BY Invariance, <1>1, PTL

\* OpenDisputes holds every undecided dispute once and no other.
THEOREM OpenIndexCorrect == Spec => []OpenIndexExact
<1>1. IInv => OpenIndexExact
  BY DEF IInv, DisputeInv
<1> QED BY Invariance, <1>1, PTL

\* Only an overturned appeal changes a settled escrow, and only its outcome.
THEOREM SettlementFinal == Spec => SettlementIsFinal
<1>1. IInv /\ [Next]_vars => [SettledStep]_vars
  BY NextKeepsInv
<1>2. Spec => [][SettledStep]_vars
  BY Invariance, <1>1, PTL DEF Spec
<1> QED BY <1>2 DEF SettlementIsFinal

\* A depositor is never refunded while a dispute over the escrow stays open.
THEOREM NoRefundUnderDispute == Spec => RefundClosesDispute
<1>1. IInv /\ [Next]_vars => [RefundStep]_vars
  BY NextKeepsInv
<1>2. Spec => [][RefundStep]_vars
  BY Invariance, <1>1, PTL DEF Spec
<1> QED BY <1>2 DEF RefundClosesDispute

-----------------------------------------------------------------------------
(***************************************************************************)
(* Escrows and disputes implement custody.                                 *)
(*                                                                         *)
(* The balance of the contract covers the active escrows, but that is not  *)
(* inductive: an overturned appeal takes the amount of a settled escrow    *)
(* from the party that was paid, and an escrow may name the contract       *)
(* itself as its beneficiary.  What such an escrow paid lies in the        *)
(* contract's balance and can be asked back as long as an appeal is        *)
(* possible, so it has to be covered too (PoolCovered).                    *)
(***************************************************************************)
\* A dispute over escrow i was decided, or may still be.
Ruled(i) ==
    \E d \in 1 .. Len(disputes) :
        disputes[d].escrow_id = i /\ disputes[d].status \in {"ResolvedForBeneficiary", "Appealed"}

\* What lies in the vault of escrow i.
Locked(i) == IF Active(i) THEN escrows[i].amount ELSE 0

\* An overturned appeal would take what escrow i paid from the contract.
Returnable(i) ==
    Exists(i) /\ escrows[i].beneficiary = Contract /\ escrows[i].released /\ Ruled(i)

Claim(i) == IF Active(i) \/ Returnable(i) THEN escrows[i].amount ELSE 0

Backing == [i \in EscrowId |-> Claim(i)]

PoolCovered == SumFunctionOnSet(Backing, EscrowId) <= ledger.balance[Contract]

CustodyInv == IInv /\ PoolCovered

-----------------------------------------------------------------------------
(***************************************************************************)
(* What a step may do, seen through the vaults.                            *)
(***************************************************************************)

\* One address pays another, or itself, an amount that it has.
Moved(from, to, x) ==
    /\ from \in Address /\ to \in Address /\ x \in Nat
    /\ x <= ledger.balance[from]
    /\ ledger'.balance = [[ledger.balance EXCEPT ![from] = @ - x] EXCEPT ![to] = @ + x]

\* What the contract owes does not grow by more than its balance: the escrows
\* other than i owe what they owed.
ClaimsKept(i) ==
    /\ Backing' = [Backing EXCEPT ![i] = Claim(i)']
    /\ Claim(i)' - Claim(i) <= ledger'.balance[Contract] - ledger.balance[Contract]

\* Nothing happens to any escrow, and the contract loses nothing.
Elsewhere ==
    /\ \E from, to \in Address, x \in Nat : Moved(from, to, x)
    /\ Vaults' = Vaults /\ Closed' = Closed
    /\ Backing' = Backing /\ ledger'.balance[Contract] >= ledger.balance[Contract]

\* Money goes into the vault of escrow i.
PaidIn(i) ==
    /\ \E from \in Account, x \in Nat :
          Moved(from, Contract, x) /\ Vaults' = [Vaults EXCEPT ![i] = @ + x]
    /\ i \notin Closed /\ Closed' = Closed
    /\ ClaimsKept(i)

\* All that lies in it goes to one address.
PaidOut(i) ==
    /\ \E to \in Address : Moved(Contract, to, Vaults[i])
    /\ Vaults' = [Vaults EXCEPT ![i] = 0]
    /\ i \notin Closed /\ Closed' = Closed \cup {i}
    /\ ClaimsKept(i)

\* The parties of escrow i, settled long ago, exchange its amount.
Reversed(i) ==
    /\ \E from, to \in Address, x \in Nat : Moved(from, to, x)
    /\ Vaults' = Vaults /\ Closed' = Closed
    /\ ClaimsKept(i)

CustodyStep ==
    \/ Elsewhere
    \/ \E i \in EscrowId : PaidIn(i) \/ PaidOut(i) \/ Reversed(i)

-----------------------------------------------------------------------------
\* What an escrow owes is a natural number, and all of it if it is active.
LEMMA ClaimType ==
    ASSUME TypeOK
    PROVE  /\ Vaults \in [EscrowId -> Nat] /\ Backing \in [EscrowId -> Nat]
           /\ \A i \in EscrowId : Vaults[i] <= Backing[i]
           /\ Closed \subseteq EscrowId
           /\ Len(escrows) \in Nat /\ 1 .. Len(escrows) \subseteq EscrowId
<1>1. Len(escrows) \in Nat /\ 1 .. Len(escrows) \subseteq EscrowId
  BY LenProperties, EscrowAssumption DEF TypeOK, EscrowId
<1>2. \A i \in EscrowId : Exists(i) => escrows[i].amount \in Nat
  <2>1. \A i \in 1 .. Len(escrows) : escrows[i] \in EscrowRecord
    BY RecordAt DEF TypeOK
  <2> QED BY <2>1 DEF Exists, EscrowRecord
<1>3. \A i \in EscrowId : Locked(i) \in Nat /\ Claim(i) \in Nat /\ Locked(i) <= Claim(i)
  BY <1>2 DEF Locked, Claim, Active, Returnable
<1> QED
  BY <1>1, <1>3 DEF Vaults, Locked, Backing, Closed, Settled

\* Escrows that keep their record and their disputes keep what they owe.
LEMMA Frame ==
    ASSUME TypeOK, TypeOK', NEW i \in EscrowId,
           \A j \in EscrowId \ {i} :
              /\ Exists(j)' <=> Exists(j)
              /\ Exists(j) => escrows'[j] = escrows[j] /\ (Ruled(j)' <=> Ruled(j))
    PROVE  /\ Vaults' = [Vaults EXCEPT ![i] = Locked(i)']
           /\ Backing' = [Backing EXCEPT ![i] = Claim(i)']
           /\ Closed' \ {i} = Closed \ {i}
<1>1. \A j \in EscrowId \ {i} : Locked(j)' = Locked(j) /\ Claim(j)' = Claim(j)
  BY DEF Locked, Claim, Active, Returnable, Exists, Settled
<1>2. /\ Vaults' = [j \in EscrowId |-> Locked(j)']
      /\ Backing' = [j \in EscrowId |-> Claim(j)']
  BY DEF Vaults, Locked, Backing, Claim, Active, Returnable, Exists, Settled
<1>3. Closed' \ {i} = Closed \ {i}
  <2>1. Closed \subseteq EscrowId /\ Closed' \subseteq EscrowId
    <3>1. Closed \subseteq EscrowId
      BY ClaimType
    <3>2. Len(escrows') \in Nat /\ Closed' \subseteq EscrowId
      BY LenProperties, EscrowAssumption DEF TypeOK, EscrowId, Closed, Settled
    <3> QED BY <3>1, <3>2
  <2>2. \A j \in EscrowId \ {i} : j \in Closed' <=> j \in Closed
    BY DEF Closed, Exists, Settled
  <2> QED BY <2>1, <2>2
<1> QED
  BY <1>1, <1>2, <1>3 DEF Vaults, Locked, Backing

\* A step that changes neither records nor outcomes changes no vault.
LEMMA FrameAll ==
    ASSUME UNCHANGED escrows,
           \A j \in EscrowId : Exists(j) /\ escrows[j].released => (Ruled(j)' <=> Ruled(j))
    PROVE  Vaults' = Vaults /\ Backing' = Backing /\ Closed' = Closed
<1>1. \A j \in EscrowId : Locked(j)' = Locked(j) /\ Claim(j)' = Claim(j)
  BY DEF Locked, Claim, Active, Returnable, Exists, Settled
<1>2. /\ Vaults' = [j \in EscrowId |-> Locked(j)']
      /\ Backing' = [j \in EscrowId |-> Claim(j)']
      /\ Closed' = Closed
  BY DEF Vaults, Locked, Backing, Closed, Settled
<1> QED
  BY <1>1, <1>2 DEF Vaults, Locked, Backing

\* A ledger step is the payment its arguments say.
LEMMA MovedLemma ==
    ASSUME ledger \in LedgerType, NEW f \in Address, NEW t \in Address, NEW x \in Nat,
           CanSpend(ledger, f, x), ledger' = Move(ledger, f, t, x)
    PROVE  /\ Moved(f, t, x)
           /\ t = Contract => ledger'.balance[Contract] >= ledger.balance[Contract]
           /\ f # Contract /\ t = Contract =>
                 ledger'.balance[Contract] = ledger.balance[Contract] + x
           /\ f = Contract /\ t # Contract =>
                 ledger'.balance[Contract] = ledger.balance[Contract] - x
           /\ f # Contract /\ t # Contract =>
                 ledger'.balance[Contract] = ledger.balance[Contract]
           /\ f = t => ledger'.balance[Contract] = ledger.balance[Contract]
<1>1. ledger'.balance = [[ledger.balance EXCEPT ![f] = @ - x] EXCEPT ![t] = @ + x]
  BY MoveLemma
<1>2. x <= ledger.balance[f]
  BY DEF CanSpend, LedgerType
<1>3. ledger.balance \in [Address -> Nat] /\ Contract \in Address
  BY DEF LedgerType, Address
<1>4. ledger'.balance[Contract] =
        (IF f = Contract THEN ledger.balance[Contract] - x ELSE ledger.balance[Contract])
        + (IF t = Contract THEN x ELSE 0)
  BY <1>1, <1>3
<1>5. Moved(f, t, x)
  BY <1>1, <1>2 DEF Moved
<1> QED
  BY <1>3, <1>4, <1>5

\* A ledger that stays as it is is a payment of nothing.
LEMMA MovedNothing ==
    ASSUME ledger \in LedgerType, UNCHANGED ledger
    PROVE  /\ \E f, t \in Address, x \in Nat : Moved(f, t, x)
           /\ ledger'.balance[Contract] >= ledger.balance[Contract]
<1>1. ledger.balance \in [Address -> Nat] /\ Contract \in Address
  BY DEF LedgerType, Address
<1>2. [[ledger.balance EXCEPT ![Contract] = @ - 0] EXCEPT ![Contract] = @ + 0] = ledger.balance
  BY <1>1
<1>3. Moved(Contract, Contract, 0)
  BY <1>1, <1>2 DEF Moved
<1> QED
  BY <1>1, <1>3

\* The outcome of an active escrow's dispute is open: nothing was paid.
LEMMA ActiveNotRuled ==
    ASSUME IInv, NEW i, Exists(i), ~Settled(i)
    PROVE  ~Ruled(i)
BY DEF IInv, DisputeInv, OutcomeRecorded, Ruled, Settled

\* A payment out of the pool that settles escrow i, and no other, empties
\* its vault; the pool owes the amount still only if it paid itself.
LEMMA PaidOutLemma ==
    ASSUME TypeOK, TypeOK', NEW i \in 1 .. Len(escrows), NEW to \in Address,
           ~Settled(i), PayOut(i, to),
           Len(escrows') = Len(escrows), Settled(i)',
           escrows'[i].amount = escrows[i].amount,
           Returnable(i)' => to = Contract,
           \A j \in EscrowId \ {i} :
              Exists(j) => escrows'[j] = escrows[j] /\ (Ruled(j)' <=> Ruled(j))
    PROVE  PaidOut(i)
<1>1. i \in EscrowId /\ Exists(i) /\ Exists(i)' /\ Active(i) /\ ~Active(i)'
  BY ClaimType DEF Exists, Active
<1>2. escrows[i].amount \in Nat
  <2>1. escrows[i] \in EscrowRecord
    BY RecordAt DEF TypeOK
  <2> QED BY <2>1 DEF EscrowRecord
<1>3. /\ Vaults' = [Vaults EXCEPT ![i] = Locked(i)']
      /\ Backing' = [Backing EXCEPT ![i] = Claim(i)']
      /\ Closed' \ {i} = Closed \ {i}
  <2>1. \A j \in EscrowId \ {i} : Exists(j)' <=> Exists(j)
    BY DEF Exists
  <2> QED BY <1>1, <2>1, Frame
<1>4. Vaults[i] = escrows[i].amount /\ Locked(i)' = 0 /\ Claim(i) = escrows[i].amount
  BY <1>1 DEF Vaults, Locked, Claim, Active
<1>5. i \notin Closed /\ Closed' = Closed \cup {i}
  BY <1>1, <1>3 DEF Closed, Settled, Exists
<1>6. Claim(i)' = escrows[i].amount \/ Claim(i)' = 0
  BY DEF Claim
<1>7. to # Contract => Claim(i)' = 0
  BY <1>1 DEF Claim
<1>8. Contract \in Address /\ ledger \in LedgerType
  BY DEF Address, TypeOK
<1>9. ledger.balance[Contract] \in Nat
  BY <1>8 DEF LedgerType
<1>10. CanSpend(ledger, Contract, escrows[i].amount)
       /\ ledger' = Move(ledger, Contract, to, escrows[i].amount)
  BY DEF PayOut
<1>11. /\ Moved(Contract, to, escrows[i].amount)
       /\ to = Contract => ledger'.balance[Contract] = ledger.balance[Contract]
       /\ to # Contract => ledger'.balance[Contract] = ledger.balance[Contract] - escrows[i].amount
  BY <1>2, <1>8, <1>10, MovedLemma
<1>12. ClaimsKept(i)
  BY <1>2, <1>3, <1>4, <1>6, <1>7, <1>9, <1>11 DEF ClaimsKept
<1>13. \E a \in Address : Moved(Contract, a, Vaults[i])
  BY <1>4, <1>11
<1> QED
  BY <1>3, <1>4, <1>5, <1>12, <1>13 DEF PaidOut

\* A payment into the pool that only grows escrow i, made or still active.
LEMMA PaidInLemma ==
    ASSUME TypeOK, TypeOK', NEW i \in EscrowId, NEW from \in Account, NEW x \in Nat,
           CanSpend(ledger, from, x), ledger' = Move(ledger, from, Contract, x),
           Active(i) \/ ~Exists(i), Active(i)', Locked(i)' = Locked(i) + x,
           \A j \in EscrowId \ {i} :
              /\ Exists(j)' <=> Exists(j)
              /\ Exists(j) => escrows'[j] = escrows[j] /\ (Ruled(j)' <=> Ruled(j))
    PROVE  PaidIn(i)
<1>1. /\ Vaults' = [Vaults EXCEPT ![i] = Locked(i)']
      /\ Backing' = [Backing EXCEPT ![i] = Claim(i)']
      /\ Closed' \ {i} = Closed \ {i}
  BY Frame
<1>2. Claim(i) = Locked(i) /\ Claim(i)' = Locked(i)'
  BY DEF Claim, Locked, Returnable, Active
<1>3. i \notin Closed /\ i \notin Closed'
  BY DEF Closed, Settled, Active, Exists
<1>4. Vaults[i] = Locked(i) /\ Locked(i) \in Nat
  <2>1. Vaults[i] = Locked(i)
    BY DEF Vaults, Locked, Active
  <2> QED BY <2>1, ClaimType
<1>5. /\ from \in Address /\ Contract \in Address /\ from # Contract /\ ledger \in LedgerType
  BY ContractAssumption DEF Address, TypeOK
<1>6. /\ Moved(from, Contract, x)
      /\ ledger'.balance[Contract] = ledger.balance[Contract] + x
  BY <1>5, MovedLemma
<1>7. ledger.balance[Contract] \in Nat
  BY <1>5 DEF LedgerType
<1>8. ClaimsKept(i)
  BY <1>1, <1>2, <1>4, <1>6, <1>7 DEF ClaimsKept
<1>9. Vaults' = [Vaults EXCEPT ![i] = @ + x] /\ Closed' = Closed
  BY <1>1, <1>3, <1>4
<1> QED
  BY <1>3, <1>6, <1>8, <1>9 DEF PaidIn

-----------------------------------------------------------------------------
(***************************************************************************)
(* What each operation does to the vaults.                                 *)
(***************************************************************************)

\* create_escrow fills the vault of the next id.
LEMMA CreateEscrowStep ==
    ASSUME IInv, TypeOK', UNCHANGED disputes,
           NEW d \in Account, NEW b \in Beneficiaries, NEW x \in Amounts, NEW e \in Ledger,
           CreateEscrow(d, b, x, e)
    PROVE  CustodyStep
<1>0. PICK i : i = Len(escrows) + 1
  OBVIOUS
<1> DEFINE r == [depositor |-> d, beneficiary |-> b, amount |-> x, released |-> FALSE,
                 refunded |-> FALSE, expiry_ledger |-> e]
<1>1. TypeOK /\ x \in Nat /\ b \in Address /\ d \in Account
  BY EscrowAssumption DEF IInv
<1>2. r \in EscrowRecord /\ r.amount = x /\ r.released = FALSE /\ r.refunded = FALSE
  BY <1>1 DEF EscrowRecord
<1>3. /\ escrows' = Append(escrows, r) /\ Len(escrows) < MaxEscrows
      /\ CanSpend(ledger, d, x) /\ ledger' = Move(ledger, d, Contract, x)
  BY DEF CreateEscrow
<1> HIDE DEF r
<1>4. /\ Len(escrows') = Len(escrows) + 1 /\ Len(escrows) \in Nat
      /\ \A j \in 1 .. Len(escrows) : escrows'[j] = escrows[j]
      /\ escrows'[Len(escrows) + 1] = r
  BY <1>1, <1>2, <1>3, RecordAppend DEF TypeOK
<1>5. i \in EscrowId
  BY <1>0, <1>3, <1>4, EscrowAssumption DEF EscrowId
<1>6. ~Exists(i) /\ Active(i)' /\ Locked(i)' = Locked(i) + x
  BY <1>0, <1>1, <1>2, <1>4 DEF Exists, Active, Settled, Locked
<1>7. ASSUME NEW j \in EscrowId \ {i}
      PROVE  /\ Exists(j)' <=> Exists(j)
             /\ Exists(j) => escrows'[j] = escrows[j] /\ (Ruled(j)' <=> Ruled(j))
  BY <1>0, <1>4 DEF Exists, Ruled
<1>8. PaidIn(i)
  BY <1>1, <1>3, <1>5, <1>6, <1>7, PaidInLemma
<1> QED
  BY <1>5, <1>8 DEF CustodyStep

\* topup_escrow adds to the vault of an active escrow.
LEMMA TopupEscrowStep ==
    ASSUME IInv, TypeOK', UNCHANGED disputes,
           NEW d \in Account, NEW i \in EscrowId, NEW x \in Amounts, TopupEscrow(d, i, x)
    PROVE  CustodyStep
<1> DEFINE r == [escrows[i] EXCEPT !.amount = @ + x]
<1>1. TypeOK /\ x \in Nat /\ Exists(i)
  BY EscrowAssumption DEF IInv, TopupEscrow, GetEscrow
<1>2. escrows[i] \in EscrowRecord
  BY <1>1, RecordAt DEF TypeOK, Exists
<1>3. /\ r \in EscrowRecord /\ r.amount = escrows[i].amount + x
      /\ r.released = escrows[i].released /\ r.refunded = escrows[i].refunded
  BY <1>1, <1>2 DEF EscrowRecord
<1>4. /\ escrows' = [escrows EXCEPT ![i] = r] /\ ~Settled(i)
      /\ CanSpend(ledger, d, x) /\ ledger' = Move(ledger, d, Contract, x)
  BY DEF TopupEscrow
<1> HIDE DEF r
<1>5. /\ Len(escrows') = Len(escrows)
      /\ \A j \in 1 .. Len(escrows) : escrows'[j] = IF j = i THEN r ELSE escrows[j]
  BY <1>1, <1>3, <1>4, RecordUpdate DEF TypeOK, Exists
<1>6. Active(i) /\ Active(i)' /\ Locked(i)' = Locked(i) + x
  BY <1>1, <1>3, <1>4, <1>5 DEF Exists, Active, Settled, Locked
<1>7. ASSUME NEW j \in EscrowId \ {i}
      PROVE  /\ Exists(j)' <=> Exists(j)
             /\ Exists(j) => escrows'[j] = escrows[j] /\ (Ruled(j)' <=> Ruled(j))
  BY <1>5 DEF Exists, Ruled
<1>8. PaidIn(i)
  BY <1>1, <1>4, <1>6, <1>7, PaidInLemma
<1> QED
  BY <1>8 DEF CustodyStep

\* release_escrow and admin_settle_escrow empty the vault; no dispute over
\* the escrow was decided, so nothing can be asked back.
LEMMA ReleaseEscrowStep ==
    ASSUME IInv, TypeOK', UNCHANGED disputes, NEW i \in EscrowId, NEW to \in Address,
           GetEscrow(i), SettleReleased(i, to)
    PROVE  CustodyStep
<1>1. TypeOK /\ i \in 1 .. Len(escrows) /\ escrows[i] \in EscrowRecord
  BY GetEscrowType DEF IInv
<1>2. /\ ~Settled(i) /\ Len(escrows') = Len(escrows)
      /\ \A j \in 1 .. Len(escrows) :
            escrows'[j] = IF j = i THEN [escrows[i] EXCEPT !.released = TRUE] ELSE escrows[j]
  BY <1>1, SettleReleasedEffect
<1>3. Settled(i)' /\ escrows'[i].amount = escrows[i].amount
  BY <1>1, <1>2 DEF Settled, EscrowRecord
<1>4. ~Ruled(i)
  BY <1>1, <1>2, ActiveNotRuled DEF Exists
<1>5. \A j \in EscrowId : Ruled(j)' <=> Ruled(j)
  BY DEF Ruled
<1>6. ~Returnable(i)'
  BY <1>4, <1>5 DEF Returnable
<1>7. PayOut(i, to)
  BY DEF SettleReleased
<1>8. PaidOut(i)
  BY <1>1, <1>2, <1>3, <1>5, <1>6, <1>7, PaidOutLemma DEF Exists
<1> QED
  BY <1>8 DEF CustodyStep

\* refund_escrow does the same.
LEMMA RefundEscrowStep ==
    ASSUME IInv, TypeOK', UNCHANGED disputes, NEW i \in EscrowId,
           GetEscrow(i), SettleRefunded(i)
    PROVE  CustodyStep
<1>1. TypeOK /\ i \in 1 .. Len(escrows) /\ escrows[i] \in EscrowRecord
  BY GetEscrowType DEF IInv
<1>2. /\ ~Settled(i) /\ Len(escrows') = Len(escrows)
      /\ \A j \in 1 .. Len(escrows) :
            escrows'[j] = IF j = i THEN [escrows[i] EXCEPT !.refunded = TRUE] ELSE escrows[j]
  BY <1>1, SettleRefundedEffect
<1>3. Settled(i)' /\ escrows'[i].amount = escrows[i].amount
  BY <1>1, <1>2 DEF Settled, EscrowRecord
<1>4. ~Ruled(i)
  BY <1>1, <1>2, ActiveNotRuled DEF Exists
<1>5. \A j \in EscrowId : Ruled(j)' <=> Ruled(j)
  BY DEF Ruled
<1>6. ~Returnable(i)'
  BY <1>4, <1>5 DEF Returnable
<1>7. PayOut(i, escrows[i].depositor) /\ escrows[i].depositor \in Address
  BY <1>1 DEF SettleRefunded, EscrowRecord, Address
<1>8. PaidOut(i)
  BY <1>1, <1>2, <1>3, <1>5, <1>6, <1>7, PaidOutLemma DEF Exists
<1> QED
  BY <1>8 DEF CustodyStep

\* Closing a dispute empties the vault of its escrow.  A release to the
\* contract itself leaves the amount in its balance, where it can be asked
\* back.
LEMMA CloseDisputeStep ==
    ASSUME IInv, TypeOK', NEW d \in 1 .. Len(disputes), NEW b \in BOOLEAN,
           NEW st, CloseDispute(d, b, st)
    PROVE  CustodyStep
<1>0. PICK i : i = disputes[d].escrow_id
  OBVIOUS
<1>1. TypeOK /\ disputes[d] \in DisputeRecord
  BY RecordAt DEF IInv, TypeOK
<1>2. i \in EscrowId /\ SettleEscrowByOutcome(i, b) /\ disputes' = [disputes EXCEPT ![d].status = st]
  BY <1>0, <1>1 DEF DisputeRecord, CloseDispute
<1>3. \A f \in 1 .. Len(disputes) : f # d => disputes'[f] = disputes[f] /\ disputes[f].escrow_id # i
  BY <1>0, <1>1, <1>2 DEF TypeOK, IInv, DisputeInv, OneDisputePerEscrow
<1>4. /\ Len(disputes') = Len(disputes) /\ disputes'[d].escrow_id = i
  BY <1>0, <1>1, <1>2 DEF TypeOK, DisputeRecord
<1>5. /\ i \in 1 .. Len(escrows) /\ ~Settled(i)
      /\ Len(escrows') = Len(escrows)
      /\ escrows'[i].released = b /\ escrows'[i].refunded = ~b
      /\ \A j \in 1 .. Len(escrows) : j # i => escrows'[j] = escrows[j]
  BY <1>1, <1>2, OutcomeEffect
<1>6. escrows[i] \in EscrowRecord
  BY <1>1, <1>5, RecordAt DEF TypeOK
<1>7. ASSUME NEW j \in EscrowId \ {i}
      PROVE  Exists(j) => escrows'[j] = escrows[j] /\ (Ruled(j)' <=> Ruled(j))
  <2>1. \A f \in 1 .. Len(disputes) :
           disputes[f].escrow_id = j \/ disputes'[f].escrow_id = j => disputes'[f] = disputes[f]
    BY <1>0, <1>3, <1>4
  <2>2. Ruled(j)' <=> Ruled(j)
    BY <1>4, <2>1 DEF Ruled
  <2> QED BY <1>5, <2>2 DEF Exists
<1>8. PICK to : to = IF b THEN escrows[i].beneficiary ELSE escrows[i].depositor
  OBVIOUS
<1>9. /\ PayOut(i, to) /\ to \in Address
      /\ escrows'[i].amount = escrows[i].amount
      /\ escrows'[i].beneficiary = escrows[i].beneficiary
  <2>1. CASE b = TRUE
    <3>1. SettleReleased(i, escrows[i].beneficiary)
      BY <1>2, <2>1 DEF SettleEscrowByOutcome
    <3>2. escrows' = [escrows EXCEPT ![i].released = TRUE] /\ PayOut(i, escrows[i].beneficiary)
      BY <3>1 DEF SettleReleased
    <3>3. /\ escrows'[i].amount = escrows[i].amount
          /\ escrows'[i].beneficiary = escrows[i].beneficiary
      BY <1>1, <1>5, <1>6, <3>2 DEF TypeOK, EscrowRecord
    <3> QED BY <1>6, <1>8, <2>1, <3>2, <3>3 DEF EscrowRecord
  <2>2. CASE b = FALSE
    <3>1. SettleRefunded(i)
      BY <1>2, <2>2 DEF SettleEscrowByOutcome
    <3>2. escrows' = [escrows EXCEPT ![i].refunded = TRUE] /\ PayOut(i, escrows[i].depositor)
      BY <3>1 DEF SettleRefunded
    <3>3. /\ escrows'[i].amount = escrows[i].amount
          /\ escrows'[i].beneficiary = escrows[i].beneficiary
      BY <1>1, <1>5, <1>6, <3>2 DEF TypeOK, EscrowRecord
    <3> QED BY <1>6, <1>8, <2>2, <3>2, <3>3 DEF EscrowRecord, Address
  <2> QED BY <2>1, <2>2
<1>10. Settled(i)'
  BY <1>5 DEF Settled
<1>11. Returnable(i)' => to = Contract
  BY <1>5, <1>9, <1>8 DEF Returnable
<1>12. PaidOut(i)
  BY <1>1, <1>5, <1>7, <1>9, <1>10, <1>11, PaidOutLemma
<1> QED
  BY <1>2, <1>12 DEF CustodyStep

\* resolve_appeal moves, if it overturns, the amount from the party that was
\* paid to the other, and turns the outcome over with it: what the contract
\* pays back it no longer owes, and what it receives it may owe.
LEMMA ResolveAppealStep ==
    ASSUME IInv, TypeOK', NEW c \in Account, NEW d \in DisputeId, NEW o \in BOOLEAN,
           ResolveAppeal(c, d, o)
    PROVE  CustodyStep
<1>0. PICK i : i = disputes[d].escrow_id
  OBVIOUS
<1>1. TypeOK /\ OutcomeRecorded /\ d \in 1 .. Len(disputes) /\ disputes[d].status = "Appealed"
  BY DEF IInv, DisputeInv, ResolveAppeal, DisputeExists
<1>2. disputes[d] \in DisputeRecord
  BY <1>1, RecordAt DEF TypeOK
<1>3. i \in EscrowId /\ i \in 1 .. Len(escrows) /\ Settled(i) /\ Ruled(i)
  BY <1>0, <1>1, <1>2 DEF OutcomeRecorded, Exists, DisputeRecord, Ruled
<1>4. escrows[i] \in EscrowRecord
  BY <1>1, <1>3, RecordAt DEF TypeOK
<1>5. CASE ~o
  <2>1. disputes' = [disputes EXCEPT ![d].appeal_resolver = NoResolver]
        /\ UNCHANGED <<ledger, escrows>>
    BY <1>5 DEF ResolveAppeal
  <2>2. /\ Len(disputes') = Len(disputes)
        /\ \A f \in 1 .. Len(disputes) : /\ disputes'[f].escrow_id = disputes[f].escrow_id
                                         /\ disputes'[f].status = disputes[f].status
    <3> DEFINE rec == [disputes[d] EXCEPT !.appeal_resolver = NoResolver]
    <3>1. disputes' = [disputes EXCEPT ![d] = rec]
      BY <2>1
    <3>2. /\ rec \in DisputeRecord /\ rec.escrow_id = disputes[d].escrow_id
          /\ rec.status = disputes[d].status
      BY <1>2 DEF DisputeRecord
    <3> HIDE DEF rec
    <3> QED BY <1>1, <3>1, <3>2, RecordUpdate DEF TypeOK
  <2>3. \A j \in EscrowId : Ruled(j)' <=> Ruled(j)
    BY <2>2 DEF Ruled
  <2>4. Vaults' = Vaults /\ Backing' = Backing /\ Closed' = Closed
    BY <2>1, <2>3, FrameAll
  <2>5. /\ \E f, t \in Address, x \in Nat : Moved(f, t, x)
        /\ ledger'.balance[Contract] >= ledger.balance[Contract]
    BY <1>1, <2>1, MovedNothing DEF TypeOK
  <2> QED BY <2>4, <2>5 DEF CustodyStep, Elsewhere
<1>6. CASE o
  <2>1. /\ disputes' = [disputes EXCEPT ![d].status = ResolvedFor(~escrows[i].released),
                                        ![d].appeal_resolver = NoResolver]
        /\ Overturn(i)
    BY <1>0, <1>6 DEF ResolveAppeal
  <2>2. /\ Len(disputes') = Len(disputes)
        /\ \A f \in 1 .. Len(disputes) : disputes'[f].escrow_id = disputes[f].escrow_id
        /\ \A f \in 1 .. Len(disputes) :
              f # d => disputes'[f] = disputes[f] /\ disputes[f].escrow_id # i
    <3> DEFINE st == ResolvedFor(~escrows[i].released)
               rec == [[disputes[d] EXCEPT !.status = st] EXCEPT !.appeal_resolver = NoResolver]
    <3>1. st \in DisputeStatus
      BY DEF ResolvedFor, DisputeStatus
    <3> HIDE DEF st
    <3>2. disputes' = [disputes EXCEPT ![d] = rec]
      BY <1>1, <2>1 DEF TypeOK, st
    <3>3. rec \in DisputeRecord /\ rec.escrow_id = i
      BY <1>0, <1>2, <3>1 DEF DisputeRecord
    <3> HIDE DEF rec
    <3>4. /\ Len(disputes') = Len(disputes)
          /\ \A f \in 1 .. Len(disputes) : disputes'[f] = IF f = d THEN rec ELSE disputes[f]
      BY <1>1, <3>2, <3>3, RecordUpdate DEF TypeOK
    <3>5. \A f \in 1 .. Len(disputes) : f # d => disputes[f].escrow_id # i
      BY <1>0, <1>1 DEF IInv, DisputeInv, OneDisputePerEscrow
    <3> QED BY <1>0, <1>1, <3>3, <3>4, <3>5
  <2>3. ASSUME NEW j \in EscrowId \ {i} PROVE Ruled(j)' <=> Ruled(j)
    <3>1. \A f \in 1 .. Len(disputes) :
             disputes[f].escrow_id = j \/ disputes'[f].escrow_id = j => disputes'[f] = disputes[f]
      BY <1>0, <2>2
    <3> QED BY <2>2, <3>1 DEF Ruled
  <2>4. /\ Len(escrows') = Len(escrows)
        /\ \A j \in 1 .. Len(escrows) :
              escrows'[j] = IF j = i THEN [escrows[i] EXCEPT !.released = ~@, !.refunded = ~@]
                            ELSE escrows[j]
        /\ escrows'[i].released = ~escrows[i].released
        /\ escrows'[i].refunded = escrows[i].released
    BY <1>1, <1>3, <2>1, OverturnEffect
  <2>5. /\ escrows'[i].amount = escrows[i].amount
        /\ escrows'[i].beneficiary = escrows[i].beneficiary
        /\ Settled(i)'
    BY <1>3, <1>4, <2>4 DEF EscrowRecord, Settled
  <2>6. /\ Vaults' = [Vaults EXCEPT ![i] = Locked(i)']
        /\ Backing' = [Backing EXCEPT ![i] = Claim(i)']
        /\ Closed' \ {i} = Closed \ {i}
    <3>1. \A j \in EscrowId \ {i} :
             /\ Exists(j)' <=> Exists(j)
             /\ Exists(j) => escrows'[j] = escrows[j] /\ (Ruled(j)' <=> Ruled(j))
      BY <2>3, <2>4 DEF Exists
    <3> QED BY <1>1, <1>3, <3>1, Frame
  <2>7. Vaults' = Vaults /\ Closed' = Closed
    <3>1. Locked(i) = 0 /\ Locked(i)' = 0 /\ i \in Closed /\ i \in Closed'
      BY <1>3, <2>4, <2>5 DEF Locked, Active, Closed, Settled
    <3>2. Vaults[i] = Locked(i)
      BY <1>3 DEF Vaults, Locked, Active
    <3>3. Vaults \in [EscrowId -> Nat]
      BY <1>1, ClaimType
    <3>4. Vaults' = Vaults
      BY <1>3, <2>6, <3>1, <3>2, <3>3
    <3> QED BY <2>6, <3>1, <3>4
  <2> DEFINE m == escrows[i].amount
             atContract == escrows[i].beneficiary = Contract
  <2>8. m \in Nat /\ escrows[i].released \in BOOLEAN /\ escrows[i].depositor \in Account
        /\ escrows[i].beneficiary \in Address
    BY <1>4 DEF EscrowRecord
  <2>9. Claim(i) = IF atContract /\ escrows[i].released THEN m ELSE 0
    BY <1>3 DEF Claim, Active, Returnable, Exists
  <2>10. (atContract /\ ~escrows[i].released) \/ Claim(i)' = 0
    BY <1>3, <2>4, <2>5 DEF Claim, Active, Returnable, Exists
  <2>11. Claim(i)' = m \/ Claim(i)' = 0
    BY <2>5 DEF Claim
  <2>12. PICK f, t : /\ f = IF escrows[i].released THEN escrows[i].beneficiary ELSE escrows[i].depositor
                     /\ t = IF escrows[i].released THEN escrows[i].depositor ELSE escrows[i].beneficiary
    OBVIOUS
  <2>13. CanSpend(ledger, f, m) /\ ledger' = Move(ledger, f, t, m)
    BY <2>1, <2>12 DEF Overturn
  <2>14. f \in Address /\ t \in Address /\ ledger \in LedgerType /\ escrows[i].depositor # Contract
    BY <1>1, <2>8, <2>12, ContractAssumption DEF Address, TypeOK
  <2>15. ledger.balance[Contract] \in Nat
    BY <2>14 DEF LedgerType, Address
  <2> HIDE DEF m, atContract
  <2>16. /\ Moved(f, t, m)
         /\ f # Contract /\ t = Contract => ledger'.balance[Contract] = ledger.balance[Contract] + m
         /\ f = Contract /\ t # Contract => ledger'.balance[Contract] = ledger.balance[Contract] - m
         /\ f # Contract /\ t # Contract => ledger'.balance[Contract] = ledger.balance[Contract]
    BY <2>8, <2>13, <2>14, MovedLemma
  <2>17. Claim(i)' - Claim(i) <= ledger'.balance[Contract] - ledger.balance[Contract]
    <3>1. CASE atContract /\ escrows[i].released
      BY <2>8, <2>9, <2>10, <2>12, <2>14, <2>15, <2>16, <3>1 DEF atContract
    <3>2. CASE atContract /\ ~escrows[i].released
      BY <2>8, <2>9, <2>11, <2>12, <2>14, <2>15, <2>16, <3>2 DEF atContract
    <3>3. CASE ~atContract
      BY <2>8, <2>9, <2>10, <2>12, <2>14, <2>15, <2>16, <3>3 DEF atContract
    <3> QED BY <3>1, <3>2, <3>3
  <2>18. Reversed(i)
    BY <2>6, <2>7, <2>8, <2>14, <2>16, <2>17 DEF Reversed, ClaimsKept
  <2> QED BY <1>3, <2>18 DEF CustodyStep
<1> QED
  BY <1>5, <1>6

\* A step that leaves the records, the outcomes of paid escrows and the
\* ledger alone.
LEMMA QuietStep ==
    ASSUME TypeOK, UNCHANGED <<ledger, escrows>>,
           \A j \in EscrowId : Exists(j) /\ escrows[j].released => (Ruled(j)' <=> Ruled(j))
    PROVE  CustodyStep
<1>1. Vaults' = Vaults /\ Backing' = Backing /\ Closed' = Closed
  BY FrameAll
<1>2. /\ \E f, t \in Address, x \in Nat : Moved(f, t, x)
      /\ ledger'.balance[Contract] >= ledger.balance[Contract]
  BY MovedNothing DEF TypeOK
<1> QED
  BY <1>1, <1>2 DEF CustodyStep, Elsewhere

\* An appeal only concerns outcomes already recorded: one that the depositor
\* won was not released.
LEMMA AppealStep ==
    ASSUME IInv, NEW c \in Account, NEW d \in DisputeId, NEW r \in Resolvers,
           AppealDispute(c, d, r)
    PROVE  CustodyStep
<1>1. /\ TypeOK /\ d \in 1 .. Len(disputes)
      /\ disputes[d].status \in {"ResolvedForBeneficiary", "ResolvedForDepositor"}
      /\ disputes' = [disputes EXCEPT ![d].status = "Appealed", ![d].appeal_resolver = r]
      /\ UNCHANGED <<ledger, escrows>>
  BY DEF IInv, AppealDispute, DisputeExists, escrowVars
<1>2. disputes[d] \in DisputeRecord
  BY <1>1, RecordAt DEF TypeOK
<1>3. /\ Len(disputes') = Len(disputes)
      /\ \A f \in 1 .. Len(disputes) : f # d => disputes'[f] = disputes[f]
      /\ disputes'[d].escrow_id = disputes[d].escrow_id /\ disputes'[d].status = "Appealed"
  BY <1>1, <1>2 DEF TypeOK, DisputeRecord
<1>4. ASSUME NEW j \in EscrowId, Exists(j), escrows[j].released PROVE Ruled(j)' <=> Ruled(j)
  <2>1. disputes[d].escrow_id = j => disputes[d].status = "ResolvedForBeneficiary"
    BY <1>1, <1>4 DEF IInv, DisputeInv, OutcomeRecorded, Exists
  <2> QED BY <1>1, <1>3, <2>1 DEF Ruled
<1> QED
  BY <1>1, <1>4, QuietStep

\* A new dispute is undecided.
LEMMA OpenDisputeStep ==
    ASSUME IInv, NEW c \in Account, NEW i \in EscrowId, NEW r \in Resolvers, NEW e \in Ledger,
           OpenDispute(c, i, r, e)
    PROVE  CustodyStep
<1> DEFINE rec == [escrow_id |-> i, claimant |-> c, resolver |-> r, status |-> "Open",
                   expiry_ledger |-> e, appeal_resolver |-> NoResolver]
<1>1. /\ TypeOK /\ disputes' = Append(disputes, rec) /\ UNCHANGED <<ledger, escrows>>
  BY DEF IInv, OpenDispute
<1>2. rec \in DisputeRecord /\ rec.status = "Open"
  BY DisputeAssumption DEF DisputeRecord, DisputeStatus
<1> HIDE DEF rec
<1>3. /\ Len(disputes') = Len(disputes) + 1 /\ Len(disputes) \in Nat
      /\ \A f \in 1 .. Len(disputes) : disputes'[f] = disputes[f]
      /\ disputes'[Len(disputes) + 1] = rec
  BY <1>1, <1>2, RecordAppend DEF TypeOK
<1>4. \A j \in EscrowId : Ruled(j)' <=> Ruled(j)
  BY <1>2, <1>3 DEF Ruled
<1> QED
  BY <1>1, <1>4, QuietStep

\* Users' payments, to the contract or to each other, concern no escrow.
LEMMA TransferStep ==
    ASSUME IInv, UNCHANGED disputes,
           NEW f \in Account, NEW t \in Beneficiaries, NEW x \in Amounts, Transfer(f, t, x)
    PROVE  CustodyStep
<1>1. /\ TypeOK /\ f \in Address /\ t \in Address /\ x \in Nat /\ f # Contract
      /\ ledger \in LedgerType
  BY EscrowAssumption, ContractAssumption DEF IInv, Address, TypeOK
<1>2. CanSpend(ledger, f, x) /\ ledger' = Move(ledger, f, t, x) /\ UNCHANGED escrows
  BY DEF Transfer
<1>3. \A j \in EscrowId : Ruled(j)' <=> Ruled(j)
  BY DEF Ruled
<1>4. Vaults' = Vaults /\ Backing' = Backing /\ Closed' = Closed
  BY <1>2, <1>3, FrameAll
<1>5. Moved(f, t, x)
      /\ (t = Contract => ledger'.balance[Contract] >= ledger.balance[Contract])
      /\ (t # Contract => ledger'.balance[Contract] = ledger.balance[Contract])
  BY <1>1, <1>2, MovedLemma
<1>6. ledger.balance[Contract] \in Nat
  BY <1>1 DEF LedgerType, Address
<1> QED
  BY <1>1, <1>4, <1>5, <1>6 DEF CustodyStep, Elsewhere

\* Every step of the system is a custody step.
LEMMA NextStep ==
    ASSUME IInv, Next
    PROVE  CustodyStep
<1>1. TypeOK /\ TypeOK'
  BY NextKeepsInv DEF IInv
<1>2. CASE EscrowNext /\ UNCHANGED disputeVars
  <2>0. UNCHANGED disputes
    BY <1>2 DEF disputeVars
  <2>1. ASSUME NEW d \in Account, NEW b \in Beneficiaries, NEW x \in Amounts, NEW e \in Ledger,
               CreateEscrow(d, b, x, e)
        PROVE  CustodyStep
    BY <1>1, <2>0, <2>1, CreateEscrowStep
  <2>2. ASSUME NEW c \in Account, NEW i \in EscrowId, ReleaseEscrow(c, i) PROVE CustodyStep
    <3>1. escrows[i].beneficiary \in Address
      BY <1>1, <2>2, GetEscrowType DEF ReleaseEscrow, EscrowRecord
    <3>2. PICK to \in Address : to = escrows[i].beneficiary
      BY <3>1
    <3>3. GetEscrow(i) /\ SettleReleased(i, to)
      BY <2>2, <3>2 DEF ReleaseEscrow
    <3> QED BY <1>1, <2>0, <3>3, ReleaseEscrowStep
  <2>3. ASSUME NEW c \in Account, NEW i \in EscrowId, RefundEscrow(c, i) PROVE CustodyStep
    BY <1>1, <2>0, <2>3, RefundEscrowStep DEF RefundEscrow
  <2>4. ASSUME NEW d \in Account, NEW i \in EscrowId, NEW x \in Amounts, TopupEscrow(d, i, x)
        PROVE  CustodyStep
    BY <1>1, <2>0, <2>4, TopupEscrowStep
  <2>5. ASSUME NEW a \in Account, NEW i \in EscrowId, NEW r \in Beneficiaries,
               AdminSettleEscrow(a, i, r)
        PROVE  CustodyStep
    <3>1. r \in Address
      BY EscrowAssumption
    <3> QED BY <1>1, <2>0, <2>5, <3>1, ReleaseEscrowStep DEF AdminSettleEscrow
  <2>6. ASSUME NEW i \in EscrowId, ReadEscrow(i) PROVE CustodyStep
    <3>1. \A j \in EscrowId : Ruled(j)' <=> Ruled(j)
      BY <2>0 DEF Ruled
    <3> QED BY <1>1, <2>6, <3>1, QuietStep DEF ReadEscrow
  <2>7. ASSUME NEW f \in Account, NEW t \in Beneficiaries, NEW x \in Amounts, Transfer(f, t, x)
        PROVE  CustodyStep
    BY <2>0, <2>7, TransferStep
  <2>8. ASSUME Tick PROVE CustodyStep
    <3>1. \A j \in EscrowId : Ruled(j)' <=> Ruled(j)
      BY <2>0 DEF Ruled
    <3> QED BY <1>1, <2>8, <3>1, QuietStep DEF Tick
  <2> QED
    BY <1>2, <2>1, <2>2, <2>3, <2>4, <2>5, <2>6, <2>7, <2>8 DEF EscrowNext
<1>3. ASSUME NEW c \in Account, NEW i \in EscrowId, NEW r \in Resolvers, NEW e \in Ledger,
             OpenDispute(c, i, r, e)
      PROVE  CustodyStep
  BY <1>3, OpenDisputeStep
<1>4. ASSUME NEW r \in Account, NEW d \in DisputeId, NEW b \in BOOLEAN,
             DisputeExists(d), CloseDispute(d, b, ResolvedFor(b))
      PROVE  CustodyStep
  <2>1. PICK st : st = ResolvedFor(b)
    OBVIOUS
  <2>2. CloseDispute(d, b, st) /\ d \in 1 .. Len(disputes)
    BY <1>4, <2>1 DEF DisputeExists
  <2> QED BY <1>1, <2>2, CloseDisputeStep
<1>5. ASSUME NEW d \in DisputeId, ExpireDispute(d) PROVE CustodyStep
  <2>1. CloseDispute(d, FALSE, "Expired") /\ d \in 1 .. Len(disputes)
    BY <1>5 DEF ExpireDispute, DisputeExists
  <2> QED BY <1>1, <2>1, CloseDisputeStep
<1>6. ASSUME NEW c \in Account, NEW d \in DisputeId, NEW r \in Resolvers, AppealDispute(c, d, r)
      PROVE  CustodyStep
  BY <1>6, AppealStep
<1>7. ASSUME NEW c \in Account, NEW d \in DisputeId, NEW o \in BOOLEAN, ResolveAppeal(c, d, o)
      PROVE  CustodyStep
  BY <1>1, <1>7, ResolveAppealStep
<1> QED
  BY <1>2, <1>3, <1>4, <1>5, <1>6, <1>7
     DEF Next, DisputeNext, ResolveDispute, ResolveDisputeWithNote

-----------------------------------------------------------------------------
(***************************************************************************)
(* The pool stays covered.                                                 *)
(***************************************************************************)
LEMMA FiniteEscrowId == IsFiniteSet(EscrowId)
BY FS_Interval, EscrowAssumption DEF EscrowId

\* All that the escrows owe is a number, and at least all that is locked.
LEMMA SumsType ==
    ASSUME TypeOK
    PROVE  /\ SumFunctionOnSet(Vaults, EscrowId) \in Nat
           /\ SumFunctionOnSet(Backing, EscrowId) \in Nat
           /\ SumFunctionOnSet(Vaults, EscrowId) <= SumFunctionOnSet(Backing, EscrowId)
<1>1. IsFiniteSet(EscrowId)
  BY FiniteEscrowId
<1>2. \A i \in EscrowId : Vaults[i] \in Nat /\ Backing[i] \in Nat /\ Vaults[i] <= Backing[i]
  BY ClaimType
<1>3. /\ \A i \in EscrowId : Vaults[i] \in Int /\ Backing[i] \in Int /\ Vaults[i] <= Backing[i]
      /\ \A i \in EscrowId : Vaults[i] >= 0 /\ Backing[i] >= 0
  BY <1>2
<1>4. SumFunctionOnSet(Vaults, EscrowId) <= SumFunctionOnSet(Backing, EscrowId)
  BY <1>1, <1>3, SumMonotone
<1>5. SumFunctionOnSet(Vaults, EscrowId) \in Int /\ SumFunctionOnSet(Vaults, EscrowId) >= 0
  BY <1>1, <1>3, SumType
<1>6. SumFunctionOnSet(Backing, EscrowId) \in Int /\ SumFunctionOnSet(Backing, EscrowId) >= 0
  BY <1>1, <1>3, SumType
<1> QED
  BY <1>4, <1>5, <1>6

\* Replacing one term of a sum over the escrows.
LEMMA EscrowSum ==
    ASSUME NEW f \in [EscrowId -> Nat], NEW i \in EscrowId, NEW v \in Nat
    PROVE  SumFunctionOnSet([f EXCEPT ![i] = v], EscrowId) = SumFunctionOnSet(f, EscrowId) - f[i] + v
<1> DEFINE g == [f EXCEPT ![i] = v]
<1>1. /\ IsFiniteSet(EscrowId)
      /\ \A j \in EscrowId : f[j] \in Int
      /\ g[i] \in Int /\ g[i] = v /\ \A j \in EscrowId \ {i} : g[j] = f[j]
  BY FiniteEscrowId
<1> HIDE DEF g
<1>2. SumFunctionOnSet(g, EscrowId) = SumFunctionOnSet(f, EscrowId) - f[i] + g[i]
  BY <1>1, SumUpdate
<1> QED
  BY <1>1, <1>2 DEF g

\* A custody step keeps the pool covered.
LEMMA PoolKept ==
    ASSUME TypeOK, TypeOK', PoolCovered, CustodyStep
    PROVE  PoolCovered'
<1> DEFINE S == SumFunctionOnSet(Backing, EscrowId)
<1>1. S \in Nat /\ S <= ledger.balance[Contract]
  BY SumsType DEF PoolCovered
<1>2. ledger.balance[Contract] \in Nat /\ ledger'.balance[Contract] \in Nat
  BY DEF TypeOK, LedgerType, Address
<1>3. CASE Elsewhere
  BY <1>1, <1>2, <1>3 DEF Elsewhere, PoolCovered
<1>4. ASSUME NEW i \in EscrowId, ClaimsKept(i) PROVE PoolCovered'
  <2>1. Backing \in [EscrowId -> Nat] /\ Claim(i) \in Nat /\ Backing[i] = Claim(i)
    <3>1. Backing \in [EscrowId -> Nat] /\ Backing[i] = Claim(i)
      BY ClaimType DEF Backing, Claim
    <3> QED BY <3>1
  <2>2. Claim(i)' \in Nat
    <3>1. \A j \in 1 .. Len(escrows') : escrows'[j] \in EscrowRecord
      BY RecordAt DEF TypeOK
    <3> QED BY <3>1 DEF Claim, Active, Returnable, Exists, EscrowRecord
  <2>3. PICK v \in Nat : v = Claim(i)'
    BY <2>2
  <2>4. Backing' = [Backing EXCEPT ![i] = v]
        /\ v - Claim(i) <= ledger'.balance[Contract] - ledger.balance[Contract]
    BY <1>4, <2>3 DEF ClaimsKept
  <2>5. SumFunctionOnSet(Backing', EscrowId) = S - Claim(i) + v
    BY <2>1, <2>4, EscrowSum
  <2> HIDE DEF S
  <2>6. SumFunctionOnSet(Backing', EscrowId) <= ledger'.balance[Contract]
    BY <1>1, <1>2, <2>1, <2>4, <2>5
  <2> QED BY <2>6 DEF PoolCovered
<1> QED
  BY <1>3, <1>4 DEF CustodyStep, PaidIn, PaidOut, Reversed

\* Nothing is owed initially.
LEMMA InitCovered ==
    ASSUME Init
    PROVE  /\ Vaults = [i \in EscrowId |-> 0] /\ Closed = {}
           /\ PoolCovered
<1>1. escrows = <<>>
  BY DEF Init, EscrowInit
<1>2. 1 .. Len(escrows) = {}
  BY <1>1
<1>3. /\ Vaults = [i \in EscrowId |-> 0] /\ Closed = {}
      /\ Backing = [i \in EscrowId |-> 0]
  BY <1>2 DEF Vaults, Closed, Backing, Claim, Active, Returnable, Exists, Settled
<1>4. SumFunctionOnSet(Backing, EscrowId) = 0
  BY <1>3, FiniteEscrowId, SumZero
<1>5. ledger.balance[Contract] \in Nat
  BY InitType DEF TypeOK, LedgerType, Address
<1> QED
  BY <1>3, <1>4, <1>5 DEF PoolCovered

LEMMA CustodyInvariance == Spec => []CustodyInv
<1>1. Init => CustodyInv
  BY InitInv, InitCovered DEF CustodyInv
<1>2. CustodyInv /\ [Next]_vars => CustodyInv'
  <2>1. ASSUME CustodyInv, Next PROVE CustodyInv'
    <3>1. IInv /\ IInv' /\ CustodyStep /\ PoolCovered
      BY <2>1, NextKeepsInv, NextStep DEF CustodyInv
    <3> QED BY <3>1, PoolKept DEF CustodyInv, IInv
  <2>2. ASSUME CustodyInv, UNCHANGED vars PROVE CustodyInv'
    <3>1. IInv'
      BY <2>2, StutterKeepsInv DEF CustodyInv
    <3>2. PoolCovered'
      BY <2>2 DEF CustodyInv, PoolCovered, vars, Backing, Claim, Active, Settled, Exists,
                  Returnable, Ruled
    <3> QED BY <3>1, <3>2 DEF CustodyInv
  <2> QED BY <2>1, <2>2
<1> QED
  BY <1>1, <1>2, PTL DEF Spec

-----------------------------------------------------------------------------
(***************************************************************************)
(* The refinement.                                                         *)
(***************************************************************************)

\* total_value_locked, a sum over the active escrows, is the sum over all
\* vaults.
LEMMA LockedIsTotal ==
    ASSUME TypeOK
    PROVE  EscrowStats.total_value_locked = SumFunctionOnSet(Vaults, EscrowId)
<1> DEFINE A == ActiveEscrows
           R == EscrowId \ A
           amounts == [i \in A |-> escrows[i].amount]
<1>1. /\ A \subseteq EscrowId /\ \A i \in A : Vaults[i] = amounts[i]
      /\ \A i \in R : Vaults[i] = 0
  <2>1. 1 .. Len(escrows) \subseteq EscrowId
    BY ClaimType
  <2> QED BY <2>1 DEF ActiveEscrows, Vaults, Active, Exists
<1>2. IsFiniteSet(A) /\ IsFiniteSet(R) /\ A \cap R = {} /\ A \cup R = EscrowId
  BY <1>1, FiniteEscrowId, FS_Subset
<1>3. \A i \in EscrowId : Vaults[i] \in Int
  BY ClaimType
<1>4. EscrowStats.total_value_locked = SumFunctionOnSet(amounts, A)
  BY DEF EscrowStats, ValueOf
<1> HIDE DEF A, R, amounts
<1>5. SumFunctionOnSet(amounts, A) = SumFunctionOnSet(Vaults, A)
  BY <1>1, <1>2, SumSame
<1>6. SumFunctionOnSet(Vaults, R) = 0
  <2>1. SumFunctionOnSet(Vaults, R) = SumFunctionOnSet([i \in R |-> 0], R)
    BY <1>1, <1>2, SumSame
  <2> QED BY <1>2, <2>1, SumZero
<1>7. SumFunctionOnSet(Vaults, A \cup R)
        = SumFunctionOnSet(Vaults, A) + SumFunctionOnSet(Vaults, R)
  <2>1. \A i \in A \cup R : Vaults[i] \in Int
    BY <1>2, <1>3
  <2> QED BY <1>2, <2>1, SumUnion
<1>8. SumFunctionOnSet(Vaults, A) \in Int
  <2>1. \A i \in A : Vaults[i] \in Int
    BY <1>1, <1>3
  <2> QED BY <1>2, <2>1, SumType
<1>9. SumFunctionOnSet(Vaults, EscrowId)
        = SumFunctionOnSet(Vaults, A) + SumFunctionOnSet(Vaults, R)
  BY <1>2, <1>7
<1> QED
  BY <1>4, <1>5, <1>6, <1>8, <1>9

\* The wallets hold the balances but for what is locked.
WalletsExact ==
    /\ Wallets \in [Address -> Nat]
    /\ Wallets[Contract] = ledger.balance[Contract] - SumFunctionOnSet(Vaults, EscrowId)
    /\ \A a \in Address \ {Contract} : Wallets[a] = ledger.balance[a]
    /\ SumFunctionOnSet(Wallets, Address) = Held(ledger) - SumFunctionOnSet(Vaults, EscrowId)

LEMMA WalletsLemma == TypeOK /\ PoolCovered => WalletsExact
<1> SUFFICES ASSUME TypeOK, PoolCovered PROVE WalletsExact
  OBVIOUS
<1>1. /\ ledger \in LedgerType /\ ledger.balance \in [Address -> Nat] /\ Contract \in Address
  BY DEF TypeOK, LedgerType, Address
<1>2. Wallets = [a \in Address |->
                    IF a = Contract THEN ledger.balance[a] - SumFunctionOnSet(Vaults, EscrowId)
                    ELSE ledger.balance[a]]
  BY LockedIsTotal DEF Wallets
<1>3. /\ SumFunctionOnSet(Vaults, EscrowId) \in Nat
      /\ SumFunctionOnSet(Vaults, EscrowId) <= ledger.balance[Contract]
  <2>1. /\ SumFunctionOnSet(Vaults, EscrowId) \in Nat
        /\ SumFunctionOnSet(Backing, EscrowId) \in Nat
        /\ SumFunctionOnSet(Vaults, EscrowId) <= SumFunctionOnSet(Backing, EscrowId)
    BY SumsType
  <2> QED BY <1>1, <2>1 DEF PoolCovered
<1>4. /\ Wallets \in [Address -> Nat]
      /\ Wallets[Contract] = ledger.balance[Contract] - SumFunctionOnSet(Vaults, EscrowId)
      /\ \A a \in Address \ {Contract} : Wallets[a] = ledger.balance[a]
  BY <1>1, <1>2, <1>3
<1>5. SumFunctionOnSet(Wallets, Address)
        = SumFunctionOnSet(ledger.balance, Address) - ledger.balance[Contract] + Wallets[Contract]
  <2>1. /\ \A a \in Address : ledger.balance[a] \in Int
        /\ Wallets[Contract] \in Int
    BY <1>1, <1>4
  <2>2. IsFiniteSet(Address)
    BY FiniteAddress
  <2> QED BY <1>1, <1>4, <2>1, <2>2, SumUpdate
<1>6. Held(ledger) \in Nat /\ Held(ledger) = SumFunctionOnSet(ledger.balance, Address)
  BY <1>1, HeldType DEF Held
<1> QED
  BY <1>1, <1>3, <1>4, <1>5, <1>6 DEF WalletsExact

\* The same in the next state.
LEMMA WalletsLemmaNext == TypeOK' /\ PoolCovered' => WalletsExact'
BY WalletsLemma, PTL

\* What happens to the wallets when money is moved while the vaults gain v.
LEMMA WalletsMoved ==
    ASSUME TypeOK, TypeOK', PoolCovered, PoolCovered', NEW f, NEW t, NEW x, Moved(f, t, x),
           NEW v \in Int, SumFunctionOnSet(Vaults', EscrowId) = SumFunctionOnSet(Vaults, EscrowId) + v
    PROVE  /\ f \in Address /\ t \in Address /\ x \in Nat
           /\ \A a \in Address :
                 Wallets'[a] = Wallets[a] - (IF a = f THEN x ELSE 0) + (IF a = t THEN x ELSE 0)
                                          - (IF a = Contract THEN v ELSE 0)
           /\ SumFunctionOnSet(Wallets', Address) = SumFunctionOnSet(Wallets, Address) - v
<1> DEFINE L == SumFunctionOnSet(Vaults, EscrowId)
           M == SumFunctionOnSet(Vaults', EscrowId)
<1>0. /\ f \in Address /\ t \in Address /\ x \in Nat
      /\ ledger'.balance = [[ledger.balance EXCEPT ![f] = @ - x] EXCEPT ![t] = @ + x]
  BY DEF Moved
<1>1. /\ ledger \in LedgerType /\ ledger.balance \in [Address -> Nat] /\ Contract \in Address
  BY DEF TypeOK, LedgerType, Address
<1>2. L \in Nat /\ M = L + v
  BY SumsType
<1> HIDE DEF L, M
<1>3. /\ Wallets \in [Address -> Nat]
      /\ Wallets[Contract] = ledger.balance[Contract] - L
      /\ \A a \in Address \ {Contract} : Wallets[a] = ledger.balance[a]
      /\ SumFunctionOnSet(Wallets, Address) = Held(ledger) - L
  BY WalletsLemma DEF L, WalletsExact
<1>4. /\ Wallets' \in [Address -> Nat]
      /\ Wallets'[Contract] = ledger'.balance[Contract] - M
      /\ \A a \in Address \ {Contract} : Wallets'[a] = ledger'.balance[a]
      /\ SumFunctionOnSet(Wallets', Address) = Held(ledger') - M
  BY WalletsLemmaNext DEF M, WalletsExact, Held
<1>5. Held(ledger') = Held(ledger) /\ Held(ledger) \in Nat
  BY <1>0, <1>1, HeldMove, HeldType
<1>6. ASSUME NEW a \in Address
      PROVE  ledger'.balance[a] = ledger.balance[a] - (IF a = f THEN x ELSE 0)
                                                    + (IF a = t THEN x ELSE 0)
  BY <1>0, <1>1
<1>7. \A a \in Address :
         Wallets'[a] = Wallets[a] - (IF a = f THEN x ELSE 0) + (IF a = t THEN x ELSE 0)
                                  - (IF a = Contract THEN v ELSE 0)
  <2> SUFFICES ASSUME NEW a \in Address
               PROVE  Wallets'[a] = Wallets[a] - (IF a = f THEN x ELSE 0) + (IF a = t THEN x ELSE 0)
                                               - (IF a = Contract THEN v ELSE 0)
    OBVIOUS
  <2>1. ledger.balance[a] \in Nat
    BY <1>1
  <2>2. CASE a = Contract
    <3>1. /\ Wallets'[a] = ledger'.balance[a] - (L + v) /\ Wallets[a] = ledger.balance[a] - L
          /\ ledger'.balance[a] = ledger.balance[a] - (IF a = f THEN x ELSE 0)
                                                   + (IF a = t THEN x ELSE 0)
      BY <1>2, <1>3, <1>4, <1>6, <2>2
    <3> QED BY <1>0, <1>2, <2>1, <2>2, <3>1
  <2>3. CASE a # Contract
    BY <1>0, <1>2, <1>3, <1>4, <1>6, <2>1, <2>3
  <2> QED BY <2>2, <2>3
<1>8. SumFunctionOnSet(Wallets', Address) = SumFunctionOnSet(Wallets, Address) - v
  BY <1>2, <1>3, <1>4, <1>5
<1> QED
  BY <1>0, <1>7, <1>8

\* The sums of module Custody are the same sums.
LEMMA PooledSum ==
    \A f, S : Pooled!SumFunctionOnSet(f, S) = SumFunctionOnSet(f, S)
BY DEF Pooled!SumFunctionOnSet, Pooled!FoldFunctionOnSet, Pooled!MapThenFoldSet,
       SumFunctionOnSet, FoldFunctionOnSet, MapThenFoldSet

\* Money that moves outside the vaults is a transfer between two wallets, or
\* nothing if payer and payee are the same.
LEMMA TransferImplemented ==
    ASSUME TypeOK, TypeOK', PoolCovered, PoolCovered', NEW f, NEW t, NEW x, Moved(f, t, x),
           Vaults' = Vaults, Closed' = Closed
    PROVE  (\E a, b \in Address : Pooled!Transfer(a, b)) \/ UNCHANGED <<Wallets, Vaults, Closed>>
<1>1. /\ Wallets \in [Address -> Nat] /\ Wallets' \in [Address -> Nat]
  BY WalletsLemma, WalletsLemmaNext DEF WalletsExact
<1>2. SumFunctionOnSet(Vaults', EscrowId) = SumFunctionOnSet(Vaults, EscrowId) + 0
  BY SumsType
<1>3. /\ f \in Address /\ t \in Address /\ x \in Nat
      /\ \A a \in Address :
            Wallets'[a] = Wallets[a] - (IF a = f THEN x ELSE 0) + (IF a = t THEN x ELSE 0)
                                     - (IF a = Contract THEN 0 ELSE 0)
  BY <1>2, WalletsMoved
<1>4. CASE f = t \/ x = 0
  <2>1. \A a \in Address : Wallets'[a] = Wallets[a]
    BY <1>1, <1>3, <1>4
  <2>2. Wallets' = Wallets
    BY <1>1, <2>1
  <2> QED BY <2>2
<1>5. CASE f # t /\ x # 0
  <2>1. /\ Wallets'[f] = Wallets[f] - x /\ Wallets'[t] = Wallets[t] + x
        /\ \A a \in Address \ {f, t} : Wallets'[a] = Wallets[a]
    BY <1>1, <1>3, <1>5
  <2>2. Wallets'[f] \in 0 .. Wallets[f] - 1
    BY <1>1, <1>3, <1>5, <2>1
  <2>3. Wallets' = [Wallets EXCEPT ![f] = Wallets'[f], ![t] = @ + (Wallets[f] - Wallets'[f])]
    BY <1>1, <1>3, <1>5, <2>1
  <2>4. Pooled!Transfer(f, t)
    BY <1>5, <2>2, <2>3 DEF Pooled!Transfer
  <2> QED BY <1>3, <2>4
<1> QED
  BY <1>4, <1>5

\* Money paid into a vault comes from the wallet of the payer alone: what the
\* balance of the contract gains is locked.
LEMMA DepositImplemented ==
    ASSUME TypeOK, TypeOK', PoolCovered, PoolCovered', NEW i \in EscrowId, PaidIn(i)
    PROVE  \E a \in Address : Pooled!Deposit(a)
<1>1. /\ Wallets \in [Address -> Nat] /\ Wallets' \in [Address -> Nat]
  BY WalletsLemma, WalletsLemmaNext DEF WalletsExact
<1>2. PICK f \in Account, x \in Nat :
          Moved(f, Contract, x) /\ Vaults' = [Vaults EXCEPT ![i] = @ + x]
  BY DEF PaidIn
<1>3. Vaults \in [EscrowId -> Nat] /\ SumFunctionOnSet(Vaults, EscrowId) \in Nat
  BY ClaimType, SumsType
<1>4. SumFunctionOnSet(Vaults', EscrowId) = SumFunctionOnSet(Vaults, EscrowId) + x
  <2>1. SumFunctionOnSet([Vaults EXCEPT ![i] = Vaults[i] + x], EscrowId)
          = SumFunctionOnSet(Vaults, EscrowId) - Vaults[i] + (Vaults[i] + x)
    <3>1. Vaults[i] + x \in Nat
      BY <1>3
    <3> QED BY <1>3, <3>1, EscrowSum
  <2> QED BY <1>2, <1>3, <2>1
<1>5. /\ f # Contract /\ f \in Address /\ Contract \in Address
      /\ \A a \in Address :
            Wallets'[a] = Wallets[a] - (IF a = f THEN x ELSE 0) + (IF a = Contract THEN x ELSE 0)
                                     - (IF a = Contract THEN x ELSE 0)
  <2>1. /\ f # Contract /\ f \in Address /\ Contract \in Address /\ x \in Int
    BY ContractAssumption DEF Address
  <2>2. PICK v \in Int : v = x
    BY <2>1
  <2>3. /\ Moved(f, Contract, x)
        /\ SumFunctionOnSet(Vaults', EscrowId) = SumFunctionOnSet(Vaults, EscrowId) + v
    BY <1>2, <1>4, <2>2
  <2>4. \A a \in Address :
            Wallets'[a] = Wallets[a] - (IF a = f THEN x ELSE 0) + (IF a = Contract THEN x ELSE 0)
                                     - (IF a = Contract THEN v ELSE 0)
    BY <2>3, WalletsMoved
  <2> QED BY <2>1, <2>2, <2>4
<1>6. /\ Wallets'[f] = Wallets[f] - x
      /\ \A a \in Address \ {f} : Wallets'[a] = Wallets[a]
  BY <1>1, <1>5
<1>7. Wallets' = [Wallets EXCEPT ![f] = @ - x]
  BY <1>1, <1>5, <1>6
<1>8. Pooled!Total(Vaults') - Pooled!Total(Vaults) = x
  BY <1>3, <1>4, PooledSum DEF Pooled!Total
<1>9. /\ Vaults' \in [EscrowId -> Nat]
      /\ \A d \in EscrowId : Vaults'[d] >= Vaults[d] /\ (d \in Closed => Vaults'[d] = Vaults[d])
      /\ Closed' = Closed
  BY <1>2, <1>3 DEF PaidIn
<1>10. Wallets' = [Wallets EXCEPT ![f] = @ - (Pooled!Total(Vaults') - Pooled!Total(Vaults))]
       /\ Wallets'[f] \in Nat
  BY <1>1, <1>5, <1>7, <1>8
<1> QED
  BY <1>5, <1>9, <1>10 DEF Pooled!Deposit

\* A vault is emptied into wallets, to the last unit.
LEMMA PayOutImplemented ==
    ASSUME TypeOK, TypeOK', PoolCovered, PoolCovered', NEW i \in EscrowId, PaidOut(i)
    PROVE  Pooled!PayOut(Closed' \ Closed)
<1>1. /\ Wallets \in [Address -> Nat] /\ Wallets' \in [Address -> Nat]
  BY WalletsLemma, WalletsLemmaNext DEF WalletsExact
<1>2. PICK t \in Address : Moved(Contract, t, Vaults[i])
  BY DEF PaidOut
<1>3. /\ Vaults \in [EscrowId -> Nat] /\ SumFunctionOnSet(Vaults, EscrowId) \in Nat
      /\ Vaults' = [Vaults EXCEPT ![i] = 0]
      /\ Vaults[i] \in Nat /\ -Vaults[i] \in Int
  BY ClaimType, SumsType DEF PaidOut
<1>4. SumFunctionOnSet(Vaults', EscrowId) = SumFunctionOnSet(Vaults, EscrowId) + (-Vaults[i])
  <2>1. SumFunctionOnSet([Vaults EXCEPT ![i] = 0], EscrowId)
          = SumFunctionOnSet(Vaults, EscrowId) - Vaults[i] + 0
    BY <1>3, EscrowSum
  <2> QED BY <1>3, <2>1
<1>5. /\ \A a \in Address :
            Wallets'[a] = Wallets[a] - (IF a = Contract THEN Vaults[i] ELSE 0)
                                     + (IF a = t THEN Vaults[i] ELSE 0)
                                     - (IF a = Contract THEN -Vaults[i] ELSE 0)
      /\ SumFunctionOnSet(Wallets', Address) = SumFunctionOnSet(Wallets, Address) - (-Vaults[i])
  <2> DEFINE x == Vaults[i]
             v == -Vaults[i]
  <2>1. /\ v \in Int /\ Moved(Contract, t, x)
        /\ SumFunctionOnSet(Vaults', EscrowId) = SumFunctionOnSet(Vaults, EscrowId) + v
    BY <1>2, <1>3, <1>4
  <2> HIDE DEF x, v
  <2>2. /\ \A a \in Address :
              Wallets'[a] = Wallets[a] - (IF a = Contract THEN x ELSE 0) + (IF a = t THEN x ELSE 0)
                                       - (IF a = Contract THEN v ELSE 0)
        /\ SumFunctionOnSet(Wallets', Address) = SumFunctionOnSet(Wallets, Address) - v
    BY <2>1, WalletsMoved
  <2> QED BY <2>2 DEF x, v
<1>6. \A a \in Address : Wallets'[a] >= Wallets[a]
  BY <1>1, <1>3, <1>5
<1>7. Closed' \ Closed = {i} /\ {i} \cap Closed = {} /\ Closed' = Closed \cup {i}
  BY DEF PaidOut
<1>8. Pooled!SumFunctionOnSet(Wallets', Address) - Pooled!SumFunctionOnSet(Wallets, Address)
        = Pooled!SumFunctionOnSet(Vaults, {i})
  <2>1. SumFunctionOnSet(Wallets, Address) \in Int
    <3>1. IsFiniteSet(Address) /\ \A a \in Address : Wallets[a] \in Int
      BY <1>1, FiniteAddress
    <3> QED BY <3>1, SumType
  <2>2. SumFunctionOnSet(Vaults, {i}) = Vaults[i]
    <3>1. SumFunctionOnSet(Vaults, {i}) = Vaults[i] + SumFunctionOnSet(Vaults, {i} \ {i})
      <4>1. IsFiniteSet({i})
        BY FS_Singleton
      <4>2. i \in {i} /\ \A j \in {i} : Vaults[j] \in Int
        BY <1>3
      <4> QED BY <4>1, <4>2, SumRemove
    <3>2. {i} \ {i} = {}
      OBVIOUS
    <3> QED BY <1>3, <3>1, <3>2, SumEmpty
  <2> QED BY <1>3, <1>5, <2>1, <2>2, PooledSum
<1>9. Vaults' = [d \in EscrowId |-> IF d \in {i} THEN 0 ELSE Vaults[d]]
  BY <1>3
<1>10. Pooled!PayOut({i})
  BY <1>1, <1>6, <1>7, <1>8, <1>9 DEF Pooled!PayOut
<1> QED
  BY <1>7, <1>10

\* The vaults the contract shows are vaults: every step is one of Custody, or
\* changes nothing that Custody speaks of.
THEOREM CustodyCorrect == Spec => ImplementsCustody
<1>1. Init => Pooled!Init
  <2> SUFFICES ASSUME Init PROVE Pooled!Init
    OBVIOUS
  <2>1. TypeOK /\ PoolCovered
    BY InitType, InitCovered
  <2>2. Wallets \in [Address -> Nat]
    BY <2>1, WalletsLemma DEF WalletsExact
  <2> QED BY <2>2, InitCovered DEF Pooled!Init
<1>2. CustodyInv /\ CustodyInv' /\ [Next]_vars => [Pooled!Next]_(Pooled!custodyVars)
  <2> SUFFICES ASSUME CustodyInv, CustodyInv', [Next]_vars
               PROVE  Pooled!Next \/ UNCHANGED <<Wallets, Vaults, Closed>>
    BY DEF Pooled!custodyVars
  <2>1. TypeOK /\ TypeOK' /\ PoolCovered /\ PoolCovered' /\ IInv
    BY DEF CustodyInv, IInv
  <2>2. CASE UNCHANGED vars
    BY <2>2 DEF vars, Wallets, Vaults, Closed, EscrowStats, ValueOf, ActiveEscrows, Active,
                Settled, Exists
  <2>3. CASE Next
    <3>1. CustodyStep
      BY <2>1, <2>3, NextStep
    <3>2. ASSUME NEW f \in Address, NEW t \in Address, NEW x \in Nat, Moved(f, t, x),
                 Vaults' = Vaults, Closed' = Closed
          PROVE  Pooled!Next \/ UNCHANGED <<Wallets, Vaults, Closed>>
      BY <2>1, <3>2, TransferImplemented DEF Pooled!Next
    <3>3. ASSUME NEW i \in EscrowId, PaidIn(i) PROVE Pooled!Next
      BY <2>1, <3>3, DepositImplemented DEF Pooled!Next
    <3>4. ASSUME NEW i \in EscrowId, PaidOut(i) PROVE Pooled!Next
      BY <2>1, <3>4, PayOutImplemented DEF Pooled!Next
    <3> QED BY <3>1, <3>2, <3>3, <3>4 DEF CustodyStep, Elsewhere, Reversed
  <2> QED BY <2>2, <2>3
<1> QED
  BY <1>1, <1>2, CustodyInvariance, PTL DEF Spec, ImplementsCustody, Pooled!Spec

\* The balance of the contract always covers the active escrows, and what an
\* appeal may still ask back from it.
THEOREM Solvent == Spec => []PoolCovered
BY CustodyInvariance, PTL DEF CustodyInv

-----------------------------------------------------------------------------
(***************************************************************************)
(* The index of a depositor.  The views walk it, so they need more than    *)
(* that it names the right escrows: each once, in the order of creation.   *)
(* A step other than create_escrow keeps the depositors and the index.     *)
(***************************************************************************)
DepositorIndexed(a) ==
    LET index == depositorEscrows[a]
    IN  /\ \A k \in 1 .. Len(index) :
              index[k] \in 1 .. Len(escrows) /\ escrows[index[k]].depositor = a
        /\ \A i \in 1 .. Len(escrows) :
              escrows[i].depositor = a => \E k \in 1 .. Len(index) : index[k] = i
        /\ \A j, k \in 1 .. Len(index) : j < k => index[j] < index[k]

IndexInv == \A a \in Account : DepositorIndexed(a)

DepositorsKept ==
    /\ Len(escrows') = Len(escrows)
    /\ \A j \in 1 .. Len(escrows) : escrows'[j].depositor = escrows[j].depositor
    /\ depositorEscrows' = depositorEscrows

\* A settlement sets a flag of one record.
LEMMA SettlementKeepsDepositors ==
    ASSUME TypeOK, NEW i \in EscrowId, GetEscrow(i), NEW to \in Address,
           SettleReleased(i, to) \/ SettleRefunded(i), depositorEscrows' = depositorEscrows
    PROVE  DepositorsKept
<1>1. i \in 1 .. Len(escrows) /\ escrows[i] \in EscrowRecord
  BY GetEscrowType
<1>2. CASE SettleReleased(i, to)
  <2>1. /\ Len(escrows') = Len(escrows)
        /\ \A j \in 1 .. Len(escrows) :
              escrows'[j] = IF j = i THEN [escrows[i] EXCEPT !.released = TRUE] ELSE escrows[j]
    BY <1>1, <1>2, SettleReleasedEffect
  <2> QED BY <1>1, <2>1 DEF DepositorsKept, EscrowRecord
<1>3. CASE SettleRefunded(i)
  <2>1. /\ Len(escrows') = Len(escrows)
        /\ \A j \in 1 .. Len(escrows) :
              escrows'[j] = IF j = i THEN [escrows[i] EXCEPT !.refunded = TRUE] ELSE escrows[j]
    BY <1>1, <1>3, SettleRefundedEffect
  <2> QED BY <1>1, <2>1 DEF DepositorsKept, EscrowRecord
<1> QED
  BY <1>2, <1>3

\* So does the settlement that closes a dispute.
LEMMA CloseKeepsDepositors ==
    ASSUME IInv, NEW d \in DisputeId, DisputeExists(d), NEW b \in BOOLEAN, NEW s,
           CloseDispute(d, b, s)
    PROVE  DepositorsKept
<1> DEFINE i == disputes[d].escrow_id
<1>1. /\ SettleEscrowByOutcome(i, b) /\ depositorEscrows' = depositorEscrows
      /\ GetEscrow(i)
  BY DEF CloseDispute, SettleEscrowByOutcome
<1>2. i \in EscrowId
  <2>1. disputes[d] \in DisputeRecord
    BY RecordAt DEF IInv, TypeOK, DisputeExists
  <2> QED BY <2>1 DEF DisputeRecord
<1> HIDE DEF i
<1>3. escrows[i].beneficiary \in Address
  BY <1>1, <1>2, GetEscrowType DEF IInv, EscrowRecord
<1> QED
  BY <1>1, <1>2, <1>3, SettlementKeepsDepositors DEF IInv, SettleEscrowByOutcome

\* An overturned appeal swaps the flags of one record.
LEMMA AppealKeepsDepositors ==
    ASSUME IInv, NEW c \in Account, NEW d \in DisputeId, NEW o \in BOOLEAN,
           ResolveAppeal(c, d, o)
    PROVE  DepositorsKept
<1> DEFINE i == disputes[d].escrow_id
<1>1. /\ d \in 1 .. Len(disputes) /\ disputes[d].status = "Appealed"
      /\ depositorEscrows' = depositorEscrows
      /\ IF o THEN Overturn(i) ELSE UNCHANGED escrows
  BY DEF ResolveAppeal, DisputeExists
<1>2. i \in 1 .. Len(escrows) /\ Settled(i)
  BY <1>1 DEF IInv, DisputeInv, OutcomeRecorded, Exists
<1>3. escrows[i] \in EscrowRecord
  BY <1>2, RecordAt DEF IInv, TypeOK
<1> HIDE DEF i
<1>4. CASE o = TRUE
  <2>1. /\ Len(escrows') = Len(escrows)
        /\ \A j \in 1 .. Len(escrows) :
              escrows'[j] = IF j = i THEN [escrows[i] EXCEPT !.released = ~@, !.refunded = ~@]
                            ELSE escrows[j]
    BY <1>1, <1>2, <1>4, OverturnEffect DEF IInv, DisputeInv
  <2> QED BY <1>1, <1>2, <1>3, <2>1 DEF DepositorsKept, EscrowRecord
<1>5. CASE o = FALSE
  BY <1>1, <1>5 DEF DepositorsKept
<1> QED
  BY <1>4, <1>5

\* A step that keeps depositors and index keeps the index right.
LEMMA KeptIndex ==
    ASSUME IndexInv, DepositorsKept
    PROVE  IndexInv'
BY DEF IndexInv, DepositorIndexed, DepositorsKept

\* create_escrow appends the largest id to the index of the depositor.
LEMMA CreateKeepsIndex ==
    ASSUME TypeOK, IndexInv,
           NEW d \in Account, NEW b \in Beneficiaries, NEW x \in Amounts, NEW e \in Ledger,
           CreateEscrow(d, b, x, e)
    PROVE  IndexInv'
<1> DEFINE n == Len(escrows) + 1
           r == [depositor |-> d, beneficiary |-> b, amount |-> x, released |-> FALSE,
                 refunded |-> FALSE, expiry_ledger |-> e]
<1>1. r \in EscrowRecord /\ r.depositor = d
  BY EscrowAssumption DEF EscrowRecord, Address
<1>2. /\ escrows' = Append(escrows, r)
      /\ depositorEscrows' = [depositorEscrows EXCEPT ![d] = Append(@, n)]
      /\ Len(escrows) < MaxEscrows
  BY DEF CreateEscrow
<1> HIDE DEF r
<1>3. /\ Len(escrows') = n /\ Len(escrows) \in Nat
      /\ \A j \in 1 .. Len(escrows) : escrows'[j] = escrows[j]
      /\ escrows'[n].depositor = d
  BY <1>1, <1>2, RecordAppend DEF TypeOK
<1>4. n \in EscrowId
  BY <1>2, <1>3, EscrowAssumption DEF EscrowId
<1> HIDE DEF n
<1>5. /\ 1 .. Len(escrows') = 1 .. Len(escrows) \cup {n}
      /\ \A j \in 1 .. Len(escrows) : j < n
  BY <1>3 DEF n
<1>6. ASSUME NEW a \in Account, a # d PROVE DepositorIndexed(a)'
  <2>1. depositorEscrows'[a] = depositorEscrows[a]
    BY <1>2, <1>6 DEF TypeOK, Address
  <2> DEFINE index == depositorEscrows[a]
  <2>2. /\ \A k \in 1 .. Len(index) :
              index[k] \in 1 .. Len(escrows) /\ escrows[index[k]].depositor = a
        /\ \A i \in 1 .. Len(escrows) :
              escrows[i].depositor = a => \E k \in 1 .. Len(index) : index[k] = i
        /\ \A j, k \in 1 .. Len(index) : j < k => index[j] < index[k]
    BY DEF IndexInv, DepositorIndexed
  <2> HIDE DEF index
  <2>3. \A k \in 1 .. Len(index) :
              index[k] \in 1 .. Len(escrows') /\ escrows'[index[k]].depositor = a
    BY <1>3, <1>5, <2>2
  <2>4. \A i \in 1 .. Len(escrows') :
              escrows'[i].depositor = a => \E k \in 1 .. Len(index) : index[k] = i
    BY <1>3, <1>5, <1>6, <2>2
  <2>5. depositorEscrows'[a] = index
    BY <2>1 DEF index
  <2> QED BY <2>2, <2>3, <2>4, <2>5 DEF DepositorIndexed
<1>7. DepositorIndexed(d)'
  <2> DEFINE old == depositorEscrows[d]
             new == depositorEscrows'[d]
  <2>1. old \in Seq(EscrowId) /\ new = Append(old, n)
    BY <1>2 DEF TypeOK, Address
  <2>2. /\ Len(new) = Len(old) + 1 /\ Len(old) \in Nat
        /\ \A k \in 1 .. Len(old) : new[k] = old[k]
        /\ new[Len(old) + 1] = n
    <3> HIDE DEF old, new
    <3> QED BY <1>4, <2>1, RecordAppend
  <2>3. 1 .. Len(new) = 1 .. Len(old) \cup {Len(old) + 1}
    BY <2>2
  <2>4. /\ \A k \in 1 .. Len(old) : old[k] \in 1 .. Len(escrows) /\ escrows[old[k]].depositor = d
        /\ \A i \in 1 .. Len(escrows) :
              escrows[i].depositor = d => \E k \in 1 .. Len(old) : old[k] = i
        /\ \A j, k \in 1 .. Len(old) : j < k => old[j] < old[k]
    BY DEF IndexInv, DepositorIndexed
  <2> HIDE DEF old, new
  <2>5. \A k \in 1 .. Len(new) : new[k] \in 1 .. Len(escrows') /\ escrows'[new[k]].depositor = d
    BY <1>3, <1>5, <2>2, <2>3, <2>4
  <2>6. ASSUME NEW i \in 1 .. Len(escrows'), escrows'[i].depositor = d
        PROVE  \E k \in 1 .. Len(new) : new[k] = i
    <3>1. CASE i = n
      BY <2>2, <2>3, <3>1
    <3>2. CASE i \in 1 .. Len(escrows)
      BY <1>3, <2>2, <2>3, <2>4, <2>6, <3>2
    <3> QED BY <1>5, <3>1, <3>2
  <2>7. ASSUME NEW j \in 1 .. Len(new), NEW k \in 1 .. Len(new), j < k PROVE new[j] < new[k]
    <3>1. j \in 1 .. Len(old)
      BY <2>2, <2>7
    <3> QED BY <1>5, <2>2, <2>3, <2>4, <2>7, <3>1
  <2> QED BY <2>5, <2>6, <2>7 DEF DepositorIndexed, old, new
<1> QED
  BY <1>6, <1>7 DEF IndexInv

\* Every step keeps the index right.
LEMMA NextKeepsIndex ==
    ASSUME IInv, IndexInv, Next
    PROVE  IndexInv'
<1>0. TypeOK
  BY DEF IInv
<1>1. ASSUME NEW d \in Account, NEW b \in Beneficiaries, NEW x \in Amounts, NEW e \in Ledger,
             CreateEscrow(d, b, x, e)
      PROVE  IndexInv'
  BY <1>0, <1>1, CreateKeepsIndex
<1>2. ASSUME NEW i \in EscrowId, NEW to \in Address, GetEscrow(i),
             SettleReleased(i, to) \/ SettleRefunded(i), depositorEscrows' = depositorEscrows
      PROVE  IndexInv'
  <2>1. DepositorsKept
    BY <1>0, <1>2, SettlementKeepsDepositors
  <2> QED BY <2>1, KeptIndex
<1>3. ASSUME NEW c \in Account, NEW i \in EscrowId, ReleaseEscrow(c, i) \/ RefundEscrow(c, i)
      PROVE  IndexInv'
  <2>1. /\ GetEscrow(i) /\ depositorEscrows' = depositorEscrows
        /\ SettleReleased(i, escrows[i].beneficiary) \/ SettleRefunded(i)
    BY <1>3 DEF ReleaseEscrow, RefundEscrow
  <2>2. escrows[i].beneficiary \in Address
    BY <1>0, <2>1, GetEscrowType DEF EscrowRecord
  <2> QED BY <1>2, <2>1, <2>2
<1>4. ASSUME NEW d \in Account, NEW i \in EscrowId, NEW x \in Amounts, TopupEscrow(d, i, x)
      PROVE  IndexInv'
  <2> DEFINE r == [escrows[i] EXCEPT !.amount = @ + x]
  <2>1. i \in 1 .. Len(escrows) /\ escrows[i] \in EscrowRecord
    BY <1>0, <1>4, GetEscrowType DEF TopupEscrow
  <2>2. r \in EscrowRecord /\ r.depositor = escrows[i].depositor
    BY <2>1, EscrowAssumption DEF EscrowRecord
  <2>3. escrows' = [escrows EXCEPT ![i] = r] /\ depositorEscrows' = depositorEscrows
    BY <1>4 DEF TopupEscrow
  <2> HIDE DEF r
  <2>4. /\ Len(escrows') = Len(escrows)
        /\ \A j \in 1 .. Len(escrows) : escrows'[j] = IF j = i THEN r ELSE escrows[j]
    BY <1>0, <2>1, <2>2, <2>3, RecordUpdate DEF TypeOK
  <2>5. DepositorsKept
    BY <2>2, <2>3, <2>4 DEF DepositorsKept
  <2> QED BY <2>5, KeptIndex
<1>5. ASSUME NEW a \in Account, NEW i \in EscrowId, NEW r \in Beneficiaries,
             AdminSettleEscrow(a, i, r)
      PROVE  IndexInv'
  BY <1>2, <1>5, EscrowAssumption DEF AdminSettleEscrow
<1>6. ASSUME escrows' = escrows, depositorEscrows' = depositorEscrows PROVE IndexInv'
  <2>1. DepositorsKept
    BY <1>6 DEF DepositorsKept
  <2> QED BY <2>1, KeptIndex
<1>7. ASSUME EscrowNext PROVE IndexInv'
  BY <1>1, <1>3, <1>4, <1>5, <1>6, <1>7 DEF EscrowNext, ReadEscrow, Transfer, Tick
<1>8. ASSUME NEW d \in DisputeId, NEW b \in BOOLEAN, NEW s, DisputeExists(d), CloseDispute(d, b, s)
      PROVE  IndexInv'
  <2>1. DepositorsKept
    BY <1>8, CloseKeepsDepositors
  <2> QED BY <2>1, KeptIndex
<1>9. ASSUME NEW c \in Account, NEW d \in DisputeId, NEW o \in BOOLEAN, ResolveAppeal(c, d, o)
      PROVE  IndexInv'
  <2>1. DepositorsKept
    BY <1>9, AppealKeepsDepositors
  <2> QED BY <2>1, KeptIndex
<1>10. ASSUME DisputeNext PROVE IndexInv'
  BY <1>6, <1>8, <1>9, <1>10
     DEF DisputeNext, OpenDispute, ResolveDispute, ResolveDisputeWithNote, ExpireDispute,
         AppealDispute, escrowVars
<1> QED
  BY <1>7, <1>10 DEF Next

\* The position in the index and the id determine each other, so a sum along
\* the index is the sum over the records.
LEMMA ValueAlongIndex ==
    ASSUME TypeOK, IndexInv, NEW a \in Account
    PROVE  EscrowedValueForDepositor(a)
              = ValueOf({i \in 1 .. Len(escrows) : escrows[i].depositor = a} \cap ActiveEscrows)
<1> DEFINE h == depositorEscrows[a]
           S == IndexedActive(a)
           T == {i \in 1 .. Len(escrows) : escrows[i].depositor = a} \cap ActiveEscrows
           f == [i \in T |-> escrows[i].amount]
           g == [k \in S |-> escrows[h[k]].amount]
<1>1. /\ \A k \in 1 .. Len(h) : h[k] \in 1 .. Len(escrows) /\ escrows[h[k]].depositor = a
      /\ \A i \in 1 .. Len(escrows) :
            escrows[i].depositor = a => \E k \in 1 .. Len(h) : h[k] = i
      /\ \A j, k \in 1 .. Len(h) : j < k => h[j] < h[k]
  BY DEF IndexInv, DepositorIndexed
<1>2. Len(h) \in Nat /\ S = {k \in 1 .. Len(h) : ~Settled(h[k])}
  BY LenProperties DEF TypeOK, Address, IndexedActive
<1>3. IsFiniteSet(S)
  <2>1. IsFiniteSet(1 .. Len(h)) /\ S \subseteq 1 .. Len(h)
    BY <1>2, FS_Interval
  <2> QED BY <2>1, FS_Subset
<1>4. T = {h[k] : k \in S}
  BY <1>1, <1>2 DEF ActiveEscrows
<1>5. ASSUME NEW i \in 1 .. Len(escrows) PROVE escrows[i].amount \in Int
  <2>1. escrows[i] \in EscrowRecord
    BY RecordAt DEF TypeOK
  <2> QED BY <2>1 DEF EscrowRecord
<1>6. \A k \in S : f[h[k]] = g[k] /\ g[k] \in Int
  BY <1>1, <1>2, <1>4, <1>5
<1>7. \A j, k \in S : h[j] = h[k] => j = k
  BY <1>1, <1>2
<1>8. /\ EscrowedValueForDepositor(a) = SumFunctionOnSet(g, S)
      /\ ValueOf(T) = SumFunctionOnSet(f, T)
  BY DEF EscrowedValueForDepositor, ValueOf
<1> HIDE DEF h, S, T, f, g
<1>9. SumFunctionOnSet(f, {h[k] : k \in S}) = SumFunctionOnSet(g, S)
  BY <1>3, <1>6, <1>7, SumImage
<1> QED
  BY <1>4, <1>8, <1>9 DEF T

\* Every non-empty set of positions has a first.
LEMMA FirstPosition ==
    ASSUME NEW n \in Nat, NEW S \in SUBSET (1 .. n), S # {}
    PROVE  Min(S) \in S /\ \A y \in S : Min(S) <= y
<1>1. \E x \in S : \A y \in S : x <= y
  <2> DEFINE D == {n - y : y \in S}
  <2>1. \A y \in S : n - y \in 0 .. n /\ n - y \in D
    OBVIOUS
  <2>2. \A d \in D : \E y \in S : d = n - y
    OBVIOUS
  <2> HIDE DEF D
  <2>3. D \subseteq 0 .. n /\ D # {}
    BY <2>1, <2>2
  <2>4. IsFiniteSet(D) /\ \A d \in D : d \in Int
    <3>1. IsFiniteSet(0 .. n)
      BY FS_Interval
    <3>2. IsFiniteSet(D)
      BY <2>3, <3>1, FS_Subset
    <3> QED BY <2>3, <3>2
  <2>5. PICK d \in D : \A e \in D : d >= e
    BY <2>4, <2>3, Largest
  <2>6. PICK x \in S : d = n - x
    BY <2>2
  <2>7. \A y \in S : n - x >= n - y
    BY <2>1, <2>5, <2>6
  <2> QED BY <2>7
<1> QED
  BY <1>1 DEF Min

\* The first hit along the index is the first escrow between the two.
LEMMA BetweenAlongIndex ==
    ASSUME TypeOK, IndexInv, NEW a \in Account, NEW b \in Address,
           NEW T, T = {i \in 1 .. Len(escrows) : escrows[i].depositor = a /\ ~Settled(i)
                                                   /\ escrows[i].beneficiary = b}
    PROVE  EscrowBetween(a, b) = IF T = {} THEN NoEscrow ELSE Min(T)
<1> DEFINE h == depositorEscrows[a]
           S == {k \in IndexedActive(a) : escrows[h[k]].beneficiary = b}
<1>1. /\ \A k \in 1 .. Len(h) : h[k] \in 1 .. Len(escrows) /\ escrows[h[k]].depositor = a
      /\ \A i \in 1 .. Len(escrows) :
            escrows[i].depositor = a => \E k \in 1 .. Len(h) : h[k] = i
      /\ \A j, k \in 1 .. Len(h) : j < k => h[j] < h[k]
  BY DEF IndexInv, DepositorIndexed
<1>2. /\ Len(h) \in Nat /\ Len(escrows) \in Nat
      /\ S = {k \in 1 .. Len(h) : ~Settled(h[k]) /\ escrows[h[k]].beneficiary = b}
  BY LenProperties DEF TypeOK, Address, IndexedActive
<1>3. EscrowBetween(a, b) = IF S = {} THEN NoEscrow ELSE h[Min(S)]
  BY DEF EscrowBetween
<1> HIDE DEF h, S
<1>4. T = {h[k] : k \in S}
  BY <1>1, <1>2
<1>5. CASE S = {}
  BY <1>3, <1>4, <1>5
<1>6. CASE S # {}
  <2>1. Min(S) \in S /\ \A y \in S : Min(S) <= y
    BY <1>2, <1>6, FirstPosition
  <2>2. PICK m \in S : m = Min(S)
    BY <2>1
  <2>3. T # {} /\ T \in SUBSET (1 .. Len(escrows))
    BY <1>4, <1>6
  <2>4. Min(T) \in T /\ \A y \in T : Min(T) <= y
    BY <1>2, <2>3, FirstPosition
  <2>5. \A k \in S : h[m] <= h[k]
    BY <1>1, <1>2, <2>1, <2>2
  <2>6. h[m] \in T /\ \A y \in T : h[m] <= y
    BY <1>4, <2>5
  <2>7. h[m] = Min(T)
    BY <2>3, <2>4, <2>6
  <2> QED BY <1>3, <1>6, <2>2, <2>3, <2>7
<1> QED
  BY <1>5, <1>6

\* What a depositor's views compute along the index is what a scan of all
\* records would give.
THEOREM DepositorIndexCorrect == Spec => []DepositorIndexExact
<1>1. Init => IndexInv
  <2> SUFFICES ASSUME Init PROVE IndexInv
    OBVIOUS
  <2>1. escrows = <<>> /\ depositorEscrows = [a \in Address |-> <<>>]
    BY DEF Init, EscrowInit
  <2>2. \A a \in Account : depositorEscrows[a] = <<>>
    BY <2>1 DEF Address
  <2>3. 1 .. Len(<<>>) = {}
    OBVIOUS
  <2> QED BY <2>1, <2>2, <2>3 DEF IndexInv, DepositorIndexed
<1>2. IInv /\ IndexInv /\ [Next]_vars => IndexInv'
  <2>1. IndexInv /\ UNCHANGED vars => IndexInv'
    BY DEF IndexInv, DepositorIndexed, vars
  <2> QED BY <2>1, NextKeepsIndex
<1>3. IInv /\ IndexInv => DepositorIndexExact
  <2> SUFFICES ASSUME IInv, IndexInv, NEW a \in Account
               PROVE  LET own == {i \in 1 .. Len(escrows) : escrows[i].depositor = a}
                          active(b) == {i \in own : ~Settled(i) /\ escrows[i].beneficiary = b}
                      IN  /\ EscrowedValueForDepositor(a) = ValueOf(own \cap ActiveEscrows)
                          /\ \A b \in Address : EscrowBetween(a, b)
                                = IF active(b) = {} THEN NoEscrow ELSE Min(active(b))
    BY DEF DepositorIndexExact
  <2> DEFINE own == {i \in 1 .. Len(escrows) : escrows[i].depositor = a}
             active(b) == {i \in own : ~Settled(i) /\ escrows[i].beneficiary = b}
  <2>1. EscrowedValueForDepositor(a) = ValueOf(own \cap ActiveEscrows)
    BY ValueAlongIndex DEF IInv
  <2>2. ASSUME NEW b \in Address
        PROVE  EscrowBetween(a, b) = IF active(b) = {} THEN NoEscrow ELSE Min(active(b))
    <3>1. active(b) = {i \in 1 .. Len(escrows) : escrows[i].depositor = a /\ ~Settled(i)
                                                   /\ escrows[i].beneficiary = b}
      OBVIOUS
    <3> HIDE DEF active
    <3> QED BY <3>1, BetweenAlongIndex DEF IInv
  <2> QED BY <2>1, <2>2
<1> QED
  BY Invariance, <1>1, <1>2, <1>3, PTL DEF Spec

==============================================================================
