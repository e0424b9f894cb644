------------------------------- MODULE Escrow -------------------------------
(***************************************************************************)
(* The escrow life cycle of the token crate (escrow.rs).  A depositor      *)
(* locks tokens in the contract's balance; the record is settled once, by  *)
(* release, refund, an admin settlement or a dispute (module Dispute).     *)
(*                                                                         *)
(* Each action is one successful transaction: a panic or an Err reverts    *)
(* everything, so every check is a conjunct of the guard.  Ledger sequence *)
(* numbers advance by Tick only.  The admin is fixed here; its rotation is *)
(* the subject of module AdminRotation.                                    *)
(***************************************************************************)
EXTENDS Balance, Sequences, FiniteSetsExt

CONSTANTS
    Admin,           \* the address check_admin accepts
    InitialBalance,  \* the balances minted before the run
    Amounts,         \* amounts a caller may pass
    Beneficiaries,   \* addresses a caller may name as beneficiary or recipient
    WarningWindow,   \* WARNING_WINDOW
    MaxEscrows       \* bound on EscrowCount

ASSUME EscrowAssumption ==
    /\ Admin \in Account
    /\ InitialBalance \in [Account -> Nat]
    /\ Amounts \subseteq Nat
    /\ Beneficiaries \subseteq Address
    /\ WarningWindow \in Nat
    /\ MaxEscrows \in Nat

VARIABLES
    escrows,           \* DataKey::Escrow(id); ids are 1 .. EscrowCount
    depositorEscrows,  \* DataKey::DepositorEscrows(address)
    expiryWarned,      \* the ids with a DataKey::ExpiryWarned flag
    escrowDispute      \* DataKey::EscrowDispute(id), NoDispute when absent

escrowVars == <<now, ledger, escrows, depositorEscrows, expiryWarned, escrowDispute>>

EscrowId == 1 .. MaxEscrows
NoDispute == 0       \* dispute ids start at 1

EscrowRecord ==
    [depositor: Account, beneficiary: Address, amount: Nat,
     released: BOOLEAN, refunded: BOOLEAN, expiry_ledger: Ledger]

EscrowInit ==
    /\ now = 0
    /\ ledger = LET balance == [a \in Address |-> IF a = Contract THEN 0
                                                  ELSE InitialBalance[a]]
                IN  [balance |-> balance,
                     holders |-> {a \in Address : balance[a] > 0}]
    /\ escrows = <<>>
    /\ depositorEscrows = [a \in Address |-> <<>>]
    /\ expiryWarned = {}
    /\ escrowDispute = [i \in EscrowId |-> NoDispute]

Exists(i) == i \in 1 .. Len(escrows)
Settled(i) == escrows[i].released \/ escrows[i].refunded
Active(i) == Exists(i) /\ ~Settled(i)

(***************************************************************************)
(* try_get_escrow: reading an active record close to its expiry sets the   *)
(* one-time warning flag.  Every operation that reads a record does this.  *)
(***************************************************************************)
WarningDue(i) ==
    /\ ~Settled(i)
    /\ escrows[i].expiry_ledger >= now
    /\ escrows[i].expiry_ledger - now < WarningWindow

GetEscrow(i) ==
    /\ Exists(i)
    /\ expiryWarned' = IF WarningDue(i) THEN expiryWarned \cup {i} ELSE expiryWarned

\* Mutation: the new id goes into the beneficiary's index.
CreateEscrow_WrongIndex(depositor, beneficiary, amount, expiry) ==
    /\ Len(escrows) < MaxEscrows
    /\ amount > 0
    /\ expiry >= now
    /\ depositor # beneficiary
    /\ CanSpend(ledger, depositor, amount)
    /\ ledger' = Move(ledger, depositor, Contract, amount)
    /\ escrows' = Append(escrows,
                     [depositor |-> depositor, beneficiary |-> beneficiary,
                      amount |-> amount, released |-> FALSE, refunded |-> FALSE,
                      expiry_ledger |-> expiry])
    /\ depositorEscrows' = [depositorEscrows EXCEPT
                               ![beneficiary] = Append(@, Len(escrows) + 1)]
    /\ UNCHANGED <<now, expiryWarned, escrowDispute>>

CreateEscrow(depositor, beneficiary, amount, expiry) ==
    /\ Len(escrows) < MaxEscrows
    /\ amount > 0
    /\ expiry >= now
    /\ depositor # beneficiary
    /\ CanSpend(ledger, depositor, amount)
    /\ ledger' = Move(ledger, depositor, Contract, amount)
    /\ escrows' = Append(escrows,
                     [depositor |-> depositor, beneficiary |-> beneficiary,
                      amount |-> amount, released |-> FALSE, refunded |-> FALSE,
                      expiry_ledger |-> expiry])
    /\ depositorEscrows' = [depositorEscrows EXCEPT
                               ![depositor] = Append(@, Len(escrows) + 1)]
    /\ UNCHANGED <<now, expiryWarned, escrowDispute>>

(***************************************************************************)
(* The three ways a record is marked settled and paid out of the pool.     *)
(***************************************************************************)
PayOut(i, to) ==
    /\ CanSpend(ledger, Contract, escrows[i].amount)
    /\ ledger' = Move(ledger, Contract, to, escrows[i].amount)

\* Mutation: the updated record is never written back.
SettleReleased_NotSaved(i, to) ==
    /\ ~Settled(i)
    /\ escrows' = escrows
    /\ PayOut(i, to)

SettleReleased(i, to) ==
    /\ ~Settled(i)
    /\ escrows' = [escrows EXCEPT ![i].released = TRUE]
    /\ PayOut(i, to)

\* Mutation: only an earlier refund stops a refund.
SettleRefunded_AfterRelease(i) ==
    /\ ~escrows[i].refunded
    /\ escrows' = [escrows EXCEPT ![i].refunded = TRUE]
    /\ PayOut(i, escrows[i].depositor)

SettleRefunded(i) ==
    /\ ~Settled(i)
    /\ escrows' = [escrows EXCEPT ![i].refunded = TRUE]
    /\ PayOut(i, escrows[i].depositor)

ReleaseEscrow(caller, i) ==
    /\ GetEscrow(i)
    /\ caller = escrows[i].beneficiary
    /\ SettleReleased(i, escrows[i].beneficiary)
    /\ UNCHANGED <<now, depositorEscrows, escrowDispute>>

\* Mutation: a pending dispute does not block the refund.
RefundEscrow_DuringDispute(caller, i) ==
    /\ GetEscrow(i)
    /\ caller = escrows[i].depositor \/ now > escrows[i].expiry_ledger
    /\ SettleRefunded(i)
    /\ UNCHANGED <<now, depositorEscrows, escrowDispute>>

RefundEscrow(caller, i) ==
    /\ GetEscrow(i)
    /\ escrowDispute[i] = NoDispute
    /\ caller = escrows[i].depositor \/ now > escrows[i].expiry_ledger
    /\ SettleRefunded(i)
    /\ UNCHANGED <<now, depositorEscrows, escrowDispute>>

TopupEscrow(depositor, i, amount) ==
    /\ amount > 0
    /\ GetEscrow(i)
    /\ escrowDispute[i] = NoDispute
    /\ ~Settled(i)
    /\ depositor = escrows[i].depositor
    /\ CanSpend(ledger, depositor, amount)
    /\ ledger' = Move(ledger, depositor, Contract, amount)
    /\ escrows' = [escrows EXCEPT ![i].amount = @ + amount]
    /\ UNCHANGED <<now, depositorEscrows, escrowDispute>>

AdminSettleEscrow(admin, i, recipient) ==
    /\ admin = Admin
    /\ GetEscrow(i)
    /\ SettleReleased(i, recipient)
    /\ UNCHANGED <<now, depositorEscrows, escrowDispute>>

\* The getters get_escrow, escrow_between and escrowed_value_for_depositor
\* write nothing but the warning flag of a record they read.
ReadEscrow(i) ==
    /\ GetEscrow(i)
    /\ UNCHANGED <<now, ledger, escrows, depositorEscrows, escrowDispute>>

\* What the rest of the token does to the balances of its users, and the
\* memo transfer, which may pay the contract itself.
Transfer(from, to, amount) ==
    /\ amount > 0
    /\ CanSpend(ledger, from, amount)
    /\ ledger' = Move(ledger, from, to, amount)
    /\ UNCHANGED <<now, escrows, depositorEscrows, expiryWarned, escrowDispute>>

Tick ==
    /\ LedgerCloses
    /\ UNCHANGED <<ledger, escrows, depositorEscrows, expiryWarned, escrowDispute>>

EscrowNext ==
    \/ \E d \in Account, b \in Beneficiaries, x \in Amounts, e \in Ledger :
          CreateEscrow(d, b, x, e)
    \/ \E c \in Account, i \in EscrowId : ReleaseEscrow(c, i)
    \/ \E c \in Account, i \in EscrowId : RefundEscrow(c, i)
    \/ \E d \in Account, i \in EscrowId, x \in Amounts : TopupEscrow(d, i, x)
    \/ \E a \in Account, i \in EscrowId, r \in Beneficiaries : AdminSettleEscrow(a, i, r)
    \/ \E i \in EscrowId : ReadEscrow(i)
    \/ \E f \in Account, t \in Beneficiaries, x \in Amounts : Transfer(f, t, x)
    \/ Tick

-----------------------------------------------------------------------------
(***************************************************************************)
(* The views.                                                              *)
(***************************************************************************)
ActiveEscrows == {i \in 1 .. Len(escrows) : ~Settled(i)}

ValueOf(ids) == SumFunctionOnSet([i \in ids |-> escrows[i].amount], ids)

EscrowStats ==
    [total_count |-> Len(escrows),
     active_count |-> Cardinality(ActiveEscrows),
     settled_count |-> Len(escrows) - Cardinality(ActiveEscrows),
     total_value_locked |-> ValueOf(ActiveEscrows)]

IndexedActive(depositor) ==
    {k \in 1 .. Len(depositorEscrows[depositor]) : ~Settled(depositorEscrows[depositor][k])}

EscrowedValueForDepositor(depositor) ==
    SumFunctionOnSet([k \in IndexedActive(depositor) |->
                         escrows[depositorEscrows[depositor][k]].amount],
                     IndexedActive(depositor))

NoEscrow == 0
EscrowBetween(depositor, beneficiary) ==
    LET hits == {k \in IndexedActive(depositor) :
                    escrows[depositorEscrows[depositor][k]].beneficiary = beneficiary}
    IN  IF hits = {} THEN NoEscrow ELSE depositorEscrows[depositor][Min(hits)]

=============================================================================
