------------------------------ MODULE PayEscrow ------------------------------
(***************************************************************************)
(* Escrows of the payment contract in the repository's root crate          *)
(* (escrow.rs): partial releases, one lien per escrow, a protocol fee, and *)
(* a counter of the value locked that is kept apart from the records.      *)
(*                                                                         *)
(* Escrow ids start at 0 in the code and at 1 here.  The escrowed asset is *)
(* an external token contract, of which one is modelled: balances, and     *)
(* transfers that fail for want of funds.  The memo and the creation       *)
(* ledger are stored and read by views only.  Timestamps advance with the  *)
(* ledger sequence.                                                        *)
(***************************************************************************)
EXTENDS Host, SequencesExt

CONSTANTS
    Admin,              \* the acting administrator
    InitialFunds,       \* balances of the escrowed asset at the start; what the
                        \* contract has then was sent to it by mistake
    Amounts,            \* amounts a caller may pass
    Depositors,         \* accounts that fund escrows
    Parties,            \* addresses passed as beneficiary or recipient
    Creditors,          \* accounts that place liens
    FeeChoices,         \* basis points the admin may set
    SplitRequests,      \* recipient lists and totals of split_to_escrow
    MinEscrowAmount,    \* 10_000_000
    Cooldown,           \* 300 seconds
    MaxPerDepositor,    \* 100
    MaxEscrows          \* bound on EscrowCount

ASSUME PayEscrowAssumption ==
    /\ Admin \in Account
    /\ InitialFunds \in [Address -> Nat]
    /\ Amounts \subseteq Nat /\ FeeChoices \subseteq Nat
    /\ Parties \subseteq Address /\ Creditors \subseteq Account
    /\ Depositors \subseteq Account
    /\ SplitRequests \subseteq [recipients: Seq([address: Address, share_bps: Nat]), total: Int]
    /\ MinEscrowAmount \in Nat /\ Cooldown \in Nat
    /\ MaxPerDepositor \in Nat /\ MaxEscrows \in Nat

VARIABLES
    funds,               \* balances of the escrowed asset (external)
    escrows,             \* DataKey::Escrow(id)
    valueLocked,         \* DataKey::EscrowValueLocked, an i128
    depositorEscrows,    \* DataKey::DepositorEscrows(address)
    beneficiaryEscrows,  \* DataKey::BeneficiaryEscrows(address)
    lastEscrowTime,      \* DataKey::LastEscrowTime(address), 0 when unset
    fees,                \* FeeBps, TreasuryAddress and TotalFeesCollected
    holderSet,           \* DataKey::HolderSet; HolderCount is its size
    disputed,            \* ids with DataKey::EscrowDispute
    appealed             \* ids with DataKey::DisputeAppeal

escrowVars == <<funds, escrows, valueLocked, depositorEscrows, beneficiaryEscrows,
                lastEscrowTime, fees, holderSet, disputed, appealed>>

\* What an operation that only moves money leaves alone here.
fundsAside == <<now, escrows, valueLocked, depositorEscrows, beneficiaryEscrows,
                lastEscrowTime, fees, holderSet, disputed, appealed>>

Bps == 10000
EscrowId == 1 .. MaxEscrows

EscrowRecord ==
    [depositor: Account, beneficiary: Address, amount: Nat, released_amount: Nat,
     expiry_ledger: Ledger, released: BOOLEAN, refunded: BOOLEAN,
     liened: BOOLEAN, liened_by: Account, lien_amount: Nat]

\* protocol_fee_stats names the admin as treasury while none is set.
EscrowInit ==
    /\ now = 0
    /\ funds = InitialFunds
    /\ escrows = <<>>
    /\ valueLocked = 0
    /\ depositorEscrows = [a \in Address |-> <<>>]
    /\ beneficiaryEscrows = [a \in Address |-> <<>>]
    /\ lastEscrowTime = [a \in Account |-> 0]
    /\ fees = [fee_bps |-> 0, treasury |-> Admin, collected |-> 0]
    /\ holderSet = {}
    /\ disputed = {}
    /\ appealed = {}

Exists(i) == i \in 1 .. Len(escrows)
Settled(i) == escrows[i].released \/ escrows[i].refunded
Active(i) == Exists(i) /\ ~Settled(i)
Remaining(i) == escrows[i].amount - escrows[i].released_amount

-----------------------------------------------------------------------------
(***************************************************************************)
(* Transfers of the token client.  A handler makes several, one after the  *)
(* other; the call fails when one of them does.                            *)
(***************************************************************************)
CanPay(f, from, amount) == f[from] >= amount
Moved(f, from, to, amount) == [[f EXCEPT ![from] = @ - amount] EXCEPT ![to] = @ + amount]

Purse == [ok |-> TRUE, funds |-> funds]

\* Every payment out of the pool is skipped unless it is positive.
Disburse(w, to, amount) ==
    IF amount <= 0 THEN w
    ELSE [ok |-> w.ok /\ CanPay(w.funds, Contract, amount),
          funds |-> Moved(w.funds, Contract, to, amount)]

\* A list of payments, made one after the other.
DisburseAll(w, parts) ==
    LET pay(v, part) == Disburse(v, part.address, part.share)
    IN  FoldLeft(pay, w, parts)

Paid(w) == w.ok /\ funds' = w.funds

(***************************************************************************)
(* The address indexes are lists of ids.  An id is taken off by copying    *)
(* the list without it.                                                    *)
(***************************************************************************)
IndexOf(ids) == {ids[k] : k \in DOMAIN ids}

Without(ids, i) ==
    LET keep(kept, k) == IF k = i THEN kept ELSE Append(kept, k)
    IN  FoldLeft(keep, <<>>, ids)

-----------------------------------------------------------------------------
NewEscrow(depositor, beneficiary, amount, expiry) ==
    [depositor |-> depositor, beneficiary |-> beneficiary, amount |-> amount,
     released_amount |-> 0, expiry_ledger |-> expiry, released |-> FALSE,
     refunded |-> FALSE, liened |-> FALSE, liened_by |-> depositor, lien_amount |-> 0]

CooledDown(depositor) ==
    lastEscrowTime[depositor] > 0 => now - lastEscrowTime[depositor] >= Cooldown

\* Mutation: the counter is not raised.
CreateEscrow_NotCounted(depositor, beneficiary, amount, expiry) ==
    /\ Len(escrows) < MaxEscrows
    /\ CooledDown(depositor)
    /\ amount > 0 /\ amount >= MinEscrowAmount
    /\ expiry > now
    /\ Len(depositorEscrows[depositor]) < MaxPerDepositor
    /\ CanPay(funds, depositor, amount)
    /\ funds' = Moved(funds, depositor, Contract, amount)
    /\ escrows' = Append(escrows, NewEscrow(depositor, beneficiary, amount, expiry))
    /\ depositorEscrows' = [depositorEscrows EXCEPT ![depositor] = Append(@, Len(escrows'))]
    /\ beneficiaryEscrows' = [beneficiaryEscrows EXCEPT ![beneficiary] = Append(@, Len(escrows'))]
    /\ lastEscrowTime' = [lastEscrowTime EXCEPT ![depositor] = now]
    /\ UNCHANGED <<now, valueLocked, fees, holderSet, disputed, appealed>>

CreateEscrow(depositor, beneficiary, amount, expiry) ==
    /\ Len(escrows) < MaxEscrows
    /\ CooledDown(depositor)
    /\ amount > 0 /\ amount >= MinEscrowAmount
    /\ expiry > now
    /\ Len(depositorEscrows[depositor]) < MaxPerDepositor
    /\ CanPay(funds, depositor, amount)
    /\ funds' = Moved(funds, depositor, Contract, amount)
    /\ escrows' = Append(escrows, NewEscrow(depositor, beneficiary, amount, expiry))
    /\ depositorEscrows' = [depositorEscrows EXCEPT ![depositor] = Append(@, Len(escrows'))]
    /\ beneficiaryEscrows' = [beneficiaryEscrows EXCEPT ![beneficiary] = Append(@, Len(escrows'))]
    /\ valueLocked' = valueLocked + amount
    /\ lastEscrowTime' = [lastEscrowTime EXCEPT ![depositor] = now]
    /\ UNCHANGED <<now, fees, holderSet, disputed, appealed>>

(***************************************************************************)
(* split_to_escrow pulls the total once and makes one escrow per           *)
(* recipient, the last of which gets the rest, without the limits of       *)
(* create_escrow.                                                          *)
(***************************************************************************)
ValidShares(r) ==
    /\ \A k \in DOMAIN r : r[k].share_bps > 0
    /\ \A k, m \in DOMAIN r : r[k].address = r[m].address => k = m
    /\ SumFunctionOnSet([k \in DOMAIN r |-> r[k].share_bps], DOMAIN r) = Bps

RoundedDown(r, total) == [k \in 1 .. Len(r) - 1 |-> (total * r[k].share_bps) \div Bps]

ShareOf(r, total, k) ==
    IF k < Len(r) THEN RoundedDown(r, total)[k]
    ELSE total - SumFunctionOnSet(RoundedDown(r, total), 1 .. Len(r) - 1)

SplitToEscrow(sender, r, total, expiry) ==
    LET id(k) == Len(escrows) + k
        \* No address has two shares.
        own(b) == {k \in DOMAIN r : r[k].address = b}
    IN  /\ Len(escrows) + Len(r) <= MaxEscrows
        /\ total > 0
        /\ ValidShares(r)
        /\ \A k \in DOMAIN r : ShareOf(r, total, k) > 0
        /\ expiry > now
        /\ CanPay(funds, sender, total)
        /\ funds' = Moved(funds, sender, Contract, total)
        /\ escrows' = escrows \o [k \in DOMAIN r |->
                          NewEscrow(sender, r[k].address, ShareOf(r, total, k), expiry)]
        /\ depositorEscrows' = [depositorEscrows EXCEPT ![sender] = @ \o [k \in DOMAIN r |-> id(k)]]
        /\ beneficiaryEscrows' = [b \in Address |->
                                     IF own(b) = {} THEN beneficiaryEscrows[b]
                                     ELSE Append(beneficiaryEscrows[b], id(Min(own(b))))]
        /\ valueLocked' = valueLocked + total
        /\ UNCHANGED <<now, lastEscrowTime, fees, holderSet, disputed, appealed>>

-----------------------------------------------------------------------------
LienShare(i) ==
    IF escrows[i].liened /\ escrows[i].lien_amount > 0
    THEN Min({escrows[i].lien_amount, Remaining(i)}) ELSE 0

LienCleared(r) ==
    IF r.liened /\ r.lien_amount > 0 THEN [r EXCEPT !.liened = FALSE, !.lien_amount = 0] ELSE r

FeeOn(amount, bps) == (amount * bps) \div Bps

\* Mutation: the lien is paid on top of what the beneficiary gets.
PayRelease_LienOnTop(i) ==
    LET fee == FeeOn(Remaining(i), fees.fee_bps)
        afterLien == Disburse(Purse, escrows[i].liened_by, LienShare(i))
        afterFee == Disburse(afterLien, fees.treasury, fee)
    IN  /\ Paid(Disburse(afterFee, escrows[i].beneficiary, Remaining(i) - fee))
        /\ fees' = [fees EXCEPT !.collected = @ + fee]

PayRelease(i) ==
    LET net == Remaining(i) - LienShare(i)
        fee == FeeOn(net, fees.fee_bps)
        afterLien == Disburse(Purse, escrows[i].liened_by, LienShare(i))
        afterFee == Disburse(afterLien, fees.treasury, fee)
    IN  /\ Paid(Disburse(afterFee, escrows[i].beneficiary, net - fee))
        /\ fees' = [fees EXCEPT !.collected = @ + fee]

Authorised(caller, i) == caller \in {escrows[i].depositor, Admin}

\* Mutation: the amount released so far is left as it was.
ReleaseEscrow_KeepsReleased(caller, i) ==
    /\ Active(i)
    /\ Authorised(caller, i)
    /\ now <= escrows[i].expiry_ledger
    /\ Remaining(i) > 0
    /\ PayRelease(i)
    /\ escrows' = [escrows EXCEPT ![i] = [LienCleared(@) EXCEPT !.released = TRUE]]
    /\ valueLocked' = valueLocked - Remaining(i)
    /\ holderSet' = holderSet \cup {escrows[i].beneficiary}
    /\ UNCHANGED <<now, depositorEscrows, beneficiaryEscrows, lastEscrowTime, disputed, appealed>>

\* The depositor or the admin releases; an open dispute does not matter.
ReleaseEscrow(caller, i) ==
    /\ Active(i)
    /\ Authorised(caller, i)
    /\ now <= escrows[i].expiry_ledger
    /\ Remaining(i) > 0
    /\ PayRelease(i)
    /\ escrows' = [escrows EXCEPT ![i] =
                      [LienCleared(@) EXCEPT !.released = TRUE, !.released_amount = escrows[i].amount]]
    /\ valueLocked' = valueLocked - Remaining(i)
    /\ holderSet' = holderSet \cup {escrows[i].beneficiary}
    /\ UNCHANGED <<now, depositorEscrows, beneficiaryEscrows, lastEscrowTime, disputed, appealed>>

ReleasePartialEscrow(caller, i, amount) ==
    /\ Active(i)
    /\ caller = escrows[i].beneficiary
    /\ now <= escrows[i].expiry_ledger
    /\ amount \in 1 .. Remaining(i)
    /\ Paid(Disburse(Purse, caller, amount))
    /\ escrows' = [escrows EXCEPT ![i].released_amount = @ + amount,
                                  ![i].released = (amount = Remaining(i))]
    /\ valueLocked' = valueLocked - amount
    /\ holderSet' = holderSet \cup {caller}
    /\ UNCHANGED <<now, depositorEscrows, beneficiaryEscrows, lastEscrowTime, fees, disputed, appealed>>

\* Mutation: a released escrow is not looked for.
RefundEscrow_AfterRelease(caller, i) ==
    /\ Exists(i) /\ ~escrows[i].refunded
    /\ i \notin disputed
    /\ Authorised(caller, i)
    /\ Paid(Disburse(Purse, escrows[i].depositor, escrows[i].amount))
    /\ escrows' = [escrows EXCEPT ![i].refunded = TRUE]
    /\ valueLocked' = valueLocked - escrows[i].amount
    /\ UNCHANGED <<now, depositorEscrows, beneficiaryEscrows, lastEscrowTime, fees,
                   holderSet, disputed, appealed>>

RefundEscrow(caller, i) ==
    /\ Active(i)
    /\ i \notin disputed
    /\ Authorised(caller, i)
    /\ Remaining(i) > 0
    /\ Paid(Disburse(Purse, escrows[i].depositor, Remaining(i)))
    /\ escrows' = [escrows EXCEPT ![i].refunded = TRUE]
    /\ valueLocked' = valueLocked - Remaining(i)
    /\ UNCHANGED <<now, depositorEscrows, beneficiaryEscrows, lastEscrowTime, fees,
                   holderSet, disputed, appealed>>

AdminSettleEscrow(admin, i, winner) ==
    LET r == escrows[i]
        afterLien == Disburse(Purse, r.liened_by, LienShare(i))
    IN  /\ admin = Admin
        /\ Active(i)
        /\ winner \in {r.depositor, r.beneficiary}
        /\ Remaining(i) > 0
        /\ Paid(Disburse(afterLien, winner, Remaining(i) - LienShare(i)))
        /\ escrows' = [escrows EXCEPT ![i] =
                          [LienCleared(@) EXCEPT !.released = (winner = r.beneficiary),
                                                 !.refunded = (winner # r.beneficiary),
                                                 !.released_amount = r.amount]]
        /\ disputed' = disputed \ {i}
        /\ appealed' = appealed \ {i}
        /\ valueLocked' = valueLocked - Remaining(i)
        /\ UNCHANGED <<now, depositorEscrows, beneficiaryEscrows, lastEscrowTime, fees, holderSet>>

PlaceLien(creditor, i, amount) ==
    /\ Active(i)
    /\ ~escrows[i].liened
    /\ amount \in 1 .. escrows[i].amount
    /\ escrows' = [escrows EXCEPT ![i].liened = TRUE, ![i].liened_by = creditor,
                                  ![i].lien_amount = amount]
    /\ UNCHANGED <<now, funds, valueLocked, depositorEscrows, beneficiaryEscrows,
                   lastEscrowTime, fees, holderSet, disputed, appealed>>

ClearLien(caller, i) ==
    /\ Active(i)
    /\ escrows[i].liened
    /\ caller \in {escrows[i].depositor, escrows[i].liened_by}
    /\ escrows' = [escrows EXCEPT ![i].liened = FALSE, ![i].lien_amount = 0]
    /\ UNCHANGED <<now, funds, valueLocked, depositorEscrows, beneficiaryEscrows,
                   lastEscrowTime, fees, holderSet, disputed, appealed>>

\* The counter of the value locked is not raised.
TopupEscrow(depositor, i, amount) ==
    /\ amount > 0
    /\ i \notin disputed
    /\ Active(i)
    /\ escrows[i].depositor = depositor
    /\ CanPay(funds, depositor, amount)
    /\ funds' = Moved(funds, depositor, Contract, amount)
    /\ escrows' = [escrows EXCEPT ![i].amount = @ + amount]
    /\ UNCHANGED <<now, valueLocked, depositorEscrows, beneficiaryEscrows,
                   lastEscrowTime, fees, holderSet, disputed, appealed>>

\* Mutation: the old beneficiary keeps the escrow in its list.
TransferEscrowBeneficiary_KeepsIndex(depositor, i, new) ==
    /\ Exists(i)
    /\ escrows[i].depositor = depositor
    /\ escrows' = [escrows EXCEPT ![i].beneficiary = new]
    /\ beneficiaryEscrows' = [beneficiaryEscrows EXCEPT ![new] = Append(@, i)]
    /\ UNCHANGED <<now, funds, valueLocked, depositorEscrows, lastEscrowTime, fees,
                   holderSet, disputed, appealed>>

\* Also after settlement, and also to the beneficiary it has already.
TransferEscrowBeneficiary(depositor, i, new) ==
    LET old == escrows[i].beneficiary
    IN  /\ Exists(i)
        /\ escrows[i].depositor = depositor
        /\ escrows' = [escrows EXCEPT ![i].beneficiary = new]
        /\ beneficiaryEscrows' = [[beneficiaryEscrows EXCEPT ![old] = Without(@, i)]
                                     EXCEPT ![new] = Append(@, i)]
        /\ UNCHANGED <<now, funds, valueLocked, depositorEscrows, lastEscrowTime, fees,
                       holderSet, disputed, appealed>>

\* The rate is not compared with 10000.
SetProtocolFee(admin, bps, treasury) ==
    /\ admin = Admin
    /\ fees' = [fees EXCEPT !.fee_bps = bps, !.treasury = treasury]
    /\ UNCHANGED <<now, funds, escrows, valueLocked, depositorEscrows, beneficiaryEscrows,
                   lastEscrowTime, holderSet, disputed, appealed>>

Tick == LedgerCloses /\ UNCHANGED escrowVars

EscrowNext ==
    \/ \E c \in Depositors, b \in Parties, x \in Amounts, e \in Ledger : CreateEscrow(c, b, x, e)
    \/ \E c \in Depositors, q \in SplitRequests, e \in Ledger :
          SplitToEscrow(c, q.recipients, q.total, e)
    \/ \E c \in Account, i \in EscrowId : ReleaseEscrow(c, i)
    \/ \E c \in Account, i \in EscrowId, x \in Amounts : ReleasePartialEscrow(c, i, x)
    \/ \E c \in Account, i \in EscrowId : RefundEscrow(c, i)
    \/ \E c \in Account, i \in EscrowId, w \in Address : AdminSettleEscrow(c, i, w)
    \/ \E c \in Creditors, i \in EscrowId, x \in Amounts : PlaceLien(c, i, x)
    \/ \E c \in Account, i \in EscrowId : ClearLien(c, i)
    \/ \E c \in Account, i \in EscrowId, x \in Amounts : TopupEscrow(c, i, x)
    \/ \E c \in Account, i \in EscrowId, b \in Parties : TransferEscrowBeneficiary(c, i, b)
    \/ \E c \in Account, f \in FeeChoices, t \in Parties : SetProtocolFee(c, f, t)
    \/ Tick

-----------------------------------------------------------------------------
(***************************************************************************)
(* Views.                                                                  *)
(***************************************************************************)
ActiveEscrows == {i \in 1 .. Len(escrows) : ~Settled(i)}
RemainingOf(ids) == SumFunctionOnSet([i \in ids |-> Remaining(i)], ids)
OwedToEscrows == RemainingOf(ActiveEscrows)

EscrowedValueForDepositor(a) ==
    LET own == depositorEscrows[a]
        active == {k \in DOMAIN own : ~Settled(own[k])}
    IN  SumFunctionOnSet([k \in active |-> Remaining(own[k])], active)

NoEscrow == 0

\* The first escrow of a's list that is in b's, else the other way round.
EscrowBetween(a, b) ==
    LET common(d, e) == {k \in DOMAIN depositorEscrows[d] :
                            depositorEscrows[d][k] \in IndexOf(beneficiaryEscrows[e])}
        first(d, e) == depositorEscrows[d][Min(common(d, e))]
    IN  IF common(a, b) # {} THEN first(a, b)
        ELSE IF common(b, a) # {} THEN first(b, a) ELSE NoEscrow

=============================================================================
