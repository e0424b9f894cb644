------------------------------- MODULE PayPool -------------------------------
(***************************************************************************)
(* The balance of the payment contract (root crate) and everything it      *)
(* backs: escrows with their disputes, splits, multi-recipient escrows     *)
(* (multi_escrow.rs), vestings, the airdrop, which passes through it, and  *)
(* the admin's emergency withdrawal of what EscrowValueLocked does not     *)
(* cover (contract.rs).  Recurring payments move the same asset past it.   *)
(*                                                                         *)
(* trigger_auto_release is no action: it expects DataKey::AutoRelease,     *)
(* which no function writes.                                               *)
(***************************************************************************)
EXTENDS PayDispute, PaySplitter, PayRecurring

CONSTANTS
    ShareLists,       \* lists of (address, share) of create_multi_escrow
    RevenueRequests,  \* parties, rates and totals of revenue_split
    Freezable,        \* accounts passed to set_authorized
    MaxMulti,         \* bound on MultiEscrowCount
    MaxVestings       \* bound on VestingCount

ASSUME PayPoolAssumption ==
    /\ MaxMulti \in Nat /\ MaxVestings \in Nat /\ Freezable \subseteq Account
    /\ ShareLists \subseteq Seq([address: Address, share: Int])
    /\ RevenueRequests \subseteq [organizer: Address, organizer_bps: Nat, artist: Address,
                                 artist_bps: Nat, platform: Address, total: Int]

VARIABLES
    multiEscrows,   \* DataKey::MultiEscrow(id); ids start at 0 in the code
    vestings,       \* DataKey::Vesting(id)
    frozen          \* accounts with DataKey::Frozen, which the airdrop passes over

ownVars == <<multiEscrows, vestings, frozen>>
poolVars == <<splitVars, recurringVars, ownVars>>
vars == <<now, escrowVars, disputeVars, poolVars>>

\* Everything the operations of this module leave alone.
otherVars == <<fundsAside, disputeVars, splitVars, recurringVars>>

MultiId == 1 .. MaxMulti
VestingId == 1 .. MaxVestings

Init ==
    /\ EscrowInit
    /\ DisputeInit
    /\ SplitInit
    /\ RecurringInit
    /\ multiEscrows = <<>>
    /\ vestings = <<>>
    /\ frozen = {}

-----------------------------------------------------------------------------
TotalShares(r) == SumFunctionOnSet([k \in DOMAIN r |-> r[k].share], DOMAIN r)

NewMultiEscrow(depositor, r, expiry) ==
    [depositor |-> depositor, recipients |-> r, total_amount |-> TotalShares(r),
     expiry_ledger |-> expiry, released |-> FALSE, refunded |-> FALSE]

CanCreateMulti(depositor, r, expiry) ==
    /\ Len(multiEscrows) < MaxMulti
    /\ r # <<>>
    /\ expiry > now
    /\ \A k \in DOMAIN r : r[k].share > 0
    /\ CanPay(funds, depositor, TotalShares(r))

CreateMultiEscrow(depositor, r, expiry) ==
    /\ CanCreateMulti(depositor, r, expiry)
    /\ funds' = Moved(funds, depositor, Contract, TotalShares(r))
    /\ multiEscrows' = Append(multiEscrows, NewMultiEscrow(depositor, r, expiry))
    /\ UNCHANGED <<otherVars, vestings, frozen>>

ActiveMulti(m) == m \in 1 .. Len(multiEscrows) /\ ~multiEscrows[m].released /\ ~multiEscrows[m].refunded

ReleaseMultiEscrow(caller, m) ==
    /\ ActiveMulti(m)
    /\ caller \in {multiEscrows[m].depositor, Admin}
    /\ now <= multiEscrows[m].expiry_ledger
    /\ multiEscrows' = [multiEscrows EXCEPT ![m].released = TRUE]
    /\ Paid(DisburseAll(Purse, multiEscrows[m].recipients))
    /\ UNCHANGED <<otherVars, vestings, frozen>>

RefundMultiEscrow(caller, m) ==
    /\ ActiveMulti(m)
    /\ caller \in {multiEscrows[m].depositor, Admin}
    /\ multiEscrows' = [multiEscrows EXCEPT ![m].refunded = TRUE]
    /\ Paid(Disburse(Purse, multiEscrows[m].depositor, multiEscrows[m].total_amount))
    /\ UNCHANGED <<otherVars, vestings, frozen>>

(***************************************************************************)
(* revenue_split: a multi-escrow for organizer, artist and platform, the   *)
(* last of which gets the rest, made and released in one call.             *)
(***************************************************************************)
RevenueParts(q) ==
    LET organizer == FeeOn(q.total, q.organizer_bps)
        artist == FeeOn(q.total, q.artist_bps)
    IN  <<[address |-> q.organizer, share |-> organizer],
          [address |-> q.artist, share |-> artist],
          [address |-> q.platform, share |-> q.total - organizer - artist]>>

RevenueSplit(sender, q, expiry) ==
    LET r == RevenueParts(q)
    IN  /\ q.organizer_bps + q.artist_bps < Bps
        /\ CanCreateMulti(sender, r, expiry)
        /\ multiEscrows' = Append(multiEscrows,
                              [NewMultiEscrow(sender, r, expiry) EXCEPT !.released = TRUE])
        /\ Paid(DisburseAll([Purse EXCEPT !.funds = Moved(@, sender, Contract, q.total)], r))
        /\ UNCHANGED <<otherVars, vestings, frozen>>

-----------------------------------------------------------------------------
CreateVesting(admin, holder, amount, ledgerDue) ==
    /\ Len(vestings) < MaxVestings
    /\ admin = Admin
    /\ amount > 0
    /\ ledgerDue > now
    /\ CanPay(funds, admin, amount)
    /\ funds' = Moved(funds, admin, Contract, amount)
    /\ vestings' = Append(vestings, [holder |-> holder, amount |-> amount,
                                     vesting_ledger |-> ledgerDue, claimed |-> FALSE])
    /\ UNCHANGED <<otherVars, multiEscrows, frozen>>

ClaimVesting(holder, v) ==
    /\ v \in 1 .. Len(vestings)
    /\ vestings[v].holder = holder
    /\ ~vestings[v].claimed
    /\ now >= vestings[v].vesting_ledger
    /\ Paid(Disburse(Purse, holder, vestings[v].amount))
    /\ vestings' = [vestings EXCEPT ![v].claimed = TRUE]
    /\ UNCHANGED <<otherVars, multiEscrows, frozen>>

-----------------------------------------------------------------------------
EmergencyWithdraw(admin, recipient, amount) ==
    /\ admin = Admin
    /\ amount <= funds[Contract] - valueLocked
    /\ amount > 0
    /\ Paid(Disburse(Purse, recipient, amount))
    /\ UNCHANGED <<otherVars, ownVars>>

SetAuthorized(admin, account, authorized) ==
    /\ admin = Admin
    /\ frozen' = IF authorized THEN frozen \ {account} ELSE frozen \cup {account}
    /\ UNCHANGED <<funds, otherVars, multiEscrows, vestings>>

(***************************************************************************)
(* airdrop: the admin pays a total in, every authorised holder with a      *)
(* balance is paid in proportion to it, and the rest goes back.  The loop  *)
(* reads a balance when the holder's turn comes, so the order of the       *)
(* holders matters if the contract, which pays, is one of them; here it is *)
(* any one order.                                                          *)
(***************************************************************************)
AirdropPayments(admin, total) ==
    LET paidIn == Moved(funds, admin, Contract, total)
        eligible == {h \in holderSet \ frozen : paidIn[h] > 0}
        held == SumFunctionOnSet(paidIn, eligible)
        share(w, h) == (w.purse.funds[h] * total) \div held
        pay(h, w) == [purse |-> Disburse(w.purse, h, share(w, h)), rest |-> w.rest - share(w, h)]
        done == FoldSet(pay, [purse |-> [Purse EXCEPT !.funds = paidIn], rest |-> total], eligible)
    IN  Disburse(done.purse, admin, done.rest)

Airdrop(admin, total) ==
    /\ admin = Admin
    /\ total > 0
    /\ CanPay(funds, admin, total)
    /\ \E h \in holderSet \ frozen : Moved(funds, admin, Contract, total)[h] > 0
    /\ Paid(AirdropPayments(admin, total))
    /\ UNCHANGED <<otherVars, ownVars>>

Next ==
    \/ SplitNext /\ UNCHANGED <<disputeVars, recurringVars, ownVars>>
    \/ RecurringNext /\ UNCHANGED <<disputeVars, splitVars, ownVars>>
    \/ EscrowNext /\ UNCHANGED <<disputeVars, poolVars>>
    \/ DisputeNext /\ UNCHANGED poolVars
    \/ \E c \in Depositors, r \in ShareLists, e \in Ledger : CreateMultiEscrow(c, r, e)
    \/ \E c \in Account, m \in MultiId : ReleaseMultiEscrow(c, m)
    \/ \E c \in Account, m \in MultiId : RefundMultiEscrow(c, m)
    \/ \E c \in Depositors, q \in RevenueRequests, e \in Ledger : RevenueSplit(c, q, e)
    \/ \E c \in Account, h \in Parties, x \in Amounts, e \in Ledger : CreateVesting(c, h, x, e)
    \/ \E c \in Account, v \in VestingId : ClaimVesting(c, v)
    \/ \E c \in Account, b \in Parties, x \in Amounts : EmergencyWithdraw(c, b, x)
    \/ \E c \in Account, a \in Freezable, b \in BOOLEAN : SetAuthorized(c, a, b)
    \/ \E c \in Account, x \in Amounts : Airdrop(c, x)

Spec == Init /\ [][Next]_vars

(***************************************************************************)
(* Ledgers keep closing and a party to a dispute asks for its expiry for   *)
(* as long as the call would succeed.                                      *)
(***************************************************************************)
Fairness ==
    /\ WF_vars(Tick /\ UNCHANGED <<disputeVars, poolVars>>)
    /\ \A i \in EscrowId :
          WF_vars(\E c \in Account : ExpireDispute(c, i) /\ UNCHANGED poolVars)

LiveSpec == Spec /\ Fairness

-----------------------------------------------------------------------------
(***************************************************************************)
(* Properties.                                                             *)
(***************************************************************************)

\* Every stored record, list and counter has its type; balances are never
\* negative.
TypeOK ==
    /\ now \in Ledger
    /\ funds \in [Address -> Nat]
    /\ \A i \in DOMAIN escrows : escrows[i] \in EscrowRecord
    /\ Len(escrows) <= MaxEscrows
    /\ valueLocked \in Int
    /\ depositorEscrows \in [Address -> Seq(EscrowId)]
    /\ beneficiaryEscrows \in [Address -> Seq(EscrowId)]
    /\ lastEscrowTime \in [Account -> Ledger]
    /\ fees \in [fee_bps: Nat, treasury: Address, collected: Nat]
    /\ holderSet \subseteq Address /\ frozen \subseteq Account
    /\ disputed \subseteq EscrowId /\ appealed \subseteq EscrowId
    /\ arbiter \in Account \cup {NoArbiter}
    /\ openedAt \in [EscrowId -> Ledger \cup {NeverOpened}]
    /\ disputeCount \in [EscrowId -> 0 .. MaxDisputes]
    /\ claimantDisputes \in [Account -> Seq(EscrowId)]
    /\ resolverStats \in [Account -> [for_beneficiary: Nat, for_depositor: Nat]]

\* A record never has more released than locked, is settled exactly when the
\* flags say so, in one way only, and a lien never exceeds it: no mix of
\* partial releases, top-ups, liens and settlements by depositor, admin and
\* arbiter leaves a record that contradicts itself.
RecordsConsistent ==
    /\ TypeOK
    /\ \A i \in DOMAIN escrows :
          /\ ~(escrows[i].released /\ escrows[i].refunded)
          /\ escrows[i].released => Remaining(i) = 0
          /\ Remaining(i) >= 0 /\ (~Settled(i) => Remaining(i) > 0)
          /\ escrows[i].lien_amount <= escrows[i].amount

\* Both address indexes list exactly the escrows of that address, each once,
\* also after beneficiaries were changed, so that the views over
\* them agree with a scan of all records.
IndexesExact ==
    \A a \in Address :
        LET asDepositor == {i \in DOMAIN escrows : escrows[i].depositor = a}
            asBeneficiary == {i \in DOMAIN escrows : escrows[i].beneficiary = a}
        IN  /\ IndexOf(depositorEscrows[a]) = asDepositor
            /\ Len(depositorEscrows[a]) = Cardinality(asDepositor)
            /\ IndexOf(beneficiaryEscrows[a]) = asBeneficiary
            /\ Len(beneficiaryEscrows[a]) = Cardinality(asBeneficiary)
            /\ EscrowedValueForDepositor(a) = RemainingOf(asDepositor \cap ActiveEscrows)
            /\ \A b \in Address :
                  (EscrowBetween(a, b) = NoEscrow)
                     <=> ~\E i \in DOMAIN escrows :
                             {escrows[i].depositor, escrows[i].beneficiary} = {a, b}

\* How often an escrow stands in a claimant's list.
TimesClaimed(a, i) == Cardinality({k \in DOMAIN claimantDisputes[a] : claimantDisputes[a][k] = i})

\* The five keys of a dispute stay in step for as long as its escrow is
\* active: an appeal is pending only on an open dispute, an open dispute has
\* its opening ledger, and DisputeCount is the number of times the escrow
\* stands in the claimants' lists.
DisputeKeysAgree ==
    /\ \A i \in DOMAIN escrows :
          /\ i \in disputed => disputeCount[i] > 0 /\ openedAt[i] \in 0 .. now
          /\ i \in appealed => i \in disputed \/ Settled(i)
    /\ \A i \in EscrowId :
          disputeCount[i] = SumFunctionOnSet([a \in Account |-> TimesClaimed(a, i)], Account)

OwedToMulti ==
    LET active == {m \in DOMAIN multiEscrows : ActiveMulti(m)}
    IN  SumFunctionOnSet([m \in active |-> multiEscrows[m].total_amount], active)
OwedToVestings ==
    LET unclaimed == {v \in DOMAIN vestings : ~vestings[v].claimed}
    IN  SumFunctionOnSet([v \in unclaimed |-> vestings[v].amount], unclaimed)
Owed == OwedToEscrows + OwedToSplits + OwedToMulti + OwedToVestings

Resolved == resolverStats' # resolverStats
ToppedUp == \E i \in DOMAIN escrows : escrows'[i].amount # escrows[i].amount

CounterStep == ~Resolved /\ ~ToppedUp => valueLocked' - valueLocked = OwedToEscrows' - OwedToEscrows

\* EscrowValueLocked, which is kept by hand in every handler, moves by what
\* the escrows are owed in every step but a top-up and an arbiter's
\* resolution, which leave it alone.
CounterFollowsRecords == [][CounterStep]_vars

FeesWithinBounds == fees.fee_bps <= Bps /\ mediationBps <= Bps

\* An arbiter's resolution for the beneficiary after a partial release.
PaysTwice ==
    \E i \in DOMAIN escrows :
        Resolved /\ escrows[i].released_amount > 0 /\ ~escrows[i].released /\ escrows'[i].released

Withdrawn == \E c \in Account, b \in Address, x \in Amounts : EmergencyWithdraw(c, b, x)

PoolStep ==
    FeesWithinBounds /\ ~PaysTwice /\ ~Withdrawn =>
        funds'[Contract] - funds[Contract] >= Owed' - Owed

\* No operation on one claim costs the others anything: whatever liens,
\* protocol and mediation fees are taken out and however shares and airdrops
\* are rounded, the pool never shrinks by more than the claims on it.
\* Excepted are fees above 100 percent, which the setters accept, the
\* resolution that pays a partly released escrow out in full, and the
\* emergency withdrawal.
PoolFollowsClaims == [][PoolStep]_vars

SettledStep ==
    \A i \in DOMAIN escrows :
        Settled(i) => [escrows'[i] EXCEPT !.beneficiary = escrows[i].beneficiary] = escrows[i]

\* Settlement is final: but for the beneficiary's name, which the depositor
\* may still change, no operation of depositor, beneficiary, creditor, admin
\* or arbiter alters a settled escrow.
SettlementIsFinal == [][SettledStep]_vars

\* An active payment that was cancelled, and so is off its payer's list, or
\* has been made as often as agreed.
Revived(i) ==
    /\ Running(i)
    /\ i \notin IndexOf(payerRecurrings[recurrings[i].payer]) \/ Finished(recurrings[i])

RecurringStep ==
    \A i \in DOMAIN recurrings' :
        /\ recurrings'[i].last_charged_ledger <= now
        /\ Revived(i)' => i \in DOMAIN recurrings /\ (Revived(i) \/ ~Running(i))

\* A recurring payment is charged for past intervals only, also when missed
\* payments are caught up with after an amendment, and one that is cancelled
\* or finished is over unless it is resumed: the one flag that
\* execution, both cancellations and pause share loses nothing else.
RecurringsInStep == [][RecurringStep]_vars

\* A disputed escrow does not stay locked up for want of an arbiter: the
\* dispute ends or the escrow is settled.  Disputing it again restarts the
\* waiting time, so this rests on the limit of disputes per escrow.
DisputeEnds == \A i \in EscrowId : (i \in disputed) ~> (i \notin disputed \/ ~Active(i))

=============================================================================
