----------------------------- MODULE PayDispute -----------------------------
(***************************************************************************)
(* Disputes over the escrows of the payment contract (dispute.rs of the    *)
(* root crate): a flag per escrow, an arbiter who takes office himself, a  *)
(* window for appeals and a time after which a party may drop the dispute. *)
(* A resolution settles the record without touching EscrowValueLocked.     *)
(***************************************************************************)
EXTENDS PayEscrow

CONSTANTS
    Arbiters,       \* accounts that call set_arbiter
    AppealWindow,   \* DISPUTE_APPEAL_WINDOW, 17280 ledgers
    ExpireAfter,    \* DISPUTE_EXPIRE_AFTER, 34560 ledgers
    MaxDisputes,    \* 3: DataKey::MaxDisputes is read and never written
    NoArbiter,
    NeverOpened

ASSUME PayDisputeAssumption ==
    /\ Arbiters \subseteq Account
    /\ AppealWindow \in Nat /\ ExpireAfter \in Nat /\ MaxDisputes \in Nat
    /\ NoArbiter \notin Address
    /\ NeverOpened \notin Nat

VARIABLES
    arbiter,            \* DataKey::Arbiter
    openedAt,           \* DataKey::DisputeOpenedAt(escrow)
    disputeCount,       \* DataKey::DisputeCount(escrow)
    claimantDisputes,   \* DataKey::ClaimantDisputes(address)
    mediationBps,       \* DataKey::MediationFeeBps
    resolverStats       \* DataKey::ResolverStats(address)

disputeVars == <<arbiter, openedAt, disputeCount, claimantDisputes, mediationBps, resolverStats>>

DisputeInit ==
    /\ arbiter = NoArbiter
    /\ openedAt = [i \in EscrowId |-> NeverOpened]
    /\ disputeCount = [i \in EscrowId |-> 0]
    /\ claimantDisputes = [a \in Account |-> <<>>]
    /\ mediationBps = 0
    /\ resolverStats = [a \in Account |-> [for_beneficiary |-> 0, for_depositor |-> 0]]

SetArbiter(a) ==
    /\ arbiter' = a
    /\ UNCHANGED <<now, escrowVars, openedAt, disputeCount, claimantDisputes, mediationBps,
                   resolverStats>>

\* The rate is not compared with 10000.
SetMediationFee(admin, bps) ==
    /\ admin = Admin
    /\ mediationBps' = bps
    /\ UNCHANGED <<now, escrowVars, arbiter, openedAt, disputeCount, claimantDisputes, resolverStats>>

IsParty(a, i) == a \in {escrows[i].depositor, escrows[i].beneficiary}

(***************************************************************************)
(* An escrow under dispute can be disputed again, which starts its clock   *)
(* anew.  The bound now + ExpireAfter <= MaxLedger keeps the end of every  *)
(* dispute inside the modelled time.                                       *)
(***************************************************************************)
RaiseDispute(caller, i) ==
    /\ Active(i)
    /\ disputeCount[i] < MaxDisputes
    /\ IsParty(caller, i)
    /\ now + ExpireAfter <= MaxLedger
    /\ disputeCount' = [disputeCount EXCEPT ![i] = @ + 1]
    /\ disputed' = disputed \cup {i}
    /\ openedAt' = [openedAt EXCEPT ![i] = now]
    /\ claimantDisputes' = [claimantDisputes EXCEPT ![caller] = Append(@, i)]
    /\ UNCHANGED <<now, funds, escrows, valueLocked, depositorEscrows, beneficiaryEscrows,
                   lastEscrowTime, fees, holderSet, appealed, arbiter, mediationBps, resolverStats>>

(***************************************************************************)
(* Both ways to resolve: for the beneficiary the whole amount of the       *)
(* record is paid, whatever was released before; for the depositor what is *)
(* left.  Liens, the protocol fee and EscrowValueLocked are not looked at. *)
(***************************************************************************)
\* Mutation: the depositor gets the whole amount too.
PayWinner_AllBack(resolver, i, winner, bps) ==
    LET fee == FeeOn(escrows[i].amount, bps)
    IN  Paid(Disburse(Disburse(Purse, resolver, fee), winner, escrows[i].amount - fee))

PayWinner(resolver, i, winner, bps) ==
    LET due == IF winner = escrows[i].beneficiary THEN escrows[i].amount ELSE Remaining(i)
        fee == FeeOn(due, bps)
    IN  Paid(Disburse(Disburse(Purse, resolver, fee), winner, due - fee))

MarkOutcome(i, forBeneficiary) ==
    escrows' = IF forBeneficiary
               THEN [escrows EXCEPT ![i].released = TRUE, ![i].released_amount = escrows[i].amount]
               ELSE [escrows EXCEPT ![i].refunded = TRUE]

UpdateResolverStats(resolver, forBeneficiary) ==
    resolverStats' = IF forBeneficiary
                     THEN [resolverStats EXCEPT ![resolver].for_beneficiary = @ + 1]
                     ELSE [resolverStats EXCEPT ![resolver].for_depositor = @ + 1]

SettleByArbiter(resolver, i, winner, bps) ==
    /\ resolver = arbiter
    /\ i \in disputed
    /\ Active(i)
    /\ IsParty(winner, i)
    /\ PayWinner(resolver, i, winner, bps)
    /\ MarkOutcome(i, winner = escrows[i].beneficiary)
    /\ disputed' = disputed \ {i}
    /\ UpdateResolverStats(resolver, winner = escrows[i].beneficiary)
    /\ UNCHANGED <<now, valueLocked, depositorEscrows, beneficiaryEscrows, lastEscrowTime, fees,
                   holderSet, arbiter, disputeCount, claimantDisputes, mediationBps>>

\* A pending appeal does not stop it, and its keys stay behind.
ResolveDispute(resolver, i, winner) ==
    /\ SettleByArbiter(resolver, i, winner, mediationBps)
    /\ UNCHANGED <<appealed, openedAt>>

AppealDispute(caller, i) ==
    /\ Active(i)
    /\ IsParty(caller, i)
    /\ i \in disputed
    /\ i \notin appealed
    /\ now <= openedAt[i] + AppealWindow
    /\ appealed' = appealed \cup {i}
    /\ UNCHANGED <<now, funds, escrows, valueLocked, depositorEscrows, beneficiaryEscrows,
                   lastEscrowTime, fees, holderSet, disputed, disputeVars>>

ResolveAppeal(resolver, i, winner) ==
    /\ i \in appealed
    /\ SettleByArbiter(resolver, i, winner, 0)
    /\ appealed' = appealed \ {i}
    /\ openedAt' = [openedAt EXCEPT ![i] = NeverOpened]

\* Mutation: the pending appeal is forgotten.
ExpireDispute_KeepsAppeal(caller, i) ==
    /\ Active(i)
    /\ IsParty(caller, i)
    /\ i \in disputed
    /\ now >= openedAt[i] + ExpireAfter
    /\ disputed' = disputed \ {i}
    /\ openedAt' = [openedAt EXCEPT ![i] = NeverOpened]
    /\ UNCHANGED <<now, funds, escrows, valueLocked, depositorEscrows, beneficiaryEscrows,
                   lastEscrowTime, fees, holderSet, appealed, arbiter, disputeCount,
                   claimantDisputes, mediationBps, resolverStats>>

\* Mutation: the comparison with the end of the waiting time is strict.
ExpireDispute_Late(caller, i) ==
    /\ Active(i)
    /\ IsParty(caller, i)
    /\ i \in disputed
    /\ now > openedAt[i] + ExpireAfter
    /\ disputed' = disputed \ {i}
    /\ appealed' = appealed \ {i}
    /\ openedAt' = [openedAt EXCEPT ![i] = NeverOpened]
    /\ UNCHANGED <<now, funds, escrows, valueLocked, depositorEscrows, beneficiaryEscrows,
                   lastEscrowTime, fees, holderSet, arbiter, disputeCount, claimantDisputes,
                   mediationBps, resolverStats>>

\* The escrow stays active: it can be released or refunded as before.
ExpireDispute(caller, i) ==
    /\ Active(i)
    /\ IsParty(caller, i)
    /\ i \in disputed
    /\ now >= openedAt[i] + ExpireAfter
    /\ disputed' = disputed \ {i}
    /\ appealed' = appealed \ {i}
    /\ openedAt' = [openedAt EXCEPT ![i] = NeverOpened]
    /\ UNCHANGED <<now, funds, escrows, valueLocked, depositorEscrows, beneficiaryEscrows,
                   lastEscrowTime, fees, holderSet, arbiter, disputeCount, claimantDisputes,
                   mediationBps, resolverStats>>

DisputeNext ==
    \/ \E a \in Arbiters : SetArbiter(a)
    \/ \E c \in Account, f \in FeeChoices : SetMediationFee(c, f)
    \/ \E c \in Account, i \in EscrowId : RaiseDispute(c, i)
    \/ \E c \in Account, i \in EscrowId, w \in Address : ResolveDispute(c, i, w)
    \/ \E c \in Account, i \in EscrowId : AppealDispute(c, i)
    \/ \E c \in Account, i \in EscrowId, w \in Address : ResolveAppeal(c, i, w)
    \/ \E c \in Account, i \in EscrowId : ExpireDispute(c, i)

=============================================================================
