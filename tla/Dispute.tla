------------------------------- MODULE Dispute -------------------------------
(***************************************************************************)
(* Disputes over escrows (dispute.rs of the token crate), composed with    *)
(* the escrows they are about.  A party of an active escrow names a        *)
(* resolver; the resolver settles the escrow, or anybody expires the       *)
(* dispute in the depositor's favour; the claimant may appeal a resolution *)
(* to a second resolver, who may move the money from one party to the      *)
(* other.                                                                  *)
(*                                                                         *)
(* Evidence, resolution notes and opened_at_ledger are stored and read by  *)
(* nothing; they are left out.                                             *)
(***************************************************************************)
EXTENDS Escrow

CONSTANTS
    Resolvers,      \* addresses a caller may name as resolver
    NoResolver,     \* appeal_resolver: None
    MaxDisputes     \* bound on DisputeCount

ASSUME DisputeAssumption ==
    /\ Resolvers \subseteq Address
    /\ NoResolver \notin Address
    /\ MaxDisputes \in Nat

VARIABLES
    disputes,        \* DataKey::Dispute(id); ids are 1 .. DisputeCount
    disputeHistory,  \* DataKey::EscrowDisputeHistory(escrow id)
    openDisputes     \* DataKey::OpenDisputes: how often the vector holds an id

disputeVars == <<disputes, disputeHistory, openDisputes>>
vars == <<now, ledger, escrows, depositorEscrows, expiryWarned, escrowDispute,
          disputes, disputeHistory, openDisputes>>

DisputeId == 1 .. MaxDisputes

DisputeStatus == {"Open", "Appealed", "ResolvedForBeneficiary",
                  "ResolvedForDepositor", "Expired"}

DisputeRecord ==
    [escrow_id: EscrowId, claimant: Account, resolver: Address,
     status: DisputeStatus, expiry_ledger: Ledger,
     appeal_resolver: Address \cup {NoResolver}]

Init ==
    /\ EscrowInit
    /\ disputes = <<>>
    /\ disputeHistory = [i \in EscrowId |-> <<>>]
    /\ openDisputes = [d \in DisputeId |-> 0]

DisputeExists(d) == d \in 1 .. Len(disputes)

AppendOpenDispute(d) == openDisputes' = [openDisputes EXCEPT ![d] = @ + 1]

\* Mutation: a closed dispute is not taken off the vector.
RemoveOpenDispute_Skipped(d) == UNCHANGED openDisputes

RemoveOpenDispute(d) == openDisputes' = [openDisputes EXCEPT ![d] = 0]

SettleEscrowByOutcome(i, releaseToBeneficiary) ==
    /\ GetEscrow(i)
    /\ IF releaseToBeneficiary THEN SettleReleased(i, escrows[i].beneficiary)
                               ELSE SettleRefunded(i)

\* Mutation: the check for an existing dispute is missing.
OpenDispute_Again(claimant, i, resolver, expiry) ==
    /\ Len(disputes) < MaxDisputes
    /\ expiry > now
    /\ GetEscrow(i)
    /\ ~Settled(i)
    /\ claimant \in {escrows[i].depositor, escrows[i].beneficiary}
    /\ resolver \notin {claimant, escrows[i].depositor, escrows[i].beneficiary}
    /\ LET d == Len(disputes) + 1
       IN  /\ disputes' = Append(disputes,
                             [escrow_id |-> i, claimant |-> claimant,
                              resolver |-> resolver, status |-> "Open",
                              expiry_ledger |-> expiry,
                              appeal_resolver |-> NoResolver])
           /\ escrowDispute' = [escrowDispute EXCEPT ![i] = d]
           /\ disputeHistory' = [disputeHistory EXCEPT ![i] = Append(@, d)]
           /\ AppendOpenDispute(d)
    /\ UNCHANGED <<now, ledger, escrows, depositorEscrows>>

OpenDispute(claimant, i, resolver, expiry) ==
    /\ Len(disputes) < MaxDisputes
    /\ expiry > now
    /\ GetEscrow(i)
    /\ ~Settled(i)
    /\ claimant \in {escrows[i].depositor, escrows[i].beneficiary}
    /\ resolver \notin {claimant, escrows[i].depositor, escrows[i].beneficiary}
    /\ escrowDispute[i] = NoDispute
    /\ LET d == Len(disputes) + 1
       IN  /\ disputes' = Append(disputes,
                             [escrow_id |-> i, claimant |-> claimant,
                              resolver |-> resolver, status |-> "Open",
                              expiry_ledger |-> expiry,
                              appeal_resolver |-> NoResolver])
           /\ escrowDispute' = [escrowDispute EXCEPT ![i] = d]
           /\ disputeHistory' = [disputeHistory EXCEPT ![i] = Append(@, d)]
           /\ AppendOpenDispute(d)
    /\ UNCHANGED <<now, ledger, escrows, depositorEscrows>>

\* Mutation: the EscrowDispute key survives the resolution.
CloseDispute_KeepsLink(d, releaseToBeneficiary, status) ==
    /\ disputes[d].status = "Open"
    /\ SettleEscrowByOutcome(disputes[d].escrow_id, releaseToBeneficiary)
    /\ disputes' = [disputes EXCEPT ![d].status = status]
    /\ RemoveOpenDispute(d)
    /\ UNCHANGED <<now, depositorEscrows, escrowDispute, disputeHistory>>

\* Settles the escrow, closes the dispute with the given status and drops it
\* from EscrowDispute and from OpenDisputes.
CloseDispute(d, releaseToBeneficiary, status) ==
    /\ disputes[d].status = "Open"
    /\ SettleEscrowByOutcome(disputes[d].escrow_id, releaseToBeneficiary)
    /\ disputes' = [disputes EXCEPT ![d].status = status]
    /\ escrowDispute' = [escrowDispute EXCEPT ![disputes[d].escrow_id] = NoDispute]
    /\ RemoveOpenDispute(d)
    /\ UNCHANGED <<now, depositorEscrows, disputeHistory>>

ResolvedFor(releaseToBeneficiary) ==
    IF releaseToBeneficiary THEN "ResolvedForBeneficiary" ELSE "ResolvedForDepositor"

ResolveDispute(resolver, d, releaseToBeneficiary) ==
    /\ DisputeExists(d)
    /\ resolver = disputes[d].resolver
    /\ CloseDispute(d, releaseToBeneficiary, ResolvedFor(releaseToBeneficiary))

\* The note is stored in the record and read by nothing.
ResolveDisputeWithNote(resolver, d, releaseToBeneficiary) ==
    /\ DisputeExists(d)
    /\ resolver = disputes[d].resolver
    /\ CloseDispute(d, releaseToBeneficiary, ResolvedFor(releaseToBeneficiary))

\* Mutation: the expiry ledger itself no longer counts as expired.
ExpireDispute_Late(d) ==
    /\ DisputeExists(d)
    /\ now > disputes[d].expiry_ledger
    /\ CloseDispute(d, FALSE, "Expired")

ExpireDispute(d) ==
    /\ DisputeExists(d)
    /\ now >= disputes[d].expiry_ledger
    /\ CloseDispute(d, FALSE, "Expired")

AppealDispute(caller, d, appealResolver) ==
    /\ DisputeExists(d)
    /\ disputes[d].status \in {"ResolvedForBeneficiary", "ResolvedForDepositor"}
    /\ caller = disputes[d].claimant
    /\ appealResolver \notin {disputes[d].claimant, disputes[d].resolver}
    /\ disputes' = [disputes EXCEPT ![d].status = "Appealed",
                                    ![d].appeal_resolver = appealResolver]
    /\ AppendOpenDispute(d)
    /\ UNCHANGED <<escrowVars, disputeHistory>>

\* Mutation: the reversed settlement only sets the new flag.
Overturn_KeepsFlag(i) ==
    LET paid == escrows[i].released
        from == IF paid THEN escrows[i].beneficiary ELSE escrows[i].depositor
        to   == IF paid THEN escrows[i].depositor ELSE escrows[i].beneficiary
    IN  /\ CanSpend(ledger, from, escrows[i].amount)
        /\ ledger' = Move(ledger, from, to, escrows[i].amount)
        /\ escrows' = [escrows EXCEPT ![i].released = @ \/ ~paid, ![i].refunded = @ \/ paid]

\* Takes the amount from the party that was paid and gives it to the other.
Overturn(i) ==
    LET paid == escrows[i].released
        from == IF paid THEN escrows[i].beneficiary ELSE escrows[i].depositor
        to   == IF paid THEN escrows[i].depositor ELSE escrows[i].beneficiary
    IN  /\ CanSpend(ledger, from, escrows[i].amount)
        /\ ledger' = Move(ledger, from, to, escrows[i].amount)
        /\ escrows' = [escrows EXCEPT ![i].released = ~paid, ![i].refunded = paid]

ResolveAppeal(resolver, d, overturn) ==
    /\ DisputeExists(d)
    /\ disputes[d].status = "Appealed"
    /\ resolver = disputes[d].appeal_resolver
    /\ LET i == disputes[d].escrow_id
       IN  /\ GetEscrow(i)
           /\ IF overturn
              THEN /\ Overturn(i)
                   /\ disputes' = [disputes EXCEPT
                                     ![d].status = ResolvedFor(~escrows[i].released),
                                     ![d].appeal_resolver = NoResolver]
              ELSE /\ disputes' = [disputes EXCEPT ![d].appeal_resolver = NoResolver]
                   /\ UNCHANGED <<ledger, escrows>>
    /\ RemoveOpenDispute(d)
    /\ UNCHANGED <<now, depositorEscrows, escrowDispute, disputeHistory>>

DisputeNext ==
    \/ \E c \in Account, i \in EscrowId, r \in Resolvers, e \in Ledger :
          OpenDispute(c, i, r, e)
    \/ \E r \in Account, d \in DisputeId, b \in BOOLEAN : ResolveDispute(r, d, b)
    \/ \E r \in Account, d \in DisputeId, b \in BOOLEAN : ResolveDisputeWithNote(r, d, b)
    \/ \E d \in DisputeId : ExpireDispute(d)
    \/ \E c \in Account, d \in DisputeId, r \in Resolvers : AppealDispute(c, d, r)
    \/ \E r \in Account, d \in DisputeId, o \in BOOLEAN : ResolveAppeal(r, d, o)

Next == (EscrowNext /\ UNCHANGED disputeVars) \/ DisputeNext

Spec == Init /\ [][Next]_vars

(***************************************************************************)
(* Ledgers keep closing, and somebody (a party, a keeper) calls            *)
(* expire_dispute on a dispute for as long as the call would succeed:      *)
(* "Anyone can call this after `expiry_ledger` has passed".  Nobody else   *)
(* is assumed to act.                                                      *)
(***************************************************************************)
Fairness == WF_vars(Tick /\ UNCHANGED disputeVars)
            /\ \A d \in DisputeId : WF_vars(ExpireDispute(d))

LiveSpec == Spec /\ Fairness

-----------------------------------------------------------------------------
(***************************************************************************)
(* Properties.                                                             *)
(***************************************************************************)

\* Every stored record, index and balance has the shape storage_types.rs
\* gives it; balances are never negative and a link never points past the
\* last dispute.
TypeOK ==
    /\ now \in Ledger
    /\ ledger \in LedgerType
    /\ escrows \in Seq(EscrowRecord) /\ Len(escrows) <= MaxEscrows
    /\ depositorEscrows \in [Address -> Seq(EscrowId)]
    /\ expiryWarned \subseteq EscrowId
    /\ escrowDispute \in [EscrowId -> DisputeId \cup {NoDispute}]
    /\ disputes \in Seq(DisputeRecord) /\ Len(disputes) <= MaxDisputes
    /\ disputeHistory \in [EscrowId -> Seq(DisputeId)]
    /\ openDisputes \in [DisputeId -> Nat]

\* An escrow is never both released and refunded, a closed dispute's status
\* tells which of the two its escrow is, and an appealed one is settled.
OutcomeRecorded ==
    /\ \A i \in 1 .. Len(escrows) : ~(escrows[i].released /\ escrows[i].refunded)
    /\ \A d \in 1 .. Len(disputes) :
          LET i == disputes[d].escrow_id
          IN  /\ Exists(i)
              /\ disputes[d].status = "ResolvedForBeneficiary" => escrows[i].released
              /\ disputes[d].status \in {"ResolvedForDepositor", "Expired"}
                    => escrows[i].refunded
              /\ disputes[d].status = "Appealed" => Settled(i)

\* EscrowDispute(i) = d exactly when d is an open dispute over escrow i: the
\* key that blocks refunds and top-ups is neither lost nor left behind by
\* any order of opening, resolving, expiring and appealing.
LinkIsOpenDispute ==
    \A i \in EscrowId, d \in DisputeId :
        escrowDispute[i] = d
            <=> DisputeExists(d) /\ disputes[d].escrow_id = i /\ disputes[d].status = "Open"

\* However parties, resolvers and the admin interleave, an escrow is disputed
\* at most once in its life, and its history is that one dispute.
OneDisputePerEscrow ==
    /\ \A d, f \in 1 .. Len(disputes) :
          disputes[d].escrow_id = disputes[f].escrow_id => d = f
    /\ \A i \in EscrowId :
          \/ disputeHistory[i] = <<>> /\ \A d \in 1 .. Len(disputes) : disputes[d].escrow_id # i
          \/ \E d \in 1 .. Len(disputes) : disputes[d].escrow_id = i /\ disputeHistory[i] = <<d>>

\* OpenDisputes lists exactly the disputes somebody still has to decide, the
\* open ones and the appeals with a resolver, each once: append_open_dispute
\* does not check for duplicates, so this depends on the order of the calls.
OpenIndexExact ==
    \A d \in DisputeId :
        openDisputes[d] =
            IF /\ DisputeExists(d)
               /\ \/ disputes[d].status = "Open"
                  \/ disputes[d].status = "Appealed" /\ disputes[d].appeal_resolver # NoResolver
            THEN 1 ELSE 0

\* DepositorEscrows lists a depositor's escrows in creation order, each once,
\* so that what the views escrowed_value_for_depositor and escrow_between
\* compute from it is what a scan of all records would give.
DepositorIndexExact ==
    \A a \in Account :
        LET own == {i \in 1 .. Len(escrows) : escrows[i].depositor = a}
            active(b) == {i \in own : ~Settled(i) /\ escrows[i].beneficiary = b}
        IN  /\ EscrowedValueForDepositor(a) = ValueOf(own \cap ActiveEscrows)
            /\ \A b \in Address :
                  EscrowBetween(a, b) = IF active(b) = {} THEN NoEscrow ELSE Min(active(b))

\* The holder set is exactly the addresses with a positive balance, the
\* contract's pool included.
HoldersExact == HolderSetExact(ledger)

SettledStep ==
    \A j \in 1 .. Len(escrows) : Settled(j) =>
        \/ escrows'[j] = escrows[j]
        \/ /\ \E d \in 1 .. Len(disputes) :
                 disputes[d].escrow_id = j /\ disputes[d].status = "Appealed"
                 /\ disputes'[d].status # "Appealed"
           /\ escrows'[j] = [escrows[j] EXCEPT !.released = ~@, !.refunded = ~@]

\* A settled escrow never becomes active again and its amount is final; only
\* an overturned appeal touches it, and then release becomes refund or
\* refund release.
SettlementIsFinal == [][SettledStep]_vars

RefundStep ==
    \A j \in 1 .. Len(escrows) :
        ~escrows[j].refunded /\ escrows'[j].refunded => escrowDispute'[j] = NoDispute

\* While a dispute is open the depositor cannot take the money back: an escrow
\* under dispute is refunded only by the step that closes the dispute.
RefundClosesDispute == [][RefundStep]_vars

\* An escrow under an open dispute is settled in the end even if the resolver
\* and both parties disappear.
DisputedEscrowSettles ==
    \A i \in EscrowId : (Active(i) /\ escrowDispute[i] # NoDispute) ~> (Exists(i) /\ Settled(i))

==============================================================================
