------------------------------ MODULE TokenBatch ------------------------------
(***************************************************************************)
(* The batch entry points of the token (batch.rs).  A batch is a loop over *)
(* its entries inside one transaction: each entry sees the effects of the  *)
(* ones before it, and one entry that panics undoes them all.  The loops   *)
(* are folds over a working copy of the storage whose field ok turns FALSE *)
(* at the first panic.  freeze_batch and unfreeze_batch call the functions *)
(* that never succeed (see module Token) and have no step.                 *)
(***************************************************************************)
EXTENDS Token, SequencesExt

CONSTANT MaxBatch     \* MAX_BATCH_TARGETS and MAX_APPROVE_BATCH

ASSUME BatchAssumption == MaxBatch \in Nat

Working == [ok |-> TRUE, ledger |-> ledger, supply |-> totalSupply, allowances |-> allowances]
Failed(w) == [w EXCEPT !.ok = FALSE]

Commit(w) ==
    /\ w.ok
    /\ ledger' = w.ledger
    /\ totalSupply' = w.supply
    /\ allowances' = w.allowances
    /\ UNCHANGED <<now, adminVars, maxSupply, flagVars>>

\* spend_balance and decrease_supply of one entry.
BurnEntry(w, from, amount) ==
    IF w.ok /\ CanSpend(w.ledger, from, amount) /\ w.supply >= amount
    THEN [w EXCEPT !.ledger = Spend(@, from, amount), !.supply = @ - amount]
    ELSE Failed(w)

\* Mutation: an entry may name the contract's own address.
ClawbackEntry_FromPool(w, entry) ==
    IF entry.amount > 0 THEN BurnEntry(w, entry.address, entry.amount) ELSE Failed(w)

ClawbackEntry(w, entry) ==
    IF entry.address # Contract /\ entry.amount > 0
    THEN BurnEntry(w, entry.address, entry.amount)
    ELSE Failed(w)

ClawbackBatch(caller, targets) ==
    /\ CheckAdmin(caller)
    /\ Cosigned
    /\ Commit(FoldLeft(ClawbackEntry, Working, targets))

\* Unlike mint, neither the pause flag nor the recipient is looked at.
MintBatch(caller, recipients) ==
    LET MintEntry(w, entry) ==
            IF /\ w.ok
               /\ entry.amount > 0
               /\ w.supply + entry.amount <= I128Max
               /\ maxSupply > 0 => w.supply + entry.amount <= maxSupply
            THEN [w EXCEPT !.ledger = Receive(@, entry.address, entry.amount),
                           !.supply = @ + entry.amount]
            ELSE Failed(w)
    IN  /\ CheckAdmin(caller)
        /\ Commit(FoldLeft(MintEntry, Working, recipients))

\* Neither the pause flag nor the freeze flag is looked at.
BurnFromBatch(spender, targets) ==
    LET BurnFromEntry(w, entry) ==
            IF /\ entry.amount > 0
               /\ CanSpendAllowance(w.allowances, entry.address, spender, entry.amount)
            THEN BurnEntry([w EXCEPT !.allowances =
                               SpendAllowance(@, entry.address, spender, entry.amount)],
                           entry.address, entry.amount)
            ELSE Failed(w)
    IN  Commit(FoldLeft(BurnFromEntry, Working, targets))

ApproveBatch(from, approvals) ==
    LET ApproveEntry(w, entry) ==
            IF entry.expiration >= now
            THEN [w EXCEPT !.allowances = WriteAllowance(@, from, entry.address, entry.amount,
                                                         entry.expiration)]
            ELSE Failed(w)
    IN  Commit(FoldLeft(ApproveEntry, Working, approvals))

BatchTotal(recipients) == FoldLeft(LAMBDA x, entry : x + entry.amount, 0, recipients)

ReceiveEntry(l, entry) == Receive(l, entry.address, entry.amount)

\* The sum is taken from the sender first, then paid out entry by entry;
\* transfer_batch does the same without a memo.
\* Neither the pause flag nor the freeze flag is looked at, and a recipient
\* may be the contract or the sender.
TransferBatchWithMemo(from, recipients) ==
    /\ \A k \in DOMAIN recipients : recipients[k].amount > 0
    /\ BatchTotal(recipients) <= I128Max
    /\ CanSpend(ledger, from, BatchTotal(recipients))
    /\ ledger' = FoldLeft(ReceiveEntry, Spend(ledger, from, BatchTotal(recipients)), recipients)
    /\ UNCHANGED <<now, allowances, adminVars, supplyVars, flagVars>>

Targets == BoundedSeq([address: Recipients, amount: Amounts], MaxBatch)
Approvals == BoundedSeq([address: Spenders, amount: Amounts, expiration: Ledger], MaxBatch)

BatchNext ==
    \/ \E c \in Account, b \in Targets : ClawbackBatch(c, b)
    \/ \E c \in Account, b \in Targets : MintBatch(c, b)
    \/ \E s \in Account, b \in Targets : BurnFromBatch(s, b)
    \/ \E f \in Account, b \in Approvals : ApproveBatch(f, b)
    \/ \E f \in Account, b \in Targets : TransferBatchWithMemo(f, b)

==============================================================================
