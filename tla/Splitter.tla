------------------------------ MODULE Splitter ------------------------------
(***************************************************************************)
(* Payment splits (splitter.rs of the token crate), composed with the      *)
(* escrows that are backed by the same pool.  A sender locks an amount for *)
(* a list of recipients with shares in basis points; the sender alone      *)
(* distributes or cancels it.  The last recipient gets the rounding dust.  *)
(*                                                                         *)
(* The memo of create_split_with_memo is stored and read by nothing: the   *)
(* operation is CreateSplit.                                               *)
(***************************************************************************)
EXTENDS Escrow, SequencesExt

CONSTANTS
    RecipientLists,  \* recipient lists a sender may pass
    MaxRecipients,   \* 20
    MaxBulk,         \* 10, the limit of bulk_distribute
    MaxSplits        \* bound on SplitCount

Bps == 10000

Recipient == [address: Address, share_bps: Nat]

ASSUME SplitterAssumption ==
    /\ \A r \in RecipientLists : r \in Seq(Recipient)
    /\ MaxRecipients \in Nat
    /\ MaxBulk \in Nat
    /\ MaxSplits \in Nat

\* The shares before the last one, which takes what is left, do not exceed the
\* whole: create_split_with_escrow does not check it, and would leave the last
\* recipient a negative amount.  No entry point reaches that function.
ASSUME SharesAssumption ==
    \A r \in RecipientLists :
        SumFunctionOnSet([k \in DOMAIN r |-> r[k].share_bps], 1 .. Len(r) - 1) <= Bps

VARIABLES
    splits,            \* DataKey::Split(id); ids are 1 .. SplitCount
    recipientSplits,   \* DataKey::RecipientSplits(address), free of duplicates
    stats              \* DistributedCount, CancelledCount, TotalDistributedValue

splitVars == <<splits, recipientSplits, stats>>
otherVars == <<now, escrows, depositorEscrows, expiryWarned, escrowDispute>>
vars == <<now, ledger, escrows, depositorEscrows, expiryWarned, escrowDispute,
          splits, recipientSplits, stats>>

SplitId == 1 .. MaxSplits

Init ==
    /\ EscrowInit
    /\ splits = <<>>
    /\ recipientSplits = [a \in Address |-> {}]
    /\ stats = [distributed |-> 0, cancelled |-> 0, value |-> 0]

SplitExists(s) == s \in 1 .. Len(splits)
Closed(split) == split.distributed \/ split.cancelled
PaysTo(split) == {split.recipients[k].address : k \in DOMAIN split.recipients}

ValidRecipients(r) ==
    /\ Len(r) \in 1 .. MaxRecipients
    /\ \A k \in DOMAIN r : r[k].share_bps > 0
    /\ \A k, m \in DOMAIN r : r[k].address = r[m].address => k = m
    /\ SumFunctionOnSet([k \in DOMAIN r |-> r[k].share_bps], DOMAIN r) = Bps

CreateSplit(sender, recipients, total) ==
    /\ Len(splits) < MaxSplits
    /\ total > 0
    /\ ValidRecipients(recipients)
    /\ CanSpend(ledger, sender, total)
    /\ ledger' = Move(ledger, sender, Contract, total)
    /\ splits' = Append(splits,
                    [sender |-> sender, recipients |-> recipients, total_amount |-> total,
                     distributed |-> FALSE, cancelled |-> FALSE])
    /\ recipientSplits' = [a \in Address |->
                              IF a \in {recipients[k].address : k \in DOMAIN recipients}
                              THEN recipientSplits[a] \cup {Len(splits) + 1}
                              ELSE recipientSplits[a]]
    /\ UNCHANGED <<otherVars, stats>>

(***************************************************************************)
(* distribute, as a function on the state it reads and writes, so that     *)
(* bulk_distribute can apply it one split after the other.                 *)
(***************************************************************************)
Working == [ok |-> TRUE, ledger |-> ledger, splits |-> splits, stats |-> stats]
Failed(w) == [w EXCEPT !.ok = FALSE]

FloorShare(split, k) == (split.total_amount * split.recipients[k].share_bps) \div Bps

\* Mutation: the last recipient gets its rounded share like everybody else.
AmountToSend_NoDust(split, k) == FloorShare(split, k)

AmountToSend(split, k) ==
    IF k < Len(split.recipients) THEN FloorShare(split, k)
    ELSE split.total_amount
            - SumFunctionOnSet([m \in DOMAIN split.recipients |-> FloorShare(split, m)],
                               1 .. Len(split.recipients) - 1)

PayShare(w, split, k) ==
    LET amount == AmountToSend(split, k)
    IN  IF w.ok /\ CanSpend(w.ledger, Contract, amount)
        THEN [w EXCEPT !.ledger = Move(@, Contract, split.recipients[k].address, amount)]
        ELSE Failed(w)

\* Mutation: only the flag of an earlier distribution is looked at.
Distributed_Cancelled(w, caller, s) ==
    LET split == w.splits[s]
        marked == [w EXCEPT !.splits[s].distributed = TRUE,
                            !.stats.distributed = @ + 1,
                            !.stats.value = @ + split.total_amount]
        Pay(v, k) == PayShare(v, split, k)
    IN  IF w.ok /\ split.sender = caller /\ ~split.distributed
        THEN FoldLeftDomain(Pay, marked, split.recipients)
        ELSE Failed(w)

Distributed(w, caller, s) ==
    LET split == w.splits[s]
        marked == [w EXCEPT !.splits[s].distributed = TRUE,
                            !.stats.distributed = @ + 1,
                            !.stats.value = @ + split.total_amount]
        Pay(v, k) == PayShare(v, split, k)
    IN  IF w.ok /\ split.sender = caller /\ ~Closed(split)
        THEN FoldLeftDomain(Pay, marked, split.recipients)
        ELSE Failed(w)

Commit(w) ==
    /\ w.ok
    /\ ledger' = w.ledger
    /\ splits' = w.splits
    /\ stats' = w.stats
    /\ UNCHANGED <<otherVars, recipientSplits>>

Distribute(caller, s) ==
    /\ SplitExists(s)
    /\ Commit(Distributed(Working, caller, s))

\* An id that occurs twice fails the whole batch.
BulkDistribute(caller, ids) ==
    LET DistributeOne(w, s) == Distributed(w, caller, s)
    IN  /\ Len(ids) <= MaxBulk
        /\ \A k \in DOMAIN ids : SplitExists(ids[k]) /\ splits[ids[k]].sender = caller
        /\ Commit(FoldLeft(DistributeOne, Working, ids))

\* Mutation: a cancellation counts as a distribution in the statistics.
CancelSplit_Miscounted(caller, s) ==
    /\ SplitExists(s)
    /\ splits[s].sender = caller
    /\ ~Closed(splits[s])
    /\ CanSpend(ledger, Contract, splits[s].total_amount)
    /\ ledger' = Move(ledger, Contract, caller, splits[s].total_amount)
    /\ splits' = [splits EXCEPT ![s].cancelled = TRUE]
    /\ stats' = [stats EXCEPT !.distributed = @ + 1]
    /\ UNCHANGED <<otherVars, recipientSplits>>

CancelSplit(caller, s) ==
    /\ SplitExists(s)
    /\ splits[s].sender = caller
    /\ ~Closed(splits[s])
    /\ CanSpend(ledger, Contract, splits[s].total_amount)
    /\ ledger' = Move(ledger, Contract, caller, splits[s].total_amount)
    /\ splits' = [splits EXCEPT ![s].cancelled = TRUE]
    /\ stats' = [stats EXCEPT !.cancelled = @ + 1]
    /\ UNCHANGED <<otherVars, recipientSplits>>

ReplaceIn(recipients, old, new) ==
    [k \in DOMAIN recipients |->
        IF recipients[k].address = old THEN [recipients[k] EXCEPT !.address = new]
                                       ELSE recipients[k]]

\* Mutation: the old recipient keeps the split in its index.
ReplaceSplitRecipient_KeepsIndex(sender, s, old, new) ==
    /\ SplitExists(s)
    /\ ~Closed(splits[s])
    /\ splits[s].sender = sender
    /\ old # new
    /\ old \in PaysTo(splits[s])
    /\ new \notin PaysTo(splits[s])
    /\ splits' = [splits EXCEPT ![s].recipients = ReplaceIn(@, old, new)]
    /\ recipientSplits' = [recipientSplits EXCEPT ![new] = @ \cup {s}]
    /\ UNCHANGED <<otherVars, ledger, stats>>

ReplaceSplitRecipient(sender, s, old, new) ==
    /\ SplitExists(s)
    /\ ~Closed(splits[s])
    /\ splits[s].sender = sender
    /\ old # new
    /\ old \in PaysTo(splits[s])
    /\ new \notin PaysTo(splits[s])
    /\ splits' = [splits EXCEPT ![s].recipients = ReplaceIn(@, old, new)]
    /\ recipientSplits' = [recipientSplits EXCEPT ![old] = @ \ {s}, ![new] = @ \cup {s}]
    /\ UNCHANGED <<otherVars, ledger, stats>>

\* No split is stored, but an escrow for every recipient; unlike create_escrow,
\* neither shares, parties nor expiry are checked, and the depositor's index is
\* not written.
CreateSplitWithEscrow(sender, recipients, total, expiry) ==
    LET split == [total_amount |-> total, recipients |-> recipients]
        escrow(k) == [depositor |-> sender, beneficiary |-> recipients[k].address,
                      amount |-> AmountToSend(split, k), released |-> FALSE, refunded |-> FALSE,
                      expiry_ledger |-> expiry]
    IN  /\ Len(escrows) + Len(recipients) <= MaxEscrows
        /\ total > 0
        /\ recipients # <<>>
        /\ CanSpend(ledger, sender, total)
        /\ ledger' = Move(ledger, sender, Contract, total)
        /\ escrows' = escrows \o [k \in DOMAIN recipients |-> escrow(k)]
        /\ UNCHANGED <<now, depositorEscrows, expiryWarned, escrowDispute, splitVars>>

SplitNext ==
    \/ \E c \in Account, r \in RecipientLists, x \in Amounts : CreateSplit(c, r, x)
    \/ \E c \in Account, r \in RecipientLists, x \in Amounts, e \in Ledger :
          CreateSplitWithEscrow(c, r, x, e)
    \/ \E c \in Account, s \in SplitId : Distribute(c, s)
    \/ \E c \in Account, ids \in SeqOf(SplitId, MaxBulk + 1) : BulkDistribute(c, ids)
    \/ \E c \in Account, s \in SplitId : CancelSplit(c, s)
    \/ \E c \in Account, s \in SplitId, old, new \in Beneficiaries :
          ReplaceSplitRecipient(c, s, old, new)

Next ==
    \/ SplitNext
    \/ EscrowNext /\ UNCHANGED splitVars

Spec == Init /\ [][Next]_vars

-----------------------------------------------------------------------------
(***************************************************************************)
(* Properties.                                                             *)
(***************************************************************************)

SplitRecord ==
    [sender: Account, recipients: Seq(Recipient), total_amount: Nat,
     distributed: BOOLEAN, cancelled: BOOLEAN]

\* Every stored record, index, counter and balance has its type, and the
\* lists stay valid when a recipient is replaced.
TypeOK ==
    /\ ledger \in LedgerType
    /\ \A s \in DOMAIN splits : splits[s] \in SplitRecord /\ ValidRecipients(splits[s].recipients)
    /\ Len(splits) <= MaxSplits
    /\ recipientSplits \in [Address -> SUBSET SplitId]
    /\ stats \in [distributed: Nat, cancelled: Nat, value: Nat]

OpenSplits == {s \in DOMAIN splits : ~Closed(splits[s])}
TotalOf(ids) == SumFunctionOnSet([s \in ids |-> splits[s].total_amount], ids)

\* The counters of splitter_stats, maintained apart from the records, agree
\* with them after every mix of single, bulk and failed operations.  The
\* records are well-typed.
StatsMatchRecords ==
    LET distributed == {s \in DOMAIN splits : splits[s].distributed}
    IN  /\ TypeOK
        /\ stats.distributed = Cardinality(distributed)
        /\ stats.cancelled = Cardinality({s \in DOMAIN splits : splits[s].cancelled})
        /\ stats.value = TotalOf(distributed)

\* get_splits_for_recipient returns the splits that name the address now,
\* also after recipients were replaced to and fro.
RecipientIndexExact ==
    \A a \in Address : recipientSplits[a] = {s \in DOMAIN splits : a \in PaysTo(splits[s])}

Gain(a) == ledger'.balance[a] - ledger.balance[a]

FairStep ==
    \A s \in OpenSplits :
        (splits' = [splits EXCEPT ![s].distributed = TRUE]) /\ Contract \notin PaysTo(splits[s])
            => /\ \A k \in DOMAIN splits[s].recipients :
                     LET extra == Gain(splits[s].recipients[k].address) - FloorShare(splits[s], k)
                     IN  /\ extra \in 0 .. Len(splits[s].recipients) - 1
                         /\ k < Len(splits[s].recipients) => extra = 0
               /\ SumFunctionOnSet([a \in PaysTo(splits[s]) |-> Gain(a)], PaysTo(splits[s]))
                     = splits[s].total_amount

\* A distribution pays every recipient its share rounded down, the last one
\* at most one unit of dust for each of the others on top, and the whole
\* amount in all, whoever was put into the list since the split was made.
FairShares == [][FairStep]_vars

=============================================================================
