----------------------------- MODULE PaySplitter -----------------------------
(***************************************************************************)
(* Payment splits of the root crate (splitter.rs) and its pause switch     *)
(* (pause.rs), which distribute_split alone looks at here.  The sender or  *)
(* the admin distributes or cancels; the first recipient gets the rounding *)
(* dust.  Zero shares and duplicate recipients are accepted.  contract.rs  *)
(* exports cancellation and replacement; tests call the other two.         *)
(*                                                                         *)
(* Split ids start at 0 in the code and at 1 here.  event_ledger is        *)
(* checked at creation and read by nothing afterwards.                     *)
(***************************************************************************)
EXTENDS PayEscrow

CONSTANTS
    SplitLists,   \* lists of (address, share_bps) of create_split
    PauseChoices, \* values an admin may give the pause switch
    MaxSplits     \* bound on SplitCount

ASSUME PaySplitterAssumption ==
    /\ MaxSplits \in Nat /\ PauseChoices \subseteq BOOLEAN
    /\ SplitLists \subseteq Seq([address: Address, share_bps: Nat])

VARIABLES
    splits,   \* DataKey::Split(id)
    paused    \* DataKey::Paused

splitVars == <<splits, paused>>

SplitId == 1 .. MaxSplits

SplitInit == splits = <<>> /\ paused = FALSE

OpenSplit(s) == s \in DOMAIN splits /\ ~splits[s].distributed /\ ~splits[s].cancelled
MayRunSplit(caller, s) == caller \in {splits[s].sender, Admin}

SetPaused(admin, value) ==
    /\ admin = Admin
    /\ paused' = value
    /\ UNCHANGED <<now, escrowVars, splits>>

CreateSplit(sender, r, total, eventLedger) ==
    /\ Len(splits) < MaxSplits
    /\ r # <<>>
    /\ eventLedger > now
    /\ SumFunctionOnSet([k \in DOMAIN r |-> r[k].share_bps], DOMAIN r) = Bps
    /\ total > 0
    /\ CanPay(funds, sender, total)
    /\ funds' = Moved(funds, sender, Contract, total)
    /\ splits' = Append(splits, [sender |-> sender, recipients |-> r, total_amount |-> total,
                                 distributed |-> FALSE, cancelled |-> FALSE])
    /\ UNCHANGED <<fundsAside, paused>>

\* Everybody's share rounded down, then the rest to the first.
SplitPayments(split) ==
    LET r == split.recipients
        share == [k \in DOMAIN r |-> (split.total_amount * r[k].share_bps) \div Bps]
        parts == [k \in DOMAIN r |-> [address |-> r[k].address, share |-> share[k]]]
        dust == split.total_amount - SumFunctionOnSet(share, DOMAIN r)
    IN  Disburse(DisburseAll(Purse, parts), r[1].address, dust)

\* Mutation: a cancelled split can still be distributed.
DistributeSplit_Cancelled(caller, s) ==
    /\ ~paused
    /\ s \in DOMAIN splits /\ ~splits[s].distributed
    /\ MayRunSplit(caller, s)
    /\ splits' = [splits EXCEPT ![s].distributed = TRUE]
    /\ Paid(SplitPayments(splits[s]))
    /\ UNCHANGED <<fundsAside, paused>>

DistributeSplit(caller, s) ==
    /\ ~paused
    /\ OpenSplit(s)
    /\ MayRunSplit(caller, s)
    /\ splits' = [splits EXCEPT ![s].distributed = TRUE]
    /\ Paid(SplitPayments(splits[s]))
    /\ UNCHANGED <<fundsAside, paused>>

CancelSplit(caller, s) ==
    /\ OpenSplit(s)
    /\ MayRunSplit(caller, s)
    /\ splits' = [splits EXCEPT ![s].cancelled = TRUE]
    /\ Paid(Disburse(Purse, splits[s].sender, splits[s].total_amount))
    /\ UNCHANGED <<fundsAside, paused>>

\* The first entry of the old recipient changes hands with its share.
ReplaceSplitRecipient(sender, s, old, new) ==
    /\ OpenSplit(s)
    /\ sender = splits[s].sender
    /\ LET r == splits[s].recipients
           at(a) == {k \in DOMAIN r : r[k].address = a}
       IN  /\ at(old) # {} /\ at(new) = {}
           /\ splits' = [splits EXCEPT ![s].recipients[Min(at(old))].address = new]
    /\ UNCHANGED <<now, escrowVars, paused>>

SplitNext ==
    \/ \E c \in Account, b \in PauseChoices : SetPaused(c, b)
    \/ \E c \in Depositors, r \in SplitLists, x \in Amounts, e \in Ledger : CreateSplit(c, r, x, e)
    \/ \E c \in Account, s \in SplitId : DistributeSplit(c, s)
    \/ \E c \in Account, s \in SplitId : CancelSplit(c, s)
    \/ \E c \in Account, s \in SplitId, old \in Address, new \in Parties :
          ReplaceSplitRecipient(c, s, old, new)

OwedToSplits ==
    LET open == {s \in DOMAIN splits : OpenSplit(s)}
    IN  SumFunctionOnSet([s \in open |-> splits[s].total_amount], open)

==============================================================================
