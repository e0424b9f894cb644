--------------------------- MODULE SplitterCustody ---------------------------
(***************************************************************************)
(* Escrows and splits implement custody: the contract's balance stands for *)
(* the vaults of the active escrows and of the open splits and, beyond     *)
(* them, its own wallet.                                                   *)
(***************************************************************************)
EXTENDS Splitter

Claim == ({"escrow"} \X EscrowId) \cup ({"split"} \X SplitId)

Owed(c) ==
    IF c[1] = "escrow"
    THEN IF Active(c[2]) THEN escrows[c[2]].amount ELSE 0
    ELSE IF c[2] \in OpenSplits THEN splits[c[2]].total_amount ELSE 0

Vaults == [c \in Claim |-> Owed(c)]
Wallets == [ledger.balance EXCEPT ![Contract] = @ - SumFunctionOnSet(Vaults, Claim)]
PaidClaims ==
    {c \in Claim : IF c[1] = "escrow" THEN Exists(c[2]) /\ Settled(c[2])
                                     ELSE SplitExists(c[2]) /\ Closed(splits[c[2]])}

Pooled == INSTANCE Custody WITH
    Holder <- Address, DepositId <- Claim,
    wallet <- Wallets, vault <- Vaults, closed <- PaidClaims

\* The pool that backs escrows and splits behaves as if each had a vault of
\* its own: whatever mix of releases, refunds, single and bulk distributions
\* and cancellations, a split is paid out once and never with the money of
\* another claim.
ImplementsCustody == Pooled!Spec

===============================================================================
