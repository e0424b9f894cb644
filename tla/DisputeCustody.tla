---------------------------- MODULE DisputeCustody ----------------------------
(***************************************************************************)
(* Escrows and disputes implement custody: the contract's balance stands   *)
(* for the vaults of the active escrows and, beyond them, its own wallet.  *)
(***************************************************************************)
EXTENDS Dispute

Wallets == [a \in Address |-> IF a = Contract
                              THEN ledger.balance[a] - EscrowStats.total_value_locked
                              ELSE ledger.balance[a]]
Vaults == [i \in EscrowId |-> IF Active(i) THEN escrows[i].amount ELSE 0]
Closed == {i \in 1 .. Len(escrows) : Settled(i)}

Pooled == INSTANCE Custody WITH
    Holder <- Address, DepositId <- EscrowId,
    wallet <- Wallets, vault <- Vaults, closed <- Closed

\* The one balance that backs all escrows behaves as if each escrow had a
\* vault of its own: an escrow is paid out once, completely and from its own
\* deposit, a settled one takes no deposit any more, and what an overturned
\* appeal moves lies outside the vaults.  In particular the balance always
\* covers the active escrows.
ImplementsCustody == Pooled!Spec

===============================================================================
