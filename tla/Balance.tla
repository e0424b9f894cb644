------------------------------- MODULE Balance -------------------------------
(***************************************************************************)
(* Per-address token balances and the set of token holders (balance.rs of  *)
(* the token crate).  The contract's own address is an address like any    *)
(* other: its balance is the pool that backs escrows and splits.           *)
(*                                                                         *)
(* A transaction that panics leaves no trace, so the panics of spend and   *)
(* receive appear as guards (CanSpend) of the actions that call them.  The *)
(* checked_add of receive_balance cannot fail: the sum of all balances is  *)
(* the total supply, which increase_supply keeps inside an i128 (module    *)
(* TokenServices, where the sum may exceed it, says so itself).            *)
(***************************************************************************)
EXTENDS Host, Functions

VARIABLE
    ledger      \* DataKey::Balance and DataKey::HolderSet

LedgerType == [balance: [Address -> Nat], holders: SUBSET Address]

(***************************************************************************)
(* The holder vector is kept free of duplicates; its order is irrelevant.  *)
(***************************************************************************)
UpdateHolderSet(l, a) ==
    [l EXCEPT !.holders = IF l.balance[a] > 0 THEN @ \cup {a} ELSE @ \ {a}]

Receive(l, a, amount) ==
    LET paid == [l EXCEPT !.balance[a] = @ + amount]
    IN  IF l.balance[a] = 0 THEN UpdateHolderSet(paid, a) ELSE paid

\* Mutation: the comparison of spend_balance is off by one.
CanSpend_OffByOne(l, a, amount) == l.balance[a] + 1 >= amount

CanSpend(l, a, amount) == l.balance[a] >= amount

\* Mutation: an emptied account stays in the holder set.
Spend_KeepsHolder(l, a, amount) == [l EXCEPT !.balance[a] = @ - amount]

Spend(l, a, amount) ==
    LET spent == [l EXCEPT !.balance[a] = @ - amount]
    IN  IF spent.balance[a] = 0 THEN UpdateHolderSet(spent, a) ELSE spent

\* The holder set holds exactly the addresses with a positive balance.
HolderSetExact(l) == l.holders = {a \in Address : l.balance[a] > 0}

\* All tokens there are.
Held(l) == SumFunctionOnSet(l.balance, Address)

\* A spend_balance followed by a receive_balance of the same amount.
Move(l, from, to, amount) == Receive(Spend(l, from, amount), to, amount)

=============================================================================
