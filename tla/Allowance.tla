------------------------------ MODULE Allowance ------------------------------
(***************************************************************************)
(* Allowances of the token crate (allowance.rs) and the two indexes kept   *)
(* beside them: the owners who approved a spender, and the spenders an     *)
(* owner approved.  The index vectors hold no duplicates and their order   *)
(* is irrelevant, so they are sets.  An absent key reads as an allowance   *)
(* of zero, and a zero allowance is never stored.                          *)
(***************************************************************************)
EXTENDS Host

VARIABLE
    allowances   \* Allowance, SpenderAllowances and OwnerAllowances keys

AllowanceValue == [amount: Nat, expiration_ledger: Ledger]

NoAllowance == [amount |-> 0, expiration_ledger |-> 0]

AllowancesType ==
    [value: [Address -> [Address -> AllowanceValue]],   \* by owner, then spender
     bySpender: [Address -> SUBSET Address],
     byOwner: [Address -> SUBSET Address]]

NoAllowances ==
    [value |-> [o \in Address |-> [s \in Address |-> NoAllowance]],
     bySpender |-> [a \in Address |-> {}],
     byOwner |-> [a \in Address |-> {}]]

\* The view allowance: reading an expired entry removes it from storage and
\* leaves the indexes alone.
PruneAllowance(l, from, spender) ==
    IF l.value[from][spender].expiration_ledger < now
    THEN [l EXCEPT !.value[from][spender] = NoAllowance]
    ELSE l

\* Mutation: the owner's index is not extended.
WriteAllowance_OneIndex(l, from, spender, amount, expiration) ==
    IF amount = 0
    THEN [value |-> [l.value EXCEPT ![from][spender] = NoAllowance],
          bySpender |-> [l.bySpender EXCEPT ![spender] = @ \ {from}],
          byOwner |-> [l.byOwner EXCEPT ![from] = @ \ {spender}]]
    ELSE [value |-> [l.value EXCEPT ![from][spender] =
                        [amount |-> amount, expiration_ledger |-> expiration]],
          bySpender |-> [l.bySpender EXCEPT ![spender] = @ \cup {from}],
          byOwner |-> l.byOwner]

WriteAllowance(l, from, spender, amount, expiration) ==
    IF amount = 0
    THEN [value |-> [l.value EXCEPT ![from][spender] = NoAllowance],
          bySpender |-> [l.bySpender EXCEPT ![spender] = @ \ {from}],
          byOwner |-> [l.byOwner EXCEPT ![from] = @ \ {spender}]]
    ELSE [value |-> [l.value EXCEPT ![from][spender] =
                        [amount |-> amount, expiration_ledger |-> expiration]],
          bySpender |-> [l.bySpender EXCEPT ![spender] = @ \cup {from}],
          byOwner |-> [l.byOwner EXCEPT ![from] = @ \cup {spender}]]

\* An allowance is still good in its expiration ledger.
CanSpendAllowance(l, from, spender, amount) ==
    /\ l.value[from][spender].expiration_ledger >= now
    /\ l.value[from][spender].amount >= amount

SpendAllowance(l, from, spender, amount) ==
    WriteAllowance(l, from, spender, l.value[from][spender].amount - amount,
                   l.value[from][spender].expiration_ledger)

\* One write_allowance of zero for every spender the owner's index names,
\* after which the index itself is removed.
RevokeAllAllowances(l, from) ==
    [value |-> [l.value EXCEPT ![from] =
                   [s \in Address |-> IF s \in l.byOwner[from] THEN NoAllowance ELSE @[s]]],
     bySpender |-> [s \in Address |-> IF s \in l.byOwner[from] THEN l.bySpender[s] \ {from}
                                                               ELSE l.bySpender[s]],
     byOwner |-> [l.byOwner EXCEPT ![from] = {}]]

\* A live allowance is in the owner's index, and the two indexes mirror each
\* other.
IndexesAgree(l) ==
    \A o, s \in Address :
        /\ l.value[o][s].amount > 0 => s \in l.byOwner[o]
        /\ s \in l.byOwner[o] <=> o \in l.bySpender[s]

==============================================================================
