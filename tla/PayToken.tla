------------------------------- MODULE PayToken -------------------------------
(***************************************************************************)
(* The token of the root crate: balances, supply and cap (contract.rs,     *)
(* balance.rs, batch.rs, divi.rs), allowances (allowance.rs), permits      *)
(* (permit.rs), the pause switch, and ownership with its activation delay  *)
(* (admin.rs).                                                             *)
(*                                                                         *)
(* Several functions go around the counters that others keep: batches and  *)
(* dividends do not touch TotalSupply, burns do not touch the holder set,  *)
(* and what is sent to the contract itself is dropped.  Batches accept     *)
(* amounts of any sign.  transfer_with_memo calls the contract's own       *)
(* transfer, which does not exist, and has no step; with it the whitelist, *)
(* which nothing else reads, and the snapshots are left out.               *)
(* set_clawback_cosigner is not exported, so no cosigner is ever asked.    *)
(***************************************************************************)
EXTENDS Host, SequencesExt

CONSTANTS
    NoAddress,         \* an absent Admin or ProposedAdmin key
    NewAdmins,         \* accounts that may become admin
    ActivationDelay,   \* ADMIN_ACTIVATION_DELAY
    I128Max,           \* the largest i128
    Amounts,           \* amounts a caller may pass
    Caps,              \* values of max_supply
    Recipients,        \* addresses passed as recipient
    Owners,            \* accounts that grant allowances
    Spenders,          \* accounts they grant them to
    Batches,           \* lists of (address, amount)
    Approvals,         \* lists of (spender, amount, expiration)
    MaxNonce           \* bound on nonces

ASSUME PayTokenAssumption ==
    /\ NoAddress \notin Address /\ NewAdmins \subseteq Account
    /\ ActivationDelay \in Nat /\ I128Max \in Nat /\ MaxNonce \in Nat
    /\ Amounts \subseteq Int /\ Caps \subseteq Int /\ Recipients \subseteq Address
    /\ Owners \subseteq Account /\ Spenders \subseteq Account
    /\ Batches \subseteq Seq([address: Address, amount: Int])
    /\ Approvals \subseteq Seq([spender: Spenders, amount: Int, expiration: Nat])

VARIABLES
    owner,        \* Admin, ProposedAdmin and AdminActiveAfter
    ledger,       \* BalanceOf, and HolderSet, whose size HolderCount is
    supply,       \* TotalSupply
    maxSupply,    \* MaxSupply, 0 when unset
    allowances,   \* Allowance(from, spender), where amount 0 stands for no entry,
                  \* and AllowanceSpenders(from), a list without duplicates
    paused,       \* Paused
    nonce         \* Nonce(owner)

tokenVars == <<ledger, supply>>
configVars == <<owner, maxSupply, paused>>
vars == <<now, tokenVars, allowances, configVars, nonce>>

NoAllowance == [amount |-> 0, expiration_ledger |-> 0]

Init ==
    /\ now = 0
    /\ owner = [admin |-> NoAddress, proposed |-> NoAddress, activeAfter |-> 0]
    /\ ledger = [ok |-> TRUE, balance |-> [a \in Address |-> 0], holders |-> {}]
    /\ supply = 0
    /\ maxSupply = 0
    /\ allowances = [value |-> [a \in Owners |-> [s \in Spenders |-> NoAllowance]],
                     spenders |-> [a \in Owners |-> {}]]
    /\ paused = FALSE
    /\ nonce = [a \in Owners |-> 0]

-----------------------------------------------------------------------------
(***************************************************************************)
(* Ownership.                                                              *)
(***************************************************************************)
CheckAdmin(a) == a = owner.admin /\ now >= owner.activeAfter

\* initialize (no cap) and initialize_with_max_supply; nobody signs.
Initialize(a, cap) ==
    /\ owner.admin = NoAddress
    /\ owner' = [owner EXCEPT !.admin = a]
    /\ maxSupply' = cap
    /\ UNCHANGED <<now, tokenVars, allowances, paused, nonce>>

\* The delay is not looked at: who is not active yet can already hand over.
TransferOwnership(caller, newAdmin) ==
    /\ caller = owner.admin
    /\ newAdmin # owner.admin
    /\ owner' = [owner EXCEPT !.proposed = newAdmin]
    /\ UNCHANGED <<now, tokenVars, allowances, maxSupply, paused, nonce>>

AcceptAdmin(caller) ==
    /\ caller = owner.proposed
    /\ owner' = [admin |-> caller, proposed |-> NoAddress, activeAfter |-> now + ActivationDelay]
    /\ UNCHANGED <<now, tokenVars, allowances, maxSupply, paused, nonce>>

SetPaused(caller, value) ==
    /\ CheckAdmin(caller)
    /\ paused' = value
    /\ UNCHANGED <<now, tokenVars, allowances, owner, maxSupply, nonce>>

-----------------------------------------------------------------------------
(***************************************************************************)
(* Balances: a working copy of the ledger whose field ok turns FALSE when  *)
(* the call panics.                                                        *)
(***************************************************************************)
I128 == -I128Max - 1 .. I128Max

\* Mutation: a holder is taken off the list whatever is left to it.
UpdateHolderSet_Toggles(holders, a, bal) ==
    IF a = Contract THEN holders
    ELSE IF bal > 0 /\ a \notin holders THEN holders \cup {a}
    ELSE holders \ {a}

\* A negative balance changes nothing.
UpdateHolderSet(holders, a, bal) ==
    IF a = Contract \/ bal < 0 THEN holders
    ELSE IF bal > 0 THEN holders \cup {a}
    ELSE holders \ {a}

SetBalance(l, a, bal) ==
    [ok |-> l.ok /\ bal \in I128,
     balance |-> [l.balance EXCEPT ![a] = bal],
     holders |-> UpdateHolderSet(l.holders, a, bal)]

Receive(l, a, amount) == IF a = Contract THEN l ELSE SetBalance(l, a, l.balance[a] + amount)

Spend(l, a, amount) ==
    IF l.balance[a] >= amount THEN SetBalance(l, a, l.balance[a] - amount)
    ELSE [l EXCEPT !.ok = FALSE]

Commit(l) == l.ok /\ ledger' = l

IncreaseSupply(amount) ==
    /\ supply + amount \in I128
    /\ maxSupply > 0 => supply + amount <= maxSupply
    /\ supply' = supply + amount

\* Only the numeric range is checked, not that the supply stays positive.
DecreaseSupply(amount) ==
    /\ supply - amount \in I128
    /\ supply' = supply - amount

Mint(caller, to, amount) ==
    /\ CheckAdmin(caller)
    /\ amount > 0
    /\ IncreaseSupply(amount)
    /\ Commit(Receive(ledger, to, amount))
    /\ UNCHANGED <<now, allowances, configVars, nonce>>

\* Mutation: the supply is not reduced.
Destroy_KeepsSupply(from, amount) ==
    /\ amount > 0
    /\ ledger.balance[from] >= amount
    /\ ledger' = [ledger EXCEPT !.balance[from] = @ - amount]
    /\ supply' = supply

\* What burn, clawback and burn_from share; the holder set is left alone.
Destroy(from, amount) ==
    /\ amount > 0
    /\ ledger.balance[from] >= amount
    /\ DecreaseSupply(amount)
    /\ ledger' = [ledger EXCEPT !.balance[from] = @ - amount]

Burn(from, amount) ==
    /\ Destroy(from, amount)
    /\ UNCHANGED <<now, allowances, configVars, nonce>>

Clawback(caller, from, amount) ==
    /\ CheckAdmin(caller)
    /\ Destroy(from, amount)
    /\ UNCHANGED <<now, allowances, configVars, nonce>>

ClawbackBatch(caller, clawbacks) ==
    /\ CheckAdmin(caller)
    /\ Commit(FoldLeft(LAMBDA l, entry : Spend(l, entry.address, entry.amount), ledger, clawbacks))
    /\ UNCHANGED <<now, supply, allowances, configVars, nonce>>

ReceiveAll(entries) ==
    FoldLeft(LAMBDA l, entry : Receive(l, entry.address, entry.amount), ledger, entries)

\* The running total that is returned must not overflow either.
MintBatch(caller, mints) ==
    LET total(k) == MapThenSumSet(LAMBDA j : mints[j].amount, 1 .. k)
    IN  /\ CheckAdmin(caller)
        /\ \A k \in DOMAIN mints : total(k) \in I128
        /\ Commit(ReceiveAll(mints))
        /\ UNCHANGED <<now, supply, allowances, configVars, nonce>>

\* Equal parts, the rest to the first.  The money comes from nowhere, and the
\* function is called by tests only.
DistributeDividend(caller, total, to) ==
    LET part(k) == (total \div Len(to)) + (IF k = 1 THEN total % Len(to) ELSE 0)
    IN  /\ CheckAdmin(caller)
        /\ total > 0
        /\ to # <<>>
        /\ Commit(ReceiveAll([k \in DOMAIN to |-> [address |-> to[k], amount |-> part(k)]]))
        /\ UNCHANGED <<now, supply, allowances, configVars, nonce>>

-----------------------------------------------------------------------------
(***************************************************************************)
(* Allowances.  An amount of 0 removes the entry; an entry of any other    *)
(* amount, also a negative one, is stored and listed.                      *)
(***************************************************************************)
\* Mutation: the owner's list is not extended.
WriteOwnerAllowanceIndex_NotTracked(spenders, spender, add) ==
    IF add THEN spenders ELSE spenders \ {spender}

WriteOwnerAllowanceIndex(spenders, spender, add) ==
    IF add THEN spenders \cup {spender} ELSE spenders \ {spender}

WriteAllowance(al, from, spender, amount, expiration) ==
    [value |-> [al.value EXCEPT ![from][spender] =
                   IF amount = 0 THEN NoAllowance
                   ELSE [amount |-> amount, expiration_ledger |-> expiration]],
     spenders |-> [al.spenders EXCEPT ![from] =
                      WriteOwnerAllowanceIndex(@, spender, amount # 0)]]

\* An expired entry is removed by the read, unless its expiration is 0.
ReadAllowance(from, spender) ==
    LET stored == allowances.value[from][spender]
    IN  IF stored.expiration_ledger < now /\ stored.expiration_ledger # 0 THEN NoAllowance
        ELSE stored

SpendAllowance(from, spender, amount) ==
    LET current == ReadAllowance(from, spender)
    IN  /\ current.expiration_ledger >= now
        /\ current.amount >= amount
        /\ allowances' = WriteAllowance(allowances, from, spender, current.amount - amount,
                                        current.expiration_ledger)

Approve(from, spender, amount, expiration) ==
    /\ amount > 0
    /\ allowances' = WriteAllowance(allowances, from, spender, amount, expiration)
    /\ UNCHANGED <<now, tokenVars, configVars, nonce>>

TransferFrom(spender, from, to, amount) ==
    /\ ~paused
    /\ amount > 0
    /\ SpendAllowance(from, spender, amount)
    /\ Commit(Receive(Spend(ledger, from, amount), to, amount))
    /\ UNCHANGED <<now, supply, configVars, nonce>>

BurnFrom(spender, from, amount) ==
    /\ SpendAllowance(from, spender, amount)
    /\ Destroy(from, amount)
    /\ UNCHANGED <<now, configVars, nonce>>

\* A new entry gets expiration 0 and can be spent in ledger 0 only.
IncreaseAllowance(from, spender, amount) ==
    LET current == ReadAllowance(from, spender)
    IN  /\ amount > 0
        /\ current.amount + amount \in I128
        /\ allowances' = WriteAllowance(allowances, from, spender, current.amount + amount,
                                        current.expiration_ledger)
        /\ UNCHANGED <<now, tokenVars, configVars, nonce>>

DecreaseAllowance(from, spender, amount) ==
    LET current == ReadAllowance(from, spender)
    IN  /\ amount > 0
        /\ allowances' = WriteAllowance(allowances, from, spender,
                                        IF current.amount <= amount THEN 0
                                        ELSE current.amount - amount,
                                        current.expiration_ledger)
        /\ UNCHANGED <<now, tokenVars, configVars, nonce>>

\* Clears the entries the list names, then the list.
RevokeAllAllowances(from) ==
    /\ allowances' = [value |-> [allowances.value EXCEPT ![from] =
                                    [s \in Spenders |-> IF s \in allowances.spenders[from]
                                                       THEN NoAllowance ELSE @[s]]],
                      spenders |-> [allowances.spenders EXCEPT ![from] = {}]]
    /\ UNCHANGED <<now, tokenVars, configVars, nonce>>

WriteAll(from, approvals) ==
    FoldLeft(LAMBDA al, entry : WriteAllowance(al, from, entry.spender, entry.amount, entry.expiration),
             allowances, approvals)

ApproveBatch(from, approvals) ==
    /\ allowances' = WriteAll(from, approvals)
    /\ UNCHANGED <<now, tokenVars, configVars, nonce>>

\* permit only uses up a nonce.
Permit(user, n) ==
    /\ n = nonce[user] /\ n < MaxNonce
    /\ nonce' = [nonce EXCEPT ![user] = n + 1]
    /\ UNCHANGED <<now, tokenVars, allowances, configVars>>

\* One signature and one nonce for the whole list; as in permit, the key is a
\* parameter that is compared with nothing.
PermitBatch(from, approvals, n) ==
    /\ approvals # <<>>
    /\ n = nonce[from] /\ n < MaxNonce
    /\ nonce' = [nonce EXCEPT ![from] = n + 1]
    /\ allowances' = WriteAll(from, approvals)
    /\ UNCHANGED <<now, tokenVars, configVars>>

Tick == LedgerCloses /\ UNCHANGED <<tokenVars, allowances, configVars, nonce>>

Next ==
    \/ \E c \in NewAdmins, x \in Caps \cup {0} : Initialize(c, x)
    \/ \E c \in Account, n \in NewAdmins : TransferOwnership(c, n)
    \/ \E c \in Account : AcceptAdmin(c)
    \/ \E c \in Account, b \in BOOLEAN : SetPaused(c, b)
    \/ \E c \in Account, a \in Recipients, x \in Amounts : Mint(c, a, x)
    \/ \E c \in Account, x \in Amounts : Burn(c, x)
    \/ \E c \in Account, a \in Address, x \in Amounts : Clawback(c, a, x)
    \/ \E c \in Account, b \in Batches : ClawbackBatch(c, b)
    \/ \E c \in Account, b \in Batches : MintBatch(c, b)
    \/ \E c \in Account, x \in Amounts, to \in BoundedSeq(Recipients, 2) : DistributeDividend(c, x, to)
    \/ \E c \in Owners, s \in Spenders, x \in Amounts, e \in Ledger : Approve(c, s, x, e)
    \/ \E s \in Spenders, c \in Owners, a \in Recipients, x \in Amounts : TransferFrom(s, c, a, x)
    \/ \E s \in Spenders, c \in Owners, x \in Amounts : BurnFrom(s, c, x)
    \/ \E c \in Owners, s \in Spenders, x \in Amounts : IncreaseAllowance(c, s, x)
    \/ \E c \in Owners, s \in Spenders, x \in Amounts : DecreaseAllowance(c, s, x)
    \/ \E c \in Owners : RevokeAllAllowances(c)
    \/ \E c \in Owners, b \in Approvals : ApproveBatch(c, b)
    \/ \E c \in Owners, n \in 0 .. MaxNonce : Permit(c, n)
    \/ \E c \in Owners, b \in Approvals, n \in 0 .. MaxNonce : PermitBatch(c, b, n)
    \/ Tick

Spec == Init /\ [][Next]_vars

-----------------------------------------------------------------------------
(***************************************************************************)
(* Properties.                                                             *)
(***************************************************************************)

\* Nobody who has tokens is missing from the holder set, which the airdrop
\* pays by: burns leave emptied accounts behind in it, batches make balances
\* negative and positive again, and still it only ever holds too much.
HoldersCovered == {a \in Account : ledger.balance[a] > 0} \subseteq ledger.holders

\* The owner's list names exactly the spenders with a stored allowance,
\* whichever of approve, increase, decrease, spending, expiry, batch and
\* permit wrote it last, so that revoke_all_allowances forgets none.
AllowanceIndexExact ==
    \A a \in Owners : allowances.spenders[a] = {s \in Spenders : allowances.value[a][s] # NoAllowance}

Held(l) == SumFunctionOnSet(l.balance, Address)

\* The operations that change balances behind the back of TotalSupply.
OffTheBooks ==
    \/ \E c \in Account, b \in Batches : ClawbackBatch(c, b) \/ MintBatch(c, b)
    \/ \E c \in Account, x \in Amounts, to \in BoundedSeq(Recipients, 2) : DistributeDividend(c, x, to)
    \/ \E c \in Account, x \in Amounts : Mint(c, Contract, x)
    \/ \E s \in Spenders, c \in Owners, x \in Amounts : TransferFrom(s, c, Contract, x)

SupplyStep == ~OffTheBooks => supply' - supply = Held(ledger') - Held(ledger)

\* TotalSupply moves with the sum of the balances and stays within the cap
\* in every step but batches, dividends and payments to the contract itself:
\* no other operation makes the two drift apart, however far they already
\* are.
SupplyFollowsBalances == [][SupplyStep /\ (maxSupply > 0 => supply' <= maxSupply)]_vars

===============================================================================
