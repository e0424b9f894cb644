-------------------------------- MODULE Token --------------------------------
(***************************************************************************)
(* The fungible token (contract.rs of the token crate with balance.rs,     *)
(* pause.rs and freeze.rs), composed of balances, allowances and the       *)
(* admin.  Supply, cap, pause flag and clawback cosigner live here.        *)
(*                                                                         *)
(* Amounts are naturals; I128Max stands for the largest i128.              *)
(***************************************************************************)
EXTENDS Balance, Allowance, AdminRotation, FiniteSetsExt

CONSTANTS
    I128Max,      \* i128::MAX
    Amounts,      \* amounts a caller may pass
    Recipients,   \* addresses a caller may name as recipient or victim
    Spenders,     \* addresses a caller may name as spender
    Cosigners,    \* addresses the admin may appoint as clawback cosigner
    Caps          \* supply caps a caller may pass

ASSUME TokenAssumption ==
    /\ I128Max \in Nat
    /\ Amounts \subseteq Nat
    /\ Recipients \subseteq Address
    /\ Spenders \subseteq Address
    /\ Cosigners \subseteq Address
    /\ Caps \subseteq Int

VARIABLES
    cosigner,      \* DataKey::ClawbackCoSigner
    totalSupply,   \* DataKey::TotalSupply
    maxSupply,     \* DataKey::MaxSupply; zero means no cap
    paused,        \* DataKey::Paused
    frozen         \* the addresses with a DataKey::Freeze flag

supplyVars == <<totalSupply, maxSupply>>
flagVars == <<cosigner, paused, frozen>>
vars == <<now, ledger, allowances, admin, pendingAdmin, adminActiveAfter,
          cosigner, totalSupply, maxSupply, paused, frozen>>

Init ==
    /\ now = 0
    /\ ledger = [balance |-> [a \in Address |-> 0], holders |-> {}]
    /\ allowances = NoAllowances
    /\ AdminInit
    /\ cosigner = NoAddress
    /\ totalSupply = 0
    /\ maxSupply = 0
    /\ paused = FALSE
    /\ frozen = {}

-----------------------------------------------------------------------------
(***************************************************************************)
(* Set-up and the privileged switches.                                     *)
(***************************************************************************)

\* initialize is the case of no cap.  Neither asks anybody to sign.
InitializeWithMaxSupply(newAdmin, cap) ==
    /\ ~HasAdmin
    /\ admin' = newAdmin
    /\ maxSupply' = cap
    /\ UNCHANGED <<now, ledger, allowances, pendingAdmin, adminActiveAfter, totalSupply, flagVars>>

\* Mutation: a cap below the supply is accepted.
SetMaxSupply_BelowSupply(caller, newMax) ==
    /\ CheckAdmin(caller)
    /\ ~(maxSupply > 0 /\ newMax > maxSupply)
    /\ maxSupply' = newMax
    /\ UNCHANGED <<now, ledger, allowances, adminVars, totalSupply, flagVars>>

SetMaxSupply(caller, newMax) ==
    /\ CheckAdmin(caller)
    /\ newMax >= totalSupply
    /\ ~(maxSupply > 0 /\ newMax > maxSupply)
    /\ maxSupply' = newMax
    /\ UNCHANGED <<now, ledger, allowances, adminVars, totalSupply, flagVars>>

Pause(caller) ==
    /\ CheckAdmin(caller)
    /\ paused' = TRUE
    /\ UNCHANGED <<now, ledger, allowances, adminVars, supplyVars, cosigner, frozen>>

Unpause(caller) ==
    /\ CheckAdmin(caller)
    /\ paused' = FALSE
    /\ UNCHANGED <<now, ledger, allowances, adminVars, supplyVars, cosigner, frozen>>

SetClawbackCosigner(caller, newCosigner) ==
    /\ CheckAdmin(caller)
    /\ cosigner' = newCosigner
    /\ UNCHANGED <<now, ledger, allowances, adminVars, supplyVars, paused, frozen>>

-----------------------------------------------------------------------------
(***************************************************************************)
(* Supply.                                                                 *)
(***************************************************************************)
IncreaseSupply(amount) ==
    /\ totalSupply + amount <= I128Max
    /\ maxSupply > 0 => totalSupply + amount <= maxSupply
    /\ totalSupply' = totalSupply + amount

DecreaseSupply(amount) ==
    /\ totalSupply >= amount
    /\ totalSupply' = totalSupply - amount

Mint(caller, to, amount) ==
    /\ to # Contract
    /\ CheckAdmin(caller)
    /\ ~paused
    /\ amount > 0
    /\ ledger' = Receive(ledger, to, amount)
    /\ IncreaseSupply(amount)
    /\ UNCHANGED <<now, allowances, adminVars, maxSupply, flagVars>>

Burn(from, amount) ==
    /\ ~paused
    /\ amount > 0
    /\ CanSpend(ledger, from, amount)
    /\ ledger' = Spend(ledger, from, amount)
    /\ DecreaseSupply(amount)
    /\ UNCHANGED <<now, allowances, adminVars, maxSupply, flagVars>>

BurnFrom(spender, from, amount) ==
    /\ from \notin frozen
    /\ ~paused
    /\ amount > 0
    /\ CanSpendAllowance(allowances, from, spender, amount)
    /\ allowances' = SpendAllowance(allowances, from, spender, amount)
    /\ CanSpend(ledger, from, amount)
    /\ ledger' = Spend(ledger, from, amount)
    /\ DecreaseSupply(amount)
    /\ UNCHANGED <<now, adminVars, maxSupply, flagVars>>

\* An appointed cosigner signs as well; the contract itself never does.
Cosigned == cosigner \in Account \cup {NoAddress}

\* Mutation: the contract's own address is not exempt.
Clawback_FromPool(caller, from, amount) ==
    /\ CheckAdmin(caller)
    /\ Cosigned
    /\ amount > 0
    /\ CanSpend(ledger, from, amount)
    /\ ledger' = Spend(ledger, from, amount)
    /\ DecreaseSupply(amount)
    /\ UNCHANGED <<now, allowances, adminVars, maxSupply, flagVars>>

\* Mutation: the supply is not reduced.
Clawback_KeepsSupply(caller, from, amount) ==
    /\ CheckAdmin(caller)
    /\ from # Contract
    /\ Cosigned
    /\ amount > 0
    /\ CanSpend(ledger, from, amount)
    /\ ledger' = Spend(ledger, from, amount)
    /\ UNCHANGED <<now, allowances, adminVars, supplyVars, flagVars>>

\* Mutation: the stored admin is looked at, its activation ledger is not.
Clawback_BeforeActivation(caller, from, amount) ==
    /\ caller = admin
    /\ from # Contract
    /\ Cosigned
    /\ amount > 0
    /\ CanSpend(ledger, from, amount)
    /\ ledger' = Spend(ledger, from, amount)
    /\ DecreaseSupply(amount)
    /\ UNCHANGED <<now, allowances, adminVars, maxSupply, flagVars>>

Clawback(caller, from, amount) ==
    /\ CheckAdmin(caller)
    /\ from # Contract
    /\ Cosigned
    /\ amount > 0
    /\ CanSpend(ledger, from, amount)
    /\ ledger' = Spend(ledger, from, amount)
    /\ DecreaseSupply(amount)
    /\ UNCHANGED <<now, allowances, adminVars, maxSupply, flagVars>>

-----------------------------------------------------------------------------
(***************************************************************************)
(* Transfers and approvals.                                                *)
(***************************************************************************)
Transfer(from, to, amount) ==
    /\ to # Contract
    /\ ~paused
    /\ from \notin frozen
    /\ amount > 0
    /\ CanSpend(ledger, from, amount)
    /\ ledger' = Move(ledger, from, to, amount)
    /\ UNCHANGED <<now, allowances, adminVars, supplyVars, flagVars>>

\* The only transfer that may pay the contract's own address.
TransferWithMemo(from, to, amount) ==
    /\ ~paused
    /\ from \notin frozen
    /\ amount > 0
    /\ CanSpend(ledger, from, amount)
    /\ ledger' = Move(ledger, from, to, amount)
    /\ UNCHANGED <<now, allowances, adminVars, supplyVars, flagVars>>

\* Mutation: a delegated transfer ignores the pause.
TransferFrom_WhilePaused(spender, from, to, amount) ==
    /\ to # Contract
    /\ from \notin frozen
    /\ amount > 0
    /\ CanSpendAllowance(allowances, from, spender, amount)
    /\ allowances' = SpendAllowance(allowances, from, spender, amount)
    /\ CanSpend(ledger, from, amount)
    /\ ledger' = Move(ledger, from, to, amount)
    /\ UNCHANGED <<now, adminVars, supplyVars, flagVars>>

\* validate_allowance repeats the checks of spend_allowance.
TransferFrom(spender, from, to, amount) ==
    /\ to # Contract
    /\ ~paused
    /\ from \notin frozen
    /\ amount > 0
    /\ CanSpendAllowance(allowances, from, spender, amount)
    /\ allowances' = SpendAllowance(allowances, from, spender, amount)
    /\ CanSpend(ledger, from, amount)
    /\ ledger' = Move(ledger, from, to, amount)
    /\ UNCHANGED <<now, adminVars, supplyVars, flagVars>>

Approve(from, spender, amount, expiration) ==
    /\ expiration >= now
    /\ allowances' = WriteAllowance(allowances, from, spender, amount, expiration)
    /\ UNCHANGED <<now, ledger, adminVars, supplyVars, flagVars>>

RevokeAll(from) ==
    /\ allowances' = RevokeAllAllowances(allowances, from)
    /\ UNCHANGED <<now, ledger, adminVars, supplyVars, flagVars>>

ReadAllowance(from, spender) ==
    /\ allowances' = PruneAllowance(allowances, from, spender)
    /\ UNCHANGED <<now, ledger, adminVars, supplyVars, flagVars>>

Tick ==
    /\ LedgerCloses
    /\ UNCHANGED <<ledger, allowances, adminVars, supplyVars, flagVars>>

-----------------------------------------------------------------------------
(***************************************************************************)
(* freeze_account reads DataKey::Admin from persistent storage, to which   *)
(* nothing writes it (write_admin uses instance storage), so no step of    *)
(* Freeze or Unfreeze exists.  They are kept out of Next.  The vector      *)
(* FrozenAccounts holds the same addresses as the flags.                   *)
(***************************************************************************)
PersistentAdmin == NoAddress

FreezeAccount(target) ==
    /\ PersistentAdmin # NoAddress
    /\ target # PersistentAdmin
    /\ target \notin frozen
    /\ frozen' = frozen \cup {target}

UnfreezeAccount(target) ==
    /\ target \in frozen
    /\ frozen' = frozen \ {target}

Freeze(caller, target) ==
    /\ CheckAdmin(caller)
    /\ FreezeAccount(target)
    /\ UNCHANGED <<now, ledger, allowances, adminVars, supplyVars, cosigner, paused>>

Unfreeze(caller, target) ==
    /\ CheckAdmin(caller)
    /\ UnfreezeAccount(target)
    /\ UNCHANGED <<now, ledger, allowances, adminVars, supplyVars, cosigner, paused>>

FreezeNext == \E c \in Account, t \in Recipients : Freeze(c, t) \/ Unfreeze(c, t)

-----------------------------------------------------------------------------
PrivilegedNext ==
    \/ \E a \in NewAdmins, x \in Caps : InitializeWithMaxSupply(a, x)
    \/ \E c \in Account, x \in Caps : SetMaxSupply(c, x)
    \/ \E c \in Account : Pause(c)
    \/ \E c \in Account : Unpause(c)
    \/ \E c \in Account, s \in Cosigners : SetClawbackCosigner(c, s)
    \/ \E c \in Account, t \in Recipients, x \in Amounts : Mint(c, t, x)
    \/ \E c \in Account, f \in Recipients, x \in Amounts : Clawback(c, f, x)

UserNext ==
    \/ \E f \in Account, x \in Amounts : Burn(f, x)
    \/ \E s \in Account, f \in Recipients, x \in Amounts : BurnFrom(s, f, x)
    \/ \E f \in Account, t \in Recipients, x \in Amounts : Transfer(f, t, x)
    \/ \E f \in Account, t \in Recipients, x \in Amounts : TransferWithMemo(f, t, x)
    \/ \E s \in Account, f \in Recipients, t \in Recipients, x \in Amounts : TransferFrom(s, f, t, x)
    \/ \E f \in Account, s \in Spenders, x \in Amounts, e \in Ledger : Approve(f, s, x, e)
    \/ \E f \in Account : RevokeAll(f)
    \/ \E f \in Recipients, s \in Spenders : ReadAllowance(f, s)

Next ==
    \/ AdminNext /\ UNCHANGED <<now, ledger, allowances, supplyVars, flagVars>>
    \/ PrivilegedNext
    \/ UserNext
    \/ Tick

Spec == Init /\ [][Next]_vars

-----------------------------------------------------------------------------
(***************************************************************************)
(* Properties.                                                             *)
(***************************************************************************)

\* Every key holds a value of its type; no balance or supply is negative.
TypeOK ==
    /\ now \in Ledger
    /\ ledger \in LedgerType
    /\ allowances \in AllowancesType
    /\ AdminTypeOK
    /\ cosigner \in MaybeAddress
    /\ totalSupply \in 0 .. I128Max
    /\ maxSupply \in Int
    /\ paused \in BOOLEAN
    /\ frozen \subseteq Address

\* The recorded total supply is the sum of all balances, the contract's own
\* included: every mint, burn, delegated burn and clawback changes both.
SupplyIsSum == totalSupply = Held(ledger)

\* The holder set lists exactly the addresses with a positive balance, also
\* when one transaction empties an account and refills it.
HoldersExact == HolderSetExact(ledger)

\* With a cap in force there are never more tokens than the cap allows,
\* however mints, burns and changes of the cap interleave.
SupplyWithinCap == maxSupply > 0 => totalSupply <= maxSupply

\* A live allowance is in both indexes and the indexes mirror each other, so
\* that revoke_all_allowances, which follows the owner's index, misses none.
AllowanceIndexed == IndexesAgree(allowances)

PoolStep == ledger'.balance[Contract] >= ledger.balance[Contract]

\* Only the escrow and split modules may take tokens out of the contract's
\* own balance: no sequence of approvals, delegated transfers, burns and
\* clawbacks of the plain token lowers the pool.
PoolNeverDrained == [][PoolStep]_vars

PausedStep == paused => \A a \in Address : ledger'.balance[a] <= ledger.balance[a]

\* While the contract is paused nobody receives tokens: no mint and no kind
\* of transfer slips through (an admin clawback may still take some).
PauseStopsTransfers == [][PausedStep]_vars

DelayStep ==
    HasAdmin /\ now < adminActiveAfter =>
        /\ UNCHANGED <<maxSupply, cosigner, paused>>
        /\ totalSupply' <= totalSupply
        /\ paused => UNCHANGED ledger
        /\ adminActiveAfter' >= adminActiveAfter

\* During the activation delay after accept_admin the token is out of the
\* admin's reach: cap, cosigner and pause flag stay, nothing is minted, and
\* in the paused contract, where transfers and burns are refused, no balance
\* changes, so nothing is clawed back either (elsewhere a clawback looks like
\* a burn).  The role itself may still be offered and handed on,
\* which does not shorten the delay.
DelayHolds == [][DelayStep]_vars

==============================================================================
