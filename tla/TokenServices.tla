---------------------------- MODULE TokenServices ----------------------------
(***************************************************************************)
(* Permits (permit.rs) and dividends (dividend.rs) of the token crate on   *)
(* top of the token and its batches.  contract.rs does not export the two  *)
(* modules; a contract built on this crate may call them.                  *)
(***************************************************************************)
EXTENDS TokenBatch

CONSTANTS
    PermitOwners,     \* addresses named as the owner in a permit
    MaxNonce,         \* bound on nonces
    DividendAmounts   \* amounts passed to distribute_dividend, of either sign

ASSUME ServicesAssumption ==
    /\ PermitOwners \subseteq Address
    /\ MaxNonce \in Nat
    /\ DividendAmounts \subseteq Int

VARIABLE nonce    \* DataKey::Nonce(owner)

servicesVars == <<vars, nonce>>

ServicesInit == Init /\ nonce = [a \in PermitOwners |-> 0]

(***************************************************************************)
(* The signature covers owner, spender, amount, expiration and nonce.  The *)
(* key it is verified with is a parameter that is compared with nothing,   *)
(* so the owner may be any address, the contract's own included.           *)
(***************************************************************************)
Permit(owner, spender, amount, expiration, n) ==
    /\ n = nonce[owner] /\ n < MaxNonce
    /\ expiration >= now
    /\ nonce' = [nonce EXCEPT ![owner] = n + 1]
    /\ allowances' = WriteAllowance(allowances, owner, spender, amount, expiration)
    /\ UNCHANGED <<now, ledger, adminVars, supplyVars, flagVars>>

-----------------------------------------------------------------------------
(***************************************************************************)
(* distribute_dividend does not look at the sign of the amount.  Spending  *)
(* a negative amount credits the admin, and nothing takes it back: shares  *)
(* and rest are paid when they are positive only.  From then on balances   *)
(* exceed the supply, so that the additions of receive_balance may leave   *)
(* an i128.  Balances only grow after an operation's last spending, so it  *)
(* is enough to look at them afterwards.                                   *)
(***************************************************************************)
BalancesFit == \A a \in Address : ledger.balance[a] <= I128Max

\* What each holder is paid once the admin has spent; frozen ones get nothing.
Shares(spent, amount) ==
    [h \in spent.holders |-> IF h \in frozen \/ amount < 0 THEN 0
                             ELSE (spent.balance[h] * amount) \div totalSupply]

SharesFit(spent, amount) ==
    /\ \A h \in spent.holders \ frozen : spent.balance[h] * amount \in -I128Max - 1 .. I128Max
    /\ SumFunction(Shares(spent, amount)) <= I128Max

PayShares(spent, amount) ==
    FoldSet(LAMBDA h, l : Receive(l, h, Shares(spent, amount)[h]), spent, spent.holders)

\* Mutation: what rounding leaves over is not paid back.
DividendPaid_KeepsRest(caller, amount) == PayShares(Spend(ledger, caller, amount), amount)

\* The admin pays first; every holder gets its share of the whole supply,
\* the admin too from what it has left, and the rest goes back.
DividendPaid(caller, amount) ==
    LET spent == Spend(ledger, caller, amount)
        paid == PayShares(spent, amount)
        rest == amount - SumFunction(Shares(spent, amount))
    IN  IF rest > 0 THEN Receive(paid, caller, rest) ELSE paid

DistributeDividend(caller, amount) ==
    /\ CheckAdmin(caller)
    /\ totalSupply # 0
    /\ CanSpend(ledger, caller, amount)
    /\ SharesFit(Spend(ledger, caller, amount), amount)
    /\ ledger' = DividendPaid(caller, amount)
    /\ BalancesFit'
    /\ UNCHANGED <<now, allowances, adminVars, supplyVars, flagVars, nonce>>

ServicesNext ==
    \/ (Next \/ BatchNext) /\ BalancesFit' /\ UNCHANGED nonce
    \/ \E o \in PermitOwners, s \in Spenders, x \in Amounts, e \in Ledger, n \in 0 .. MaxNonce :
          Permit(o, s, x, e, n)
    \/ \E c \in Account, x \in DividendAmounts : DistributeDividend(c, x)

ServicesSpec == ServicesInit /\ [][ServicesNext]_servicesVars

-----------------------------------------------------------------------------
(***************************************************************************)
(* Properties.                                                             *)
(***************************************************************************)

\* What accounts hold beyond the recorded supply.
Surplus == Held(ledger) - totalSupply

SurplusStep ==
    /\ Surplus' >= Surplus
    /\ Surplus' > Surplus =>
          \E c \in Account, x \in DividendAmounts :
              x < Surplus /\ DistributeDividend(c, x)

\* Rounding, repeated addresses and half-way failures in batches and
\* dividends lose no token and create none: balances outgrow the supply
\* through a dividend of a negative amount, which the function does not
\* refuse, and afterwards through dividends smaller than the surplus, whose
\* shares add up to more than was paid in.  They never fall short of it.
SupplyStaysCovered == [][SurplusStep]_servicesVars

\* All that others may spend of the contract's own balance.
PoolApproved == SumFunctionOnSet([s \in Address |-> allowances.value[Contract][s].amount], Address)

PoolSpendStep ==
    \/ PoolStep
    \/ ledger.balance[Contract] - ledger'.balance[Contract] <= PoolApproved - PoolApproved'

\* The contract signs nothing, so its own balance, which backs the escrows,
\* goes down by delegated calls only and never by more than the allowance
\* they use up, whatever batches and transfers name its address.
PoolSpentAsApproved == [][PoolSpendStep]_servicesVars

==============================================================================
