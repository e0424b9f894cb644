------------------------------- MODULE Custody -------------------------------
(***************************************************************************)
(* What a contract that holds other people's money promises, whatever the  *)
(* records it keeps: the deposits it has taken behave as if each lay in a  *)
(* vault of its own, although they really are one balance.  A vault is     *)
(* filled from the wallet of whoever deposits, is emptied once and for     *)
(* all, to the last unit, into wallets, and is touched by nothing else.    *)
(*                                                                         *)
(* The custodian has a wallet too: what it holds beyond its deposits.      *)
(***************************************************************************)
EXTENDS Integers, Functions

CONSTANTS
    Holder,     \* the addresses that own money, the custodian included
    DepositId   \* the deposits that can ever be made

VARIABLES
    wallet,     \* what an address can dispose of
    vault,      \* what lies in a deposit
    closed      \* the deposits that were paid out

custodyVars == <<wallet, vault, closed>>

CustodyTypeOK ==
    /\ wallet \in [Holder -> Nat]
    /\ vault \in [DepositId -> Nat]
    /\ closed \subseteq DepositId

Total(v) == SumFunctionOnSet(v, DepositId)

Init ==
    /\ wallet \in [Holder -> Nat]
    /\ vault = [d \in DepositId |-> 0]
    /\ closed = {}

\* The holder puts money into vaults that were never emptied, one or
\* several at a time: the first payment or a later one.
Deposit(from) ==
    /\ vault' \in [DepositId -> Nat]
    /\ \A d \in DepositId : vault'[d] >= vault[d] /\ (d \in closed => vault'[d] = vault[d])
    /\ wallet' = [wallet EXCEPT ![from] = @ - (Total(vault') - Total(vault))]
    /\ wallet'[from] \in Nat
    /\ UNCHANGED closed

\* All that lies in the vaults goes into wallets, of which none loses.
PayOut(ids) ==
    /\ ids # {}
    /\ ids \cap closed = {}
    /\ closed' = closed \cup ids
    /\ vault' = [d \in DepositId |-> IF d \in ids THEN 0 ELSE vault[d]]
    /\ wallet' \in [Holder -> Nat]
    /\ \A a \in Holder : wallet'[a] >= wallet[a]
    /\ SumFunctionOnSet(wallet', Holder) - SumFunctionOnSet(wallet, Holder) = SumFunctionOnSet(vault, ids)

\* Money that is in no vault changes hands.
Transfer(from, to) ==
    /\ from # to
    /\ wallet'[from] \in 0 .. wallet[from] - 1
    /\ wallet' = [wallet EXCEPT ![from] = wallet'[from],
                                ![to] = @ + (wallet[from] - wallet'[from])]
    /\ UNCHANGED <<vault, closed>>

Next ==
    \/ \E a \in Holder : Deposit(a)
    \/ PayOut(closed' \ closed)
    \/ \E a, b \in Holder : Transfer(a, b)

Spec == Init /\ [][Next]_custodyVars

==============================================================================
