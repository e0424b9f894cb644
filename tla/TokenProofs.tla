----------------------------- MODULE TokenProofs -----------------------------
(***************************************************************************)
(* Proofs about the token, for any accounts, amounts, caps and bounds.     *)
(* The inductive invariant adds to the checked invariants that the         *)
(* contract has approved nobody (PoolApprovesNobody), which is what keeps  *)
(* delegated transfers and burns away from the pool.                       *)
(***************************************************************************)
EXTENDS Token, BalanceProofs

OwnerApprovesNobody(l, o) == \A s \in Address : l.value[o][s].amount = 0

\* Writing an allowance keeps the type and the agreement of the indexes, and
\* gives no other owner an allowance.
LEMMA WriteLemma ==
    ASSUME NEW l \in AllowancesType, NEW o \in Address, NEW s \in Address,
           NEW x \in Nat, NEW e \in Ledger
    PROVE  /\ WriteAllowance(l, o, s, x, e) \in AllowancesType
           /\ IndexesAgree(l) => IndexesAgree(WriteAllowance(l, o, s, x, e))
           /\ \A p \in Address : p # o /\ OwnerApprovesNobody(l, p) =>
                 OwnerApprovesNobody(WriteAllowance(l, o, s, x, e), p)
<1> DEFINE w == WriteAllowance(l, o, s, x, e)
           v == IF x = 0 THEN NoAllowance ELSE [amount |-> x, expiration_ledger |-> e]
<1>1. /\ NoAllowance \in AllowanceValue
      /\ v \in AllowanceValue
      /\ v.amount = x
  BY HostAssumption DEF NoAllowance, AllowanceValue, Ledger
<1>2. /\ w.value = [l.value EXCEPT ![o][s] = v]
      /\ w.bySpender = [l.bySpender EXCEPT ![s] = IF x = 0 THEN @ \ {o} ELSE @ \cup {o}]
      /\ w.byOwner = [l.byOwner EXCEPT ![o] = IF x = 0 THEN @ \ {s} ELSE @ \cup {s}]
      /\ w = [value |-> w.value, bySpender |-> w.bySpender, byOwner |-> w.byOwner]
  BY DEF WriteAllowance
<1> HIDE DEF w, v
<1>3. /\ l.value \in [Address -> [Address -> AllowanceValue]]
      /\ l.bySpender \in [Address -> SUBSET Address]
      /\ l.byOwner \in [Address -> SUBSET Address]
  BY DEF AllowancesType
<1>5. /\ w.value \in [Address -> [Address -> AllowanceValue]]
      /\ w.bySpender \in [Address -> SUBSET Address]
      /\ w.byOwner \in [Address -> SUBSET Address]
  BY <1>1, <1>2, <1>3
<1>6. w \in AllowancesType
  BY <1>2, <1>5 DEF AllowancesType
<1>7. \A p, q \in Address : w.value[p][q] = IF p = o /\ q = s THEN v ELSE l.value[p][q]
  BY <1>2, <1>3
<1>8. ASSUME IndexesAgree(l) PROVE IndexesAgree(w)
  <2> SUFFICES ASSUME NEW p \in Address, NEW q \in Address
               PROVE  /\ w.value[p][q].amount > 0 => q \in w.byOwner[p]
                      /\ q \in w.byOwner[p] <=> p \in w.bySpender[q]
    BY DEF IndexesAgree
  <2>1. /\ l.value[p][q].amount > 0 => q \in l.byOwner[p]
        /\ q \in l.byOwner[p] <=> p \in l.bySpender[q]
    BY <1>8 DEF IndexesAgree
  <2>2. q \in w.byOwner[p] <=> p \in w.bySpender[q]
    BY <1>2, <1>3, <2>1
  <2>3. CASE p = o /\ q = s
    <3>1. w.value[p][q].amount = x
      BY <1>1, <1>7, <2>3
    <3>2. x # 0 => q \in w.byOwner[p]
      BY <1>2, <1>3, <2>3
    <3> QED BY <2>2, <3>1, <3>2
  <2>4. CASE ~(p = o /\ q = s)
    <3>1. w.value[p][q].amount = l.value[p][q].amount
      BY <1>7, <2>4
    <3>2. q \in l.byOwner[p] => q \in w.byOwner[p]
      BY <1>2, <1>3, <2>4
    <3> QED BY <2>1, <2>2, <3>1, <3>2
  <2> QED BY <2>3, <2>4
<1>9. ASSUME NEW p \in Address, p # o, OwnerApprovesNobody(l, p)
      PROVE  OwnerApprovesNobody(w, p)
  BY <1>7, <1>9 DEF OwnerApprovesNobody
<1> QED
  BY <1>6, <1>8, <1>9 DEF w

\* Spending from an allowance that covers the amount does the same.
LEMMA SpendAllowanceLemma ==
    ASSUME NEW l \in AllowancesType, NEW o \in Address, NEW s \in Address,
           NEW x \in Nat, CanSpendAllowance(l, o, s, x)
    PROVE  /\ SpendAllowance(l, o, s, x) \in AllowancesType
           /\ IndexesAgree(l) => IndexesAgree(SpendAllowance(l, o, s, x))
           /\ \A p \in Address : p # o /\ OwnerApprovesNobody(l, p) =>
                 OwnerApprovesNobody(SpendAllowance(l, o, s, x), p)
<1> DEFINE v == l.value[o][s]
<1>1. v \in AllowanceValue
  BY DEF AllowancesType
<1>4. v.amount >= x
  BY DEF CanSpendAllowance
<1>2. v.amount - x \in Nat /\ v.expiration_ledger \in Ledger
  <2> HIDE DEF v
  <2> QED BY <1>1, <1>4 DEF AllowanceValue
<1>3. SpendAllowance(l, o, s, x) = WriteAllowance(l, o, s, v.amount - x, v.expiration_ledger)
  BY DEF SpendAllowance
<1> HIDE DEF v
<1> QED
  BY <1>2, <1>3, WriteLemma

\* Pruning an expired entry only ever removes an allowance.
LEMMA PruneLemma ==
    ASSUME NEW l \in AllowancesType, NEW o \in Address, NEW s \in Address
    PROVE  /\ PruneAllowance(l, o, s) \in AllowancesType
           /\ IndexesAgree(l) => IndexesAgree(PruneAllowance(l, o, s))
           /\ \A p \in Address : OwnerApprovesNobody(l, p) =>
                 OwnerApprovesNobody(PruneAllowance(l, o, s), p)
<1> DEFINE w == PruneAllowance(l, o, s)
<1>1. CASE ~(l.value[o][s].expiration_ledger < now)
  <2>1. w = l
    BY <1>1 DEF PruneAllowance
  <2> QED BY <2>1
<1>2. CASE l.value[o][s].expiration_ledger < now
  <2>1. w = [l EXCEPT !.value[o][s] = NoAllowance]
    BY <1>2 DEF PruneAllowance
  <2> HIDE DEF w
  <2>2. /\ l.value \in [Address -> [Address -> AllowanceValue]]
        /\ l.bySpender \in [Address -> SUBSET Address]
        /\ l.byOwner \in [Address -> SUBSET Address]
    BY DEF AllowancesType
  <2>3. NoAllowance \in AllowanceValue /\ NoAllowance.amount = 0
    BY HostAssumption DEF NoAllowance, AllowanceValue, Ledger
  <2>4. /\ w.value = [l.value EXCEPT ![o][s] = NoAllowance]
        /\ w.bySpender = l.bySpender
        /\ w.byOwner = l.byOwner
        /\ w \in AllowancesType
    BY <2>1, <2>3 DEF AllowancesType
  <2>5. \A p, q \in Address :
            w.value[p][q] = IF p = o /\ q = s THEN NoAllowance ELSE l.value[p][q]
    BY <2>2, <2>4
  <2>6. ASSUME IndexesAgree(l) PROVE IndexesAgree(w)
    <3> SUFFICES ASSUME NEW p \in Address, NEW q \in Address
                 PROVE  /\ w.value[p][q].amount > 0 => q \in l.byOwner[p]
                        /\ q \in l.byOwner[p] <=> p \in l.bySpender[q]
      BY <2>4 DEF IndexesAgree
    <3>1. /\ l.value[p][q].amount > 0 => q \in l.byOwner[p]
          /\ q \in l.byOwner[p] <=> p \in l.bySpender[q]
      BY <2>6 DEF IndexesAgree
    <3>2. w.value[p][q].amount = 0 \/ w.value[p][q].amount = l.value[p][q].amount
      BY <2>3, <2>5
    <3> QED BY <3>1, <3>2
  <2>7. ASSUME NEW p \in Address, OwnerApprovesNobody(l, p) PROVE OwnerApprovesNobody(w, p)
    BY <2>3, <2>5, <2>7 DEF OwnerApprovesNobody
  <2> QED BY <2>4, <2>6, <2>7 DEF w
<1> QED BY <1>1, <1>2

\* Following an exact index, revoke_all_allowances leaves nothing behind and
\* touches nobody else.
LEMMA RevokeLemma ==
    ASSUME NEW l \in AllowancesType, NEW o \in Address
    PROVE  /\ RevokeAllAllowances(l, o) \in AllowancesType
           /\ IndexesAgree(l) => /\ IndexesAgree(RevokeAllAllowances(l, o))
                                 /\ OwnerApprovesNobody(RevokeAllAllowances(l, o), o)
           /\ \A p \in Address : OwnerApprovesNobody(l, p) =>
                 OwnerApprovesNobody(RevokeAllAllowances(l, o), p)
<1> DEFINE w == RevokeAllAllowances(l, o)
<1>1. NoAllowance \in AllowanceValue /\ NoAllowance.amount = 0
  BY HostAssumption DEF NoAllowance, AllowanceValue, Ledger
<1>2. /\ l.value \in [Address -> [Address -> AllowanceValue]]
      /\ l.bySpender \in [Address -> SUBSET Address]
      /\ l.byOwner \in [Address -> SUBSET Address]
  BY DEF AllowancesType
<1>3. /\ w.value = [l.value EXCEPT ![o] =
                       [s \in Address |-> IF s \in l.byOwner[o] THEN NoAllowance ELSE @[s]]]
      /\ w.bySpender = [s \in Address |-> IF s \in l.byOwner[o] THEN l.bySpender[s] \ {o}
                                                                ELSE l.bySpender[s]]
      /\ w.byOwner = [l.byOwner EXCEPT ![o] = {}]
      /\ w = [value |-> w.value, bySpender |-> w.bySpender, byOwner |-> w.byOwner]
  BY DEF RevokeAllAllowances
<1> HIDE DEF w
<1>4. /\ w.value \in [Address -> [Address -> AllowanceValue]]
      /\ w.bySpender \in [Address -> SUBSET Address]
      /\ w.byOwner \in [Address -> SUBSET Address]
  BY <1>1, <1>2, <1>3
<1>5. w \in AllowancesType
  BY <1>3, <1>4 DEF AllowancesType
<1>6. \A p, q \in Address :
          w.value[p][q] = IF p = o /\ q \in l.byOwner[o] THEN NoAllowance ELSE l.value[p][q]
  BY <1>2, <1>3
<1>7. ASSUME IndexesAgree(l) PROVE IndexesAgree(w) /\ OwnerApprovesNobody(w, o)
  <2>1. OwnerApprovesNobody(w, o)
    <3>1. ASSUME NEW s \in Address PROVE w.value[o][s].amount = 0
      <4>1. CASE s \in l.byOwner[o]
        BY <1>1, <1>6, <4>1
      <4>2. CASE s \notin l.byOwner[o]
        <5>1. l.value[o][s] \in AllowanceValue
          BY <1>2
        <5>2. ~(l.value[o][s].amount > 0)
          BY <1>7, <4>2 DEF IndexesAgree
        <5>3. l.value[o][s].amount \in Nat
          BY <5>1 DEF AllowanceValue
        <5>4. w.value[o][s] = l.value[o][s]
          BY <1>6, <4>2
        <5> QED BY <5>2, <5>3, <5>4
      <4> QED BY <4>1, <4>2
    <3> QED BY <3>1 DEF OwnerApprovesNobody
  <2>2. IndexesAgree(w)
    <3> SUFFICES ASSUME NEW p \in Address, NEW q \in Address
                 PROVE  /\ w.value[p][q].amount > 0 => q \in w.byOwner[p]
                        /\ q \in w.byOwner[p] <=> p \in w.bySpender[q]
      BY DEF IndexesAgree
    <3>1. /\ l.value[p][q].amount > 0 => q \in l.byOwner[p]
          /\ q \in l.byOwner[p] <=> p \in l.bySpender[q]
      BY <1>7 DEF IndexesAgree
    <3>2. q \in w.byOwner[p] <=> p \in w.bySpender[q]
      BY <1>2, <1>3, <3>1
    <3>3. CASE p = o
      BY <2>1, <3>2, <3>3 DEF OwnerApprovesNobody
    <3>4. CASE p # o
      <4>1. w.value[p][q] = l.value[p][q]
        BY <1>6, <3>4
      <4>2. w.byOwner[p] = l.byOwner[p]
        BY <1>2, <1>3, <3>4
      <4> QED BY <3>1, <3>2, <4>1, <4>2
    <3> QED BY <3>3, <3>4
  <2> QED BY <2>1, <2>2
<1>8. ASSUME NEW p \in Address, OwnerApprovesNobody(l, p) PROVE OwnerApprovesNobody(w, p)
  BY <1>1, <1>6, <1>8 DEF OwnerApprovesNobody
<1> QED
  BY <1>5, <1>7, <1>8 DEF w

-----------------------------------------------------------------------------
(***************************************************************************)
(* The inductive invariant.                                                *)
(***************************************************************************)
PoolApprovesNobody == OwnerApprovesNobody(allowances, Contract)

\* initialize_with_max_supply sets any cap without looking at the supply,
\* which is still zero then.
NothingBeforeAdmin == ~HasAdmin => totalSupply = 0

\* A second accept_admin during a delay cannot move the activation ledger
\* forward in time: what is left of a delay is never more than a full one.
DelayBounded == adminActiveAfter <= now + ActivationDelay

IInv ==
    /\ TypeOK
    /\ HoldersExact
    /\ SupplyWithinCap
    /\ AllowanceIndexed
    /\ PoolApprovesNobody
    /\ NothingBeforeAdmin
    /\ DelayBounded

\* An empty ledger, no allowances and no cap satisfy it.
LEMMA InitInv == Init => IInv
<1> SUFFICES ASSUME Init PROVE IInv
  OBVIOUS
<1> USE HostAssumption, ContractAssumption, AdminAssumption, TokenAssumption
<1>1. ledger \in LedgerType /\ HolderSetExact(ledger)
  BY DEF Init, LedgerType, HolderSetExact
<1>2. allowances \in AllowancesType /\ IndexesAgree(allowances)
  BY DEF Init, NoAllowances, AllowancesType, NoAllowance, AllowanceValue, Ledger, IndexesAgree
<1>3. PoolApprovesNobody
  BY DEF Init, NoAllowances, NoAllowance, PoolApprovesNobody, OwnerApprovesNobody, Address
<1>4. now \in Ledger /\ AdminTypeOK /\ cosigner \in MaybeAddress
  BY DEF Init, Ledger, AdminInit, AdminTypeOK, MaybeAddress
<1>5. totalSupply \in 0 .. I128Max /\ maxSupply \in Int /\ SupplyWithinCap
  BY DEF Init, SupplyWithinCap
<1>7. NothingBeforeAdmin
  BY DEF Init, NothingBeforeAdmin
<1>8. DelayBounded
  BY DEF Init, AdminInit, DelayBounded
<1>6. paused \in BOOLEAN /\ frozen \subseteq Address
  BY Zenon DEF Init
<1> QED
  BY <1>1, <1>2, <1>3, <1>4, <1>5, <1>6, <1>7, <1>8 DEF IInv, TypeOK, HoldersExact, AllowanceIndexed

(***************************************************************************)
(* The three groups of variables, so that each action is looked at only    *)
(* for the groups it changes.                                              *)
(***************************************************************************)
MoneyInv == ledger \in LedgerType /\ HoldersExact
SupplyInv ==
    /\ totalSupply \in 0 .. I128Max
    /\ maxSupply \in Int
    /\ SupplyWithinCap
    /\ NothingBeforeAdmin
AllowanceInv == allowances \in AllowancesType /\ AllowanceIndexed /\ PoolApprovesNobody
SwitchInv ==
    /\ now \in Ledger
    /\ DelayBounded
    /\ AdminTypeOK
    /\ cosigner \in MaybeAddress
    /\ paused \in BOOLEAN
    /\ frozen \subseteq Address

\* The groups together are the invariant, before and after a step.
LEMMA Parts ==
    /\ IInv <=> MoneyInv /\ SupplyInv /\ AllowanceInv /\ SwitchInv
    /\ IInv' <=> MoneyInv' /\ SupplyInv' /\ AllowanceInv' /\ SwitchInv'
BY DEF IInv, TypeOK, MoneyInv, SupplyInv, AllowanceInv, SwitchInv

\* A step that leaves a group of variables alone keeps its invariant.
LEMMA MoneyKept == ASSUME MoneyInv, UNCHANGED ledger PROVE MoneyInv'
BY DEF MoneyInv, HoldersExact

\* The same for the supply group.
LEMMA SupplyKept == 
    ASSUME SupplyInv, UNCHANGED supplyVars, HasAdmin => HasAdmin' PROVE SupplyInv'
BY DEF SupplyInv, SupplyWithinCap, NothingBeforeAdmin, supplyVars

\* The same for the allowance group.
LEMMA AllowanceKept == ASSUME AllowanceInv, UNCHANGED allowances PROVE AllowanceInv'
BY DEF AllowanceInv, AllowanceIndexed, PoolApprovesNobody

\* The same for the switch group.
LEMMA SwitchKept == ASSUME SwitchInv, UNCHANGED <<now, adminVars, flagVars>> PROVE SwitchInv'
BY DEF SwitchInv, DelayBounded, AdminTypeOK, adminVars, flagVars

-----------------------------------------------------------------------------
(***************************************************************************)
(* What the building blocks of the actions do to a group.                  *)
(***************************************************************************)

\* A credit keeps the ledger's invariant.
LEMMA MoneyReceive ==
    ASSUME MoneyInv, NEW a \in Address, NEW x \in Nat, ledger' = Receive(ledger, a, x)
    PROVE  MoneyInv'
BY ReceiveLemma DEF MoneyInv, HoldersExact

\* So does a debit that is covered.
LEMMA MoneySpend ==
    ASSUME MoneyInv, NEW a \in Address, NEW x \in Nat, CanSpend(ledger, a, x),
           ledger' = Spend(ledger, a, x)
    PROVE  MoneyInv'
BY SpendLemma DEF MoneyInv, HoldersExact

\* So does a transfer.
LEMMA MoneyMove ==
    ASSUME MoneyInv, NEW f \in Address, NEW t \in Address, NEW x \in Nat,
           CanSpend(ledger, f, x), ledger' = Move(ledger, f, t, x)
    PROVE  MoneyInv'
BY MoveLemma DEF MoneyInv, HoldersExact

\* Minting respects the cap and the width of an i128.
LEMMA SupplyUp ==
    ASSUME SupplyInv, NEW x \in Nat, IncreaseSupply(x), UNCHANGED maxSupply, HasAdmin'
    PROVE  SupplyInv'
BY TokenAssumption DEF SupplyInv, IncreaseSupply, SupplyWithinCap, NothingBeforeAdmin

\* Burning keeps the supply within any cap.
LEMMA SupplyDown ==
    ASSUME SupplyInv, NEW x \in Nat, DecreaseSupply(x), UNCHANGED <<maxSupply, admin>>
    PROVE  SupplyInv'
BY TokenAssumption DEF SupplyInv, DecreaseSupply, SupplyWithinCap, NothingBeforeAdmin, HasAdmin

\* Spending somebody's allowance keeps the allowance invariant; the owner is
\* not the contract, which has approved nobody.
LEMMA AllowanceSpent ==
    ASSUME AllowanceInv, NEW o \in Address, NEW s \in Address, NEW x \in Nat, x > 0,
           CanSpendAllowance(allowances, o, s, x),
           allowances' = SpendAllowance(allowances, o, s, x)
    PROVE  AllowanceInv' /\ o # Contract
<1>1. o # Contract
  <2> SUFFICES ASSUME o = Contract PROVE FALSE
    OBVIOUS
  <2>1. allowances.value[o][s].amount = 0
    BY DEF AllowanceInv, PoolApprovesNobody, OwnerApprovesNobody
  <2>2. allowances.value[o][s].amount >= x
    BY DEF CanSpendAllowance
  <2> QED BY <2>1, <2>2
<1>2. Contract \in Address /\ allowances \in AllowancesType
  BY DEF Address, AllowanceInv
<1> QED
  BY <1>1, <1>2, SpendAllowanceLemma DEF AllowanceInv, AllowanceIndexed, PoolApprovesNobody

\* No account's approval is an approval by the contract.
LEMMA AllowanceWritten ==
    ASSUME AllowanceInv, NEW o \in Account, NEW s \in Address, NEW x \in Nat, NEW e \in Ledger,
           allowances' = WriteAllowance(allowances, o, s, x, e)
    PROVE  AllowanceInv'
<1>1. o \in Address /\ Contract \in Address /\ o # Contract /\ allowances \in AllowancesType
  BY ContractAssumption DEF Address, AllowanceInv
<1> QED
  BY <1>1, WriteLemma DEF AllowanceInv, AllowanceIndexed, PoolApprovesNobody

-----------------------------------------------------------------------------
\* Rotating the admin keeps the invariant.
LEMMA AdminStep ==
    ASSUME IInv, AdminNext, UNCHANGED <<now, ledger, allowances, supplyVars, flagVars>>
    PROVE  IInv'
<1> USE AdminAssumption, HostAssumption
<1>6. HasAdmin => HasAdmin'
  BY DEF AdminNext, ProposeAdmin, AcceptAdmin, TransferAdmin, HasAdmin, Address
<1>1. MoneyInv' /\ SupplyInv' /\ AllowanceInv'
  BY <1>6, Parts, MoneyKept, SupplyKept, AllowanceKept
<1>2. SwitchInv
  BY Parts
<1>3. UNCHANGED <<now, cosigner, paused, frozen>>
  BY DEF flagVars
<1>4. AdminTypeOK'
  <2>1. now + ActivationDelay \in Nat
    BY <1>2 DEF SwitchInv, Ledger
  <2>2. NoAddress \in MaybeAddress /\ NewAdmins \subseteq MaybeAddress
    BY DEF MaybeAddress
  <2>3. CASE \E c \in Account, n \in NewAdmins : ProposeAdmin(c, n)
    BY <1>2, <2>2, <2>3 DEF ProposeAdmin, SwitchInv, AdminTypeOK
  <2>4. CASE \E c \in Account : AcceptAdmin(c)
    BY <1>2, <2>1, <2>2, <2>4 DEF AcceptAdmin, SwitchInv, AdminTypeOK
  <2>5. CASE \E c \in Account, n \in NewAdmins : TransferAdmin(c, n)
    BY <1>2, <2>2, <2>5 DEF TransferAdmin, SwitchInv, AdminTypeOK
  <2> QED BY <2>3, <2>4, <2>5 DEF AdminNext
<1>7. DelayBounded'
  BY <1>2, <1>3 DEF AdminNext, ProposeAdmin, AcceptAdmin, TransferAdmin, DelayBounded, SwitchInv,
                    Ledger
<1>5. SwitchInv'
  BY <1>2, <1>3, <1>4, <1>7 DEF SwitchInv
<1> QED
  BY <1>1, <1>5, Parts

\* Setting up the contract and the admin's own operations keep it.
LEMMA PrivilegedStep == ASSUME IInv, PrivilegedNext PROVE IInv'
<1> USE TokenAssumption, AdminAssumption, HostAssumption
<1>0. MoneyInv /\ SupplyInv /\ AllowanceInv /\ SwitchInv
  BY Parts
<1>9. NewAdmins \subseteq MaybeAddress /\ Cosigners \subseteq MaybeAddress
  BY DEF MaybeAddress
<1>8. \A c \in Account : CheckAdmin(c) => HasAdmin
  BY DEF CheckAdmin, HasAdmin, Address
<1>1. CASE \E a \in NewAdmins, x \in Caps : InitializeWithMaxSupply(a, x)
  <2> PICK a \in NewAdmins, x \in Caps : InitializeWithMaxSupply(a, x)
    BY <1>1
  <2>1. MoneyInv' /\ AllowanceInv'
    BY <1>0, MoneyKept, AllowanceKept DEF InitializeWithMaxSupply
  <2>2. SupplyInv'
    BY <1>0 DEF InitializeWithMaxSupply, SupplyInv, SupplyWithinCap, NothingBeforeAdmin,
                HasAdmin, Address
  <2>3. SwitchInv'
    BY <1>0, <1>9 DEF InitializeWithMaxSupply, SwitchInv, DelayBounded, AdminTypeOK, flagVars
  <2> QED BY <2>1, <2>2, <2>3, Parts
<1>2. CASE \E c \in Account, x \in Caps : SetMaxSupply(c, x)
  <2> PICK c \in Account, x \in Caps : SetMaxSupply(c, x)
    BY <1>2
  <2>1. MoneyInv' /\ AllowanceInv' /\ SwitchInv'
    BY <1>0, MoneyKept, AllowanceKept, SwitchKept DEF SetMaxSupply
  <2>2. SupplyInv'
    BY <1>0 DEF SetMaxSupply, SupplyInv, SupplyWithinCap, NothingBeforeAdmin, HasAdmin, adminVars
  <2> QED BY <2>1, <2>2, Parts
<1>3. CASE \E c \in Account : Pause(c) \/ Unpause(c)
  <2> PICK c \in Account : Pause(c) \/ Unpause(c)
    BY <1>3
  <2>1. UNCHANGED <<now, ledger, allowances, admin, pendingAdmin, adminActiveAfter, supplyVars,
                    cosigner, frozen>>
    BY DEF Pause, Unpause, adminVars
  <2>2. MoneyInv' /\ AllowanceInv' /\ SupplyInv'
    BY <1>0, <2>1, MoneyKept, AllowanceKept, SupplyKept DEF HasAdmin
  <2>3. paused' \in BOOLEAN
    BY Zenon DEF Pause, Unpause
  <2>4. SwitchInv'
    BY <1>0, <2>1, <2>3 DEF SwitchInv, DelayBounded, AdminTypeOK
  <2> QED BY <2>2, <2>4, Parts
<1>4. CASE \E c \in Account, s \in Cosigners : SetClawbackCosigner(c, s)
  <2> PICK c \in Account, s \in Cosigners : SetClawbackCosigner(c, s)
    BY <1>4
  <2>1. UNCHANGED <<now, ledger, allowances, admin, pendingAdmin, adminActiveAfter, supplyVars,
                    paused, frozen>> /\ cosigner' = s
    BY DEF SetClawbackCosigner, adminVars
  <2>2. MoneyInv' /\ AllowanceInv' /\ SupplyInv'
    BY <1>0, <2>1, MoneyKept, AllowanceKept, SupplyKept DEF HasAdmin
  <2>3. SwitchInv'
    BY <1>0, <1>9, <2>1 DEF SwitchInv, DelayBounded, AdminTypeOK
  <2> QED BY <2>2, <2>3, Parts
<1>5. CASE \E c \in Account, t \in Recipients, x \in Amounts : Mint(c, t, x)
  <2> PICK c \in Account, t \in Recipients, x \in Amounts : Mint(c, t, x)
    BY <1>5
  <2>1. MoneyInv'
    BY <1>0, MoneyReceive DEF Mint
  <2>2. HasAdmin'
    BY <1>8 DEF Mint, HasAdmin, adminVars
  <2>3. SupplyInv'
    BY <1>0, <2>2, SupplyUp DEF Mint
  <2>4. AllowanceInv' /\ SwitchInv'
    BY <1>0, AllowanceKept, SwitchKept DEF Mint
  <2> QED BY <2>1, <2>3, <2>4, Parts
<1>6. CASE \E c \in Account, f \in Recipients, x \in Amounts : Clawback(c, f, x)
  <2> PICK c \in Account, f \in Recipients, x \in Amounts : Clawback(c, f, x)
    BY <1>6
  <2>1. MoneyInv'
    BY <1>0, MoneySpend DEF Clawback
  <2>2. SupplyInv'
    BY <1>0, SupplyDown DEF Clawback, adminVars
  <2>3. AllowanceInv' /\ SwitchInv'
    BY <1>0, AllowanceKept, SwitchKept DEF Clawback
  <2> QED BY <2>1, <2>2, <2>3, Parts
<1> QED
  BY <1>1, <1>2, <1>3, <1>4, <1>5, <1>6 DEF PrivilegedNext

\* What users do with their own tokens, allowances and approvals keeps it.
LEMMA UserStep == ASSUME IInv, UserNext PROVE IInv'
<1> USE TokenAssumption
<1>0. MoneyInv /\ SupplyInv /\ AllowanceInv /\ SwitchInv
  BY Parts
<1>9. Account \subseteq Address
  BY DEF Address
<1>1. CASE \E f \in Account, x \in Amounts : Burn(f, x)
  <2> PICK f \in Account, x \in Amounts : Burn(f, x)
    BY <1>1
  <2>1. MoneyInv' /\ SupplyInv'
    BY <1>0, <1>9, MoneySpend, SupplyDown DEF Burn, adminVars
  <2>2. AllowanceInv' /\ SwitchInv'
    BY <1>0, AllowanceKept, SwitchKept DEF Burn
  <2> QED BY <2>1, <2>2, Parts
<1>2. CASE \E s \in Account, f \in Recipients, x \in Amounts : BurnFrom(s, f, x)
  <2> PICK s \in Account, f \in Recipients, x \in Amounts : BurnFrom(s, f, x)
    BY <1>2
  <2>1. MoneyInv' /\ SupplyInv'
    BY <1>0, <1>9, MoneySpend, SupplyDown DEF BurnFrom, adminVars
  <2>2. AllowanceInv'
    BY <1>0, <1>9, AllowanceSpent DEF BurnFrom
  <2>3. SwitchInv'
    BY <1>0, SwitchKept DEF BurnFrom
  <2> QED BY <2>1, <2>2, <2>3, Parts
<1>3. CASE \E f \in Account, t \in Recipients, x \in Amounts :
              Transfer(f, t, x) \/ TransferWithMemo(f, t, x)
  <2> PICK f \in Account, t \in Recipients, x \in Amounts :
              Transfer(f, t, x) \/ TransferWithMemo(f, t, x)
    BY <1>3
  <2>1. MoneyInv'
    BY <1>0, <1>9, MoneyMove DEF Transfer, TransferWithMemo
  <2>2. SupplyInv' /\ AllowanceInv' /\ SwitchInv'
    BY <1>0, SupplyKept, AllowanceKept, SwitchKept
       DEF Transfer, TransferWithMemo, adminVars, HasAdmin
  <2> QED BY <2>1, <2>2, Parts
<1>4. CASE \E s \in Account, f \in Recipients, t \in Recipients, x \in Amounts :
              TransferFrom(s, f, t, x)
  <2> PICK s \in Account, f \in Recipients, t \in Recipients, x \in Amounts :
              TransferFrom(s, f, t, x)
    BY <1>4
  <2>1. MoneyInv'
    BY <1>0, <1>9, MoneyMove DEF TransferFrom
  <2>2. AllowanceInv'
    BY <1>0, <1>9, AllowanceSpent DEF TransferFrom
  <2>3. SupplyInv' /\ SwitchInv'
    BY <1>0, SupplyKept, SwitchKept DEF TransferFrom, adminVars, HasAdmin
  <2> QED BY <2>1, <2>2, <2>3, Parts
<1>5. CASE \E f \in Account, s \in Spenders, x \in Amounts, e \in Ledger : Approve(f, s, x, e)
  <2> PICK f \in Account, s \in Spenders, x \in Amounts, e \in Ledger : Approve(f, s, x, e)
    BY <1>5
  <2>1. AllowanceInv'
    BY <1>0, AllowanceWritten DEF Approve
  <2>2. MoneyInv' /\ SupplyInv' /\ SwitchInv'
    BY <1>0, MoneyKept, SupplyKept, SwitchKept DEF Approve, adminVars, HasAdmin
  <2> QED BY <2>1, <2>2, Parts
<1>6. CASE \E f \in Account : RevokeAll(f)
  <2> PICK f \in Account : RevokeAll(f)
    BY <1>6
  <2>1. AllowanceInv'
    BY <1>0, <1>9, RevokeLemma
       DEF RevokeAll, AllowanceInv, AllowanceIndexed, PoolApprovesNobody, Address
  <2>2. MoneyInv' /\ SupplyInv' /\ SwitchInv'
    BY <1>0, MoneyKept, SupplyKept, SwitchKept DEF RevokeAll, adminVars, HasAdmin
  <2> QED BY <2>1, <2>2, Parts
<1>7. CASE \E f \in Recipients, s \in Spenders : ReadAllowance(f, s)
  <2> PICK f \in Recipients, s \in Spenders : ReadAllowance(f, s)
    BY <1>7
  <2>1. AllowanceInv'
    BY <1>0, PruneLemma
       DEF ReadAllowance, AllowanceInv, AllowanceIndexed, PoolApprovesNobody, Address
  <2>2. MoneyInv' /\ SupplyInv' /\ SwitchInv'
    BY <1>0, MoneyKept, SupplyKept, SwitchKept DEF ReadAllowance, adminVars, HasAdmin
  <2> QED BY <2>1, <2>2, Parts
<1> QED
  BY <1>1, <1>2, <1>3, <1>4, <1>5, <1>6, <1>7 DEF UserNext

\* Every step keeps the invariant.
LEMMA NextInv == IInv /\ [Next]_vars => IInv'
<1> SUFFICES ASSUME IInv, [Next]_vars PROVE IInv'
  OBVIOUS
<1>0. MoneyInv /\ SupplyInv /\ AllowanceInv /\ SwitchInv
  BY Parts
<1>1. CASE AdminNext /\ UNCHANGED <<now, ledger, allowances, supplyVars, flagVars>>
  BY <1>1, AdminStep
<1>2. CASE PrivilegedNext
  BY <1>2, PrivilegedStep
<1>3. CASE UserNext
  BY <1>3, UserStep
<1>4. CASE Tick
  <2>1. MoneyInv' /\ SupplyInv' /\ AllowanceInv'
    BY <1>0, <1>4, MoneyKept, SupplyKept, AllowanceKept DEF Tick, adminVars, HasAdmin
  <2>2. UNCHANGED <<admin, pendingAdmin, adminActiveAfter, cosigner, paused, frozen>>
    BY <1>4 DEF Tick, adminVars, flagVars
  <2>3. now' \in Ledger /\ DelayBounded'
    BY <1>0, <1>4, <2>2, HostAssumption, AdminAssumption
       DEF Tick, LedgerCloses, SwitchInv, DelayBounded, AdminTypeOK, Ledger
  <2>4. SwitchInv'
    BY <1>0, <2>2, <2>3 DEF SwitchInv, AdminTypeOK
  <2> QED BY <2>1, <2>4, Parts
<1>5. CASE UNCHANGED vars
  <2>1. UNCHANGED <<now, ledger, allowances, adminVars, supplyVars, flagVars>>
    BY <1>5 DEF vars, adminVars, supplyVars, flagVars
  <2> QED
    BY <1>0, <2>1, MoneyKept, SupplyKept, AllowanceKept, SwitchKept, Parts DEF adminVars, HasAdmin
<1> QED
  BY <1>1, <1>2, <1>3, <1>4, <1>5 DEF Next

\* The invariant holds in every reachable state.
THEOREM Invariance == Spec => []IInv
BY InitInv, NextInv, PTL DEF Spec

\* Every storage key always holds a value of its type; in particular no
\* sequence of spends makes a balance or the supply negative.
THEOREM TypeCorrect == Spec => []TypeOK
<1>1. IInv => TypeOK
  BY DEF IInv
<1> QED BY <1>1, Invariance, PTL

\* The supply never exceeds a cap in force.
THEOREM CapCorrect == Spec => []SupplyWithinCap
<1>1. IInv => SupplyWithinCap
  BY DEF IInv
<1> QED BY <1>1, Invariance, PTL

\* The holder set is always exact.
THEOREM HoldersCorrect == Spec => []HoldersExact
<1>1. IInv => HoldersExact
  BY DEF IInv
<1> QED BY <1>1, Invariance, PTL

\* The allowance indexes are always complete and mirror each other.
THEOREM IndexesCorrect == Spec => []AllowanceIndexed
<1>1. IInv => AllowanceIndexed
  BY DEF IInv
<1> QED BY <1>1, Invariance, PTL

-----------------------------------------------------------------------------
(***************************************************************************)
(* Action properties.                                                      *)
(***************************************************************************)

\* What a step does to the balances and the supply: nothing; or it moves or
\* burns tokens of an address that is not the contract, unpaused or by
\* clawback; or it mints, unpaused.
BalanceStep ==
    \/ UNCHANGED <<ledger, totalSupply>>
    \/ \E a \in Address, x \in Nat :
          /\ ~paused
          /\ ledger'.balance = [ledger.balance EXCEPT ![a] = @ + x]
          /\ totalSupply' = totalSupply + x
    \/ \E a \in Address, x \in Nat :
          /\ a # Contract
          /\ ledger.balance[a] >= x
          /\ \/ /\ ledger'.balance = [ledger.balance EXCEPT ![a] = @ - x]
                /\ totalSupply' = totalSupply - x
             \/ /\ ~paused
                /\ \E b \in Address : ledger'.balance =
                      [[ledger.balance EXCEPT ![a] = @ - x] EXCEPT ![b] = @ + x]
                /\ UNCHANGED totalSupply

\* Every step is of one of these kinds.
LEMMA NextBalance == ASSUME IInv, [Next]_vars PROVE BalanceStep
<1> USE TokenAssumption
<1>0. ledger \in LedgerType /\ AllowanceInv
  BY Parts DEF MoneyInv
<1>9. Account \subseteq Address /\ Contract \notin Account
  BY ContractAssumption DEF Address
<1>1. CASE \E c \in Account, t \in Recipients, x \in Amounts : Mint(c, t, x)
  <2> PICK c \in Account, t \in Recipients, x \in Amounts : Mint(c, t, x)
    BY <1>1
  <2>1. x \in Nat /\ t \in Address
    OBVIOUS
  <2>2. ~paused /\ ledger' = Receive(ledger, t, x) /\ totalSupply' = totalSupply + x
    BY DEF Mint, IncreaseSupply
  <2>3. Receive(ledger, t, x).balance = [ledger.balance EXCEPT ![t] = @ + x]
    BY <1>0, <2>1, ReceiveLemma
  <2> QED BY <2>1, <2>2, <2>3 DEF BalanceStep
<1>2. ASSUME NEW a \in Address, NEW x \in Amounts, a # Contract, CanSpend(ledger, a, x),
             ledger' = Spend(ledger, a, x), DecreaseSupply(x)
      PROVE  BalanceStep
  <2>0. x \in Nat
    OBVIOUS
  <2>1. ledger'.balance = [ledger.balance EXCEPT ![a] = @ - x]
    BY <1>0, <1>2, <2>0, SpendLemma
  <2> QED BY <1>2, <2>0, <2>1 DEF BalanceStep, CanSpend, DecreaseSupply
<1>3. ASSUME NEW a \in Address, NEW b \in Address, NEW x \in Amounts, a # Contract, ~paused,
             CanSpend(ledger, a, x), ledger' = Move(ledger, a, b, x), UNCHANGED totalSupply
      PROVE  BalanceStep
  <2>1. ledger'.balance = [[ledger.balance EXCEPT ![a] = @ - x] EXCEPT ![b] = @ + x]
    BY <1>0, <1>3, MoveLemma
  <2> QED BY <1>3, <2>1 DEF BalanceStep, CanSpend
<1>4. CASE \E c \in Account, f \in Recipients, x \in Amounts : Clawback(c, f, x)
  BY <1>2, <1>4 DEF Clawback
<1>5. CASE \E f \in Account, x \in Amounts : Burn(f, x)
  BY <1>2, <1>5, <1>9 DEF Burn
<1>6. CASE \E s \in Account, f \in Recipients, x \in Amounts : BurnFrom(s, f, x)
  <2> PICK s \in Account, f \in Recipients, x \in Amounts : BurnFrom(s, f, x)
    BY <1>6
  <2>1. f # Contract
    BY <1>0, <1>9, AllowanceSpent DEF BurnFrom
  <2> QED BY <1>2, <2>1 DEF BurnFrom
<1>7. CASE \E f \in Account, t \in Recipients, x \in Amounts :
              Transfer(f, t, x) \/ TransferWithMemo(f, t, x)
  BY <1>3, <1>7, <1>9 DEF Transfer, TransferWithMemo, supplyVars
<1>8. CASE \E s \in Account, f \in Recipients, t \in Recipients, x \in Amounts :
              TransferFrom(s, f, t, x)
  <2> PICK s \in Account, f \in Recipients, t \in Recipients, x \in Amounts :
              TransferFrom(s, f, t, x)
    BY <1>8
  <2>1. f # Contract
    BY <1>0, <1>9, AllowanceSpent DEF TransferFrom
  <2> QED BY <1>3, <2>1 DEF TransferFrom, supplyVars
<1>10. CASE UNCHANGED <<ledger, totalSupply>>
  BY <1>10 DEF BalanceStep
<1>11. \/ UNCHANGED <<ledger, totalSupply>>
       \/ \E c \in Account, t \in Recipients, x \in Amounts : Mint(c, t, x)
       \/ \E c \in Account, f \in Recipients, x \in Amounts : Clawback(c, f, x)
       \/ UserNext
  <2>1. CASE PrivilegedNext
    BY <2>1 DEF PrivilegedNext, InitializeWithMaxSupply, SetMaxSupply, Pause, Unpause,
                SetClawbackCosigner, supplyVars
  <2> QED BY <2>1 DEF Next, Tick, vars, supplyVars
<1>12. CASE UserNext
  BY <1>5, <1>6, <1>7, <1>8, <1>10, <1>12 DEF UserNext, Approve, RevokeAll, ReadAllowance, supplyVars
<1> QED
  BY <1>1, <1>4, <1>10, <1>11, <1>12

\* The total supply is the sum of all balances, whatever is minted, moved,
\* burned and clawed back.
THEOREM SupplyCorrect == Spec => []SupplyIsSum
<1>1. Init => SupplyIsSum
  <2> SUFFICES ASSUME Init PROVE Held(ledger) = 0
    BY DEF Init, SupplyIsSum
  <2>1. ledger.balance = [a \in Address |-> 0]
    BY DEF Init
  <2>2. SumFunctionOnSet([a \in Address |-> 0], Address) = 0
    BY FiniteAddress, SumZero
  <2> QED BY <2>1, <2>2 DEF Held
<1>2. IInv /\ SupplyIsSum /\ [Next]_vars => SupplyIsSum'
  <2> SUFFICES ASSUME IInv, SupplyIsSum, [Next]_vars PROVE SupplyIsSum'
    OBVIOUS
  <2>1. BalanceStep
    BY NextBalance
  <2>2. ledger \in LedgerType /\ ledger.balance \in [Address -> Int] /\ Held(ledger) \in Nat
    BY Parts, HeldType DEF MoneyInv, LedgerType
  <2>3. CASE UNCHANGED <<ledger, totalSupply>>
    BY <2>3 DEF SupplyIsSum
  <2>4. ASSUME NEW a \in Address, NEW x \in Nat,
               ledger'.balance = [ledger.balance EXCEPT ![a] = @ + x],
               totalSupply' = totalSupply + x
        PROVE  SupplyIsSum'
    <3>1. Held(ledger') = Held(ledger) + x
      BY <2>2, <2>4, HeldUpdate
    <3> QED BY <2>4, <3>1 DEF SupplyIsSum
  <2>5. ASSUME NEW a \in Address, NEW x \in Nat,
               ledger'.balance = [ledger.balance EXCEPT ![a] = @ - x],
               totalSupply' = totalSupply - x
        PROVE  SupplyIsSum'
    <3>0. -x \in Int /\ ledger'.balance = [ledger.balance EXCEPT ![a] = @ + (-x)]
      BY <2>2, <2>5
    <3>1. Held(ledger') = Held(ledger) + (-x)
      BY <2>2, <3>0, HeldUpdate
    <3> QED BY <2>2, <2>5, <3>1 DEF SupplyIsSum
  <2>6. ASSUME NEW a \in Address, NEW b \in Address, NEW x \in Nat,
               ledger'.balance = [[ledger.balance EXCEPT ![a] = @ - x] EXCEPT ![b] = @ + x],
               UNCHANGED totalSupply
        PROVE  SupplyIsSum'
    <3>1. Held(ledger') = Held(ledger)
      BY <2>2, <2>6, HeldMove
    <3> QED BY <2>6, <3>1 DEF SupplyIsSum
  <2> QED BY <2>1, <2>3, <2>4, <2>5, <2>6 DEF BalanceStep
<1> QED BY <1>1, <1>2, Invariance, PTL DEF Spec

\* No operation of the plain token takes tokens out of the contract's pool.
THEOREM PoolCorrect == Spec => PoolNeverDrained
<1>1. IInv /\ [Next]_vars => [PoolStep]_vars
  <2> SUFFICES ASSUME IInv, [Next]_vars PROVE PoolStep
    OBVIOUS
  <2>1. BalanceStep
    BY NextBalance
  <2>2. ledger.balance \in [Address -> Nat] /\ Contract \in Address
    BY Parts DEF MoneyInv, LedgerType, Address
  <2>3. CASE UNCHANGED ledger
    BY <2>2, <2>3 DEF PoolStep
  <2>4. ASSUME NEW a \in Address, NEW x \in Nat,
               ledger'.balance = [ledger.balance EXCEPT ![a] = @ + x]
        PROVE  PoolStep
    BY <2>2, <2>4 DEF PoolStep
  <2>5. ASSUME NEW a \in Address, NEW x \in Nat, a # Contract,
               ledger'.balance = [ledger.balance EXCEPT ![a] = @ - x]
        PROVE  PoolStep
    BY <2>2, <2>5 DEF PoolStep
  <2>6. ASSUME NEW a \in Address, NEW b \in Address, NEW x \in Nat, a # Contract,
               ledger'.balance = [[ledger.balance EXCEPT ![a] = @ - x] EXCEPT ![b] = @ + x]
        PROVE  PoolStep
    BY <2>2, <2>6 DEF PoolStep
  <2> QED BY <2>1, <2>3, <2>4, <2>5, <2>6 DEF BalanceStep
<1> QED BY <1>1, Invariance, PTL DEF Spec, PoolNeverDrained

\* While the contract is paused nobody's balance grows.
THEOREM PauseCorrect == Spec => PauseStopsTransfers
<1>1. IInv /\ [Next]_vars => [PausedStep]_vars
  <2> SUFFICES ASSUME IInv, [Next]_vars PROVE PausedStep
    OBVIOUS
  <2>1. BalanceStep
    BY NextBalance
  <2>2. ledger.balance \in [Address -> Nat]
    BY Parts DEF MoneyInv, LedgerType
  <2> SUFFICES ASSUME paused, NEW c \in Address
               PROVE  ledger'.balance[c] <= ledger.balance[c]
    BY DEF PausedStep
  <2>3. CASE UNCHANGED ledger
    BY <2>2, <2>3
  <2>4. ASSUME NEW a \in Address, NEW x \in Nat,
               ledger'.balance = [ledger.balance EXCEPT ![a] = @ - x]
        PROVE  ledger'.balance[c] <= ledger.balance[c]
    BY <2>2, <2>4
  <2>5. \/ UNCHANGED ledger
        \/ \E a \in Address, x \in Nat : ledger'.balance = [ledger.balance EXCEPT ![a] = @ - x]
    BY <2>1, Zenon DEF BalanceStep
  <2> QED BY <2>3, <2>4, <2>5
<1> QED BY <1>1, Invariance, PTL DEF Spec, PauseStopsTransfers

\* During the activation delay the switches stay, nothing is minted, a paused
\* contract keeps every balance, so that nothing is clawed back, and the
\* delay is not shortened.
THEOREM DelayCorrect == Spec => DelayHolds
<1>1. IInv /\ [Next]_vars => [DelayStep]_vars
  <2> SUFFICES ASSUME IInv, [Next]_vars, HasAdmin, now < adminActiveAfter
               PROVE  /\ UNCHANGED <<maxSupply, cosigner, paused>>
                      /\ totalSupply' <= totalSupply
                      /\ paused => UNCHANGED ledger
                      /\ adminActiveAfter' >= adminActiveAfter
    BY DEF DelayStep
  <2> USE TokenAssumption, AdminAssumption, HostAssumption
  <2>0. /\ totalSupply \in Nat
        /\ now \in Nat
        /\ adminActiveAfter \in Nat
        /\ adminActiveAfter <= now + ActivationDelay
    BY Parts DEF SupplyInv, SwitchInv, DelayBounded, AdminTypeOK, Ledger
  <2>9. \A c \in Account : ~CheckAdmin(c)
    BY <2>0 DEF CheckAdmin
  <2>1. ~PrivilegedNext
    BY <2>9 DEF PrivilegedNext, InitializeWithMaxSupply, SetMaxSupply, Pause, Unpause,
                SetClawbackCosigner, Mint, Clawback
  <2>2. CASE AdminNext /\ UNCHANGED <<now, ledger, allowances, supplyVars, flagVars>>
    BY <2>0, <2>2 DEF AdminNext, ProposeAdmin, AcceptAdmin, TransferAdmin, supplyVars, flagVars
  <2>3. CASE UserNext
    <3>1. UNCHANGED <<maxSupply, cosigner, paused, adminActiveAfter>>
      BY <2>3 DEF UserNext, Burn, BurnFrom, Transfer, TransferWithMemo, TransferFrom, Approve,
                  RevokeAll, ReadAllowance, adminVars, supplyVars, flagVars
    <3>2. UNCHANGED totalSupply \/ \E x \in Amounts : DecreaseSupply(x)
      BY <2>3 DEF UserNext, Burn, BurnFrom, Transfer, TransferWithMemo, TransferFrom, Approve,
                  RevokeAll, ReadAllowance, supplyVars
    <3>3. totalSupply' <= totalSupply
      BY <2>0, <3>2 DEF DecreaseSupply
    <3>4. paused => UNCHANGED ledger
      BY <2>3 DEF UserNext, Burn, BurnFrom, Transfer, TransferWithMemo, TransferFrom, Approve,
                  RevokeAll, ReadAllowance
    <3> QED BY <2>0, <3>1, <3>3, <3>4
  <2>4. CASE Tick \/ UNCHANGED vars
    BY <2>0, <2>4 DEF Tick, vars, adminVars, supplyVars, flagVars
  <2> QED BY <2>1, <2>2, <2>3, <2>4 DEF Next
<1> QED BY <1>1, Invariance, PTL DEF Spec, DelayHolds

==============================================================================
