--------------------------- MODULE PayTokenProofs ---------------------------
(***************************************************************************)
(* Proofs about the token of the root crate, for any accounts, amounts,    *)
(* batches and bounds: nobody with tokens is missing from the holder set,  *)
(* the list of an owner's allowances is exact, and only the operations     *)
(* that go around the supply move it apart from the balances.              *)
(*                                                                         *)
(* Batches, dividends and lists of approvals are folds over lists.  What   *)
(* an entry keeps, the fold keeps (FoldStays of module FoldProofs), and    *)
(* the step of each fold is an instance of it.  The facts about sums are   *)
(* those of module BalanceProofs.                                          *)
(***************************************************************************)
EXTENDS PayToken, SequenceTheorems, FiniteSetTheorems, TLAPS

-----------------------------------------------------------------------------
(***************************************************************************)
(* The invariant.  While a call goes on, ok says whether every balance it  *)
(* wrote fits an i128.                                                     *)
(***************************************************************************)
LedgerType == [ok: BOOLEAN, balance: [Address -> Int], holders: SUBSET Account]
Allowance == [amount: Int, expiration_ledger: Nat]
Ownership == [admin: Address \cup {NoAddress}, proposed: Address \cup {NoAddress}, activeAfter: Nat]
AllowanceType == [value: [Owners -> [Spenders -> Allowance]], spenders: [Owners -> SUBSET Spenders]]

Covered(l) == {a \in Account : l.balance[a] > 0} \subseteq l.holders
InRange(l) == l.ok => \A a \in Address : l.balance[a] \in I128
Books == {l \in LedgerType : Covered(l) /\ InRange(l)}

Listed(al) == \A a \in Owners : al.spenders[a] = {s \in Spenders : al.value[a][s] # NoAllowance}
Grants == {al \in AllowanceType : Listed(al)}

\* Before initialize nobody can mint, so there is nothing to burn or move.
NothingYet ==
    owner.admin = NoAddress =>
        maxSupply = 0 /\ supply = 0 /\ \A a \in Address : ledger.balance[a] = 0

IInv ==
    /\ now \in Nat /\ owner \in Ownership
    /\ ledger \in Books /\ ledger.ok
    /\ allowances \in Grants
    /\ supply \in I128 /\ maxSupply \in Int
    /\ maxSupply > 0 => supply <= maxSupply
    /\ NothingYet

-----------------------------------------------------------------------------
(***************************************************************************)
(* The operations on a working copy of the ledger.                         *)
(***************************************************************************)

\* Whatever balance is written, nobody gets lost.
LEMMA SetBalanceLemma ==
    ASSUME NEW l \in Books, NEW a \in Address, NEW bal \in Int
    PROVE  /\ SetBalance(l, a, bal) \in Books
           /\ SetBalance(l, a, bal).balance = [l.balance EXCEPT ![a] = bal]
<1> DEFINE m == SetBalance(l, a, bal)
<1>1. l \in LedgerType /\ Covered(l) /\ InRange(l)
  BY DEF Books
<1>2. /\ m.ok = (l.ok /\ bal \in I128)
      /\ m.balance = [l.balance EXCEPT ![a] = bal]
      /\ m.holders = UpdateHolderSet(l.holders, a, bal)
  BY DEF SetBalance
<1>3. UpdateHolderSet(l.holders, a, bal) \in SUBSET Account
  BY <1>1 DEF UpdateHolderSet, LedgerType, Address
<1>4. m \in LedgerType
  BY <1>1, <1>3 DEF SetBalance, LedgerType
<1>5. Covered(m)
  <2> SUFFICES ASSUME NEW b \in Account, m.balance[b] > 0 PROVE b \in m.holders
    BY DEF Covered
  <2>1. b # Contract /\ b \in Address
    BY ContractAssumption DEF Address
  <2>2. CASE b = a
    BY <1>1, <1>2, <2>1, <2>2 DEF UpdateHolderSet, LedgerType
  <2>3. CASE b # a
    <3>1. b \in l.holders
      BY <1>1, <1>2, <2>1, <2>3 DEF Covered, LedgerType
    <3> QED BY <1>2, <2>3, <3>1 DEF UpdateHolderSet
  <2> QED BY <2>2, <2>3
<1>6. InRange(m)
  <2> SUFFICES ASSUME m.ok, NEW b \in Address PROVE m.balance[b] \in I128
    BY DEF InRange
  <2> QED BY <1>1, <1>2 DEF InRange, LedgerType
<1> QED
  BY <1>2, <1>4, <1>5, <1>6 DEF Books

\* What is sent to the contract itself is dropped.
LEMMA ReceiveLemma ==
    ASSUME NEW l \in Books, NEW a \in Address, NEW x \in Int
    PROVE  /\ Receive(l, a, x) \in Books
           /\ a # Contract => Receive(l, a, x).balance = [l.balance EXCEPT ![a] = @ + x]
           /\ Receive(l, a, x).ok => l.ok
<1>1. l.balance[a] + x \in Int
  BY DEF Books, LedgerType
<1>2. /\ SetBalance(l, a, l.balance[a] + x) \in Books
      /\ SetBalance(l, a, l.balance[a] + x).balance = [l.balance EXCEPT ![a] = l.balance[a] + x]
  BY <1>1, SetBalanceLemma
<1> QED
  BY <1>2 DEF Receive, SetBalance

LEMMA SpendLemma ==
    ASSUME NEW l \in Books, NEW a \in Address, NEW x \in Int
    PROVE  /\ Spend(l, a, x) \in Books
           /\ Spend(l, a, x).ok => /\ l.balance[a] >= x
                                   /\ Spend(l, a, x).balance = [l.balance EXCEPT ![a] = @ - x]
<1>1. l.balance[a] - x \in Int
  BY DEF Books, LedgerType
<1>2. /\ SetBalance(l, a, l.balance[a] - x) \in Books
      /\ SetBalance(l, a, l.balance[a] - x).balance = [l.balance EXCEPT ![a] = l.balance[a] - x]
  BY <1>1, SetBalanceLemma
<1>3. [l EXCEPT !.ok = FALSE] \in Books /\ ~[l EXCEPT !.ok = FALSE].ok
  BY DEF Books, LedgerType, Covered, InRange
<1> QED
  BY <1>2, <1>3 DEF Spend

\* burn, clawback and burn_from take from a balance and leave the holders.
LEMMA DestroyLemma ==
    ASSUME ledger \in Books, ledger.ok, supply \in I128, NEW a \in Address, NEW x \in Int, Destroy(a, x)
    PROVE  /\ ledger' \in Books /\ ledger'.ok
           /\ ledger'.balance = [ledger.balance EXCEPT ![a] = @ - x]
           /\ supply' \in I128 /\ supply' = supply - x /\ x > 0 /\ ledger.balance[a] >= x
<1> PICK l : l = ledger
  OBVIOUS
<1> DEFINE m == [l EXCEPT !.balance[a] = @ - x]
<1>1. ledger' = m /\ x > 0 /\ l.balance[a] >= x /\ supply' \in I128 /\ supply' = supply - x
  BY DEF Destroy, DecreaseSupply
<1>2. l \in LedgerType /\ l.ok /\ Covered(l) /\ \A b \in Address : l.balance[b] \in I128
  BY DEF Books, InRange
<1>3. l.balance[a] \in Int /\ l.balance[a] - x \in 0 .. l.balance[a]
  BY <1>1, <1>2 DEF LedgerType
<1>4. l.balance[a] - x \in I128
  BY <1>2, <1>3, PayTokenAssumption DEF I128
<1>5. m \in LedgerType /\ m.ok = l.ok /\ m.balance = [l.balance EXCEPT ![a] = @ - x] /\ m.holders = l.holders
  BY <1>2, <1>3 DEF LedgerType
<1>6. Covered(m)
  <2> SUFFICES ASSUME NEW b \in Account, m.balance[b] > 0 PROVE b \in m.holders
    BY DEF Covered
  <2>1. b \in Address /\ l.balance[b] > 0
    BY <1>1, <1>2, <1>3, <1>5 DEF LedgerType, Address
  <2> QED BY <1>2, <1>5, <2>1 DEF Covered
<1>7. InRange(m)
  BY <1>2, <1>4, <1>5 DEF InRange, LedgerType
<1> QED
  BY <1>1, <1>2, <1>5, <1>6, <1>7 DEF Books

-----------------------------------------------------------------------------
(***************************************************************************)
(* The operations on allowances.                                           *)
(***************************************************************************)

\* A write keeps the owner's list in step, whether it stores or removes.
LEMMA WriteAllowanceLemma ==
    ASSUME NEW al \in Grants, NEW a \in Owners, NEW s \in Spenders, NEW x \in Int, NEW e \in Nat
    PROVE  WriteAllowance(al, a, s, x, e) \in Grants
<1> DEFINE m == WriteAllowance(al, a, s, x, e)
           entry == IF x = 0 THEN NoAllowance ELSE [amount |-> x, expiration_ledger |-> e]
<1>1. al \in AllowanceType /\ Listed(al)
  BY DEF Grants
<1>2. entry \in Allowance /\ (entry # NoAllowance <=> x # 0)
  BY DEF Allowance, NoAllowance
<1> HIDE DEF entry
<1>3. /\ m.value = [al.value EXCEPT ![a][s] = entry]
      /\ m.spenders = [al.spenders EXCEPT ![a] = WriteOwnerAllowanceIndex(@, s, x # 0)]
      /\ m = [value |-> m.value, spenders |-> m.spenders]
  BY DEF WriteAllowance, entry
<1>4. m.value \in [Owners -> [Spenders -> Allowance]] /\ m.spenders \in [Owners -> SUBSET Spenders]
  BY <1>1, <1>2, <1>3 DEF AllowanceType, WriteOwnerAllowanceIndex
<1> HIDE DEF m
<1>5. m \in AllowanceType
  BY <1>3, <1>4 DEF AllowanceType
<1>6. ASSUME NEW b \in Owners, NEW t \in Spenders
      PROVE  t \in m.spenders[b] <=> m.value[b][t] # NoAllowance
  <2>1. t \in al.spenders[b] <=> al.value[b][t] # NoAllowance
    BY <1>1 DEF Listed
  <2>2. CASE b = a /\ t = s
    BY <1>1, <1>2, <1>3, <2>2 DEF AllowanceType, WriteOwnerAllowanceIndex
  <2>3. CASE ~(b = a /\ t = s)
    <3>1. m.value[b][t] = al.value[b][t]
      BY <1>1, <1>3, <2>3 DEF AllowanceType
    <3>2. t \in m.spenders[b] <=> t \in al.spenders[b]
      BY <1>1, <1>3, <2>3 DEF AllowanceType, WriteOwnerAllowanceIndex
    <3> QED BY <2>1, <3>1, <3>2
  <2> QED BY <2>2, <2>3
<1>7. Listed(m)
  BY <1>4, <1>6 DEF Listed
<1> QED
  BY <1>5, <1>7 DEF Grants, m

\* What is read is an entry; an expired one counts as none.
LEMMA ReadAllowanceLemma ==
    ASSUME allowances \in Grants, NEW a \in Owners, NEW s \in Spenders
    PROVE  ReadAllowance(a, s) \in Allowance
BY DEF ReadAllowance, Grants, AllowanceType, Allowance, NoAllowance

\* Spending writes what is left.
LEMMA SpendAllowanceLemma ==
    ASSUME allowances \in Grants, NEW a \in Owners, NEW s \in Spenders, NEW x \in Int,
           SpendAllowance(a, s, x)
    PROVE  allowances' \in Grants
<1>1. PICK r : r = ReadAllowance(a, s)
  OBVIOUS
<1>2. r.amount - x \in Int /\ r.expiration_ledger \in Nat
  BY <1>1, ReadAllowanceLemma DEF Allowance
<1> PICK al : al = allowances
  OBVIOUS
<1>3. allowances' = WriteAllowance(al, a, s, r.amount - x, r.expiration_ledger)
  BY <1>1 DEF SpendAllowance
<1> QED
  BY <1>2, <1>3, WriteAllowanceLemma

\* Forgetting what the list names forgets everything, as the list is exact.
LEMMA RevokeLemma ==
    ASSUME allowances \in Grants, NEW a \in Owners, RevokeAllAllowances(a)
    PROVE  allowances' \in Grants
<1> PICK al : al = allowances
  OBVIOUS
<1> PICK m : m = allowances'
  OBVIOUS
<1> DEFINE cleared == [s \in Spenders |-> IF s \in al.spenders[a] THEN NoAllowance ELSE al.value[a][s]]
<1>1. al \in AllowanceType /\ Listed(al)
  BY DEF Grants
<1>2. m = [value |-> [al.value EXCEPT ![a] = cleared], spenders |-> [al.spenders EXCEPT ![a] = {}]]
  BY DEF RevokeAllAllowances
<1>3. cleared = [s \in Spenders |-> NoAllowance]
  BY <1>1 DEF Listed
<1> HIDE DEF cleared
<1>4. NoAllowance \in Allowance
  BY DEF NoAllowance, Allowance
<1>5. m \in AllowanceType
  BY <1>1, <1>2, <1>3, <1>4 DEF AllowanceType
<1>6. Listed(m)
  <2> SUFFICES ASSUME NEW b \in Owners PROVE m.spenders[b] = {s \in Spenders : m.value[b][s] # NoAllowance}
    BY DEF Listed
  <2>1. CASE b = a
    BY <1>1, <1>2, <1>3, <2>1 DEF AllowanceType
  <2>2. CASE b # a
    BY <1>1, <1>2, <2>2 DEF AllowanceType, Listed
  <2> QED BY <2>1, <2>2
<1> QED
  BY <1>5, <1>6 DEF Grants

-----------------------------------------------------------------------------
(***************************************************************************)
(* Batches, dividends and lists of approvals.                              *)
(***************************************************************************)
LastOf(S) == Max(S)

Entry == [address: Address, amount: Int]
Approval == [spender: Spenders, amount: Int, expiration: Nat]

TakeStep(p, entry, l) == Spend(l, entry.address, entry.amount)
GiveStep(p, entry, l) == Receive(l, entry.address, entry.amount)
GrantStep(from, entry, al) == WriteAllowance(al, from, entry.spender, entry.amount, entry.expiration)

Takes == INSTANCE FoldProofs WITH Op <- TakeStep, Choose <- LastOf
Gives == INSTANCE FoldProofs WITH Op <- GiveStep, Choose <- LastOf
Writes == INSTANCE FoldProofs WITH Op <- GrantStep, Choose <- LastOf

\* The positions of a list are finitely many, and every set of them has a last.
LEMMA Positions ==
    ASSUME NEW T, NEW s \in Seq(T)
    PROVE  /\ Takes!IsFiniteSet(DOMAIN s) /\ Takes!Chooses(DOMAIN s)
           /\ Gives!IsFiniteSet(DOMAIN s) /\ Gives!Chooses(DOMAIN s)
           /\ Writes!IsFiniteSet(DOMAIN s) /\ Writes!Chooses(DOMAIN s)
           /\ \A k \in DOMAIN s : s[k] \in T
<1>1. IsFiniteSet(DOMAIN s) /\ DOMAIN s \subseteq Int /\ \A k \in DOMAIN s : s[k] \in T
  BY FS_Interval, LenProperties, ElementOfSeq
<1>2. ASSUME NEW t \in SUBSET DOMAIN s, t # {} PROVE LastOf(t) \in t
  <2>1. IsFiniteSet(t) /\ \A x \in t : x \in Int
    BY <1>1, FS_Subset
  <2>2. Takes!IsFiniteSet(t)
    BY <2>1 DEF IsFiniteSet, Takes!IsFiniteSet
  <2>3. \E x \in t : \A y \in t : x >= y
    BY <1>2, <2>1, <2>2, Takes!LargestElement
  <2> QED BY <2>3 DEF LastOf, Max
<1> QED
  BY <1>1, <1>2 DEF IsFiniteSet, Takes!IsFiniteSet, Gives!IsFiniteSet,
     Writes!IsFiniteSet, Takes!Chooses, Gives!Chooses, Writes!Chooses

\* A batch of clawbacks, also of negative amounts, loses no holder.
LEMMA TakesLemma ==
    ASSUME NEW l \in Books, NEW b \in Batches
    PROVE  FoldLeft(LAMBDA m, entry : Spend(m, entry.address, entry.amount), l, b) \in Books
<1>1. b \in Seq(Entry)
  BY PayTokenAssumption DEF Entry, Approval
<1>2. \A k \in DOMAIN b, m \in Books : TakeStep({}, b[k], m) \in Books
  <2> SUFFICES ASSUME NEW k \in DOMAIN b, NEW m \in Books PROVE TakeStep({}, b[k], m) \in Books
    OBVIOUS
  <2>1. b[k] \in Entry
    BY <1>1, Positions
  <2> QED BY <2>1, SpendLemma DEF TakeStep, Entry
<1>3. Takes!IsFiniteSet(DOMAIN b) /\ Takes!Chooses(DOMAIN b)
  BY <1>1, Positions
<1>4. Takes!Fold({}, b, l, DOMAIN b) \in Books
  BY <1>2, <1>3, Takes!FoldStays
<1> QED
  BY <1>4 DEF FoldLeft, MapThenFoldSet, TakeStep, LastOf, Takes!Fold, Takes!FoldsOf, Takes!Folds

\* Nor does a batch of mints.
LEMMA GivesLemma ==
    ASSUME ledger \in Books, NEW b \in Seq(Entry)
    PROVE  ReceiveAll(b) \in Books
<1> PICK l : l = ledger
  OBVIOUS
<1>2. \A k \in DOMAIN b, m \in Books : GiveStep({}, b[k], m) \in Books
  <2> SUFFICES ASSUME NEW k \in DOMAIN b, NEW m \in Books PROVE GiveStep({}, b[k], m) \in Books
    OBVIOUS
  <2>1. b[k] \in Entry
    BY Positions
  <2> QED BY <2>1, ReceiveLemma DEF GiveStep, Entry
<1>3. Gives!IsFiniteSet(DOMAIN b) /\ Gives!Chooses(DOMAIN b)
  BY Positions
<1>4. Gives!Fold({}, b, l, DOMAIN b) \in Books
  BY <1>2, <1>3, Gives!FoldStays
<1> QED
  BY <1>4 DEF ReceiveAll, FoldLeft, MapThenFoldSet, GiveStep, LastOf, Gives!Fold, Gives!FoldsOf, Gives!Folds

\* The parts of a dividend are integers, so the same holds for it.
LEMMA DividendLemma ==
    ASSUME ledger \in Books, NEW c, NEW x \in Int, NEW to \in Seq(Address), DistributeDividend(c, x, to)
    PROVE  ledger' \in Books /\ ledger'.ok
<1> DEFINE part(k) == (x \div Len(to)) + (IF k = 1 THEN x % Len(to) ELSE 0)
           entries == [k \in DOMAIN to |-> [address |-> to[k], amount |-> part(k)]]
<1>1. ledger' = ReceiveAll(entries) /\ ledger'.ok
  BY DEF DistributeDividend, Commit
<1>2. Len(to) \in Nat \ {0}
  BY EmptySeq DEF DistributeDividend
<1>3. \A k \in DOMAIN to : to[k] \in Address /\ part(k) \in Int
  BY <1>2, Positions
<1> HIDE DEF part
<1>4. \A k \in DOMAIN to : [address |-> to[k], amount |-> part(k)] \in Entry
  BY <1>3 DEF Entry
<1>5. entries \in [1 .. Len(to) -> Entry]
  BY <1>2, <1>4, LenProperties
<1> HIDE DEF entries
<1>6. entries \in Seq(Entry)
  BY <1>2, <1>5, IsASeq
<1> QED
  BY <1>1, <1>6, GivesLemma

\* A list of approvals keeps the owner's list exact, repeated spenders included.
LEMMA WritesLemma ==
    ASSUME allowances \in Grants, NEW a \in Owners, NEW b \in Approvals
    PROVE  WriteAll(a, b) \in Grants
<1> PICK al : al = allowances
  OBVIOUS
<1>1. b \in Seq(Approval)
  BY PayTokenAssumption DEF Entry, Approval
<1>2. \A k \in DOMAIN b, m \in Grants : GrantStep(a, b[k], m) \in Grants
  <2> SUFFICES ASSUME NEW k \in DOMAIN b, NEW m \in Grants PROVE GrantStep(a, b[k], m) \in Grants
    OBVIOUS
  <2>1. b[k] \in Approval
    BY <1>1, Positions
  <2> QED BY <2>1, WriteAllowanceLemma DEF GrantStep, Approval
<1>3. Writes!IsFiniteSet(DOMAIN b) /\ Writes!Chooses(DOMAIN b)
  BY <1>1, Positions
<1>4. Writes!Fold(a, b, al, DOMAIN b) \in Grants
  BY <1>2, <1>3, Writes!FoldStays
<1> QED
  BY <1>4 DEF WriteAll, FoldLeft, MapThenFoldSet, GrantStep, LastOf, Writes!Fold, Writes!FoldsOf, Writes!Folds

-----------------------------------------------------------------------------
(***************************************************************************)
(* The sum of the balances.                                                *)
(***************************************************************************)
Money == INSTANCE BalanceProofs

\* The assumptions of that module are those of module Host, and its sums are
\* the sums of this one.
LEMMA MoneyIsMoney ==
    /\ Money!ContractAssumption /\ Money!AccountAssumption /\ Money!HostAssumption
    /\ Money!IsFiniteSet(Address)
    /\ \A f, S : SumFunctionOnSet(f, S) = Money!SumFunctionOnSet(f, S)
<1>1. Money!ContractAssumption
  BY ContractAssumption DEF Money!ContractAssumption
<1>2. Money!AccountAssumption
  BY AccountAssumption DEF IsFiniteSet, Money!AccountAssumption, Money!IsFiniteSet
<1>3. Money!HostAssumption
  BY HostAssumption DEF Money!HostAssumption
<1>4. IsFiniteSet(Address)
  BY AccountAssumption, FS_AddElement DEF Address
<1>5. Money!IsFiniteSet(Address)
  BY <1>4 DEF IsFiniteSet, Money!IsFiniteSet
<1>6. ASSUME NEW f, NEW S PROVE SumFunctionOnSet(f, S) = Money!SumFunctionOnSet(f, S)
  BY DEF SumFunctionOnSet, FoldFunctionOnSet, MapThenFoldSet,
         Money!SumFunctionOnSet, Money!FoldFunctionOnSet, Money!MapThenFoldSet
<1> QED
  BY <1>1, <1>2, <1>3, <1>5, <1>6

\* It is an integer.
LEMMA HeldType ==
    ASSUME NEW l \in Books
    PROVE  Held(l) \in Int
<1>1. \A a \in Address : l.balance[a] \in Int
  BY DEF Books, LedgerType
<1>2. Money!SumFunctionOnSet(l.balance, Address) \in Int
  BY <1>1, MoneyIsMoney, Money!SumType
<1> QED
  BY <1>2, MoneyIsMoney DEF Held

\* It moves by what one balance moves by.
LEMMA HeldUpdate ==
    ASSUME NEW l \in Books, NEW m, NEW a \in Address, NEW d \in Int,
           m.balance = [l.balance EXCEPT ![a] = @ + d]
    PROVE  Held(m) = Held(l) + d
<1> PICK f : f = l.balance
  OBVIOUS
<1>1. f \in [Address -> Int]
  BY DEF Books, LedgerType
<1>2. Money!SumFunctionOnSet([f EXCEPT ![a] = @ + d], Address) = Money!SumFunctionOnSet(f, Address) + d
  BY <1>1, MoneyIsMoney, Money!SumShift
<1>3. SumFunctionOnSet(m.balance, Address) = SumFunctionOnSet(f, Address) + d
  BY <1>2, MoneyIsMoney
<1> QED
  BY <1>3 DEF Held

-----------------------------------------------------------------------------
(***************************************************************************)
(* The steps.                                                              *)
(***************************************************************************)
LEMMA InitInv == Init => IInv
<1> SUFFICES ASSUME Init PROVE IInv
  OBVIOUS
<1> DEFINE l == [ok |-> TRUE, balance |-> [a \in Address |-> 0], holders |-> {}]
           al == [value |-> [a \in Owners |-> [s \in Spenders |-> NoAllowance]],
                  spenders |-> [a \in Owners |-> {}]]
<1>1. 0 \in I128
  BY PayTokenAssumption DEF I128
<1>2. l \in LedgerType /\ Covered(l) /\ InRange(l)
  BY <1>1 DEF LedgerType, Covered, InRange, Address
<1>3. NoAllowance \in Allowance
  BY DEF NoAllowance, Allowance
<1>4. al \in AllowanceType /\ Listed(al)
  BY <1>3 DEF AllowanceType, Listed
<1> QED
  BY <1>1, <1>2, <1>4 DEF Init, IInv, Books, Grants, NothingYet, Ownership

\* Only with an admin is there anything to administer.
LEMMA HasAdmin ==
    ASSUME NEW c \in Account, CheckAdmin(c)
    PROVE  owner.admin # NoAddress
BY PayTokenAssumption DEF CheckAdmin, Address

\* Only then has anybody anything to spend.
LEMMA HasTokens ==
    ASSUME IInv, NEW a \in Address, NEW x \in Int, x > 0, ledger.balance[a] >= x
    PROVE  owner.admin # NoAddress
BY DEF IInv, NothingYet

StepKept ==
    /\ IInv'
    /\ maxSupply > 0 => supply' <= maxSupply

\* A step that moves balances or the supply.
LEMMA TokenStep ==
    ASSUME IInv, ledger' \in Books, ledger'.ok, allowances' \in Grants, supply' \in I128,
           supply' <= supply \/ (maxSupply > 0 => supply' <= maxSupply),
           owner.admin # NoAddress, UNCHANGED <<now, owner, maxSupply>>
    PROVE  StepKept
<1>1. supply \in Int /\ supply' \in Int
  BY PayTokenAssumption DEF IInv, I128
<1> QED
  BY <1>1 DEF IInv, NothingYet, StepKept

\* A step of ownership, allowances, nonces or time.
LEMMA OtherStep ==
    ASSUME IInv, UNCHANGED tokenVars, allowances' \in Grants, now' \in Nat, maxSupply' = maxSupply,
           owner' \in Ownership, owner'.admin = NoAddress => owner.admin = NoAddress
    PROVE  StepKept /\ SupplyStep
<1>1. ledger' = ledger /\ supply' = supply
  BY DEF tokenVars
<1>2. Held(ledger) \in Int /\ supply \in Int
  BY HeldType, PayTokenAssumption DEF IInv, I128
<1>3. SupplyStep
  BY <1>1, <1>2 DEF SupplyStep
<1> QED
  BY <1>1, <1>3 DEF IInv, NothingYet, StepKept

LEMMA MintStep ==
    ASSUME IInv, NEW c \in Account, NEW a \in Recipients, NEW x \in Amounts, Mint(c, a, x)
    PROVE  StepKept /\ SupplyStep
<1> PICK l : l = ledger
  OBVIOUS
<1>1. l \in Books /\ a \in Address /\ x \in Int
  BY PayTokenAssumption DEF IInv
<1>2. ledger' = Receive(l, a, x) /\ ledger'.ok
  BY DEF Mint, Commit
<1>3. ledger' \in Books /\ (a # Contract => ledger'.balance = [l.balance EXCEPT ![a] = @ + x])
  BY <1>1, <1>2, ReceiveLemma
<1>4. supply' \in I128 /\ supply' = supply + x /\ (maxSupply > 0 => supply' <= maxSupply)
  BY DEF Mint, IncreaseSupply
<1>5. owner.admin # NoAddress
  BY HasAdmin DEF Mint
<1>6. StepKept
  BY <1>2, <1>3, <1>4, <1>5, TokenStep DEF Mint, configVars, IInv
<1>7. a = Contract => OffTheBooks
  BY DEF OffTheBooks
<1>8. ASSUME a # Contract PROVE Held(ledger') = Held(l) + x
  <2>1. ledger'.balance = [l.balance EXCEPT ![a] = @ + x]
    BY <1>3, <1>8
  <2> QED BY <1>1, <2>1, HeldUpdate
<1>9. Held(l) \in Int /\ supply \in Int
  BY <1>1, HeldType, PayTokenAssumption DEF IInv, I128
<1>10. SupplyStep
  BY <1>1, <1>4, <1>7, <1>8, <1>9 DEF SupplyStep
<1> QED
  BY <1>6, <1>10

\* Burning, by its owner, by the admin or by a spender.
LEMMA DestroyStep ==
    ASSUME IInv, NEW a \in Address, NEW x \in Amounts, Destroy(a, x), allowances' \in Grants,
           UNCHANGED <<now, configVars>>
    PROVE  StepKept /\ SupplyStep
<1> PICK l : l = ledger
  OBVIOUS
<1>1. l \in Books /\ l.ok /\ supply \in I128 /\ x \in Int
  BY PayTokenAssumption DEF IInv
<1>2. /\ ledger' \in Books /\ ledger'.ok
      /\ ledger'.balance = [l.balance EXCEPT ![a] = @ - x]
      /\ supply' \in I128 /\ supply' = supply - x /\ x > 0 /\ l.balance[a] >= x
  BY <1>1, DestroyLemma
<1>3. supply \in Int /\ supply' <= supply
  BY <1>1, <1>2, PayTokenAssumption DEF I128
<1>4. owner.admin # NoAddress
  BY <1>1, <1>2, HasTokens
<1>5. StepKept
  BY <1>2, <1>3, <1>4, TokenStep DEF configVars
<1>6. ledger'.balance = [l.balance EXCEPT ![a] = @ + (-x)]
  BY <1>1, <1>2 DEF Books, LedgerType
<1>7. -x \in Int
  BY <1>1
<1>8. Held(ledger') = Held(l) + (-x) /\ Held(l) \in Int
  BY <1>1, <1>6, <1>7, HeldType, HeldUpdate
<1>9. SupplyStep
  BY <1>1, <1>2, <1>3, <1>8 DEF SupplyStep
<1> QED
  BY <1>5, <1>9

LEMMA TransferStep ==
    ASSUME IInv, NEW s \in Spenders, NEW c \in Owners, NEW a \in Recipients, NEW x \in Amounts,
           TransferFrom(s, c, a, x)
    PROVE  StepKept /\ SupplyStep
<1> PICK l : l = ledger
  OBVIOUS
<1>1. l \in Books /\ allowances \in Grants /\ a \in Address /\ c \in Address /\ x \in Int /\ x > 0
  BY PayTokenAssumption DEF IInv, TransferFrom, Address
<1> PICK m : m = Spend(l, c, x)
  OBVIOUS
<1>2. ledger' = Receive(m, a, x) /\ ledger'.ok
  BY DEF TransferFrom, Commit
<1>3. m \in Books /\ (m.ok => l.balance[c] >= x /\ m.balance = [l.balance EXCEPT ![c] = @ - x])
  BY <1>1, SpendLemma
<1>4. ledger' \in Books /\ m.ok /\ (a # Contract => ledger'.balance = [m.balance EXCEPT ![a] = @ + x])
  BY <1>1, <1>2, <1>3, ReceiveLemma
<1>5. allowances' \in Grants
  BY <1>1, SpendAllowanceLemma DEF TransferFrom
<1>6. owner.admin # NoAddress
  BY <1>1, <1>3, <1>4, HasTokens
<1>7. supply' = supply /\ supply \in I128 /\ supply \in Int
  BY PayTokenAssumption DEF TransferFrom, IInv, I128
<1>8. StepKept
  BY <1>2, <1>4, <1>5, <1>6, <1>7, TokenStep DEF TransferFrom, configVars
<1>9. a = Contract => OffTheBooks
  BY DEF OffTheBooks
<1>10. m.balance = [l.balance EXCEPT ![c] = @ + (-x)] /\ -x \in Int
  BY <1>1, <1>3, <1>4 DEF Books, LedgerType
<1>11. Held(m) = Held(l) + (-x) /\ Held(l) \in Int
  BY <1>1, <1>10, HeldType, HeldUpdate
<1>12. a # Contract => Held(ledger') = Held(m) + x
  BY <1>1, <1>3, <1>4, HeldType, HeldUpdate
<1>13. SupplyStep
  BY <1>1, <1>7, <1>9, <1>11, <1>12 DEF SupplyStep
<1> QED
  BY <1>8, <1>13

\* Batches and dividends leave the supply alone, whatever they do to balances.
LEMMA BatchStep ==
    ASSUME IInv, NEW c \in Account,
           \/ \E b \in Batches : ClawbackBatch(c, b) \/ MintBatch(c, b)
           \/ \E x \in Amounts, to \in BoundedSeq(Recipients, 2) : DistributeDividend(c, x, to)
    PROVE  StepKept /\ SupplyStep
<1> PICK l : l = ledger
  OBVIOUS
<1>1. l \in Books /\ allowances \in Grants /\ supply \in I128
  BY DEF IInv
<1>2. ledger' \in Books /\ ledger'.ok
  <2>1. ASSUME NEW b \in Batches, ClawbackBatch(c, b) PROVE ledger' \in Books /\ ledger'.ok
    BY <1>1, <2>1, TakesLemma DEF ClawbackBatch, Commit
  <2>2. ASSUME NEW b \in Batches, MintBatch(c, b) PROVE ledger' \in Books /\ ledger'.ok
    <3>1. b \in Seq(Entry)
      BY PayTokenAssumption DEF Entry
    <3> QED BY <1>1, <2>2, <3>1, GivesLemma DEF MintBatch, Commit
  <2>3. ASSUME NEW x \in Amounts, NEW to \in BoundedSeq(Recipients, 2), DistributeDividend(c, x, to)
        PROVE  ledger' \in Books /\ ledger'.ok
    <3>1. to \in Seq(Address)
      <4>1. PICK n \in 0 .. 2 : to \in [1 .. n -> Recipients]
        BY DEF BoundedSeq, SeqOf
      <4>2. to \in [1 .. n -> Address] /\ n \in Nat
        BY <4>1, PayTokenAssumption
      <4> QED BY <4>2, IsASeq
    <3>2. x \in Int
      BY PayTokenAssumption
    <3> QED BY <1>1, <2>3, <3>1, <3>2, DividendLemma
  <2> QED BY <2>1, <2>2, <2>3
<1>3. CheckAdmin(c) /\ UNCHANGED <<now, supply, allowances, configVars, nonce>>
  BY DEF ClawbackBatch, MintBatch, DistributeDividend
<1>4. owner.admin # NoAddress
  BY <1>3, HasAdmin
<1>5. supply' <= supply
  BY <1>1, <1>3, PayTokenAssumption DEF I128
<1>6. StepKept
  BY <1>1, <1>2, <1>3, <1>4, <1>5, TokenStep DEF configVars
<1>7. OffTheBooks
  BY DEF OffTheBooks
<1> QED
  BY <1>6, <1>7 DEF SupplyStep

LEMMA NextKept ==
    ASSUME IInv, Next
    PROVE  StepKept /\ SupplyStep
<1>0. allowances \in Grants /\ ledger \in Books
  BY DEF IInv
<1>1. ASSUME NEW c \in NewAdmins, NEW x \in Caps \cup {0}, Initialize(c, x)
      PROVE  StepKept /\ SupplyStep
  <2>1. supply = 0 /\ maxSupply = 0 /\ x \in Int /\ c # NoAddress
    BY <1>1, PayTokenAssumption DEF Initialize, IInv, NothingYet, Address
  <2>2. ledger' = ledger /\ supply' = supply /\ allowances' = allowances /\ now' = now /\ maxSupply' = x
    BY <1>1 DEF Initialize, tokenVars
  <2>3. owner'.admin # NoAddress
    <3>1. [owner EXCEPT !.admin = c].admin = c
      BY DEF IInv, Ownership
    <3> QED BY <1>1, <2>1, <3>1 DEF Initialize
  <2>4. owner' \in Ownership
    BY <1>1, PayTokenAssumption DEF Initialize, IInv, Ownership, Address
  <2> QED
    BY <2>1, <2>2, <2>3, <2>4, HeldType DEF IInv, NothingYet, StepKept, SupplyStep
<1>2. ASSUME NEW c \in Account, NEW n \in NewAdmins, TransferOwnership(c, n)
      PROVE  StepKept /\ SupplyStep
  <2>1. owner' \in Ownership /\ owner'.admin = owner.admin
    BY <1>2, PayTokenAssumption DEF TransferOwnership, IInv, Ownership, Address
  <2> QED BY <1>0, <1>2, <2>1, OtherStep DEF TransferOwnership, IInv
<1>3. ASSUME NEW c \in Account, AcceptAdmin(c) PROVE StepKept /\ SupplyStep
  <2>1. owner' \in Ownership /\ owner'.admin # NoAddress
    BY <1>3, PayTokenAssumption DEF AcceptAdmin, IInv, Ownership, Address
  <2> QED BY <1>0, <1>3, <2>1, OtherStep DEF AcceptAdmin, IInv
<1>4. ASSUME NEW c \in Account, NEW b \in BOOLEAN, SetPaused(c, b) PROVE StepKept /\ SupplyStep
  BY <1>0, <1>4, OtherStep DEF SetPaused, IInv
<1>5. ASSUME NEW c \in Account, NEW x \in Amounts, Burn(c, x) PROVE StepKept /\ SupplyStep
  BY <1>0, <1>5, DestroyStep DEF Burn, Address
<1>6. ASSUME NEW c \in Account, NEW a \in Address, NEW x \in Amounts, Clawback(c, a, x)
      PROVE  StepKept /\ SupplyStep
  BY <1>0, <1>6, DestroyStep DEF Clawback
<1>7. ASSUME NEW c \in Owners, NEW s \in Spenders, NEW x \in Amounts, BurnFrom(s, c, x)
      PROVE  StepKept /\ SupplyStep
  <2>1. c \in Address /\ x \in Int
    BY PayTokenAssumption DEF Address
  <2>2. allowances' \in Grants
    BY <1>0, <1>7, <2>1, SpendAllowanceLemma DEF BurnFrom
  <2> QED BY <1>7, <2>1, <2>2, DestroyStep DEF BurnFrom
<1>8. ASSUME NEW c \in Owners, NEW s \in Spenders, NEW x \in Amounts, NEW e \in Ledger, Approve(c, s, x, e)
      PROVE  StepKept /\ SupplyStep
  <2>1. x \in Int /\ e \in Nat
    BY PayTokenAssumption, HostAssumption DEF Ledger
  <2>2. allowances' \in Grants
    BY <1>0, <1>8, <2>1, WriteAllowanceLemma DEF Approve
  <2> QED BY <1>8, <2>2, OtherStep DEF Approve, configVars, IInv
<1>9. ASSUME NEW c \in Owners, NEW s \in Spenders, NEW x \in Amounts,
             IncreaseAllowance(c, s, x) \/ DecreaseAllowance(c, s, x)
      PROVE  StepKept /\ SupplyStep
  <2>1. PICK r : r = ReadAllowance(c, s)
    OBVIOUS
  <2>2. /\ x \in Int /\ r.amount + x \in Int /\ r.amount - x \in Int /\ 0 \in Int
        /\ r.expiration_ledger \in Nat
    BY <1>0, <2>1, ReadAllowanceLemma, PayTokenAssumption DEF Allowance
  <2>3. \E y \in Int : allowances' = WriteAllowance(allowances, c, s, y, r.expiration_ledger)
    BY <1>9, <2>1, <2>2 DEF IncreaseAllowance, DecreaseAllowance
  <2>4. allowances' \in Grants
    BY <1>0, <2>2, <2>3, WriteAllowanceLemma
  <2> QED BY <1>9, <2>4, OtherStep DEF IncreaseAllowance, DecreaseAllowance, configVars, IInv
<1>10. ASSUME NEW c \in Owners, RevokeAllAllowances(c) PROVE StepKept /\ SupplyStep
  BY <1>0, <1>10, RevokeLemma, OtherStep DEF RevokeAllAllowances, configVars, IInv
<1>11. ASSUME NEW c \in Owners, NEW b \in Approvals, NEW n, ApproveBatch(c, b) \/ PermitBatch(c, b, n)
       PROVE  StepKept /\ SupplyStep
  <2>1. allowances' \in Grants
    BY <1>0, <1>11, WritesLemma DEF ApproveBatch, PermitBatch
  <2> QED BY <1>11, <2>1, OtherStep DEF ApproveBatch, PermitBatch, configVars, IInv
<1>12. ASSUME NEW c \in Owners, NEW n, Permit(c, n) PROVE StepKept /\ SupplyStep
  BY <1>0, <1>12, OtherStep DEF Permit, configVars, IInv
<1>13. CASE Tick
  <2>1. now' \in Nat
    BY <1>13 DEF Tick, LedgerCloses, IInv
  <2> QED BY <1>0, <1>13, <2>1, OtherStep DEF Tick, configVars, IInv
<1> QED
  BY <1>1, <1>2, <1>3, <1>4, <1>5, <1>6, <1>7, <1>8, <1>9, <1>10, <1>11, <1>12, <1>13,
     MintStep, TransferStep, BatchStep DEF Next

LEMMA StutterKept ==
    ASSUME IInv, UNCHANGED vars
    PROVE  IInv'
BY DEF vars, tokenVars, configVars, IInv, NothingYet, Books, Grants, Covered, InRange, Listed

-----------------------------------------------------------------------------
(***************************************************************************)
(* The theorems.                                                           *)
(***************************************************************************)
THEOREM Invariance == Spec => []IInv
<1>1. IInv /\ [Next]_vars => IInv'
  BY NextKept, StutterKept DEF StepKept
<1> QED
  BY InitInv, <1>1, PTL DEF Spec

\* Every account that has tokens is in the holder set by which an airdrop
\* pays, after every mix of burns, batches, dividends and transfers.
THEOREM HoldersCorrect == Spec => []HoldersCovered
<1>1. IInv => HoldersCovered
  BY DEF IInv, Books, Covered, HoldersCovered
<1> QED BY Invariance, <1>1, PTL

\* An owner's list names exactly the spenders with a stored allowance, so
\* revoke_all_allowances forgets none.
THEOREM AllowanceListCorrect == Spec => []AllowanceIndexExact
<1>1. IInv => AllowanceIndexExact
  BY DEF IInv, Grants, Listed, AllowanceIndexExact
<1> QED BY Invariance, <1>1, PTL

\* Whatever amounts callers pass, no balance and no supply leaves an i128.
NumbersFit == supply \in I128 /\ \A a \in Address : ledger.balance[a] \in I128

THEOREM NumbersCorrect == Spec => []NumbersFit
<1>1. IInv => NumbersFit
  BY DEF IInv, Books, InRange, NumbersFit
<1> QED BY Invariance, <1>1, PTL

\* Only batches, dividends and payments to the contract itself make the
\* supply and the sum of the balances drift apart, and the cap holds.
THEOREM SupplyCorrect == Spec => SupplyFollowsBalances
<1> DEFINE Kept == SupplyStep /\ (maxSupply > 0 => supply' <= maxSupply)
<1>1. IInv /\ [Next]_vars => [Kept]_vars
  BY NextKept DEF StepKept
<1>2. Spec => [][Kept]_vars
  BY Invariance, <1>1, PTL DEF Spec
<1> QED
  BY <1>2 DEF SupplyFollowsBalances

=============================================================================
