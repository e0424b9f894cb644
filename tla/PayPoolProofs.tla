---------------------------- MODULE PayPoolProofs ----------------------------
(***************************************************************************)
(* Proofs about the escrowed asset of the root crate, for any accounts,    *)
(* amounts, fees, lists of shares and bounds: escrows with their disputes, *)
(* and the splits, recurring payments, multi-recipient escrows, vestings   *)
(* and airdrops that move the same asset.                                  *)
(*                                                                         *)
(* The facts about sums are those of module BalanceProofs; payments to a   *)
(* list of people and copies of a list are folds, instances of module      *)
(* FoldProofs.                                                             *)
(***************************************************************************)
EXTENDS PayPool, SequenceTheorems, FiniteSetTheorems, TLAPS

-----------------------------------------------------------------------------
(***************************************************************************)
(* Sums.                                                                   *)
(***************************************************************************)
Money == INSTANCE BalanceProofs WITH ledger <- funds

\* The assumptions of that module are those of module Host, and its sums are
\* the sums of this one.
LEMMA MoneyIsMoney ==
    /\ Money!ContractAssumption /\ Money!AccountAssumption /\ Money!HostAssumption
    /\ \A S : IsFiniteSet(S) <=> Money!IsFiniteSet(S)
    /\ \A f, S : SumFunctionOnSet(f, S) = Money!SumFunctionOnSet(f, S)
<1>1. Money!ContractAssumption
  BY ContractAssumption DEF Money!ContractAssumption
<1>2. Money!AccountAssumption
  BY AccountAssumption DEF IsFiniteSet, Money!AccountAssumption, Money!IsFiniteSet
<1>3. Money!HostAssumption
  BY HostAssumption DEF Money!HostAssumption
<1>4. ASSUME NEW S PROVE IsFiniteSet(S) <=> Money!IsFiniteSet(S)
  BY DEF IsFiniteSet, Money!IsFiniteSet
<1>5. ASSUME NEW f, NEW S PROVE SumFunctionOnSet(f, S) = Money!SumFunctionOnSet(f, S)
  BY DEF SumFunctionOnSet, FoldFunctionOnSet, MapThenFoldSet,
         Money!SumFunctionOnSet, Money!FoldFunctionOnSet, Money!MapThenFoldSet
<1> QED
  BY <1>1, <1>2, <1>3, <1>4, <1>5

\* The empty sum.
LEMMA SumEmpty ==
    ASSUME NEW f
    PROVE  SumFunctionOnSet(f, {}) = 0
BY MoneyIsMoney, Money!SumEmpty

\* A sum of integers is an integer, and one of naturals a natural.
LEMMA SumType ==
    ASSUME NEW S, IsFiniteSet(S), NEW f, \A x \in S : f[x] \in Int
    PROVE  /\ SumFunctionOnSet(f, S) \in Int
           /\ (\A x \in S : f[x] >= 0) => SumFunctionOnSet(f, S) >= 0
<1>1. Money!IsFiniteSet(S)
  BY MoneyIsMoney
<1>2. /\ Money!SumFunctionOnSet(f, S) \in Int
      /\ (\A x \in S : f[x] >= 0) => Money!SumFunctionOnSet(f, S) >= 0
  BY <1>1, MoneyIsMoney, Money!SumType
<1> QED
  BY <1>2, MoneyIsMoney

\* Any element can be taken out first.
LEMMA SumRemove ==
    ASSUME NEW S, IsFiniteSet(S), NEW f, \A x \in S : f[x] \in Int, NEW e \in S
    PROVE  SumFunctionOnSet(f, S) = f[e] + SumFunctionOnSet(f, S \ {e})
<1>1. Money!IsFiniteSet(S)
  BY MoneyIsMoney
<1>2. Money!SumFunctionOnSet(f, S) = f[e] + Money!SumFunctionOnSet(f, S \ {e})
  BY <1>1, MoneyIsMoney, Money!SumRemove
<1> QED
  BY <1>2, MoneyIsMoney

\* A sum of zeros.
LEMMA SumZero ==
    ASSUME NEW S, IsFiniteSet(S)
    PROVE  SumFunctionOnSet([x \in S |-> 0], S) = 0
<1>1. Money!IsFiniteSet(S)
  BY MoneyIsMoney
<1>2. Money!SumFunctionOnSet([x \in S |-> 0], S) = 0
  BY <1>1, MoneyIsMoney, Money!SumZero
<1> QED
  BY <1>2, MoneyIsMoney

\* The sum depends on the values at the set's elements only.
LEMMA SumSame ==
    ASSUME NEW S, IsFiniteSet(S), NEW f, NEW g, \A x \in S : f[x] = g[x]
    PROVE  SumFunctionOnSet(f, S) = SumFunctionOnSet(g, S)
<1>1. Money!IsFiniteSet(S)
  BY MoneyIsMoney
<1>2. Money!SumFunctionOnSet(f, S) = Money!SumFunctionOnSet(g, S)
  BY <1>1, MoneyIsMoney, Money!SumSame
<1> QED
  BY <1>2, MoneyIsMoney

\* Changing one value changes the sum by the difference.
LEMMA SumUpdate ==
    ASSUME NEW S, IsFiniteSet(S), NEW f, NEW g, NEW e \in S,
           \A x \in S : f[x] \in Int, g[e] \in Int, \A x \in S \ {e} : g[x] = f[x]
    PROVE  SumFunctionOnSet(g, S) = SumFunctionOnSet(f, S) - f[e] + g[e]
<1>1. Money!IsFiniteSet(S)
  BY MoneyIsMoney
<1>2. Money!SumFunctionOnSet(g, S) = Money!SumFunctionOnSet(f, S) - f[e] + g[e]
  BY <1>1, MoneyIsMoney, Money!SumUpdate
<1> QED
  BY <1>2, MoneyIsMoney

\* A sum over two disjoint sets.
LEMMA SumUnion ==
    ASSUME NEW S, IsFiniteSet(S), NEW T, IsFiniteSet(T), S \cap T = {}, NEW f,
           \A x \in S \cup T : f[x] \in Int
    PROVE  SumFunctionOnSet(f, S \cup T) = SumFunctionOnSet(f, S) + SumFunctionOnSet(f, T)
<1>1. Money!IsFiniteSet(S) /\ Money!IsFiniteSet(T)
  BY MoneyIsMoney
<1>2. Money!SumFunctionOnSet(f, S \cup T)
        = Money!SumFunctionOnSet(f, S) + Money!SumFunctionOnSet(f, T)
  BY <1>1, MoneyIsMoney, Money!SumUnion
<1> QED
  BY <1>2, MoneyIsMoney

\* The sum over the image of a set under an injection.
LEMMA SumImage ==
    ASSUME NEW S, IsFiniteSet(S), NEW h, \A x, y \in S : h[x] = h[y] => x = y,
           NEW f, NEW g, \A x \in S : f[h[x]] = g[x] /\ g[x] \in Int
    PROVE  SumFunctionOnSet(f, {h[x] : x \in S}) = SumFunctionOnSet(g, S)
<1>1. Money!IsFiniteSet(S)
  BY MoneyIsMoney
<1>2. Money!SumFunctionOnSet(f, {h[x] : x \in S}) = Money!SumFunctionOnSet(g, S)
  BY <1>1, MoneyIsMoney, Money!SumImage
<1> QED
  BY <1>2, MoneyIsMoney

-----------------------------------------------------------------------------
(***************************************************************************)
(* Records kept in a sequence.                                             *)
(***************************************************************************)

\* Writing one back.
LEMMA RecordUpdate ==
    ASSUME NEW R, NEW s \in Seq(R), NEW i \in 1 .. Len(s), NEW r \in R
    PROVE  /\ [s EXCEPT ![i] = r] \in Seq(R)
           /\ Len([s EXCEPT ![i] = r]) = Len(s)
           /\ \A j \in 1 .. Len(s) : [s EXCEPT ![i] = r][j] = IF j = i THEN r ELSE s[j]
BY ExceptSeq

\* A new record gets the next id.
LEMMA RecordAppend ==
    ASSUME NEW R, NEW s \in Seq(R), NEW r \in R
    PROVE  /\ Append(s, r) \in Seq(R) /\ Len(Append(s, r)) = Len(s) + 1 /\ Len(s) \in Nat
           /\ \A j \in 1 .. Len(s) : Append(s, r)[j] = s[j]
           /\ Append(s, r)[Len(s) + 1] = r
BY AppendProperties, LenProperties

\* Several get the next ids.
LEMMA RecordsAppend ==
    ASSUME NEW R, NEW s \in Seq(R), NEW t \in Seq(R)
    PROVE  /\ s \o t \in Seq(R) /\ Len(s \o t) = Len(s) + Len(t)
           /\ Len(s) \in Nat /\ Len(t) \in Nat
           /\ \A j \in 1 .. Len(s) : (s \o t)[j] = s[j]
           /\ \A k \in 1 .. Len(t) : (s \o t)[Len(s) + k] = t[k]
<1>1. /\ s \o t \in Seq(R) /\ Len(s \o t) = Len(s) + Len(t)
      /\ Len(s) \in Nat /\ Len(t) \in Nat
      /\ \A j \in 1 .. Len(s) + Len(t) : (s \o t)[j] = IF j <= Len(s) THEN s[j] ELSE t[j - Len(s)]
  BY ConcatProperties, LenProperties
<1>2. \A k \in 1 .. Len(t) : /\ Len(s) + k \in 1 .. Len(s) + Len(t)
                             /\ ~(Len(s) + k <= Len(s)) /\ (Len(s) + k) - Len(s) = k
  BY <1>1
<1> QED
  BY <1>1, <1>2

-----------------------------------------------------------------------------
(***************************************************************************)
(* Folds.  The positions of a list are taken from the last on.             *)
(***************************************************************************)
LastOf(S) == Max(S)
AnyOf(S) == CHOOSE x \in S : TRUE

PayStep(p, part, w) == Disburse(w, part.address, part.share)
KeepStep(i, k, kept) == IF k = i THEN kept ELSE Append(kept, k)

Pays == INSTANCE FoldProofs WITH Op <- PayStep, Choose <- LastOf
Keeps == INSTANCE FoldProofs WITH Op <- KeepStep, Choose <- LastOf

\* The positions of a list are finitely many, and every set of them has a last.
LEMMA Positions ==
    ASSUME NEW T, NEW s \in Seq(T)
    PROVE  /\ Pays!IsFiniteSet(DOMAIN s) /\ Pays!Chooses(DOMAIN s)
           /\ Keeps!IsFiniteSet(DOMAIN s) /\ Keeps!Chooses(DOMAIN s)
           /\ IsFiniteSet(DOMAIN s) /\ DOMAIN s = 1 .. Len(s) /\ Len(s) \in Nat
           /\ \A k \in DOMAIN s : s[k] \in T
<1>1. /\ IsFiniteSet(DOMAIN s) /\ DOMAIN s \subseteq Int /\ DOMAIN s = 1 .. Len(s)
      /\ Len(s) \in Nat /\ \A k \in DOMAIN s : s[k] \in T
  BY FS_Interval, LenProperties, ElementOfSeq
<1>2. ASSUME NEW t \in SUBSET DOMAIN s, t # {} PROVE LastOf(t) \in t
  <2>1. IsFiniteSet(t) /\ \A x \in t : x \in Int
    BY <1>1, FS_Subset
  <2>2. Pays!IsFiniteSet(t)
    BY <2>1 DEF IsFiniteSet, Pays!IsFiniteSet
  <2>3. \E x \in t : \A y \in t : x >= y
    BY <1>2, <2>1, <2>2, Pays!LargestElement
  <2> QED BY <2>3 DEF LastOf, Max
<1> QED
  BY <1>1, <1>2 DEF IsFiniteSet, Pays!IsFiniteSet, Keeps!IsFiniteSet, Pays!Chooses, Keeps!Chooses

(***************************************************************************)
(* The money while a call goes on: ok says that every payment so far was   *)
(* covered.                                                                *)
(***************************************************************************)
Purses == {w \in [ok: BOOLEAN, funds: [Address -> Int]] : w.ok => w.funds \in [Address -> Nat]}
Parts == [address: Address, share: Int]

\* A payment that goes through overdraws nobody.
LEMMA DisburseLemma ==
    ASSUME NEW w \in Purses, NEW to \in Address, NEW x \in Int
    PROVE  Disburse(w, to, x) \in Purses
<1> DEFINE spent == [w.funds EXCEPT ![Contract] = @ - x]
           f == [spent EXCEPT ![to] = @ + x]
<1>1. Contract \in Address /\ w.funds \in [Address -> Int] /\ w.ok \in BOOLEAN
  BY DEF Address, Purses
<1>2. CASE x <= 0
  BY <1>2 DEF Disburse
<1>3. CASE ~(x <= 0)
  <2>1. spent \in [Address -> Int] /\ f \in [Address -> Int]
    BY <1>1
  <2>2. ASSUME w.ok, w.funds[Contract] >= x PROVE f \in [Address -> Nat]
    <3>1. w.funds \in [Address -> Nat]
      BY <2>2 DEF Purses
    <3>2. spent \in [Address -> Nat]
      BY <1>1, <1>3, <2>2, <3>1
    <3> HIDE DEF spent
    <3> QED BY <1>3, <3>2
  <2>3. Disburse(w, to, x) = [ok |-> w.ok /\ w.funds[Contract] >= x, funds |-> f]
    BY <1>3 DEF Disburse, CanPay, Moved
  <2> DEFINE paid == w.ok /\ w.funds[Contract] >= x
  <2>4. paid \in BOOLEAN /\ (paid => f \in [Address -> Nat])
    BY <2>2
  <2>5. Disburse(w, to, x) = [ok |-> paid, funds |-> f]
    BY <2>3
  <2> HIDE DEF f, paid
  <2> QED BY <2>1, <2>4, <2>5 DEF Purses
<1> QED
  BY <1>2, <1>3

\* Nor do several.
LEMMA DisburseAllLemma ==
    ASSUME NEW w \in Purses, NEW r \in Seq(Parts)
    PROVE  DisburseAll(w, r) \in Purses
<1>1. \A k \in DOMAIN r, v \in Purses : PayStep({}, r[k], v) \in Purses
  <2> SUFFICES ASSUME NEW k \in DOMAIN r, NEW v \in Purses PROVE PayStep({}, r[k], v) \in Purses
    OBVIOUS
  <2>1. r[k] \in Parts
    BY Positions
  <2> QED BY <2>1, DisburseLemma DEF PayStep, Parts
<1>2. Pays!IsFiniteSet(DOMAIN r) /\ Pays!Chooses(DOMAIN r)
  BY Positions
<1>3. Pays!Fold({}, r, w, DOMAIN r) \in Purses
  BY <1>1, <1>2, Pays!FoldStays
<1> QED
  BY <1>3 DEF DisburseAll, FoldLeft, MapThenFoldSet, PayStep, LastOf, Pays!Fold, Pays!FoldsOf, Pays!Folds

NoRepeats(ids) == \A j, k \in DOMAIN ids : ids[j] = ids[k] => j = k

\* The copy of a list without an id has the other ids, each as often.
LEMMA WithoutLemma ==
    ASSUME NEW T, NEW ids \in Seq(T), NEW i
    PROVE  /\ Without(ids, i) \in Seq(T)
           /\ IndexOf(Without(ids, i)) = IndexOf(ids) \ {i}
           /\ NoRepeats(ids) => NoRepeats(Without(ids, i))
<1> DEFINE Of(s) == {ids[k] : k \in s}
           W == [s \in SUBSET DOMAIN ids |->
                    {kept \in Seq(T) : /\ IndexOf(kept) = Of(s) \ {i}
                                       /\ NoRepeats(ids) => NoRepeats(kept)}]
<1>1. <<>> \in W[{}]
  <2>1. <<>> \in Seq(T) /\ DOMAIN <<>> = {}
    OBVIOUS
  <2> QED BY <2>1 DEF IndexOf, NoRepeats
<1>2. ASSUME NEW s \in SUBSET DOMAIN ids, s # {}, NEW v \in W[s \ {LastOf(s)}]
      PROVE  KeepStep(i, ids[LastOf(s)], v) \in W[s]
  <2> DEFINE m == LastOf(s)
             t == s \ {m}
  <2>1. m \in s /\ ids[m] \in T
    BY <1>2, Positions DEF Keeps!Chooses
  <2>2. v \in Seq(T) /\ IndexOf(v) = Of(t) \ {i} /\ (NoRepeats(ids) => NoRepeats(v))
    BY <2>1
  <2>3. Of(s) = Of(t) \cup {ids[m]}
    BY <2>1
  <2>4. NoRepeats(ids) => ids[m] \notin Of(t)
    BY <2>1 DEF NoRepeats
  <2> HIDE DEF m, t, Of
  <2>5. CASE ids[m] = i
    <3>1. IndexOf(v) = Of(s) \ {i}
      BY <2>2, <2>3, <2>5
    <3>2. KeepStep(i, ids[m], v) = v
      BY <2>5 DEF KeepStep
    <3> QED BY <1>2, <2>2, <3>1, <3>2 DEF m
  <2>6. CASE ids[m] # i
    <3> DEFINE u == Append(v, ids[m])
    <3>1. /\ u \in Seq(T) /\ Len(u) = Len(v) + 1 /\ Len(v) \in Nat
          /\ \A k \in 1 .. Len(v) : u[k] = v[k]
          /\ u[Len(v) + 1] = ids[m]
          /\ DOMAIN u = 1 .. Len(u) /\ DOMAIN v = 1 .. Len(v)
      BY <2>1, <2>2, RecordAppend
    <3>2. KeepStep(i, ids[m], v) = u
      BY <2>6 DEF KeepStep
    <3> HIDE DEF u
    <3>3. 1 .. Len(u) = 1 .. Len(v) \cup {Len(v) + 1} /\ Len(v) + 1 \notin 1 .. Len(v)
      BY <3>1
    <3>4. IndexOf(u) = IndexOf(v) \cup {ids[m]}
      BY <3>1, <3>3 DEF IndexOf
    <3>5. IndexOf(u) = Of(s) \ {i}
      BY <2>2, <2>3, <2>6, <3>4
    <3>6. ASSUME NoRepeats(ids) PROVE NoRepeats(u)
      <4>1. NoRepeats(v) /\ ids[m] \notin IndexOf(v)
        BY <2>2, <2>4, <3>6
      <4> QED BY <3>1, <3>3, <4>1 DEF NoRepeats, IndexOf
    <3> QED BY <1>2, <3>1, <3>2, <3>5, <3>6 DEF m
  <2> QED BY <2>5, <2>6 DEF m
<1>3. Keeps!IsFiniteSet(DOMAIN ids) /\ Keeps!Chooses(DOMAIN ids)
  BY Positions
<1>4. Keeps!Fold(i, ids, <<>>, DOMAIN ids) \in W[DOMAIN ids]
  <2> HIDE DEF W
  <2> QED BY <1>1, <1>2, <1>3, Keeps!FoldInduction
<1>5. Keeps!Fold(i, ids, <<>>, DOMAIN ids) = Without(ids, i)
  BY DEF Without, FoldLeft, MapThenFoldSet, KeepStep, LastOf, Keeps!Fold, Keeps!FoldsOf, Keeps!Folds
<1> QED
  BY <1>4, <1>5 DEF IndexOf

-----------------------------------------------------------------------------
(***************************************************************************)
(* The inductive invariant.                                                *)
(***************************************************************************)

\* Records that do not contradict themselves.
SoundRecord ==
    {r \in EscrowRecord :
        /\ ~(r.released /\ r.refunded)
        /\ r.released => r.released_amount = r.amount
        /\ r.released_amount <= r.amount
        /\ ~r.released /\ ~r.refunded => r.released_amount < r.amount
        /\ r.lien_amount <= r.amount}

SplitRecord ==
    [sender: Account, recipients: Seq([address: Address, share_bps: Nat]) \ {<<>>}, total_amount: Nat,
     distributed: BOOLEAN, cancelled: BOOLEAN]
MultiRecord ==
    [depositor: Account, recipients: Seq(Parts), total_amount: Int, expiry_ledger: Ledger,
     released: BOOLEAN, refunded: BOOLEAN]
VestingRecord == [holder: Address, amount: Nat, vesting_ledger: Ledger, claimed: BOOLEAN]
RecurringRecord ==
    [payer: Account, payee: Address, amount: Nat, interval: Nat, last_charged_ledger: Nat,
     active: BOOLEAN, max_executions: Nat, execution_count: Nat]

FundsInv == funds \in [Address -> Nat]

EscrowsInv ==
    /\ escrows \in Seq(SoundRecord)
    /\ Len(escrows) <= MaxEscrows
    /\ valueLocked \in Int
    /\ depositorEscrows \in [Address -> Seq(EscrowId)]
    /\ beneficiaryEscrows \in [Address -> Seq(EscrowId)]

\* A list of ids that has each element of a set once.
Lists(ids, S) == IndexOf(ids) = S /\ NoRepeats(ids)

IndexInv ==
    \A a \in Address :
        /\ Lists(depositorEscrows[a], {i \in DOMAIN escrows : escrows[i].depositor = a})
        /\ Lists(beneficiaryEscrows[a], {i \in DOMAIN escrows : escrows[i].beneficiary = a})

Claims(i) == SumFunctionOnSet([a \in Account |-> TimesClaimed(a, i)], Account)

\* Disputes and appeals are about escrows that exist.
KeysInv ==
    /\ disputed \subseteq DOMAIN escrows /\ appealed \subseteq DOMAIN escrows
    /\ openedAt \in [EscrowId -> Ledger \cup {NeverOpened}]
    /\ disputeCount \in [EscrowId -> 0 .. MaxDisputes]
    /\ claimantDisputes \in [Account -> Seq(EscrowId)]
    /\ \A i \in disputed : disputeCount[i] > 0 /\ openedAt[i] \in 0 .. now
    /\ \A i \in appealed : i \in disputed \/ Settled(i)
    /\ \A i \in EscrowId : disputeCount[i] = Claims(i)

\* What the properties of the escrows do not depend on.
SettingsInv ==
    /\ lastEscrowTime \in [Account -> Ledger]
    /\ fees \in [fee_bps: Nat, treasury: Address, collected: Nat]
    /\ mediationBps \in Nat
    /\ holderSet \subseteq Address /\ frozen \subseteq Account
    /\ arbiter \in Account \cup {NoArbiter}
    /\ resolverStats \in [Account -> [for_beneficiary: Nat, for_depositor: Nat]]

ClaimsInv ==
    /\ splits \in Seq(SplitRecord)
    /\ multiEscrows \in Seq(MultiRecord)
    /\ vestings \in Seq(VestingRecord)

RecurringInv ==
    /\ recurrings \in Seq(RecurringRecord)
    /\ \A i \in DOMAIN recurrings : recurrings[i].last_charged_ledger <= now
    /\ payerRecurrings \in [Account -> Seq(Nat)]

IInv ==
    /\ now \in Ledger
    /\ FundsInv /\ EscrowsInv /\ IndexInv /\ KeysInv
    /\ SettingsInv /\ ClaimsInv /\ RecurringInv

(***************************************************************************)
(* What a step can do to the escrows: nothing, add some, change one, or    *)
(* open a dispute or an appeal.                                            *)
(***************************************************************************)
Quiet ==
    /\ now' \in Ledger /\ now' >= now
    /\ UNCHANGED <<escrows, valueLocked, depositorEscrows, beneficiaryEscrows,
                   disputed, appealed, openedAt, disputeCount, claimantDisputes>>

\* What is left of a record, as long as it is not settled.
Due(r) == IF r.released \/ r.refunded THEN 0 ELSE r.amount - r.released_amount

\* New records of depositor d, of different beneficiaries.
Grows(d, new) ==
    /\ now' = now
    /\ \A k \in DOMAIN new :
          new[k].depositor = d /\ ~new[k].released /\ ~new[k].refunded
    /\ \A j, k \in DOMAIN new : new[j].beneficiary = new[k].beneficiary => j = k
    /\ escrows' = escrows \o new
    /\ Len(escrows') <= MaxEscrows
    /\ valueLocked' = valueLocked + SumFunctionOnSet([k \in DOMAIN new |-> Due(new[k])], DOMAIN new)
    /\ depositorEscrows' =
          [depositorEscrows EXCEPT ![d] = @ \o [k \in DOMAIN new |-> Len(escrows) + k]]
    /\ beneficiaryEscrows' = [b \in Address |-> beneficiaryEscrows'[b]]
    /\ \A b \in Address :
          \/ /\ \A k \in DOMAIN new : new[k].beneficiary # b
             /\ beneficiaryEscrows'[b] = beneficiaryEscrows[b]
          \/ \E k \in DOMAIN new :
                /\ new[k].beneficiary = b
                /\ beneficiaryEscrows'[b] = Append(beneficiaryEscrows[b], Len(escrows) + k)
    /\ UNCHANGED <<disputed, appealed, openedAt, disputeCount, claimantDisputes>>

\* The record of i becomes r; the keys of a dispute over it may go.
Changes(i, r) ==
    /\ now' = now
    /\ escrows' = [escrows EXCEPT ![i] = r]
    /\ r.depositor = escrows[i].depositor
    /\ Settled(i) => r = [escrows[i] EXCEPT !.beneficiary = r.beneficiary]
    /\ valueLocked' \in Int
    /\ r.amount = escrows[i].amount /\ resolverStats' = resolverStats
          => valueLocked' - valueLocked = Due(r) - Due(escrows[i])
    /\ depositorEscrows' = depositorEscrows
    /\ \/ r.beneficiary = escrows[i].beneficiary /\ beneficiaryEscrows' = beneficiaryEscrows
       \/ beneficiaryEscrows' =
             [[beneficiaryEscrows EXCEPT ![escrows[i].beneficiary] = Without(@, i)]
                 EXCEPT ![r.beneficiary] = Append(@, i)]
    /\ disputed' \subseteq disputed /\ appealed' \subseteq appealed
    /\ UNCHANGED <<disputeCount, claimantDisputes>>
    /\ openedAt' \in [EscrowId -> Ledger \cup {NeverOpened}]
    /\ \A j \in disputed' : openedAt'[j] = openedAt[j]
    /\ \A j \in appealed' : (j = i /\ (r.released \/ r.refunded)) \/ (j \in disputed => j \in disputed')

Step ==
    \/ Quiet
    \/ \E d \in Account, new \in Seq(SoundRecord) : Grows(d, new)
    \/ \E i \in DOMAIN escrows, r \in SoundRecord : Changes(i, r)
    \/ \E c \in Account, i \in EscrowId : RaiseDispute(c, i) \/ AppealDispute(c, i)

\* What the lemmas about the actions show of each.
Kept == Step /\ FundsInv' /\ SettingsInv' /\ ClaimsInv' /\ RecurringInv'

-----------------------------------------------------------------------------
(***************************************************************************)
(* Small facts the actions share.                                          *)
(***************************************************************************)

\* The purse at the start of a call.
LEMMA PurseLemma == FundsInv => Purse \in Purses
BY DEF FundsInv, Purse, Purses

LEMMA PurseWith ==
    ASSUME NEW f
    PROVE  [Purse EXCEPT !.funds = f] = [ok |-> TRUE, funds |-> f]
<1> DEFINE F == {funds, f}
           R == [ok: BOOLEAN, funds: F]
           v == [Purse EXCEPT !.funds = f]
           w == [ok |-> TRUE, funds |-> f]
<1>1. Purse \in R /\ Purse.ok = TRUE
  BY DEF Purse
<1>2. v \in R /\ v.ok = TRUE /\ v.funds = f
  BY <1>1
<1>3. w \in R /\ w.ok = TRUE /\ w.funds = f
  OBVIOUS
<1>4. v.ok = w.ok /\ v.funds = w.funds
  BY <1>2, <1>3
<1> HIDE DEF v, w, F
<1>5. v = w
  BY <1>2, <1>3, <1>4
<1> QED
  BY <1>5 DEF v, w

\* A call ends only if every payment was covered.
LEMMA PaidLemma ==
    ASSUME NEW w \in Purses, Paid(w)
    PROVE  FundsInv'
BY DEF Paid, Purses, FundsInv

\* A covered transfer.
LEMMA MovedLemma ==
    ASSUME NEW f \in [Address -> Nat], NEW from \in Address, NEW to \in Address, NEW x \in Int,
           x >= 0, CanPay(f, from, x)
    PROVE  Moved(f, from, to, x) \in [Address -> Nat]
<1> DEFINE spent == [f EXCEPT ![from] = @ - x]
<1>1. spent \in [Address -> Nat]
  BY DEF CanPay
<1>2. Moved(f, from, to, x) = [spent EXCEPT ![to] = @ + x]
  BY DEF Moved
<1> HIDE DEF spent
<1> QED
  BY <1>1, <1>2

\* Fees are naturals, whatever the rate.
LEMMA FeeLemma ==
    ASSUME NEW x \in Int, NEW b \in Nat
    PROVE  FeeOn(x, b) \in Int /\ (x >= 0 => FeeOn(x, b) >= 0)
<1> DEFINE p == x * b
<1>1. p \in Int /\ (x >= 0 => p >= 0)
  OBVIOUS
<1>2. FeeOn(x, b) = p \div 10000
  BY DEF FeeOn, Bps
<1> HIDE DEF p
<1> QED
  BY <1>1, <1>2

\* The smaller of two.
LEMMA MinLemma ==
    ASSUME NEW x \in Int, NEW y \in Int
    PROVE  Min({x, y}) \in {x, y} /\ Min({x, y}) <= x /\ Min({x, y}) <= y
<1>1. \E z \in {x, y} : \A v \in {x, y} : z <= v
  <2>1. CASE x <= y
    BY <2>1
  <2>2. CASE ~(x <= y)
    BY <2>2
  <2> QED BY <2>1, <2>2
<1> QED
  BY <1>1 DEF Min

\* The record of an escrow.
LEMMA RecordOf ==
    ASSUME EscrowsInv, NEW i, Exists(i)
    PROVE  /\ i \in DOMAIN escrows /\ i \in 1 .. Len(escrows) /\ i \in EscrowId
           /\ escrows[i] \in SoundRecord /\ escrows[i] \in EscrowRecord
           /\ Remaining(i) \in Nat
<1>1. i \in DOMAIN escrows /\ i \in 1 .. Len(escrows) /\ escrows[i] \in SoundRecord
  BY ElementOfSeq, LenProperties DEF Exists, EscrowsInv
<1>2. escrows[i] \in EscrowRecord
  BY <1>1 DEF SoundRecord
<1>3. i \in EscrowId
  BY <1>1, LenProperties, PayEscrowAssumption DEF EscrowsInv, EscrowId
<1>4. Remaining(i) \in Nat
  BY <1>1 DEF SoundRecord, EscrowRecord, Remaining
<1> QED
  BY <1>1, <1>2, <1>3, <1>4

\* A settlement never pays the lien's creditor more than what is left.
LEMMA LienShareLemma ==
    ASSUME EscrowsInv, NEW i, Exists(i)
    PROVE  LienShare(i) \in Nat /\ LienShare(i) <= Remaining(i)
<1>1. escrows[i] \in EscrowRecord /\ Remaining(i) \in Nat
  BY RecordOf
<1>2. escrows[i].lien_amount \in Nat
  BY <1>1 DEF EscrowRecord
<1> DEFINE m == Min({escrows[i].lien_amount, Remaining(i)})
<1>3. m \in {escrows[i].lien_amount, Remaining(i)} /\ m <= Remaining(i)
  <2>1. \A x, y \in Int : Min({x, y}) \in {x, y} /\ Min({x, y}) <= y
    BY MinLemma
  <2> QED BY <1>1, <1>2, <2>1
<1>4. LienShare(i) \in {0, m}
  BY DEF LienShare
<1> HIDE DEF m
<1> QED
  BY <1>1, <1>2, <1>3, <1>4

-----------------------------------------------------------------------------
(***************************************************************************)
(* Escrows.                                                                *)
(***************************************************************************)

\* What the operations on escrows leave alone.
LEMMA EscrowFrame ==
    ASSUME IInv, UNCHANGED <<disputeVars, poolVars>>, now' \in Ledger, now' >= now
    PROVE  ClaimsInv' /\ RecurringInv'
<1>1. UNCHANGED <<splits, multiEscrows, vestings, recurrings, payerRecurrings>>
  BY DEF poolVars, splitVars, recurringVars, ownVars
<1>2. now \in Int /\ now' \in Int
  BY HostAssumption DEF IInv, Ledger
<1>3. recurrings \in Seq(RecurringRecord) /\ payerRecurrings \in [Account -> Seq(Nat)]
  BY DEF IInv, RecurringInv
<1>4. ASSUME NEW i \in DOMAIN recurrings PROVE recurrings[i].last_charged_ledger <= now'
  <2>1. recurrings[i] \in RecurringRecord /\ recurrings[i].last_charged_ledger <= now
    BY <1>3, Positions DEF IInv, RecurringInv
  <2> QED BY <1>2, <2>1 DEF RecurringRecord
<1> QED
  BY <1>1, <1>3, <1>4 DEF IInv, ClaimsInv, RecurringInv

\* Taking off a lien that is paid, with everything else as before.
LEMMA LienClearedLemma ==
    ASSUME NEW r \in SoundRecord
    PROVE  /\ LienCleared(r) \in SoundRecord
           /\ LienCleared(r).depositor = r.depositor
           /\ LienCleared(r).beneficiary = r.beneficiary
           /\ LienCleared(r).amount = r.amount
           /\ LienCleared(r).released_amount = r.released_amount
           /\ LienCleared(r).released = r.released
           /\ LienCleared(r).refunded = r.refunded
<1>1. CASE r.liened /\ r.lien_amount > 0
  <2> DEFINE c == [r EXCEPT !.liened = FALSE, !.lien_amount = 0]
  <2>1. /\ c \in EscrowRecord /\ c.lien_amount = 0
        /\ c.depositor = r.depositor /\ c.beneficiary = r.beneficiary
        /\ c.amount = r.amount /\ c.released_amount = r.released_amount
        /\ c.released = r.released /\ c.refunded = r.refunded
    BY DEF SoundRecord, EscrowRecord
  <2>2. LienCleared(r) = c
    BY <1>1 DEF LienCleared
  <2> HIDE DEF c
  <2>3. c \in SoundRecord
    BY <2>1 DEF SoundRecord, EscrowRecord
  <2> QED BY <2>1, <2>2, <2>3
<1>2. CASE ~(r.liened /\ r.lien_amount > 0)
  BY <1>2 DEF LienCleared
<1> QED
  BY <1>1, <1>2

\* A record that is changed, while the keys of its dispute stay or go.
LEMMA ChangesLemma ==
    ASSUME IInv, NEW i, Active(i), NEW r \in SoundRecord, now' = now,
           escrows' = [escrows EXCEPT ![i] = r],
           r.depositor = escrows[i].depositor, r.beneficiary = escrows[i].beneficiary,
           valueLocked' \in Int,
           r.amount = escrows[i].amount /\ resolverStats' = resolverStats
              => valueLocked' - valueLocked = Due(r) - Remaining(i),
           UNCHANGED <<depositorEscrows, beneficiaryEscrows, disputeCount, claimantDisputes>>,
           \/ UNCHANGED <<disputed, appealed, openedAt>>
           \/ /\ r.released \/ r.refunded
              /\ disputed' = disputed \ {i} /\ appealed' \in {appealed, appealed \ {i}}
              /\ openedAt' \in {openedAt, [openedAt EXCEPT ![i] = NeverOpened]}
    PROVE  Step
<1>1. i \in DOMAIN escrows
  BY RecordOf DEF IInv, Active
<1>2. Due(escrows[i]) = Remaining(i) /\ ~Settled(i)
  BY DEF Active, Settled, Due, Remaining
<1>3. /\ openedAt' \in [EscrowId -> Ledger \cup {NeverOpened}]
      /\ \A j \in disputed' : openedAt'[j] = openedAt[j]
  <2>1. openedAt \in [EscrowId -> Ledger \cup {NeverOpened}] /\ disputed \subseteq EscrowId
    <3>1. DOMAIN escrows \subseteq EscrowId
      BY RecordOf, LenProperties DEF IInv, EscrowsInv, Exists
    <3> QED BY <3>1 DEF IInv, KeysInv
  <2> QED BY <2>1
<1>4. Changes(i, r)
  BY <1>1, <1>2, <1>3 DEF Changes
<1> QED
  BY <1>1, <1>4 DEF Step

\* The payments of a release.
LEMMA PayReleaseLemma ==
    ASSUME IInv, NEW i, Exists(i), PayRelease(i)
    PROVE  FundsInv' /\ fees' \in [fee_bps: Nat, treasury: Address, collected: Nat]
<1> DEFINE net == Remaining(i) - LienShare(i)
           fee == FeeOn(net, fees.fee_bps)
           afterLien == Disburse(Purse, escrows[i].liened_by, LienShare(i))
           afterFee == Disburse(afterLien, fees.treasury, fee)
           last == Disburse(afterFee, escrows[i].beneficiary, net - fee)
<1>1. /\ escrows[i] \in EscrowRecord /\ Remaining(i) \in Nat
      /\ LienShare(i) \in Nat /\ LienShare(i) <= Remaining(i)
  BY RecordOf, LienShareLemma DEF IInv
<1>2. escrows[i].liened_by \in Address /\ escrows[i].beneficiary \in Address
  BY <1>1 DEF EscrowRecord, Address
<1>3. fees \in [fee_bps: Nat, treasury: Address, collected: Nat]
  BY DEF IInv, SettingsInv
<1>4. net \in Nat
  BY <1>1
<1>5. Purse \in Purses
  BY PurseLemma DEF IInv
<1>6. Paid(last) /\ fees' = [fees EXCEPT !.collected = @ + fee]
  BY DEF PayRelease
<1> HIDE DEF net
<1>7. fee \in Nat
  <2>1. net \in Int /\ net >= 0 /\ fees.fee_bps \in Nat
    BY <1>3, <1>4
  <2>2. fee \in Int /\ (net >= 0 => fee >= 0)
    BY <2>1, FeeLemma
  <2> QED BY <2>1, <2>2
<1> HIDE DEF fee
<1>8. afterLien \in Purses
  BY <1>1, <1>2, <1>5, DisburseLemma
<1> HIDE DEF afterLien
<1>9. afterFee \in Purses
  BY <1>3, <1>7, <1>8, DisburseLemma
<1> HIDE DEF afterFee
<1>10. last \in Purses
  <2>1. net - fee \in Int
    BY <1>4, <1>7
  <2> QED BY <1>2, <1>9, <2>1, DisburseLemma
<1> HIDE DEF last
<1> QED
  BY <1>3, <1>6, <1>7, <1>10, PaidLemma

LEMMA ReleaseEscrowKeeps ==
    ASSUME IInv, UNCHANGED <<disputeVars, poolVars>>, NEW c \in Account, NEW i \in EscrowId,
           ReleaseEscrow(c, i)
    PROVE  Kept
<1> DEFINE cleared == LienCleared(escrows[i])
           r == [cleared EXCEPT !.released = TRUE, !.released_amount = escrows[i].amount]
<1>1. /\ Active(i) /\ Exists(i) /\ ~Settled(i) /\ PayRelease(i) /\ now' = now
      /\ valueLocked' = valueLocked - Remaining(i)
      /\ holderSet' = holderSet \cup {escrows[i].beneficiary}
      /\ UNCHANGED <<depositorEscrows, beneficiaryEscrows, lastEscrowTime, disputed, appealed>>
      /\ escrows' = [escrows EXCEPT ![i] = r]
  BY DEF ReleaseEscrow, Active
<1>2. /\ i \in DOMAIN escrows /\ escrows[i] \in SoundRecord /\ escrows[i] \in EscrowRecord
      /\ Remaining(i) \in Nat
  BY <1>1, RecordOf DEF IInv
<1>3. /\ cleared \in SoundRecord /\ cleared.depositor = escrows[i].depositor
      /\ cleared.beneficiary = escrows[i].beneficiary /\ cleared.amount = escrows[i].amount
      /\ cleared.refunded = FALSE
  BY <1>1, <1>2, LienClearedLemma DEF Settled, EscrowRecord
<1> HIDE DEF cleared
<1>4. /\ r \in SoundRecord /\ r.depositor = escrows[i].depositor
      /\ r.beneficiary = escrows[i].beneficiary /\ Due(r) = 0
  <2>1. /\ r \in EscrowRecord /\ r.depositor = cleared.depositor
        /\ r.beneficiary = cleared.beneficiary /\ r.amount = cleared.amount
        /\ r.released = TRUE /\ r.refunded = cleared.refunded
        /\ r.released_amount = r.amount /\ r.lien_amount = cleared.lien_amount
    BY <1>2, <1>3 DEF SoundRecord, EscrowRecord
  <2> HIDE DEF r
  <2> QED BY <1>3, <2>1 DEF SoundRecord, EscrowRecord, Due
<1> HIDE DEF r
<1>5. valueLocked' \in Int /\ valueLocked' - valueLocked = Due(r) - Remaining(i)
  BY <1>1, <1>2, <1>4 DEF IInv, EscrowsInv
<1>6. UNCHANGED <<disputeCount, claimantDisputes, openedAt, mediationBps, arbiter, resolverStats, frozen>>
  BY DEF disputeVars, poolVars, ownVars
<1>7. Step
  BY <1>1, <1>4, <1>5, <1>6, ChangesLemma
<1>8. FundsInv' /\ fees' \in [fee_bps: Nat, treasury: Address, collected: Nat]
  BY <1>1, PayReleaseLemma
<1>9. SettingsInv'
  BY <1>1, <1>2, <1>6, <1>8 DEF IInv, SettingsInv, EscrowRecord
<1>10. ClaimsInv' /\ RecurringInv'
  BY <1>1, EscrowFrame, HostAssumption DEF IInv, Ledger
<1> QED
  BY <1>7, <1>8, <1>9, <1>10 DEF Kept

LEMMA ReleasePartialEscrowKeeps ==
    ASSUME IInv, UNCHANGED <<disputeVars, poolVars>>, NEW c \in Account, NEW i \in EscrowId,
           NEW x \in Amounts, ReleasePartialEscrow(c, i, x)
    PROVE  Kept
<1> DEFINE r == [escrows[i] EXCEPT !.released_amount = @ + x, !.released = (x = Remaining(i))]
<1>1. /\ Active(i) /\ Exists(i) /\ ~Settled(i) /\ now' = now
      /\ x \in 1 .. Remaining(i)
      /\ Paid(Disburse(Purse, c, x))
      /\ valueLocked' = valueLocked - x
      /\ holderSet' = holderSet \cup {c}
      /\ UNCHANGED <<depositorEscrows, beneficiaryEscrows, lastEscrowTime, fees, disputed, appealed>>
      /\ escrows' = [escrows EXCEPT ![i].released_amount = @ + x, ![i].released = (x = Remaining(i))]
  BY DEF ReleasePartialEscrow, Active
<1>2. /\ i \in DOMAIN escrows /\ escrows[i] \in SoundRecord /\ escrows[i] \in EscrowRecord
      /\ Remaining(i) \in Nat
  BY <1>1, RecordOf DEF IInv
<1>3. escrows' = [escrows EXCEPT ![i] = r]
  BY <1>1, <1>2 DEF EscrowRecord
<1>4. /\ r \in SoundRecord /\ r.depositor = escrows[i].depositor
      /\ r.beneficiary = escrows[i].beneficiary /\ Due(r) = Remaining(i) - x
  <2>1. /\ r \in EscrowRecord /\ r.depositor = escrows[i].depositor
        /\ r.beneficiary = escrows[i].beneficiary /\ r.amount = escrows[i].amount
        /\ r.released = (x = Remaining(i)) /\ r.refunded = escrows[i].refunded
        /\ r.released_amount = escrows[i].released_amount + x
        /\ r.lien_amount = escrows[i].lien_amount
    BY <1>1, <1>2 DEF EscrowRecord
  <2> HIDE DEF r
  <2>2. /\ Remaining(i) = escrows[i].amount - escrows[i].released_amount
        /\ escrows[i].refunded = FALSE
    BY <1>1, <1>2 DEF Remaining, Settled, EscrowRecord
  <2> QED BY <1>1, <1>2, <2>1, <2>2 DEF SoundRecord, EscrowRecord, Due
<1> HIDE DEF r
<1>5. valueLocked' \in Int /\ valueLocked' - valueLocked = Due(r) - Remaining(i)
  BY <1>1, <1>2, <1>4 DEF IInv, EscrowsInv
<1>6. UNCHANGED <<disputeCount, claimantDisputes, openedAt, mediationBps, arbiter, resolverStats, frozen>>
  BY DEF disputeVars, poolVars, ownVars
<1>7. Step
  BY <1>1, <1>3, <1>4, <1>5, <1>6, ChangesLemma
<1>8. FundsInv'
  <2>1. Purse \in Purses /\ c \in Address /\ x \in Int
    BY <1>1, PurseLemma DEF IInv, Address
  <2>2. Disburse(Purse, c, x) \in Purses
    BY <2>1, DisburseLemma
  <2> QED BY <1>1, <2>2, PaidLemma
<1>9. SettingsInv'
  BY <1>1, <1>6 DEF IInv, SettingsInv, Address
<1>10. ClaimsInv' /\ RecurringInv'
  BY <1>1, EscrowFrame, HostAssumption DEF IInv, Ledger
<1> QED
  BY <1>7, <1>8, <1>9, <1>10 DEF Kept

LEMMA RefundEscrowKeeps ==
    ASSUME IInv, UNCHANGED <<disputeVars, poolVars>>, NEW c \in Account, NEW i \in EscrowId,
           RefundEscrow(c, i)
    PROVE  Kept
<1> DEFINE r == [escrows[i] EXCEPT !.refunded = TRUE]
<1>1. /\ Active(i) /\ Exists(i) /\ ~Settled(i) /\ now' = now
      /\ Paid(Disburse(Purse, escrows[i].depositor, Remaining(i)))
      /\ valueLocked' = valueLocked - Remaining(i)
      /\ UNCHANGED <<depositorEscrows, beneficiaryEscrows, lastEscrowTime, fees, holderSet,
                     disputed, appealed>>
      /\ escrows' = [escrows EXCEPT ![i].refunded = TRUE]
  BY DEF RefundEscrow, Active
<1>2. /\ i \in DOMAIN escrows /\ escrows[i] \in SoundRecord /\ escrows[i] \in EscrowRecord
      /\ Remaining(i) \in Nat
  BY <1>1, RecordOf DEF IInv
<1>3. escrows' = [escrows EXCEPT ![i] = r]
  BY <1>1, <1>2 DEF EscrowRecord
<1>4. /\ r \in SoundRecord /\ r.depositor = escrows[i].depositor
      /\ r.beneficiary = escrows[i].beneficiary /\ Due(r) = 0
  <2>1. /\ r \in EscrowRecord /\ r.depositor = escrows[i].depositor
        /\ r.beneficiary = escrows[i].beneficiary /\ r.amount = escrows[i].amount
        /\ r.released = escrows[i].released /\ r.refunded = TRUE
        /\ r.released_amount = escrows[i].released_amount
        /\ r.lien_amount = escrows[i].lien_amount
    BY <1>2 DEF EscrowRecord
  <2> HIDE DEF r
  <2> QED BY <1>1, <1>2, <2>1 DEF SoundRecord, EscrowRecord, Due, Settled
<1> HIDE DEF r
<1>5. valueLocked' \in Int /\ valueLocked' - valueLocked = Due(r) - Remaining(i)
  BY <1>1, <1>2, <1>4 DEF IInv, EscrowsInv
<1>6. UNCHANGED <<disputeCount, claimantDisputes, openedAt, mediationBps, arbiter, resolverStats, frozen>>
  BY DEF disputeVars, poolVars, ownVars
<1>7. Step
  BY <1>1, <1>3, <1>4, <1>5, <1>6, ChangesLemma
<1>8. FundsInv'
  <2>1. Purse \in Purses /\ escrows[i].depositor \in Address /\ Remaining(i) \in Int
    BY <1>2, PurseLemma DEF IInv, Address, EscrowRecord
  <2>2. Disburse(Purse, escrows[i].depositor, Remaining(i)) \in Purses
    BY <2>1, DisburseLemma
  <2> QED BY <1>1, <2>2, PaidLemma
<1>9. SettingsInv'
  BY <1>1, <1>6 DEF IInv, SettingsInv
<1>10. ClaimsInv' /\ RecurringInv'
  BY <1>1, EscrowFrame, HostAssumption DEF IInv, Ledger
<1> QED
  BY <1>7, <1>8, <1>9, <1>10 DEF Kept

LEMMA AdminSettleEscrowKeeps ==
    ASSUME IInv, UNCHANGED <<disputeVars, poolVars>>, NEW c \in Account, NEW i \in EscrowId,
           NEW winner \in Address, AdminSettleEscrow(c, i, winner)
    PROVE  Kept
<1> DEFINE cleared == LienCleared(escrows[i])
           won == winner = escrows[i].beneficiary
           r == [cleared EXCEPT !.released = won, !.refunded = ~won,
                                !.released_amount = escrows[i].amount]
           afterLien == Disburse(Purse, escrows[i].liened_by, LienShare(i))
           last == Disburse(afterLien, winner, Remaining(i) - LienShare(i))
<1>1. /\ Active(i) /\ Exists(i) /\ ~Settled(i) /\ now' = now /\ Paid(last)
      /\ valueLocked' = valueLocked - Remaining(i)
      /\ disputed' = disputed \ {i} /\ appealed' = appealed \ {i}
      /\ UNCHANGED <<depositorEscrows, beneficiaryEscrows, lastEscrowTime, fees, holderSet>>
      /\ escrows' = [escrows EXCEPT ![i] = r]
  BY DEF AdminSettleEscrow, Active
<1>2. /\ i \in DOMAIN escrows /\ escrows[i] \in SoundRecord /\ escrows[i] \in EscrowRecord
      /\ Remaining(i) \in Nat /\ LienShare(i) \in Nat
  BY <1>1, RecordOf, LienShareLemma DEF IInv
<1>3. /\ cleared \in SoundRecord /\ cleared.depositor = escrows[i].depositor
      /\ cleared.beneficiary = escrows[i].beneficiary /\ cleared.amount = escrows[i].amount
  BY <1>2, LienClearedLemma
<1>4. won \in BOOLEAN
  OBVIOUS
<1> HIDE DEF cleared, won
<1>5. /\ r \in SoundRecord /\ r.depositor = escrows[i].depositor
      /\ r.beneficiary = escrows[i].beneficiary /\ Due(r) = 0 /\ (r.released \/ r.refunded)
  <2>1. /\ r \in EscrowRecord /\ r.depositor = cleared.depositor
        /\ r.beneficiary = cleared.beneficiary /\ r.amount = cleared.amount
        /\ r.released = won /\ r.refunded = ~won
        /\ r.released_amount = r.amount /\ r.lien_amount = cleared.lien_amount
    BY <1>2, <1>3, <1>4 DEF SoundRecord, EscrowRecord
  <2> HIDE DEF r
  <2> QED BY <1>3, <1>4, <2>1 DEF SoundRecord, EscrowRecord, Due
<1> HIDE DEF r
<1>6. valueLocked' \in Int /\ valueLocked' - valueLocked = Due(r) - Remaining(i)
  BY <1>1, <1>2, <1>5 DEF IInv, EscrowsInv
<1>7. UNCHANGED <<disputeCount, claimantDisputes, openedAt, mediationBps, arbiter, resolverStats, frozen>>
  BY DEF disputeVars, poolVars, ownVars
<1>8. Step
  BY <1>1, <1>5, <1>6, <1>7, ChangesLemma
<1>9. FundsInv'
  <2>1. Purse \in Purses /\ escrows[i].liened_by \in Address
    BY <1>2, PurseLemma DEF IInv, Address, EscrowRecord
  <2>2. afterLien \in Purses
    BY <1>2, <2>1, DisburseLemma
  <2> HIDE DEF afterLien
  <2>3. last \in Purses
    <3>1. Remaining(i) - LienShare(i) \in Int
      BY <1>2
    <3> QED BY <2>2, <3>1, DisburseLemma
  <2> QED BY <1>1, <2>3, PaidLemma
<1>10. SettingsInv'
  BY <1>1, <1>7 DEF IInv, SettingsInv
<1>11. ClaimsInv' /\ RecurringInv'
  BY <1>1, EscrowFrame, HostAssumption DEF IInv, Ledger
<1> QED
  BY <1>8, <1>9, <1>10, <1>11 DEF Kept

\* Liens come and go without moving money.
LEMMA LienKeeps ==
    ASSUME IInv, UNCHANGED <<disputeVars, poolVars>>, NEW c \in Account, NEW i \in EscrowId,
           \/ \E x \in Amounts : c \in Creditors /\ PlaceLien(c, i, x)
           \/ ClearLien(c, i)
    PROVE  Kept
<1>1. /\ Active(i) /\ Exists(i) /\ now' = now
      /\ UNCHANGED <<funds, valueLocked, depositorEscrows, beneficiaryEscrows,
                     lastEscrowTime, fees, holderSet, disputed, appealed>>
  BY DEF PlaceLien, ClearLien, Active
<1>2. /\ i \in DOMAIN escrows /\ escrows[i] \in SoundRecord /\ escrows[i] \in EscrowRecord
      /\ Remaining(i) \in Nat
  BY <1>1, RecordOf DEF IInv
<1>3. \E r \in SoundRecord :
         /\ escrows' = [escrows EXCEPT ![i] = r] /\ r.depositor = escrows[i].depositor
         /\ r.beneficiary = escrows[i].beneficiary /\ Due(r) = Remaining(i)
  <2> DEFINE Lien(l, by, y) == [escrows[i] EXCEPT !.liened = l, !.liened_by = by, !.lien_amount = y]
  <2>1. ASSUME NEW l \in BOOLEAN, NEW by \in Account, NEW y \in Nat, y <= escrows[i].amount
        PROVE  /\ Lien(l, by, y) \in SoundRecord /\ Lien(l, by, y).depositor = escrows[i].depositor
               /\ Lien(l, by, y).beneficiary = escrows[i].beneficiary
               /\ Due(Lien(l, by, y)) = Remaining(i)
    <3> DEFINE r == Lien(l, by, y)
    <3>1. /\ r \in EscrowRecord /\ r.depositor = escrows[i].depositor
          /\ r.beneficiary = escrows[i].beneficiary /\ r.amount = escrows[i].amount
          /\ r.released = escrows[i].released /\ r.refunded = escrows[i].refunded
          /\ r.released_amount = escrows[i].released_amount /\ r.lien_amount = y
      BY <1>2, <2>1 DEF EscrowRecord
    <3> HIDE DEF r, Lien
    <3>2. r \in SoundRecord /\ Due(r) = Remaining(i)
      BY <1>1, <1>2, <2>1, <3>1 DEF SoundRecord, EscrowRecord, Due, Remaining, Active, Settled
    <3> QED BY <3>1, <3>2 DEF r
  <2>2. CASE \E x \in Amounts : c \in Creditors /\ PlaceLien(c, i, x)
    <3>1. PICK x \in Amounts : c \in Creditors /\ PlaceLien(c, i, x)
      BY <2>2
    <3>2. escrows' = [escrows EXCEPT ![i] = Lien(TRUE, c, x)]
      BY <1>2, <3>1 DEF PlaceLien, EscrowRecord
    <3>3. x \in Nat /\ x <= escrows[i].amount /\ c \in Account
      <4>1. escrows[i].amount \in Nat
        BY <1>2 DEF EscrowRecord
      <4>2. x \in 1 .. escrows[i].amount
        BY <3>1 DEF PlaceLien
      <4> QED BY <4>1, <4>2
    <3> HIDE DEF Lien
    <3> QED BY <2>1, <3>2, <3>3
  <2>3. CASE ClearLien(c, i)
    <3>1. escrows' = [escrows EXCEPT ![i] = Lien(FALSE, escrows[i].liened_by, 0)]
      BY <1>2, <2>3 DEF ClearLien, EscrowRecord
    <3>2. escrows[i].liened_by \in Account /\ 0 <= escrows[i].amount
      BY <1>2 DEF EscrowRecord
    <3> HIDE DEF Lien
    <3> QED BY <2>1, <3>1, <3>2
  <2> QED BY <2>2, <2>3
<1>4. UNCHANGED <<disputeCount, claimantDisputes, openedAt, mediationBps, arbiter, resolverStats, frozen>>
  BY DEF disputeVars, poolVars, ownVars
<1>5. Step
  <2>1. PICK r \in SoundRecord :
         /\ escrows' = [escrows EXCEPT ![i] = r] /\ r.depositor = escrows[i].depositor
         /\ r.beneficiary = escrows[i].beneficiary /\ Due(r) = Remaining(i)
    BY <1>3
  <2>2. valueLocked' \in Int /\ valueLocked' - valueLocked = Due(r) - Remaining(i)
    BY <1>1, <1>2, <2>1 DEF IInv, EscrowsInv
  <2> QED BY <1>1, <1>4, <2>1, <2>2, ChangesLemma
<1>6. FundsInv' /\ SettingsInv'
  BY <1>1, <1>4 DEF IInv, FundsInv, SettingsInv
<1>7. ClaimsInv' /\ RecurringInv'
  BY <1>1, EscrowFrame, HostAssumption DEF IInv, Ledger
<1> QED
  BY <1>5, <1>6, <1>7 DEF Kept

LEMMA TopupEscrowKeeps ==
    ASSUME IInv, UNCHANGED <<disputeVars, poolVars>>, NEW c \in Account, NEW i \in EscrowId,
           NEW x \in Amounts, TopupEscrow(c, i, x)
    PROVE  Kept
<1> DEFINE r == [escrows[i] EXCEPT !.amount = @ + x]
<1>1. /\ Active(i) /\ Exists(i) /\ ~Settled(i) /\ now' = now
      /\ x > 0 /\ CanPay(funds, c, x) /\ funds' = Moved(funds, c, Contract, x)
      /\ UNCHANGED <<valueLocked, depositorEscrows, beneficiaryEscrows, lastEscrowTime, fees,
                     holderSet, disputed, appealed>>
      /\ escrows' = [escrows EXCEPT ![i].amount = @ + x]
  BY DEF TopupEscrow, Active
<1>2. /\ i \in DOMAIN escrows /\ escrows[i] \in SoundRecord /\ escrows[i] \in EscrowRecord
      /\ x \in Nat
  BY <1>1, RecordOf, PayEscrowAssumption DEF IInv
<1>3. escrows' = [escrows EXCEPT ![i] = r]
  BY <1>1, <1>2 DEF EscrowRecord
<1>4. /\ r \in SoundRecord /\ r.depositor = escrows[i].depositor
      /\ r.beneficiary = escrows[i].beneficiary /\ r.amount # escrows[i].amount
  <2>1. /\ r \in EscrowRecord /\ r.depositor = escrows[i].depositor
        /\ r.beneficiary = escrows[i].beneficiary /\ r.amount = escrows[i].amount + x
        /\ r.released = escrows[i].released /\ r.refunded = escrows[i].refunded
        /\ r.released_amount = escrows[i].released_amount
        /\ r.lien_amount = escrows[i].lien_amount
    BY <1>2 DEF EscrowRecord
  <2> HIDE DEF r
  <2> QED BY <1>1, <1>2, <2>1 DEF SoundRecord, EscrowRecord, Settled
<1> HIDE DEF r
<1>5. valueLocked' \in Int
  BY <1>1 DEF IInv, EscrowsInv
<1>6. UNCHANGED <<disputeCount, claimantDisputes, openedAt, mediationBps, arbiter, resolverStats, frozen>>
  BY DEF disputeVars, poolVars, ownVars
<1>7. Step
  BY <1>1, <1>3, <1>4, <1>5, <1>6, ChangesLemma
<1>8. FundsInv'
  <2>1. funds \in [Address -> Nat] /\ c \in Address /\ Contract \in Address /\ x \in Int /\ x >= 0
    BY <1>1, <1>2 DEF IInv, FundsInv, Address
  <2>2. Moved(funds, c, Contract, x) \in [Address -> Nat]
    BY <1>1, <2>1, MovedLemma
  <2> QED BY <1>1, <2>2 DEF FundsInv
<1>9. SettingsInv'
  BY <1>1, <1>6 DEF IInv, SettingsInv
<1>10. ClaimsInv' /\ RecurringInv'
  BY <1>1, EscrowFrame, HostAssumption DEF IInv, Ledger
<1> QED
  BY <1>7, <1>8, <1>9, <1>10 DEF Kept

LEMMA TransferEscrowBeneficiaryKeeps ==
    ASSUME IInv, UNCHANGED <<disputeVars, poolVars>>, NEW c \in Account, NEW i \in EscrowId,
           NEW b \in Parties, TransferEscrowBeneficiary(c, i, b)
    PROVE  Kept
<1> DEFINE r == [escrows[i] EXCEPT !.beneficiary = b]
<1>1. /\ Exists(i) /\ now' = now
      /\ UNCHANGED <<funds, valueLocked, depositorEscrows, lastEscrowTime, fees, holderSet,
                     disputed, appealed>>
      /\ escrows' = [escrows EXCEPT ![i].beneficiary = b]
      /\ beneficiaryEscrows' =
            [[beneficiaryEscrows EXCEPT ![escrows[i].beneficiary] = Without(@, i)]
                EXCEPT ![b] = Append(@, i)]
  BY DEF TransferEscrowBeneficiary
<1>2. /\ i \in DOMAIN escrows /\ escrows[i] \in SoundRecord /\ escrows[i] \in EscrowRecord
      /\ b \in Address
  BY <1>1, RecordOf, PayEscrowAssumption DEF IInv
<1>3. escrows' = [escrows EXCEPT ![i] = r]
  BY <1>1, <1>2 DEF EscrowRecord
<1>4. /\ r \in SoundRecord /\ r.depositor = escrows[i].depositor
      /\ r.beneficiary = b /\ Due(r) = Due(escrows[i]) /\ Due(r) \in Int
      /\ r = [escrows[i] EXCEPT !.beneficiary = r.beneficiary]
  <2>1. /\ r \in EscrowRecord /\ r.depositor = escrows[i].depositor
        /\ r.beneficiary = b /\ r.amount = escrows[i].amount
        /\ r.released = escrows[i].released /\ r.refunded = escrows[i].refunded
        /\ r.released_amount = escrows[i].released_amount
        /\ r.lien_amount = escrows[i].lien_amount
        /\ r = [escrows[i] EXCEPT !.beneficiary = r.beneficiary]
    BY <1>2 DEF EscrowRecord
  <2> HIDE DEF r
  <2>2. Due(r) \in Int
    BY <2>1 DEF Due, EscrowRecord
  <2> QED BY <1>2, <2>1, <2>2 DEF SoundRecord, EscrowRecord, Due
<1> HIDE DEF r
<1>5. valueLocked' \in Int /\ valueLocked' - valueLocked = Due(r) - Due(escrows[i])
  BY <1>1, <1>4 DEF IInv, EscrowsInv
<1>6. UNCHANGED <<disputeCount, claimantDisputes, openedAt, mediationBps, arbiter, resolverStats, frozen>>
  BY DEF disputeVars, poolVars, ownVars
<1>7. openedAt \in [EscrowId -> Ledger \cup {NeverOpened}]
  BY DEF IInv, KeysInv
<1>8. Changes(i, r)
  BY <1>1, <1>3, <1>4, <1>5, <1>6, <1>7 DEF Changes
<1>9. Step
  BY <1>2, <1>4, <1>8 DEF Step
<1>10. FundsInv' /\ SettingsInv'
  BY <1>1, <1>6 DEF IInv, FundsInv, SettingsInv
<1>11. ClaimsInv' /\ RecurringInv'
  BY <1>1, EscrowFrame, HostAssumption DEF IInv, Ledger
<1> QED
  BY <1>9, <1>10, <1>11 DEF Kept

\* A step that leaves the escrows and their disputes alone.
LEMMA QuietLemma ==
    ASSUME IInv, now' \in Ledger, now' >= now,
           UNCHANGED <<escrows, valueLocked, depositorEscrows, beneficiaryEscrows,
                       disputed, appealed, openedAt, disputeCount, claimantDisputes>>
    PROVE  Step
BY DEF Step, Quiet

\* The fee is set, or a ledger closes.
LEMMA SettingKeeps ==
    ASSUME IInv, UNCHANGED <<disputeVars, poolVars>>,
           \/ \E c \in Account, f \in FeeChoices, t \in Parties : SetProtocolFee(c, f, t)
           \/ Tick
    PROVE  Kept
<1>1. UNCHANGED <<funds, escrows, valueLocked, depositorEscrows, beneficiaryEscrows,
                  lastEscrowTime, holderSet, disputed, appealed>>
  BY DEF SetProtocolFee, Tick, escrowVars
<1>2. UNCHANGED <<disputeCount, claimantDisputes, openedAt, mediationBps, arbiter, resolverStats, frozen>>
  BY DEF disputeVars, poolVars, ownVars
<1>3. now' \in Ledger /\ now' >= now
  <2>1. now' = now \/ (now < MaxLedger /\ now' = now + 1)
    BY DEF SetProtocolFee, Tick, LedgerCloses
  <2> QED BY <2>1, HostAssumption DEF IInv, Ledger
<1>4. fees' \in [fee_bps: Nat, treasury: Address, collected: Nat]
  <2>1. CASE \E c \in Account, f \in FeeChoices, t \in Parties : SetProtocolFee(c, f, t)
    BY <2>1, PayEscrowAssumption DEF SetProtocolFee, IInv, SettingsInv
  <2>2. CASE Tick
    BY <2>2 DEF Tick, escrowVars, IInv, SettingsInv
  <2> QED BY <2>1, <2>2
<1>5. Step
  BY <1>1, <1>2, <1>3, QuietLemma
<1>6. FundsInv' /\ SettingsInv'
  BY <1>1, <1>2, <1>4 DEF IInv, FundsInv, SettingsInv
<1>7. ClaimsInv' /\ RecurringInv'
  BY <1>3, EscrowFrame
<1> QED
  BY <1>5, <1>6, <1>7 DEF Kept

\* A new record.
LEMMA NewEscrowLemma ==
    ASSUME NEW d \in Account, NEW b \in Address, NEW x, x \in Nat, x > 0, NEW e \in Ledger
    PROVE  /\ NewEscrow(d, b, x, e) \in SoundRecord
           /\ NewEscrow(d, b, x, e).depositor = d /\ NewEscrow(d, b, x, e).beneficiary = b
           /\ ~NewEscrow(d, b, x, e).released /\ ~NewEscrow(d, b, x, e).refunded
           /\ Due(NewEscrow(d, b, x, e)) = x
BY DEF NewEscrow, SoundRecord, EscrowRecord, Due

LEMMA CreateEscrowKeeps ==
    ASSUME IInv, UNCHANGED <<disputeVars, poolVars>>, NEW d \in Depositors, NEW b \in Parties,
           NEW x \in Amounts, NEW e \in Ledger, CreateEscrow(d, b, x, e)
    PROVE  Kept
<1> DEFINE r == NewEscrow(d, b, x, e)
           n == Len(escrows) + 1
           new == <<r>>
<1>1. /\ Len(escrows) < MaxEscrows /\ x > 0 /\ now' = now
      /\ CanPay(funds, d, x) /\ funds' = Moved(funds, d, Contract, x)
      /\ escrows' = Append(escrows, r)
      /\ depositorEscrows' = [depositorEscrows EXCEPT ![d] = Append(@, Len(escrows'))]
      /\ beneficiaryEscrows' = [beneficiaryEscrows EXCEPT ![b] = Append(@, Len(escrows'))]
      /\ valueLocked' = valueLocked + x
      /\ lastEscrowTime' = [lastEscrowTime EXCEPT ![d] = now]
      /\ UNCHANGED <<fees, holderSet, disputed, appealed>>
  BY DEF CreateEscrow
<1>2. d \in Account /\ d \in Address /\ b \in Address /\ x \in Nat
  BY PayEscrowAssumption DEF Address
<1>3. /\ r \in SoundRecord /\ r.depositor = d /\ r.beneficiary = b
      /\ ~r.released /\ ~r.refunded /\ Due(r) = x
  <2>1. x > 0
    BY <1>1
  <2> QED BY <1>2, <2>1, NewEscrowLemma
<1> HIDE DEF r
<1>4. /\ escrows \in Seq(SoundRecord) /\ Len(escrows) \in Nat /\ Len(escrows') = n
      /\ escrows' = escrows \o new
  <2>1. escrows \in Seq(SoundRecord)
    BY DEF IInv, EscrowsInv
  <2> QED BY <1>1, <1>3, <2>1, AppendProperties, AppendIsConcat, LenProperties
<1>5. n \in EscrowId /\ n <= MaxEscrows
  BY <1>1, <1>4, PayEscrowAssumption DEF EscrowId
<1>6. /\ new \in Seq(SoundRecord) /\ DOMAIN new = {1} /\ new[1] = r
  BY <1>3
<1>7. SumFunctionOnSet([k \in DOMAIN new |-> Due(new[k])], DOMAIN new) = x
  <2> DEFINE f == [k \in {1} |-> Due(r)]
  <2>1. [k \in DOMAIN new |-> Due(new[k])] = f
    <3> HIDE DEF new
    <3> QED BY <1>6
  <2>2. f[1] = x /\ (\A k \in {1} : f[k] \in Int) /\ {1} \ {1} = {} /\ 1 \in {1}
    BY <1>2, <1>3
  <2>3. IsFiniteSet({1})
    BY FS_Singleton
  <2> HIDE DEF f, new
  <2>4. SumFunctionOnSet(f, {1}) = f[1] + SumFunctionOnSet(f, {1} \ {1})
    BY <2>2, <2>3, SumRemove
  <2>5. SumFunctionOnSet(f, {}) = 0
    BY SumEmpty
  <2>6. SumFunctionOnSet(f, {1}) = x
    BY <1>2, <2>2, <2>4, <2>5
  <2> QED BY <1>6, <2>1, <2>6
<1>8. depositorEscrows' = [depositorEscrows EXCEPT ![d] = @ \o [k \in DOMAIN new |-> Len(escrows) + k]]
  <2>1. depositorEscrows[d] \in Seq(EscrowId)
    BY <1>2 DEF IInv, EscrowsInv
  <2>2. Append(depositorEscrows[d], n) = depositorEscrows[d] \o <<n>>
    BY <1>5, <2>1, AppendIsConcat
  <2>3. <<n>> = [k \in DOMAIN new |-> Len(escrows) + k]
    BY <1>6
  <2> HIDE DEF n, new
  <2>4. depositorEscrows \in [Address -> Seq(EscrowId)]
    BY DEF IInv, EscrowsInv
  <2> QED BY <1>1, <1>2, <1>4, <2>2, <2>3, <2>4
<1>9. UNCHANGED <<disputeCount, claimantDisputes, openedAt, mediationBps, arbiter, resolverStats, frozen>>
  BY DEF disputeVars, poolVars, ownVars
<1>10. Grows(d, new)
  <2>1. beneficiaryEscrows' = [a \in Address |-> beneficiaryEscrows'[a]]
    BY <1>1 DEF IInv, EscrowsInv
  <2>2. ASSUME NEW a \in Address
        PROVE  \/ /\ \A k \in DOMAIN new : new[k].beneficiary # a
                  /\ beneficiaryEscrows'[a] = beneficiaryEscrows[a]
               \/ \E k \in DOMAIN new :
                     /\ new[k].beneficiary = a
                     /\ beneficiaryEscrows'[a] = Append(beneficiaryEscrows[a], Len(escrows) + k)
    <3> HIDE DEF new
    <3> QED BY <1>1, <1>2, <1>3, <1>4, <1>6 DEF IInv, EscrowsInv
  <2> HIDE DEF new
  <2> QED BY <1>1, <1>3, <1>4, <1>5, <1>6, <1>7, <1>8, <1>9, <2>1, <2>2 DEF Grows
<1>11. Step
  <2> HIDE DEF new
  <2> QED BY <1>2, <1>6, <1>10 DEF Step
<1>12. FundsInv'
  <2>1. funds \in [Address -> Nat] /\ Contract \in Address /\ x \in Int /\ x >= 0
    BY <1>2 DEF IInv, FundsInv, Address
  <2>2. Moved(funds, d, Contract, x) \in [Address -> Nat]
    BY <1>1, <1>2, <2>1, MovedLemma
  <2> QED BY <1>1, <2>2 DEF FundsInv
<1>13. SettingsInv'
  BY <1>1, <1>2, <1>9 DEF IInv, SettingsInv
<1>14. ClaimsInv' /\ RecurringInv'
  BY <1>1, EscrowFrame, HostAssumption DEF IInv, Ledger
<1> QED
  BY <1>11, <1>12, <1>13, <1>14 DEF Kept

\* The shares of split_to_escrow add up to the total: the last gets the rest.
LEMMA ShareSum ==
    ASSUME NEW r \in Seq([address: Address, share_bps: Nat]), Len(r) > 0, NEW total \in Int
    PROVE  /\ \A k \in DOMAIN r : ShareOf(r, total, k) \in Int
           /\ SumFunctionOnSet([k \in DOMAIN r |-> ShareOf(r, total, k)], DOMAIN r) = total
<1> DEFINE n == Len(r)
           S == 1 .. n - 1
           g == RoundedDown(r, total)
           f == [k \in DOMAIN r |-> ShareOf(r, total, k)]
<1>1. n \in Nat /\ n > 0 /\ DOMAIN r = 1 .. n /\ IsFiniteSet(DOMAIN r)
      /\ \A k \in DOMAIN r : r[k].share_bps \in Nat
  <2>1. /\ n \in Nat /\ n > 0 /\ DOMAIN r = 1 .. n /\ IsFiniteSet(DOMAIN r)
        /\ \A k \in DOMAIN r : r[k] \in [address: Address, share_bps: Nat]
    BY Positions
  <2> QED BY <2>1
<1>2. IsFiniteSet(S) /\ S = (DOMAIN r) \ {n} /\ n \in DOMAIN r /\ S \subseteq DOMAIN r
  BY <1>1, FS_Interval
<1>3. \A k \in S : g[k] \in Int
  <2> SUFFICES ASSUME NEW k \in S PROVE g[k] \in Int
    OBVIOUS
  <2>1. g[k] = FeeOn(total, r[k].share_bps)
    BY DEF RoundedDown, FeeOn
  <2>2. r[k].share_bps \in Nat
    BY <1>1, <1>2
  <2> QED BY <2>1, <2>2, FeeLemma
<1>4. /\ \A k \in S : k < n /\ f[k] = g[k]
      /\ f[n] = total - SumFunctionOnSet(g, S)
  BY <1>1, <1>2 DEF ShareOf
<1>5. SumFunctionOnSet(g, S) \in Int
  <2> HIDE DEF g, S
  <2> QED BY <1>2, <1>3, SumType
<1>6. \A k \in DOMAIN r : f[k] = ShareOf(r, total, k)
  OBVIOUS
<1> HIDE DEF f, g, S, n
<1>7. \A k \in DOMAIN r : f[k] \in Int
  BY <1>2, <1>3, <1>4, <1>5
<1>8. SumFunctionOnSet(f, DOMAIN r) = f[n] + SumFunctionOnSet(f, (DOMAIN r) \ {n})
  BY <1>1, <1>2, <1>7, SumRemove
<1>9. SumFunctionOnSet(f, S) = SumFunctionOnSet(g, S)
  BY <1>2, <1>4, SumSame
<1>10. SumFunctionOnSet(f, DOMAIN r) = total
  BY <1>2, <1>4, <1>5, <1>8, <1>9
<1> QED
  BY <1>6, <1>7, <1>10 DEF f

LEMMA SplitToEscrowKeeps ==
    ASSUME IInv, UNCHANGED <<disputeVars, poolVars>>, NEW d \in Depositors, NEW q \in SplitRequests,
           NEW e \in Ledger, SplitToEscrow(d, q.recipients, q.total, e)
    PROVE  Kept
<1> DEFINE r == q.recipients
           total == q.total
           own(b) == {k \in DOMAIN r : r[k].address = b}
           new == [k \in DOMAIN r |-> NewEscrow(d, r[k].address, ShareOf(r, total, k), e)]
<1>1. /\ Len(escrows) + Len(r) <= MaxEscrows /\ total > 0 /\ ValidShares(r) /\ now' = now
      /\ \A k \in DOMAIN r : ShareOf(r, total, k) > 0
      /\ CanPay(funds, d, total) /\ funds' = Moved(funds, d, Contract, total)
      /\ escrows' = escrows \o new
      /\ depositorEscrows' = [depositorEscrows EXCEPT ![d] = @ \o [k \in DOMAIN r |-> Len(escrows) + k]]
      /\ beneficiaryEscrows' = [b \in Address |->
             IF own(b) = {} THEN beneficiaryEscrows[b]
             ELSE Append(beneficiaryEscrows[b], Len(escrows) + Min(own(b)))]
      /\ valueLocked' = valueLocked + total
      /\ UNCHANGED <<lastEscrowTime, fees, holderSet, disputed, appealed>>
  BY DEF SplitToEscrow
<1>2. /\ d \in Account /\ d \in Address /\ total \in Int
      /\ r \in Seq([address: Address, share_bps: Nat])
  BY PayEscrowAssumption DEF Address
<1> HIDE DEF r, total
<1>3. /\ DOMAIN r = 1 .. Len(r) /\ Len(r) \in Nat
      /\ \A k \in DOMAIN r : r[k].address \in Address
  <2>1. /\ DOMAIN r = 1 .. Len(r) /\ Len(r) \in Nat
        /\ \A k \in DOMAIN r : r[k] \in [address: Address, share_bps: Nat]
    BY <1>2, Positions
  <2> QED BY <2>1
<1>4. Len(r) > 0
  <2> DEFINE f == [k \in DOMAIN r |-> r[k].share_bps]
  <2>1. SumFunctionOnSet(f, DOMAIN r) = 10000
    BY <1>1 DEF ValidShares, Bps
  <2>2. SumFunctionOnSet(f, {}) = 0
    BY SumEmpty
  <2> HIDE DEF f
  <2>3. DOMAIN r # {}
    BY <2>1, <2>2
  <2> QED BY <1>3, <2>3
<1>5. /\ \A k \in DOMAIN r : ShareOf(r, total, k) \in Int
      /\ SumFunctionOnSet([k \in DOMAIN r |-> ShareOf(r, total, k)], DOMAIN r) = total
  BY <1>2, <1>4, ShareSum
<1>6. ASSUME NEW k \in DOMAIN r
      PROVE  /\ new[k] \in SoundRecord /\ new[k].depositor = d /\ new[k].beneficiary = r[k].address
             /\ ~new[k].released /\ ~new[k].refunded /\ Due(new[k]) = ShareOf(r, total, k)
  <2> DEFINE a == r[k].address
             x == ShareOf(r, total, k)
  <2>1. a \in Address /\ x \in Nat /\ x > 0
    BY <1>1, <1>3, <1>5
  <2>2. new[k] = NewEscrow(d, a, x, e)
    OBVIOUS
  <2> HIDE DEF a, x, new
  <2>3. /\ new[k] \in SoundRecord /\ new[k].depositor = d /\ new[k].beneficiary = a
        /\ ~new[k].released /\ ~new[k].refunded /\ Due(new[k]) = x
    BY <1>2, <2>1, <2>2, NewEscrowLemma
  <2> QED BY <2>3 DEF a, x
<1>7. new \in Seq(SoundRecord) /\ DOMAIN new = DOMAIN r /\ Len(new) = Len(r)
  <2>1. new = [k \in 1 .. Len(r) |-> new[k]] /\ DOMAIN new = DOMAIN r
    BY <1>3
  <2> HIDE DEF new
  <2>2. \A k \in 1 .. Len(r) : new[k] \in SoundRecord
    BY <1>3, <1>6
  <2>3. [k \in 1 .. Len(r) |-> new[k]] \in Seq(SoundRecord)
    BY <1>3, <2>2, IsASeq
  <2>4. new \in Seq(SoundRecord)
    BY <2>1, <2>3
  <2>5. DOMAIN new = 1 .. Len(new) /\ Len(new) \in Nat
    BY <2>4, Positions
  <2> QED BY <1>3, <2>1, <2>4, <2>5
<1> HIDE DEF new
<1>8. /\ escrows \in Seq(SoundRecord) /\ Len(escrows) \in Nat
      /\ Len(escrows') = Len(escrows) + Len(r)
  <2>1. escrows \in Seq(SoundRecord)
    BY DEF IInv, EscrowsInv
  <2>2. Len(escrows \o new) = Len(escrows) + Len(new) /\ Len(escrows) \in Nat
    BY <1>7, <2>1, RecordsAppend
  <2>3. escrows' = escrows \o new
    BY <1>1
  <2> QED BY <1>7, <2>1, <2>2, <2>3
<1>9. SumFunctionOnSet([k \in DOMAIN new |-> Due(new[k])], DOMAIN new) = total
  <2>1. [k \in DOMAIN new |-> Due(new[k])] = [k \in DOMAIN r |-> ShareOf(r, total, k)]
    BY <1>6, <1>7
  <2> QED BY <1>5, <1>7, <2>1
<1>10. UNCHANGED <<disputeCount, claimantDisputes, openedAt, mediationBps, arbiter, resolverStats, frozen>>
  BY DEF disputeVars, poolVars, ownVars
<1>11. \A j, k \in DOMAIN r : r[j].address = r[k].address => j = k
  BY <1>1 DEF ValidShares
<1>12. ASSUME NEW b \in Address
       PROVE  \/ /\ \A k \in DOMAIN new : new[k].beneficiary # b
                 /\ beneficiaryEscrows'[b] = beneficiaryEscrows[b]
              \/ \E k \in DOMAIN new :
                    /\ new[k].beneficiary = b
                    /\ beneficiaryEscrows'[b] = Append(beneficiaryEscrows[b], Len(escrows) + k)
  <2>1. CASE own(b) = {}
    BY <1>1, <1>6, <1>7, <2>1
  <2>2. CASE own(b) # {}
    <3>1. PICK k \in DOMAIN r : r[k].address = b
      BY <2>2
    <3>2. own(b) = {k, k} /\ k \in Int
      BY <1>3, <1>11, <3>1
    <3> HIDE DEF own
    <3>3. Min({k, k}) = k
      BY <3>2, MinLemma
    <3>4. beneficiaryEscrows'[b] = Append(beneficiaryEscrows[b], Len(escrows) + Min(own(b)))
      BY <1>1, <2>2
    <3>5. beneficiaryEscrows'[b] = Append(beneficiaryEscrows[b], Len(escrows) + k)
      BY <3>2, <3>3, <3>4
    <3> QED BY <1>6, <1>7, <3>1, <3>5
  <2> QED BY <2>1, <2>2
<1>13. Grows(d, new)
  <2>1. beneficiaryEscrows' = [a \in Address |-> beneficiaryEscrows'[a]]
    BY <1>1
  <2>2. \A k \in DOMAIN new : new[k].depositor = d /\ ~new[k].released /\ ~new[k].refunded
    BY <1>6, <1>7
  <2>3. \A j, k \in DOMAIN new : new[j].beneficiary = new[k].beneficiary => j = k
    BY <1>6, <1>7, <1>11
  <2>4. depositorEscrows' = [depositorEscrows EXCEPT ![d] = @ \o [k \in DOMAIN new |-> Len(escrows) + k]]
    BY <1>1, <1>7
  <2>5. Len(escrows') <= MaxEscrows
    BY <1>1, <1>8
  <2>6. valueLocked' = valueLocked + SumFunctionOnSet([k \in DOMAIN new |-> Due(new[k])], DOMAIN new)
    BY <1>1, <1>9
  <2> QED BY <1>1, <1>10, <1>12, <2>1, <2>2, <2>3, <2>4, <2>5, <2>6 DEF Grows
<1>14. Step
  BY <1>2, <1>7, <1>13 DEF Step
<1>15. FundsInv'
  <2>1. funds \in [Address -> Nat] /\ Contract \in Address /\ total >= 0
    BY <1>1, <1>2 DEF IInv, FundsInv, Address
  <2>2. Moved(funds, d, Contract, total) \in [Address -> Nat]
    BY <1>1, <1>2, <2>1, MovedLemma
  <2> QED BY <1>1, <2>2 DEF FundsInv
<1>16. SettingsInv'
  BY <1>1, <1>10 DEF IInv, SettingsInv
<1>17. ClaimsInv' /\ RecurringInv'
  BY <1>1, EscrowFrame, HostAssumption DEF IInv, Ledger
<1> QED
  BY <1>14, <1>15, <1>16, <1>17 DEF Kept

\* Every operation on escrows.
LEMMA EscrowNextKeeps ==
    ASSUME IInv, EscrowNext, UNCHANGED <<disputeVars, poolVars>>
    PROVE  Kept
<1>1. ASSUME NEW c \in Depositors, NEW b \in Parties, NEW x \in Amounts, NEW e \in Ledger,
             CreateEscrow(c, b, x, e)
      PROVE  Kept
  BY <1>1, CreateEscrowKeeps
<1>2. ASSUME NEW c \in Depositors, NEW q \in SplitRequests, NEW e \in Ledger,
             SplitToEscrow(c, q.recipients, q.total, e)
      PROVE  Kept
  BY <1>2, SplitToEscrowKeeps
<1>3. ASSUME NEW c \in Account, NEW i \in EscrowId, ReleaseEscrow(c, i) PROVE Kept
  BY <1>3, ReleaseEscrowKeeps
<1>4. ASSUME NEW c \in Account, NEW i \in EscrowId, NEW x \in Amounts, ReleasePartialEscrow(c, i, x)
      PROVE  Kept
  BY <1>4, ReleasePartialEscrowKeeps
<1>5. ASSUME NEW c \in Account, NEW i \in EscrowId, RefundEscrow(c, i) PROVE Kept
  BY <1>5, RefundEscrowKeeps
<1>6. ASSUME NEW c \in Account, NEW i \in EscrowId, NEW w \in Address, AdminSettleEscrow(c, i, w)
      PROVE  Kept
  BY <1>6, AdminSettleEscrowKeeps
<1>7. ASSUME NEW c \in Creditors, NEW i \in EscrowId, NEW x \in Amounts, PlaceLien(c, i, x) PROVE Kept
  BY <1>7, LienKeeps, PayEscrowAssumption
<1>8. ASSUME NEW c \in Account, NEW i \in EscrowId, ClearLien(c, i) PROVE Kept
  BY <1>8, LienKeeps
<1>9. ASSUME NEW c \in Account, NEW i \in EscrowId, NEW x \in Amounts, TopupEscrow(c, i, x) PROVE Kept
  BY <1>9, TopupEscrowKeeps
<1>10. ASSUME NEW c \in Account, NEW i \in EscrowId, NEW b \in Parties,
              TransferEscrowBeneficiary(c, i, b)
       PROVE  Kept
  BY <1>10, TransferEscrowBeneficiaryKeeps
<1>11. ASSUME (\E c \in Account, f \in FeeChoices, t \in Parties : SetProtocolFee(c, f, t)) \/ Tick
       PROVE  Kept
  BY <1>11, SettingKeeps
<1> QED
  BY <1>1, <1>2, <1>3, <1>4, <1>5, <1>6, <1>7, <1>8, <1>9, <1>10, <1>11 DEF EscrowNext

-----------------------------------------------------------------------------
(***************************************************************************)
(* Disputes.                                                               *)
(***************************************************************************)

\* The arbiter's ruling, whatever is done with the appeal.
LEMMA SettleByArbiterKeeps ==
    ASSUME IInv, UNCHANGED poolVars, NEW c \in Account, NEW i \in EscrowId, NEW winner \in Address,
           NEW bps \in Nat, SettleByArbiter(c, i, winner, bps), appealed' \in {appealed, appealed \ {i}},
           openedAt' \in {openedAt, [openedAt EXCEPT ![i] = NeverOpened]}
    PROVE  Kept
<1> DEFINE won == winner = escrows[i].beneficiary
           r == IF won THEN [escrows[i] EXCEPT !.released = TRUE, !.released_amount = escrows[i].amount]
                ELSE [escrows[i] EXCEPT !.refunded = TRUE]
           due == IF won THEN escrows[i].amount ELSE Remaining(i)
           fee == FeeOn(due, bps)
           first == Disburse(Purse, c, fee)
           last == Disburse(first, winner, due - fee)
<1>1. /\ Active(i) /\ Exists(i) /\ ~Settled(i) /\ now' = now /\ Paid(last)
      /\ MarkOutcome(i, won) /\ UpdateResolverStats(c, won) /\ disputed' = disputed \ {i}
      /\ UNCHANGED <<valueLocked, depositorEscrows, beneficiaryEscrows, lastEscrowTime, fees, holderSet,
                     arbiter, disputeCount, claimantDisputes, mediationBps>>
  BY DEF SettleByArbiter, PayWinner, Active
<1>2. /\ i \in DOMAIN escrows /\ escrows[i] \in SoundRecord /\ escrows[i] \in EscrowRecord
      /\ Remaining(i) \in Nat
  BY <1>1, RecordOf DEF IInv
<1>3. escrows' = [escrows EXCEPT ![i] = r]
  BY <1>1, <1>2 DEF MarkOutcome, EscrowRecord
<1>4. won \in BOOLEAN
  OBVIOUS
<1>5. due \in Nat
  BY <1>2 DEF EscrowRecord
<1> HIDE DEF won, due
<1>6. /\ r \in SoundRecord /\ r.depositor = escrows[i].depositor
      /\ r.beneficiary = escrows[i].beneficiary /\ (r.released \/ r.refunded)
  <2>1. /\ r \in EscrowRecord /\ r.depositor = escrows[i].depositor
        /\ r.beneficiary = escrows[i].beneficiary /\ r.amount = escrows[i].amount
        /\ r.released = (won \/ escrows[i].released) /\ r.refunded = (~won \/ escrows[i].refunded)
        /\ r.released_amount = IF won THEN escrows[i].amount ELSE escrows[i].released_amount
        /\ r.lien_amount = escrows[i].lien_amount
    <3>1. CASE won
      BY <1>1, <1>2, <3>1 DEF EscrowRecord, Settled
    <3>2. CASE ~won
      BY <1>1, <1>2, <3>2 DEF EscrowRecord, Settled
    <3> QED BY <3>1, <3>2
  <2> HIDE DEF r
  <2> QED BY <1>1, <1>2, <1>4, <2>1 DEF SoundRecord, EscrowRecord, Settled
<1> HIDE DEF r
<1>7. /\ resolverStats' \in [Account -> [for_beneficiary: Nat, for_depositor: Nat]]
      /\ resolverStats' # resolverStats
  <2>1. resolverStats \in [Account -> [for_beneficiary: Nat, for_depositor: Nat]]
    BY DEF IInv, SettingsInv
  <2> DEFINE s == resolverStats[c]
             t == [s EXCEPT !.for_beneficiary = @ + 1]
             u == [s EXCEPT !.for_depositor = @ + 1]
  <2>2. s \in [for_beneficiary: Nat, for_depositor: Nat]
    BY <2>1
  <2>3. /\ t \in [for_beneficiary: Nat, for_depositor: Nat] /\ t # s
        /\ u \in [for_beneficiary: Nat, for_depositor: Nat] /\ u # s
    <3>1. t.for_beneficiary = s.for_beneficiary + 1 /\ u.for_depositor = s.for_depositor + 1
      BY <2>2
    <3> QED BY <2>2, <3>1
  <2>4. resolverStats' \in {[resolverStats EXCEPT ![c] = t], [resolverStats EXCEPT ![c] = u]}
    BY <1>1, <2>1 DEF UpdateResolverStats
  <2> HIDE DEF t, u
  <2>5. /\ [resolverStats EXCEPT ![c] = t] \in [Account -> [for_beneficiary: Nat, for_depositor: Nat]]
        /\ [resolverStats EXCEPT ![c] = u] \in [Account -> [for_beneficiary: Nat, for_depositor: Nat]]
        /\ [resolverStats EXCEPT ![c] = t][c] = t
        /\ [resolverStats EXCEPT ![c] = u][c] = u
    BY <2>1, <2>3
  <2> QED BY <2>3, <2>4, <2>5
<1>8. valueLocked' \in Int
  BY <1>1 DEF IInv, EscrowsInv
<1>9. Step
  BY <1>1, <1>3, <1>6, <1>7, <1>8, ChangesLemma
<1>10. FundsInv'
  <2>1. Purse \in Purses /\ c \in Address
    BY PurseLemma DEF IInv, Address
  <2>2. fee \in Int
    BY <1>5, FeeLemma
  <2> HIDE DEF fee
  <2>3. first \in Purses /\ due - fee \in Int
    BY <1>5, <2>1, <2>2, DisburseLemma
  <2> HIDE DEF first
  <2>4. last \in Purses
    BY <2>3, DisburseLemma
  <2> QED BY <1>1, <2>4, PaidLemma
<1>11. SettingsInv'
  <2>1. frozen' = frozen
    BY DEF poolVars, ownVars
  <2> QED BY <1>1, <1>7, <2>1 DEF IInv, SettingsInv
<1>12. ClaimsInv' /\ RecurringInv'
  <2>1. UNCHANGED <<splits, multiEscrows, vestings, recurrings, payerRecurrings>>
    BY DEF poolVars, splitVars, recurringVars, ownVars
  <2> QED BY <1>1, <2>1 DEF IInv, ClaimsInv, RecurringInv
<1> QED
  BY <1>9, <1>10, <1>11, <1>12 DEF Kept

\* What the other operations leave alone.
LEMMA DisputeFrame ==
    ASSUME IInv, UNCHANGED poolVars, now' = now,
           UNCHANGED <<funds, lastEscrowTime, fees, holderSet, resolverStats>>,
           mediationBps' \in Nat, arbiter' \in Account \cup {NoArbiter}
    PROVE  FundsInv' /\ SettingsInv' /\ ClaimsInv' /\ RecurringInv'
<1>1. UNCHANGED <<splits, multiEscrows, vestings, recurrings, payerRecurrings, frozen>>
  BY DEF poolVars, splitVars, recurringVars, ownVars
<1> QED
  BY <1>1 DEF IInv, FundsInv, SettingsInv, ClaimsInv, RecurringInv

\* A dispute that expires loses its keys, and its escrow stays as it is.
LEMMA ExpireDisputeKeeps ==
    ASSUME IInv, NEW c \in Account, NEW i \in EscrowId, ExpireDispute(c, i)
    PROVE  Step
<1> DEFINE r == escrows[i]
<1>1. /\ Exists(i) /\ now' = now /\ disputed' = disputed \ {i} /\ appealed' = appealed \ {i}
      /\ openedAt' = [openedAt EXCEPT ![i] = NeverOpened]
      /\ UNCHANGED <<escrows, valueLocked, depositorEscrows, beneficiaryEscrows, disputeCount,
                     claimantDisputes>>
  BY DEF ExpireDispute, Active
<1>2. /\ i \in DOMAIN escrows /\ r \in SoundRecord /\ r \in EscrowRecord
      /\ DOMAIN escrows \subseteq EscrowId
  BY <1>1, RecordOf, LenProperties DEF IInv, EscrowsInv, Exists
<1>3. openedAt \in [EscrowId -> Ledger \cup {NeverOpened}] /\ disputed \subseteq EscrowId
  BY <1>2 DEF IInv, KeysInv
<1>4. openedAt' \in [EscrowId -> Ledger \cup {NeverOpened}] /\ \A j \in disputed' : openedAt'[j] = openedAt[j]
  BY <1>1, <1>3
<1>5. escrows' = [escrows EXCEPT ![i] = r] /\ r = [escrows[i] EXCEPT !.beneficiary = r.beneficiary]
  <2>1. escrows \in Seq(SoundRecord)
    BY DEF IInv, EscrowsInv
  <2> QED BY <1>1, <1>2, <2>1 DEF EscrowRecord
<1>6. valueLocked' \in Int /\ valueLocked' - valueLocked = Due(r) - Due(escrows[i])
  <2>1. Due(r) \in Int
    BY <1>2 DEF Due, EscrowRecord
  <2> QED BY <1>1, <2>1 DEF IInv, EscrowsInv
<1>7. Changes(i, r)
  BY <1>1, <1>4, <1>5, <1>6 DEF Changes
<1> QED
  BY <1>2, <1>7 DEF Step

\* Every operation on disputes.
LEMMA DisputeNextKeeps ==
    ASSUME IInv, DisputeNext, UNCHANGED poolVars
    PROVE  Kept
<1>0. mediationBps \in Nat /\ arbiter \in Account \cup {NoArbiter} /\ now \in Ledger /\ now >= now
  BY HostAssumption DEF IInv, SettingsInv, Ledger
<1>1. ASSUME (\E a \in Arbiters : SetArbiter(a)) \/ (\E c \in Account, f \in FeeChoices : SetMediationFee(c, f))
      PROVE  Kept
  <2>1. /\ now' = now /\ UNCHANGED <<resolverStats, openedAt, disputeCount, claimantDisputes>>
        /\ UNCHANGED <<funds, escrows, valueLocked, depositorEscrows, beneficiaryEscrows,
                       lastEscrowTime, fees, holderSet, disputed, appealed>>
    BY <1>1 DEF SetArbiter, SetMediationFee, escrowVars
  <2>2. mediationBps' \in Nat /\ arbiter' \in Account \cup {NoArbiter}
    BY <1>0, <1>1, PayDisputeAssumption, PayEscrowAssumption DEF SetArbiter, SetMediationFee
  <2>3. Step
    BY <1>0, <2>1, QuietLemma
  <2> QED BY <2>1, <2>2, <2>3, DisputeFrame DEF Kept
<1>2. ASSUME NEW c \in Account, NEW i \in EscrowId,
             RaiseDispute(c, i) \/ AppealDispute(c, i) \/ ExpireDispute(c, i)
      PROVE  Kept
  <2>1. /\ now' = now /\ UNCHANGED <<resolverStats, mediationBps, arbiter>>
        /\ UNCHANGED <<funds, lastEscrowTime, fees, holderSet>>
    BY <1>2 DEF RaiseDispute, AppealDispute, ExpireDispute, disputeVars
  <2>2. Step
    BY <1>2, ExpireDisputeKeeps DEF Step
  <2> QED BY <1>0, <2>1, <2>2, DisputeFrame DEF Kept
<1>3. ASSUME NEW c \in Account, NEW i \in EscrowId, NEW w \in Address,
             ResolveDispute(c, i, w) \/ ResolveAppeal(c, i, w)
      PROVE  Kept
  <2>1. CASE ResolveDispute(c, i, w)
    BY <1>0, <2>1, SettleByArbiterKeeps DEF ResolveDispute
  <2>2. CASE ResolveAppeal(c, i, w)
    BY <2>2, SettleByArbiterKeeps DEF ResolveAppeal
  <2> QED BY <1>3, <2>1, <2>2
<1> QED
  BY <1>1, <1>2, <1>3 DEF DisputeNext

-----------------------------------------------------------------------------
(***************************************************************************)
(* Splits.                                                                 *)
(***************************************************************************)

\* What the operations that only move money leave alone.
LEMMA PoolFrame ==
    ASSUME IInv, now' = now, UNCHANGED disputeVars,
           UNCHANGED <<escrows, valueLocked, depositorEscrows, beneficiaryEscrows, lastEscrowTime,
                       fees, holderSet, disputed, appealed>>,
           FundsInv', ClaimsInv', RecurringInv', frozen' \subseteq Account
    PROVE  Kept
<1>1. now \in Ledger /\ now >= now
  BY HostAssumption DEF IInv, Ledger
<1>2. UNCHANGED <<arbiter, openedAt, disputeCount, claimantDisputes, mediationBps, resolverStats>>
  BY DEF disputeVars
<1>3. Step
  BY <1>1, <1>2, QuietLemma
<1>4. SettingsInv'
  BY <1>2 DEF IInv, SettingsInv
<1> QED
  BY <1>3, <1>4 DEF Kept

\* The same for recurring payments, where they are not concerned.
LEMMA RecurringFrame ==
    ASSUME IInv, now' = now, UNCHANGED recurringVars
    PROVE  RecurringInv'
BY DEF IInv, RecurringInv, recurringVars

\* Every non-empty set of positions has a first.
LEMMA FirstPosition ==
    ASSUME NEW n \in Nat, NEW S \in SUBSET (1 .. n), S # {}
    PROVE  Min(S) \in S /\ \A y \in S : Min(S) <= y
<1>1. \E x \in S : \A y \in S : x <= y
  <2> DEFINE D == {n - y : y \in S}
  <2>1. \A y \in S : n - y \in 0 .. n /\ n - y \in D
    OBVIOUS
  <2>2. \A d \in D : \E y \in S : d = n - y
    OBVIOUS
  <2> HIDE DEF D
  <2>3. D \subseteq 0 .. n /\ D # {}
    BY <2>1, <2>2
  <2>4. Pays!IsFiniteSet(D) /\ \A d \in D : d \in Int
    <3>1. IsFiniteSet(0 .. n)
      BY FS_Interval
    <3>2. IsFiniteSet(D)
      BY <2>3, <3>1, FS_Subset
    <3> QED BY <2>3, <3>2 DEF IsFiniteSet, Pays!IsFiniteSet
  <2>5. PICK d \in D : \A e \in D : d >= e
    BY <2>3, <2>4, Pays!LargestElement
  <2>6. PICK x \in S : d = n - x
    BY <2>2
  <2>7. \A y \in S : n - x >= n - y
    BY <2>1, <2>5, <2>6
  <2> QED BY <2>7
<1> QED
  BY <1>1 DEF Min

\* What a split is paid with.
LEMMA SplitPaymentsLemma ==
    ASSUME FundsInv, NEW s \in SplitRecord
    PROVE  SplitPayments(s) \in Purses
<1> DEFINE r == s.recipients
           share == [k \in DOMAIN r |-> (s.total_amount * r[k].share_bps) \div Bps]
           parts == [k \in DOMAIN r |-> [address |-> r[k].address, share |-> share[k]]]
           dust == s.total_amount - SumFunctionOnSet(share, DOMAIN r)
           all == DisburseAll(Purse, parts)
<1>1. s.total_amount \in Int /\ r \in Seq([address: Address, share_bps: Nat]) /\ r # <<>>
  BY DEF SplitRecord
<1>2. SplitPayments(s) = Disburse(all, r[1].address, dust)
  BY DEF SplitPayments
<1> HIDE DEF r
<1>3. /\ IsFiniteSet(DOMAIN r) /\ DOMAIN r = 1 .. Len(r) /\ Len(r) \in Nat /\ Len(r) # 0
      /\ \A k \in DOMAIN r : r[k].address \in Address /\ r[k].share_bps \in Nat
  <2>1. /\ IsFiniteSet(DOMAIN r) /\ DOMAIN r = 1 .. Len(r) /\ Len(r) \in Nat
        /\ \A k \in DOMAIN r : r[k] \in [address: Address, share_bps: Nat]
    BY <1>1, Positions
  <2>2. Len(r) # 0
    BY <1>1, EmptySeq
  <2> QED BY <2>1, <2>2
<1>4. \A k \in DOMAIN r : share[k] \in Int
  <2> SUFFICES ASSUME NEW k \in DOMAIN r PROVE share[k] \in Int
    OBVIOUS
  <2>1. share[k] = FeeOn(s.total_amount, r[k].share_bps)
    BY DEF FeeOn
  <2>2. r[k].share_bps \in Nat
    BY <1>3
  <2> QED BY <1>1, <2>1, <2>2, FeeLemma
<1> HIDE DEF share
<1>5. parts \in Seq(Parts)
  <2>1. \A k \in 1 .. Len(r) : [address |-> r[k].address, share |-> share[k]] \in Parts
    BY <1>3, <1>4 DEF Parts
  <2>2. [k \in 1 .. Len(r) |-> [address |-> r[k].address, share |-> share[k]]] \in Seq(Parts)
    BY <1>3, <2>1, IsASeq
  <2> QED BY <1>3, <2>2
<1> HIDE DEF parts
<1>6. dust \in Int
  <2>1. SumFunctionOnSet(share, DOMAIN r) \in Int
    BY <1>3, <1>4, SumType
  <2> QED BY <1>1, <2>1
<1> HIDE DEF dust
<1>7. all \in Purses
  BY <1>5, PurseLemma, DisburseAllLemma
<1> HIDE DEF all
<1>8. r[1].address \in Address
  BY <1>3
<1> QED
  BY <1>2, <1>6, <1>7, <1>8, DisburseLemma

\* A split that is distributed, cancelled or handed to a new recipient.
LEMMA SplitChanges ==
    ASSUME IInv, NEW s, s \in DOMAIN splits
    PROVE  /\ splits[s] \in SplitRecord
           /\ [splits EXCEPT ![s].distributed = TRUE] \in Seq(SplitRecord)
           /\ [splits EXCEPT ![s].cancelled = TRUE] \in Seq(SplitRecord)
           /\ \A k \in DOMAIN splits[s].recipients, b \in Address :
                 [splits EXCEPT ![s].recipients[k].address = b] \in Seq(SplitRecord)
<1>1. splits \in Seq(SplitRecord) /\ s \in 1 .. Len(splits) /\ splits[s] \in SplitRecord
  BY Positions DEF IInv, ClaimsInv
<1>2. /\ [splits[s] EXCEPT !.distributed = TRUE] \in SplitRecord
      /\ [splits[s] EXCEPT !.cancelled = TRUE] \in SplitRecord
  BY <1>1 DEF SplitRecord
<1>3. ASSUME NEW k \in DOMAIN splits[s].recipients, NEW b \in Address
      PROVE  [splits[s] EXCEPT !.recipients[k].address = b] \in SplitRecord
  <2> DEFINE r == splits[s].recipients
             e == [r[k] EXCEPT !.address = b]
  <2>1. r \in Seq([address: Address, share_bps: Nat]) /\ r # <<>>
    BY <1>1 DEF SplitRecord
  <2>2. k \in 1 .. Len(r) /\ r[k] \in [address: Address, share_bps: Nat] /\ Len(r) # 0
    BY <1>3, <2>1, Positions, EmptySeq
  <2>3. e \in [address: Address, share_bps: Nat]
    BY <2>2
  <2> HIDE DEF e
  <2>4. /\ [r EXCEPT ![k] = e] \in Seq([address: Address, share_bps: Nat])
        /\ Len([r EXCEPT ![k] = e]) = Len(r)
    BY <2>1, <2>2, <2>3, RecordUpdate
  <2>5. [r EXCEPT ![k] = e] # <<>>
    BY <2>2, <2>4
  <2>6. [splits[s] EXCEPT !.recipients[k].address = b] = [splits[s] EXCEPT !.recipients = [r EXCEPT ![k] = e]]
    BY <1>1 DEF SplitRecord, e
  <2> HIDE DEF r
  <2> QED BY <1>1, <2>4, <2>5, <2>6 DEF SplitRecord
<1>4. \A t \in SplitRecord : [splits EXCEPT ![s] = t] \in Seq(SplitRecord)
  BY <1>1, RecordUpdate
<1> QED
  BY <1>1, <1>2, <1>3, <1>4

LEMMA SplitNextKeeps ==
    ASSUME IInv, SplitNext, UNCHANGED <<disputeVars, recurringVars, ownVars>>
    PROVE  Kept
<1>0. /\ splits \in Seq(SplitRecord) /\ multiEscrows \in Seq(MultiRecord) /\ vestings \in Seq(VestingRecord)
      /\ funds \in [Address -> Nat] /\ frozen \subseteq Account
  BY DEF IInv, ClaimsInv, FundsInv, SettingsInv
<1>1. /\ now' = now
      /\ UNCHANGED <<escrows, valueLocked, depositorEscrows, beneficiaryEscrows, lastEscrowTime,
                     fees, holderSet, disputed, appealed>>
  BY DEF SplitNext, SetPaused, CreateSplit, DistributeSplit, CancelSplit, ReplaceSplitRecipient,
         fundsAside, escrowVars
<1>2. UNCHANGED <<multiEscrows, vestings, frozen>>
  BY DEF ownVars
<1>3. ASSUME FundsInv', splits' \in Seq(SplitRecord) PROVE Kept
  <2>1. ClaimsInv'
    BY <1>0, <1>2, <1>3 DEF ClaimsInv
  <2>2. RecurringInv'
    BY <1>1, RecurringFrame
  <2>3. frozen' \subseteq Account
    BY <1>0, <1>2
  <2> QED BY <1>1, <1>3, <2>1, <2>2, <2>3, PoolFrame
<1>4. ASSUME NEW c \in Account, NEW b \in PauseChoices, SetPaused(c, b) PROVE Kept
  <2>1. FundsInv' /\ splits' \in Seq(SplitRecord)
    BY <1>0, <1>4 DEF SetPaused, escrowVars, FundsInv
  <2> QED BY <1>3, <2>1
<1>5. ASSUME NEW c \in Depositors, NEW r \in SplitLists, NEW x \in Amounts, NEW e \in Ledger,
             CreateSplit(c, r, x, e)
      PROVE  Kept
  <2> DEFINE s == [sender |-> c, recipients |-> r, total_amount |-> x,
                   distributed |-> FALSE, cancelled |-> FALSE]
  <2>1. /\ CanPay(funds, c, x) /\ funds' = Moved(funds, c, Contract, x)
        /\ splits' = Append(splits, s) /\ r # <<>>
    BY <1>5 DEF CreateSplit
  <2>2. /\ c \in Account /\ c \in Address /\ Contract \in Address /\ x \in Nat /\ x \in Int /\ x >= 0
        /\ r \in Seq([address: Address, share_bps: Nat])
    <3>1. c \in Account /\ x \in Nat
      BY PayEscrowAssumption
    <3>2. r \in Seq([address: Address, share_bps: Nat])
      BY PaySplitterAssumption
    <3> QED BY <3>1, <3>2 DEF Address
  <2>3. s \in SplitRecord
    BY <2>1, <2>2 DEF SplitRecord
  <2> HIDE DEF s
  <2>4. splits' \in Seq(SplitRecord)
    BY <1>0, <2>1, <2>3, AppendProperties
  <2>5. Moved(funds, c, Contract, x) \in [Address -> Nat]
    BY <1>0, <2>1, <2>2, MovedLemma
  <2> QED BY <1>3, <2>1, <2>4, <2>5 DEF FundsInv
<1>6. ASSUME NEW c \in Account, NEW s \in SplitId, DistributeSplit(c, s) PROVE Kept
  <2>1. /\ s \in DOMAIN splits /\ Paid(SplitPayments(splits[s]))
        /\ splits' = [splits EXCEPT ![s].distributed = TRUE]
    BY <1>6 DEF DistributeSplit, OpenSplit
  <2>2. splits[s] \in SplitRecord /\ splits' \in Seq(SplitRecord)
    BY <2>1, SplitChanges
  <2>3. SplitPayments(splits[s]) \in Purses
    BY <2>2, SplitPaymentsLemma DEF IInv
  <2> QED BY <1>3, <2>1, <2>2, <2>3, PaidLemma
<1>7. ASSUME NEW c \in Account, NEW s \in SplitId, CancelSplit(c, s) PROVE Kept
  <2>1. /\ s \in DOMAIN splits /\ Paid(Disburse(Purse, splits[s].sender, splits[s].total_amount))
        /\ splits' = [splits EXCEPT ![s].cancelled = TRUE]
    BY <1>7 DEF CancelSplit, OpenSplit
  <2>2. splits[s] \in SplitRecord /\ splits' \in Seq(SplitRecord)
    BY <2>1, SplitChanges
  <2>3. splits[s].sender \in Address /\ splits[s].total_amount \in Int /\ Purse \in Purses
    BY <2>2, PurseLemma DEF SplitRecord, Address, IInv
  <2>4. Disburse(Purse, splits[s].sender, splits[s].total_amount) \in Purses
    BY <2>3, DisburseLemma
  <2> QED BY <1>3, <2>1, <2>2, <2>4, PaidLemma
<1>8. ASSUME NEW c \in Account, NEW s \in SplitId, NEW old \in Address, NEW new \in Parties,
             ReplaceSplitRecipient(c, s, old, new)
      PROVE  Kept
  <2> DEFINE r == splits[s].recipients
             at == {k \in DOMAIN r : r[k].address = old}
  <2>1. /\ s \in DOMAIN splits /\ at # {} /\ funds' = funds
        /\ splits' = [splits EXCEPT ![s].recipients[Min(at)].address = new]
    BY <1>8 DEF ReplaceSplitRecipient, OpenSplit, escrowVars
  <2>2. /\ r \in Seq([address: Address, share_bps: Nat])
        /\ \A k \in DOMAIN r, b \in Address :
              [splits EXCEPT ![s].recipients[k].address = b] \in Seq(SplitRecord)
    BY <2>1, SplitChanges DEF SplitRecord
  <2>3. DOMAIN r = 1 .. Len(r) /\ Len(r) \in Nat /\ at \in SUBSET (1 .. Len(r))
    BY <2>2, Positions
  <2>4. Min(at) \in DOMAIN r
    <3> HIDE DEF at, r
    <3> QED BY <2>1, <2>3, FirstPosition
  <2>5. new \in Address
    BY PayEscrowAssumption
  <2> HIDE DEF at
  <2>6. splits' \in Seq(SplitRecord)
    BY <2>1, <2>2, <2>4, <2>5
  <2>7. FundsInv'
    BY <1>0, <2>1 DEF FundsInv
  <2> QED BY <1>3, <2>6, <2>7
<1> QED
  BY <1>4, <1>5, <1>6, <1>7, <1>8 DEF SplitNext

-----------------------------------------------------------------------------
(***************************************************************************)
(* Recurring payments.                                                     *)
(***************************************************************************)

\* A record that is written back.
LEMMA RecurringUpdate ==
    ASSUME IInv, NEW i, i \in DOMAIN recurrings
    PROVE  /\ recurrings[i] \in RecurringRecord /\ recurrings[i].last_charged_ledger <= now
           /\ \A r \in RecurringRecord :
                 r.last_charged_ledger <= now /\ recurrings' = [recurrings EXCEPT ![i] = r] /\ now' = now
                    => /\ recurrings' \in Seq(RecurringRecord)
                       /\ \A j \in DOMAIN recurrings' : recurrings'[j].last_charged_ledger <= now'
<1>1. /\ recurrings \in Seq(RecurringRecord) /\ DOMAIN recurrings = 1 .. Len(recurrings)
      /\ recurrings[i] \in RecurringRecord /\ recurrings[i].last_charged_ledger <= now
      /\ \A j \in DOMAIN recurrings : recurrings[j].last_charged_ledger <= now
  BY Positions DEF IInv, RecurringInv
<1>2. ASSUME NEW r \in RecurringRecord, r.last_charged_ledger <= now, now' = now,
             recurrings' = [recurrings EXCEPT ![i] = r]
      PROVE  /\ recurrings' \in Seq(RecurringRecord)
             /\ \A j \in DOMAIN recurrings' : recurrings'[j].last_charged_ledger <= now'
  <2>1. /\ recurrings' \in Seq(RecurringRecord) /\ Len(recurrings') = Len(recurrings)
        /\ \A j \in 1 .. Len(recurrings) : recurrings'[j] = IF j = i THEN r ELSE recurrings[j]
    BY <1>1, <1>2, RecordUpdate
  <2>2. DOMAIN recurrings' = 1 .. Len(recurrings')
    BY <2>1, Positions
  <2> QED BY <1>1, <1>2, <2>1, <2>2
<1> QED
  BY <1>1, <1>2

\* The payer's list, with an id more or one less.
LEMMA PayerListLemma ==
    ASSUME IInv, NEW a \in Account, NEW i \in Nat
    PROVE  /\ payerRecurrings[a] \in Seq(Nat)
           /\ [payerRecurrings EXCEPT ![a] = Append(@, i)] \in [Account -> Seq(Nat)]
           /\ [payerRecurrings EXCEPT ![a] = Without(@, i)] \in [Account -> Seq(Nat)]
<1>1. payerRecurrings \in [Account -> Seq(Nat)] /\ payerRecurrings[a] \in Seq(Nat)
  BY DEF IInv, RecurringInv
<1>2. Append(payerRecurrings[a], i) \in Seq(Nat) /\ Without(payerRecurrings[a], i) \in Seq(Nat)
  BY <1>1, AppendProperties, WithoutLemma
<1> QED
  BY <1>1, <1>2

\* Once payments are made or cancelled, the records are as they should be.
LEMMA RecurringNextKeeps ==
    ASSUME IInv, RecurringNext, UNCHANGED <<disputeVars, splitVars, ownVars>>
    PROVE  Kept
<1>0. /\ splits \in Seq(SplitRecord) /\ multiEscrows \in Seq(MultiRecord) /\ vestings \in Seq(VestingRecord)
      /\ funds \in [Address -> Nat] /\ frozen \subseteq Account
      /\ recurrings \in Seq(RecurringRecord) /\ payerRecurrings \in [Account -> Seq(Nat)]
      /\ now \in Nat
  BY HostAssumption DEF IInv, ClaimsInv, FundsInv, SettingsInv, RecurringInv, Ledger
<1>1. /\ now' = now
      /\ UNCHANGED <<escrows, valueLocked, depositorEscrows, beneficiaryEscrows, lastEscrowTime,
                     fees, holderSet, disputed, appealed>>
  BY DEF RecurringNext, SetupRecurring, ExecuteRecurring, AmendRecurring, CancelRecurringBatch,
         CancelRecurring, PauseRecurring, ResumeRecurring, fundsAside, escrowVars
<1>2. UNCHANGED <<splits, multiEscrows, vestings, frozen>>
  BY DEF ownVars, splitVars
<1>3. ASSUME FundsInv', RecurringInv' PROVE Kept
  <2>1. ClaimsInv'
    BY <1>0, <1>2, <1>3 DEF ClaimsInv
  <2>2. frozen' \subseteq Account
    BY <1>0, <1>2
  <2> QED BY <1>1, <1>3, <2>1, <2>2, PoolFrame
<1>4. ASSUME NEW i, i \in DOMAIN recurrings, NEW r \in RecurringRecord, r.last_charged_ledger <= now,
             recurrings' = [recurrings EXCEPT ![i] = r],
             payerRecurrings' \in [Account -> Seq(Nat)], FundsInv'
      PROVE  Kept
  <2>1. RecurringInv'
    BY <1>1, <1>4, RecurringUpdate DEF RecurringInv
  <2> QED BY <1>3, <1>4, <2>1
<1>5. ASSUME NEW c \in Depositors, NEW p \in Parties, NEW x \in Amounts, NEW d \in Intervals,
             NEW n \in Limits, SetupRecurring(c, p, x, d, n)
      PROVE  Kept
  <2> DEFINE r == [payer |-> c, payee |-> p, amount |-> x, interval |-> d,
                   last_charged_ledger |-> now, active |-> TRUE,
                   max_executions |-> n, execution_count |-> 0]
  <2>1. /\ recurrings' = Append(recurrings, r) /\ funds' = funds
        /\ payerRecurrings' = [payerRecurrings EXCEPT ![c] = Append(@, Len(recurrings'))]
    BY <1>5 DEF SetupRecurring, escrowVars
  <2>2. c \in Account /\ p \in Address /\ x \in Nat /\ d \in Nat /\ n \in Nat
    BY PayEscrowAssumption, PayRecurringAssumption
  <2>3. r \in RecurringRecord /\ r.last_charged_ledger <= now
    BY <1>0, <2>2 DEF RecurringRecord
  <2> HIDE DEF r
  <2>4. /\ recurrings' \in Seq(RecurringRecord) /\ Len(recurrings') = Len(recurrings) + 1
        /\ Len(recurrings) \in Nat
        /\ \A j \in 1 .. Len(recurrings) : recurrings'[j] = recurrings[j]
        /\ recurrings'[Len(recurrings) + 1] = r
    BY <1>0, <2>1, <2>3, RecordAppend
  <2>5. DOMAIN recurrings' = 1 .. Len(recurrings) + 1 /\ DOMAIN recurrings = 1 .. Len(recurrings)
    BY <1>0, <2>4, Positions
  <2>6. \A j \in DOMAIN recurrings : recurrings[j].last_charged_ledger <= now
    BY DEF IInv, RecurringInv
  <2>7. \A j \in DOMAIN recurrings' : recurrings'[j].last_charged_ledger <= now'
    <3> SUFFICES ASSUME NEW j \in DOMAIN recurrings' PROVE recurrings'[j].last_charged_ledger <= now
      BY <1>1
    <3>1. CASE j = Len(recurrings) + 1
      BY <2>3, <2>4, <3>1
    <3>2. CASE j # Len(recurrings) + 1
      BY <2>4, <2>5, <2>6, <3>2
    <3> QED BY <3>1, <3>2
  <2>8. payerRecurrings' \in [Account -> Seq(Nat)]
    <3>1. Len(recurrings') \in Nat
      BY <2>4
    <3>2. [payerRecurrings EXCEPT ![c] = Append(@, Len(recurrings'))] \in [Account -> Seq(Nat)]
      BY <2>2, <3>1, PayerListLemma
    <3> QED BY <2>1, <3>2
  <2> QED BY <1>0, <1>3, <2>1, <2>4, <2>7, <2>8 DEF RecurringInv, FundsInv
<1>6. ASSUME NEW c \in Account, NEW i \in RecurringId, ExecuteRecurring(c, i) PROVE Kept
  <2> DEFINE old == recurrings[i]
             due == old.last_charged_ledger + old.interval
             charged == [old EXCEPT !.last_charged_ledger = due, !.execution_count = @ + 1]
             r == [charged EXCEPT !.active = ~Finished(charged)]
  <2>1. /\ i \in DOMAIN recurrings /\ now >= due
        /\ CanPay(funds, old.payer, old.amount)
        /\ funds' = Moved(funds, old.payer, old.payee, old.amount)
        /\ recurrings' = [recurrings EXCEPT ![i] = r]
        /\ payerRecurrings' = payerRecurrings
    BY <1>6 DEF ExecuteRecurring, Running
  <2>2. old \in RecurringRecord
    BY <2>1, RecurringUpdate
  <2>3. charged \in RecurringRecord /\ charged.last_charged_ledger = due
    <3>1. due \in Nat
      BY <2>2 DEF RecurringRecord
    <3>2. old.execution_count + 1 \in Nat
      BY <2>2 DEF RecurringRecord
    <3> HIDE DEF due, old
    <3> QED BY <2>2, <3>1, <3>2 DEF RecurringRecord
  <2>4. Finished(charged) \in BOOLEAN
    BY DEF Finished
  <2> HIDE DEF charged
  <2>5. r \in RecurringRecord /\ r.last_charged_ledger = due
    BY <2>3, <2>4 DEF RecurringRecord
  <2>6. due <= now
    BY <1>0, <2>1, <2>2 DEF RecurringRecord
  <2>7. old.payer \in Address /\ old.payee \in Address /\ old.amount \in Int /\ old.amount >= 0
    BY <2>2 DEF RecurringRecord, Address
  <2> HIDE DEF old, r, due
  <2>8. Moved(funds, old.payer, old.payee, old.amount) \in [Address -> Nat]
    BY <1>0, <2>1, <2>7, MovedLemma
  <2>9. FundsInv'
    BY <2>1, <2>8 DEF FundsInv
  <2> QED BY <1>0, <1>4, <2>1, <2>5, <2>6, <2>9
<1>7. ASSUME NEW c \in Account, NEW i \in RecurringId,
             \/ \E x \in Amounts, d \in Intervals : AmendRecurring(c, i, x, d)
             \/ CancelRecurring(c, i) \/ PauseRecurring(c, i) \/ ResumeRecurring(c, i)
      PROVE  Kept
  <2>1. i \in DOMAIN recurrings /\ funds' = funds
    BY <1>7 DEF AmendRecurring, CancelRecurring, PauseRecurring, ResumeRecurring, Running, escrowVars
  <2>2. /\ recurrings[i] \in RecurringRecord /\ recurrings[i].last_charged_ledger <= now
        /\ recurrings[i].payer \in Account
    BY <2>1, RecurringUpdate DEF RecurringRecord
  <2>3. \E r \in RecurringRecord :
           r.last_charged_ledger <= now /\ recurrings' = [recurrings EXCEPT ![i] = r]
    <3>1. ASSUME NEW x \in Amounts, NEW d \in Intervals, AmendRecurring(c, i, x, d)
          PROVE  \E r \in RecurringRecord :
                    r.last_charged_ledger <= now /\ recurrings' = [recurrings EXCEPT ![i] = r]
      <4> DEFINE r == [recurrings[i] EXCEPT !.amount = x, !.interval = d]
      <4>1. x \in Nat /\ d \in Nat
        BY PayEscrowAssumption, PayRecurringAssumption
      <4>2. r \in RecurringRecord /\ r.last_charged_ledger = recurrings[i].last_charged_ledger
        BY <2>2, <4>1 DEF RecurringRecord
      <4>3. recurrings' = [recurrings EXCEPT ![i] = r]
        BY <2>1, <3>1 DEF AmendRecurring
      <4> HIDE DEF r
      <4> QED BY <2>2, <4>2, <4>3
    <3>2. ASSUME NEW b \in BOOLEAN, recurrings' = [recurrings EXCEPT ![i].active = b]
          PROVE  \E r \in RecurringRecord :
                    r.last_charged_ledger <= now /\ recurrings' = [recurrings EXCEPT ![i] = r]
      <4> DEFINE r == [recurrings[i] EXCEPT !.active = b]
      <4>1. r \in RecurringRecord /\ r.last_charged_ledger = recurrings[i].last_charged_ledger
        BY <2>2 DEF RecurringRecord
      <4>2. recurrings' = [recurrings EXCEPT ![i] = r]
        BY <2>1, <3>2
      <4> HIDE DEF r
      <4> QED BY <2>2, <4>1, <4>2
    <3> QED BY <1>7, <3>1, <3>2 DEF CancelRecurring, PauseRecurring, ResumeRecurring
  <2>4. payerRecurrings' \in [Account -> Seq(Nat)]
    <3>1. CASE CancelRecurring(c, i)
      <4>1. i \in Nat
        BY <1>0, <2>1, Positions
      <4> QED BY <3>1, <4>1, PayerListLemma DEF CancelRecurring
    <3> QED BY <1>0, <1>7, <3>1 DEF AmendRecurring, PauseRecurring, ResumeRecurring
  <2> QED BY <1>0, <1>4, <2>1, <2>3, <2>4 DEF FundsInv
<1>8. ASSUME NEW c \in Account, NEW ids, CancelRecurringBatch(c, ids) PROVE Kept
  <2> DEFINE r(i) == [recurrings[i] EXCEPT !.active = @ /\ i \notin ids]
  <2>1. /\ recurrings' = [i \in DOMAIN recurrings |-> r(i)]
        /\ payerRecurrings' = payerRecurrings /\ funds' = funds
    BY <1>8 DEF CancelRecurringBatch, escrowVars
  <2>2. DOMAIN recurrings = 1 .. Len(recurrings) /\ Len(recurrings) \in Nat
    BY <1>0, Positions
  <2>3. ASSUME NEW i \in DOMAIN recurrings
        PROVE  r(i) \in RecurringRecord /\ r(i).last_charged_ledger <= now
    <3>1. recurrings[i] \in RecurringRecord /\ recurrings[i].last_charged_ledger <= now
      BY <2>3, RecurringUpdate
    <3>2. (recurrings[i].active /\ i \notin ids) \in BOOLEAN
      BY <3>1
    <3> QED BY <3>1, <3>2 DEF RecurringRecord
  <2> HIDE DEF r
  <2>4. [i \in 1 .. Len(recurrings) |-> r(i)] \in Seq(RecurringRecord)
    BY <2>2, <2>3, IsASeq
  <2>5. \A i \in DOMAIN recurrings' : recurrings'[i].last_charged_ledger <= now'
    BY <1>1, <2>1, <2>3
  <2> QED BY <1>0, <1>3, <2>1, <2>2, <2>4, <2>5 DEF RecurringInv, FundsInv
<1> QED
  BY <1>5, <1>6, <1>7, <1>8 DEF RecurringNext

-----------------------------------------------------------------------------
(***************************************************************************)
(* Multi-recipient escrows, vestings, the emergency withdrawal and the     *)
(* airdrop.                                                                *)
(***************************************************************************)

\* The sum of a list of shares.
LEMMA TotalSharesLemma ==
    ASSUME NEW r \in Seq(Parts)
    PROVE  /\ TotalShares(r) \in Int
           /\ (\A k \in DOMAIN r : r[k].share > 0) => TotalShares(r) >= 0
<1> DEFINE f == [k \in DOMAIN r |-> r[k].share]
<1>1. IsFiniteSet(DOMAIN r) /\ \A k \in DOMAIN r : r[k] \in Parts
  BY Positions
<1>2. \A k \in DOMAIN r : f[k] = r[k].share /\ f[k] \in Int
  BY <1>1 DEF Parts
<1>3. TotalShares(r) = SumFunctionOnSet(f, DOMAIN r)
  BY DEF TotalShares
<1> HIDE DEF f
<1>4. /\ SumFunctionOnSet(f, DOMAIN r) \in Int
      /\ (\A k \in DOMAIN r : f[k] >= 0) => SumFunctionOnSet(f, DOMAIN r) >= 0
  BY <1>1, <1>2, SumType
<1>5. (\A k \in DOMAIN r : r[k].share > 0) => \A k \in DOMAIN r : f[k] >= 0
  BY <1>2
<1> QED
  BY <1>3, <1>4, <1>5

\* The three parts of a revenue split add up to its total.
LEMMA RevenueLemma ==
    ASSUME NEW q \in RevenueRequests
    PROVE  /\ RevenueParts(q) \in Seq(Parts) /\ q.total \in Int
           /\ TotalShares(RevenueParts(q)) = q.total
<1> DEFINE x == FeeOn(q.total, q.organizer_bps)
           y == FeeOn(q.total, q.artist_bps)
           z == q.total - x - y
           r == RevenueParts(q)
           f == [k \in {1, 2, 3} |-> IF k = 1 THEN x ELSE IF k = 2 THEN y ELSE z]
<1>1. /\ q.total \in Int /\ q.organizer_bps \in Nat /\ q.artist_bps \in Nat
      /\ q.organizer \in Address /\ q.artist \in Address /\ q.platform \in Address
  BY PayPoolAssumption
<1>2. x \in Int /\ y \in Int
  BY <1>1, FeeLemma
<1> HIDE DEF x, y
<1>3. z \in Int /\ x + (y + z) = q.total
  BY <1>1, <1>2
<1>4. r = <<[address |-> q.organizer, share |-> x], [address |-> q.artist, share |-> y],
            [address |-> q.platform, share |-> z]>>
  BY DEF RevenueParts, x, y
<1> HIDE DEF r, z
<1>5. r \in Seq(Parts)
  <2>1. /\ [address |-> q.organizer, share |-> x] \in Parts
        /\ [address |-> q.artist, share |-> y] \in Parts
        /\ [address |-> q.platform, share |-> z] \in Parts
    BY <1>1, <1>2, <1>3 DEF Parts
  <2> QED BY <1>4, <2>1
<1>6. /\ DOMAIN r = {1, 2, 3}
      /\ r[1].share = x /\ r[2].share = y /\ r[3].share = z
  BY <1>4
<1>7. [k \in DOMAIN r |-> r[k].share] = f
  BY <1>6
<1>8. /\ f[1] = x /\ f[2] = y /\ f[3] = z
      /\ \A k \in {1, 2, 3} : f[k] \in Int
  BY <1>2, <1>3
<1> HIDE DEF f
<1>9. /\ IsFiniteSet({1, 2, 3}) /\ IsFiniteSet({2, 3}) /\ IsFiniteSet({3})
      /\ {1, 2, 3} \ {1} = {2, 3} /\ {2, 3} \ {2} = {3} /\ {3} \ {3} = {}
  <2>1. IsFiniteSet({1, 2, 3})
    <3>1. IsFiniteSet({1})
      BY FS_Singleton
    <3>2. IsFiniteSet({1} \cup {2})
      BY <3>1, FS_AddElement
    <3>3. IsFiniteSet(({1} \cup {2}) \cup {3})
      BY <3>2, FS_AddElement
    <3>4. ({1} \cup {2}) \cup {3} = {1, 2, 3}
      OBVIOUS
    <3> QED BY <3>3, <3>4
  <2> QED BY <2>1, FS_Subset
<1>10. SumFunctionOnSet(f, {1, 2, 3}) = f[1] + SumFunctionOnSet(f, {2, 3})
  <2>1. SumFunctionOnSet(f, {1, 2, 3}) = f[1] + SumFunctionOnSet(f, {1, 2, 3} \ {1})
    BY <1>8, <1>9, SumRemove
  <2> QED BY <1>9, <2>1
<1>11. SumFunctionOnSet(f, {2, 3}) = f[2] + SumFunctionOnSet(f, {3})
  <2>1. SumFunctionOnSet(f, {2, 3}) = f[2] + SumFunctionOnSet(f, {2, 3} \ {2})
    <3>1. \A k \in {2, 3} : f[k] \in Int
      BY <1>8
    <3> QED BY <1>9, <3>1, SumRemove
  <2> QED BY <1>9, <2>1
<1>12. SumFunctionOnSet(f, {3}) = f[3]
  <2>1. SumFunctionOnSet(f, {3}) = f[3] + SumFunctionOnSet(f, {3} \ {3})
    <3>1. \A k \in {3} : f[k] \in Int
      BY <1>8
    <3> QED BY <1>9, <3>1, SumRemove
  <2>2. SumFunctionOnSet(f, {3} \ {3}) = 0
    BY <1>9, SumEmpty
  <2>3. f[3] \in Int
    BY <1>8
  <2> QED BY <2>1, <2>2, <2>3
<1>13. TotalShares(r) = q.total
  <2>1. TotalShares(r) = SumFunctionOnSet(f, {1, 2, 3})
    BY <1>6, <1>7 DEF TotalShares
  <2> QED BY <1>3, <1>8, <1>10, <1>11, <1>12, <2>1
<1> QED
  BY <1>1, <1>5, <1>13 DEF r

\* One holder's turn in an airdrop of p.total to holders of p.held.
AirStep(p, h, w) ==
    [purse |-> Disburse(w.purse, h, (w.purse.funds[h] * p.total) \div p.held),
     rest |-> w.rest - ((w.purse.funds[h] * p.total) \div p.held)]
Airs == INSTANCE FoldProofs WITH Op <- AirStep, Choose <- AnyOf

\* Nor does a round over the holders overdraw anybody.
LEMMA AirdropLemma ==
    ASSUME FundsInv, NEW admin \in Address, NEW total \in Nat, CanPay(funds, admin, total),
           holderSet \subseteq Address,
           \E h \in holderSet \ frozen : Moved(funds, admin, Contract, total)[h] > 0
    PROVE  AirdropPayments(admin, total) \in Purses
<1> DEFINE paidIn == Moved(funds, admin, Contract, total)
           S == {h \in holderSet \ frozen : paidIn[h] > 0}
           held == SumFunctionOnSet(paidIn, S)
           p == [total |-> total, held |-> held]
           b == [purse |-> [Purse EXCEPT !.funds = paidIn], rest |-> total]
           id == [h \in S |-> h]
           Iterates(g) == g = [s \in SUBSET S |-> IF s = {} THEN b
                                 ELSE AirStep(p, AnyOf(s), g[s \ {AnyOf(s)}])]
           it == CHOOSE g : Iterates(g)
           V == {w \in [purse: Purses, rest: Int] : TRUE}
<1>1. paidIn \in [Address -> Nat]
  <2>1. funds \in [Address -> Nat] /\ Contract \in Address /\ total \in Int /\ total >= 0
    BY DEF FundsInv, Address
  <2> QED BY <2>1, MovedLemma
<1>2. AirdropPayments(admin, total) = Disburse(it[S].purse, admin, it[S].rest)
  BY DEF AirdropPayments, FoldSet, MapThenFoldSet, AirStep, AnyOf
<1> HIDE DEF paidIn
<1>3. IsFiniteSet(S) /\ S \subseteq Address /\ S # {} /\ \A h \in S : paidIn[h] \in Nat /\ paidIn[h] > 0
  <2>1. IsFiniteSet(Address)
    BY AccountAssumption, FS_AddElement DEF Address
  <2>2. S \subseteq Address
    OBVIOUS
  <2>3. IsFiniteSet(S)
    BY <2>1, <2>2, FS_Subset
  <2> QED BY <1>1, <2>2, <2>3 DEF paidIn
<1> HIDE DEF S
<1>4. held \in Nat /\ held > 0
  <2>1. PICK h \in S : TRUE
    BY <1>3
  <2>2. held = paidIn[h] + SumFunctionOnSet(paidIn, S \ {h})
    BY <1>3, SumRemove
  <2>3. SumFunctionOnSet(paidIn, S \ {h}) \in Int /\ SumFunctionOnSet(paidIn, S \ {h}) >= 0
    <3>1. IsFiniteSet(S \ {h})
      BY <1>3, FS_Subset
    <3>2. \A x \in S \ {h} : paidIn[x] \in Int /\ paidIn[x] >= 0
      BY <1>3
    <3> QED BY <3>1, <3>2, SumType
  <2> HIDE DEF held
  <2> QED BY <1>3, <2>2, <2>3
<1> HIDE DEF held
<1>5. b \in V
  <2>2. [Purse EXCEPT !.funds = paidIn] = [ok |-> TRUE, funds |-> paidIn]
    BY PurseWith
  <2>3. [ok |-> TRUE, funds |-> paidIn] \in Purses
    BY <1>1 DEF Purses
  <2> QED BY <2>2, <2>3
<1>6. ASSUME NEW h \in S, NEW w \in V PROVE AirStep(p, h, w) \in V
  <2> DEFINE x == (w.purse.funds[h] * p.total) \div p.held
  <2>1. w.purse \in Purses /\ w.rest \in Int /\ w.purse.funds[h] \in Int /\ h \in Address
    BY <1>3 DEF Purses
  <2>2. x \in Int
    <3> DEFINE y == w.purse.funds[h] * p.total
    <3>1. y \in Int /\ p.held \in Int /\ p.held > 0
      BY <1>4, <2>1
    <3>2. \A a, d \in Int : d > 0 => a \div d \in Int
      OBVIOUS
    <3> HIDE DEF y
    <3>3. y \div p.held \in Int
      BY <3>1, <3>2
    <3> QED BY <3>3 DEF y
  <2>3. AirStep(p, h, w) = [purse |-> Disburse(w.purse, h, x), rest |-> w.rest - x]
    BY DEF AirStep
  <2> HIDE DEF x
  <2>4. Disburse(w.purse, h, x) \in Purses
    BY <2>1, <2>2, DisburseLemma
  <2> QED BY <2>1, <2>2, <2>3, <2>4
<1> HIDE DEF V, b, p
<1>7. Airs!IsFiniteSet(S) /\ Airs!Chooses(S) /\ \A s \in SUBSET S : s # {} => AnyOf(s) \in s
  BY <1>3 DEF IsFiniteSet, Airs!IsFiniteSet, Airs!Chooses, AnyOf
<1>8. ASSUME NEW g PROVE Iterates(g) <=> Airs!Folds(p, g, id, b, S)
  <2>1. ASSUME NEW s \in SUBSET S, s # {} PROVE id[AnyOf(s)] = AnyOf(s)
    BY <1>7, <2>1
  <2> HIDE DEF id
  <2>2. [s \in SUBSET S |-> IF s = {} THEN b ELSE AirStep(p, AnyOf(s), g[s \ {AnyOf(s)}])]
         = [s \in SUBSET S |-> IF s = {} THEN b ELSE AirStep(p, id[AnyOf(s)], g[s \ {AnyOf(s)}])]
    BY <2>1
  <2> QED BY <2>2 DEF Airs!Folds
<1> HIDE DEF Iterates
<1>9. Airs!Folds(p, it, id, b, S)
  <2>1. Airs!Folds(p, Airs!FoldsOf(p, id, b, S), id, b, S)
    BY <1>7, Airs!FoldsExist
  <2>2. Iterates(Airs!FoldsOf(p, id, b, S))
    BY <1>8, <2>1
  <2>3. Iterates(it)
    BY <2>2
  <2> HIDE DEF it
  <2> QED BY <1>8, <2>3
<1>10. it[S] = Airs!Fold(p, id, b, S)
  <2>1. Airs!Folds(p, Airs!FoldsOf(p, id, b, S), id, b, S)
    BY <1>7, Airs!FoldsExist
  <2> HIDE DEF it, id
  <2>2. \A s \in SUBSET S : it[s] = Airs!FoldsOf(p, id, b, S)[s]
    BY <1>7, <1>9, <2>1, Airs!FoldsUnique
  <2> QED BY <2>2 DEF Airs!Fold
<1>11. it[S] \in V
  <2>1. \A h \in S, w \in V : AirStep(p, id[h], w) \in V
    BY <1>6
  <2> HIDE DEF it, id
  <2>2. Airs!Fold(p, id, b, S) \in V
    BY <1>5, <1>7, <2>1, Airs!FoldStays
  <2> QED BY <1>10, <2>2
<1>12. it[S].purse \in Purses /\ it[S].rest \in Int
  BY <1>11 DEF V
<1> HIDE DEF it
<1> QED
  BY <1>2, <1>12, DisburseLemma

\* What the operations of this module leave alone.
LEMMA OwnFrame ==
    ASSUME IInv, UNCHANGED otherVars, FundsInv', multiEscrows' \in Seq(MultiRecord),
           vestings' \in Seq(VestingRecord), frozen' \subseteq Account
    PROVE  Kept
<1>1. /\ now' = now /\ UNCHANGED <<disputeVars, recurringVars, splits>>
      /\ UNCHANGED <<escrows, valueLocked, depositorEscrows, beneficiaryEscrows, lastEscrowTime,
                     fees, holderSet, disputed, appealed>>
  BY DEF otherVars, fundsAside, splitVars
<1>2. ClaimsInv'
  BY <1>1 DEF IInv, ClaimsInv
<1>3. RecurringInv'
  BY <1>1, RecurringFrame
<1> QED
  BY <1>1, <1>2, <1>3, PoolFrame

\* A multi-recipient escrow is created, perhaps paid out at once.
LEMMA NewMultiLemma ==
    ASSUME NEW d \in Account, NEW r \in Seq(Parts), NEW e \in Ledger
    PROVE  /\ NewMultiEscrow(d, r, e) \in MultiRecord
           /\ [NewMultiEscrow(d, r, e) EXCEPT !.released = TRUE] \in MultiRecord
<1>1. TotalShares(r) \in Int
  BY TotalSharesLemma
<1> QED
  BY <1>1 DEF NewMultiEscrow, MultiRecord

\* Its flags.
LEMMA MultiChanges ==
    ASSUME IInv, NEW m \in 1 .. Len(multiEscrows)
    PROVE  /\ multiEscrows[m] \in MultiRecord
           /\ [multiEscrows EXCEPT ![m].released = TRUE] \in Seq(MultiRecord)
           /\ [multiEscrows EXCEPT ![m].refunded = TRUE] \in Seq(MultiRecord)
<1>1. multiEscrows \in Seq(MultiRecord) /\ multiEscrows[m] \in MultiRecord
  BY ElementOfSeq DEF IInv, ClaimsInv
<1>2. /\ [multiEscrows[m] EXCEPT !.released = TRUE] \in MultiRecord
      /\ [multiEscrows[m] EXCEPT !.refunded = TRUE] \in MultiRecord
  BY <1>1 DEF MultiRecord
<1>3. \A t \in MultiRecord : [multiEscrows EXCEPT ![m] = t] \in Seq(MultiRecord)
  BY <1>1, RecordUpdate
<1> QED
  BY <1>1, <1>2, <1>3

LEMMA MultiKeeps ==
    ASSUME IInv, NEW c \in Account, UNCHANGED <<otherVars, vestings, frozen>>,
           \/ \E r \in ShareLists, e \in Ledger : c \in Depositors /\ CreateMultiEscrow(c, r, e)
           \/ \E m \in MultiId : ReleaseMultiEscrow(c, m) \/ RefundMultiEscrow(c, m)
           \/ \E q \in RevenueRequests, e \in Ledger : RevenueSplit(c, q, e)
    PROVE  Kept
<1>0. /\ multiEscrows \in Seq(MultiRecord) /\ vestings \in Seq(VestingRecord)
      /\ funds \in [Address -> Nat] /\ frozen \subseteq Account
      /\ c \in Address /\ Contract \in Address /\ Purse \in Purses
  BY PurseLemma DEF IInv, ClaimsInv, FundsInv, SettingsInv, Address
<1>1. ASSUME FundsInv', multiEscrows' \in Seq(MultiRecord) PROVE Kept
  BY <1>0, <1>1, OwnFrame
<1>2. ASSUME NEW r \in Seq(Parts), NEW e \in Ledger, CanCreateMulti(c, r, e)
      PROVE  Moved(funds, c, Contract, TotalShares(r)) \in [Address -> Nat]
  <2>1. /\ CanPay(funds, c, TotalShares(r)) /\ \A k \in DOMAIN r : r[k].share > 0
    BY <1>2 DEF CanCreateMulti
  <2>2. TotalShares(r) \in Int /\ TotalShares(r) >= 0
    BY <2>1, TotalSharesLemma
  <2> QED BY <1>0, <2>1, <2>2, MovedLemma
<1>3. ASSUME NEW r \in ShareLists, NEW e \in Ledger, CreateMultiEscrow(c, r, e) PROVE Kept
  <2>1. r \in Seq(Parts)
    BY PayPoolAssumption DEF Parts
  <2>2. /\ CanCreateMulti(c, r, e) /\ funds' = Moved(funds, c, Contract, TotalShares(r))
        /\ multiEscrows' = Append(multiEscrows, NewMultiEscrow(c, r, e))
    BY <1>3 DEF CreateMultiEscrow
  <2>3. NewMultiEscrow(c, r, e) \in MultiRecord
    BY <2>1, NewMultiLemma
  <2>4. multiEscrows' \in Seq(MultiRecord)
    BY <1>0, <2>2, <2>3, AppendProperties
  <2>5. FundsInv'
    BY <1>2, <2>1, <2>2 DEF FundsInv
  <2> QED BY <1>1, <2>4, <2>5
<1>4. ASSUME NEW m \in MultiId, ReleaseMultiEscrow(c, m) PROVE Kept
  <2>1. /\ m \in 1 .. Len(multiEscrows) /\ Paid(DisburseAll(Purse, multiEscrows[m].recipients))
        /\ multiEscrows' = [multiEscrows EXCEPT ![m].released = TRUE]
    BY <1>4 DEF ReleaseMultiEscrow, ActiveMulti
  <2>2. multiEscrows[m] \in MultiRecord /\ multiEscrows' \in Seq(MultiRecord)
    BY <2>1, MultiChanges
  <2>3. multiEscrows[m].recipients \in Seq(Parts)
    BY <2>2 DEF MultiRecord
  <2>4. DisburseAll(Purse, multiEscrows[m].recipients) \in Purses
    BY <1>0, <2>3, DisburseAllLemma
  <2> QED BY <1>1, <2>1, <2>2, <2>4, PaidLemma
<1>5. ASSUME NEW m \in MultiId, RefundMultiEscrow(c, m) PROVE Kept
  <2> DEFINE paid == Disburse(Purse, multiEscrows[m].depositor, multiEscrows[m].total_amount)
  <2>1. /\ m \in 1 .. Len(multiEscrows) /\ Paid(paid)
        /\ multiEscrows' = [multiEscrows EXCEPT ![m].refunded = TRUE]
    BY <1>5 DEF RefundMultiEscrow, ActiveMulti
  <2>2. multiEscrows[m] \in MultiRecord /\ multiEscrows' \in Seq(MultiRecord)
    BY <2>1, MultiChanges
  <2>3. multiEscrows[m].depositor \in Address /\ multiEscrows[m].total_amount \in Int
    BY <2>2 DEF MultiRecord, Address
  <2>4. paid \in Purses
    BY <1>0, <2>3, DisburseLemma
  <2> HIDE DEF paid
  <2> QED BY <1>1, <2>1, <2>2, <2>4, PaidLemma
<1>6. ASSUME NEW q \in RevenueRequests, NEW e \in Ledger, RevenueSplit(c, q, e) PROVE Kept
  <2> DEFINE r == RevenueParts(q)
             f == Moved(funds, c, Contract, q.total)
             w == [Purse EXCEPT !.funds = f]
             new == [NewMultiEscrow(c, r, e) EXCEPT !.released = TRUE]
  <2>1. /\ CanCreateMulti(c, r, e) /\ multiEscrows' = Append(multiEscrows, new)
        /\ Paid(DisburseAll(w, r))
    BY <1>6 DEF RevenueSplit, Purse
  <2>2. r \in Seq(Parts) /\ TotalShares(r) = q.total
    BY RevenueLemma
  <2>3. f \in [Address -> Nat]
    BY <1>2, <2>1, <2>2
  <2>4. w = [ok |-> TRUE, funds |-> f]
    BY PurseWith
  <2>5. new \in MultiRecord
    <3> HIDE DEF r
    <3> QED BY <2>2, NewMultiLemma
  <2> HIDE DEF f, w, r, new
  <2>6. w \in Purses
    BY <2>3, <2>4 DEF Purses
  <2>7. DisburseAll(w, r) \in Purses
    BY <2>2, <2>6, DisburseAllLemma
  <2>8. multiEscrows' \in Seq(MultiRecord)
    BY <1>0, <2>1, <2>5, AppendProperties
  <2> QED BY <1>1, <2>1, <2>7, <2>8, PaidLemma
<1> QED
  BY <1>3, <1>4, <1>5, <1>6

LEMMA VestingKeeps ==
    ASSUME IInv, NEW c \in Account, UNCHANGED <<otherVars, multiEscrows, frozen>>,
           \/ \E h \in Parties, x \in Amounts, e \in Ledger : CreateVesting(c, h, x, e)
           \/ \E v \in VestingId : ClaimVesting(c, v)
    PROVE  Kept
<1>0. /\ multiEscrows \in Seq(MultiRecord) /\ vestings \in Seq(VestingRecord)
      /\ funds \in [Address -> Nat] /\ frozen \subseteq Account
      /\ c \in Address /\ Contract \in Address /\ Purse \in Purses
  BY PurseLemma DEF IInv, ClaimsInv, FundsInv, SettingsInv, Address
<1>1. ASSUME FundsInv', vestings' \in Seq(VestingRecord) PROVE Kept
  BY <1>0, <1>1, OwnFrame
<1>2. ASSUME NEW h \in Parties, NEW x \in Amounts, NEW e \in Ledger, CreateVesting(c, h, x, e)
      PROVE  Kept
  <2> DEFINE r == [holder |-> h, amount |-> x, vesting_ledger |-> e, claimed |-> FALSE]
  <2>1. /\ CanPay(funds, c, x) /\ funds' = Moved(funds, c, Contract, x)
        /\ vestings' = Append(vestings, r)
    BY <1>2 DEF CreateVesting
  <2>2. h \in Address /\ x \in Nat
    BY PayEscrowAssumption
  <2>3. r \in VestingRecord /\ x \in Int /\ x >= 0
    BY <2>2 DEF VestingRecord
  <2> HIDE DEF r
  <2>4. vestings' \in Seq(VestingRecord)
    BY <1>0, <2>1, <2>3, AppendProperties
  <2>5. FundsInv'
    BY <1>0, <2>1, <2>3, MovedLemma DEF FundsInv
  <2> QED BY <1>1, <2>4, <2>5
<1>3. ASSUME NEW v \in VestingId, ClaimVesting(c, v) PROVE Kept
  <2> DEFINE paid == Disburse(Purse, c, vestings[v].amount)
             r == [vestings[v] EXCEPT !.claimed = TRUE]
  <2>1. /\ v \in 1 .. Len(vestings) /\ Paid(paid)
        /\ vestings' = [vestings EXCEPT ![v].claimed = TRUE]
    BY <1>3 DEF ClaimVesting
  <2>2. vestings[v] \in VestingRecord
    BY <1>0, <2>1, ElementOfSeq
  <2>3. r \in VestingRecord
    BY <2>2 DEF VestingRecord
  <2>9. vestings[v].amount \in Int
    BY <2>2 DEF VestingRecord
  <2>4. vestings' = [vestings EXCEPT ![v] = r]
    BY <1>0, <2>1
  <2>5. paid \in Purses
    BY <1>0, <2>9, DisburseLemma
  <2> HIDE DEF paid, r
  <2>6. vestings' \in Seq(VestingRecord)
    <3>1. \A t \in VestingRecord : [vestings EXCEPT ![v] = t] \in Seq(VestingRecord)
      BY <1>0, <2>1, RecordUpdate
    <3> QED BY <2>3, <2>4, <3>1
  <2> QED BY <1>1, <2>1, <2>5, <2>6, PaidLemma
<1> QED
  BY <1>2, <1>3

LEMMA AdminKeeps ==
    ASSUME IInv, NEW c \in Account, UNCHANGED <<otherVars, multiEscrows, vestings>>,
           \/ \E b \in Parties, x \in Amounts : EmergencyWithdraw(c, b, x)
           \/ \E x \in Amounts : Airdrop(c, x)
           \/ \E a \in Freezable, b \in BOOLEAN : SetAuthorized(c, a, b)
    PROVE  Kept
<1>0. /\ multiEscrows \in Seq(MultiRecord) /\ vestings \in Seq(VestingRecord)
      /\ funds \in [Address -> Nat] /\ frozen \subseteq Account
      /\ c \in Address /\ Purse \in Purses /\ FundsInv /\ holderSet \subseteq Address
  BY PurseLemma DEF IInv, ClaimsInv, FundsInv, SettingsInv, Address
<1>1. ASSUME FundsInv', frozen' \subseteq Account PROVE Kept
  BY <1>0, <1>1, OwnFrame
<1>2. ASSUME NEW b \in Parties, NEW x \in Amounts, EmergencyWithdraw(c, b, x) PROVE Kept
  <2>1. b \in Address /\ x \in Int
    BY PayEscrowAssumption
  <2>2. Disburse(Purse, b, x) \in Purses
    BY <1>0, <2>1, DisburseLemma
  <2>3. Paid(Disburse(Purse, b, x)) /\ frozen' = frozen
    BY <1>2 DEF EmergencyWithdraw, ownVars
  <2> QED BY <1>0, <1>1, <2>2, <2>3, PaidLemma
<1>3. ASSUME NEW x \in Amounts, Airdrop(c, x) PROVE Kept
  <2>1. /\ CanPay(funds, c, x) /\ Paid(AirdropPayments(c, x)) /\ frozen' = frozen
        /\ \E h \in holderSet \ frozen : Moved(funds, c, Contract, x)[h] > 0
    BY <1>3 DEF Airdrop, ownVars
  <2>2. x \in Nat
    BY PayEscrowAssumption
  <2>3. AirdropPayments(c, x) \in Purses
    BY <1>0, <2>1, <2>2, AirdropLemma
  <2> QED BY <1>0, <1>1, <2>1, <2>3, PaidLemma
<1>4. ASSUME NEW a \in Freezable, NEW b \in BOOLEAN, SetAuthorized(c, a, b) PROVE Kept
  <2>1. a \in Account
    BY PayPoolAssumption
  <2>2. funds' = funds /\ frozen' \in {frozen \ {a}, frozen \cup {a}}
    BY <1>4 DEF SetAuthorized
  <2> QED BY <1>0, <1>1, <2>1, <2>2 DEF FundsInv
<1> QED
  BY <1>2, <1>3, <1>4

\* Every step of the specification is of one of the kinds above.
LEMMA NextKeeps ==
    ASSUME IInv, Next
    PROVE  Kept
<1>1. ASSUME SplitNext /\ UNCHANGED <<disputeVars, recurringVars, ownVars>> PROVE Kept
  BY <1>1, SplitNextKeeps
<1>2. ASSUME RecurringNext /\ UNCHANGED <<disputeVars, splitVars, ownVars>> PROVE Kept
  BY <1>2, RecurringNextKeeps
<1>3. ASSUME EscrowNext /\ UNCHANGED <<disputeVars, poolVars>> PROVE Kept
  BY <1>3, EscrowNextKeeps
<1>4. ASSUME DisputeNext /\ UNCHANGED poolVars PROVE Kept
  BY <1>4, DisputeNextKeeps
<1>5. ASSUME NEW c \in Depositors, NEW r \in ShareLists, NEW e \in Ledger, CreateMultiEscrow(c, r, e)
      PROVE  Kept
  <2>1. c \in Account
    BY PayEscrowAssumption
  <2>2. UNCHANGED <<otherVars, vestings, frozen>>
    BY <1>5 DEF CreateMultiEscrow
  <2> QED BY <1>5, <2>1, <2>2, MultiKeeps
<1>6. ASSUME NEW c \in Account, NEW m \in MultiId, ReleaseMultiEscrow(c, m) \/ RefundMultiEscrow(c, m)
      PROVE  Kept
  <2>1. UNCHANGED <<otherVars, vestings, frozen>>
    BY <1>6 DEF ReleaseMultiEscrow, RefundMultiEscrow
  <2> QED BY <1>6, <2>1, MultiKeeps
<1>7. ASSUME NEW c \in Depositors, NEW q \in RevenueRequests, NEW e \in Ledger, RevenueSplit(c, q, e)
      PROVE  Kept
  <2>1. c \in Account
    BY PayEscrowAssumption
  <2>2. UNCHANGED <<otherVars, vestings, frozen>>
    BY <1>7 DEF RevenueSplit
  <2> QED BY <1>7, <2>1, <2>2, MultiKeeps
<1>8. ASSUME NEW c \in Account,
             \/ \E h \in Parties, x \in Amounts, e \in Ledger : CreateVesting(c, h, x, e)
             \/ \E v \in VestingId : ClaimVesting(c, v)
      PROVE  Kept
  <2>1. UNCHANGED <<otherVars, multiEscrows, frozen>>
    BY <1>8 DEF CreateVesting, ClaimVesting
  <2> QED BY <1>8, <2>1, VestingKeeps
<1>9. ASSUME NEW c \in Account,
             \/ \E b \in Parties, x \in Amounts : EmergencyWithdraw(c, b, x)
             \/ \E x \in Amounts : Airdrop(c, x)
             \/ \E a \in Freezable, b \in BOOLEAN : SetAuthorized(c, a, b)
      PROVE  Kept
  <2>1. UNCHANGED <<otherVars, multiEscrows, vestings>>
    BY <1>9 DEF EmergencyWithdraw, Airdrop, SetAuthorized, ownVars
  <2> QED BY <1>9, <2>1, AdminKeeps
<1> QED
  BY <1>1, <1>2, <1>3, <1>4, <1>5, <1>6, <1>7, <1>8, <1>9 DEF Next

-----------------------------------------------------------------------------
(***************************************************************************)
(* The invariant is inductive: initial states, and one lemma for each of   *)
(* its parts that speaks of the escrows.                                   *)
(***************************************************************************)
LEMMA InitInv == Init => IInv
<1> SUFFICES ASSUME Init PROVE IInv
  OBVIOUS
<1>1. /\ now = 0 /\ funds = InitialFunds /\ escrows = <<>> /\ valueLocked = 0
      /\ depositorEscrows = [a \in Address |-> <<>>]
      /\ beneficiaryEscrows = [a \in Address |-> <<>>]
      /\ lastEscrowTime = [a \in Account |-> 0]
      /\ fees = [fee_bps |-> 0, treasury |-> Admin, collected |-> 0]
      /\ holderSet = {} /\ disputed = {} /\ appealed = {}
  BY DEF Init, EscrowInit
<1>2. /\ arbiter = NoArbiter
      /\ openedAt = [i \in EscrowId |-> NeverOpened]
      /\ disputeCount = [i \in EscrowId |-> 0]
      /\ claimantDisputes = [a \in Account |-> <<>>]
      /\ mediationBps = 0
      /\ resolverStats = [a \in Account |-> [for_beneficiary |-> 0, for_depositor |-> 0]]
  BY DEF Init, DisputeInit
<1>3. /\ splits = <<>> /\ multiEscrows = <<>> /\ vestings = <<>> /\ frozen = {}
      /\ recurrings = <<>> /\ payerRecurrings = [a \in Account |-> <<>>]
  BY DEF Init, SplitInit, RecurringInit
<1>4. <<>> \in Seq(EscrowId) /\ DOMAIN <<>> = {} /\ Len(<<>>) = 0
  OBVIOUS
<1>5. now \in Ledger /\ 0 \in Ledger
  BY <1>1, HostAssumption DEF Ledger
<1>6. FundsInv
  BY <1>1, PayEscrowAssumption DEF FundsInv
<1>7. EscrowsInv
  BY <1>1, <1>4, PayEscrowAssumption DEF EscrowsInv
<1>8. IndexInv
  BY <1>1, <1>4 DEF IndexInv, Lists, IndexOf, NoRepeats
<1>9. KeysInv
  <2>1. ASSUME NEW i \in EscrowId PROVE Claims(i) = 0
    <3>1. \A a \in Account : TimesClaimed(a, i) = 0
      <4>1. \A a \in Account : {k \in DOMAIN claimantDisputes[a] : claimantDisputes[a][k] = i} = {}
        BY <1>2, <1>4
      <4> QED BY <4>1, FS_EmptySet DEF TimesClaimed
    <3>2. [a \in Account |-> TimesClaimed(a, i)] = [a \in Account |-> 0]
      BY <3>1
    <3> QED BY <3>2, AccountAssumption, SumZero DEF Claims
  <2>2. disputeCount \in [EscrowId -> 0 .. MaxDisputes] /\ \A i \in EscrowId : disputeCount[i] = 0
    BY <1>2, PayDisputeAssumption
  <2>3. claimantDisputes \in [Account -> Seq(EscrowId)]
    BY <1>2, <1>4
  <2> QED BY <1>1, <1>2, <2>1, <2>2, <2>3 DEF KeysInv
<1>10. SettingsInv
  <2>1. fees \in [fee_bps: Nat, treasury: Address, collected: Nat]
    BY <1>1, PayEscrowAssumption DEF Address
  <2>2. resolverStats \in [Account -> [for_beneficiary: Nat, for_depositor: Nat]]
    BY <1>2
  <2> QED BY <1>1, <1>2, <1>3, <1>5, <2>1, <2>2 DEF SettingsInv
<1>11. ClaimsInv
  BY <1>3, EmptySeq DEF ClaimsInv
<1>12. RecurringInv
  BY <1>3, <1>4, EmptySeq DEF RecurringInv
<1> QED
  BY <1>5, <1>6, <1>7, <1>8, <1>9, <1>10, <1>11, <1>12 DEF IInv

\* A list over a set is one over any larger set.
LEMMA SameList ==
    ASSUME NEW R, NEW T, R \subseteq T, NEW s \in Seq(R)
    PROVE  s \in Seq(T)
<1>1. /\ s = [k \in 1 .. Len(s) |-> s[k]] /\ Len(s) \in Nat
      /\ \A k \in 1 .. Len(s) : s[k] \in T
  BY LenProperties, ElementOfSeq
<1> DEFINE n == Len(s)
           f == [k \in 1 .. n |-> s[k]]
<1> HIDE DEF n
<1>2. f \in Seq(T)
  BY <1>1, IsASeq DEF n
<1> QED
  BY <1>1, <1>2 DEF n

\* One list after another.
LEMMA ListsConcat ==
    ASSUME NEW R, NEW s \in Seq(R), NEW t \in Seq(R), NEW A, NEW B,
           Lists(s, A), Lists(t, B), A \cap B = {}
    PROVE  Lists(s \o t, A \cup B)
<1> DEFINE u == s \o t
           n == Len(s)
           m == Len(t)
<1>1. /\ DOMAIN s = 1 .. n /\ DOMAIN t = 1 .. m /\ n \in Nat /\ m \in Nat
      /\ DOMAIN u = 1 .. n + m
      /\ \A j \in 1 .. n : u[j] = s[j]
      /\ \A k \in 1 .. m : u[n + k] = t[k]
  BY RecordsAppend, LenProperties
<1> HIDE DEF u, n, m
<1>2. \A j \in 1 .. n + m : j \in 1 .. n \/ \E k \in 1 .. m : j = n + k
  <2> SUFFICES ASSUME NEW j \in 1 .. n + m, j \notin 1 .. n PROVE \E k \in 1 .. m : j = n + k
    OBVIOUS
  <2>1. j - n \in 1 .. m /\ j = n + (j - n)
    BY <1>1
  <2> QED BY <2>1
<1>3. \A k \in 1 .. m : n + k \in 1 .. n + m
  BY <1>1
<1>4. \A j \in 1 .. n : j \in 1 .. n + m
  BY <1>1
<1>5. IndexOf(u) = A \cup B
  <2>1. A = {s[j] : j \in 1 .. n} /\ B = {t[k] : k \in 1 .. m}
    BY <1>1 DEF Lists, IndexOf
  <2>2. IndexOf(u) = {u[j] : j \in 1 .. n + m}
    BY <1>1 DEF IndexOf
  <2>3. ASSUME NEW x \in IndexOf(u) PROVE x \in A \cup B
    <3>1. PICK j \in 1 .. n + m : x = u[j]
      BY <2>2
    <3>2. CASE j \in 1 .. n
      BY <1>1, <2>1, <3>1, <3>2
    <3>3. ASSUME NEW k \in 1 .. m, j = n + k PROVE x \in B
      BY <1>1, <2>1, <3>1, <3>3
    <3> QED BY <1>2, <3>2, <3>3
  <2>4. A \subseteq IndexOf(u)
    BY <1>1, <1>4, <2>1, <2>2
  <2>5. B \subseteq IndexOf(u)
    <3>1. \A k \in 1 .. m : t[k] = u[n + k] /\ n + k \in 1 .. n + m
      BY <1>1, <1>3
    <3> QED BY <2>1, <2>2, <3>1
  <2> QED BY <2>3, <2>4, <2>5
<1>6. NoRepeats(u)
  <2>1. ASSUME NEW j \in 1 .. n + m, NEW k \in 1 .. n + m, u[j] = u[k] PROVE j = k
    <3>1. CASE j \in 1 .. n /\ k \in 1 .. n
      BY <1>1, <2>1, <3>1 DEF Lists, NoRepeats
    <3>2. ASSUME NEW a \in 1 .. m, NEW b \in 1 .. m, j = n + a, k = n + b PROVE j = k
      BY <1>1, <2>1, <3>2 DEF Lists, NoRepeats
    <3>3. ASSUME NEW a \in 1 .. n, NEW b \in 1 .. m, u[a] = u[n + b] PROVE FALSE
      BY <1>1, <3>3 DEF Lists, IndexOf
    <3> QED BY <1>2, <2>1, <3>1, <3>2, <3>3
  <2> QED BY <1>1, <2>1 DEF NoRepeats
<1> QED
  BY <1>5, <1>6 DEF Lists, u

\* A list with one more.
LEMMA ListsAppend ==
    ASSUME NEW R, NEW s \in Seq(R), NEW i \in R, NEW A, Lists(s, A), i \notin A
    PROVE  Lists(Append(s, i), A \cup {i})
<1>1. Append(s, i) = s \o <<i>> /\ <<i>> \in Seq(R)
  BY AppendIsConcat
<1>2. Lists(<<i>>, {i})
  BY DEF Lists, IndexOf, NoRepeats
<1> QED
  BY <1>1, <1>2, ListsConcat

\* New records.
LEMMA GrowsFacts ==
    ASSUME EscrowsInv, NEW d \in Account, NEW new \in Seq(SoundRecord), Grows(d, new)
    PROVE  /\ escrows' \in Seq(SoundRecord) /\ Len(escrows') \in Nat /\ Len(escrows) \in Nat
           /\ Len(new) \in Nat /\ DOMAIN new = 1 .. Len(new)
           /\ DOMAIN escrows = 1 .. Len(escrows) /\ DOMAIN escrows' = 1 .. Len(escrows')
           /\ Len(escrows') = Len(escrows) + Len(new)
           /\ \A j \in DOMAIN escrows : j \in DOMAIN escrows' /\ escrows'[j] = escrows[j]
           /\ \A k \in DOMAIN new : /\ Len(escrows) + k \in DOMAIN escrows'
                                    /\ Len(escrows) + k \notin DOMAIN escrows
                                    /\ escrows'[Len(escrows) + k] = new[k]
           /\ \A j \in DOMAIN escrows' :
                 j \in DOMAIN escrows \/ \E k \in DOMAIN new : j = Len(escrows) + k
<1>1. escrows' = escrows \o new /\ escrows \in Seq(SoundRecord)
  BY DEF Grows, EscrowsInv
<1>2. /\ escrows' \in Seq(SoundRecord) /\ Len(escrows') = Len(escrows) + Len(new)
      /\ Len(escrows) \in Nat /\ Len(new) \in Nat
      /\ \A j \in 1 .. Len(escrows) : escrows'[j] = escrows[j]
      /\ \A k \in 1 .. Len(new) : escrows'[Len(escrows) + k] = new[k]
  BY <1>1, RecordsAppend
<1>3. DOMAIN new = 1 .. Len(new) /\ DOMAIN escrows = 1 .. Len(escrows)
      /\ DOMAIN escrows' = 1 .. Len(escrows') /\ Len(escrows') \in Nat
  BY <1>1, <1>2, LenProperties
<1> DEFINE n == Len(escrows)
           m == Len(new)
<1> HIDE DEF n, m
<1>4. \A j \in 1 .. n : j \in 1 .. n + m
  BY <1>2 DEF n, m
<1>5. \A k \in 1 .. m : n + k \in 1 .. n + m /\ n + k \notin 1 .. n
  BY <1>2 DEF n, m
<1>6. ASSUME NEW j \in 1 .. n + m, j \notin 1 .. n PROVE \E k \in 1 .. m : j = n + k
  <2>1. j - n \in 1 .. m /\ j = n + (j - n)
    BY <1>2, <1>6 DEF n, m
  <2> QED BY <2>1
<1> QED
  BY <1>2, <1>3, <1>4, <1>5, <1>6 DEF n, m

\* A record that is changed.
LEMMA ChangesFacts ==
    ASSUME EscrowsInv, NEW i \in DOMAIN escrows, NEW r \in SoundRecord, Changes(i, r)
    PROVE  /\ escrows' \in Seq(SoundRecord) /\ Len(escrows') = Len(escrows)
           /\ DOMAIN escrows' = DOMAIN escrows /\ DOMAIN escrows = 1 .. Len(escrows)
           /\ escrows[i] \in SoundRecord
           /\ \A j \in DOMAIN escrows : escrows'[j] = IF j = i THEN r ELSE escrows[j]
           /\ i \in EscrowId /\ escrows[i].beneficiary \in Address /\ r.beneficiary \in Address
<1>1. /\ escrows \in Seq(SoundRecord) /\ DOMAIN escrows = 1 .. Len(escrows)
      /\ escrows[i] \in SoundRecord /\ escrows' = [escrows EXCEPT ![i] = r]
      /\ Len(escrows) \in Nat /\ Len(escrows) <= MaxEscrows
  BY Positions DEF EscrowsInv, Changes
<1>2. /\ escrows' \in Seq(SoundRecord) /\ Len(escrows') = Len(escrows)
      /\ \A j \in 1 .. Len(escrows) : escrows'[j] = IF j = i THEN r ELSE escrows[j]
  <2>1. \A t \in SoundRecord :
           /\ [escrows EXCEPT ![i] = t] \in Seq(SoundRecord)
           /\ Len([escrows EXCEPT ![i] = t]) = Len(escrows)
           /\ \A j \in 1 .. Len(escrows) : [escrows EXCEPT ![i] = t][j] = IF j = i THEN t ELSE escrows[j]
    BY <1>1, RecordUpdate
  <2> QED BY <1>1, <2>1
<1>3. i \in EscrowId
  BY <1>1, PayEscrowAssumption DEF EscrowId
<1>4. escrows[i].beneficiary \in Address /\ r.beneficiary \in Address
  BY <1>1 DEF SoundRecord, EscrowRecord
<1>5. DOMAIN escrows' = DOMAIN escrows
  BY <1>1
<1> QED
  BY <1>1, <1>2, <1>3, <1>4, <1>5

\* What is due of a record is a natural number.
LEMMA DueType == \A r \in SoundRecord : Due(r) \in Nat /\ Due(r) \in Int
BY DEF SoundRecord, EscrowRecord, Due

LEMMA EscrowsKept ==
    ASSUME IInv, Step
    PROVE  EscrowsInv'
<1>0. EscrowsInv
  BY DEF IInv
<1>1. CASE Quiet
  BY <1>0, <1>1 DEF Quiet, EscrowsInv
<1>2. ASSUME NEW d \in Account, NEW new \in Seq(SoundRecord), Grows(d, new) PROVE EscrowsInv'
  <2> DEFINE ids == [k \in DOMAIN new |-> Len(escrows) + k]
             f == [k \in DOMAIN new |-> Due(new[k])]
  <2>1. /\ escrows' \in Seq(SoundRecord) /\ Len(escrows') <= MaxEscrows
        /\ Len(escrows) \in Nat /\ DOMAIN new = 1 .. Len(new) /\ Len(new) \in Nat
        /\ Len(escrows') = Len(escrows) + Len(new)
    <3>1. Len(escrows') <= MaxEscrows
      BY <1>2 DEF Grows
    <3> QED BY <1>0, <1>2, <3>1, GrowsFacts
  <2>2. \A k \in DOMAIN new : Len(escrows) + k \in EscrowId
    BY <2>1, PayEscrowAssumption DEF EscrowId
  <2>3. ids \in Seq(EscrowId)
    BY <2>1, <2>2, IsASeq
  <2>4. SumFunctionOnSet(f, DOMAIN new) \in Int
    <3>1. IsFiniteSet(DOMAIN new) /\ \A k \in DOMAIN new : new[k] \in SoundRecord
      BY Positions
    <3>2. \A k \in DOMAIN new : f[k] \in Int
      BY <3>1, DueType
    <3> HIDE DEF f
    <3> QED BY <3>1, <3>2, SumType
  <2>5. /\ valueLocked' = valueLocked + SumFunctionOnSet(f, DOMAIN new)
        /\ depositorEscrows' = [depositorEscrows EXCEPT ![d] = @ \o ids]
        /\ beneficiaryEscrows' = [b \in Address |-> beneficiaryEscrows'[b]]
    BY <1>2 DEF Grows
  <2> HIDE DEF f, ids
  <2>6. depositorEscrows' \in [Address -> Seq(EscrowId)]
    <3>1. depositorEscrows[d] \o ids \in Seq(EscrowId)
      BY <1>0, <2>3, ConcatProperties DEF EscrowsInv, Address
    <3> QED BY <1>0, <2>5, <3>1 DEF EscrowsInv
  <2>7. ASSUME NEW b \in Address PROVE beneficiaryEscrows'[b] \in Seq(EscrowId)
    <3>1. beneficiaryEscrows[b] \in Seq(EscrowId)
      BY <1>0 DEF EscrowsInv
    <3>2. \/ beneficiaryEscrows'[b] = beneficiaryEscrows[b]
          \/ \E k \in DOMAIN new : beneficiaryEscrows'[b] = Append(beneficiaryEscrows[b], Len(escrows) + k)
      BY <1>2 DEF Grows
    <3> QED BY <2>2, <3>1, <3>2, AppendProperties
  <2>8. beneficiaryEscrows' \in [Address -> Seq(EscrowId)]
    BY <2>5, <2>7
  <2> QED BY <1>0, <2>1, <2>4, <2>5, <2>6, <2>8 DEF EscrowsInv
<1>3. ASSUME NEW i \in DOMAIN escrows, NEW r \in SoundRecord, Changes(i, r) PROVE EscrowsInv'
  <2>1. /\ escrows' \in Seq(SoundRecord) /\ Len(escrows') = Len(escrows)
        /\ i \in EscrowId /\ escrows[i].beneficiary \in Address /\ r.beneficiary \in Address
    BY <1>0, <1>3, ChangesFacts
  <2>2. valueLocked' \in Int /\ depositorEscrows' = depositorEscrows
    BY <1>3 DEF Changes
  <2> DEFINE old == escrows[i].beneficiary
             b1 == [beneficiaryEscrows EXCEPT ![old] = Without(@, i)]
             b2 == [b1 EXCEPT ![r.beneficiary] = Append(@, i)]
  <2>3. beneficiaryEscrows' \in {beneficiaryEscrows, b2}
    BY <1>3 DEF Changes
  <2>4. b1 \in [Address -> Seq(EscrowId)]
    <3>1. Without(beneficiaryEscrows[old], i) \in Seq(EscrowId)
      BY <1>0, <2>1, WithoutLemma DEF EscrowsInv
    <3> QED BY <1>0, <3>1 DEF EscrowsInv
  <2> HIDE DEF b1
  <2>5. b2 \in [Address -> Seq(EscrowId)]
    <3>1. Append(b1[r.beneficiary], i) \in Seq(EscrowId)
      BY <2>1, <2>4, AppendProperties
    <3> QED BY <2>4, <3>1
  <2> HIDE DEF b2
  <2> QED BY <1>0, <2>1, <2>2, <2>3, <2>5 DEF EscrowsInv
<1>4. ASSUME NEW c \in Account, NEW i \in EscrowId, RaiseDispute(c, i) \/ AppealDispute(c, i)
      PROVE  EscrowsInv'
  BY <1>0, <1>4 DEF RaiseDispute, AppealDispute, EscrowsInv
<1> QED
  BY <1>1, <1>2, <1>3, <1>4 DEF Step

LEMMA IndexKept ==
    ASSUME IInv, Step
    PROVE  IndexInv'
<1>0. EscrowsInv /\ IndexInv
  BY DEF IInv
<1>1. CASE UNCHANGED <<escrows, depositorEscrows, beneficiaryEscrows>>
  BY <1>0, <1>1 DEF IndexInv
<1>2. ASSUME NEW d \in Account, NEW new \in Seq(SoundRecord), Grows(d, new) PROVE IndexInv'
  <2> DEFINE n == Len(escrows)
             ids == [k \in DOMAIN new |-> n + k]
             added == {n + k : k \in DOMAIN new}
  <2>1. /\ n \in Nat /\ DOMAIN new = 1 .. Len(new) /\ Len(new) \in Nat
        /\ \A j \in DOMAIN escrows : j \in DOMAIN escrows' /\ escrows'[j] = escrows[j]
        /\ \A k \in DOMAIN new : /\ n + k \in DOMAIN escrows' /\ n + k \notin DOMAIN escrows
                                 /\ escrows'[n + k] = new[k]
        /\ \A j \in DOMAIN escrows' : j \in DOMAIN escrows \/ \E k \in DOMAIN new : j = n + k
    BY <1>0, <1>2, GrowsFacts
  <2>2. ids \in Seq(Nat) /\ Lists(ids, added)
    <3>1. \A k \in DOMAIN new : n + k \in Nat
      BY <2>1
    <3>2. ids \in Seq(Nat)
      BY <2>1, <3>1, IsASeq
    <3>3. \A j, k \in DOMAIN new : n + j = n + k => j = k
      BY <2>1
    <3> HIDE DEF n
    <3> QED BY <3>2, <3>3 DEF Lists, IndexOf, NoRepeats
  <2>3. EscrowId \subseteq Nat
    BY DEF EscrowId
  <2>4. ASSUME NEW a \in Address
        PROVE  Lists(depositorEscrows[a], {i \in DOMAIN escrows : escrows[i].depositor = a})'
    <3>1. /\ depositorEscrows[a] \in Seq(Nat)
          /\ Lists(depositorEscrows[a], {i \in DOMAIN escrows : escrows[i].depositor = a})
      BY <1>0, <2>3, SameList DEF EscrowsInv, IndexInv
    <3>2. /\ depositorEscrows' = [depositorEscrows EXCEPT ![d] = @ \o ids]
          /\ \A k \in DOMAIN new : new[k].depositor = d
      BY <1>2 DEF Grows
    <3>3. depositorEscrows \in [Address -> Seq(EscrowId)]
      BY <1>0 DEF EscrowsInv
    <3> HIDE DEF ids, n
    <3>4. CASE a = d
      <4>1. Lists(depositorEscrows[a] \o ids, {i \in DOMAIN escrows : escrows[i].depositor = a} \cup added)
        <5>1. {i \in DOMAIN escrows : escrows[i].depositor = a} \cap added = {}
          BY <2>1
        <5> HIDE DEF added
        <5> QED BY <2>2, <3>1, <5>1, ListsConcat
      <4>2. {i \in DOMAIN escrows' : escrows'[i].depositor = a}
               = {i \in DOMAIN escrows : escrows[i].depositor = a} \cup added
        BY <2>1, <3>2, <3>4
      <4>3. depositorEscrows'[a] = depositorEscrows[a] \o ids
        BY <3>2, <3>3, <3>4
      <4> QED BY <4>1, <4>2, <4>3
    <3>5. CASE a # d
      <4>1. {i \in DOMAIN escrows' : escrows'[i].depositor = a}
               = {i \in DOMAIN escrows : escrows[i].depositor = a}
        BY <2>1, <3>2, <3>5
      <4>2. depositorEscrows'[a] = depositorEscrows[a]
        BY <3>2, <3>3, <3>5
      <4> QED BY <3>1, <4>1, <4>2
    <3> QED BY <3>4, <3>5
  <2>5. ASSUME NEW a \in Address
        PROVE  Lists(beneficiaryEscrows[a], {i \in DOMAIN escrows : escrows[i].beneficiary = a})'
    <3> DEFINE S == {i \in DOMAIN escrows : escrows[i].beneficiary = a}
    <3>1. beneficiaryEscrows[a] \in Seq(Nat) /\ Lists(beneficiaryEscrows[a], S)
      BY <1>0, <2>3, SameList DEF EscrowsInv, IndexInv
    <3>2. \A j, k \in DOMAIN new : new[j].beneficiary = new[k].beneficiary => j = k
      BY <1>2 DEF Grows
    <3>3. \/ /\ \A k \in DOMAIN new : new[k].beneficiary # a
             /\ beneficiaryEscrows'[a] = beneficiaryEscrows[a]
          \/ \E k \in DOMAIN new : /\ new[k].beneficiary = a
                                   /\ beneficiaryEscrows'[a] = Append(beneficiaryEscrows[a], n + k)
      BY <1>2 DEF Grows
    <3> HIDE DEF n
    <3>4. CASE /\ \A k \in DOMAIN new : new[k].beneficiary # a
               /\ beneficiaryEscrows'[a] = beneficiaryEscrows[a]
      <4>1. {i \in DOMAIN escrows' : escrows'[i].beneficiary = a} = S
        BY <2>1, <3>4
      <4> QED BY <3>1, <3>4, <4>1
    <3>5. ASSUME NEW k \in DOMAIN new, new[k].beneficiary = a,
                 beneficiaryEscrows'[a] = Append(beneficiaryEscrows[a], n + k)
          PROVE  Lists(beneficiaryEscrows'[a], {i \in DOMAIN escrows' : escrows'[i].beneficiary = a})
      <4>1. {i \in DOMAIN escrows' : escrows'[i].beneficiary = a} = S \cup {n + k}
        BY <2>1, <3>2, <3>5
      <4>2. n + k \in Nat /\ n + k \notin S
        BY <2>1
      <4> DEFINE x == n + k
      <4> HIDE DEF S, x
      <4>3. Lists(Append(beneficiaryEscrows[a], x), S \cup {x})
        BY <3>1, <4>2, ListsAppend DEF x
      <4> QED BY <3>5, <4>1, <4>3 DEF x
    <3> QED BY <3>3, <3>4, <3>5
  <2> QED BY <2>4, <2>5 DEF IndexInv
<1>3. ASSUME NEW i \in DOMAIN escrows, NEW r \in SoundRecord, Changes(i, r) PROVE IndexInv'
  <2> DEFINE old == escrows[i].beneficiary
             to == r.beneficiary
             Of(b) == {j \in DOMAIN escrows : escrows[j].beneficiary = b}
             b1 == [beneficiaryEscrows EXCEPT ![old] = Without(@, i)]
             b2 == [b1 EXCEPT ![to] = Append(@, i)]
  <2>1. /\ DOMAIN escrows' = DOMAIN escrows /\ i \in EscrowId /\ old \in Address /\ to \in Address
        /\ \A j \in DOMAIN escrows : escrows'[j] = IF j = i THEN r ELSE escrows[j]
    BY <1>0, <1>3, ChangesFacts
  <2>2. /\ r.depositor = escrows[i].depositor /\ depositorEscrows' = depositorEscrows
        /\ (to = old /\ beneficiaryEscrows' = beneficiaryEscrows) \/ beneficiaryEscrows' = b2
    BY <1>3 DEF Changes
  <2>3. ASSUME NEW a \in Address
        PROVE  Lists(depositorEscrows[a], {j \in DOMAIN escrows : escrows[j].depositor = a})'
    <3>1. {j \in DOMAIN escrows' : escrows'[j].depositor = a}
             = {j \in DOMAIN escrows : escrows[j].depositor = a}
      BY <2>1, <2>2
    <3> QED BY <1>0, <2>2, <3>1 DEF IndexInv
  <2>4. ASSUME NEW a \in Address
        PROVE  Lists(beneficiaryEscrows[a], {j \in DOMAIN escrows : escrows[j].beneficiary = a})'
    <3>1. beneficiaryEscrows[a] \in Seq(EscrowId) /\ Lists(beneficiaryEscrows[a], Of(a))
      BY <1>0 DEF EscrowsInv, IndexInv
    <3>2. {j \in DOMAIN escrows' : escrows'[j].beneficiary = a}
             = IF a = to THEN (Of(a) \ {i}) \cup {i} ELSE Of(a) \ {i}
      BY <2>1
    <3>3. CASE to = old /\ beneficiaryEscrows' = beneficiaryEscrows
      <4>1. {j \in DOMAIN escrows' : escrows'[j].beneficiary = a} = Of(a)
        BY <2>1, <3>3
      <4> QED BY <3>1, <3>3, <4>1
    <3>4. CASE beneficiaryEscrows' = b2
      <4>1. beneficiaryEscrows \in [Address -> Seq(EscrowId)]
        BY <1>0 DEF EscrowsInv
      <4>2. b1[a] = IF a = old THEN Without(beneficiaryEscrows[a], i) ELSE beneficiaryEscrows[a]
        BY <2>1, <4>1
      <4>3. b1[a] \in Seq(EscrowId) /\ Lists(b1[a], Of(a) \ {i})
        <5>1. CASE a = old
          <6> HIDE DEF b1, Of
          <6> QED BY <3>1, <4>2, <5>1, WithoutLemma DEF Lists
        <5>2. CASE a # old
          <6>1. Of(a) \ {i} = Of(a)
            BY <5>2
          <6> HIDE DEF b1, Of
          <6> QED BY <3>1, <4>2, <5>2, <6>1
        <5> QED BY <5>1, <5>2
      <4>4. b2[a] = IF a = to THEN Append(b1[a], i) ELSE b1[a]
        BY <2>1, <4>1
      <4> HIDE DEF b1, b2, Of
      <4>5. Lists(Append(b1[a], i), (Of(a) \ {i}) \cup {i})
        BY <2>1, <4>3, ListsAppend
      <4> QED BY <3>2, <3>4, <4>3, <4>4, <4>5
    <3> QED BY <2>2, <3>3, <3>4
  <2> QED BY <2>3, <2>4 DEF IndexInv
<1>4. ASSUME NEW c \in Account, NEW i \in EscrowId, RaiseDispute(c, i) \/ AppealDispute(c, i)
      PROVE  IndexInv'
  BY <1>1, <1>4 DEF RaiseDispute, AppealDispute
<1> QED
  BY <1>1, <1>2, <1>3, <1>4 DEF Step, Quiet

\* How often an id stands in a list, after another was added.
Times(s, j) == Cardinality({k \in DOMAIN s : s[k] = j})

LEMMA TimesAppend ==
    ASSUME NEW R, NEW s \in Seq(R), NEW i \in R, NEW j
    PROVE  /\ Times(s, j) \in Nat
           /\ Times(Append(s, i), j) = Times(s, j) + (IF j = i THEN 1 ELSE 0)
<1> DEFINE u == Append(s, i)
           n == Len(s)
           S == {k \in DOMAIN s : s[k] = j}
           T == {k \in DOMAIN u : u[k] = j}
<1>1. /\ u \in Seq(R) /\ Len(u) = n + 1 /\ n \in Nat
      /\ \A k \in 1 .. n : u[k] = s[k]
      /\ u[n + 1] = i /\ DOMAIN s = 1 .. n /\ DOMAIN u = 1 .. n + 1
  BY RecordAppend, LenProperties
<1>2. 1 .. n + 1 = (1 .. n) \cup {n + 1} /\ n + 1 \notin 1 .. n
  BY <1>1
<1>3. IsFiniteSet(S)
  <2>1. IsFiniteSet(DOMAIN s)
    BY Positions
  <2> QED BY <2>1, FS_Subset
<1>4. Cardinality(S) \in Nat
  BY <1>3, FS_CardinalityType
<1> HIDE DEF u, n
<1>5. CASE j = i
  <2>1. T = S \cup {n + 1} /\ n + 1 \notin S
    BY <1>1, <1>2, <1>5
  <2> HIDE DEF S, T
  <2>2. Cardinality(T) = Cardinality(S) + 1
    BY <1>3, <2>1, FS_AddElement
  <2> QED BY <1>4, <1>5, <2>2 DEF Times, S, T, u
<1>6. CASE j # i
  <2>1. T = S
    BY <1>1, <1>2, <1>6
  <2>2. Times(s, j) = Cardinality(S) /\ Times(u, j) = Cardinality(T)
    BY DEF Times
  <2> HIDE DEF S, T
  <2> QED BY <1>4, <1>6, <2>1, <2>2 DEF u
<1> QED
  BY <1>5, <1>6

\* A dispute that is raised is one more claim on its escrow.
LEMMA ClaimsRaised ==
    ASSUME KeysInv, NEW c \in Account, NEW i \in EscrowId,
           claimantDisputes' = [claimantDisputes EXCEPT ![c] = Append(@, i)]
    PROVE  \A j \in EscrowId :
              Claims(j) \in Int /\ Claims(j)' = Claims(j) + (IF j = i THEN 1 ELSE 0)
<1> SUFFICES ASSUME NEW j \in EscrowId
             PROVE  Claims(j) \in Int /\ Claims(j)' = Claims(j) + (IF j = i THEN 1 ELSE 0)
  OBVIOUS
<1> DEFINE f == [a \in Account |-> TimesClaimed(a, j)]
           g == [a \in Account |-> TimesClaimed(a, j)']
<1>1. \A a \in Account : claimantDisputes[a] \in Seq(EscrowId)
  BY DEF KeysInv
<1>2. \A a \in Account : f[a] = Times(claimantDisputes[a], j) /\ f[a] \in Int
  <2>1. \A a \in Account : f[a] = Times(claimantDisputes[a], j)
    BY DEF TimesClaimed, Times
  <2>2. ASSUME NEW a \in Account PROVE Times(claimantDisputes[a], j) \in Int
    BY <1>1, TimesAppend
  <2> HIDE DEF f
  <2> QED BY <2>1, <2>2
<1>3. \A a \in Account \ {c} : g[a] = f[a]
  BY DEF KeysInv, TimesClaimed
<1>4. g[c] = f[c] + (IF j = i THEN 1 ELSE 0) /\ g[c] \in Int
  <2>1. claimantDisputes'[c] = Append(claimantDisputes[c], i)
    BY DEF KeysInv
  <2>2. g[c] = Times(Append(claimantDisputes[c], i), j)
    BY <2>1 DEF TimesClaimed, Times
  <2>3. Times(Append(claimantDisputes[c], i), j)
           = Times(claimantDisputes[c], j) + (IF j = i THEN 1 ELSE 0)
    BY <1>1, TimesAppend
  <2> HIDE DEF f, g
  <2> QED BY <1>2, <2>2, <2>3
<1>5. Claims(j) = SumFunctionOnSet(f, Account) /\ Claims(j)' = SumFunctionOnSet(g, Account)
  BY DEF Claims
<1> HIDE DEF f, g
<1>6. SumFunctionOnSet(g, Account) = SumFunctionOnSet(f, Account) - f[c] + g[c]
  BY <1>2, <1>3, <1>4, AccountAssumption, SumUpdate
<1>7. SumFunctionOnSet(f, Account) \in Int
  BY <1>2, AccountAssumption, SumType
<1> QED
  BY <1>2, <1>4, <1>5, <1>6, <1>7

LEMMA KeysKept ==
    ASSUME IInv, Step
    PROVE  KeysInv'
<1>0. EscrowsInv /\ KeysInv /\ now \in Int /\ now \in Ledger
  BY HostAssumption DEF IInv, Ledger
<1>1. CASE Quiet
  <2>1. /\ now' \in Int /\ now' >= now
        /\ UNCHANGED <<escrows, disputed, appealed, openedAt, disputeCount, claimantDisputes>>
    BY <1>1, HostAssumption DEF Quiet, Ledger
  <2>2. ASSUME NEW i \in disputed PROVE openedAt[i] \in 0 .. now'
    <3>1. openedAt[i] \in 0 .. now
      BY <1>0 DEF KeysInv
    <3> QED BY <1>0, <2>1, <3>1
  <2>3. \A i : Settled(i)' <=> Settled(i)
    BY <2>1 DEF Settled
  <2>4. \A i : Claims(i)' = Claims(i)
    BY <2>1 DEF Claims, TimesClaimed
  <2> QED BY <1>0, <2>1, <2>2, <2>3, <2>4 DEF KeysInv
<1>2. ASSUME NEW d \in Account, NEW new \in Seq(SoundRecord), Grows(d, new) PROVE KeysInv'
  <2>1. \A j \in DOMAIN escrows : j \in DOMAIN escrows' /\ escrows'[j] = escrows[j]
    BY <1>0, <1>2, GrowsFacts
  <2>2. now' = now /\ UNCHANGED <<disputed, appealed, openedAt, disputeCount, claimantDisputes>>
    BY <1>2 DEF Grows
  <2>3. \A i \in DOMAIN escrows : Settled(i)' <=> Settled(i)
    BY <2>1 DEF Settled
  <2>4. \A i : Claims(i)' = Claims(i)
    BY <2>2 DEF Claims, TimesClaimed
  <2> QED BY <1>0, <2>1, <2>2, <2>3, <2>4 DEF KeysInv
<1>3. ASSUME NEW i \in DOMAIN escrows, NEW r \in SoundRecord, Changes(i, r) PROVE KeysInv'
  <2>1. /\ DOMAIN escrows' = DOMAIN escrows /\ escrows[i] \in SoundRecord
        /\ \A j \in DOMAIN escrows : escrows'[j] = IF j = i THEN r ELSE escrows[j]
    BY <1>0, <1>3, ChangesFacts
  <2>2. /\ now' = now
        /\ disputed' \subseteq disputed /\ appealed' \subseteq appealed
        /\ UNCHANGED <<disputeCount, claimantDisputes>>
        /\ openedAt' \in [EscrowId -> Ledger \cup {NeverOpened}]
        /\ \A j \in disputed' : openedAt'[j] = openedAt[j]
        /\ \A j \in appealed' : (j = i /\ (r.released \/ r.refunded)) \/ (j \in disputed => j \in disputed')
        /\ Settled(i) => r = [escrows[i] EXCEPT !.beneficiary = r.beneficiary]
    BY <1>3 DEF Changes
  <2>3. \A j : Claims(j)' = Claims(j)
    BY <2>2 DEF Claims, TimesClaimed
  <2>4. ASSUME NEW j \in appealed' PROVE j \in disputed' \/ Settled(j)'
    <3>1. j \in DOMAIN escrows /\ (j \in disputed \/ Settled(j))
      BY <1>0, <2>2 DEF KeysInv
    <3>2. CASE j # i
      BY <2>1, <2>2, <3>1, <3>2 DEF Settled
    <3>3. CASE j = i
      <4>1. Settled(i) => r.released \/ r.refunded
        BY <2>1, <2>2 DEF Settled, SoundRecord, EscrowRecord
      <4>2. r.released \/ r.refunded => Settled(i)'
        BY <2>1 DEF Settled
      <4> QED BY <2>2, <3>1, <3>3, <4>1, <4>2
    <3> QED BY <3>2, <3>3
  <2>5. \A j \in disputed' : disputeCount'[j] > 0 /\ openedAt'[j] \in 0 .. now'
    BY <1>0, <2>2 DEF KeysInv
  <2> QED BY <1>0, <2>1, <2>2, <2>3, <2>4, <2>5 DEF KeysInv
<1>4. ASSUME NEW c \in Account, NEW i \in EscrowId, RaiseDispute(c, i) PROVE KeysInv'
  <2>1. /\ Exists(i) /\ disputeCount[i] < MaxDisputes /\ now' = now /\ escrows' = escrows
        /\ disputeCount' = [disputeCount EXCEPT ![i] = @ + 1]
        /\ disputed' = disputed \cup {i} /\ appealed' = appealed
        /\ openedAt' = [openedAt EXCEPT ![i] = now]
        /\ claimantDisputes' = [claimantDisputes EXCEPT ![c] = Append(@, i)]
    BY <1>4 DEF RaiseDispute, Active
  <2>2. i \in DOMAIN escrows
    BY <1>0, <2>1, RecordOf
  <2>3. \A j \in EscrowId : Claims(j) \in Int /\ Claims(j)' = Claims(j) + (IF j = i THEN 1 ELSE 0)
    BY <1>0, <2>1, ClaimsRaised
  <2>4. disputeCount[i] + 1 \in 0 .. MaxDisputes /\ disputeCount[i] + 1 > 0
    BY <1>0, <2>1, PayDisputeAssumption DEF KeysInv
  <2>5. /\ disputeCount' \in [EscrowId -> 0 .. MaxDisputes]
        /\ openedAt' \in [EscrowId -> Ledger \cup {NeverOpened}]
        /\ claimantDisputes' \in [Account -> Seq(EscrowId)]
    <3>1. Append(claimantDisputes[c], i) \in Seq(EscrowId)
      BY <1>0, AppendProperties DEF KeysInv
    <3> QED BY <1>0, <2>1, <2>4, <3>1 DEF KeysInv
  <2>6. ASSUME NEW j \in disputed' PROVE disputeCount'[j] > 0 /\ openedAt'[j] \in 0 .. now'
    <3>1. CASE j = i
      <4>1. now \in 0 .. now
        BY <1>0 DEF Ledger
      <4> QED BY <1>0, <2>1, <2>4, <3>1, <4>1 DEF KeysInv
    <3>2. CASE j # i
      BY <1>0, <2>1, <3>2 DEF KeysInv
    <3> QED BY <3>1, <3>2
  <2>7. ASSUME NEW j \in EscrowId PROVE disputeCount'[j] = Claims(j)'
    <3>1. disputeCount[j] = Claims(j)
      BY <1>0 DEF KeysInv
    <3>2. disputeCount'[j] = disputeCount[j] + (IF j = i THEN 1 ELSE 0)
      BY <1>0, <2>1, <2>3, <3>1 DEF KeysInv
    <3> QED BY <2>3, <3>1, <3>2
  <2>8. \A j : Settled(j)' <=> Settled(j)
    BY <2>1 DEF Settled
  <2> QED BY <1>0, <2>1, <2>2, <2>5, <2>6, <2>7, <2>8 DEF KeysInv
<1>5. ASSUME NEW c \in Account, NEW i \in EscrowId, AppealDispute(c, i) PROVE KeysInv'
  <2>1. /\ i \in disputed /\ appealed' = appealed \cup {i}
        /\ UNCHANGED <<now, escrows, disputed, openedAt, disputeCount, claimantDisputes>>
    BY <1>5 DEF AppealDispute, disputeVars
  <2>2. \A j : Settled(j)' <=> Settled(j)
    BY <2>1 DEF Settled
  <2>3. \A j : Claims(j)' = Claims(j)
    BY <2>1 DEF Claims, TimesClaimed
  <2> QED BY <1>0, <2>1, <2>2, <2>3 DEF KeysInv
<1> QED
  BY <1>1, <1>2, <1>3, <1>4, <1>5 DEF Step

LEMMA StutterKeeps ==
    ASSUME IInv, UNCHANGED vars
    PROVE  IInv'
<1>1. /\ UNCHANGED <<now, funds, escrows, valueLocked, depositorEscrows, beneficiaryEscrows,
                     lastEscrowTime, fees, holderSet, disputed, appealed>>
      /\ UNCHANGED <<arbiter, openedAt, disputeCount, claimantDisputes, mediationBps, resolverStats>>
      /\ UNCHANGED <<splits, recurrings, payerRecurrings, multiEscrows, vestings, frozen>>
  BY DEF vars, escrowVars, disputeVars, poolVars, splitVars, recurringVars, ownVars
<1>2. FundsInv' /\ EscrowsInv' /\ IndexInv' /\ now' \in Ledger
  BY <1>1 DEF IInv, FundsInv, EscrowsInv, IndexInv
<1>3. KeysInv'
  <2>1. \A i : (Settled(i)' <=> Settled(i)) /\ Claims(i)' = Claims(i)
    BY <1>1 DEF Settled, Claims, TimesClaimed
  <2> QED BY <1>1, <2>1 DEF IInv, KeysInv
<1>4. SettingsInv' /\ ClaimsInv' /\ RecurringInv'
  BY <1>1 DEF IInv, SettingsInv, ClaimsInv, RecurringInv
<1> QED
  BY <1>2, <1>3, <1>4 DEF IInv

\* The inductive invariant holds in every reachable state.
LEMMA Invariance == Spec => []IInv
<1>1. IInv /\ [Next]_vars => IInv'
  <2>1. ASSUME IInv, Next PROVE IInv'
    <3>1. Step /\ FundsInv' /\ SettingsInv' /\ ClaimsInv' /\ RecurringInv'
      BY <2>1, NextKeeps DEF Kept
    <3>2. EscrowsInv' /\ IndexInv' /\ KeysInv'
      BY <2>1, <3>1, EscrowsKept, IndexKept, KeysKept
    <3>3. now' \in Ledger
      BY <2>1, <3>1 DEF IInv, Step, Quiet, Grows, Changes, RaiseDispute, AppealDispute
    <3> QED BY <3>1, <3>2, <3>3 DEF IInv
  <2> QED BY <2>1, StutterKeeps
<1> QED
  BY InitInv, <1>1, PTL DEF Spec

-----------------------------------------------------------------------------
(***************************************************************************)
(* The properties.                                                         *)
(***************************************************************************)

\* No mix of partial releases, top-ups, liens and settlements, by depositor,
\* admin and arbiter, leaves a record that contradicts itself; every variable
\* has its type, and no balance is ever negative.
THEOREM RecordsAreConsistent == Spec => []RecordsConsistent
<1>1. IInv => RecordsConsistent
  <2> SUFFICES ASSUME IInv PROVE RecordsConsistent
    OBVIOUS
  <2>1. EscrowsInv /\ KeysInv /\ SettingsInv /\ FundsInv /\ now \in Ledger
    BY DEF IInv
  <2>2. DOMAIN escrows \subseteq EscrowId
    BY <2>1, RecordOf, LenProperties DEF EscrowsInv, Exists
  <2>3. ASSUME NEW i \in DOMAIN escrows
        PROVE  /\ escrows[i] \in EscrowRecord
               /\ ~(escrows[i].released /\ escrows[i].refunded)
               /\ escrows[i].released => Remaining(i) = 0
               /\ Remaining(i) >= 0 /\ (~Settled(i) => Remaining(i) > 0)
               /\ escrows[i].lien_amount <= escrows[i].amount
    <3>1. escrows[i] \in SoundRecord
      BY <2>1, Positions DEF EscrowsInv
    <3> QED BY <3>1 DEF SoundRecord, EscrowRecord, Remaining, Settled
  <2>4. TypeOK
    BY <2>1, <2>2, <2>3 DEF TypeOK, FundsInv, EscrowsInv, KeysInv, SettingsInv
  <2> QED BY <2>3, <2>4 DEF RecordsConsistent
<1> QED
  BY Invariance, <1>1, PTL

\* The keys of a dispute stay in step: appeals are pending on open disputes
\* or settled escrows only, and DisputeCount is what the claimants' lists say.
THEOREM DisputeKeysStayInStep == Spec => []DisputeKeysAgree
<1>1. IInv => DisputeKeysAgree
  BY DEF IInv, KeysInv, DisputeKeysAgree, Claims
<1> QED
  BY Invariance, <1>1, PTL

\* No operation of depositor, beneficiary, creditor, admin or arbiter alters
\* a settled escrow, but for the name of its beneficiary.
THEOREM SettledForGood == Spec => SettlementIsFinal
<1>1. ASSUME IInv, Next PROVE SettledStep
  <2> SUFFICES ASSUME NEW j \in DOMAIN escrows, Settled(j)
               PROVE  [escrows'[j] EXCEPT !.beneficiary = escrows[j].beneficiary] = escrows[j]
    BY DEF SettledStep
  <2>0. EscrowsInv /\ escrows[j] \in EscrowRecord
    BY <1>1, Positions DEF IInv, EscrowsInv, SoundRecord
  <2>1. CASE escrows'[j] = escrows[j]
    BY <2>0, <2>1 DEF EscrowRecord
  <2>2. ASSUME NEW i \in DOMAIN escrows, NEW r \in SoundRecord, Changes(i, r)
        PROVE  [escrows'[j] EXCEPT !.beneficiary = escrows[j].beneficiary] = escrows[j]
    <3>1. \A k \in DOMAIN escrows : escrows'[k] = IF k = i THEN r ELSE escrows[k]
      BY <2>0, <2>2, ChangesFacts
    <3>2. CASE j # i
      BY <2>1, <3>1, <3>2
    <3>3. CASE j = i
      <4> DEFINE b == r.beneficiary
      <4>1. r = [escrows[j] EXCEPT !.beneficiary = b] /\ escrows'[j] = r
        BY <2>2, <3>1, <3>3 DEF Changes
      <4> HIDE DEF b
      <4> QED BY <2>0, <4>1 DEF EscrowRecord
    <3> QED BY <3>2, <3>3
  <2>3. Step
    BY <1>1, NextKeeps DEF Kept
  <2>4. ASSUME NEW d \in Account, NEW new \in Seq(SoundRecord), Grows(d, new)
        PROVE  escrows'[j] = escrows[j]
    BY <2>0, <2>4, GrowsFacts
  <2>5. ASSUME Quiet \/ \E c \in Account, i \in EscrowId : RaiseDispute(c, i) \/ AppealDispute(c, i)
        PROVE  escrows'[j] = escrows[j]
    BY <2>5 DEF Quiet, RaiseDispute, AppealDispute
  <2> QED BY <2>1, <2>2, <2>3, <2>4, <2>5 DEF Step
<1>2. ASSUME IInv, UNCHANGED vars PROVE SettledStep
  <2> SUFFICES ASSUME NEW j \in DOMAIN escrows
               PROVE  [escrows'[j] EXCEPT !.beneficiary = escrows[j].beneficiary] = escrows[j]
    BY DEF SettledStep
  <2>1. escrows' = escrows /\ escrows[j] \in EscrowRecord
    BY <1>2, Positions DEF IInv, EscrowsInv, SoundRecord, vars, escrowVars
  <2> QED BY <2>1 DEF EscrowRecord
<1> QED
  BY Invariance, <1>1, <1>2, PTL DEF Spec, SettlementIsFinal

\* A list of distinct ids is as long as there are ids in it.
LEMMA ListLength ==
    ASSUME NEW R, NEW s \in Seq(R), NEW A, Lists(s, A)
    PROVE  Len(s) = Cardinality(A)
<1> DEFINE n == Len(s)
<1>1. n \in Nat /\ DOMAIN s = 1 .. n /\ s \in [1 .. n -> R]
  BY LenProperties
<1>2. s \in [1 .. n -> A]
  <2>1. \A k \in 1 .. n : s[k] \in A
    BY <1>1 DEF Lists, IndexOf
  <2> QED BY <1>1, <2>1
<1>3. s \in Injection(1 .. n, A)
  BY <1>1, <1>2 DEF Lists, NoRepeats, Injection, IsInjective
<1>4. s \in Surjection(1 .. n, A)
  BY <1>1, <1>2 DEF Lists, IndexOf, Surjection
<1>5. ExistsBijection(1 .. n, A)
  BY <1>3, <1>4 DEF ExistsBijection, Bijection
<1> HIDE DEF n
<1>6. Cardinality(A) = n
  BY <1>1, <1>5, FS_CountingElements
<1> QED
  BY <1>6 DEF n

\* The position in the index and the id determine each other, so a sum along
\* the index is the sum over the records.
LEMMA ValueAlongIndex ==
    ASSUME EscrowsInv, IndexInv, NEW a \in Address
    PROVE  EscrowedValueForDepositor(a)
              = RemainingOf({i \in DOMAIN escrows : escrows[i].depositor = a} \cap ActiveEscrows)
<1> DEFINE h == depositorEscrows[a]
           S == {k \in DOMAIN h : ~Settled(h[k])}
           T == {i \in DOMAIN escrows : escrows[i].depositor = a} \cap ActiveEscrows
           f == [i \in T |-> Remaining(i)]
           g == [k \in S |-> Remaining(h[k])]
<1>1. Lists(h, {i \in DOMAIN escrows : escrows[i].depositor = a})
  BY DEF IndexInv
<1>2. /\ \A k \in DOMAIN h : h[k] \in DOMAIN escrows /\ escrows[h[k]].depositor = a
      /\ \A i \in DOMAIN escrows : escrows[i].depositor = a => \E k \in DOMAIN h : h[k] = i
      /\ \A j, k \in DOMAIN h : h[j] = h[k] => j = k
  <2> HIDE DEF h
  <2> QED BY <1>1 DEF Lists, IndexOf, NoRepeats
<1>3. IsFiniteSet(S)
  <2>1. h \in Seq(EscrowId)
    BY DEF EscrowsInv
  <2>2. IsFiniteSet(DOMAIN h)
    BY <2>1, Positions
  <2> HIDE DEF h
  <2> QED BY <2>2, FS_Subset
<1>4. DOMAIN escrows = 1 .. Len(escrows)
  BY LenProperties DEF EscrowsInv
<1>5. T = {h[k] : k \in S}
  <2> HIDE DEF h
  <2> QED BY <1>2, <1>4 DEF ActiveEscrows
<1>6. ASSUME NEW k \in S PROVE f[h[k]] = g[k] /\ g[k] \in Int
  <2>1. h[k] \in T /\ Exists(h[k])
    BY <1>2, <1>4, <1>5 DEF Exists
  <2>2. Remaining(h[k]) \in Int
    BY <2>1, RecordOf
  <2> HIDE DEF h, S, T
  <2> QED BY <2>1, <2>2
<1>7. EscrowedValueForDepositor(a) = SumFunctionOnSet(g, S) /\ RemainingOf(T) = SumFunctionOnSet(f, T)
  BY DEF EscrowedValueForDepositor, RemainingOf
<1>8. \A j, k \in S : h[j] = h[k] => j = k
  BY <1>2
<1> HIDE DEF h, S, T, f, g
<1>9. SumFunctionOnSet(f, {h[k] : k \in S}) = SumFunctionOnSet(g, S)
  BY <1>3, <1>6, <1>8, SumImage
<1> QED
  BY <1>5, <1>7, <1>9 DEF T

\* The first escrow of d's list that is in e's too.
Common(d, e) ==
    {k \in DOMAIN depositorEscrows[d] : depositorEscrows[d][k] \in IndexOf(beneficiaryEscrows[e])}
FirstCommon(d, e) == depositorEscrows[d][Min(Common(d, e))]

LEMMA CommonLemma ==
    ASSUME EscrowsInv, IndexInv, NEW d \in Address, NEW e \in Address
    PROVE  /\ Common(d, e) # {} <=> \E i \in DOMAIN escrows :
                                       escrows[i].depositor = d /\ escrows[i].beneficiary = e
           /\ Common(d, e) # {} => FirstCommon(d, e) # NoEscrow
<1> DEFINE h == depositorEscrows[d]
           C == Common(d, e)
<1>1. /\ IndexOf(h) = {i \in DOMAIN escrows : escrows[i].depositor = d}
      /\ IndexOf(beneficiaryEscrows[e]) = {i \in DOMAIN escrows : escrows[i].beneficiary = e}
  BY DEF IndexInv, Lists
<1>2. h \in Seq(EscrowId)
  BY DEF EscrowsInv
<1>3. C = {k \in DOMAIN h : h[k] \in IndexOf(beneficiaryEscrows[e])}
  BY DEF Common
<1>4. DOMAIN h = 1 .. Len(h) /\ Len(h) \in Nat /\ \A k \in DOMAIN h : h[k] \in EscrowId
  BY <1>2, Positions
<1>5. FirstCommon(d, e) = h[Min(C)]
  BY DEF FirstCommon
<1> HIDE DEF h, C
<1>6. C # {} <=> \E i \in DOMAIN escrows : escrows[i].depositor = d /\ escrows[i].beneficiary = e
  <2>1. IndexOf(h) = {h[k] : k \in DOMAIN h}
    BY DEF IndexOf
  <2> QED BY <1>1, <1>3, <2>1
<1>7. ASSUME C # {} PROVE FirstCommon(d, e) # NoEscrow
  <2>1. C \in SUBSET (1 .. Len(h))
    BY <1>3, <1>4
  <2>2. Min(C) \in C
    BY <1>4, <1>7, <2>1, FirstPosition
  <2>3. h[Min(C)] \in EscrowId
    BY <1>3, <1>4, <2>2
  <2> QED BY <1>5, <2>3 DEF EscrowId, NoEscrow
<1> QED
  BY <1>6, <1>7 DEF C

\* Both address indexes list exactly the escrows of an address, each once,
\* and the views that walk along them find what a scan of all records would.
THEOREM IndexesAreExact == Spec => []IndexesExact
<1>1. IInv => IndexesExact
  <2> SUFFICES ASSUME IInv, NEW a \in Address
               PROVE  LET asDepositor == {i \in DOMAIN escrows : escrows[i].depositor = a}
                          asBeneficiary == {i \in DOMAIN escrows : escrows[i].beneficiary = a}
                      IN  /\ IndexOf(depositorEscrows[a]) = asDepositor
                          /\ Len(depositorEscrows[a]) = Cardinality(asDepositor)
                          /\ IndexOf(beneficiaryEscrows[a]) = asBeneficiary
                          /\ Len(beneficiaryEscrows[a]) = Cardinality(asBeneficiary)
                          /\ EscrowedValueForDepositor(a) = RemainingOf(asDepositor \cap ActiveEscrows)
                          /\ \A b \in Address :
                                (EscrowBetween(a, b) = NoEscrow)
                                   <=> ~\E i \in DOMAIN escrows :
                                          {escrows[i].depositor, escrows[i].beneficiary} = {a, b}
    BY DEF IndexesExact
  <2> DEFINE asDepositor == {i \in DOMAIN escrows : escrows[i].depositor = a}
             asBeneficiary == {i \in DOMAIN escrows : escrows[i].beneficiary = a}
  <2>1. EscrowsInv /\ IndexInv
    BY DEF IInv
  <2>2. Lists(depositorEscrows[a], asDepositor) /\ Lists(beneficiaryEscrows[a], asBeneficiary)
    BY <2>1 DEF IndexInv
  <2>3. depositorEscrows[a] \in Seq(EscrowId) /\ beneficiaryEscrows[a] \in Seq(EscrowId)
    BY <2>1 DEF EscrowsInv
  <2>4. EscrowedValueForDepositor(a) = RemainingOf(asDepositor \cap ActiveEscrows)
    BY <2>1, ValueAlongIndex
  <2>5. ASSUME NEW b \in Address
        PROVE  (EscrowBetween(a, b) = NoEscrow)
                  <=> ~\E i \in DOMAIN escrows :
                         {escrows[i].depositor, escrows[i].beneficiary} = {a, b}
    <3>1. EscrowBetween(a, b) = IF Common(a, b) # {} THEN FirstCommon(a, b)
                                ELSE IF Common(b, a) # {} THEN FirstCommon(b, a) ELSE NoEscrow
      BY DEF EscrowBetween, Common, FirstCommon
    <3>2. /\ Common(a, b) # {} => FirstCommon(a, b) # NoEscrow
          /\ Common(b, a) # {} => FirstCommon(b, a) # NoEscrow
          /\ Common(a, b) # {} <=> \E i \in DOMAIN escrows :
                                      escrows[i].depositor = a /\ escrows[i].beneficiary = b
          /\ Common(b, a) # {} <=> \E i \in DOMAIN escrows :
                                      escrows[i].depositor = b /\ escrows[i].beneficiary = a
      BY <2>1, CommonLemma
    <3>3. \A x, y : {x, y} = {a, b} <=> (x = a /\ y = b) \/ (x = b /\ y = a)
      OBVIOUS
    <3>4. (\E i \in DOMAIN escrows : {escrows[i].depositor, escrows[i].beneficiary} = {a, b})
             <=> Common(a, b) # {} \/ Common(b, a) # {}
      BY <3>2, <3>3
    <3> QED BY <3>1, <3>2, <3>4
  <2> HIDE DEF asDepositor, asBeneficiary
  <2>6. /\ Len(depositorEscrows[a]) = Cardinality(asDepositor)
        /\ Len(beneficiaryEscrows[a]) = Cardinality(asBeneficiary)
    BY <2>2, <2>3, ListLength
  <2>7. /\ IndexOf(depositorEscrows[a]) = asDepositor
        /\ IndexOf(beneficiaryEscrows[a]) = asBeneficiary
    BY <2>2 DEF Lists
  <2> QED BY <2>4, <2>5, <2>6, <2>7 DEF asDepositor, asBeneficiary
<1> QED
  BY Invariance, <1>1, PTL

-----------------------------------------------------------------------------
(***************************************************************************)
(* The counter of the value locked.  What the escrows are owed is a sum    *)
(* over all records, in which those that are settled count for nothing.    *)
(***************************************************************************)
DueSum == SumFunctionOnSet([i \in DOMAIN escrows |-> Due(escrows[i])], DOMAIN escrows)

LEMMA OwedLemma == EscrowsInv => OwedToEscrows = DueSum
<1> SUFFICES ASSUME EscrowsInv PROVE OwedToEscrows = DueSum
  OBVIOUS
<1> DEFINE D == DOMAIN escrows
           A == ActiveEscrows
           S == D \ A
           f == [i \in D |-> Due(escrows[i])]
           g == [i \in A |-> Remaining(i)]
           z == [i \in S |-> 0]
<1>1. IsFiniteSet(D) /\ D = 1 .. Len(escrows) /\ \A i \in D : escrows[i] \in SoundRecord
  BY Positions DEF EscrowsInv
<1>2. A \subseteq D /\ D = A \cup S /\ A \cap S = {}
  BY <1>1 DEF ActiveEscrows
<1>3. \A i \in A : f[i] = g[i]
  BY <1>1 DEF ActiveEscrows, Settled, Due, Remaining
<1>4. \A i \in S : f[i] = z[i]
  BY <1>1 DEF ActiveEscrows, Settled, Due
<1>5. \A i \in D : f[i] \in Int
  BY <1>1, DueType
<1>6. OwedToEscrows = SumFunctionOnSet(g, A) /\ DueSum = SumFunctionOnSet(f, D)
  BY DEF OwedToEscrows, RemainingOf, DueSum
<1>7. IsFiniteSet(A) /\ IsFiniteSet(S)
  <2> HIDE DEF A, D
  <2> QED BY <1>1, <1>2, FS_Subset
<1>8. SumFunctionOnSet(z, S) = 0
  <2> HIDE DEF S
  <2> QED BY <1>7, SumZero
<1> HIDE DEF D, A, S, f, g, z
<1>9. SumFunctionOnSet(f, A) = SumFunctionOnSet(g, A) /\ SumFunctionOnSet(f, S) = SumFunctionOnSet(z, S)
  BY <1>3, <1>4, <1>7, SumSame
<1>10. SumFunctionOnSet(f, A \cup S) = SumFunctionOnSet(f, A) + SumFunctionOnSet(f, S)
  BY <1>2, <1>5, <1>7, SumUnion
<1>11. SumFunctionOnSet(f, A) \in Int
  BY <1>2, <1>5, <1>7, SumType
<1> QED
  BY <1>2, <1>6, <1>8, <1>9, <1>10, <1>11

LEMMA DueSumType == EscrowsInv => DueSum \in Int
<1> SUFFICES ASSUME EscrowsInv PROVE DueSum \in Int
  OBVIOUS
<1> DEFINE D == DOMAIN escrows
           f == [i \in D |-> Due(escrows[i])]
<1>1. IsFiniteSet(D) /\ \A i \in D : escrows[i] \in SoundRecord
  BY Positions DEF EscrowsInv
<1>2. \A i \in D : f[i] \in Int
  BY <1>1, DueType
<1>3. DueSum = SumFunctionOnSet(f, D)
  BY DEF DueSum
<1> HIDE DEF D, f
<1> QED
  BY <1>1, <1>2, <1>3, SumType

\* New records add what is due of them.
LEMMA GrowsDue ==
    ASSUME EscrowsInv, NEW d \in Account, NEW new \in Seq(SoundRecord), Grows(d, new)
    PROVE  DueSum' = DueSum + SumFunctionOnSet([k \in DOMAIN new |-> Due(new[k])], DOMAIN new)
<1> DEFINE n == Len(escrows)
           D == DOMAIN escrows
           K == DOMAIN new
           h == [k \in K |-> n + k]
           N == {h[k] : k \in K}
           f == [i \in D |-> Due(escrows[i])]
           g == [k \in K |-> Due(new[k])]
           u == [i \in DOMAIN escrows' |-> Due(escrows'[i])]
<1>1. /\ n \in Nat /\ K = 1 .. Len(new) /\ DOMAIN escrows' = 1 .. Len(escrows')
      /\ escrows' \in Seq(SoundRecord)
      /\ \A j \in D : j \in DOMAIN escrows' /\ escrows'[j] = escrows[j]
      /\ \A k \in K : n + k \in DOMAIN escrows' /\ n + k \notin D /\ escrows'[n + k] = new[k]
      /\ \A j \in DOMAIN escrows' : j \in D \/ \E k \in K : j = n + k
  BY GrowsFacts
<1>2. IsFiniteSet(D) /\ IsFiniteSet(K) /\ IsFiniteSet(DOMAIN escrows')
  BY <1>1, Positions DEF EscrowsInv
<1>3. \A k \in K : new[k] \in SoundRecord
  BY Positions
<1>4. \A i \in DOMAIN escrows' : u[i] \in Int
  <2>1. \A i \in DOMAIN escrows' : escrows'[i] \in SoundRecord
    BY <1>1, Positions
  <2> QED BY <2>1, DueType
<1>5. \A k \in K : h[k] = n + k
  OBVIOUS
<1>6. N = {n + k : k \in K}
  BY <1>5
<1>7. DOMAIN escrows' = D \cup N /\ D \cap N = {}
  <2> HIDE DEF N, n, D, K
  <2> QED BY <1>1, <1>6
<1>8. \A k \in K : u[h[k]] = g[k] /\ g[k] \in Int
  <2>1. \A k \in K : Due(new[k]) \in Int
    BY <1>3, DueType
  <2>2. \A k \in K : u[n + k] = Due(new[k])
    BY <1>1
  <2> HIDE DEF u, n
  <2> QED BY <1>5, <2>1, <2>2
<1>9. \A j, k \in K : h[j] = h[k] => j = k
  BY <1>1, <1>5
<1>10. \A i \in D : u[i] = f[i]
  BY <1>1
<1>11. DueSum' = SumFunctionOnSet(u, DOMAIN escrows') /\ DueSum = SumFunctionOnSet(f, D)
  BY DEF DueSum
<1>12. IsFiniteSet(N)
  <2> HIDE DEF N, D
  <2> QED BY <1>2, <1>7, FS_Subset
<1> HIDE DEF n, D, K, h, f, g, u
<1>13. SumFunctionOnSet(u, N) = SumFunctionOnSet(g, K)
  BY <1>2, <1>8, <1>9, SumImage
<1> HIDE DEF N
<1>14. \A i \in D \cup N : u[i] \in Int
  BY <1>4, <1>7
<1>15. SumFunctionOnSet(u, D \cup N) = SumFunctionOnSet(u, D) + SumFunctionOnSet(u, N)
  BY <1>2, <1>7, <1>12, <1>14, SumUnion
<1>16. SumFunctionOnSet(u, D) = SumFunctionOnSet(f, D)
  BY <1>2, <1>10, SumSame
<1> QED
  BY <1>7, <1>11, <1>13, <1>15, <1>16 DEF g, K

\* A changed record changes the sum by the difference.
LEMMA ChangesDue ==
    ASSUME EscrowsInv, NEW i \in DOMAIN escrows, NEW r \in SoundRecord, Changes(i, r)
    PROVE  DueSum' = DueSum - Due(escrows[i]) + Due(r)
<1> DEFINE D == DOMAIN escrows
           f == [j \in D |-> Due(escrows[j])]
           g == [j \in D |-> Due(escrows'[j])]
<1>1. /\ DOMAIN escrows' = D /\ escrows[i] \in SoundRecord
      /\ \A j \in D : escrows'[j] = IF j = i THEN r ELSE escrows[j]
  BY ChangesFacts
<1>2. IsFiniteSet(D) /\ \A j \in D : escrows[j] \in SoundRecord
  BY Positions DEF EscrowsInv
<1>3. \A j \in D : f[j] \in Int
  BY <1>2, DueType
<1>4. g[i] = Due(r) /\ g[i] \in Int /\ f[i] = Due(escrows[i])
  <2>1. Due(r) \in Int
    BY DueType
  <2> QED BY <1>1, <2>1
<1>5. \A j \in D \ {i} : g[j] = f[j]
  BY <1>1
<1>6. DueSum = SumFunctionOnSet(f, D) /\ DueSum' = SumFunctionOnSet(g, D)
  BY <1>1 DEF DueSum
<1> HIDE DEF f, g, D
<1>7. i \in D /\ IsFiniteSet(D) /\ g[i] \in Int
  BY <1>2, <1>4 DEF D
<1>8. SumFunctionOnSet(g, D) = SumFunctionOnSet(f, D) - f[i] + g[i]
  BY <1>3, <1>5, <1>7, SumUpdate
<1> QED
  BY <1>4, <1>6, <1>8

\* EscrowValueLocked moves by what the escrows are owed in every step but a
\* top-up and an arbiter's resolution.
THEOREM CounterInStep == Spec => CounterFollowsRecords
<1>1. EscrowsInv' => OwedToEscrows' = DueSum' /\ DueSum' \in Int
  <2>1. EscrowsInv => OwedToEscrows = DueSum /\ DueSum \in Int
    BY OwedLemma, DueSumType
  <2>2. (EscrowsInv => OwedToEscrows = DueSum /\ DueSum \in Int)'
    BY <2>1, PTL
  <2> QED BY <2>2
<1>2. ASSUME IInv, EscrowsInv', UNCHANGED <<escrows, valueLocked>> PROVE CounterStep
  <2>1. DueSum' = DueSum
    BY <1>2 DEF DueSum
  <2>2. OwedToEscrows' = DueSum' /\ OwedToEscrows = DueSum /\ DueSum \in Int /\ valueLocked \in Int
    BY <1>1, <1>2, OwedLemma, DueSumType DEF IInv, EscrowsInv
  <2> QED BY <1>2, <2>1, <2>2 DEF CounterStep
<1>3. ASSUME IInv, EscrowsInv', NEW d \in Account, NEW new \in Seq(SoundRecord), Grows(d, new)
      PROVE  CounterStep
  <2> DEFINE x == SumFunctionOnSet([k \in DOMAIN new |-> Due(new[k])], DOMAIN new)
  <2>1. EscrowsInv /\ valueLocked \in Int /\ valueLocked' \in Int
    BY <1>3 DEF IInv, EscrowsInv
  <2>2. valueLocked' = valueLocked + x
    BY <1>3 DEF Grows
  <2>3. DueSum' = DueSum + x
    BY <1>3, <2>1, GrowsDue
  <2>4. OwedToEscrows' = DueSum' /\ OwedToEscrows = DueSum /\ DueSum \in Int /\ DueSum' \in Int
    BY <1>1, <1>3, <2>1, OwedLemma, DueSumType
  <2>5. x \in Int
    <3> DEFINE g == [k \in DOMAIN new |-> Due(new[k])]
    <3>1. IsFiniteSet(DOMAIN new) /\ \A k \in DOMAIN new : new[k] \in SoundRecord
      BY Positions
    <3>2. \A k \in DOMAIN new : g[k] \in Int
      BY <3>1, DueType
    <3> HIDE DEF g
    <3>3. SumFunctionOnSet(g, DOMAIN new) \in Int
      BY <3>1, <3>2, SumType
    <3> QED BY <3>3 DEF g
  <2> HIDE DEF x
  <2> QED BY <2>1, <2>2, <2>3, <2>4, <2>5 DEF CounterStep
<1>4. ASSUME IInv, EscrowsInv', NEW i \in DOMAIN escrows, NEW r \in SoundRecord, Changes(i, r),
             ~Resolved, ~ToppedUp
      PROVE  valueLocked' - valueLocked = OwedToEscrows' - OwedToEscrows
  <2>1. EscrowsInv
    BY <1>4 DEF IInv
  <2>2. escrows'[i] = r /\ escrows[i] \in SoundRecord
    BY <1>4, <2>1, ChangesFacts
  <2>3. r.amount = escrows[i].amount /\ resolverStats' = resolverStats
    BY <1>4, <2>2 DEF Resolved, ToppedUp
  <2>4. valueLocked' - valueLocked = Due(r) - Due(escrows[i])
    BY <1>4, <2>3 DEF Changes
  <2>5. DueSum' = DueSum - Due(escrows[i]) + Due(r)
    BY <1>4, <2>1, ChangesDue
  <2>6. OwedToEscrows' = DueSum' /\ OwedToEscrows = DueSum /\ DueSum \in Int /\ DueSum' \in Int
    BY <1>1, <1>4, <2>1, OwedLemma, DueSumType
  <2>7. Due(r) \in Int /\ Due(escrows[i]) \in Int
    BY <2>2, DueType
  <2> QED BY <2>4, <2>5, <2>6, <2>7
<1>5. ASSUME IInv, IInv', [Next]_vars PROVE CounterStep
  <2>1. EscrowsInv'
    BY <1>5 DEF IInv
  <2>2. CASE Next
    <3>1. Step
      BY <1>5, <2>2, NextKeeps DEF Kept
    <3>2. ASSUME Quiet \/ \E c \in Account, i \in EscrowId : RaiseDispute(c, i) \/ AppealDispute(c, i)
          PROVE  UNCHANGED <<escrows, valueLocked>>
      BY <3>2 DEF Quiet, RaiseDispute, AppealDispute
    <3>3. ASSUME NEW i \in DOMAIN escrows, NEW r \in SoundRecord, Changes(i, r) PROVE CounterStep
      BY <1>4, <1>5, <2>1, <3>3 DEF CounterStep
    <3> QED BY <1>2, <1>3, <1>5, <2>1, <3>1, <3>2, <3>3 DEF Step
  <2>3. CASE UNCHANGED vars
    BY <1>2, <1>5, <2>1, <2>3 DEF vars, escrowVars
  <2> QED BY <1>5, <2>2, <2>3
<1> QED
  BY Invariance, <1>5, PTL DEF Spec, CounterFollowsRecords

-----------------------------------------------------------------------------
(***************************************************************************)
(* Recurring payments.                                                     *)
(***************************************************************************)

\* A payment that was cancelled or finished runs only if it was resumed.
OnlyResumed(i) == Revived(i)' => i \in DOMAIN recurrings /\ (Revived(i) \/ ~Running(i))

\* One record is written, and the lists stay, but for the id of one that stops.
LEMMA RecordKeepsRunning ==
    ASSUME RecurringInv, NEW i \in DOMAIN recurrings, NEW r \in RecurringRecord,
           recurrings' = [recurrings EXCEPT ![i] = r], r.payer = recurrings[i].payer,
           r.active /\ recurrings[i].active /\ Finished(r) => Finished(recurrings[i]),
           \/ payerRecurrings' = payerRecurrings
           \/ /\ ~r.active
              /\ payerRecurrings'
                    = [payerRecurrings EXCEPT ![recurrings[i].payer] = Without(@, i)]
    PROVE  \A j \in DOMAIN recurrings' : OnlyResumed(j)
<1>1. /\ DOMAIN recurrings' = DOMAIN recurrings
      /\ \A j \in DOMAIN recurrings : recurrings'[j] = IF j = i THEN r ELSE recurrings[j]
      /\ \A j \in DOMAIN recurrings : recurrings[j] \in RecurringRecord
  <2>1. /\ recurrings \in Seq(RecurringRecord) /\ i \in 1 .. Len(recurrings)
        /\ DOMAIN recurrings = 1 .. Len(recurrings)
        /\ \A j \in DOMAIN recurrings : recurrings[j] \in RecurringRecord
    BY Positions DEF RecurringInv
  <2>2. /\ recurrings' \in Seq(RecurringRecord) /\ Len(recurrings') = Len(recurrings)
        /\ \A j \in 1 .. Len(recurrings) : recurrings'[j] = IF j = i THEN r ELSE recurrings[j]
    BY <2>1, RecordUpdate
  <2>3. DOMAIN recurrings' = 1 .. Len(recurrings')
    BY <2>2, Positions
  <2> QED BY <2>1, <2>2, <2>3
<1>2. ASSUME NEW j \in DOMAIN recurrings, j # i,
             j \in IndexOf(payerRecurrings[recurrings[j].payer])
      PROVE  j \in IndexOf(payerRecurrings'[recurrings[j].payer])
  <2> DEFINE a == recurrings[j].payer
             b == recurrings[i].payer
  <2>1. a \in Account /\ b \in Account
    BY <1>1 DEF RecurringRecord
  <2>2. payerRecurrings \in [Account -> Seq(Nat)]
    BY DEF RecurringInv
  <2>3. \/ payerRecurrings' = payerRecurrings
        \/ payerRecurrings' = [payerRecurrings EXCEPT ![b] = Without(@, i)]
    OBVIOUS
  <2>4. j \in IndexOf(payerRecurrings[a])
    BY <1>2
  <2> HIDE DEF a, b
  <2>5. IndexOf(Without(payerRecurrings[b], i)) = IndexOf(payerRecurrings[b]) \ {i}
    <3>1. payerRecurrings[b] \in Seq(Nat)
      BY <2>1, <2>2
    <3> QED BY <3>1, WithoutLemma
  <2>6. \/ payerRecurrings'[a] = payerRecurrings[a]
        \/ a = b /\ payerRecurrings'[a] = Without(payerRecurrings[b], i)
    BY <2>1, <2>2, <2>3
  <2>7. j \in IndexOf(payerRecurrings'[a])
    BY <1>2, <2>4, <2>5, <2>6
  <2> QED BY <2>7 DEF a
<1>3. ASSUME NEW j \in DOMAIN recurrings', Revived(j)'
      PROVE  j \in DOMAIN recurrings /\ (Revived(j) \/ ~Running(j))
  <2>1. /\ j \in DOMAIN recurrings /\ recurrings'[j].active
        /\ \/ j \notin IndexOf(payerRecurrings'[recurrings'[j].payer])
           \/ Finished(recurrings'[j])
    BY <1>1, <1>3 DEF Revived, Running, Finished
  <2>2. CASE j = i
    <3>1. recurrings'[j] = r
      BY <1>1, <2>2
    <3> QED BY <2>1, <2>2, <3>1 DEF Revived, Running
  <2>3. CASE j # i
    <3>1. recurrings'[j] = recurrings[j]
      BY <1>1, <2>1, <2>3
    <3> QED BY <1>2, <2>1, <2>3, <3>1 DEF Revived, Running
  <2> QED BY <2>2, <2>3
<1> QED
  BY <1>3 DEF OnlyResumed

LEMMA RecurringStepLemma ==
    ASSUME IInv, RecurringNext
    PROVE  \A i \in DOMAIN recurrings' : OnlyResumed(i)
<1>0. /\ RecurringInv /\ now \in Nat /\ recurrings \in Seq(RecurringRecord)
      /\ DOMAIN recurrings = 1 .. Len(recurrings) /\ Len(recurrings) \in Nat
      /\ \A j \in DOMAIN recurrings : recurrings[j] \in RecurringRecord
      /\ payerRecurrings \in [Account -> Seq(Nat)]
  BY HostAssumption, Positions DEF IInv, RecurringInv, Ledger
<1>1. ASSUME NEW c \in Depositors, NEW p \in Parties, NEW x \in Amounts, NEW d \in Intervals,
             NEW n \in Limits, SetupRecurring(c, p, x, d, n),
             NEW i \in DOMAIN recurrings', Revived(i)'
      PROVE  i \in DOMAIN recurrings /\ Revived(i)
  <2> DEFINE r == [payer |-> c, payee |-> p, amount |-> x, interval |-> d,
                   last_charged_ledger |-> now, active |-> TRUE,
                   max_executions |-> n, execution_count |-> 0]
             m == Len(recurrings) + 1
  <2>1. /\ recurrings' = Append(recurrings, r)
        /\ payerRecurrings' = [payerRecurrings EXCEPT ![c] = Append(@, Len(recurrings'))]
    BY <1>1 DEF SetupRecurring
  <2>2. c \in Account /\ p \in Address /\ x \in Nat /\ d \in Nat /\ n \in Nat
    BY PayEscrowAssumption, PayRecurringAssumption
  <2>3. r \in RecurringRecord /\ r.payer = c /\ ~Finished(r)
    BY <1>0, <2>2 DEF RecurringRecord, Finished
  <2> HIDE DEF r
  <2>4. /\ recurrings' \in Seq(RecurringRecord) /\ Len(recurrings') = m /\ m \in Nat
        /\ \A j \in DOMAIN recurrings : recurrings'[j] = recurrings[j]
        /\ recurrings'[m] = r
    BY <1>0, <2>1, <2>3, RecordAppend
  <2>5. DOMAIN recurrings' = 1 .. m
    BY <2>4, Positions
  <2>6. i \in DOMAIN recurrings \/ i = m
    BY <1>0, <2>5
  <2>7. /\ recurrings'[i].active
        /\ \/ i \notin IndexOf(payerRecurrings'[recurrings'[i].payer])
           \/ Finished(recurrings'[i])
    BY <1>1 DEF Revived, Running, Finished
  <2> HIDE DEF m
  <2>8. payerRecurrings' = [payerRecurrings EXCEPT ![c] = Append(payerRecurrings[c], m)]
    BY <2>1, <2>4
  <2>9. ASSUME NEW a \in Account
        PROVE  /\ IndexOf(payerRecurrings[a]) \subseteq IndexOf(payerRecurrings'[a])
               /\ a = c => m \in IndexOf(payerRecurrings'[a])
    <3> DEFINE u == payerRecurrings[a]
               w == Append(u, m)
    <3>1. u \in Seq(Nat)
      BY <1>0
    <3>2. /\ w \in Seq(Nat) /\ Len(w) = Len(u) + 1 /\ Len(u) \in Nat
          /\ \A k \in 1 .. Len(u) : w[k] = u[k]
          /\ w[Len(u) + 1] = m
          /\ DOMAIN u = 1 .. Len(u) /\ DOMAIN w = 1 .. Len(w)
      BY <2>4, <3>1, RecordAppend, LenProperties
    <3>3. payerRecurrings'[a] = IF a = c THEN w ELSE u
      BY <1>0, <2>8
    <3> HIDE DEF u, w
    <3>4. DOMAIN u \subseteq DOMAIN w /\ Len(u) + 1 \in DOMAIN w
      BY <3>2
    <3>5. IndexOf(u) \subseteq IndexOf(w) /\ m \in IndexOf(w)
      BY <3>2, <3>4 DEF IndexOf
    <3> QED BY <3>3, <3>5 DEF u
  <2>10. CASE i = m
    BY <2>2, <2>3, <2>4, <2>7, <2>9, <2>10
  <2>11. CASE i \in DOMAIN recurrings
    <3>1. recurrings'[i] = recurrings[i] /\ recurrings[i].payer \in Account
      BY <1>0, <2>4, <2>11 DEF RecurringRecord
    <3> QED BY <2>7, <2>9, <2>11, <3>1 DEF Revived, Running
  <2> QED BY <2>6, <2>10, <2>11
<1>2. ASSUME NEW c \in Account, NEW i \in RecurringId, ExecuteRecurring(c, i)
      PROVE  \A j \in DOMAIN recurrings' : OnlyResumed(j)
  <2> DEFINE q == recurrings[i]
             due == q.last_charged_ledger + q.interval
             charged == [q EXCEPT !.last_charged_ledger = due, !.execution_count = @ + 1]
             done == ~Finished(charged)
             r == [charged EXCEPT !.active = done]
  <2>1. /\ i \in DOMAIN recurrings /\ recurrings' = [recurrings EXCEPT ![i] = r]
        /\ payerRecurrings' = payerRecurrings
    BY <1>2 DEF ExecuteRecurring, Running
  <2>2. q \in RecurringRecord
    BY <1>0, <2>1
  <2>3. due \in Nat /\ q.execution_count + 1 \in Nat
    BY <2>2 DEF RecurringRecord
  <2> HIDE DEF due
  <2>4. charged \in RecurringRecord /\ charged.payer = q.payer
    BY <2>2, <2>3 DEF RecurringRecord
  <2>5. done \in BOOLEAN /\ done = ~Finished(charged)
    BY DEF Finished
  <2> HIDE DEF charged, q, done
  <2>6. /\ r \in RecurringRecord /\ r.payer = charged.payer /\ r.active = done
        /\ r.max_executions = charged.max_executions /\ r.execution_count = charged.execution_count
    BY <2>4, <2>5 DEF RecurringRecord
  <2>7. Finished(r) <=> Finished(charged)
    BY <2>6 DEF Finished
  <2> HIDE DEF r
  <2>8. r.payer = recurrings[i].payer
    BY <2>4, <2>6 DEF q
  <2>9. ~(r.active /\ Finished(r))
    BY <2>5, <2>6, <2>7
  <2> QED BY <1>0, <2>1, <2>6, <2>8, <2>9, RecordKeepsRunning
<1>3. ASSUME NEW c \in Account, NEW i \in RecurringId, NEW x \in Amounts, NEW d \in Intervals,
             AmendRecurring(c, i, x, d)
      PROVE  \A j \in DOMAIN recurrings' : OnlyResumed(j)
  <2> DEFINE q == recurrings[i]
             r == [q EXCEPT !.amount = x, !.interval = d]
  <2>1. /\ i \in DOMAIN recurrings /\ recurrings' = [recurrings EXCEPT ![i] = r]
        /\ payerRecurrings' = payerRecurrings
    BY <1>3 DEF AmendRecurring, Running
  <2>2. q \in RecurringRecord /\ x \in Nat /\ d \in Nat
    BY <1>0, <2>1, PayEscrowAssumption, PayRecurringAssumption
  <2> HIDE DEF q
  <2>3. /\ r \in RecurringRecord /\ r.payer = q.payer
        /\ r.max_executions = q.max_executions /\ r.execution_count = q.execution_count
    BY <2>2 DEF RecurringRecord
  <2>4. Finished(r) => Finished(q)
    BY <2>3 DEF Finished
  <2> HIDE DEF r
  <2>5. r.payer = recurrings[i].payer /\ (Finished(r) => Finished(recurrings[i]))
    BY <2>3, <2>4 DEF q
  <2> QED BY <1>0, <2>1, <2>3, <2>5, RecordKeepsRunning
<1>4. ASSUME NEW c \in Account, NEW ids \in SUBSET RecurringId, CancelRecurringBatch(c, ids),
             NEW j \in DOMAIN recurrings', Revived(j)'
      PROVE  j \in DOMAIN recurrings /\ Revived(j)
  <2> DEFINE on == recurrings[j].active /\ j \notin ids
             r == [recurrings[j] EXCEPT !.active = on]
  <2>1. /\ DOMAIN recurrings' = DOMAIN recurrings /\ recurrings'[j] = r
        /\ payerRecurrings' = payerRecurrings
    BY <1>4 DEF CancelRecurringBatch
  <2>2. recurrings[j] \in RecurringRecord /\ on \in BOOLEAN /\ (on => recurrings[j].active)
    BY <1>0, <2>1
  <2> HIDE DEF on
  <2>3. /\ r.payer = recurrings[j].payer /\ r.active = on
        /\ r.max_executions = recurrings[j].max_executions
        /\ r.execution_count = recurrings[j].execution_count
    BY <2>2 DEF RecurringRecord
  <2> HIDE DEF r
  <2>4. /\ r.active
        /\ j \notin IndexOf(payerRecurrings'[r.payer]) \/ Finished(r)
    BY <1>4, <2>1 DEF Revived, Running
  <2> QED BY <2>1, <2>2, <2>3, <2>4 DEF Revived, Running, Finished
<1>5. ASSUME NEW c \in Account, NEW i \in RecurringId,
             CancelRecurring(c, i) \/ PauseRecurring(c, i) \/ ResumeRecurring(c, i)
      PROVE  \A j \in DOMAIN recurrings' : OnlyResumed(j)
  <2> DEFINE q == recurrings[i]
             off == [q EXCEPT !.active = FALSE]
             on == [q EXCEPT !.active = TRUE]
  <2>1. i \in DOMAIN recurrings /\ q \in RecurringRecord
    BY <1>0, <1>5 DEF CancelRecurring, PauseRecurring, ResumeRecurring, Running
  <2>2. /\ off \in RecurringRecord /\ off.payer = q.payer /\ ~off.active
        /\ on \in RecurringRecord /\ on.payer = q.payer
    <3> HIDE DEF q
    <3> QED BY <2>1 DEF RecurringRecord
  <2>3. CASE CancelRecurring(c, i) \/ PauseRecurring(c, i)
    <3>1. recurrings' = [recurrings EXCEPT ![i] = off]
      BY <2>3 DEF CancelRecurring, PauseRecurring
    <3>2. \/ payerRecurrings' = payerRecurrings
          \/ payerRecurrings' = [payerRecurrings EXCEPT ![recurrings[i].payer] = Without(@, i)]
      BY <2>3 DEF CancelRecurring, PauseRecurring
    <3> HIDE DEF off
    <3> QED BY <1>0, <2>1, <2>2, <3>1, <3>2, RecordKeepsRunning
  <2>4. CASE ResumeRecurring(c, i)
    <3>1. recurrings' = [recurrings EXCEPT ![i] = on] /\ ~recurrings[i].active
          /\ payerRecurrings' = payerRecurrings
      BY <2>4 DEF ResumeRecurring
    <3> HIDE DEF on
    <3> QED BY <1>0, <2>1, <2>2, <3>1, RecordKeepsRunning
  <2> QED BY <1>5, <2>3, <2>4
<1> QED
  BY <1>1, <1>2, <1>3, <1>4, <1>5 DEF RecurringNext, OnlyResumed

\* A recurring payment is charged for past intervals only, and one that was
\* cancelled or is finished stays so unless its payer resumes it.
THEOREM RecurringsStayInStep == Spec => RecurringsInStep
<1>1. ASSUME IInv, UNCHANGED recurringVars PROVE RecurringStep
  <2>1. recurrings' = recurrings /\ payerRecurrings' = payerRecurrings
    BY <1>1 DEF recurringVars
  <2>2. ASSUME NEW i \in DOMAIN recurrings PROVE Revived(i)' <=> Revived(i)
    BY <2>1 DEF Revived, Running, Finished
  <2>3. \A i \in DOMAIN recurrings : recurrings[i].last_charged_ledger <= now
    BY <1>1 DEF IInv, RecurringInv
  <2> QED BY <2>1, <2>2, <2>3 DEF RecurringStep
<1>2. ASSUME IInv, Next PROVE RecurringStep
  <2>1. CASE RecurringNext /\ UNCHANGED <<disputeVars, splitVars, ownVars>>
    <3>1. now' = now
      BY <2>1 DEF RecurringNext, SetupRecurring, ExecuteRecurring, AmendRecurring,
                  CancelRecurringBatch, CancelRecurring, PauseRecurring, ResumeRecurring, fundsAside
    <3>2. \A i \in DOMAIN recurrings' : recurrings'[i].last_charged_ledger <= now'
      BY <1>2, NextKeeps DEF Kept, RecurringInv
    <3>3. \A i \in DOMAIN recurrings' : OnlyResumed(i)
      BY <1>2, <2>1, RecurringStepLemma
    <3> QED BY <3>1, <3>2, <3>3 DEF RecurringStep, OnlyResumed
  <2>2. CASE ~(RecurringNext /\ UNCHANGED <<disputeVars, splitVars, ownVars>>)
    <3>1. UNCHANGED recurringVars
      BY <1>2, <2>2
         DEF Next, poolVars, otherVars, CreateMultiEscrow, ReleaseMultiEscrow, RefundMultiEscrow,
             RevenueSplit, CreateVesting, ClaimVesting, EmergencyWithdraw, SetAuthorized, Airdrop
    <3> QED BY <1>1, <1>2, <3>1
  <2> QED BY <2>1, <2>2
<1>3. ASSUME IInv, UNCHANGED vars PROVE RecurringStep
  <2>1. UNCHANGED recurringVars
    BY <1>3 DEF vars, poolVars
  <2> QED BY <1>1, <1>3, <2>1
<1> QED
  BY Invariance, <1>2, <1>3, PTL DEF Spec, RecurringsInStep

=============================================================================
