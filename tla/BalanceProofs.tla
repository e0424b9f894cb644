---------------------------- MODULE BalanceProofs ----------------------------
(***************************************************************************)
(* Facts that the proofs of the components rest on: spend_balance and      *)
(* receive_balance keep the type of the ledger and its exact holder set;   *)
(* how records in a sequence are written back and appended; how a sum over *)
(* a finite set changes with one of its terms; and, from the last, what    *)
(* debits and credits do to the tokens held by all addresses.              *)
(***************************************************************************)
EXTENDS Balance, SequenceTheorems, FiniteSetTheorems, TLAPS

\* Crediting an address keeps the ledger well typed and the holder set exact.
LEMMA ReceiveLemma ==
    ASSUME NEW l \in LedgerType, NEW a \in Address, NEW x \in Nat
    PROVE  /\ Receive(l, a, x) \in LedgerType
           /\ Receive(l, a, x).balance = [l.balance EXCEPT ![a] = @ + x]
           /\ HolderSetExact(l) => HolderSetExact(Receive(l, a, x))
<1> DEFINE paid == [l EXCEPT !.balance[a] = @ + x]
<1>1. /\ paid \in LedgerType
      /\ paid.balance = [l.balance EXCEPT ![a] = @ + x]
      /\ paid.holders = l.holders
  BY DEF LedgerType
<1>4. Receive(l, a, x) = IF l.balance[a] = 0 THEN UpdateHolderSet(paid, a) ELSE paid
  BY DEF Receive
<1> HIDE DEF paid
<1>2. CASE l.balance[a] = 0
  <2>1. Receive(l, a, x) = UpdateHolderSet(paid, a)
    BY <1>2, <1>4
  <2>2. /\ UpdateHolderSet(paid, a) \in LedgerType
        /\ UpdateHolderSet(paid, a).balance = paid.balance
        /\ UpdateHolderSet(paid, a).holders =
              IF paid.balance[a] > 0 THEN l.holders \cup {a} ELSE l.holders \ {a}
    BY <1>1 DEF UpdateHolderSet, LedgerType
  <2>3. ASSUME HolderSetExact(l) PROVE HolderSetExact(Receive(l, a, x))
    BY <1>1, <1>2, <2>1, <2>2, <2>3 DEF HolderSetExact, LedgerType
  <2> QED
    BY <1>1, <2>1, <2>2, <2>3
<1>3. CASE l.balance[a] # 0
  <2>1. Receive(l, a, x) = paid
    BY <1>3, <1>4
  <2>2. ASSUME HolderSetExact(l) PROVE HolderSetExact(paid)
    BY <1>1, <1>3, <2>2 DEF HolderSetExact, LedgerType
  <2> QED
    BY <1>1, <2>1, <2>2
<1> QED
  BY <1>2, <1>3

\* Debiting an address that has the amount does the same.
LEMMA SpendLemma ==
    ASSUME NEW l \in LedgerType, NEW a \in Address, NEW x \in Nat, CanSpend(l, a, x)
    PROVE  /\ Spend(l, a, x) \in LedgerType
           /\ Spend(l, a, x).balance = [l.balance EXCEPT ![a] = @ - x]
           /\ HolderSetExact(l) => HolderSetExact(Spend(l, a, x))
<1> DEFINE spent == [l EXCEPT !.balance[a] = @ - x]
<1>1. /\ spent \in LedgerType
      /\ spent.balance = [l.balance EXCEPT ![a] = @ - x]
      /\ spent.holders = l.holders
  BY DEF LedgerType, CanSpend
<1>4. Spend(l, a, x) = IF spent.balance[a] = 0 THEN UpdateHolderSet(spent, a) ELSE spent
  BY DEF Spend
<1> HIDE DEF spent
<1>2. CASE spent.balance[a] = 0
  <2>1. Spend(l, a, x) = UpdateHolderSet(spent, a)
    BY <1>2, <1>4
  <2>2. /\ UpdateHolderSet(spent, a) \in LedgerType
        /\ UpdateHolderSet(spent, a).balance = spent.balance
        /\ UpdateHolderSet(spent, a).holders = l.holders \ {a}
    BY <1>1, <1>2 DEF UpdateHolderSet, LedgerType
  <2>3. ASSUME HolderSetExact(l) PROVE HolderSetExact(Spend(l, a, x))
    BY <1>1, <1>2, <2>1, <2>2, <2>3 DEF HolderSetExact, LedgerType
  <2> QED
    BY <1>1, <2>1, <2>2, <2>3
<1>3. CASE spent.balance[a] # 0
  <2>1. Spend(l, a, x) = spent
    BY <1>3, <1>4
  <2>2. ASSUME HolderSetExact(l) PROVE HolderSetExact(spent)
    BY <1>1, <1>3, <2>2 DEF HolderSetExact, LedgerType, CanSpend
  <2> QED
    BY <1>1, <2>1, <2>2
<1> QED
  BY <1>2, <1>3

\* Moving an amount that the payer has keeps the type and the holder set,
\* whether or not payer and payee are the same address.
LEMMA MoveLemma ==
    ASSUME NEW l \in LedgerType, NEW from \in Address, NEW to \in Address,
           NEW x \in Nat, CanSpend(l, from, x)
    PROVE  /\ Move(l, from, to, x) \in LedgerType
           /\ Move(l, from, to, x).balance =
                 [[l.balance EXCEPT ![from] = @ - x] EXCEPT ![to] = @ + x]
           /\ HolderSetExact(l) => HolderSetExact(Move(l, from, to, x))
<1> DEFINE spent == Spend(l, from, x)
<1>1. /\ spent \in LedgerType
      /\ spent.balance = [l.balance EXCEPT ![from] = @ - x]
      /\ HolderSetExact(l) => HolderSetExact(spent)
  BY SpendLemma
<1>2. Move(l, from, to, x) = Receive(spent, to, x)
  BY DEF Move
<1> HIDE DEF spent
<1>3. /\ Receive(spent, to, x) \in LedgerType
      /\ Receive(spent, to, x).balance = [spent.balance EXCEPT ![to] = @ + x]
      /\ HolderSetExact(spent) => HolderSetExact(Receive(spent, to, x))
  BY <1>1, ReceiveLemma
<1> QED
  BY <1>1, <1>2, <1>3

-----------------------------------------------------------------------------
(***************************************************************************)
(* Records kept in a sequence, indexed by their id.                        *)
(***************************************************************************)

\* Writing one record back.
LEMMA RecordUpdate ==
    ASSUME NEW R, NEW s \in Seq(R), NEW i \in 1 .. Len(s), NEW r \in R
    PROVE  /\ [s EXCEPT ![i] = r] \in Seq(R)
           /\ Len([s EXCEPT ![i] = r]) = Len(s)
           /\ \A j \in 1 .. Len(s) : [s EXCEPT ![i] = r][j] = IF j = i THEN r ELSE s[j]
BY ExceptSeq

\* A record of the sequence is a record.
LEMMA RecordAt ==
    ASSUME NEW R, NEW s \in Seq(R), NEW i \in 1 .. Len(s)
    PROVE  s[i] \in R
OBVIOUS

\* A new record gets the next id.
LEMMA RecordAppend ==
    ASSUME NEW R, NEW s \in Seq(R), NEW r \in R
    PROVE  /\ Append(s, r) \in Seq(R) /\ Len(Append(s, r)) = Len(s) + 1 /\ Len(s) \in Nat
           /\ \A j \in 1 .. Len(s) : Append(s, r)[j] = s[j]
           /\ Append(s, r)[Len(s) + 1] = r
BY AppendProperties, LenProperties

-----------------------------------------------------------------------------
(***************************************************************************)
(* Sums over finite sets: SumFunctionOnSet is the fold of module           *)
(* FoldProofs with addition as its step.                                   *)
(***************************************************************************)
Plus(p, x, y) == x + y
AnyOf(s) == CHOOSE x \in s : TRUE

Sums == INSTANCE FoldProofs WITH Op <- Plus, Choose <- AnyOf

\* What the instance calls a finite set is one, an element is found in every
\* non-empty set, and a sum is the instance's fold.
LEMMA SumIsFold ==
    /\ \A S : IsFiniteSet(S) => Sums!IsFiniteSet(S)
    /\ \A S : Sums!Chooses(S)
    /\ \A f, S : SumFunctionOnSet(f, S) = Sums!Fold({}, f, 0, S)
<1>1. ASSUME NEW S PROVE IsFiniteSet(S) => Sums!IsFiniteSet(S)
  BY DEF IsFiniteSet, Sums!IsFiniteSet
<1>2. ASSUME NEW S PROVE Sums!Chooses(S)
  BY DEF Sums!Chooses, AnyOf
<1>3. ASSUME NEW f, NEW S PROVE SumFunctionOnSet(f, S) = Sums!Fold({}, f, 0, S)
  BY DEF SumFunctionOnSet, FoldFunctionOnSet, MapThenFoldSet, Plus, AnyOf,
         Sums!Fold, Sums!FoldsOf, Sums!Folds
<1> QED
  BY <1>1, <1>2, <1>3

\* Every non-empty set of subsets of a finite set has a minimal element.
LEMMA Smallest ==
    ASSUME NEW S, IsFiniteSet(S), NEW T \in SUBSET (SUBSET S), T # {}
    PROVE  \E s \in T : \A t \in T : t \subseteq s => t = s
BY SumIsFold, Sums!SmallestSubset

\* Every non-empty finite set of integers has a largest element.
LEMMA Largest ==
    ASSUME NEW S, IsFiniteSet(S), S # {}, \A x \in S : x \in Int
    PROVE  \E x \in S : \A y \in S : x >= y
BY SumIsFold, Sums!LargestElement

\* The sum over the empty set.
LEMMA SumEmpty ==
    ASSUME NEW f
    PROVE  SumFunctionOnSet(f, {}) = 0
BY SumIsFold, Sums!FoldEmpty

\* The sum over a set that has an element: the one chosen, and the rest.
LEMMA SumStep ==
    ASSUME NEW S, IsFiniteSet(S), S # {}, NEW f
    PROVE  /\ AnyOf(S) \in S
           /\ SumFunctionOnSet(f, S) = f[AnyOf(S)] + SumFunctionOnSet(f, S \ {AnyOf(S)})
<1>1. /\ AnyOf(S) \in S
      /\ Sums!Fold({}, f, 0, S) = Plus({}, f[AnyOf(S)], Sums!Fold({}, f, 0, S \ {AnyOf(S)}))
  BY SumIsFold, Sums!FoldStep
<1> QED
  BY <1>1, SumIsFold DEF Plus

\* The sum of zeros.
LEMMA SumZero ==
    ASSUME NEW S, IsFiniteSet(S)
    PROVE  SumFunctionOnSet([x \in S |-> 0], S) = 0
<1> DEFINE f == [x \in S |-> 0]
           Bad == {s \in SUBSET S : SumFunctionOnSet(f, s) # 0}
<1>1. SUFFICES ASSUME Bad # {} PROVE FALSE
  OBVIOUS
<1>2. PICK s \in Bad : \A t \in Bad : t \subseteq s => t = s
  <2>1. Bad \in SUBSET (SUBSET S)
    OBVIOUS
  <2> HIDE DEF Bad
  <2> QED BY <1>1, <2>1, Smallest
<1>3. s # {}
  BY <1>2, SumEmpty
<1>4. s \subseteq S /\ IsFiniteSet(s)
  BY <1>2, FS_Subset
<1> DEFINE r == s \ {AnyOf(s)}
<1>5. AnyOf(s) \in s /\ SumFunctionOnSet(f, s) = f[AnyOf(s)] + SumFunctionOnSet(f, r)
  <2> HIDE DEF f
  <2> QED BY <1>3, <1>4, SumStep
<1>6. SumFunctionOnSet(f, r) = 0 /\ f[AnyOf(s)] = 0
  BY <1>2, <1>4, <1>5
<1> QED
  BY <1>2, <1>5, <1>6

\* A sum of integers is an integer, and one of naturals a natural.
LEMMA SumType ==
    ASSUME NEW S, IsFiniteSet(S), NEW f, \A x \in S : f[x] \in Int
    PROVE  /\ SumFunctionOnSet(f, S) \in Int
           /\ (\A x \in S : f[x] >= 0) => SumFunctionOnSet(f, S) >= 0
<1> DEFINE good(s) == /\ SumFunctionOnSet(f, s) \in Int
                      /\ (\A x \in s : f[x] >= 0) => SumFunctionOnSet(f, s) >= 0
           Bad == {s \in SUBSET S : ~good(s)}
<1>1. SUFFICES ASSUME Bad # {} PROVE FALSE
  OBVIOUS
<1>2. PICK s \in Bad : \A t \in Bad : t \subseteq s => t = s
  <2>1. Bad \in SUBSET (SUBSET S)
    OBVIOUS
  <2> HIDE DEF Bad
  <2> QED BY <1>1, <2>1, Smallest
<1>3. s # {}
  <2>1. good({})
    BY SumEmpty
  <2> QED BY <1>2, <2>1
<1>4. s \subseteq S /\ IsFiniteSet(s)
  BY <1>2, FS_Subset
<1> DEFINE r == s \ {AnyOf(s)}
<1>5. AnyOf(s) \in s /\ SumFunctionOnSet(f, s) = f[AnyOf(s)] + SumFunctionOnSet(f, r)
  BY <1>3, <1>4, SumStep
<1>6. r \in SUBSET S /\ r # s /\ r \subseteq s
  BY <1>4, <1>5
<1>7. good(r)
  BY <1>2, <1>6
<1>8. f[AnyOf(s)] \in Int
  BY <1>4, <1>5
<1>9. good(s)
  <2> HIDE DEF r
  <2> QED BY <1>5, <1>6, <1>7, <1>8
<1> QED
  BY <1>2, <1>9

\* Any element can be taken out first.
LEMMA SumRemove ==
    ASSUME NEW S, IsFiniteSet(S), NEW f, \A x \in S : f[x] \in Int, NEW e \in S
    PROVE  SumFunctionOnSet(f, S) = f[e] + SumFunctionOnSet(f, S \ {e})
<1> DEFINE good(s) == \A x \in s : SumFunctionOnSet(f, s) = f[x] + SumFunctionOnSet(f, s \ {x})
           Bad == {s \in SUBSET S : ~good(s)}
<1>1. SUFFICES ASSUME Bad # {} PROVE FALSE
  OBVIOUS
<1>2. PICK s \in Bad : \A t \in Bad : t \subseteq s => t = s
  <2>1. Bad \in SUBSET (SUBSET S)
    OBVIOUS
  <2> HIDE DEF Bad
  <2> QED BY <1>1, <2>1, Smallest
<1>3. PICK x \in s : SumFunctionOnSet(f, s) # f[x] + SumFunctionOnSet(f, s \ {x})
  BY <1>2
<1>4. s \subseteq S /\ IsFiniteSet(s) /\ s # {}
  BY <1>2, <1>3, FS_Subset
<1> DEFINE c == AnyOf(s)
           r == s \ {c}
<1>5. c \in s /\ SumFunctionOnSet(f, s) = f[c] + SumFunctionOnSet(f, r)
  BY <1>4, SumStep
<1>6. r \in SUBSET S /\ r # s /\ r \subseteq s /\ c \notin r
  BY <1>4, <1>5
<1>7. good(r)
  BY <1>2, <1>6
<1>8. x # c /\ x \in r
  BY <1>3, <1>5
<1>9. SumFunctionOnSet(f, r) = f[x] + SumFunctionOnSet(f, r \ {x})
  BY <1>7, <1>8
<1> DEFINE q == s \ {x}
<1>10. q \in SUBSET S /\ q # s /\ q \subseteq s /\ c \in q /\ q \ {c} = r \ {x}
  BY <1>4, <1>5, <1>8
<1>11. good(q)
  BY <1>2, <1>10
<1>12. SumFunctionOnSet(f, q) = f[c] + SumFunctionOnSet(f, r \ {x})
  BY <1>10, <1>11
<1>13. SumFunctionOnSet(f, r \ {x}) \in Int /\ f[c] \in Int /\ f[x] \in Int
  <2>1. IsFiniteSet(r \ {x}) /\ \A y \in r \ {x} : f[y] \in Int
    BY <1>4, <1>6, FS_Subset
  <2> HIDE DEF r
  <2> QED BY <1>4, <1>5, <2>1, SumType
<1> HIDE DEF c, r, q, good
<1> QED
  BY <1>3, <1>5, <1>9, <1>12, <1>13 DEF q

\* The sum depends on the values at the set's elements only.
LEMMA SumSame ==
    ASSUME NEW S, IsFiniteSet(S), NEW f, NEW g, \A x \in S : f[x] = g[x]
    PROVE  SumFunctionOnSet(f, S) = SumFunctionOnSet(g, S)
<1> DEFINE Bad == {s \in SUBSET S : SumFunctionOnSet(f, s) # SumFunctionOnSet(g, s)}
<1>1. SUFFICES ASSUME Bad # {} PROVE FALSE
  OBVIOUS
<1>2. PICK s \in Bad : \A t \in Bad : t \subseteq s => t = s
  <2>1. Bad \in SUBSET (SUBSET S)
    OBVIOUS
  <2> HIDE DEF Bad
  <2> QED BY <1>1, <2>1, Smallest
<1>3. s # {}
  BY <1>2, SumEmpty
<1>4. s \subseteq S /\ IsFiniteSet(s)
  BY <1>2, FS_Subset
<1> DEFINE r == s \ {AnyOf(s)}
<1>5. /\ AnyOf(s) \in s
      /\ SumFunctionOnSet(f, s) = f[AnyOf(s)] + SumFunctionOnSet(f, r)
      /\ SumFunctionOnSet(g, s) = g[AnyOf(s)] + SumFunctionOnSet(g, r)
  BY <1>3, <1>4, SumStep
<1>6. SumFunctionOnSet(f, r) = SumFunctionOnSet(g, r)
  BY <1>2, <1>4, <1>5
<1>7. f[AnyOf(s)] = g[AnyOf(s)]
  BY <1>4, <1>5
<1> QED
  BY <1>2, <1>5, <1>6, <1>7

\* Changing one value changes the sum by the difference.
LEMMA SumUpdate ==
    ASSUME NEW S, IsFiniteSet(S), NEW f, NEW g, NEW e \in S,
           \A x \in S : f[x] \in Int, g[e] \in Int, \A x \in S \ {e} : g[x] = f[x]
    PROVE  SumFunctionOnSet(g, S) = SumFunctionOnSet(f, S) - f[e] + g[e]
<1>1. IsFiniteSet(S \ {e})
  BY FS_Subset
<1>2. SumFunctionOnSet(g, S \ {e}) = SumFunctionOnSet(f, S \ {e})
  BY <1>1, SumSame
<1>3. SumFunctionOnSet(f, S) = f[e] + SumFunctionOnSet(f, S \ {e})
  BY SumRemove
<1>4. SumFunctionOnSet(g, S) = g[e] + SumFunctionOnSet(g, S \ {e})
  BY SumRemove
<1>5. SumFunctionOnSet(f, S \ {e}) \in Int
  BY <1>1, SumType
<1> QED
  BY <1>2, <1>3, <1>4, <1>5

\* Where no value grows, nor does the sum.
LEMMA SumMonotone ==
    ASSUME NEW S, IsFiniteSet(S), NEW f, NEW g,
           \A x \in S : f[x] \in Int /\ g[x] \in Int /\ f[x] <= g[x]
    PROVE  SumFunctionOnSet(f, S) <= SumFunctionOnSet(g, S)
<1> DEFINE Bad == {s \in SUBSET S : ~(SumFunctionOnSet(f, s) <= SumFunctionOnSet(g, s))}
<1>1. SUFFICES ASSUME Bad # {} PROVE FALSE
  OBVIOUS
<1>2. PICK s \in Bad : \A t \in Bad : t \subseteq s => t = s
  <2>1. Bad \in SUBSET (SUBSET S)
    OBVIOUS
  <2> HIDE DEF Bad
  <2> QED BY <1>1, <2>1, Smallest
<1>3. s # {}
  BY <1>2, SumEmpty
<1>4. s \subseteq S /\ IsFiniteSet(s)
  BY <1>2, FS_Subset
<1> DEFINE r == s \ {AnyOf(s)}
<1>5. /\ AnyOf(s) \in s
      /\ SumFunctionOnSet(f, s) = f[AnyOf(s)] + SumFunctionOnSet(f, r)
      /\ SumFunctionOnSet(g, s) = g[AnyOf(s)] + SumFunctionOnSet(g, r)
  BY <1>3, <1>4, SumStep
<1>6. SumFunctionOnSet(f, r) <= SumFunctionOnSet(g, r)
  BY <1>2, <1>4, <1>5
<1>7. f[AnyOf(s)] <= g[AnyOf(s)] /\ f[AnyOf(s)] \in Int /\ g[AnyOf(s)] \in Int
  BY <1>4, <1>5
<1>8. SumFunctionOnSet(f, r) \in Int /\ SumFunctionOnSet(g, r) \in Int
  <2>1. IsFiniteSet(r) /\ (\A x \in r : f[x] \in Int) /\ (\A x \in r : g[x] \in Int)
    BY <1>4, FS_Subset
  <2> HIDE DEF r
  <2> QED BY <2>1, SumType
<1>9. SumFunctionOnSet(f, s) <= SumFunctionOnSet(g, s)
  <2> HIDE DEF r
  <2> QED BY <1>5, <1>6, <1>7, <1>8
<1> QED
  BY <1>2, <1>9

\* Adding a difference to one value adds it to the sum.
LEMMA SumShift ==
    ASSUME NEW S, IsFiniteSet(S), NEW f \in [S -> Int], NEW e \in S, NEW d \in Int
    PROVE  SumFunctionOnSet([f EXCEPT ![e] = @ + d], S) = SumFunctionOnSet(f, S) + d
<1> DEFINE g == [f EXCEPT ![e] = @ + d]
<1>1. /\ \A x \in S : f[x] \in Int
      /\ g[e] \in Int /\ g[e] = f[e] + d
      /\ \A x \in S \ {e} : g[x] = f[x]
  OBVIOUS
<1> HIDE DEF g
<1>2. SumFunctionOnSet(g, S) = SumFunctionOnSet(f, S) - f[e] + g[e]
  BY <1>1, SumUpdate
<1>3. SumFunctionOnSet(f, S) \in Int
  BY <1>1, SumType
<1> QED
  BY <1>1, <1>2, <1>3 DEF g

\* Moving a difference from one value to another, or the same, does not
\* change the sum.
LEMMA SumMove ==
    ASSUME NEW S, IsFiniteSet(S), NEW f \in [S -> Int], NEW a \in S, NEW b \in S, NEW x \in Int
    PROVE  SumFunctionOnSet([[f EXCEPT ![a] = @ - x] EXCEPT ![b] = @ + x], S)
              = SumFunctionOnSet(f, S)
<1> DEFINE g == [f EXCEPT ![a] = @ + (-x)]
<1>0. -x \in Int /\ f[a] - x = f[a] + (-x)
  OBVIOUS
<1>1. g \in [S -> Int]
  BY <1>0
<1>5. g = [f EXCEPT ![a] = @ - x]
  BY <1>0
<1>2. SumFunctionOnSet(g, S) = SumFunctionOnSet(f, S) + (-x)
  BY <1>0, SumShift
<1> HIDE DEF g
<1>3. SumFunctionOnSet([g EXCEPT ![b] = @ + x], S) = SumFunctionOnSet(g, S) + x
  BY <1>1, SumShift
<1>4. SumFunctionOnSet(f, S) \in Int
  <2>1. \A y \in S : f[y] \in Int
    OBVIOUS
  <2> QED BY <2>1, SumType
<1> QED
  BY <1>2, <1>3, <1>4, <1>5

\* The sum over disjoint sets.
LEMMA SumUnion ==
    ASSUME NEW S, IsFiniteSet(S), NEW T, IsFiniteSet(T), S \cap T = {}, NEW f,
           \A x \in S \cup T : f[x] \in Int
    PROVE  SumFunctionOnSet(f, S \cup T) = SumFunctionOnSet(f, S) + SumFunctionOnSet(f, T)
<1> DEFINE good(s) == SumFunctionOnSet(f, s \cup T) = SumFunctionOnSet(f, s) + SumFunctionOnSet(f, T)
           Bad == {s \in SUBSET S : ~good(s)}
<1>0. SumFunctionOnSet(f, T) \in Int
  BY SumType
<1>1. SUFFICES ASSUME Bad # {} PROVE FALSE
  OBVIOUS
<1>2. PICK s \in Bad : \A t \in Bad : t \subseteq s => t = s
  <2>1. Bad \in SUBSET (SUBSET S)
    OBVIOUS
  <2> HIDE DEF Bad
  <2> QED BY <1>1, <2>1, Smallest
<1>3. s # {}
  <2>1. {} \cup T = T
    OBVIOUS
  <2>2. good({})
    BY <1>0, <2>1, SumEmpty
  <2> QED BY <1>2, <2>2
<1>4. s \subseteq S /\ IsFiniteSet(s) /\ IsFiniteSet(s \cup T)
  BY <1>2, FS_Subset, FS_Union
<1>5. PICK e \in s : TRUE
  BY <1>3
<1> DEFINE r == s \ {e}
<1>6. r \in SUBSET S /\ r # s /\ r \subseteq s /\ (s \cup T) \ {e} = r \cup T
  BY <1>4, <1>5
<1>7. good(r)
  BY <1>2, <1>6
<1>8. SumFunctionOnSet(f, s) = f[e] + SumFunctionOnSet(f, r)
  BY <1>4, <1>5, SumRemove
<1>9. SumFunctionOnSet(f, s \cup T) = f[e] + SumFunctionOnSet(f, r \cup T)
  <2>1. SumFunctionOnSet(f, s \cup T) = f[e] + SumFunctionOnSet(f, (s \cup T) \ {e})
    <3>1. e \in s \cup T /\ \A x \in s \cup T : f[x] \in Int
      BY <1>4, <1>5
    <3> QED BY <1>4, <3>1, SumRemove
  <2> QED BY <1>6, <2>1
<1>10. f[e] \in Int /\ SumFunctionOnSet(f, r) \in Int
  <2>1. IsFiniteSet(r) /\ \A x \in r : f[x] \in Int
    BY <1>4, <1>6, FS_Subset
  <2> QED BY <1>4, <1>5, <2>1, SumType
<1>11. good(s)
  <2> HIDE DEF r
  <2> QED BY <1>0, <1>7, <1>8, <1>9, <1>10
<1> QED
  BY <1>2, <1>11

\* The sum once some of the terms are set to zero.
LEMMA SumCleared ==
    ASSUME NEW S, IsFiniteSet(S), NEW T, T \subseteq S, NEW f, \A x \in S : f[x] \in Int
    PROVE  /\ SumFunctionOnSet([x \in S |-> IF x \in T THEN 0 ELSE f[x]], S)
                 = SumFunctionOnSet(f, S) - SumFunctionOnSet(f, T)
           /\ SumFunctionOnSet(f, S) \in Int /\ SumFunctionOnSet(f, T) \in Int
<1> DEFINE R == S \ T
           g == [x \in S |-> IF x \in T THEN 0 ELSE f[x]]
<1>1. IsFiniteSet(R) /\ IsFiniteSet(T) /\ R \cap T = {} /\ R \cup T = S
  BY FS_Subset
<1>2. /\ \A x \in R : g[x] = f[x]
      /\ \A x \in T : g[x] = [y \in T |-> 0][x]
      /\ \A x \in R \cup T : g[x] \in Int /\ f[x] \in Int
  OBVIOUS
<1> HIDE DEF R, g
<1>3. SumFunctionOnSet(g, R) = SumFunctionOnSet(f, R)
  BY <1>1, <1>2, SumSame
<1>4. SumFunctionOnSet(g, T) = 0
  <2>1. SumFunctionOnSet(g, T) = SumFunctionOnSet([y \in T |-> 0], T)
    BY <1>1, <1>2, SumSame
  <2> QED BY <1>1, <2>1, SumZero
<1>5. SumFunctionOnSet(g, R \cup T) = SumFunctionOnSet(g, R) + SumFunctionOnSet(g, T)
  BY <1>1, <1>2, SumUnion
<1>6. SumFunctionOnSet(f, R \cup T) = SumFunctionOnSet(f, R) + SumFunctionOnSet(f, T)
  BY <1>1, <1>2, SumUnion
<1>7. SumFunctionOnSet(f, R) \in Int /\ SumFunctionOnSet(f, T) \in Int
  BY <1>1, <1>2, SumType
<1>8. SumFunctionOnSet(g, R \cup T) = SumFunctionOnSet(f, R \cup T) - SumFunctionOnSet(f, T)
      /\ SumFunctionOnSet(f, R \cup T) \in Int
  BY <1>3, <1>4, <1>5, <1>6, <1>7
<1> QED
  BY <1>1, <1>7, <1>8 DEF g

\* The sum over the image of a set under an injection.
LEMMA SumImage ==
    ASSUME NEW S, IsFiniteSet(S), NEW h, \A x, y \in S : h[x] = h[y] => x = y,
           NEW f, NEW g, \A x \in S : f[h[x]] = g[x] /\ g[x] \in Int
    PROVE  /\ IsFiniteSet({h[x] : x \in S})
           /\ SumFunctionOnSet(f, {h[x] : x \in S}) = SumFunctionOnSet(g, S)
<1> DEFINE image(s) == {h[x] : x \in s}
           good(s) == IsFiniteSet(image(s)) /\ SumFunctionOnSet(f, image(s)) = SumFunctionOnSet(g, s)
           Bad == {s \in SUBSET S : ~good(s)}
<1>1. SUFFICES ASSUME Bad # {} PROVE FALSE
  OBVIOUS
<1>2. PICK s \in Bad : \A t \in Bad : t \subseteq s => t = s
  <2>1. Bad \in SUBSET (SUBSET S)
    OBVIOUS
  <2> HIDE DEF Bad
  <2> QED BY <1>1, <2>1, Smallest
<1>3. s # {}
  <2>1. image({}) = {}
    OBVIOUS
  <2> HIDE DEF image
  <2>2. good({})
    BY <2>1, SumEmpty, FS_EmptySet
  <2> QED BY <1>2, <2>2
<1>4. s \subseteq S /\ IsFiniteSet(s)
  BY <1>2, FS_Subset
<1>5. PICK e \in s : TRUE
  BY <1>3
<1> DEFINE r == s \ {e}
<1>6. r \in SUBSET S /\ r # s /\ r \subseteq s
  BY <1>4, <1>5
<1>7. good(r)
  BY <1>2, <1>6
<1>8. image(s) = image(r) \cup {h[e]} /\ h[e] \notin image(r) /\ h[e] \in image(s)
  BY <1>4, <1>5
<1>9. image(s) \ {h[e]} = image(r)
  BY <1>8
<1>10. \A y \in image(s) : f[y] \in Int
  BY <1>4
<1> HIDE DEF image
<1>11. IsFiniteSet(image(s))
  <2>1. IsFiniteSet(image(r) \cup {h[e]})
    BY <1>7, FS_AddElement
  <2> QED BY <1>8, <2>1
<1>12. SumFunctionOnSet(f, image(s)) = f[h[e]] + SumFunctionOnSet(f, image(r))
  <2>1. SumFunctionOnSet(f, image(s)) = f[h[e]] + SumFunctionOnSet(f, image(s) \ {h[e]})
    BY <1>8, <1>10, <1>11, SumRemove
  <2> QED BY <1>9, <2>1
<1>13. SumFunctionOnSet(g, s) = g[e] + SumFunctionOnSet(g, r)
  BY <1>4, <1>5, SumRemove
<1>14. f[h[e]] = g[e]
  BY <1>4, <1>5
<1> QED
  BY <1>2, <1>7, <1>11, <1>12, <1>13, <1>14

-----------------------------------------------------------------------------
(***************************************************************************)
(* The tokens there are: a credit adds to them, a debit takes from them,   *)
(* and moving them about changes nothing.                                  *)
(***************************************************************************)

\* There are finitely many addresses.
LEMMA FiniteAddress == IsFiniteSet(Address)
BY AccountAssumption, FS_AddElement DEF Address

\* The sum of their balances is a natural number.
LEMMA HeldType ==
    ASSUME NEW l \in LedgerType
    PROVE  Held(l) \in Nat
<1>1. IsFiniteSet(Address)
  BY FiniteAddress
<1>2. (\A a \in Address : l.balance[a] \in Int) /\ \A a \in Address : l.balance[a] >= 0
  BY DEF LedgerType
<1>3. Held(l) \in Int /\ Held(l) >= 0
  <2> DEFINE f == l.balance
  <2> HIDE DEF f
  <2>1. (\A a \in Address : f[a] \in Int) /\ \A a \in Address : f[a] >= 0
    BY <1>2 DEF f
  <2>2. SumFunctionOnSet(f, Address) \in Int /\ SumFunctionOnSet(f, Address) >= 0
    BY <1>1, <2>1, SumType
  <2> QED BY <2>2 DEF Held, f
<1> QED
  BY <1>3

\* Changing one balance changes the number of tokens by the difference.
LEMMA HeldUpdate ==
    ASSUME NEW l \in LedgerType, NEW m, NEW a \in Address, NEW d \in Int,
           m.balance = [l.balance EXCEPT ![a] = @ + d]
    PROVE  Held(m) = Held(l) + d
<1>1. IsFiniteSet(Address)
  BY FiniteAddress
<1>2. l.balance \in [Address -> Int]
  BY DEF LedgerType
<1>3. SumFunctionOnSet([l.balance EXCEPT ![a] = @ + d], Address) = Held(l) + d
  BY <1>1, <1>2, SumShift DEF Held
<1> QED
  BY <1>3 DEF Held

\* Moving an amount from one address to another, or the same, changes nothing.
LEMMA HeldMove ==
    ASSUME NEW l \in LedgerType, NEW m, NEW a \in Address, NEW b \in Address, NEW x \in Int,
           m.balance = [[l.balance EXCEPT ![a] = @ - x] EXCEPT ![b] = @ + x]
    PROVE  Held(m) = Held(l)
<1>1. IsFiniteSet(Address)
  BY FiniteAddress
<1>2. l.balance \in [Address -> Int]
  BY DEF LedgerType
<1>3. SumFunctionOnSet([[l.balance EXCEPT ![a] = @ - x] EXCEPT ![b] = @ + x], Address) = Held(l)
  BY <1>1, <1>2, SumMove DEF Held
<1> QED
  BY <1>3 DEF Held

\* A credit makes more tokens, a debit fewer, a transfer neither.
LEMMA HeldLemma ==
    ASSUME NEW l \in LedgerType, NEW a \in Address, NEW b \in Address, NEW x \in Nat
    PROVE  /\ Held(Receive(l, a, x)) = Held(l) + x
           /\ CanSpend(l, a, x) => Held(Spend(l, a, x)) = Held(l) - x
           /\ CanSpend(l, a, x) => Held(Move(l, a, b, x)) = Held(l)
<1>0. Held(l) \in Nat
  BY HeldType
<1>1. Held(Receive(l, a, x)) = Held(l) + x
  <2>1. Receive(l, a, x).balance = [l.balance EXCEPT ![a] = @ + x]
    BY ReceiveLemma
  <2> QED BY <2>1, HeldUpdate
<1>2. ASSUME CanSpend(l, a, x) PROVE Held(Spend(l, a, x)) = Held(l) - x
  <2>1. Spend(l, a, x) \in LedgerType /\ Spend(l, a, x).balance = [l.balance EXCEPT ![a] = @ + (-x)]
    BY <1>2, SpendLemma DEF LedgerType
  <2>2. Held(Spend(l, a, x)) = Held(l) + (-x)
    BY <2>1, HeldUpdate
  <2> QED BY <1>0, <2>2
<1>3. ASSUME CanSpend(l, a, x) PROVE Held(Move(l, a, b, x)) = Held(l)
  <2>1. Move(l, a, b, x).balance = [[l.balance EXCEPT ![a] = @ - x] EXCEPT ![b] = @ + x]
    BY <1>3, MoveLemma
  <2> QED BY <2>1, HeldMove
<1> QED
  BY <1>1, <1>2, <1>3

=============================================================================
