--------------------------- MODULE SplitterProofs ---------------------------
(***************************************************************************)
(* Proofs about splits, for any accounts, recipient lists, amounts and     *)
(* bounds: the statistics agree with the records, the index with the       *)
(* lists, the shares paid with the total, and the pool with the escrows    *)
(* and splits it stands for.                                               *)
(*                                                                         *)
(* A distribution is a fold of payments over the positions of a list, and  *)
(* bulk_distribute a fold of distributions.  Both are treated by an        *)
(* invariant of the fold that is indexed with the set of positions already *)
(* taken: what the recipients there have got, and which splits are marked. *)
(* The balance of the contract covers the vaults (PoolCovered), which is   *)
(* inductive by itself: whatever leaves it, a vault has held it.           *)
(***************************************************************************)
EXTENDS SplitterCustody, BalanceProofs

-----------------------------------------------------------------------------
(***************************************************************************)
(* The shares of a total, in basis points, rounded down.                   *)
(***************************************************************************)

\* Rounding down loses less than one unit.
LEMMA Floor ==
    ASSUME NEW x \in Nat
    PROVE  x \div Bps \in Nat /\ Bps * (x \div Bps) <= x /\ x <= Bps * (x \div Bps) + (Bps - 1)
BY DEF Bps

\* What is left after n shares, given the remainders of the last and the rest.
LEMMA Dust ==
    ASSUME NEW total \in Nat, NEW x \in Nat, NEW y \in Nat, NEW p \in Nat, NEW q \in Nat,
           NEW n \in Nat, x + y = total * Bps,
           Bps * p <= x, x <= Bps * p + (Bps - 1),
           Bps * q <= y, y <= Bps * q + (Bps - 1) * (n - 1)
    PROVE  total - q - p >= 0 /\ (n # 0 => total - q - p < n)
BY DEF Bps

\* So the rounded shares of a total are together at most the share of the
\* sum, and less than one unit for each of them below it.
LEMMA FloorSum ==
    ASSUME NEW S, IsFiniteSet(S), NEW b, \A k \in S : b[k] \in Nat, NEW total \in Nat,
           NEW q, \A k \in S : q[k] = (total * b[k]) \div Bps
    PROVE  /\ SumFunctionOnSet(q, S) \in Nat /\ SumFunctionOnSet(b, S) \in Nat
           /\ Bps * SumFunctionOnSet(q, S) <= total * SumFunctionOnSet(b, S)
           /\ total * SumFunctionOnSet(b, S) <= Bps * SumFunctionOnSet(q, S) + (Bps - 1) * Cardinality(S)
<1> DEFINE good(s) ==
              /\ Bps * SumFunctionOnSet(q, s) <= total * SumFunctionOnSet(b, s)
              /\ total * SumFunctionOnSet(b, s) <= Bps * SumFunctionOnSet(q, s) + (Bps - 1) * Cardinality(s)
           Bad == {s \in SUBSET S : ~good(s)}
<1>0. \A k \in S : /\ total * b[k] \in Nat /\ q[k] \in Nat
                   /\ Bps * q[k] <= total * b[k] /\ total * b[k] <= Bps * q[k] + (Bps - 1)
  <2> SUFFICES ASSUME NEW k \in S
               PROVE  /\ total * b[k] \in Nat /\ q[k] \in Nat
                      /\ Bps * q[k] <= total * b[k] /\ total * b[k] <= Bps * q[k] + (Bps - 1)
    OBVIOUS
  <2>1. total * b[k] \in Nat
    OBVIOUS
  <2> QED BY <2>1, Floor
<1>a. \A s \in SUBSET S : SumFunctionOnSet(q, s) \in Nat /\ SumFunctionOnSet(b, s) \in Nat
  <2> SUFFICES ASSUME NEW s \in SUBSET S
               PROVE  SumFunctionOnSet(q, s) \in Nat /\ SumFunctionOnSet(b, s) \in Nat
    OBVIOUS
  <2>1. IsFiniteSet(s)
    BY FS_Subset
  <2>2. SumFunctionOnSet(q, s) \in Int /\ SumFunctionOnSet(q, s) >= 0
    BY <1>0, <2>1, SumType
  <2>3. SumFunctionOnSet(b, s) \in Int /\ SumFunctionOnSet(b, s) >= 0
    BY <2>1, SumType
  <2> QED BY <2>2, <2>3
<1>1. good(S)
  <2>1. SUFFICES ASSUME Bad # {} PROVE FALSE
    OBVIOUS
  <2>2. PICK s \in Bad : \A t \in Bad : t \subseteq s => t = s
    <3>1. Bad \in SUBSET (SUBSET S)
      OBVIOUS
    <3> HIDE DEF Bad
    <3> QED BY <2>1, <3>1, Smallest
  <2>3. s # {}
    <3>1. SumFunctionOnSet(q, {}) = 0 /\ SumFunctionOnSet(b, {}) = 0 /\ Cardinality({}) = 0
      BY SumEmpty, FS_EmptySet
    <3>2. good({})
      BY <3>1 DEF Bps
    <3> QED BY <2>2, <3>2
  <2>4. s \subseteq S /\ IsFiniteSet(s)
    BY <2>2, FS_Subset
  <2> DEFINE x == AnyOf(s)
             r == s \ {x}
  <2>5. /\ x \in s /\ SumFunctionOnSet(q, s) = q[x] + SumFunctionOnSet(q, r)
        /\ SumFunctionOnSet(b, s) = b[x] + SumFunctionOnSet(b, r)
    BY <2>3, <2>4, SumStep
  <2>6. r \in SUBSET S /\ r # s /\ r \subseteq s
    BY <2>4, <2>5
  <2>7. good(r)
    BY <2>2, <2>6
  <2>8. Cardinality(s) = Cardinality(r) + 1 /\ Cardinality(r) \in Nat
    <3>1. IsFiniteSet(r) /\ Cardinality(r) = Cardinality(s) - 1
      BY <2>4, <2>5, FS_RemoveElement
    <3>2. Cardinality(r) \in Nat /\ Cardinality(s) \in Nat
      BY <2>4, <3>1, FS_CardinalityType
    <3> QED BY <3>1, <3>2
  <2>9. SumFunctionOnSet(q, r) \in Nat /\ SumFunctionOnSet(b, r) \in Nat
    BY <1>a, <2>6
  <2>10. x \in S
    BY <2>4, <2>5
  <2> HIDE DEF x, r
  <2>11. total * SumFunctionOnSet(b, s) = total * b[x] + total * SumFunctionOnSet(b, r)
    BY <2>5, <2>9, <2>10
  <2>12. total * SumFunctionOnSet(b, r) \in Nat
    BY <2>9
  <2>13. good(s)
    BY <1>0, <2>5, <2>7, <2>8, <2>9, <2>10, <2>11, <2>12 DEF Bps
  <2> QED BY <2>2, <2>13
<1> QED
  BY <1>a, <1>1

-----------------------------------------------------------------------------
(***************************************************************************)
(* What distribute pays.                                                   *)
(***************************************************************************)

\* The recipients of a list and what goes to each of them.
Positions(split) == DOMAIN split.recipients
AmountsOf(split) == [k \in Positions(split) |-> AmountToSend(split, k)]

\* What a split must be for its shares to add up: a total, and a list whose
\* shares before the last one do not exceed the whole.
Divisible(split) ==
    /\ split.total_amount \in Nat
    /\ split.recipients \in Seq(Recipient)
    /\ SumFunctionOnSet([k \in DOMAIN split.recipients |-> split.recipients[k].share_bps],
                        1 .. Len(split.recipients) - 1) <= Bps

\* The positions of a list are finitely many, the last one is apart from
\* those before it.
LEMMA PositionsLemma ==
    ASSUME NEW r \in Seq(Recipient)
    PROVE  /\ Len(r) \in Nat /\ DOMAIN r = 1 .. Len(r)
           /\ IsFiniteSet(DOMAIN r) /\ IsFiniteSet(1 .. Len(r) - 1)
           /\ Cardinality(1 .. Len(r) - 1) = IF Len(r) = 0 THEN 0 ELSE Len(r) - 1
           /\ 1 .. Len(r) - 1 \subseteq DOMAIN r
           /\ \A k \in DOMAIN r : r[k].address \in Address /\ r[k].share_bps \in Nat
<1>1. Len(r) \in Nat /\ DOMAIN r = 1 .. Len(r)
  BY LenProperties
<1>2. /\ IsFiniteSet(1 .. Len(r)) /\ IsFiniteSet(1 .. (Len(r) - 1))
      /\ Cardinality(1 .. (Len(r) - 1)) = IF Len(r) = 0 THEN 0 ELSE Len(r) - 1
  BY <1>1, FS_Interval
<1>3. \A k \in DOMAIN r : r[k] \in Recipient
  BY <1>1
<1> QED
  BY <1>1, <1>2, <1>3 DEF Recipient

\* Every recipient gets a natural amount, all but the last one the share
\* rounded down, and all together the total.  With shares of 100 percent
\* the last one gets less than one unit for each recipient on top.
LEMMA AmountsLemma ==
    ASSUME NEW split, Divisible(split), split.recipients # <<>>
    PROVE  /\ \A k \in Positions(split) :
                 /\ AmountToSend(split, k) \in Nat /\ FloorShare(split, k) \in Nat
                 /\ k < Len(split.recipients) => AmountToSend(split, k) = FloorShare(split, k)
           /\ SumFunctionOnSet(AmountsOf(split), Positions(split)) = split.total_amount
           /\ ValidRecipients(split.recipients) =>
                 AmountToSend(split, Len(split.recipients)) - FloorShare(split, Len(split.recipients))
                    \in 0 .. Len(split.recipients) - 1
<1> DEFINE r == split.recipients
           n == Len(r)
           total == split.total_amount
           before == 1 .. n - 1
           b == [k \in DOMAIN r |-> r[k].share_bps]
           q == [k \in DOMAIN r |-> FloorShare(split, k)]
           a == AmountsOf(split)
<1>1. /\ n \in Nat /\ n # 0 /\ DOMAIN r = 1 .. n
      /\ IsFiniteSet(DOMAIN r) /\ IsFiniteSet(before) /\ Cardinality(before) = n - 1
      /\ before \subseteq DOMAIN r /\ n \in DOMAIN r /\ DOMAIN r = before \cup {n} /\ n \notin before
      /\ DOMAIN r \ {n} = before
  <2>1. n \in Nat /\ DOMAIN r = 1 .. n /\ IsFiniteSet(DOMAIN r) /\ IsFiniteSet(before)
        /\ Cardinality(before) = IF n = 0 THEN 0 ELSE n - 1
    BY PositionsLemma DEF Divisible
  <2>2. n # 0
    BY EmptySeq DEF Divisible
  <2> QED BY <2>1, <2>2
<1>2. \A k \in DOMAIN r : b[k] \in Nat /\ q[k] = (total * b[k]) \div Bps
  BY PositionsLemma DEF Divisible, FloorShare
<1>3. total \in Nat
  BY DEF Divisible
<1>4. \A k \in DOMAIN r : q[k] \in Nat /\ q[k] = FloorShare(split, k)
  <2>1. \A k \in DOMAIN r : q[k] = FloorShare(split, k)
    OBVIOUS
  <2> HIDE DEF b, q, total
  <2>2. \A k \in DOMAIN r : total * b[k] \in Nat
    BY <1>2, <1>3
  <2> QED BY <1>2, <2>1, <2>2, Floor
<1>5. /\ SumFunctionOnSet(q, before) \in Nat /\ SumFunctionOnSet(b, before) \in Nat
      /\ Bps * SumFunctionOnSet(q, before) <= total * SumFunctionOnSet(b, before)
      /\ total * SumFunctionOnSet(b, before)
            <= Bps * SumFunctionOnSet(q, before) + (Bps - 1) * Cardinality(before)
  <2> HIDE DEF b, q, before, total
  <2>1. (\A k \in before : b[k] \in Nat) /\ \A k \in before : q[k] = (total * b[k]) \div Bps
    BY <1>1, <1>2
  <2> QED BY <1>1, <1>3, <2>1, FloorSum
<1>6. SumFunctionOnSet(b, before) <= Bps
  BY DEF Divisible
<1>7. SumFunctionOnSet(q, before) <= total
  <2> HIDE DEF b, q, before, total
  <2>1. total * SumFunctionOnSet(b, before) <= total * Bps
    BY <1>3, <1>5, <1>6 DEF Bps
  <2>2. Bps * SumFunctionOnSet(q, before) <= Bps * total
    BY <1>3, <1>5, <2>1 DEF Bps
  <2> QED BY <1>3, <1>5, <2>2 DEF Bps
<1>8. /\ AmountToSend(split, n) = total - SumFunctionOnSet(q, before)
      /\ \A k \in before : AmountToSend(split, k) = FloorShare(split, k)
  BY <1>1 DEF AmountToSend
<1>9. \A k \in Positions(split) :
         /\ AmountToSend(split, k) \in Nat /\ FloorShare(split, k) \in Nat
         /\ k < Len(split.recipients) => AmountToSend(split, k) = FloorShare(split, k)
  <2> SUFFICES ASSUME NEW k \in DOMAIN r
               PROVE  /\ AmountToSend(split, k) \in Nat /\ FloorShare(split, k) \in Nat
                      /\ k < n => AmountToSend(split, k) = FloorShare(split, k)
    BY DEF Positions
  <2>1. FloorShare(split, k) \in Nat
    BY <1>4
  <2>2. CASE k = n
    <3> HIDE DEF q, before, total
    <3>1. AmountToSend(split, n) \in Nat
      BY <1>3, <1>5, <1>7, <1>8
    <3> QED BY <1>1, <2>1, <2>2, <3>1
  <2>3. CASE k # n
    BY <1>1, <1>8, <2>1, <2>3
  <2> QED BY <2>2, <2>3
<1>10. SumFunctionOnSet(a, Positions(split)) = total
  <2>1. \A k \in DOMAIN r : a[k] = AmountToSend(split, k) /\ a[k] \in Nat
    BY <1>9 DEF AmountsOf, Positions
  <2>2. SumFunctionOnSet(a, DOMAIN r) = a[n] + SumFunctionOnSet(a, before)
    <3> HIDE DEF a, before, n
    <3>1. \A k \in DOMAIN r : a[k] \in Int
      BY <2>1
    <3>2. SumFunctionOnSet(a, DOMAIN r) = a[n] + SumFunctionOnSet(a, DOMAIN r \ {n})
      BY <1>1, <3>1, SumRemove
    <3> QED BY <1>1, <3>2
  <2>3. SumFunctionOnSet(a, before) = SumFunctionOnSet(q, before)
    <3>1. \A k \in before : a[k] = q[k]
      BY <1>1, <1>4, <1>8, <2>1
    <3> HIDE DEF a, q, before
    <3> QED BY <1>1, <3>1, SumSame
  <2> HIDE DEF a, q, before, total
  <2> QED BY <1>1, <1>3, <1>5, <1>8, <2>1, <2>2, <2>3 DEF Positions
<1>11. ASSUME ValidRecipients(r)
       PROVE  AmountToSend(split, n) - FloorShare(split, n) \in 0 .. n - 1
  <2>1. SumFunctionOnSet(b, DOMAIN r) = Bps
    BY <1>11 DEF ValidRecipients
  <2>2. SumFunctionOnSet(b, DOMAIN r) = b[n] + SumFunctionOnSet(b, before)
    <3>1. \A k \in DOMAIN r : b[k] \in Int
      <4>1. \A k \in DOMAIN r : r[k].share_bps \in Nat
        BY PositionsLemma DEF Divisible
      <4> QED BY <4>1
    <3> HIDE DEF b, before, n
    <3>2. SumFunctionOnSet(b, DOMAIN r) = b[n] + SumFunctionOnSet(b, DOMAIN r \ {n})
      BY <1>1, <3>1, SumRemove
    <3> QED BY <1>1, <3>2
  <2>3. q[n] = (total * b[n]) \div Bps /\ b[n] \in Nat /\ q[n] \in Nat /\ q[n] = FloorShare(split, n)
    BY <1>1, <1>2, <1>4
  <2> DEFINE B == SumFunctionOnSet(b, before)
             Q == SumFunctionOnSet(q, before)
  <2>4. /\ Q \in Nat /\ B \in Nat /\ Bps * Q <= total * B /\ total * B <= Bps * Q + (Bps - 1) * (n - 1)
        /\ b[n] + B = Bps
    BY <1>1, <1>5, <2>1, <2>2
  <2>5. AmountToSend(split, n) - FloorShare(split, n) = total - Q - q[n]
    BY <1>8, <2>3
  <2>6. Bps * q[n] <= total * b[n] /\ total * b[n] <= Bps * q[n] + (Bps - 1)
    <3>1. total * b[n] \in Nat
      BY <1>3, <2>3
    <3> QED BY <2>3, <3>1, Floor
  <2> HIDE DEF b, q, before, total, B, Q, n
  <2>7. total * b[n] + total * B = total * Bps
    BY <1>3, <2>3, <2>4 DEF Bps
  <2>8. total * b[n] \in Nat /\ total * B \in Nat
    BY <1>3, <2>3, <2>4
  <2>9. total - Q - q[n] >= 0 /\ total - Q - q[n] < n
    BY <1>1, <1>3, <2>3, <2>4, <2>6, <2>7, <2>8, Dust
  <2> QED BY <1>1, <1>3, <2>3, <2>4, <2>5, <2>9
<1> QED
  BY <1>9, <1>10, <1>11

\* The ledger m is the ledger l after the shares at the positions s were
\* paid out of the contract's balance.
PaidUpTo(l, m, split, s) ==
    /\ Held(m) = Held(l)
    /\ \A a \in Address \ {Contract} : m.balance[a] >= l.balance[a]
    /\ m.balance[Contract] >= l.balance[Contract] - SumFunctionOnSet(AmountsOf(split), s)
    /\ ValidRecipients(split.recipients) /\ Contract \notin PaysTo(split) =>
          /\ m.balance[Contract] = l.balance[Contract] - SumFunctionOnSet(AmountsOf(split), s)
          /\ \A k \in Positions(split) :
                m.balance[split.recipients[k].address] =
                   l.balance[split.recipients[k].address] + IF k \in s THEN AmountToSend(split, k) ELSE 0

\* Paying one more share.
LEMMA PayOne ==
    ASSUME NEW split, Divisible(split), split.recipients # <<>>,
           NEW l \in LedgerType, NEW m \in LedgerType,
           NEW s \in SUBSET Positions(split), NEW k \in s,
           PaidUpTo(l, m, split, s \ {k}), CanSpend(m, Contract, AmountToSend(split, k))
    PROVE  LET paid == Move(m, Contract, split.recipients[k].address, AmountToSend(split, k))
           IN  paid \in LedgerType /\ PaidUpTo(l, paid, split, s)
<1> DEFINE to == split.recipients[k].address
           x == AmountToSend(split, k)
           paid == Move(m, Contract, to, x)
           A == AmountsOf(split)
<1>1. /\ IsFiniteSet(Positions(split)) /\ \A j \in Positions(split) : split.recipients[j].address \in Address
  BY PositionsLemma DEF Divisible, Positions
<1>2. /\ x \in Nat /\ to \in Address /\ Contract \in Address
      /\ \A j \in Positions(split) : AmountToSend(split, j) \in Nat
  BY <1>1, AmountsLemma DEF Address
<1>3. /\ paid \in LedgerType /\ Held(paid) = Held(m)
      /\ paid.balance = [[m.balance EXCEPT ![Contract] = @ - x] EXCEPT ![to] = @ + x]
  <2> HIDE DEF to, x
  <2>1. /\ Move(m, Contract, to, x) \in LedgerType
        /\ Move(m, Contract, to, x).balance = [[m.balance EXCEPT ![Contract] = @ - x] EXCEPT ![to] = @ + x]
    BY <1>2, MoveLemma DEF x
  <2>2. Held(Move(m, Contract, to, x)) = Held(m)
    BY <1>2, HeldLemma DEF x
  <2> QED BY <2>1, <2>2
<1>4. IsFiniteSet(s) /\ (\A j \in s : A[j] \in Int) /\ A[k] = x
  BY <1>1, <1>2, FS_Subset DEF AmountsOf
<1>5. SumFunctionOnSet(A, s) = A[k] + SumFunctionOnSet(A, s \ {k})
  <2> HIDE DEF A
  <2> QED BY <1>4, SumRemove
<1>6. SumFunctionOnSet(A, s \ {k}) \in Int
  <2> HIDE DEF A
  <2>1. IsFiniteSet(s \ {k}) /\ \A j \in s \ {k} : A[j] \in Int
    BY <1>4, FS_Subset
  <2> QED BY <2>1, SumType
<1>7. l.balance \in [Address -> Nat] /\ m.balance \in [Address -> Nat]
  BY DEF LedgerType
<1> DEFINE rest == SumFunctionOnSet(A, s \ {k})
<1> HIDE DEF paid, to, x, rest, A
<1>8. \A a \in Address : paid.balance[a] = m.balance[a] - (IF a = Contract THEN x ELSE 0)
                                                        + (IF a = to THEN x ELSE 0)
  BY <1>2, <1>3, <1>7
<1>9. \A a \in Address \ {Contract} : paid.balance[a] >= l.balance[a]
  BY <1>2, <1>7, <1>8 DEF PaidUpTo
<1>10. paid.balance[Contract] >= l.balance[Contract] - SumFunctionOnSet(A, s)
  <2>1. m.balance[Contract] >= l.balance[Contract] - rest
    BY DEF PaidUpTo, rest, A
  <2>2. rest \in Int /\ SumFunctionOnSet(A, s) = x + rest
    BY <1>4, <1>5, <1>6 DEF rest
  <2> QED BY <1>2, <1>7, <1>8, <2>1, <2>2
<1>11. ASSUME ValidRecipients(split.recipients), Contract \notin PaysTo(split)
       PROVE  /\ paid.balance[Contract] = l.balance[Contract] - SumFunctionOnSet(A, s)
              /\ \A j \in Positions(split) :
                    paid.balance[split.recipients[j].address] =
                       l.balance[split.recipients[j].address] + IF j \in s THEN AmountToSend(split, j) ELSE 0
  <2>1. to # Contract
    BY <1>11 DEF PaysTo, Positions, to
  <2>2. paid.balance[Contract] = l.balance[Contract] - SumFunctionOnSet(A, s)
    <3>1. m.balance[Contract] = l.balance[Contract] - rest
      BY <1>11 DEF PaidUpTo, rest, A
    <3>2. rest \in Int /\ SumFunctionOnSet(A, s) = x + rest
      BY <1>4, <1>5, <1>6 DEF rest
    <3> QED BY <1>2, <1>7, <1>8, <2>1, <3>1, <3>2
  <2>3. ASSUME NEW j \in Positions(split)
        PROVE  paid.balance[split.recipients[j].address] =
                  l.balance[split.recipients[j].address] + IF j \in s THEN AmountToSend(split, j) ELSE 0
    <3> DEFINE a == split.recipients[j].address
    <3>1. a \in Address /\ a # Contract
      BY <1>1, <1>11 DEF PaysTo, Positions
    <3>2. m.balance[a] = l.balance[a] + IF j \in s \ {k} THEN AmountToSend(split, j) ELSE 0
      BY <1>11 DEF PaidUpTo
    <3>3. a = to <=> j = k
      BY <1>11 DEF ValidRecipients, Positions, to
    <3>4. AmountToSend(split, j) \in Nat /\ x = AmountToSend(split, k)
      BY <1>2 DEF x
    <3> HIDE DEF a
    <3>5. paid.balance[a] = l.balance[a] + IF j \in s THEN AmountToSend(split, j) ELSE 0
      BY <1>2, <1>7, <1>8, <3>1, <3>2, <3>3, <3>4
    <3> QED BY <3>5 DEF a
  <2> QED BY <2>2, <2>3
<1>12. Held(paid) = Held(l)
  BY <1>3 DEF PaidUpTo
<1> QED
  BY <1>3, <1>9, <1>10, <1>11, <1>12 DEF PaidUpTo, paid, to, x, A

-----------------------------------------------------------------------------
(***************************************************************************)
(* distribute, as a function on the state that it works on: the fold of    *)
(* module FoldProofs with PayShare as its step and the split as parameter. *)
(***************************************************************************)
Stats == [distributed: Nat, cancelled: Nat, value: Nat]
Work == [ok: BOOLEAN, ledger: LedgerType, splits: Seq(SplitRecord), stats: Stats]

Marked(w, s) == [w EXCEPT !.splits[s].distributed = TRUE,
                          !.stats.distributed = @ + 1,
                          !.stats.value = @ + w.splits[s].total_amount]

LastOf(S) == Max(S)
PayStep(split, k, w) == PayShare(w, split, k)

Pays == INSTANCE FoldProofs WITH Op <- PayStep, Choose <- LastOf

\* A list of positions has a last one, and distribute is the instance's fold.
LEMMA DistributedIsFold ==
    /\ \A S : IsFiniteSet(S) => Pays!IsFiniteSet(S)
    /\ \A S : IsFiniteSet(S) /\ S \subseteq Int => Pays!Chooses(S)
    /\ \A w, caller, s :
          LET split == w.splits[s]
          IN  Distributed(w, caller, s) =
                 IF w.ok /\ split.sender = caller /\ ~Closed(split)
                 THEN Pays!Fold(split, [k \in Positions(split) |-> k], Marked(w, s), Positions(split))
                 ELSE Failed(w)
<1>1. ASSUME NEW S PROVE IsFiniteSet(S) => Pays!IsFiniteSet(S)
  BY DEF IsFiniteSet, Pays!IsFiniteSet
<1>2. ASSUME NEW S, IsFiniteSet(S), S \subseteq Int PROVE Pays!Chooses(S)
  <2>1. SUFFICES ASSUME NEW t \in SUBSET S, t # {} PROVE LastOf(t) \in t
    BY DEF Pays!Chooses
  <2>2. IsFiniteSet(t) /\ \A x \in t : x \in Int
    BY <1>2, FS_Subset
  <2>3. \E x \in t : \A y \in t : x >= y
    BY <2>1, <2>2, Largest
  <2> QED BY <2>3 DEF LastOf, Max
<1>3. ASSUME NEW w, NEW caller, NEW s
      PROVE  LET split == w.splits[s]
             IN  Distributed(w, caller, s) =
                    IF w.ok /\ split.sender = caller /\ ~Closed(split)
                    THEN Pays!Fold(split, [k \in Positions(split) |-> k], Marked(w, s), Positions(split))
                    ELSE Failed(w)
  <2>1. DOMAIN [k \in DOMAIN w.splits[s].recipients |-> k] = DOMAIN w.splits[s].recipients
    OBVIOUS
  <2> QED BY <2>1 DEF Distributed, FoldLeftDomain, FoldLeft, MapThenFoldSet, PayStep, LastOf, Marked,
                      Positions, Pays!Fold, Pays!FoldsOf, Pays!Folds
<1> QED
  BY <1>1, <1>2, <1>3

\* Two counters that grow.
LEMMA StatsUpdate ==
    ASSUME NEW t \in Stats, NEW x \in Nat
    PROVE  /\ [t EXCEPT !.distributed = @ + 1, !.value = @ + x] \in Stats
           /\ [t EXCEPT !.cancelled = @ + 1] \in Stats
<1> DEFINE u == [t EXCEPT !.distributed = @ + 1]
<1>1. u \in Stats /\ [t EXCEPT !.cancelled = @ + 1] \in Stats
  BY DEF Stats
<1>2. [t EXCEPT !.distributed = @ + 1, !.value = @ + x] = [u EXCEPT !.value = @ + x]
  BY DEF Stats
<1> HIDE DEF u
<1>3. [u EXCEPT !.value = @ + x] \in Stats
  BY <1>1 DEF Stats
<1> QED
  BY <1>1, <1>2, <1>3

\* Marking the split leaves the rest of the state as it was.
LEMMA MarkedLemma ==
    ASSUME NEW w \in Work, NEW s \in 1 .. Len(w.splits)
    PROVE  /\ Marked(w, s) \in Work
           /\ Marked(w, s).ok = w.ok /\ Marked(w, s).ledger = w.ledger
           /\ Marked(w, s).splits = [w.splits EXCEPT ![s].distributed = TRUE]
           /\ Marked(w, s).stats = [w.stats EXCEPT !.distributed = @ + 1,
                                                   !.value = @ + w.splits[s].total_amount]
<1> DEFINE split == w.splits[s]
           stats1 == [w.stats EXCEPT !.distributed = @ + 1, !.value = @ + split.total_amount]
<1>1. w.splits \in Seq(SplitRecord) /\ w.stats \in Stats /\ split \in SplitRecord
  BY DEF Work
<1>2. [split EXCEPT !.distributed = TRUE] \in SplitRecord
  BY <1>1 DEF SplitRecord
<1>3. [w.splits EXCEPT ![s] = [split EXCEPT !.distributed = TRUE]] \in Seq(SplitRecord)
  BY <1>1, <1>2, RecordUpdate
<1>4. stats1 \in Stats
  BY <1>1, StatsUpdate DEF SplitRecord
<1>5. Marked(w, s) = [[w EXCEPT !.splits = [w.splits EXCEPT ![s].distributed = TRUE]] EXCEPT !.stats = stats1]
  <2> HIDE DEF split
  <2>1. Marked(w, s) = [[[w EXCEPT !.splits[s].distributed = TRUE]
                            EXCEPT !.stats.distributed = @ + 1] EXCEPT !.stats.value = @ + split.total_amount]
    BY DEF Marked, split
  <2> DEFINE u == [w EXCEPT !.splits[s].distributed = TRUE]
  <2>2. u = [w EXCEPT !.splits = [w.splits EXCEPT ![s].distributed = TRUE]] /\ u.stats = w.stats
    BY DEF Work
  <2> HIDE DEF u
  <2>3. [[u EXCEPT !.stats.distributed = @ + 1] EXCEPT !.stats.value = @ + split.total_amount]
           = [u EXCEPT !.stats = [u.stats EXCEPT !.distributed = @ + 1, !.value = @ + split.total_amount]]
    OBVIOUS
  <2> QED BY <2>1, <2>2, <2>3 DEF u
<1> HIDE DEF stats1
<1>6. /\ Marked(w, s).ok = w.ok /\ Marked(w, s).ledger = w.ledger
      /\ Marked(w, s).splits = [w.splits EXCEPT ![s].distributed = TRUE]
      /\ Marked(w, s).stats = stats1
  BY <1>5 DEF Work
<1>7. Marked(w, s) \in Work
  BY <1>1, <1>3, <1>4, <1>5 DEF Work
<1> QED
  BY <1>6, <1>7 DEF stats1

\* A distribution that succeeds marks the split, counts it and pays all of
\* its shares; one that fails says so.
DistributedFrom(w, v, caller, s) ==
    /\ v \in Work
    /\ v.ok => LET split == w.splits[s]
               IN  /\ w.ok /\ split.sender = caller /\ ~Closed(split)
                   /\ v.splits = [w.splits EXCEPT ![s].distributed = TRUE]
                   /\ v.stats = [w.stats EXCEPT !.distributed = @ + 1,
                                                !.value = @ + split.total_amount]
                   /\ PaidUpTo(w.ledger, v.ledger, split, Positions(split))

\* A distribution that succeeds found an open split of the caller's, and its
\* recipients have been paid; one that fails only says so.
LEMMA DistributedLemma ==
    ASSUME NEW w \in Work, NEW caller, NEW s \in 1 .. Len(w.splits),
           Divisible(w.splits[s]), w.splits[s].recipients # <<>>
    PROVE  DistributedFrom(w, Distributed(w, caller, s), caller, s)
<1> DEFINE split == w.splits[s]
           start == Marked(w, s)
           D == Positions(split)
           f == [k \in D |-> k]
           W == [t \in SUBSET D |-> {v \in Work : v.ok => /\ v.splits = start.splits /\ v.stats = start.stats
                                                          /\ PaidUpTo(w.ledger, v.ledger, split, t)}]
           v == Distributed(w, caller, s)
<1>1. IsFiniteSet(D) /\ D \subseteq Int
  <2>1. split.recipients \in Seq(Recipient)
    BY DEF Divisible
  <2> QED BY <2>1, PositionsLemma DEF Positions
<1>2. start \in W[{}]
  <2>1. start \in Work /\ start.ledger = w.ledger /\ w.ledger \in LedgerType
    BY MarkedLemma DEF Work
  <2>2. PaidUpTo(w.ledger, w.ledger, split, {})
    <3>1. SumFunctionOnSet(AmountsOf(split), {}) = 0
      BY SumEmpty
    <3>2. w.ledger.balance \in [Address -> Nat] /\ Contract \in Address
      BY <2>1 DEF LedgerType, Address
    <3>3. \A k \in Positions(split) : split.recipients[k].address \in Address
      BY PositionsLemma DEF Divisible, Positions
    <3> HIDE DEF split
    <3> QED BY <3>1, <3>2, <3>3 DEF PaidUpTo
  <2> HIDE DEF start, split
  <2> QED BY <2>1, <2>2
<1>3. ASSUME NEW t \in SUBSET D, t # {}, NEW u \in W[t \ {LastOf(t)}], LastOf(t) \in t
      PROVE  PayStep(split, f[LastOf(t)], u) \in W[t]
  <2> DEFINE k == LastOf(t)
             x == AmountToSend(split, k)
             paid == Move(u.ledger, Contract, split.recipients[k].address, x)
  <2>1. f[k] = k
    BY <1>3
  <2>2. u \in Work /\ (u.ok => /\ u.splits = start.splits /\ u.stats = start.stats
                               /\ PaidUpTo(w.ledger, u.ledger, split, t \ {k}))
    BY <1>3
  <2> HIDE DEF split, start
  <2>3. CASE u.ok /\ CanSpend(u.ledger, Contract, x)
    <3>1. paid \in LedgerType /\ PaidUpTo(w.ledger, paid, split, t)
      <4>1. w.ledger \in LedgerType /\ u.ledger \in LedgerType
        BY <2>2 DEF Work
      <4>2. Divisible(split) /\ split.recipients # <<>>
        BY DEF split
      <4> HIDE DEF k
      <4> QED BY <1>3, <2>2, <2>3, <4>1, <4>2, PayOne DEF k
    <3>2. PayStep(split, k, u) = [u EXCEPT !.ledger = paid]
      BY <2>3 DEF PayStep, PayShare
    <3> HIDE DEF paid
    <3>3. /\ [u EXCEPT !.ledger = paid] \in Work
          /\ [u EXCEPT !.ledger = paid].ledger = paid
          /\ [u EXCEPT !.ledger = paid].splits = u.splits
          /\ [u EXCEPT !.ledger = paid].stats = u.stats
      BY <2>2, <3>1 DEF Work
    <3> QED BY <1>3, <2>1, <2>2, <2>3, <3>1, <3>2, <3>3
  <2>4. CASE ~(u.ok /\ CanSpend(u.ledger, Contract, x))
    <3>1. PayStep(split, k, u) = Failed(u)
      BY <2>4 DEF PayStep, PayShare
    <3>2. Failed(u) \in Work /\ ~Failed(u).ok
      BY <2>2 DEF Failed, Work
    <3> QED BY <1>3, <2>1, <3>1, <3>2
  <2> QED BY <2>3, <2>4
<1>4. Pays!Fold(split, f, start, D) \in W[D]
  <2>1. Pays!IsFiniteSet(D) /\ Pays!Chooses(D)
    BY <1>1, DistributedIsFold
  <2>2. \A t \in SUBSET D : t # {} => LastOf(t) \in t
    BY <2>1 DEF Pays!Chooses
  <2>3. \A t \in SUBSET D : t # {} =>
           \A u \in W[t \ {LastOf(t)}] : PayStep(split, f[LastOf(t)], u) \in W[t]
    <3> HIDE DEF W, D, f, split
    <3> QED BY <1>3, <2>2
  <2> HIDE DEF W, D, f, split, start
  <2> QED BY <1>2, <2>1, <2>3, Pays!FoldInduction
<1>5. v = IF w.ok /\ split.sender = caller /\ ~Closed(split) THEN Pays!Fold(split, f, start, D) ELSE Failed(w)
  BY DistributedIsFold
<1>6. Failed(w) \in Work /\ ~Failed(w).ok
  BY DEF Failed, Work
<1>7. /\ start.splits = [w.splits EXCEPT ![s].distributed = TRUE]
      /\ start.stats = [w.stats EXCEPT !.distributed = @ + 1, !.value = @ + split.total_amount]
  BY MarkedLemma
<1>8. D \in SUBSET D
  OBVIOUS
<1> HIDE DEF v, start, split, D, f
<1>9. /\ v \in Work
      /\ v.ok => /\ w.ok /\ split.sender = caller /\ ~Closed(split)
                 /\ v.splits = start.splits /\ v.stats = start.stats
                 /\ PaidUpTo(w.ledger, v.ledger, split, D)
  BY <1>4, <1>5, <1>6, <1>8
<1> QED
  BY <1>7, <1>9 DEF v, split, D, DistributedFrom

-----------------------------------------------------------------------------
(***************************************************************************)
(* What distribute and bulk_distribute do to a well-typed state: both      *)
(* distribute a set of open splits.                                        *)
(***************************************************************************)
SplitsOK ==
    /\ ledger \in LedgerType
    /\ splits \in Seq(SplitRecord)
    /\ \A s \in DOMAIN splits : ValidRecipients(splits[s].recipients)
    /\ stats \in Stats

MarkedAll(D) == [s \in DOMAIN splits |-> IF s \in D THEN [splits[s] EXCEPT !.distributed = TRUE]
                                                    ELSE splits[s]]

\* The state v after the splits D were distributed in the current state.
AllDistributed(v, D) ==
    /\ D \subseteq OpenSplits
    /\ v.splits = MarkedAll(D)
    /\ v.stats.distributed = stats.distributed + Cardinality(D)
    /\ v.stats.cancelled = stats.cancelled
    /\ v.stats.value = stats.value + TotalOf(D)
    /\ Held(v.ledger) = Held(ledger)
    /\ \A a \in Address \ {Contract} : v.ledger.balance[a] >= ledger.balance[a]
    /\ v.ledger.balance[Contract] >= ledger.balance[Contract] - TotalOf(D)

\* The splits are finitely many records, and their lists can be divided.
LEMMA SplitsLemma ==
    ASSUME SplitsOK
    PROVE  /\ Len(splits) \in Nat /\ DOMAIN splits = 1 .. Len(splits)
           /\ IsFiniteSet(DOMAIN splits)
           /\ \A s \in DOMAIN splits :
                 /\ splits[s] \in SplitRecord
                 /\ Divisible(splits[s]) /\ splits[s].recipients # <<>>
<1>1. Len(splits) \in Nat /\ DOMAIN splits = 1 .. Len(splits)
  BY LenProperties DEF SplitsOK
<1>2. IsFiniteSet(1 .. Len(splits))
  BY <1>1, FS_Interval
<1>3. ASSUME NEW s \in DOMAIN splits
      PROVE  splits[s] \in SplitRecord /\ Divisible(splits[s]) /\ splits[s].recipients # <<>>
  <2> DEFINE r == splits[s].recipients
             b == [k \in DOMAIN r |-> r[k].share_bps]
             before == 1 .. Len(r) - 1
  <2>1. splits[s] \in SplitRecord
    BY <1>1, <1>3 DEF SplitsOK
  <2>2. r \in Seq(Recipient) /\ splits[s].total_amount \in Nat /\ ValidRecipients(r)
    BY <1>3, <2>1 DEF SplitRecord, SplitsOK
  <2>3. /\ Len(r) \in Nat /\ Len(r) # 0 /\ DOMAIN r = 1 .. Len(r) /\ IsFiniteSet(DOMAIN r)
        /\ IsFiniteSet(before) /\ before \subseteq DOMAIN r
        /\ \A k \in DOMAIN r : r[k].share_bps \in Nat
    <3>1. Len(r) \in 1 .. MaxRecipients
      BY <2>2 DEF ValidRecipients
    <3> QED BY <2>2, <3>1, PositionsLemma
  <2>4. DOMAIN r \ {Len(r)} = before /\ Len(r) \in DOMAIN r
    BY <2>3
  <2>5. \A k \in DOMAIN r : b[k] \in Nat
    BY <2>3
  <2>6. SumFunctionOnSet(b, DOMAIN r) = Bps
    BY <2>2 DEF ValidRecipients
  <2>7. SumFunctionOnSet(b, before) <= Bps
    <3> HIDE DEF b, r, before
    <3>0. \A k \in DOMAIN r : b[k] \in Int
      BY <2>5
    <3>1. SumFunctionOnSet(b, DOMAIN r) = b[Len(r)] + SumFunctionOnSet(b, before)
      <4>1. SumFunctionOnSet(b, DOMAIN r) = b[Len(r)] + SumFunctionOnSet(b, DOMAIN r \ {Len(r)})
        BY <2>3, <2>4, <3>0, SumRemove
      <4> QED BY <2>4, <4>1
    <3>2. SumFunctionOnSet(b, before) \in Int
      <4>1. \A k \in before : b[k] \in Int
        BY <2>3, <3>0
      <4> QED BY <2>3, <4>1, SumType
    <3>3. b[Len(r)] \in Nat
      BY <2>4, <2>5
    <3> QED BY <2>6, <3>1, <3>2, <3>3 DEF Bps
  <2>8. r # <<>>
    BY <2>3
  <2> QED BY <2>1, <2>2, <2>7, <2>8 DEF Divisible
<1> QED
  BY <1>1, <1>2, <1>3

\* A sum of totals is the sum of those of its splits, and grows by the next.
LEMMA TotalOfLemma ==
    ASSUME SplitsOK, NEW D, D \subseteq DOMAIN splits
    PROVE  /\ IsFiniteSet(D) /\ Cardinality(D) \in Nat
           /\ TotalOf(D) \in Nat
           /\ TotalOf({}) = 0
           /\ \A s \in DOMAIN splits \ D :
                 /\ TotalOf(D \cup {s}) = TotalOf(D) + splits[s].total_amount
                 /\ Cardinality(D \cup {s}) = Cardinality(D) + 1
<1> DEFINE f == [s \in DOMAIN splits |-> splits[s].total_amount]
<1>1. IsFiniteSet(DOMAIN splits) /\ \A s \in DOMAIN splits : f[s] \in Nat
  BY SplitsLemma DEF SplitRecord
<1>2. ASSUME NEW E, E \subseteq DOMAIN splits
      PROVE  TotalOf(E) = SumFunctionOnSet(f, E) /\ IsFiniteSet(E)
  <2> DEFINE g == [s \in E |-> splits[s].total_amount]
  <2>1. IsFiniteSet(E) /\ \A s \in E : g[s] = f[s]
    BY <1>1, <1>2, FS_Subset
  <2> HIDE DEF f, g
  <2>2. SumFunctionOnSet(g, E) = SumFunctionOnSet(f, E)
    BY <2>1, SumSame
  <2> QED BY <2>1, <2>2 DEF TotalOf, g
<1> HIDE DEF f
<1>3. SumFunctionOnSet(f, D) \in Nat
  <2>1. IsFiniteSet(D) /\ (\A s \in D : f[s] \in Int) /\ \A s \in D : f[s] >= 0
    BY <1>1, <1>2
  <2>2. SumFunctionOnSet(f, D) \in Int /\ SumFunctionOnSet(f, D) >= 0
    BY <2>1, SumType
  <2> QED BY <2>2
<1>4. ASSUME NEW s \in DOMAIN splits \ D
      PROVE  /\ TotalOf(D \cup {s}) = TotalOf(D) + splits[s].total_amount
             /\ Cardinality(D \cup {s}) = Cardinality(D) + 1
  <2>1. IsFiniteSet(D \cup {s}) /\ \A x \in D \cup {s} : f[x] \in Int
    BY <1>1, <1>2
  <2>2. (D \cup {s}) \ {s} = D /\ D \cup {s} \subseteq DOMAIN splits
    OBVIOUS
  <2>3. SumFunctionOnSet(f, D \cup {s}) = f[s] + SumFunctionOnSet(f, D)
    <3>1. SumFunctionOnSet(f, D \cup {s}) = f[s] + SumFunctionOnSet(f, (D \cup {s}) \ {s})
      BY <2>1, SumRemove
    <3> QED BY <2>2, <3>1
  <2>4. f[s] = splits[s].total_amount /\ f[s] \in Nat
    BY <1>1 DEF f
  <2>5. Cardinality(D \cup {s}) = Cardinality(D) + 1
    BY <1>2, <1>4, FS_AddElement
  <2>6. TotalOf(D \cup {s}) = SumFunctionOnSet(f, D \cup {s}) /\ TotalOf(D) = SumFunctionOnSet(f, D)
    BY <1>2, <2>2
  <2> QED BY <1>3, <2>3, <2>4, <2>5, <2>6
<1>5. IsFiniteSet(D) /\ Cardinality(D) \in Nat
  BY <1>2, FS_CardinalityType
<1>6. TotalOf({}) = 0
  BY SumEmpty DEF TotalOf
<1> QED
  BY <1>2, <1>3, <1>4, <1>5, <1>6

\* Distributing one more split.
LEMMA DistributeOneMore ==
    ASSUME SplitsOK, NEW D, NEW v \in Work, v.ok, AllDistributed(v, D),
           NEW caller, NEW s \in DOMAIN splits
    PROVE  LET u == Distributed(v, caller, s)
           IN  /\ u \in Work
               /\ u.ok => /\ s \notin D /\ splits[s].sender = caller
                          /\ AllDistributed(u, D \cup {s})
                          /\ PaidUpTo(v.ledger, u.ledger, splits[s], Positions(splits[s]))
<1> DEFINE u == Distributed(v, caller, s)
           split == v.splits[s]
<1>1. D \subseteq DOMAIN splits /\ v.splits = MarkedAll(D)
  BY DEF AllDistributed, OpenSplits
<1>2. /\ split = IF s \in D THEN [splits[s] EXCEPT !.distributed = TRUE] ELSE splits[s]
      /\ split.recipients = splits[s].recipients /\ split.total_amount = splits[s].total_amount
      /\ split.sender = splits[s].sender
      /\ s \in D => split.distributed
  <2>1. split = IF s \in D THEN [splits[s] EXCEPT !.distributed = TRUE] ELSE splits[s]
    BY <1>1 DEF MarkedAll
  <2>2. splits[s] \in SplitRecord
    BY SplitsLemma
  <2> HIDE DEF split
  <2> QED BY <2>1, <2>2 DEF SplitRecord
<1>3. s \in 1 .. Len(v.splits) /\ Len(v.splits) = Len(splits)
  <2>1. v.splits \in Seq(SplitRecord) /\ DOMAIN v.splits = DOMAIN splits
    BY <1>1 DEF Work, MarkedAll
  <2>2. Len(v.splits) \in Nat /\ DOMAIN v.splits = 1 .. Len(v.splits)
    BY <2>1, LenProperties
  <2>3. Len(splits) \in Nat /\ DOMAIN splits = 1 .. Len(splits)
    BY SplitsLemma
  <2>4. \A m, n \in Nat : 1 .. m = 1 .. n => m = n
    OBVIOUS
  <2>5. Len(v.splits) = Len(splits)
    BY <2>1, <2>2, <2>3, <2>4
  <2> QED BY <2>3, <2>5
<1>4. Divisible(split) /\ split.recipients # <<>>
  <2>1. Divisible(splits[s]) /\ splits[s].recipients # <<>>
    BY SplitsLemma
  <2> HIDE DEF split
  <2> QED BY <1>2, <2>1 DEF Divisible
<1>5. /\ u \in Work
      /\ u.ok => /\ split.sender = caller /\ ~Closed(split)
                 /\ u.splits = [v.splits EXCEPT ![s].distributed = TRUE]
                 /\ u.stats = [v.stats EXCEPT !.distributed = @ + 1, !.value = @ + split.total_amount]
                 /\ PaidUpTo(v.ledger, u.ledger, split, Positions(split))
  <2>1. Divisible(v.splits[s]) /\ v.splits[s].recipients # <<>>
    BY <1>4
  <2>2. DistributedFrom(v, u, caller, s)
    BY <1>3, <2>1, DistributedLemma
  <2> HIDE DEF u
  <2> QED BY <2>2 DEF DistributedFrom
<1> HIDE DEF u, split
<1>6. ASSUME u.ok
      PROVE  /\ s \notin D /\ splits[s].sender = caller
             /\ AllDistributed(u, D \cup {s})
             /\ PaidUpTo(v.ledger, u.ledger, splits[s], Positions(splits[s]))
  <2>1. s \notin D /\ split = splits[s]
    BY <1>2, <1>5, <1>6 DEF Closed
  <2>2. splits[s].sender = caller /\ s \in OpenSplits
    BY <1>5, <1>6, <2>1 DEF OpenSplits
  <2>3. D \cup {s} \subseteq OpenSplits
    BY <2>2 DEF AllDistributed
  <2>4. u.splits = MarkedAll(D \cup {s})
    <3>1. u.splits = [MarkedAll(D) EXCEPT ![s].distributed = TRUE]
      BY <1>1, <1>5, <1>6
    <3> QED BY <2>1, <3>1 DEF MarkedAll
  <2>5. /\ TotalOf(D \cup {s}) = TotalOf(D) + splits[s].total_amount
        /\ Cardinality(D \cup {s}) = Cardinality(D) + 1
        /\ TotalOf(D) \in Nat /\ Cardinality(D) \in Nat
    BY <1>1, <2>1, TotalOfLemma
  <2>6. splits[s].total_amount \in Nat
    BY SplitsLemma DEF SplitRecord
  <2>7. /\ u.stats.distributed = stats.distributed + Cardinality(D \cup {s})
        /\ u.stats.cancelled = stats.cancelled
        /\ u.stats.value = stats.value + TotalOf(D \cup {s})
    <3>1. u.stats = [v.stats EXCEPT !.distributed = @ + 1, !.value = @ + splits[s].total_amount]
      BY <1>5, <1>6, <2>1
    <3>2. /\ u.stats.distributed = v.stats.distributed + 1
          /\ u.stats.cancelled = v.stats.cancelled
          /\ u.stats.value = v.stats.value + splits[s].total_amount
      BY <3>1 DEF Work, Stats
    <3>3. stats.distributed \in Nat /\ stats.value \in Nat
      BY DEF SplitsOK, Stats
    <3>4. /\ v.stats.distributed = stats.distributed + Cardinality(D)
          /\ v.stats.cancelled = stats.cancelled
          /\ v.stats.value = stats.value + TotalOf(D)
      BY DEF AllDistributed
    <3> QED BY <2>5, <2>6, <3>2, <3>3, <3>4
  <2>8. PaidUpTo(v.ledger, u.ledger, splits[s], Positions(splits[s]))
    BY <1>5, <1>6, <2>1
  <2>9. SumFunctionOnSet(AmountsOf(splits[s]), Positions(splits[s])) = splits[s].total_amount
    BY SplitsLemma, AmountsLemma
  <2>10. /\ v.ledger.balance \in [Address -> Nat] /\ u.ledger.balance \in [Address -> Nat]
         /\ ledger.balance \in [Address -> Nat] /\ Contract \in Address
    BY <1>5 DEF Work, LedgerType, SplitsOK, Address
  <2>11. Held(u.ledger) = Held(ledger)
    BY <2>8 DEF AllDistributed, PaidUpTo
  <2>12. \A a \in Address \ {Contract} : u.ledger.balance[a] >= ledger.balance[a]
    <3>1. ASSUME NEW a \in Address \ {Contract} PROVE u.ledger.balance[a] >= ledger.balance[a]
      <4>1. u.ledger.balance[a] >= v.ledger.balance[a] /\ v.ledger.balance[a] >= ledger.balance[a]
        BY <2>8 DEF AllDistributed, PaidUpTo
      <4>2. u.ledger.balance[a] \in Nat /\ v.ledger.balance[a] \in Nat /\ ledger.balance[a] \in Nat
        BY <2>10
      <4> QED BY <4>1, <4>2
    <3> QED BY <3>1
  <2>13. u.ledger.balance[Contract] >= ledger.balance[Contract] - TotalOf(D \cup {s})
    <3>1. u.ledger.balance[Contract] >= v.ledger.balance[Contract] - splits[s].total_amount
      BY <2>8, <2>9 DEF PaidUpTo
    <3>2. v.ledger.balance[Contract] >= ledger.balance[Contract] - TotalOf(D)
      BY DEF AllDistributed
    <3>3. u.ledger.balance[Contract] \in Nat /\ v.ledger.balance[Contract] \in Nat /\ ledger.balance[Contract] \in Nat
      BY <2>10
    <3> QED BY <2>5, <2>6, <3>1, <3>2, <3>3
  <2> QED BY <2>1, <2>2, <2>3, <2>4, <2>7, <2>8, <2>11, <2>12, <2>13 DEF AllDistributed
<1> QED
  BY <1>5, <1>6 DEF u

\* Before the first one.
LEMMA NoneDistributed ==
    ASSUME SplitsOK
    PROVE  Working \in Work /\ Working.ok /\ AllDistributed(Working, {})
<1>1. Working \in Work /\ Working.ok
  BY DEF Working, Work, SplitsOK
<1>2. splits = MarkedAll({})
  BY SplitsLemma DEF MarkedAll, SplitsOK
<1>3. TotalOf({}) = 0 /\ Cardinality({}) = 0
  BY TotalOfLemma, FS_EmptySet
<1>4. stats.distributed = stats.distributed + 0 /\ stats.value = stats.value + 0
  BY DEF SplitsOK, Stats
<1>5. ledger.balance \in [Address -> Nat] /\ Contract \in Address
  BY DEF SplitsOK, LedgerType, Address
<1>6. \A a \in Address : ledger.balance[a] >= ledger.balance[a] /\ ledger.balance[a] >= ledger.balance[a] - 0
  BY <1>5
<1> QED
  BY <1>1, <1>2, <1>3, <1>4, <1>5, <1>6 DEF Working, AllDistributed

\* bulk_distribute is the fold with distribute as its step.
DistributeStep(caller, s, w) == Distributed(w, caller, s)

Bulks == INSTANCE FoldProofs WITH Op <- DistributeStep, Choose <- LastOf

\* bulk_distribute is the instance's fold, over splits that exist.
LEMMA BulkIsFold ==
    /\ \A S : IsFiniteSet(S) => Bulks!IsFiniteSet(S)
    /\ \A S : IsFiniteSet(S) /\ S \subseteq Int => Bulks!Chooses(S)
    /\ \A caller, ids :
          BulkDistribute(caller, ids) =>
             /\ \A k \in DOMAIN ids : SplitExists(ids[k])
             /\ Commit(Bulks!Fold(caller, ids, Working, DOMAIN ids))
<1>1. ASSUME NEW S PROVE IsFiniteSet(S) => Bulks!IsFiniteSet(S)
  BY DEF IsFiniteSet, Bulks!IsFiniteSet
<1>2. ASSUME NEW S, IsFiniteSet(S), S \subseteq Int PROVE Bulks!Chooses(S)
  <2>1. Pays!Chooses(S)
    BY <1>2, DistributedIsFold
  <2> QED BY <2>1 DEF Pays!Chooses, Bulks!Chooses
<1>3. ASSUME NEW caller, NEW ids, BulkDistribute(caller, ids)
      PROVE  /\ \A k \in DOMAIN ids : SplitExists(ids[k])
             /\ Commit(Bulks!Fold(caller, ids, Working, DOMAIN ids))
  <2>1. \A k \in DOMAIN ids : SplitExists(ids[k])
    BY <1>3 DEF BulkDistribute
  <2>2. Commit(Bulks!Fold(caller, ids, Working, DOMAIN ids))
    BY <1>3 DEF BulkDistribute, FoldLeft, MapThenFoldSet, DistributeStep, LastOf,
                Bulks!Fold, Bulks!FoldsOf, Bulks!Folds
  <2> QED BY <2>1, <2>2
<1> QED
  BY <1>1, <1>2, <1>3

\* What the recipients of one split, distributed alone, have got.
PaidAlone(v, D) ==
    /\ D = {} => v.ledger = ledger
    /\ \A s \in DOMAIN splits :
          D = {s} => PaidUpTo(ledger, v.ledger, splits[s], Positions(splits[s]))

Distributes(D) == \E v \in Work : Commit(v) /\ AllDistributed(v, D) /\ PaidAlone(v, D)

\* Distributing one more split, and what its recipients get if it is the first.
LEMMA DistributeOneMoreAlone ==
    ASSUME SplitsOK, NEW D, NEW v \in Work, v.ok, AllDistributed(v, D), PaidAlone(v, D),
           NEW caller, NEW s \in DOMAIN splits
    PROVE  /\ Distributed(v, caller, s) \in Work
           /\ Distributed(v, caller, s).ok =>
                 AllDistributed(Distributed(v, caller, s), D \cup {s})
                   /\ PaidAlone(Distributed(v, caller, s), D \cup {s})
<1> DEFINE u == Distributed(v, caller, s)
<1>1. /\ u \in Work
      /\ u.ok => /\ s \notin D /\ splits[s].sender = caller
                 /\ AllDistributed(u, D \cup {s})
                 /\ PaidUpTo(v.ledger, u.ledger, splits[s], Positions(splits[s]))
  BY DistributeOneMore
<1> HIDE DEF u
<1>2. ASSUME u.ok PROVE PaidAlone(u, D \cup {s})
  <2>1. D \cup {s} # {}
    OBVIOUS
  <2>2. ASSUME NEW t \in DOMAIN splits, D \cup {s} = {t}
        PROVE  PaidUpTo(ledger, u.ledger, splits[t], Positions(splits[t]))
    <3>1. t = s /\ D = {}
      BY <1>1, <1>2, <2>2
    <3>2. v.ledger = ledger
      BY <3>1 DEF PaidAlone
    <3> QED BY <1>1, <1>2, <3>1, <3>2
  <2> QED BY <2>1, <2>2 DEF PaidAlone
<1> QED
  BY <1>1, <1>2 DEF u

\* A distribute that succeeds distributes the one split.
LEMMA DistributeLemma ==
    ASSUME SplitsOK, NEW caller, NEW s, Distribute(caller, s)
    PROVE  s \in DOMAIN splits /\ Distributes({s})
<1>1. s \in DOMAIN splits
  BY SplitsLemma DEF Distribute, SplitExists
<1> DEFINE v == Distributed(Working, caller, s)
<1>2. Working \in Work /\ Working.ok /\ AllDistributed(Working, {}) /\ PaidAlone(Working, {})
  BY NoneDistributed DEF PaidAlone, Working
<1>3. v.ok /\ Commit(v)
  BY DEF Distribute, Commit
<1>4. v \in Work /\ (v.ok => AllDistributed(v, {} \cup {s}) /\ PaidAlone(v, {} \cup {s}))
  BY <1>1, <1>2, DistributeOneMoreAlone
<1>5. {} \cup {s} = {s}
  OBVIOUS
<1> HIDE DEF v
<1> QED
  BY <1>1, <1>3, <1>4, <1>5 DEF Distributes

\* A bulk_distribute that succeeds distributes a set of splits.
LEMMA BulkDistributeLemma ==
    ASSUME SplitsOK, NEW caller, NEW ids \in SeqOf(SplitId, MaxBulk + 1), BulkDistribute(caller, ids)
    PROVE  \E D \in SUBSET DOMAIN splits : Distributes(D)
<1> DEFINE K == DOMAIN ids
           Ids(t) == {ids[k] : k \in t}
           W == [t \in SUBSET K |->
                   {v \in Work : v.ok => AllDistributed(v, Ids(t)) /\ PaidAlone(v, Ids(t))}]
           end == Bulks!Fold(caller, ids, Working, K)
<1>1. IsFiniteSet(K) /\ K \subseteq Int
  <2>1. PICK m \in 0 .. MaxBulk + 1 : ids \in [1 .. m -> SplitId]
    BY DEF SeqOf
  <2>2. IsFiniteSet(1 .. m) /\ K = 1 .. m
    BY <2>1, FS_Interval, SplitterAssumption
  <2> QED BY <2>2
<1>2. (\A k \in K : ids[k] \in DOMAIN splits) /\ Commit(end)
  BY BulkIsFold, SplitsLemma DEF SplitExists
<1>3. Working \in W[{}]
  <2>1. Working \in Work /\ AllDistributed(Working, {}) /\ PaidAlone(Working, {})
    BY NoneDistributed DEF PaidAlone, Working
  <2>2. Ids({}) = {}
    OBVIOUS
  <2> HIDE DEF Ids
  <2> QED BY <2>1, <2>2
<1>4. ASSUME NEW t \in SUBSET K, t # {}, LastOf(t) \in t, NEW v \in W[t \ {LastOf(t)}]
      PROVE  DistributeStep(caller, ids[LastOf(t)], v) \in W[t]
  <2> DEFINE s == ids[LastOf(t)]
             D == Ids(t \ {LastOf(t)})
             u == Distributed(v, caller, s)
  <2>1. s \in DOMAIN splits /\ Ids(t) = D \cup {s}
    BY <1>2, <1>4
  <2>2. v \in Work /\ (v.ok => AllDistributed(v, D) /\ PaidAlone(v, D))
    BY <1>4
  <2> HIDE DEF s, D
  <2>3. u \in Work /\ (u.ok => AllDistributed(u, D \cup {s}) /\ PaidAlone(u, D \cup {s}))
    <3>1. CASE v.ok
      BY <2>1, <2>2, <3>1, DistributeOneMoreAlone
    <3>2. CASE ~v.ok
      <4>1. u = Failed(v)
        BY <3>2 DEF Distributed
      <4>2. Failed(v) \in Work /\ ~Failed(v).ok
        BY <2>2 DEF Failed, Work
      <4> QED BY <4>1, <4>2
    <3> QED BY <3>1, <3>2
  <2>4. DistributeStep(caller, s, v) = u
    BY DEF DistributeStep
  <2> HIDE DEF u, Ids
  <2>5. DistributeStep(caller, s, v) \in W[t]
    BY <1>4, <2>1, <2>3, <2>4
  <2> QED BY <2>5 DEF s
<1>5. end \in W[K]
  <2>1. Bulks!IsFiniteSet(K) /\ Bulks!Chooses(K)
    BY <1>1, BulkIsFold
  <2>2. \A t \in SUBSET K : t # {} => LastOf(t) \in t
    BY <2>1 DEF Bulks!Chooses
  <2>3. \A t \in SUBSET K : t # {} =>
           \A v \in W[t \ {LastOf(t)}] : DistributeStep(caller, ids[LastOf(t)], v) \in W[t]
    <3> HIDE DEF W, K
    <3> QED BY <1>4, <2>2
  <2> HIDE DEF W, K
  <2> QED BY <1>3, <2>1, <2>3, Bulks!FoldInduction
<1> HIDE DEF end
<1>6. /\ end \in Work /\ end.ok
      /\ AllDistributed(end, Ids(K)) /\ PaidAlone(end, Ids(K))
  BY <1>2, <1>5 DEF Commit
<1>7. Ids(K) \in SUBSET DOMAIN splits
  BY <1>2
<1> HIDE DEF Ids
<1> QED
  BY <1>2, <1>6, <1>7 DEF Distributes

-----------------------------------------------------------------------------
(***************************************************************************)
(* The types, of the escrows too, and the steps of the escrows.            *)
(***************************************************************************)
TypeInv ==
    /\ TypeOK
    /\ splits \in Seq(SplitRecord)
    /\ escrows \in Seq(EscrowRecord)
    /\ Len(escrows) <= MaxEscrows
    /\ now \in Ledger

\* An address pays another, or itself, an amount that it has.
Payment(from, to, x) ==
    /\ from \in Address /\ to \in Address /\ x \in Nat
    /\ CanSpend(ledger, from, x)
    /\ ledger' = Move(ledger, from, to, x)

EscrowOpened ==
    \E from \in Account, r \in EscrowRecord :
        /\ Len(escrows) < MaxEscrows
        /\ ~r.released /\ ~r.refunded
        /\ escrows' = Append(escrows, r)
        /\ Payment(from, Contract, r.amount)

EscrowToppedUp ==
    \E from \in Account, i \in 1 .. Len(escrows), x \in Nat :
        /\ ~Settled(i)
        /\ escrows' = [escrows EXCEPT ![i].amount = @ + x]
        /\ Payment(from, Contract, x)

EscrowPaidOut ==
    \E i \in 1 .. Len(escrows), to \in Address, r \in EscrowRecord :
        /\ ~Settled(i)
        /\ r.released \/ r.refunded
        /\ escrows' = [escrows EXCEPT ![i] = r]
        /\ Payment(Contract, to, escrows[i].amount)

TokensMoved == (\E from \in Account, to \in Address, x \in Nat : Payment(from, to, x)) /\ UNCHANGED escrows

EscrowStep ==
    \/ EscrowOpened \/ EscrowToppedUp \/ EscrowPaidOut \/ TokensMoved
    \/ UNCHANGED <<ledger, escrows>>

\* A payment keeps the type of the ledger and the tokens there are, and shows
\* in two balances.
LEMMA PaymentLemma ==
    ASSUME ledger \in LedgerType, NEW from, NEW to, NEW x, Payment(from, to, x)
    PROVE  /\ ledger' \in LedgerType
           /\ Held(ledger') = Held(ledger)
           /\ x <= ledger.balance[from]
           /\ \A a \in Address : ledger'.balance[a] = ledger.balance[a] - (IF a = from THEN x ELSE 0)
                                                                       + (IF a = to THEN x ELSE 0)
<1>1. from \in Address /\ to \in Address /\ x \in Nat /\ CanSpend(ledger, from, x)
      /\ ledger' = Move(ledger, from, to, x)
  BY DEF Payment
<1>2. /\ ledger' \in LedgerType
      /\ ledger'.balance = [[ledger.balance EXCEPT ![from] = @ - x] EXCEPT ![to] = @ + x]
  BY <1>1, MoveLemma
<1>3. Held(ledger') = Held(ledger)
  BY <1>1, HeldLemma
<1>4. ledger.balance \in [Address -> Nat]
  BY DEF LedgerType
<1>5. \A a \in Address : ledger'.balance[a] = ledger.balance[a] - (IF a = from THEN x ELSE 0)
                                                                + (IF a = to THEN x ELSE 0)
  BY <1>1, <1>2, <1>4
<1>6. x <= ledger.balance[from]
  BY <1>1, <1>4 DEF CanSpend
<1> QED
  BY <1>2, <1>3, <1>5, <1>6

\* The types the escrow actions rely on.
LEMMA EscrowTypes ==
    ASSUME TypeInv
    PROVE  /\ ledger \in LedgerType /\ escrows \in Seq(EscrowRecord)
           /\ Len(escrows) \in Nat /\ DOMAIN escrows = 1 .. Len(escrows) /\ Len(escrows) <= MaxEscrows
           /\ \A i \in 1 .. Len(escrows) :
                 /\ i \in EscrowId /\ escrows[i] \in EscrowRecord
                 /\ escrows[i].depositor \in Account /\ escrows[i].depositor \in Address
                 /\ escrows[i].beneficiary \in Address /\ escrows[i].amount \in Nat
           /\ Amounts \subseteq Nat /\ Beneficiaries \subseteq Address /\ Contract \in Address
<1>1. /\ ledger \in LedgerType /\ escrows \in Seq(EscrowRecord) /\ Len(escrows) <= MaxEscrows
      /\ MaxEscrows \in Nat
  BY EscrowAssumption DEF TypeInv, TypeOK
<1>2. Len(escrows) \in Nat /\ DOMAIN escrows = 1 .. Len(escrows)
  BY <1>1, LenProperties
<1>3. \A i \in 1 .. Len(escrows) : escrows[i] \in EscrowRecord /\ i \in EscrowId
  BY <1>1, <1>2 DEF EscrowId
<1>4. \A i \in 1 .. Len(escrows) :
         /\ escrows[i].depositor \in Account /\ escrows[i].depositor \in Address
         /\ escrows[i].beneficiary \in Address /\ escrows[i].amount \in Nat
  BY <1>3 DEF EscrowRecord, Address
<1> QED
  BY <1>1, <1>2, <1>3, <1>4, EscrowAssumption DEF Address

\* Every escrow action is one of the steps above.
LEMMA EscrowNextLemma ==
    ASSUME TypeInv, EscrowNext
    PROVE  EscrowStep /\ now' \in Ledger
<1> USE EscrowTypes
<1>0. now \in Ledger /\ Account \subseteq Address
  BY DEF TypeInv, Address
<1>1. ASSUME NEW d \in Account, NEW b \in Beneficiaries, NEW x \in Amounts, NEW e \in Ledger,
             CreateEscrow(d, b, x, e)
      PROVE  EscrowOpened /\ now' = now
  <2> DEFINE r == [depositor |-> d, beneficiary |-> b, amount |-> x, released |-> FALSE,
                   refunded |-> FALSE, expiry_ledger |-> e]
  <2>1. r \in EscrowRecord /\ ~r.released /\ ~r.refunded /\ r.amount = x
    BY DEF EscrowRecord
  <2>2. escrows' = Append(escrows, r) /\ Len(escrows) < MaxEscrows /\ now' = now
    BY <1>1 DEF CreateEscrow
  <2>3. Payment(d, Contract, x)
    BY <1>0, <1>1 DEF CreateEscrow, Payment
  <2> HIDE DEF r
  <2> QED BY <2>1, <2>2, <2>3 DEF EscrowOpened
<1>2. ASSUME NEW i, Exists(i), NEW to \in Address, SettleReleased(i, to)
      PROVE  EscrowPaidOut
  <2> DEFINE r == [escrows[i] EXCEPT !.released = TRUE]
  <2>1. i \in 1 .. Len(escrows)
    BY <1>2 DEF Exists
  <2>2. r \in EscrowRecord /\ r.released
    BY <2>1 DEF EscrowRecord
  <2>3. ~Settled(i) /\ escrows' = [escrows EXCEPT ![i] = r]
    BY <1>2 DEF SettleReleased
  <2>4. Payment(Contract, to, escrows[i].amount)
    BY <1>2, <2>1 DEF SettleReleased, PayOut, Payment
  <2> HIDE DEF r
  <2> QED BY <2>1, <2>2, <2>3, <2>4 DEF EscrowPaidOut
<1>3. ASSUME NEW i, Exists(i), SettleRefunded(i)
      PROVE  EscrowPaidOut
  <2> DEFINE r == [escrows[i] EXCEPT !.refunded = TRUE]
  <2>1. i \in 1 .. Len(escrows)
    BY <1>3 DEF Exists
  <2>2. r \in EscrowRecord /\ r.refunded
    BY <2>1 DEF EscrowRecord
  <2>3. ~Settled(i) /\ escrows' = [escrows EXCEPT ![i] = r]
    BY <1>3 DEF SettleRefunded
  <2>4. Payment(Contract, escrows[i].depositor, escrows[i].amount)
    BY <1>3, <2>1 DEF SettleRefunded, PayOut, Payment
  <2> HIDE DEF r
  <2> QED BY <2>1, <2>2, <2>3, <2>4 DEF EscrowPaidOut
<1>4. ASSUME NEW c \in Account, NEW i \in EscrowId, ReleaseEscrow(c, i)
      PROVE  EscrowPaidOut /\ now' = now
  <2>1. Exists(i) /\ SettleReleased(i, escrows[i].beneficiary) /\ now' = now
    BY <1>4 DEF ReleaseEscrow, GetEscrow
  <2>2. escrows[i].beneficiary \in Address
    BY <2>1 DEF Exists
  <2> QED BY <1>2, <2>1, <2>2
<1>5. ASSUME NEW c \in Account, NEW i \in EscrowId, RefundEscrow(c, i)
      PROVE  EscrowPaidOut /\ now' = now
  BY <1>3, <1>5 DEF RefundEscrow, GetEscrow
<1>6. ASSUME NEW d \in Account, NEW i \in EscrowId, NEW x \in Amounts, TopupEscrow(d, i, x)
      PROVE  EscrowToppedUp /\ now' = now
  <2>1. i \in 1 .. Len(escrows) /\ ~Settled(i) /\ escrows' = [escrows EXCEPT ![i].amount = @ + x]
    BY <1>6 DEF TopupEscrow, GetEscrow, Exists
  <2>2. Payment(d, Contract, x) /\ now' = now /\ x \in Nat
    BY <1>0, <1>6 DEF TopupEscrow, Payment
  <2> QED BY <2>1, <2>2 DEF EscrowToppedUp
<1>7. ASSUME NEW a \in Account, NEW i \in EscrowId, NEW r \in Beneficiaries, AdminSettleEscrow(a, i, r)
      PROVE  EscrowPaidOut /\ now' = now
  BY <1>2, <1>7 DEF AdminSettleEscrow, GetEscrow
<1>8. ASSUME NEW i \in EscrowId, ReadEscrow(i)
      PROVE  UNCHANGED <<ledger, escrows>> /\ now' = now
  BY <1>8 DEF ReadEscrow
<1>9. ASSUME NEW f \in Account, NEW t \in Beneficiaries, NEW x \in Amounts, Transfer(f, t, x)
      PROVE  TokensMoved /\ now' = now
  <2>1. Payment(f, t, x) /\ UNCHANGED escrows /\ now' = now /\ t \in Address /\ x \in Nat
    BY <1>0, <1>9 DEF Transfer, Payment
  <2> QED BY <2>1 DEF TokensMoved
<1>10. ASSUME Tick PROVE UNCHANGED <<ledger, escrows>> /\ now' \in Ledger
  BY <1>0, <1>10, HostAssumption DEF Tick, LedgerCloses, Ledger
<1> QED
  BY <1>0, <1>1, <1>4, <1>5, <1>6, <1>7, <1>8, <1>9, <1>10 DEF EscrowNext, EscrowStep

-----------------------------------------------------------------------------
(***************************************************************************)
(* The types are preserved.                                                *)
(***************************************************************************)

\* What the types say of the splits and their index.
LEMMA TypeFacts ==
    ASSUME TypeInv
    PROVE  /\ SplitsOK /\ Len(splits) <= MaxSplits
           /\ recipientSplits \in [Address -> SUBSET SplitId]
           /\ \A s \in DOMAIN splits : s \in SplitId /\ s \in 1 .. Len(splits)
<1>1. SplitsOK /\ Len(splits) <= MaxSplits /\ recipientSplits \in [Address -> SUBSET SplitId]
  BY DEF TypeInv, TypeOK, SplitsOK, Stats
<1>2. Len(splits) \in Nat /\ DOMAIN splits = 1 .. Len(splits) /\ MaxSplits \in Nat
  BY <1>1, SplitsLemma, SplitterAssumption
<1> QED
  BY <1>1, <1>2 DEF SplitId

\* An escrow step leaves escrows.
LEMMA EscrowStepTypes ==
    ASSUME TypeInv, EscrowStep
    PROVE  /\ ledger' \in LedgerType /\ escrows' \in Seq(EscrowRecord)
           /\ Len(escrows') <= MaxEscrows
<1> USE EscrowTypes
<1>1. CASE EscrowOpened
  <2>1. PICK from \in Account, r \in EscrowRecord :
           Len(escrows) < MaxEscrows /\ escrows' = Append(escrows, r) /\ Payment(from, Contract, r.amount)
    BY <1>1 DEF EscrowOpened
  <2>2. escrows' \in Seq(EscrowRecord) /\ Len(escrows') = Len(escrows) + 1
    BY <2>1, RecordAppend
  <2>3. Len(escrows') <= MaxEscrows
    BY <2>1, <2>2, EscrowAssumption
  <2> QED BY <2>1, <2>2, <2>3, PaymentLemma
<1>2. CASE EscrowToppedUp
  <2>1. PICK from \in Account, i \in 1 .. Len(escrows), x \in Nat :
           escrows' = [escrows EXCEPT ![i].amount = @ + x] /\ Payment(from, Contract, x)
    BY <1>2 DEF EscrowToppedUp
  <2>2. [escrows[i] EXCEPT !.amount = @ + x] \in EscrowRecord
    BY DEF EscrowRecord
  <2>3. escrows' = [escrows EXCEPT ![i] = [escrows[i] EXCEPT !.amount = @ + x]]
    BY <2>1
  <2>4. escrows' \in Seq(EscrowRecord) /\ Len(escrows') = Len(escrows)
    BY <2>2, <2>3, RecordUpdate
  <2> QED BY <2>1, <2>4, PaymentLemma
<1>3. CASE EscrowPaidOut
  <2>1. PICK i \in 1 .. Len(escrows), to \in Address, r \in EscrowRecord :
           escrows' = [escrows EXCEPT ![i] = r] /\ Payment(Contract, to, escrows[i].amount)
    BY <1>3 DEF EscrowPaidOut
  <2>2. escrows' \in Seq(EscrowRecord) /\ Len(escrows') = Len(escrows)
    BY <2>1, RecordUpdate
  <2> QED BY <2>1, <2>2, PaymentLemma
<1>4. CASE TokensMoved
  BY <1>4, PaymentLemma DEF TokensMoved
<1>5. CASE UNCHANGED <<ledger, escrows>>
  BY <1>5
<1> QED
  BY <1>1, <1>2, <1>3, <1>4, <1>5 DEF EscrowStep

\* create_split stores a valid split under the next id.
LEMMA CreateSplitTypes ==
    ASSUME TypeInv, NEW c \in Account, NEW r \in RecipientLists, NEW x \in Amounts,
           CreateSplit(c, r, x)
    PROVE  /\ TypeInv'
           /\ Payment(c, Contract, x)
           /\ Len(splits) + 1 \in SplitId
           /\ Len(splits') = Len(splits) + 1
           /\ \A s \in DOMAIN splits : splits'[s] = splits[s]
           /\ splits'[Len(splits) + 1] = [sender |-> c, recipients |-> r, total_amount |-> x,
                                          distributed |-> FALSE, cancelled |-> FALSE]
<1> DEFINE n == Len(splits) + 1
           split == [sender |-> c, recipients |-> r, total_amount |-> x,
                     distributed |-> FALSE, cancelled |-> FALSE]
<1>1. /\ Len(splits) < MaxSplits /\ ValidRecipients(r)
      /\ splits' = Append(splits, split)
      /\ UNCHANGED <<otherVars, stats>>
      /\ recipientSplits' = [a \in Address |->
                               IF a \in {r[k].address : k \in DOMAIN r}
                               THEN recipientSplits[a] \cup {n} ELSE recipientSplits[a]]
  BY DEF CreateSplit
<1>2. SplitsOK /\ Len(splits) \in Nat /\ DOMAIN splits = 1 .. Len(splits)
      /\ recipientSplits \in [Address -> SUBSET SplitId] /\ MaxSplits \in Nat
  BY TypeFacts, SplitsLemma, SplitterAssumption
<1>3. r \in Seq(Recipient) /\ x \in Nat
  BY SplitterAssumption, EscrowTypes
<1>4. split \in SplitRecord
  BY <1>3 DEF SplitRecord
<1>5. split.recipients = r
  OBVIOUS
<1> HIDE DEF split
<1>6. /\ splits' \in Seq(SplitRecord) /\ Len(splits') = n
      /\ \A s \in 1 .. Len(splits) : splits'[s] = splits[s]
      /\ splits'[n] = split
  BY <1>1, <1>2, <1>4, RecordAppend DEF SplitsOK
<1>7. n \in SplitId /\ n <= MaxSplits
  BY <1>1, <1>2 DEF SplitId
<1>8. Payment(c, Contract, x)
  BY <1>3, EscrowTypes DEF CreateSplit, Payment, Address
<1>9. ledger' \in LedgerType
  BY <1>8, PaymentLemma, EscrowTypes
<1>10. \A s \in DOMAIN splits' : splits'[s] \in SplitRecord /\ ValidRecipients(splits'[s].recipients)
  <2> SUFFICES ASSUME NEW s \in DOMAIN splits'
               PROVE  splits'[s] \in SplitRecord /\ ValidRecipients(splits'[s].recipients)
    OBVIOUS
  <2>1. s \in 1 .. n
    BY <1>6, LenProperties
  <2>2. CASE s = n
    BY <1>1, <1>4, <1>5, <1>6, <2>2
  <2>3. CASE s # n
    <3>1. s \in 1 .. Len(splits) /\ splits'[s] = splits[s]
      BY <1>2, <1>6, <2>1, <2>3
    <3> QED BY <1>2, <3>1, SplitsLemma DEF SplitsOK
  <2> QED BY <2>2, <2>3
<1>11. recipientSplits' \in [Address -> SUBSET SplitId]
  BY <1>1, <1>2, <1>7
<1>12. TypeOK'
  <2>1. Len(splits') <= MaxSplits
    BY <1>6, <1>7
  <2>2. stats' \in [distributed: Nat, cancelled: Nat, value: Nat]
    BY <1>1 DEF TypeInv, TypeOK
  <2> QED BY <1>9, <1>10, <1>11, <2>1, <2>2 DEF TypeOK
<1>13. TypeInv'
  <2>1. escrows' = escrows /\ now' = now
    BY <1>1 DEF otherVars
  <2> QED BY <1>6, <1>12, <2>1 DEF TypeInv
<1> QED
  BY <1>2, <1>6, <1>7, <1>8, <1>13 DEF split

\* Distributions mark the splits and count them.
LEMMA DistributesTypes ==
    ASSUME TypeInv, NEW D, D \subseteq DOMAIN splits, Distributes(D)
    PROVE  /\ TypeInv'
           /\ splits' = MarkedAll(D) /\ D \subseteq OpenSplits
           /\ stats'.distributed = stats.distributed + Cardinality(D)
           /\ stats'.cancelled = stats.cancelled
           /\ stats'.value = stats.value + TotalOf(D)
           /\ UNCHANGED <<otherVars, recipientSplits>>
<1>1. PICK v \in Work : Commit(v) /\ AllDistributed(v, D)
  BY DEF Distributes
<1>2. /\ ledger' \in LedgerType /\ splits' \in Seq(SplitRecord) /\ stats' \in Stats
      /\ splits' = MarkedAll(D) /\ D \subseteq OpenSplits
      /\ stats'.distributed = stats.distributed + Cardinality(D)
      /\ stats'.cancelled = stats.cancelled
      /\ stats'.value = stats.value + TotalOf(D)
      /\ UNCHANGED <<otherVars, recipientSplits>>
  BY <1>1 DEF Commit, AllDistributed, Work
<1>3. SplitsOK /\ Len(splits) <= MaxSplits /\ recipientSplits \in [Address -> SUBSET SplitId]
  BY TypeFacts
<1>4. DOMAIN splits' = DOMAIN splits /\ Len(splits') = Len(splits)
  <2>1. DOMAIN splits' = DOMAIN splits
    BY <1>2 DEF MarkedAll
  <2>2. Len(splits') \in Nat /\ DOMAIN splits' = 1 .. Len(splits')
    BY <1>2, LenProperties
  <2>3. Len(splits) \in Nat /\ DOMAIN splits = 1 .. Len(splits)
    BY <1>3, SplitsLemma
  <2>4. \A m, n \in Nat : 1 .. m = 1 .. n => m = n
    OBVIOUS
  <2>5. Len(splits') = Len(splits)
    BY <2>1, <2>2, <2>3, <2>4
  <2> QED BY <2>1, <2>5
<1>5. \A s \in DOMAIN splits' : splits'[s] \in SplitRecord /\ ValidRecipients(splits'[s].recipients)
  <2> SUFFICES ASSUME NEW s \in DOMAIN splits
               PROVE  splits'[s] \in SplitRecord /\ ValidRecipients(splits'[s].recipients)
    BY <1>4
  <2>1. splits[s] \in SplitRecord /\ ValidRecipients(splits[s].recipients)
    BY <1>3, SplitsLemma DEF SplitsOK
  <2>2. splits'[s] = IF s \in D THEN [splits[s] EXCEPT !.distributed = TRUE] ELSE splits[s]
    BY <1>2 DEF MarkedAll
  <2>3. splits'[s] \in SplitRecord /\ splits'[s].recipients = splits[s].recipients
    BY <2>1, <2>2 DEF SplitRecord
  <2> QED BY <2>1, <2>3
<1>6. TypeOK'
  BY <1>2, <1>3, <1>4, <1>5 DEF TypeOK, Stats
<1>7. TypeInv'
  <2>1. escrows' = escrows /\ now' = now
    BY <1>2 DEF otherVars
  <2> QED BY <1>2, <1>6, <2>1 DEF TypeInv
<1> QED
  BY <1>2, <1>7

\* cancel_split marks the split and pays its total back.
LEMMA CancelSplitTypes ==
    ASSUME TypeInv, NEW c \in Account, NEW s \in SplitId, CancelSplit(c, s)
    PROVE  /\ TypeInv'
           /\ s \in DOMAIN splits /\ ~Closed(splits[s])
           /\ splits' = [splits EXCEPT ![s].cancelled = TRUE]
           /\ DOMAIN splits' = DOMAIN splits
           /\ stats' = [stats EXCEPT !.cancelled = @ + 1]
           /\ Payment(Contract, c, splits[s].total_amount)
           /\ UNCHANGED <<otherVars, recipientSplits>>
<1>1. /\ SplitsOK /\ Len(splits) <= MaxSplits /\ recipientSplits \in [Address -> SUBSET SplitId]
      /\ s \in DOMAIN splits /\ s \in 1 .. Len(splits) /\ DOMAIN splits = 1 .. Len(splits)
  BY TypeFacts, SplitsLemma DEF CancelSplit, SplitExists
<1>2. /\ ~Closed(splits[s]) /\ splits' = [splits EXCEPT ![s].cancelled = TRUE]
      /\ stats' = [stats EXCEPT !.cancelled = @ + 1] /\ UNCHANGED <<otherVars, recipientSplits>>
  BY DEF CancelSplit
<1>3. splits[s] \in SplitRecord /\ ValidRecipients(splits[s].recipients)
  BY <1>1, SplitsLemma DEF SplitsOK
<1>4. Payment(Contract, c, splits[s].total_amount)
  BY <1>3, EscrowTypes DEF CancelSplit, Payment, SplitRecord, Address
<1>5. ledger' \in LedgerType
  BY <1>4, PaymentLemma, EscrowTypes
<1> DEFINE r == [splits[s] EXCEPT !.cancelled = TRUE]
<1>6. r \in SplitRecord /\ r.recipients = splits[s].recipients
  BY <1>3 DEF SplitRecord
<1>7. splits' = [splits EXCEPT ![s] = r]
  BY <1>2
<1> HIDE DEF r
<1>8. /\ splits' \in Seq(SplitRecord) /\ Len(splits') = Len(splits)
      /\ \A t \in 1 .. Len(splits) : splits'[t] = IF t = s THEN r ELSE splits[t]
      /\ DOMAIN splits' = DOMAIN splits
  BY <1>1, <1>6, <1>7, RecordUpdate DEF SplitsOK
<1>9. \A t \in DOMAIN splits' : splits'[t] \in SplitRecord /\ ValidRecipients(splits'[t].recipients)
  BY <1>1, <1>3, <1>6, <1>8, SplitsLemma DEF SplitsOK
<1>10. stats' \in Stats
  BY <1>1, <1>2, StatsUpdate DEF SplitsOK
<1>11. TypeOK'
  BY <1>1, <1>2, <1>5, <1>8, <1>9, <1>10 DEF TypeOK, Stats
<1>12. TypeInv'
  <2>1. escrows' = escrows /\ now' = now
    BY <1>2 DEF otherVars
  <2> QED BY <1>8, <1>11, <2>1 DEF TypeInv
<1> QED
  BY <1>1, <1>2, <1>4, <1>8, <1>12

\* replace_split_recipient keeps the list valid.
LEMMA ReplaceTypes ==
    ASSUME TypeInv, NEW c \in Account, NEW s \in SplitId, NEW old \in Beneficiaries,
           NEW new \in Beneficiaries, ReplaceSplitRecipient(c, s, old, new)
    PROVE  /\ TypeInv'
           /\ s \in DOMAIN splits /\ DOMAIN splits' = DOMAIN splits
           /\ splits' = [splits EXCEPT ![s] =
                           [splits[s] EXCEPT !.recipients = ReplaceIn(splits[s].recipients, old, new)]]
           /\ splits[s] \in SplitRecord
           /\ UNCHANGED <<otherVars, ledger, stats>>
<1> DEFINE r == splits[s].recipients
           q == ReplaceIn(r, old, new)
           split == [splits[s] EXCEPT !.recipients = q]
<1>1. /\ SplitsOK /\ Len(splits) <= MaxSplits /\ recipientSplits \in [Address -> SUBSET SplitId]
      /\ s \in DOMAIN splits /\ s \in 1 .. Len(splits) /\ DOMAIN splits = 1 .. Len(splits)
  BY TypeFacts, SplitsLemma DEF ReplaceSplitRecipient, SplitExists
<1>2. /\ new \notin PaysTo(splits[s]) /\ splits' = [splits EXCEPT ![s] = split]
      /\ recipientSplits' = [recipientSplits EXCEPT ![old] = @ \ {s}, ![new] = @ \cup {s}]
      /\ UNCHANGED <<otherVars, ledger, stats>>
  BY DEF ReplaceSplitRecipient
<1>3. splits[s] \in SplitRecord /\ ValidRecipients(r) /\ r \in Seq(Recipient)
  BY <1>1, SplitsLemma DEF SplitsOK, SplitRecord
<1>4. /\ DOMAIN r = 1 .. Len(r) /\ Len(r) \in Nat
      /\ \A k \in DOMAIN r : r[k] \in Recipient
  BY <1>3, LenProperties
<1>5. old \in Address /\ new \in Address
  BY EscrowAssumption
<1>6. \A k \in DOMAIN r : /\ q[k] \in Recipient /\ q[k].share_bps = r[k].share_bps
                          /\ q[k].address = IF r[k].address = old THEN new ELSE r[k].address
  BY <1>4, <1>5 DEF ReplaceIn, Recipient
<1>7. q \in Seq(Recipient) /\ Len(q) = Len(r) /\ DOMAIN q = DOMAIN r
  <2>1. q \in [1 .. Len(r) -> Recipient]
    BY <1>4, <1>6 DEF ReplaceIn
  <2> HIDE DEF q, r
  <2> QED BY <1>4, <2>1
<1>8. ValidRecipients(q)
  <2>1. [k \in DOMAIN q |-> q[k].share_bps] = [k \in DOMAIN r |-> r[k].share_bps]
    BY <1>6, <1>7
  <2>2. \A k \in DOMAIN r : r[k].address # new
    BY <1>2 DEF PaysTo
  <2> HIDE DEF q, r
  <2>3. \A k, m \in DOMAIN q : q[k].address = q[m].address => k = m
    BY <1>3, <1>6, <1>7, <2>2 DEF ValidRecipients
  <2>4. Len(q) \in 1 .. MaxRecipients /\ \A k \in DOMAIN q : q[k].share_bps > 0
    BY <1>3, <1>6, <1>7 DEF ValidRecipients
  <2>5. SumFunctionOnSet([k \in DOMAIN q |-> q[k].share_bps], DOMAIN q) = Bps
    BY <1>3, <1>7, <2>1 DEF ValidRecipients
  <2> QED BY <2>3, <2>4, <2>5 DEF ValidRecipients
<1> HIDE DEF q, r
<1>9. split \in SplitRecord /\ split.recipients = q
  BY <1>3, <1>7 DEF SplitRecord
<1> HIDE DEF split
<1>10. /\ splits' \in Seq(SplitRecord) /\ Len(splits') = Len(splits)
       /\ \A t \in 1 .. Len(splits) : splits'[t] = IF t = s THEN split ELSE splits[t]
       /\ DOMAIN splits' = DOMAIN splits
  BY <1>1, <1>2, <1>9, RecordUpdate DEF SplitsOK
<1>11. \A t \in DOMAIN splits' : splits'[t] \in SplitRecord /\ ValidRecipients(splits'[t].recipients)
  BY <1>1, <1>8, <1>9, <1>10, SplitsLemma DEF SplitsOK
<1>12. recipientSplits' \in [Address -> SUBSET SplitId]
  BY <1>1, <1>2, <1>5
<1>13. TypeOK'
  BY <1>1, <1>2, <1>10, <1>11, <1>12 DEF TypeOK, TypeInv
<1>14. TypeInv'
  <2>1. escrows' = escrows /\ now' = now
    BY <1>2 DEF otherVars
  <2> QED BY <1>10, <1>13, <2>1 DEF TypeInv
<1> QED
  BY <1>1, <1>2, <1>3, <1>10, <1>14 DEF split, q, r

\* The amount of the k-th escrow of create_split_with_escrow.
SplitEscrowAmount(recipients, total, k) ==
    AmountToSend([total_amount |-> total, recipients |-> recipients], k)

\* create_split_with_escrow appends an escrow for every recipient, which have
\* the total together.
LEMMA SplitWithEscrowTypes ==
    ASSUME TypeInv, NEW c \in Account, NEW r \in RecipientLists, NEW x \in Amounts,
           NEW e \in Ledger, CreateSplitWithEscrow(c, r, x, e)
    PROVE  /\ TypeInv'
           /\ Payment(c, Contract, x)
           /\ Len(escrows') = Len(escrows) + Len(r) /\ DOMAIN r = 1 .. Len(r) /\ IsFiniteSet(DOMAIN r)
           /\ Len(r) \in Nat /\ Len(escrows) + Len(r) <= MaxEscrows
           /\ \A i \in 1 .. Len(escrows) : escrows'[i] = escrows[i]
           /\ \A k \in DOMAIN r : LET new == escrows'[Len(escrows) + k]
                                  IN  /\ new.amount = SplitEscrowAmount(r, x, k)
                                      /\ ~new.released /\ ~new.refunded
           /\ \A k \in DOMAIN r : SplitEscrowAmount(r, x, k) \in Nat
           /\ SumFunctionOnSet([k \in DOMAIN r |-> SplitEscrowAmount(r, x, k)], DOMAIN r) = x
           /\ UNCHANGED splitVars
<1> DEFINE split == [total_amount |-> x, recipients |-> r]
           new == [k \in DOMAIN r |->
                     [depositor |-> c, beneficiary |-> r[k].address, amount |-> SplitEscrowAmount(r, x, k),
                      released |-> FALSE, refunded |-> FALSE, expiry_ledger |-> e]]
<1> USE EscrowTypes
<1>1. /\ Len(escrows) + Len(r) <= MaxEscrows /\ r # <<>>
      /\ escrows' = escrows \o new
      /\ UNCHANGED <<now, splitVars>>
  BY DEF CreateSplitWithEscrow, SplitEscrowAmount
<1>2. r \in Seq(Recipient) /\ x \in Nat
  BY SplitterAssumption
<1>3. Divisible(split) /\ split.recipients # <<>>
  BY <1>1, <1>2, SharesAssumption DEF Divisible
<1>4. /\ \A k \in DOMAIN r : SplitEscrowAmount(r, x, k) \in Nat
      /\ SumFunctionOnSet([k \in DOMAIN r |-> SplitEscrowAmount(r, x, k)], DOMAIN r) = x
  <2>1. \A k \in Positions(split) : AmountToSend(split, k) \in Nat
    BY <1>3, AmountsLemma
  <2>2. SumFunctionOnSet(AmountsOf(split), Positions(split)) = split.total_amount
    BY <1>3, AmountsLemma
  <2>3. Positions(split) = DOMAIN r /\ split.total_amount = x
    BY DEF Positions
  <2>4. AmountsOf(split) = [k \in DOMAIN r |-> SplitEscrowAmount(r, x, k)]
    BY DEF Positions, AmountsOf, SplitEscrowAmount
  <2> QED BY <2>1, <2>2, <2>3, <2>4 DEF SplitEscrowAmount
<1>5. /\ Len(r) \in Nat /\ DOMAIN r = 1 .. Len(r) /\ IsFiniteSet(DOMAIN r)
      /\ \A k \in DOMAIN r : r[k].address \in Address
  BY <1>2, PositionsLemma
<1>6. \A k \in DOMAIN r : new[k] \in EscrowRecord
  BY <1>4, <1>5 DEF EscrowRecord
<1>7. new \in Seq(EscrowRecord) /\ Len(new) = Len(r)
  <2>1. new \in [1 .. Len(r) -> EscrowRecord]
    BY <1>5, <1>6
  <2> HIDE DEF new
  <2> QED BY <1>5, <2>1
<1>8. \A k \in DOMAIN r : new[k].amount = SplitEscrowAmount(r, x, k) /\ ~new[k].released /\ ~new[k].refunded
  OBVIOUS
<1> HIDE DEF new
<1>9. /\ escrows' \in Seq(EscrowRecord) /\ Len(escrows') = Len(escrows) + Len(r)
      /\ \A i \in 1 .. Len(escrows) : escrows'[i] = escrows[i]
      /\ \A k \in 1 .. Len(r) : escrows'[Len(escrows) + k] = new[k]
  <2>1. escrows' \in Seq(EscrowRecord) /\ Len(escrows') = Len(escrows) + Len(r)
    <3>1. escrows \o new \in Seq(EscrowRecord) /\ Len(escrows \o new) = Len(escrows) + Len(new)
      BY <1>7, ConcatProperties
    <3> QED BY <1>1, <1>7, <3>1
  <2>2. \A i \in 1 .. Len(escrows) + Len(new) :
           escrows'[i] = IF i <= Len(escrows) THEN escrows[i] ELSE new[i - Len(escrows)]
    BY <1>1, <1>7, ConcatProperties
  <2>3. \A i \in 1 .. Len(escrows) : escrows'[i] = escrows[i]
    BY <1>5, <1>7, <2>2
  <2>4. ASSUME NEW k \in 1 .. Len(r) PROVE escrows'[Len(escrows) + k] = new[k]
    <3>1. Len(escrows) + k \in 1 .. Len(escrows) + Len(new) /\ ~(Len(escrows) + k <= Len(escrows))
      BY <1>5, <1>7
    <3>2. (Len(escrows) + k) - Len(escrows) = k
      OBVIOUS
    <3>3. escrows'[Len(escrows) + k] = new[(Len(escrows) + k) - Len(escrows)]
      BY <2>2, <3>1
    <3> QED BY <3>2, <3>3
  <2> QED BY <2>1, <2>3, <2>4
<1>10. Payment(c, Contract, x)
  BY <1>2 DEF CreateSplitWithEscrow, Payment, Address
<1>11. ledger' \in LedgerType
  BY <1>10, PaymentLemma
<1>12. TypeOK'
  BY <1>1, <1>11 DEF TypeInv, TypeOK, splitVars, ValidRecipients
<1>13. TypeInv'
  BY <1>1, <1>9, <1>12 DEF TypeInv, splitVars
<1>14. \A k \in DOMAIN r : LET n == escrows'[Len(escrows) + k]
                           IN  n.amount = SplitEscrowAmount(r, x, k) /\ ~n.released /\ ~n.refunded
  BY <1>5, <1>8, <1>9
<1> QED
  BY <1>1, <1>4, <1>5, <1>9, <1>10, <1>13, <1>14

\* The escrows' steps next to the splits.
LEMMA EscrowNextTypes ==
    ASSUME TypeInv, EscrowNext, UNCHANGED splitVars
    PROVE  TypeInv' /\ EscrowStep
<1>1. EscrowStep /\ now' \in Ledger
  BY EscrowNextLemma
<1>2. ledger' \in LedgerType /\ escrows' \in Seq(EscrowRecord) /\ Len(escrows') <= MaxEscrows
  BY <1>1, EscrowStepTypes
<1>3. TypeOK'
  BY <1>2 DEF TypeInv, TypeOK, splitVars, ValidRecipients
<1> QED
  BY <1>1, <1>2, <1>3 DEF TypeInv, splitVars

-----------------------------------------------------------------------------
(***************************************************************************)
(* The statistics agree with the records, and the index with the lists.    *)
(***************************************************************************)
DistributedSplits == {s \in DOMAIN splits : splits[s].distributed}
CancelledSplits == {s \in DOMAIN splits : splits[s].cancelled}

StatsInv ==
    /\ stats.distributed = Cardinality(DistributedSplits)
    /\ stats.cancelled = Cardinality(CancelledSplits)
    /\ stats.value = TotalOf(DistributedSplits)

\* Totals of splits apart from each other add up.
LEMMA TotalOfUnion ==
    ASSUME SplitsOK, NEW D, D \subseteq DOMAIN splits, NEW E, E \subseteq DOMAIN splits, D \cap E = {}
    PROVE  /\ TotalOf(D \cup E) = TotalOf(D) + TotalOf(E)
           /\ Cardinality(D \cup E) = Cardinality(D) + Cardinality(E)
<1> DEFINE f == [s \in DOMAIN splits |-> splits[s].total_amount]
<1>1. IsFiniteSet(DOMAIN splits) /\ \A s \in DOMAIN splits : f[s] \in Nat
  BY SplitsLemma DEF SplitRecord
<1>2. ASSUME NEW G, G \subseteq DOMAIN splits
      PROVE  TotalOf(G) = SumFunctionOnSet(f, G) /\ IsFiniteSet(G)
  <2> DEFINE g == [s \in G |-> splits[s].total_amount]
  <2>1. IsFiniteSet(G) /\ \A s \in G : g[s] = f[s]
    BY <1>1, <1>2, FS_Subset
  <2> HIDE DEF f, g
  <2>2. SumFunctionOnSet(g, G) = SumFunctionOnSet(f, G)
    BY <2>1, SumSame
  <2> QED BY <2>1, <2>2 DEF TotalOf, g
<1> HIDE DEF f
<1>3. IsFiniteSet(D) /\ IsFiniteSet(E) /\ \A s \in D \cup E : f[s] \in Int
  BY <1>1, <1>2
<1>4. SumFunctionOnSet(f, D \cup E) = SumFunctionOnSet(f, D) + SumFunctionOnSet(f, E)
  BY <1>3, SumUnion
<1>5. TotalOf(D \cup E) = SumFunctionOnSet(f, D \cup E) /\ TotalOf(D) = SumFunctionOnSet(f, D)
      /\ TotalOf(E) = SumFunctionOnSet(f, E)
  BY <1>2
<1>6. Cardinality(D \cup E) = Cardinality(D) + Cardinality(E)
  <2>1. Cardinality(D \cup E) = Cardinality(D) + Cardinality(E) - Cardinality(D \cap E)
    BY <1>3, FS_Union
  <2>2. Cardinality(D) \in Nat /\ Cardinality(E) \in Nat /\ Cardinality(D \cap E) = 0
    BY <1>3, FS_CardinalityType, FS_EmptySet
  <2> QED BY <2>1, <2>2
<1> QED
  BY <1>4, <1>5, <1>6

\* Records that keep their totals keep the sum.
LEMMA TotalOfSame ==
    ASSUME SplitsOK, NEW D, D \subseteq DOMAIN splits,
           \A s \in D : splits'[s].total_amount = splits[s].total_amount
    PROVE  TotalOf(D)' = TotalOf(D)
<1>1. [s \in D |-> splits'[s].total_amount] = [s \in D |-> splits[s].total_amount]
  OBVIOUS
<1> QED
  BY <1>1 DEF TotalOf

\* A step that marks no split and keeps the old totals.
LEMMA StatsKept ==
    ASSUME SplitsOK, StatsInv, UNCHANGED stats,
           DistributedSplits' = DistributedSplits, CancelledSplits' = CancelledSplits,
           \A s \in DistributedSplits : splits'[s].total_amount = splits[s].total_amount
    PROVE  StatsInv'
<1> DEFINE D == DistributedSplits
<1>1. PICK E : E = DistributedSplits
  OBVIOUS
<1>2. E \subseteq DOMAIN splits /\ TotalOf(E)' = TotalOf(E)
  BY <1>1, TotalOfSame DEF DistributedSplits
<1>3. TotalOf(DistributedSplits)' = TotalOf(E)'
  BY <1>1 DEF TotalOf
<1> QED
  BY <1>1, <1>2, <1>3 DEF StatsInv

\* Every operation on splits keeps the counters in step with the records: only
\* a split that is still open is distributed or cancelled.
LEMMA StatsStep ==
    ASSUME TypeInv, StatsInv, SplitNext
    PROVE  StatsInv'
<1>0. SplitsOK /\ DOMAIN splits = 1 .. Len(splits) /\ Len(splits) \in Nat /\ IsFiniteSet(DOMAIN splits)
      /\ \A s \in DOMAIN splits : splits[s] \in SplitRecord /\ s \in 1 .. Len(splits)
  BY TypeFacts, SplitsLemma
<1>1. ASSUME NEW c \in Account, NEW r \in RecipientLists, NEW x \in Amounts, CreateSplit(c, r, x)
      PROVE  StatsInv'
  <2>1. /\ splits'[Len(splits) + 1] = [sender |-> c, recipients |-> r, total_amount |-> x,
                                       distributed |-> FALSE, cancelled |-> FALSE]
        /\ Len(splits') = Len(splits) + 1 /\ splits' \in Seq(SplitRecord)
        /\ \A s \in DOMAIN splits : splits'[s] = splits[s]
    BY <1>1, CreateSplitTypes DEF TypeInv
  <2>2. DOMAIN splits' = DOMAIN splits \cup {Len(splits) + 1}
    BY <1>0, <2>1, LenProperties
  <2>3. DistributedSplits' = DistributedSplits /\ CancelledSplits' = CancelledSplits
    BY <2>1, <2>2 DEF DistributedSplits, CancelledSplits
  <2>4. \A s \in DistributedSplits : splits'[s].total_amount = splits[s].total_amount
    BY <2>1 DEF DistributedSplits
  <2>5. UNCHANGED stats
    BY <1>1 DEF CreateSplit
  <2> QED BY <1>0, <2>3, <2>4, <2>5, StatsKept
<1>2. ASSUME NEW c \in Account, NEW r \in RecipientLists, NEW x \in Amounts, NEW e \in Ledger,
             CreateSplitWithEscrow(c, r, x, e)
      PROVE  StatsInv'
  BY <1>2 DEF CreateSplitWithEscrow, splitVars, StatsInv, DistributedSplits, CancelledSplits, TotalOf
<1>3. ASSUME NEW D, D \subseteq DOMAIN splits, Distributes(D)
      PROVE  StatsInv'
  <2>1. /\ splits' = MarkedAll(D) /\ D \subseteq OpenSplits
        /\ stats'.distributed = stats.distributed + Cardinality(D)
        /\ stats'.cancelled = stats.cancelled
        /\ stats'.value = stats.value + TotalOf(D)
    BY <1>3, DistributesTypes
  <2>2. /\ DOMAIN splits' = DOMAIN splits
        /\ \A s \in DOMAIN splits :
              /\ splits'[s].total_amount = splits[s].total_amount
              /\ splits'[s].cancelled = splits[s].cancelled
              /\ splits'[s].distributed <=> splits[s].distributed \/ s \in D
    <3>1. DOMAIN splits' = DOMAIN splits
      BY <2>1 DEF MarkedAll
    <3>2. ASSUME NEW s \in DOMAIN splits
          PROVE  /\ splits'[s].total_amount = splits[s].total_amount
                 /\ splits'[s].cancelled = splits[s].cancelled
                 /\ splits'[s].distributed <=> splits[s].distributed \/ s \in D
      <4>1. splits[s] \in SplitRecord
        BY <1>0
      <4>2. splits'[s] = IF s \in D THEN [splits[s] EXCEPT !.distributed = TRUE] ELSE splits[s]
        BY <2>1 DEF MarkedAll
      <4> QED BY <4>1, <4>2 DEF SplitRecord
    <3> QED BY <3>1, <3>2
  <2>3. PICK E : E = DistributedSplits
    OBVIOUS
  <2>4. E \subseteq DOMAIN splits /\ D \cap E = {} /\ E \cup D \subseteq DOMAIN splits
    BY <1>3, <2>1, <2>3 DEF DistributedSplits, OpenSplits, Closed
  <2>5. DistributedSplits' = E \cup D /\ CancelledSplits' = CancelledSplits
    BY <1>3, <2>2, <2>3 DEF DistributedSplits, CancelledSplits
  <2>6. /\ TotalOf(E \cup D) = TotalOf(E) + TotalOf(D)
        /\ Cardinality(E \cup D) = Cardinality(E) + Cardinality(D)
    <3>1. E \cap D = {}
      BY <2>4
    <3> QED BY <1>0, <1>3, <2>4, <3>1, TotalOfUnion
  <2>7. TotalOf(DistributedSplits)' = TotalOf(E \cup D)'
    BY <2>5 DEF TotalOf
  <2>8. TotalOf(E \cup D)' = TotalOf(E \cup D)
    BY <1>0, <2>2, <2>4, TotalOfSame
  <2> QED BY <2>1, <2>3, <2>5, <2>6, <2>7, <2>8 DEF StatsInv
<1>4. ASSUME NEW c \in Account, NEW s \in SplitId, Distribute(c, s)
      PROVE  StatsInv'
  <2>1. s \in DOMAIN splits /\ Distributes({s})
    BY <1>0, <1>4, DistributeLemma
  <2> QED BY <1>3, <2>1
<1>5. ASSUME NEW c \in Account, NEW ids \in SeqOf(SplitId, MaxBulk + 1), BulkDistribute(c, ids)
      PROVE  StatsInv'
  BY <1>0, <1>3, <1>5, BulkDistributeLemma
<1>6. ASSUME NEW c \in Account, NEW s \in SplitId, CancelSplit(c, s)
      PROVE  StatsInv'
  <2>1. /\ s \in DOMAIN splits /\ ~Closed(splits[s])
        /\ splits' = [splits EXCEPT ![s].cancelled = TRUE]
        /\ DOMAIN splits' = DOMAIN splits
        /\ stats' = [stats EXCEPT !.cancelled = @ + 1]
    BY <1>6, CancelSplitTypes
  <2>2. \A t \in DOMAIN splits :
           /\ splits'[t].total_amount = splits[t].total_amount
           /\ splits'[t].distributed = splits[t].distributed
           /\ splits'[t].cancelled <=> splits[t].cancelled \/ t = s
    <3>1. ASSUME NEW t \in DOMAIN splits
          PROVE  /\ splits'[t].total_amount = splits[t].total_amount
                 /\ splits'[t].distributed = splits[t].distributed
                 /\ splits'[t].cancelled <=> splits[t].cancelled \/ t = s
      <4>1. splits[t] \in SplitRecord
        BY <1>0
      <4>2. splits'[t] = IF t = s THEN [splits[t] EXCEPT !.cancelled = TRUE] ELSE splits[t]
        BY <2>1
      <4> QED BY <4>1, <4>2 DEF SplitRecord
    <3> QED BY <3>1
  <2>3. PICK E : E = DistributedSplits
    OBVIOUS
  <2>4. PICK C : C = CancelledSplits
    OBVIOUS
  <2>5. /\ DistributedSplits' = E /\ CancelledSplits' = C \cup {s}
        /\ s \notin C /\ IsFiniteSet(C) /\ E \subseteq DOMAIN splits
    <3>1. C \subseteq DOMAIN splits /\ E \subseteq DOMAIN splits /\ s \notin C
      BY <2>1, <2>3, <2>4 DEF DistributedSplits, CancelledSplits, Closed
    <3>2. DistributedSplits' = E /\ CancelledSplits' = C \cup {s}
      BY <2>1, <2>2, <2>3, <2>4 DEF DistributedSplits, CancelledSplits
    <3>3. IsFiniteSet(C)
      BY <1>0, <3>1, FS_Subset
    <3> QED BY <3>1, <3>2, <3>3
  <2>6. Cardinality(C \cup {s}) = Cardinality(C) + 1
    BY <2>5, FS_AddElement
  <2>7. TotalOf(DistributedSplits)' = TotalOf(E)
    <3>1. TotalOf(E)' = TotalOf(E)
      BY <1>0, <2>2, <2>5, TotalOfSame
    <3>2. TotalOf(DistributedSplits)' = TotalOf(E)'
      BY <2>5 DEF TotalOf
    <3> QED BY <3>1, <3>2
  <2>8. /\ stats'.distributed = stats.distributed /\ stats'.value = stats.value
        /\ stats'.cancelled = stats.cancelled + 1
    BY <1>0, <2>1 DEF SplitsOK, Stats
  <2> QED BY <2>3, <2>4, <2>5, <2>6, <2>7, <2>8 DEF StatsInv
<1>7. ASSUME NEW c \in Account, NEW s \in SplitId, NEW old \in Beneficiaries, NEW new \in Beneficiaries,
             ReplaceSplitRecipient(c, s, old, new)
      PROVE  StatsInv'
  <2>1. /\ s \in DOMAIN splits /\ DOMAIN splits' = DOMAIN splits
        /\ splits' = [splits EXCEPT ![s] =
                        [splits[s] EXCEPT !.recipients = ReplaceIn(splits[s].recipients, old, new)]]
        /\ UNCHANGED stats
    BY <1>7, ReplaceTypes
  <2>2. \A t \in DOMAIN splits :
           /\ splits'[t].total_amount = splits[t].total_amount
           /\ splits'[t].distributed = splits[t].distributed
           /\ splits'[t].cancelled = splits[t].cancelled
    <3>1. ASSUME NEW t \in DOMAIN splits
          PROVE  /\ splits'[t].total_amount = splits[t].total_amount
                 /\ splits'[t].distributed = splits[t].distributed
                 /\ splits'[t].cancelled = splits[t].cancelled
      <4>1. splits[t] \in SplitRecord
        BY <1>0
      <4>2. splits'[t] = IF t = s THEN [splits[t] EXCEPT !.recipients =
                                           ReplaceIn(splits[s].recipients, old, new)] ELSE splits[t]
        BY <2>1
      <4> QED BY <4>1, <4>2 DEF SplitRecord
    <3> QED BY <3>1
  <2>3. DistributedSplits' = DistributedSplits /\ CancelledSplits' = CancelledSplits
    BY <2>1, <2>2 DEF DistributedSplits, CancelledSplits
  <2>4. \A t \in DistributedSplits : splits'[t].total_amount = splits[t].total_amount
    BY <2>2 DEF DistributedSplits
  <2> QED BY <1>0, <2>1, <2>3, <2>4, StatsKept
<1> QED
  BY <1>1, <1>2, <1>4, <1>5, <1>6, <1>7 DEF SplitNext

\* A step that changes neither the lists nor the index.
LEMMA IndexKept ==
    ASSUME RecipientIndexExact, UNCHANGED recipientSplits, DOMAIN splits' = DOMAIN splits,
           \A s \in DOMAIN splits : splits'[s].recipients = splits[s].recipients
    PROVE  RecipientIndexExact'
BY DEF RecipientIndexExact, PaysTo

\* Every operation on splits keeps the index in step with the lists.
LEMMA IndexStep ==
    ASSUME TypeInv, RecipientIndexExact, SplitNext
    PROVE  RecipientIndexExact'
<1>0. SplitsOK /\ DOMAIN splits = 1 .. Len(splits) /\ Len(splits) \in Nat
      /\ (\A s \in DOMAIN splits : splits[s] \in SplitRecord /\ s \in 1 .. Len(splits))
      /\ recipientSplits \in [Address -> SUBSET SplitId]
  BY TypeFacts, SplitsLemma
<1>1. ASSUME NEW c \in Account, NEW r \in RecipientLists, NEW x \in Amounts, CreateSplit(c, r, x)
      PROVE  RecipientIndexExact'
  <2> DEFINE n == Len(splits) + 1
  <2>1. /\ splits'[n].recipients = r
        /\ Len(splits') = n /\ splits' \in Seq(SplitRecord)
        /\ \A s \in DOMAIN splits : splits'[s] = splits[s]
    <3>1. /\ splits'[n] = [sender |-> c, recipients |-> r, total_amount |-> x,
                           distributed |-> FALSE, cancelled |-> FALSE]
          /\ Len(splits') = n /\ splits' \in Seq(SplitRecord)
          /\ \A s \in DOMAIN splits : splits'[s] = splits[s]
      BY <1>1, CreateSplitTypes DEF TypeInv
    <3> QED BY <3>1
  <2>2. DOMAIN splits' = DOMAIN splits \cup {n} /\ n \notin DOMAIN splits
    BY <1>0, <2>1, LenProperties
  <2>3. \A a \in Address : recipientSplits'[a] = IF a \in {r[k].address : k \in DOMAIN r}
                                                 THEN recipientSplits[a] \cup {n} ELSE recipientSplits[a]
    BY <1>1 DEF CreateSplit
  <2>4. PaysTo(splits'[n]) = {r[k].address : k \in DOMAIN r}
    BY <2>1 DEF PaysTo
  <2>5. \A s \in DOMAIN splits : PaysTo(splits'[s]) = PaysTo(splits[s])
    BY <2>1
  <2> HIDE DEF n
  <2>6. ASSUME NEW a \in Address
        PROVE  recipientSplits'[a] = {s \in DOMAIN splits' : a \in PaysTo(splits'[s])}
    <3>1. recipientSplits[a] = {s \in DOMAIN splits : a \in PaysTo(splits[s])}
      BY DEF RecipientIndexExact
    <3>2. {s \in DOMAIN splits' : a \in PaysTo(splits'[s])}
             = {s \in DOMAIN splits : a \in PaysTo(splits[s])}
                  \cup (IF a \in PaysTo(splits'[n]) THEN {n} ELSE {})
      BY <2>2, <2>5
    <3> QED BY <2>3, <2>4, <3>1, <3>2
  <2> QED BY <2>6 DEF RecipientIndexExact, PaysTo
<1>2. ASSUME NEW c \in Account, NEW r \in RecipientLists, NEW x \in Amounts, NEW e \in Ledger,
             CreateSplitWithEscrow(c, r, x, e)
      PROVE  RecipientIndexExact'
  BY <1>2 DEF CreateSplitWithEscrow, splitVars, RecipientIndexExact, PaysTo
<1>3. ASSUME NEW D, D \subseteq DOMAIN splits, Distributes(D)
      PROVE  RecipientIndexExact'
  <2>1. splits' = MarkedAll(D) /\ UNCHANGED recipientSplits
    BY <1>3, DistributesTypes
  <2>2. DOMAIN splits' = DOMAIN splits
    BY <2>1 DEF MarkedAll
  <2>3. ASSUME NEW s \in DOMAIN splits PROVE splits'[s].recipients = splits[s].recipients
    <3>1. splits'[s] = IF s \in D THEN [splits[s] EXCEPT !.distributed = TRUE] ELSE splits[s]
      BY <2>1 DEF MarkedAll
    <3>2. splits[s] \in SplitRecord
      BY <1>0
    <3> QED BY <3>1, <3>2 DEF SplitRecord
  <2> QED BY <2>1, <2>2, <2>3, IndexKept
<1>4. ASSUME NEW c \in Account, NEW s \in SplitId, Distribute(c, s)
      PROVE  RecipientIndexExact'
  <2>1. s \in DOMAIN splits /\ Distributes({s})
    BY <1>0, <1>4, DistributeLemma
  <2> QED BY <1>3, <2>1
<1>5. ASSUME NEW c \in Account, NEW ids \in SeqOf(SplitId, MaxBulk + 1), BulkDistribute(c, ids)
      PROVE  RecipientIndexExact'
  BY <1>0, <1>3, <1>5, BulkDistributeLemma
<1>6. ASSUME NEW c \in Account, NEW s \in SplitId, CancelSplit(c, s)
      PROVE  RecipientIndexExact'
  <2>1. /\ splits' = [splits EXCEPT ![s].cancelled = TRUE]
        /\ DOMAIN splits' = DOMAIN splits /\ UNCHANGED recipientSplits
    BY <1>6, CancelSplitTypes
  <2>2. ASSUME NEW t \in DOMAIN splits PROVE splits'[t].recipients = splits[t].recipients
    <3>1. splits'[t] = IF t = s THEN [splits[t] EXCEPT !.cancelled = TRUE] ELSE splits[t]
      BY <2>1
    <3>2. splits[t] \in SplitRecord
      BY <1>0
    <3> QED BY <3>1, <3>2 DEF SplitRecord
  <2> QED BY <2>1, <2>2, IndexKept
<1>7. ASSUME NEW c \in Account, NEW s \in SplitId, NEW old \in Beneficiaries, NEW new \in Beneficiaries,
             ReplaceSplitRecipient(c, s, old, new)
      PROVE  RecipientIndexExact'
  <2> DEFINE r == splits[s].recipients
             q == ReplaceIn(r, old, new)
  <2>1. /\ s \in DOMAIN splits /\ DOMAIN splits' = DOMAIN splits
        /\ splits' = [splits EXCEPT ![s] = [splits[s] EXCEPT !.recipients = q]]
        /\ splits[s] \in SplitRecord
    BY <1>7, ReplaceTypes
  <2>2. /\ old # new /\ old \in PaysTo(splits[s]) /\ new \notin PaysTo(splits[s])
        /\ recipientSplits' = [recipientSplits EXCEPT ![old] = @ \ {s}, ![new] = @ \cup {s}]
    BY <1>7 DEF ReplaceSplitRecipient
  <2>3. old \in Address /\ new \in Address
    BY EscrowAssumption
  <2>4. splits'[s].recipients = q /\ \A t \in DOMAIN splits \ {s} : splits'[t] = splits[t]
    BY <2>1 DEF SplitRecord
  <2>5. PaysTo(splits'[s]) = (PaysTo(splits[s]) \ {old}) \cup {new}
    <3>1. DOMAIN q = DOMAIN r
      BY DEF ReplaceIn
    <3>2. \A k \in DOMAIN r : q[k].address = IF r[k].address = old THEN new ELSE r[k].address
      <4>1. r \in Seq(Recipient)
        BY <2>1 DEF SplitRecord
      <4>2. \A k \in DOMAIN r : r[k] \in Recipient
        BY <4>1
      <4> QED BY <4>2 DEF ReplaceIn, Recipient
    <3>3. /\ PaysTo(splits'[s]) = {q[k].address : k \in DOMAIN r}
          /\ PaysTo(splits[s]) = {r[k].address : k \in DOMAIN r}
      BY <2>4, <3>1 DEF PaysTo
    <3> HIDE DEF q, r
    <3> QED BY <2>2, <3>2, <3>3
  <2> HIDE DEF q
  <2>6. ASSUME NEW a \in Address
        PROVE  recipientSplits'[a] = {t \in DOMAIN splits' : a \in PaysTo(splits'[t])}
    <3>1. recipientSplits[a] = {t \in DOMAIN splits : a \in PaysTo(splits[t])}
      BY DEF RecipientIndexExact
    <3>2. recipientSplits'[a] = IF a = new THEN recipientSplits[a] \cup {s}
                                ELSE IF a = old THEN recipientSplits[a] \ {s} ELSE recipientSplits[a]
      BY <1>0, <2>2, <2>3
    <3>3. \A t \in DOMAIN splits \ {s} : PaysTo(splits'[t]) = PaysTo(splits[t])
      BY <2>4
    <3> QED BY <2>1, <2>2, <2>5, <3>1, <3>2, <3>3
  <2> QED BY <2>6 DEF RecipientIndexExact, PaysTo
<1> QED
  BY <1>1, <1>2, <1>4, <1>5, <1>6, <1>7 DEF SplitNext

-----------------------------------------------------------------------------
(***************************************************************************)
(* The invariants.                                                         *)
(***************************************************************************)
IInv == TypeInv /\ StatsInv /\ RecipientIndexExact

\* Nothing is stored and nothing counted initially.
LEMMA InitInv == Init => IInv
<1> SUFFICES ASSUME Init PROVE IInv
  OBVIOUS
<1>1. /\ splits = <<>> /\ escrows = <<>> /\ now = 0
      /\ recipientSplits = [a \in Address |-> {}]
      /\ stats = [distributed |-> 0, cancelled |-> 0, value |-> 0]
  BY DEF Init, EscrowInit
<1>2. DOMAIN splits = {} /\ Len(splits) = 0 /\ Len(escrows) = 0
  BY <1>1
<1>3. ledger \in LedgerType
  BY EscrowAssumption DEF Init, EscrowInit, LedgerType, Address
<1>4. TypeInv
  BY <1>1, <1>2, <1>3, EscrowAssumption, SplitterAssumption, HostAssumption DEF TypeInv, TypeOK, Ledger
<1>5. StatsInv
  <2>1. DistributedSplits = {} /\ CancelledSplits = {}
    BY <1>2 DEF DistributedSplits, CancelledSplits
  <2>2. TotalOf({}) = 0 /\ Cardinality({}) = 0
    BY SumEmpty, FS_EmptySet DEF TotalOf
  <2> QED BY <1>1, <2>1, <2>2 DEF StatsInv
<1>6. RecipientIndexExact
  BY <1>1, <1>2 DEF RecipientIndexExact
<1> QED
  BY <1>4, <1>5, <1>6 DEF IInv

\* Every operation on splits keeps the types.
LEMMA SplitTypes ==
    ASSUME TypeInv, SplitNext
    PROVE  TypeInv'
<1>1. SplitsOK
  BY TypeFacts
<1>2. ASSUME NEW c \in Account, NEW s \in SplitId, Distribute(c, s)
      PROVE  TypeInv'
  <2>1. s \in DOMAIN splits /\ Distributes({s})
    BY <1>1, <1>2, DistributeLemma
  <2> QED BY <2>1, DistributesTypes
<1>3. ASSUME NEW c \in Account, NEW ids \in SeqOf(SplitId, MaxBulk + 1), BulkDistribute(c, ids)
      PROVE  TypeInv'
  BY <1>1, <1>3, BulkDistributeLemma, DistributesTypes
<1> QED
  BY <1>2, <1>3, CreateSplitTypes, SplitWithEscrowTypes, CancelSplitTypes, ReplaceTypes DEF SplitNext

\* The invariant is inductive.
LEMMA NextInv == IInv /\ [Next]_vars => IInv'
<1> SUFFICES ASSUME IInv, [Next]_vars PROVE IInv'
  OBVIOUS
<1> USE DEF IInv
<1>1. CASE SplitNext
  BY <1>1, SplitTypes, StatsStep, IndexStep
<1>2. CASE EscrowNext /\ UNCHANGED splitVars
  <2>1. TypeInv'
    BY <1>2, EscrowNextTypes
  <2>2. StatsInv' /\ RecipientIndexExact'
    BY <1>2 DEF splitVars, StatsInv, DistributedSplits, CancelledSplits, TotalOf, RecipientIndexExact, PaysTo
  <2> QED BY <2>1, <2>2
<1>3. CASE UNCHANGED vars
  BY <1>3 DEF vars, TypeInv, TypeOK, ValidRecipients, StatsInv, DistributedSplits, CancelledSplits, TotalOf,
              RecipientIndexExact, PaysTo
<1> QED
  BY <1>1, <1>2, <1>3 DEF Next

\* The inductive invariant: well-typed records, statistics and index.
THEOREM Invariance == Spec => []IInv
BY InitInv, NextInv, PTL DEF Spec

\* The counters of splitter_stats agree with the records, and every list
\* stays valid: whatever mix of single, bulk and failed operations came before.
THEOREM StatsCorrect == Spec => []StatsMatchRecords
<1>1. IInv => StatsMatchRecords
  BY DEF IInv, TypeInv, StatsInv, DistributedSplits, CancelledSplits, StatsMatchRecords
<1> QED
  BY <1>1, Invariance, PTL

\* get_splits_for_recipient returns the splits that name the address now.
THEOREM RecipientIndexCorrect == Spec => []RecipientIndexExact
<1>1. IInv => RecipientIndexExact
  BY DEF IInv
<1> QED
  BY <1>1, Invariance, PTL


-----------------------------------------------------------------------------
(***************************************************************************)
(* The vaults.                                                             *)
(***************************************************************************)

\* What the vaults show of the records.
VaultsShown ==
    /\ Vaults \in [Claim -> Nat] /\ PaidClaims \subseteq Claim
    /\ SumFunctionOnSet(Vaults, Claim) \in Nat
    /\ \A c \in PaidClaims : Vaults[c] = 0
    /\ \A i \in EscrowId :
          /\ Vaults[<<"escrow", i>>] = IF Active(i) THEN escrows[i].amount ELSE 0
          /\ <<"escrow", i>> \in PaidClaims <=> Exists(i) /\ Settled(i)
    /\ \A s \in SplitId :
          /\ Vaults[<<"split", s>>] = IF s \in OpenSplits THEN splits[s].total_amount ELSE 0
          /\ <<"split", s>> \in PaidClaims <=> s \in DOMAIN splits /\ Closed(splits[s])

\* There are finitely many claims, of two kinds.
LEMMA Claims ==
    /\ IsFiniteSet(Claim)
    /\ \A i \in EscrowId : <<"escrow", i>> \in Claim
    /\ \A s \in SplitId : <<"split", s>> \in Claim
    /\ \A c \in Claim : \/ \E i \in EscrowId : c = <<"escrow", i>>
                        \/ \E s \in SplitId : c = <<"split", s>>
<1>1. IsFiniteSet(EscrowId) /\ IsFiniteSet(SplitId)
  BY FS_Interval, EscrowAssumption, SplitterAssumption DEF EscrowId, SplitId
<1>2. IsFiniteSet({"escrow"}) /\ IsFiniteSet({"split"})
  BY FS_Singleton
<1>3. IsFiniteSet({"escrow"} \X EscrowId) /\ IsFiniteSet({"split"} \X SplitId)
  BY <1>1, <1>2, FS_Product
<1>4. IsFiniteSet(Claim)
  BY <1>3, FS_Union DEF Claim
<1> QED
  BY <1>4 DEF Claim

\* The records have their types: so do the vaults.
LEMMA VaultsLemma == TypeInv => VaultsShown
<1> SUFFICES ASSUME TypeInv PROVE VaultsShown
  OBVIOUS
<1>1. DOMAIN splits = 1 .. Len(splits) /\ \A s \in DOMAIN splits : splits[s] \in SplitRecord
  BY TypeFacts, SplitsLemma
<1>2. \A i \in EscrowId :
          /\ Owed(<<"escrow", i>>) = IF Active(i) THEN escrows[i].amount ELSE 0
          /\ <<"escrow", i>> \in PaidClaims <=> Exists(i) /\ Settled(i)
  BY Claims DEF Owed, PaidClaims, SplitExists, Active, Exists, Settled, OpenSplits, Closed
<1>3. \A s \in SplitId :
          /\ Owed(<<"split", s>>) = IF s \in OpenSplits THEN splits[s].total_amount ELSE 0
          /\ <<"split", s>> \in PaidClaims <=> s \in DOMAIN splits /\ Closed(splits[s])
  BY <1>1, Claims DEF Owed, PaidClaims, SplitExists, Active, Exists, Settled, OpenSplits, Closed
<1>4. \A c \in Claim : Owed(c) \in Nat /\ (c \in PaidClaims => Owed(c) = 0)
  <2>1. ASSUME NEW i \in EscrowId
        PROVE  /\ Owed(<<"escrow", i>>) \in Nat
               /\ <<"escrow", i>> \in PaidClaims => Owed(<<"escrow", i>>) = 0
    BY <1>2, EscrowTypes DEF Active, Exists
  <2>2. ASSUME NEW s \in SplitId
        PROVE  /\ Owed(<<"split", s>>) \in Nat
               /\ <<"split", s>> \in PaidClaims => Owed(<<"split", s>>) = 0
    BY <1>1, <1>3 DEF OpenSplits, SplitRecord
  <2> QED BY <2>1, <2>2, Claims
<1>5. Vaults \in [Claim -> Nat] /\ PaidClaims \subseteq Claim /\ \A c \in Claim : Vaults[c] = Owed(c)
  BY <1>4 DEF Vaults, PaidClaims, Active, Exists, Settled, SplitExists, Closed
<1>6. SumFunctionOnSet(Vaults, Claim) \in Nat
  <2>1. \A c \in Claim : Vaults[c] \in Int /\ Vaults[c] >= 0
    BY <1>5
  <2>2. SumFunctionOnSet(Vaults, Claim) \in Int /\ SumFunctionOnSet(Vaults, Claim) >= 0
    BY <2>1, Claims, SumType
  <2> QED BY <2>2
<1> QED
  BY <1>2, <1>3, <1>4, <1>5, <1>6, Claims DEF VaultsShown

\* The same in the next state.
LEMMA VaultsLemmaNext == TypeInv' => VaultsShown'
BY VaultsLemma, PTL

\* Records that stay keep their vaults as they are.
EscrowKept(i) ==
    /\ Exists(i)' <=> Exists(i)
    /\ Exists(i) => escrows'[i] = escrows[i]

SplitKept(s) ==
    /\ s \in DOMAIN splits' <=> s \in DOMAIN splits
    /\ s \in DOMAIN splits => /\ splits'[s].total_amount = splits[s].total_amount
                              /\ Closed(splits'[s]) <=> Closed(splits[s])

VaultKept(c) == Vaults'[c] = Vaults[c] /\ (c \in PaidClaims' <=> c \in PaidClaims)

\* A record that stays keeps its vault.
LEMMA Kept ==
    ASSUME TypeInv, TypeInv'
    PROVE  /\ \A i \in EscrowId : EscrowKept(i) => VaultKept(<<"escrow", i>>)
           /\ \A s \in SplitId : SplitKept(s) => VaultKept(<<"split", s>>)
<1>1. VaultsShown /\ VaultsShown'
  BY VaultsLemma, VaultsLemmaNext
<1>2. ASSUME NEW i \in EscrowId, EscrowKept(i) PROVE VaultKept(<<"escrow", i>>)
  <2>1. /\ Vaults[<<"escrow", i>>] = IF Active(i) THEN escrows[i].amount ELSE 0
        /\ <<"escrow", i>> \in PaidClaims <=> Exists(i) /\ Settled(i)
    BY <1>1 DEF VaultsShown
  <2>2. /\ Vaults'[<<"escrow", i>>] = IF Active(i)' THEN escrows'[i].amount ELSE 0
        /\ <<"escrow", i>> \in PaidClaims' <=> Exists(i)' /\ Settled(i)'
    BY <1>1 DEF VaultsShown
  <2> QED BY <1>2, <2>1, <2>2 DEF EscrowKept, VaultKept, Active, Settled, Exists
<1>3. ASSUME NEW s \in SplitId, SplitKept(s) PROVE VaultKept(<<"split", s>>)
  <2>1. /\ Vaults[<<"split", s>>] = IF s \in OpenSplits THEN splits[s].total_amount ELSE 0
        /\ <<"split", s>> \in PaidClaims <=> s \in DOMAIN splits /\ Closed(splits[s])
    BY <1>1 DEF VaultsShown
  <2>2. /\ Vaults'[<<"split", s>>] = IF s \in OpenSplits' THEN splits'[s].total_amount ELSE 0
        /\ <<"split", s>> \in PaidClaims' <=> s \in DOMAIN splits' /\ Closed(splits'[s])
    BY <1>1 DEF VaultsShown
  <2>3. s \in OpenSplits' <=> s \in OpenSplits
    BY <1>3 DEF SplitKept, OpenSplits, Closed
  <2> QED BY <1>3, <2>1, <2>2, <2>3 DEF SplitKept, VaultKept, OpenSplits
<1> QED
  BY <1>2, <1>3

\* Vaults that are all kept are the same vaults.
LEMMA AllKept ==
    ASSUME TypeInv, TypeInv', \A c \in Claim : VaultKept(c)
    PROVE  Vaults' = Vaults /\ PaidClaims' = PaidClaims
<1>1. /\ Vaults \in [Claim -> Nat] /\ PaidClaims \subseteq Claim
      /\ Vaults' \in [Claim -> Nat] /\ PaidClaims' \subseteq Claim
  BY VaultsLemma, VaultsLemmaNext DEF VaultsShown
<1> QED
  BY <1>1 DEF VaultKept

-----------------------------------------------------------------------------
(***************************************************************************)
(* What a step may do, seen through the vaults.                            *)
(***************************************************************************)
PoolCovered == SumFunctionOnSet(Vaults, Claim) <= ledger.balance[Contract]

\* Somebody else's money goes past the vaults.
PaidElsewhere ==
    /\ \E from \in Account, to \in Address, x \in Nat : Payment(from, to, x)
    /\ Vaults' = Vaults /\ PaidClaims' = PaidClaims

\* Somebody's money goes into vaults.
PaidIn ==
    /\ \E from \in Account, x \in Nat :
          /\ Payment(from, Contract, x)
          /\ SumFunctionOnSet(Vaults', Claim) = SumFunctionOnSet(Vaults, Claim) + x
    /\ \A c \in Claim : Vaults'[c] >= Vaults[c] /\ (c \in PaidClaims => Vaults'[c] = Vaults[c])
    /\ PaidClaims' = PaidClaims

\* What lies in the vaults of some claims is paid to whomever.
PaidOut(ids) ==
    /\ ids \subseteq Claim /\ ids \cap PaidClaims = {} /\ PaidClaims' = PaidClaims \cup ids
    /\ Vaults' = [c \in Claim |-> IF c \in ids THEN 0 ELSE Vaults[c]]
    /\ Held(ledger') = Held(ledger)
    /\ \A a \in Address \ {Contract} : ledger'.balance[a] >= ledger.balance[a]
    /\ ledger'.balance[Contract] >= ledger.balance[Contract] - SumFunctionOnSet(Vaults, ids)

Nothing == Vaults' = Vaults /\ PaidClaims' = PaidClaims /\ UNCHANGED ledger

CustodyStep == Nothing \/ PaidElsewhere \/ PaidIn \/ \E ids : PaidOut(ids)

-----------------------------------------------------------------------------
\* Money paid into one vault.
LEMMA PaidIntoOne ==
    ASSUME TypeInv, TypeInv', NEW c \in Claim, NEW from \in Account, NEW x,
           Payment(from, Contract, x), c \notin PaidClaims, c \notin PaidClaims',
           Vaults'[c] = Vaults[c] + x, \A d \in Claim \ {c} : VaultKept(d)
    PROVE  PaidIn
<1>1. /\ Vaults \in [Claim -> Nat] /\ PaidClaims \subseteq Claim
      /\ Vaults' \in [Claim -> Nat] /\ PaidClaims' \subseteq Claim
  BY VaultsLemma, VaultsLemmaNext DEF VaultsShown
<1>2. x \in Nat
  BY DEF Payment
<1>3. SumFunctionOnSet(Vaults', Claim) = SumFunctionOnSet(Vaults, Claim) - Vaults[c] + Vaults'[c]
  <2>1. /\ \A d \in Claim : Vaults[d] \in Int
        /\ Vaults'[c] \in Int /\ \A d \in Claim \ {c} : Vaults'[d] = Vaults[d]
    BY <1>1 DEF VaultKept
  <2>2. IsFiniteSet(Claim)
    BY Claims
  <2> QED BY <2>1, <2>2, SumUpdate
<1>4. SumFunctionOnSet(Vaults, Claim) \in Nat /\ Vaults[c] \in Nat
  BY <1>1, VaultsLemma DEF VaultsShown
<1>5. SumFunctionOnSet(Vaults', Claim) = SumFunctionOnSet(Vaults, Claim) + x
  BY <1>2, <1>3, <1>4
<1>6. PaidClaims' = PaidClaims
  BY <1>1 DEF VaultKept
<1>7. \A d \in Claim : Vaults'[d] >= Vaults[d] /\ (d \in PaidClaims => Vaults'[d] = Vaults[d])
  BY <1>1, <1>2 DEF VaultKept
<1> QED
  BY <1>2, <1>5, <1>6, <1>7 DEF PaidIn

\* One vault paid out.
LEMMA PaidOutOfOne ==
    ASSUME TypeInv, TypeInv', NEW c \in Claim, NEW to,
           Payment(Contract, to, Vaults[c]), c \notin PaidClaims, c \in PaidClaims',
           \A d \in Claim \ {c} : VaultKept(d)
    PROVE  PaidOut({c})
<1>1. /\ Vaults \in [Claim -> Nat] /\ PaidClaims \subseteq Claim
      /\ Vaults' \in [Claim -> Nat] /\ PaidClaims' \subseteq Claim
      /\ Vaults'[c] = 0
  BY VaultsLemma, VaultsLemmaNext DEF VaultsShown
<1>2. /\ PaidClaims' = PaidClaims \cup {c} /\ {c} \cap PaidClaims = {}
      /\ Vaults' = [d \in Claim |-> IF d \in {c} THEN 0 ELSE Vaults[d]]
  BY <1>1 DEF VaultKept
<1>3. PICK x : x = Vaults[c]
  OBVIOUS
<1>4. /\ Held(ledger') = Held(ledger) /\ ledger.balance \in [Address -> Nat] /\ x \in Nat
      /\ Contract \in Address
      /\ \A a \in Address : ledger'.balance[a] = ledger.balance[a] - (IF a = Contract THEN x ELSE 0)
                                                                   + (IF a = to THEN x ELSE 0)
  <2>1. ledger \in LedgerType /\ Contract \in Address
    BY EscrowTypes
  <2>2. Payment(Contract, to, x)
    BY <1>3
  <2>3. x \in Nat
    BY <2>2 DEF Payment
  <2>4. /\ Held(ledger') = Held(ledger)
        /\ \A a \in Address : ledger'.balance[a] = ledger.balance[a] - (IF a = Contract THEN x ELSE 0)
                                                                     + (IF a = to THEN x ELSE 0)
    BY <2>1, <2>2, PaymentLemma
  <2> QED BY <2>1, <2>3, <2>4 DEF LedgerType
<1>5. SumFunctionOnSet(Vaults, {c}) = x
  <2>1. /\ IsFiniteSet({c})
        /\ \A d \in {c} : Vaults[d] \in Int
    <3>1. IsFiniteSet({c})
      BY FS_Singleton
    <3> QED BY <1>1, <3>1
  <2>2. SumFunctionOnSet(Vaults, {c}) = Vaults[c] + SumFunctionOnSet(Vaults, {c} \ {c})
    BY <2>1, SumRemove
  <2>3. {c} \ {c} = {}
    OBVIOUS
  <2>4. SumFunctionOnSet(Vaults, {c} \ {c}) = 0
    BY <2>3, SumEmpty
  <2> QED BY <1>3, <1>4, <2>2, <2>4
<1>6. /\ \A a \in Address \ {Contract} : ledger'.balance[a] >= ledger.balance[a]
      /\ ledger'.balance[Contract] >= ledger.balance[Contract] - x
  BY <1>4
<1> QED
  BY <1>2, <1>4, <1>5, <1>6 DEF PaidOut

-----------------------------------------------------------------------------
(***************************************************************************)
(* What each operation does to the vaults.                                 *)
(***************************************************************************)

\* The operations of the escrows touch one escrow's vault, or none.
LEMMA EscrowCustody ==
    ASSUME TypeInv, TypeInv', EscrowStep, UNCHANGED splits
    PROVE  CustodyStep
<1> USE EscrowTypes
<1>0. VaultsShown /\ VaultsShown' /\ \A s \in SplitId : VaultKept(<<"split", s>>)
  <2>1. \A s \in SplitId : SplitKept(s)
    BY DEF SplitKept, Closed
  <2> QED BY <2>1, Kept, VaultsLemma, VaultsLemmaNext
<1>1. ASSUME NEW i \in EscrowId, \A j \in EscrowId \ {i} : EscrowKept(j)
      PROVE  /\ <<"escrow", i>> \in Claim
             /\ \A d \in Claim \ {<<"escrow", i>>} : VaultKept(d)
  BY <1>0, <1>1, Claims, Kept
<1>2. CASE EscrowOpened
  <2>1. PICK from \in Account, r \in EscrowRecord :
           /\ Len(escrows) < MaxEscrows /\ ~r.released /\ ~r.refunded
           /\ escrows' = Append(escrows, r) /\ Payment(from, Contract, r.amount)
    BY <1>2 DEF EscrowOpened
  <2>2. PICK i : i = Len(escrows) + 1
    OBVIOUS
  <2>3. /\ i \in EscrowId /\ Len(escrows') = i /\ escrows'[i] = r
        /\ \A j \in 1 .. Len(escrows) : escrows'[j] = escrows[j]
    BY <2>1, <2>2, RecordAppend, EscrowAssumption DEF EscrowId
  <2>4. \A j \in EscrowId \ {i} : EscrowKept(j)
    BY <2>2, <2>3 DEF EscrowKept, Exists, EscrowId
  <2>5. ~Exists(i) /\ Active(i)' /\ Exists(i)' /\ ~Settled(i)' /\ r.amount \in Nat
    BY <2>1, <2>2, <2>3 DEF Exists, Active, Settled, EscrowRecord
  <2>6. /\ Vaults[<<"escrow", i>>] = 0 /\ <<"escrow", i>> \notin PaidClaims
        /\ Vaults'[<<"escrow", i>>] = r.amount /\ <<"escrow", i>> \notin PaidClaims'
    BY <1>0, <2>3, <2>5 DEF VaultsShown, Active, Settled, Exists
  <2>7. PICK c \in Claim : c = <<"escrow", i>>
    BY <2>3, Claims
  <2>8. PaidIn
    <3>1. \A d \in Claim \ {c} : VaultKept(d)
      BY <1>1, <2>3, <2>4, <2>7
    <3>2. c \notin PaidClaims /\ c \notin PaidClaims' /\ Vaults'[c] = Vaults[c] + r.amount
      BY <2>5, <2>6, <2>7
    <3> QED BY <2>1, <3>1, <3>2, PaidIntoOne
  <2> QED BY <2>8 DEF CustodyStep
<1>3. CASE EscrowToppedUp
  <2>1. PICK from \in Account, i \in 1 .. Len(escrows), x \in Nat :
           /\ ~Settled(i) /\ escrows' = [escrows EXCEPT ![i].amount = @ + x]
           /\ Payment(from, Contract, x)
    BY <1>3 DEF EscrowToppedUp
  <2> DEFINE r == [escrows[i] EXCEPT !.amount = @ + x]
  <2>2. /\ r \in EscrowRecord /\ r.amount = escrows[i].amount + x
        /\ r.released = escrows[i].released /\ r.refunded = escrows[i].refunded
    BY DEF EscrowRecord
  <2>3. escrows' = [escrows EXCEPT ![i] = r]
    BY <2>1
  <2> HIDE DEF r
  <2>4. /\ Len(escrows') = Len(escrows)
        /\ \A j \in 1 .. Len(escrows) : escrows'[j] = IF j = i THEN r ELSE escrows[j]
    BY <2>2, <2>3, RecordUpdate
  <2>5. \A j \in EscrowId \ {i} : EscrowKept(j)
    BY <2>4 DEF EscrowKept, Exists
  <2>6. Exists(i) /\ Exists(i)' /\ Active(i) /\ Active(i)' /\ ~Settled(i)' /\ i \in EscrowId
    BY <2>1, <2>2, <2>4 DEF Exists, Active, Settled
  <2>7. /\ Vaults[<<"escrow", i>>] = escrows[i].amount /\ <<"escrow", i>> \notin PaidClaims
        /\ Vaults'[<<"escrow", i>>] = r.amount /\ <<"escrow", i>> \notin PaidClaims'
    BY <1>0, <2>1, <2>4, <2>6 DEF VaultsShown, Active, Settled, Exists
  <2>8. PICK c \in Claim : c = <<"escrow", i>>
    BY <2>6, Claims
  <2>9. PaidIn
    <3>1. \A d \in Claim \ {c} : VaultKept(d)
      BY <1>1, <2>5, <2>6, <2>8
    <3>2. c \notin PaidClaims /\ c \notin PaidClaims' /\ Vaults'[c] = Vaults[c] + x
      BY <2>2, <2>7, <2>8
    <3> QED BY <2>1, <3>1, <3>2, PaidIntoOne
  <2> QED BY <2>9 DEF CustodyStep
<1>4. CASE EscrowPaidOut
  <2>1. PICK i \in 1 .. Len(escrows), to \in Address, r \in EscrowRecord :
           /\ ~Settled(i) /\ (r.released \/ r.refunded) /\ escrows' = [escrows EXCEPT ![i] = r]
           /\ Payment(Contract, to, escrows[i].amount)
    BY <1>4 DEF EscrowPaidOut
  <2>2. /\ Len(escrows') = Len(escrows)
        /\ \A j \in 1 .. Len(escrows) : escrows'[j] = IF j = i THEN r ELSE escrows[j]
    BY <2>1, RecordUpdate
  <2>3. \A j \in EscrowId \ {i} : EscrowKept(j)
    BY <2>2 DEF EscrowKept, Exists
  <2>4. Exists(i) /\ Exists(i)' /\ Active(i) /\ Settled(i)' /\ i \in EscrowId
    BY <2>1, <2>2 DEF Exists, Active, Settled
  <2>5. /\ Vaults[<<"escrow", i>>] = escrows[i].amount /\ <<"escrow", i>> \notin PaidClaims
        /\ <<"escrow", i>> \in PaidClaims'
    BY <1>0, <2>1, <2>4 DEF VaultsShown, Active, Settled, Exists
  <2>6. PICK c \in Claim : c = <<"escrow", i>>
    BY <2>4, Claims
  <2>7. PaidOut({c})
    <3>1. \A d \in Claim \ {c} : VaultKept(d)
      BY <1>1, <2>3, <2>4, <2>6
    <3>2. c \notin PaidClaims /\ c \in PaidClaims' /\ Payment(Contract, to, Vaults[c])
      BY <2>1, <2>5, <2>6
    <3> QED BY <3>1, <3>2, PaidOutOfOne
  <2> QED BY <2>7 DEF CustodyStep
<1>5. ASSUME UNCHANGED escrows PROVE Vaults' = Vaults /\ PaidClaims' = PaidClaims
  <2>1. \A i \in EscrowId : EscrowKept(i)
    BY <1>5 DEF EscrowKept, Exists
  <2>2. \A c \in Claim : VaultKept(c)
    BY <1>0, <2>1, Claims, Kept
  <2> QED BY <2>2, AllKept
<1>6. CASE TokensMoved
  BY <1>5, <1>6 DEF TokensMoved, PaidElsewhere, CustodyStep
<1>7. CASE UNCHANGED <<ledger, escrows>>
  BY <1>5, <1>7 DEF Nothing, CustodyStep
<1> QED
  BY <1>2, <1>3, <1>4, <1>6, <1>7 DEF EscrowStep

\* create_split fills the vault of the next id.
LEMMA CreateSplitCustody ==
    ASSUME TypeInv, NEW a \in Account, NEW r \in RecipientLists, NEW x \in Amounts,
           CreateSplit(a, r, x)
    PROVE  CustodyStep
<1>1. /\ TypeInv' /\ Payment(a, Contract, x) /\ x \in Nat
      /\ Len(splits) + 1 \in SplitId /\ Len(splits') = Len(splits) + 1
      /\ \A s \in DOMAIN splits : splits'[s] = splits[s]
      /\ splits'[Len(splits) + 1] = [sender |-> a, recipients |-> r, total_amount |-> x,
                                     distributed |-> FALSE, cancelled |-> FALSE]
  BY CreateSplitTypes DEF Payment
<1>2. PICK n : n = Len(splits) + 1
  OBVIOUS
<1>3. /\ splits'[n].total_amount = x /\ ~Closed(splits'[n]) /\ n \in SplitId
      /\ DOMAIN splits = 1 .. Len(splits) /\ DOMAIN splits' = 1 .. n /\ Len(splits) \in Nat
  <2>1. splits \in Seq(SplitRecord) /\ splits' \in Seq(SplitRecord)
    BY <1>1 DEF TypeInv
  <2> QED BY <1>1, <1>2, <2>1, LenProperties DEF Closed
<1>4. n \notin DOMAIN splits /\ n \in DOMAIN splits' /\ n \notin OpenSplits /\ n \in OpenSplits'
  BY <1>2, <1>3 DEF OpenSplits, Closed
<1>5. VaultsShown /\ VaultsShown'
  BY <1>1, VaultsLemma, VaultsLemmaNext
<1>6. /\ Vaults[<<"split", n>>] = 0 /\ <<"split", n>> \notin PaidClaims
      /\ Vaults'[<<"split", n>>] = x /\ <<"split", n>> \notin PaidClaims'
  BY <1>3, <1>4, <1>5 DEF VaultsShown
<1>7. \A d \in Claim \ {<<"split", n>>} : VaultKept(d)
  <2>1. \A s \in SplitId \ {n} : SplitKept(s)
    BY <1>1, <1>2, <1>3 DEF SplitKept, SplitId
  <2>2. \A i \in EscrowId : EscrowKept(i)
    BY DEF CreateSplit, otherVars, EscrowKept, Exists
  <2> QED BY <1>1, <2>1, <2>2, Claims, Kept
<1>8. PICK c \in Claim : c = <<"split", n>>
  BY <1>3, Claims
<1>9. PaidIn
  <2>1. Vaults'[c] = Vaults[c] + x /\ c \notin PaidClaims /\ c \notin PaidClaims'
    BY <1>1, <1>6, <1>8
  <2>2. \A d \in Claim \ {c} : VaultKept(d)
    BY <1>7, <1>8
  <2> QED BY <1>1, <2>1, <2>2, PaidIntoOne
<1> QED
  BY <1>9 DEF CustodyStep

\* cancel_split empties the vault of one split.
LEMMA CancelSplitCustody ==
    ASSUME TypeInv, NEW a \in Account, NEW s \in SplitId, CancelSplit(a, s)
    PROVE  CustodyStep
<1>1. /\ TypeInv' /\ s \in DOMAIN splits /\ ~Closed(splits[s])
      /\ splits' = [splits EXCEPT ![s].cancelled = TRUE] /\ DOMAIN splits' = DOMAIN splits
      /\ Payment(Contract, a, splits[s].total_amount) /\ UNCHANGED <<otherVars, recipientSplits>>
  BY CancelSplitTypes
<1>2. /\ Closed(splits'[s])
      /\ \A t \in DOMAIN splits \ {s} : splits'[t] = splits[t]
  <2>1. splits[s] \in SplitRecord
    BY <1>1, TypeFacts, SplitsLemma
  <2>2. splits'[s].cancelled = TRUE
    BY <1>1, <2>1 DEF SplitRecord
  <2> QED BY <1>1, <2>2 DEF Closed
<1>3. VaultsShown /\ VaultsShown'
  BY <1>1, VaultsLemma, VaultsLemmaNext
<1>4. /\ Vaults[<<"split", s>>] = splits[s].total_amount /\ <<"split", s>> \notin PaidClaims
      /\ <<"split", s>> \in PaidClaims'
  <2>1. s \in OpenSplits
    BY <1>1 DEF OpenSplits
  <2> QED BY <1>1, <1>2, <1>3, <2>1 DEF VaultsShown
<1>5. \A d \in Claim \ {<<"split", s>>} : VaultKept(d)
  <2>1. \A t \in SplitId \ {s} : SplitKept(t)
    BY <1>1, <1>2 DEF SplitKept
  <2>2. \A i \in EscrowId : EscrowKept(i)
    BY <1>1 DEF otherVars, EscrowKept, Exists
  <2> QED BY <1>1, <2>1, <2>2, Claims, Kept
<1>6. PICK c \in Claim : c = <<"split", s>>
  BY Claims
<1>7. PaidOut({c})
  <2>1. Payment(Contract, a, Vaults[c]) /\ c \notin PaidClaims /\ c \in PaidClaims'
    BY <1>1, <1>4, <1>6
  <2>2. \A d \in Claim \ {c} : VaultKept(d)
    BY <1>5, <1>6
  <2> QED BY <1>1, <2>1, <2>2, PaidOutOfOne
<1> QED
  BY <1>7 DEF CustodyStep

\* replace_split_recipient changes who is paid, not what.
LEMMA ReplaceCustody ==
    ASSUME TypeInv, NEW a \in Account, NEW s \in SplitId, NEW old \in Beneficiaries,
           NEW new \in Beneficiaries, ReplaceSplitRecipient(a, s, old, new)
    PROVE  CustodyStep
<1> DEFINE q == ReplaceIn(splits[s].recipients, old, new)
<1>1. /\ TypeInv' /\ s \in DOMAIN splits /\ DOMAIN splits' = DOMAIN splits
      /\ splits' = [splits EXCEPT ![s] = [splits[s] EXCEPT !.recipients = q]]
      /\ splits[s] \in SplitRecord
      /\ UNCHANGED <<otherVars, ledger, stats>>
  BY ReplaceTypes
<1> HIDE DEF q
<1>2. /\ splits'[s].total_amount = splits[s].total_amount
      /\ splits'[s].distributed = splits[s].distributed
      /\ splits'[s].cancelled = splits[s].cancelled
      /\ \A t \in DOMAIN splits \ {s} : splits'[t] = splits[t]
  BY <1>1 DEF SplitRecord
<1>3. \A t \in SplitId : SplitKept(t)
  BY <1>1, <1>2 DEF SplitKept, Closed
<1>4. \A i \in EscrowId : EscrowKept(i)
  BY <1>1 DEF otherVars, EscrowKept, Exists
<1>5. \A d \in Claim : VaultKept(d)
  BY <1>1, <1>3, <1>4, Claims, Kept
<1>6. Vaults' = Vaults /\ PaidClaims' = PaidClaims
  BY <1>1, <1>5, AllKept
<1> QED
  BY <1>1, <1>6 DEF Nothing, CustodyStep

\* A distribution empties the vaults of all splits it distributes.
LEMMA DistributesCustody ==
    ASSUME TypeInv, NEW D, D \subseteq DOMAIN splits, Distributes(D)
    PROVE  CustodyStep
<1> DEFINE ids == {<<"split", s>> : s \in D}
<1>1. /\ TypeInv' /\ splits' = MarkedAll(D) /\ D \subseteq OpenSplits
      /\ UNCHANGED <<otherVars, recipientSplits>>
  BY DistributesTypes
<1>2. /\ Held(ledger') = Held(ledger)
      /\ \A a \in Address \ {Contract} : ledger'.balance[a] >= ledger.balance[a]
      /\ ledger'.balance[Contract] >= ledger.balance[Contract] - TotalOf(D)
  BY DEF Distributes, Commit, AllDistributed
<1>3. SplitsOK /\ IsFiniteSet(D) /\ \A s \in DOMAIN splits : s \in SplitId /\ splits[s] \in SplitRecord
  BY TypeFacts, SplitsLemma, TotalOfLemma
<1>4. /\ DOMAIN splits' = DOMAIN splits
      /\ \A s \in D : splits'[s].distributed = TRUE
      /\ \A s \in DOMAIN splits \ D : splits'[s] = splits[s]
  BY <1>1, <1>3 DEF MarkedAll, SplitRecord
<1>5. VaultsShown /\ VaultsShown'
  BY <1>1, VaultsLemma, VaultsLemmaNext
<1>6. ASSUME NEW s \in D
      PROVE  /\ <<"split", s>> \in Claim /\ <<"split", s>> \notin PaidClaims
             /\ Vaults[<<"split", s>>] = splits[s].total_amount
             /\ <<"split", s>> \in PaidClaims' /\ Vaults'[<<"split", s>>] = 0
  <2>1. s \in SplitId /\ s \in DOMAIN splits /\ s \in OpenSplits /\ ~Closed(splits[s]) /\ Closed(splits'[s])
    BY <1>1, <1>3, <1>4 DEF OpenSplits, Closed
  <2>2. <<"split", s>> \in Claim
    BY <2>1, Claims
  <2>3. /\ <<"split", s>> \notin PaidClaims /\ Vaults[<<"split", s>>] = splits[s].total_amount
        /\ <<"split", s>> \in PaidClaims'
    BY <1>4, <1>5, <2>1 DEF VaultsShown
  <2>4. Vaults'[<<"split", s>>] = 0
    BY <1>5, <2>3 DEF VaultsShown
  <2> QED BY <2>2, <2>3, <2>4
<1>7. \A d \in Claim \ ids : VaultKept(d)
  <2>1. \A s \in SplitId \ D : SplitKept(s)
    BY <1>4 DEF SplitKept
  <2>2. \A i \in EscrowId : EscrowKept(i)
    BY <1>1 DEF otherVars, EscrowKept, Exists
  <2>3. \A s \in SplitId : <<"split", s>> \notin ids => s \notin D
    OBVIOUS
  <2> HIDE DEF ids
  <2> QED BY <1>1, <2>1, <2>2, <2>3, Claims, Kept
<1>8. /\ Vaults \in [Claim -> Nat] /\ PaidClaims \subseteq Claim
      /\ Vaults' \in [Claim -> Nat] /\ PaidClaims' \subseteq Claim
  BY <1>5 DEF VaultsShown
<1>9. /\ ids \subseteq Claim /\ ids \cap PaidClaims = {} /\ PaidClaims' = PaidClaims \cup ids
      /\ Vaults' = [c \in Claim |-> IF c \in ids THEN 0 ELSE Vaults[c]]
  <2>1. \A c \in ids : c \in Claim /\ c \notin PaidClaims /\ c \in PaidClaims' /\ Vaults'[c] = 0
    BY <1>6
  <2> HIDE DEF ids
  <2> QED BY <1>7, <1>8, <2>1 DEF VaultKept
<1>10. SumFunctionOnSet(Vaults, ids) = TotalOf(D)
  <2> DEFINE h == [s \in D |-> <<"split", s>>]
             g == [s \in D |-> splits[s].total_amount]
  <2>1. /\ \A s, t \in D : h[s] = h[t] => s = t
        /\ ids = {h[s] : s \in D}
    OBVIOUS
  <2>2. \A s \in D : Vaults[h[s]] = g[s] /\ g[s] \in Int
    <3>1. ASSUME NEW s \in D PROVE Vaults[h[s]] = g[s] /\ g[s] \in Int
      <4>1. h[s] = <<"split", s>> /\ g[s] = splits[s].total_amount
        OBVIOUS
      <4>2. splits[s].total_amount \in Nat
        BY <1>3 DEF SplitRecord
      <4>3. Vaults[<<"split", s>>] = splits[s].total_amount
        BY <1>6
      <4> QED BY <4>1, <4>2, <4>3
    <3> QED BY <3>1
  <2>3. TotalOf(D) = SumFunctionOnSet(g, D)
    BY DEF TotalOf
  <2> HIDE DEF h, g, ids
  <2>4. SumFunctionOnSet(Vaults, {h[s] : s \in D}) = SumFunctionOnSet(g, D)
    BY <1>3, <2>1, <2>2, SumImage
  <2> QED BY <2>1, <2>3, <2>4
<1> HIDE DEF ids
<1>11. PaidOut(ids)
  BY <1>2, <1>9, <1>10 DEF PaidOut
<1> QED
  BY <1>11 DEF CustodyStep

\* create_split_with_escrow fills the vault of an escrow for every recipient,
\* to the total together.
LEMMA SplitWithEscrowCustody ==
    ASSUME TypeInv, NEW a \in Account, NEW r \in RecipientLists, NEW x \in Amounts,
           NEW e \in Ledger, CreateSplitWithEscrow(a, r, x, e)
    PROVE  CustodyStep
<1> DEFINE h == [k \in DOMAIN r |-> <<"escrow", Len(escrows) + k>>]
           g == [k \in DOMAIN r |-> SplitEscrowAmount(r, x, k)]
           new == {h[k] : k \in DOMAIN r}
           old == Claim \ new
<1> USE EscrowTypes
<1>1. /\ TypeInv' /\ Payment(a, Contract, x) /\ UNCHANGED splitVars
      /\ Len(escrows') = Len(escrows) + Len(r) /\ DOMAIN r = 1 .. Len(r) /\ IsFiniteSet(DOMAIN r)
      /\ Len(r) \in Nat /\ Len(escrows) + Len(r) <= MaxEscrows
      /\ \A i \in 1 .. Len(escrows) : escrows'[i] = escrows[i]
  BY SplitWithEscrowTypes
<1>2. ASSUME NEW k \in DOMAIN r
      PROVE  /\ escrows'[Len(escrows) + k].amount = g[k] /\ g[k] \in Nat
             /\ ~escrows'[Len(escrows) + k].released /\ ~escrows'[Len(escrows) + k].refunded
  BY SplitWithEscrowTypes
<1>3. SumFunctionOnSet(g, DOMAIN r) = x /\ x \in Nat
  BY SplitWithEscrowTypes DEF Payment
<1> HIDE DEF g
<1>4. VaultsShown /\ VaultsShown'
  BY <1>1, VaultsLemma, VaultsLemmaNext
<1>5. ASSUME NEW k \in DOMAIN r
      PROVE  /\ h[k] \in Claim /\ Vaults[h[k]] = 0 /\ Vaults'[h[k]] = g[k]
             /\ h[k] \notin PaidClaims /\ h[k] \notin PaidClaims'
  <2>1. PICK i : i = Len(escrows) + k
    OBVIOUS
  <2>2. i \in EscrowId /\ i \in 1 .. Len(escrows') /\ i \notin 1 .. Len(escrows) /\ h[k] = <<"escrow", i>>
    BY <1>1, <2>1, EscrowAssumption DEF EscrowId
  <2>3. ~Exists(i) /\ ~Active(i) /\ Active(i)' /\ ~Settled(i)' /\ escrows'[i].amount = g[k]
    BY <1>2, <2>1, <2>2 DEF Exists, Active, Settled
  <2>4. /\ Vaults[<<"escrow", i>>] = 0 /\ Vaults'[<<"escrow", i>>] = g[k]
        /\ <<"escrow", i>> \notin PaidClaims /\ <<"escrow", i>> \notin PaidClaims'
    BY <1>4, <2>2, <2>3 DEF VaultsShown, Active, Settled, Exists
  <2>5. <<"escrow", i>> \in Claim
    BY <2>2, Claims
  <2> QED BY <2>2, <2>4, <2>5
<1>6. \A c \in old : VaultKept(c)
  <2>1. ASSUME NEW i \in EscrowId, <<"escrow", i>> \notin new PROVE EscrowKept(i)
    <3>1. CASE i \in 1 .. Len(escrows)
      BY <1>1, <3>1 DEF EscrowKept, Exists
    <3>2. CASE i \notin 1 .. Len(escrows)
      <4>1. i \notin 1 .. Len(escrows')
        <5> SUFFICES ASSUME i \in 1 .. Len(escrows') PROVE FALSE
          OBVIOUS
        <5>1. i - Len(escrows) \in DOMAIN r /\ Len(escrows) + (i - Len(escrows)) = i
          BY <1>1, <3>2 DEF EscrowId
        <5>2. h[i - Len(escrows)] = <<"escrow", i>>
          BY <5>1
        <5> QED BY <2>1, <5>1, <5>2
      <4> QED BY <3>2, <4>1 DEF EscrowKept, Exists
    <3> QED BY <3>1, <3>2
  <2>2. \A s \in SplitId : SplitKept(s)
    BY <1>1 DEF splitVars, SplitKept, Closed
  <2> HIDE DEF new
  <2> QED BY <1>1, <2>1, <2>2, Claims, Kept
<1>7. \A i, j \in DOMAIN r : h[i] = h[j] => i = j
  BY <1>1
<1> HIDE DEF h
<1>8. /\ Vaults \in [Claim -> Nat] /\ PaidClaims \subseteq Claim
      /\ Vaults' \in [Claim -> Nat] /\ PaidClaims' \subseteq Claim
  BY <1>4 DEF VaultsShown
<1>9. /\ new \subseteq Claim
      /\ \A c \in new : Vaults[c] = 0 /\ Vaults'[c] >= 0 /\ c \notin PaidClaims /\ c \notin PaidClaims'
  BY <1>2, <1>5
<1>10. SumFunctionOnSet(Vaults', new) = x /\ IsFiniteSet(new)
  <2>1. \A k \in DOMAIN r : Vaults'[h[k]] = g[k] /\ g[k] \in Int
    BY <1>2, <1>5
  <2>2. /\ IsFiniteSet({h[k] : k \in DOMAIN r})
        /\ SumFunctionOnSet(Vaults', {h[k] : k \in DOMAIN r}) = SumFunctionOnSet(g, DOMAIN r)
    <3>1. IsFiniteSet(DOMAIN r)
      BY <1>1
    <3>2. PICK V : V = Vaults'
      OBVIOUS
    <3>3. PICK H : H = h
      OBVIOUS
    <3>4. /\ \A i, j \in DOMAIN r : H[i] = H[j] => i = j
          /\ \A k \in DOMAIN r : V[H[k]] = g[k] /\ g[k] \in Int
      BY <1>7, <2>1, <3>2, <3>3
    <3>5. /\ IsFiniteSet({H[k] : k \in DOMAIN r})
          /\ SumFunctionOnSet(V, {H[k] : k \in DOMAIN r}) = SumFunctionOnSet(g, DOMAIN r)
      BY <3>1, <3>4, SumImage
    <3> QED BY <3>2, <3>3, <3>5
  <2> QED BY <1>3, <2>2
<1> HIDE DEF new
<1>11. SumFunctionOnSet(Vaults', Claim) = SumFunctionOnSet(Vaults, Claim) + x
  <2>1. IsFiniteSet(old) /\ old \cap new = {} /\ old \cup new = Claim
    <3>1. IsFiniteSet(Claim)
      BY Claims
    <3> QED BY <1>9, <3>1, FS_Subset
  <2>2. SumFunctionOnSet(Vaults', old) = SumFunctionOnSet(Vaults, old)
    <3>1. \A c \in old : Vaults'[c] = Vaults[c]
      BY <1>6 DEF VaultKept
    <3> HIDE DEF old
    <3> QED BY <2>1, <3>1, SumSame
  <2>3. SumFunctionOnSet(Vaults, new) = 0
    <3>1. \A c \in new : Vaults[c] = [d \in new |-> 0][c]
      BY <1>9
    <3>2. SumFunctionOnSet(Vaults, new) = SumFunctionOnSet([d \in new |-> 0], new)
      BY <1>10, <3>1, SumSame
    <3> QED BY <1>10, <3>2, SumZero
  <2>4. \A c \in old \cup new : Vaults[c] \in Int /\ Vaults'[c] \in Int
    BY <1>8, <2>1
  <2> HIDE DEF old
  <2>5. SumFunctionOnSet(Vaults', old \cup new)
          = SumFunctionOnSet(Vaults', old) + SumFunctionOnSet(Vaults', new)
    BY <1>10, <2>1, <2>4, SumUnion
  <2>6. SumFunctionOnSet(Vaults, old \cup new)
          = SumFunctionOnSet(Vaults, old) + SumFunctionOnSet(Vaults, new)
    BY <1>10, <2>1, <2>4, SumUnion
  <2>7. SumFunctionOnSet(Vaults, old) \in Int
    BY <2>1, <2>4, SumType
  <2>8. /\ SumFunctionOnSet(Vaults', old \cup new) = SumFunctionOnSet(Vaults, old) + x
        /\ SumFunctionOnSet(Vaults, old \cup new) = SumFunctionOnSet(Vaults, old)
    BY <1>3, <1>10, <2>2, <2>3, <2>5, <2>6, <2>7
  <2> QED BY <2>1, <2>8
<1>12. /\ \A c \in Claim : Vaults'[c] >= Vaults[c] /\ (c \in PaidClaims => Vaults'[c] = Vaults[c])
       /\ PaidClaims' = PaidClaims
  BY <1>6, <1>8, <1>9 DEF VaultKept
<1>13. PaidIn
  BY <1>1, <1>3, <1>11, <1>12 DEF PaidIn
<1> QED
  BY <1>13 DEF CustodyStep

\* A step that changes nothing changes no vault.
LEMMA StutterStep ==
    ASSUME TypeInv, TypeInv', UNCHANGED vars
    PROVE  Nothing
<1>1. \A i \in EscrowId : EscrowKept(i)
  BY DEF vars, EscrowKept, Exists
<1>2. \A s \in SplitId : SplitKept(s)
  BY DEF vars, SplitKept, Closed
<1>3. \A c \in Claim : VaultKept(c)
  BY <1>1, <1>2, Claims, Kept
<1> QED
  BY <1>3, AllKept DEF Nothing, vars

\* Every step is one of these.
LEMMA NextStep ==
    ASSUME TypeInv, TypeInv', Next
    PROVE  CustodyStep
<1>1. ASSUME NEW c \in Account, NEW s \in SplitId, Distribute(c, s)
      PROVE  CustodyStep
  <2>1. s \in DOMAIN splits /\ Distributes({s})
    BY <1>1, DistributeLemma, TypeFacts
  <2> QED BY <2>1, DistributesCustody
<1>2. ASSUME NEW c \in Account, NEW ids \in SeqOf(SplitId, MaxBulk + 1), BulkDistribute(c, ids)
      PROVE  CustodyStep
  <2>1. SplitsOK
    BY TypeFacts
  <2>2. PICK D \in SUBSET DOMAIN splits : Distributes(D)
    BY <1>2, <2>1, BulkDistributeLemma
  <2> QED BY <2>2, DistributesCustody
<1>3. ASSUME EscrowNext, UNCHANGED splitVars PROVE CustodyStep
  <2>1. EscrowStep /\ UNCHANGED splits
    BY <1>3, EscrowNextTypes DEF splitVars
  <2> QED BY <2>1, EscrowCustody
<1> QED
  BY <1>1, <1>2, <1>3, CreateSplitCustody, SplitWithEscrowCustody, CancelSplitCustody, ReplaceCustody
     DEF Next, SplitNext

-----------------------------------------------------------------------------
(***************************************************************************)
(* The pool covers the vaults.                                             *)
(***************************************************************************)

\* What a payout leaves in the vaults.
LEMMA PaidOutSum ==
    ASSUME VaultsShown, NEW ids, PaidOut(ids)
    PROVE  /\ SumFunctionOnSet(Vaults', Claim)
                 = SumFunctionOnSet(Vaults, Claim) - SumFunctionOnSet(Vaults, ids)
           /\ SumFunctionOnSet(Vaults, Claim) \in Int /\ SumFunctionOnSet(Vaults, ids) \in Int
<1>1. IsFiniteSet(Claim)
  BY Claims
<1>2. ids \subseteq Claim /\ Vaults' = [c \in Claim |-> IF c \in ids THEN 0 ELSE Vaults[c]]
  BY DEF PaidOut
<1>3. \A c \in Claim : Vaults[c] \in Int
  BY DEF VaultsShown
<1>4. PICK V : V = Vaults
  OBVIOUS
<1>5. PICK C : C = Claim
  OBVIOUS
<1>6. IsFiniteSet(C) /\ ids \subseteq C /\ \A c \in C : V[c] \in Int
  BY <1>1, <1>2, <1>3, <1>4, <1>5
<1>7. /\ SumFunctionOnSet([c \in C |-> IF c \in ids THEN 0 ELSE V[c]], C)
            = SumFunctionOnSet(V, C) - SumFunctionOnSet(V, ids)
      /\ SumFunctionOnSet(V, C) \in Int /\ SumFunctionOnSet(V, ids) \in Int
  BY <1>6, SumCleared
<1>8. Vaults' = [c \in C |-> IF c \in ids THEN 0 ELSE V[c]]
  BY <1>2, <1>4, <1>5
<1> QED
  BY <1>4, <1>5, <1>7, <1>8

\* What the contract has after a payment from somebody else.
LEMMA PaymentFromOther ==
    ASSUME ledger \in LedgerType, NEW from \in Account, NEW to \in Address, NEW x, Payment(from, to, x)
    PROVE  /\ from # Contract /\ from \in Address /\ Contract \in Address
           /\ ledger'.balance[Contract] = ledger.balance[Contract] + (IF to = Contract THEN x ELSE 0)
           /\ x \in Nat /\ ledger.balance[Contract] \in Nat
<1>1. from # Contract /\ from \in Address /\ Contract \in Address /\ x \in Nat
  BY ContractAssumption DEF Address, Payment
<1>2. ledger.balance[Contract] \in Nat
  BY <1>1 DEF LedgerType
<1>3. ledger'.balance[Contract] = ledger.balance[Contract] - (IF Contract = from THEN x ELSE 0)
                                                           + (IF Contract = to THEN x ELSE 0)
  BY <1>1, PaymentLemma
<1> QED
  BY <1>1, <1>2, <1>3

\* The balance covers the vaults after every step: what is paid out of it is
\* what lay in vaults that are empty now.
LEMMA PoolKept ==
    ASSUME TypeInv, TypeInv', PoolCovered, CustodyStep
    PROVE  PoolCovered'
<1>1. VaultsShown /\ ledger \in LedgerType /\ Contract \in Address
  BY VaultsLemma, EscrowTypes
<1>2. ledger.balance[Contract] \in Nat /\ SumFunctionOnSet(Vaults, Claim) \in Nat
      /\ SumFunctionOnSet(Vaults, Claim) <= ledger.balance[Contract]
  BY <1>1 DEF VaultsShown, LedgerType, PoolCovered
<1>3. CASE Nothing
  BY <1>2, <1>3 DEF Nothing, PoolCovered
<1>4. CASE PaidElsewhere
  <2>1. PICK from \in Account, to \in Address, x \in Nat : Payment(from, to, x)
    BY <1>4 DEF PaidElsewhere
  <2>2. ledger'.balance[Contract] >= ledger.balance[Contract]
        /\ ledger'.balance[Contract] \in Nat
    BY <1>1, <2>1, PaymentFromOther
  <2> QED BY <1>2, <1>4, <2>2 DEF PaidElsewhere, PoolCovered
<1>5. CASE PaidIn
  <2>1. PICK from \in Account, x \in Nat :
           /\ Payment(from, Contract, x)
           /\ SumFunctionOnSet(Vaults', Claim) = SumFunctionOnSet(Vaults, Claim) + x
    BY <1>5 DEF PaidIn
  <2>2. ledger'.balance[Contract] = ledger.balance[Contract] + x
    BY <1>1, <2>1, PaymentFromOther
  <2>3. SumFunctionOnSet(Vaults', Claim) <= ledger'.balance[Contract]
    BY <1>2, <2>1, <2>2
  <2> QED BY <2>3 DEF PoolCovered
<1>6. ASSUME NEW ids, PaidOut(ids) PROVE PoolCovered'
  <2>1. ledger'.balance[Contract] >= ledger.balance[Contract] - SumFunctionOnSet(Vaults, ids)
        /\ ledger'.balance[Contract] \in Nat
    BY <1>1, <1>6 DEF PaidOut, TypeInv, TypeOK, LedgerType
  <2>2. SumFunctionOnSet(Vaults', Claim)
                 = SumFunctionOnSet(Vaults, Claim) - SumFunctionOnSet(Vaults, ids)
        /\ SumFunctionOnSet(Vaults, ids) \in Int
    BY <1>1, <1>6, PaidOutSum
  <2>3. SumFunctionOnSet(Vaults', Claim) <= ledger'.balance[Contract]
    BY <1>2, <2>1, <2>2
  <2> QED BY <2>3 DEF PoolCovered
<1> QED
  BY <1>3, <1>4, <1>5, <1>6 DEF CustodyStep

\* Nothing is owed initially.
LEMMA InitCovered ==
    ASSUME Init
    PROVE  /\ Vaults = [c \in Claim |-> 0] /\ PaidClaims = {}
           /\ PoolCovered
<1>1. TypeInv /\ splits = <<>> /\ escrows = <<>>
  BY InitInv DEF IInv, Init, EscrowInit
<1>2. DOMAIN splits = {} /\ 1 .. Len(escrows) = {}
  BY <1>1
<1>3. VaultsShown
  BY <1>1, VaultsLemma
<1>4. \A i \in EscrowId : Vaults[<<"escrow", i>>] = 0 /\ <<"escrow", i>> \notin PaidClaims
  BY <1>2, <1>3 DEF VaultsShown, Active, Exists
<1>5. \A s \in SplitId : Vaults[<<"split", s>>] = 0 /\ <<"split", s>> \notin PaidClaims
  BY <1>2, <1>3 DEF VaultsShown, OpenSplits
<1>6. Vaults \in [Claim -> Nat] /\ PaidClaims \subseteq Claim
  BY <1>3 DEF VaultsShown
<1>7. Vaults = [c \in Claim |-> 0] /\ PaidClaims = {}
  BY <1>4, <1>5, <1>6, Claims
<1>8. SumFunctionOnSet(Vaults, Claim) = 0
  <2>1. IsFiniteSet(Claim)
    BY Claims
  <2> QED BY <1>7, <2>1, SumZero
<1>9. ledger.balance[Contract] \in Nat
  BY <1>1, EscrowTypes DEF LedgerType
<1> QED
  BY <1>7, <1>8, <1>9 DEF PoolCovered

CustodyInv == IInv /\ PoolCovered

\* Types and the cover of the pool are inductive.
LEMMA CustodyInvariance == Spec => []CustodyInv
<1>1. Init => CustodyInv
  BY InitInv, InitCovered DEF CustodyInv
<1>2. CustodyInv /\ [Next]_vars => CustodyInv'
  <2>1. ASSUME CustodyInv, Next PROVE CustodyInv'
    <3>1. IInv /\ IInv' /\ PoolCovered
      BY <2>1, NextInv DEF CustodyInv
    <3>2. TypeInv /\ TypeInv'
      BY <3>1 DEF IInv
    <3>3. PoolCovered'
      BY <2>1, <3>1, <3>2, NextStep, PoolKept
    <3> QED BY <3>1, <3>3 DEF CustodyInv
  <2>2. ASSUME CustodyInv, UNCHANGED vars PROVE CustodyInv'
    <3>1. IInv /\ IInv' /\ PoolCovered
      BY <2>2, NextInv DEF CustodyInv
    <3>2. TypeInv /\ TypeInv'
      BY <3>1 DEF IInv
    <3>3. PoolCovered'
      BY <2>2, <3>1, <3>2, StutterStep, PoolKept DEF CustodyStep
    <3> QED BY <3>1, <3>3 DEF CustodyInv
  <2> QED BY <2>1, <2>2
<1> QED
  BY <1>1, <1>2, PTL DEF Spec

-----------------------------------------------------------------------------
(***************************************************************************)
(* The refinement.                                                         *)
(***************************************************************************)

\* The wallets hold the balances but for what is in the vaults.
WalletsExact ==
    /\ Wallets \in [Address -> Nat]
    /\ Wallets[Contract] = ledger.balance[Contract] - SumFunctionOnSet(Vaults, Claim)
    /\ \A a \in Address \ {Contract} : Wallets[a] = ledger.balance[a]
    /\ SumFunctionOnSet(Wallets, Address) = Held(ledger) - SumFunctionOnSet(Vaults, Claim)
    /\ Held(ledger) \in Nat /\ SumFunctionOnSet(Vaults, Claim) \in Nat
    /\ ledger.balance \in [Address -> Nat] /\ Contract \in Address

\* What the pool has beyond the vaults is a wallet of its own.
LEMMA WalletsLemma == TypeInv /\ PoolCovered => WalletsExact
<1> SUFFICES ASSUME TypeInv, PoolCovered PROVE WalletsExact
  OBVIOUS
<1>1. /\ ledger \in LedgerType /\ ledger.balance \in [Address -> Nat] /\ Contract \in Address
  BY EscrowTypes DEF LedgerType
<1>2. /\ SumFunctionOnSet(Vaults, Claim) \in Nat
      /\ SumFunctionOnSet(Vaults, Claim) <= ledger.balance[Contract]
  BY VaultsLemma DEF VaultsShown, PoolCovered
<1>3. PICK v : v = SumFunctionOnSet(Vaults, Claim)
  OBVIOUS
<1>4. Wallets = [ledger.balance EXCEPT ![Contract] = ledger.balance[Contract] - v]
  BY <1>3 DEF Wallets
<1>5. v \in Nat /\ v <= ledger.balance[Contract]
  BY <1>2, <1>3
<1>6. /\ Wallets \in [Address -> Nat]
      /\ Wallets[Contract] = ledger.balance[Contract] - v
      /\ \A a \in Address \ {Contract} : Wallets[a] = ledger.balance[a]
  BY <1>1, <1>4, <1>5
<1>7. SumFunctionOnSet(Wallets, Address)
        = SumFunctionOnSet(ledger.balance, Address) - ledger.balance[Contract] + Wallets[Contract]
  <2>1. /\ \A a \in Address : ledger.balance[a] \in Int
        /\ Wallets[Contract] \in Int
    BY <1>1, <1>6
  <2>2. IsFiniteSet(Address)
    BY FiniteAddress
  <2> QED BY <1>1, <1>6, <2>1, <2>2, SumUpdate
<1>8. Held(ledger) \in Nat /\ Held(ledger) = SumFunctionOnSet(ledger.balance, Address)
  BY <1>1, HeldType DEF Held
<1>9. SumFunctionOnSet(Wallets, Address) = Held(ledger) - v
  BY <1>1, <1>5, <1>6, <1>7, <1>8
<1> QED
  BY <1>1, <1>2, <1>3, <1>6, <1>8, <1>9 DEF WalletsExact

\* The same in the next state.
LEMMA WalletsLemmaNext == TypeInv' /\ PoolCovered' => WalletsExact'
BY WalletsLemma, PTL

\* The sums of module Custody are the same sums.
LEMMA PooledSum ==
    \A f, S : Pooled!SumFunctionOnSet(f, S) = SumFunctionOnSet(f, S)
BY DEF Pooled!SumFunctionOnSet, Pooled!FoldFunctionOnSet, Pooled!MapThenFoldSet,
       SumFunctionOnSet, FoldFunctionOnSet, MapThenFoldSet

\* Money that moves outside the vaults is a transfer between two wallets, or
\* nothing if payer and payee are the same.
LEMMA TransferImplemented ==
    ASSUME TypeInv, TypeInv', PoolCovered, PoolCovered', PaidElsewhere
    PROVE  (\E a, b \in Address : Pooled!Transfer(a, b)) \/ UNCHANGED <<Wallets, Vaults, PaidClaims>>
<1>1. WalletsExact /\ WalletsExact'
  BY WalletsLemma, WalletsLemmaNext
<1>2. PICK f \in Account, t \in Address, x \in Nat : Payment(f, t, x)
  BY DEF PaidElsewhere
<1>3. Vaults' = Vaults /\ PaidClaims' = PaidClaims
  BY DEF PaidElsewhere
<1>4. f \in Address /\ ledger \in LedgerType
  BY EscrowTypes DEF Address
<1>5. /\ Wallets \in [Address -> Nat] /\ Wallets' \in [Address -> Nat]
      /\ \A a \in Address :
            Wallets'[a] = Wallets[a] - (IF a = f THEN x ELSE 0) + (IF a = t THEN x ELSE 0)
  <2>1. \A a \in Address : ledger'.balance[a] = ledger.balance[a] - (IF a = f THEN x ELSE 0)
                                                                  + (IF a = t THEN x ELSE 0)
    BY <1>2, <1>4, PaymentLemma
  <2>2. /\ Wallets \in [Address -> Nat] /\ Contract \in Address
        /\ Wallets[Contract] = ledger.balance[Contract] - SumFunctionOnSet(Vaults, Claim)
        /\ \A a \in Address \ {Contract} : Wallets[a] = ledger.balance[a]
        /\ ledger.balance \in [Address -> Nat] /\ SumFunctionOnSet(Vaults, Claim) \in Nat
    BY <1>1 DEF WalletsExact
  <2>3. /\ Wallets' \in [Address -> Nat]
        /\ Wallets'[Contract] = ledger'.balance[Contract] - SumFunctionOnSet(Vaults, Claim)
        /\ \A a \in Address \ {Contract} : Wallets'[a] = ledger'.balance[a]
    BY <1>1, <1>3 DEF WalletsExact
  <2> QED BY <2>1, <2>2, <2>3
<1>6. CASE f = t \/ x = 0
  <2>1. \A a \in Address : Wallets'[a] = Wallets[a]
    BY <1>5, <1>6
  <2>2. Wallets' = Wallets
    BY <1>5, <2>1
  <2> QED BY <1>3, <2>2
<1>7. CASE f # t /\ x # 0
  <2>1. /\ Wallets'[f] = Wallets[f] - x /\ Wallets'[t] = Wallets[t] + x
        /\ \A a \in Address \ {f, t} : Wallets'[a] = Wallets[a]
    BY <1>4, <1>5, <1>7
  <2>2. Wallets'[f] \in 0 .. Wallets[f] - 1
    BY <1>4, <1>5, <1>7, <2>1
  <2>3. Wallets' = [Wallets EXCEPT ![f] = Wallets'[f], ![t] = @ + (Wallets[f] - Wallets'[f])]
    BY <1>4, <1>5, <1>7, <2>1
  <2>4. Pooled!Transfer(f, t)
    BY <1>3, <1>7, <2>2, <2>3 DEF Pooled!Transfer
  <2> QED BY <1>4, <2>4
<1> QED
  BY <1>6, <1>7

\* Money paid into vaults comes from the wallet of the payer alone: what the
\* balance of the contract gains lies in the vaults.
LEMMA DepositImplemented ==
    ASSUME TypeInv, TypeInv', PoolCovered, PoolCovered', PaidIn
    PROVE  \E a \in Address : Pooled!Deposit(a)
<1>1. WalletsExact /\ WalletsExact'
  BY WalletsLemma, WalletsLemmaNext
<1>2. PICK f \in Account, x \in Nat :
          /\ Payment(f, Contract, x)
          /\ SumFunctionOnSet(Vaults', Claim) = SumFunctionOnSet(Vaults, Claim) + x
  BY DEF PaidIn
<1>3. /\ f # Contract /\ f \in Address
      /\ \A a \in Address : ledger'.balance[a] = ledger.balance[a] - (IF a = f THEN x ELSE 0)
                                                                   + (IF a = Contract THEN x ELSE 0)
  <2>1. ledger \in LedgerType
    BY EscrowTypes
  <2> QED BY <1>2, <2>1, PaymentLemma, ContractAssumption DEF Address
<1>4. PICK v : v = SumFunctionOnSet(Vaults, Claim)
  OBVIOUS
<1>5. /\ Wallets \in [Address -> Nat] /\ Wallets' \in [Address -> Nat]
      /\ \A a \in Address : Wallets'[a] = Wallets[a] - (IF a = f THEN x ELSE 0)
  <2>1. /\ Wallets \in [Address -> Nat] /\ Contract \in Address
        /\ Wallets[Contract] = ledger.balance[Contract] - v
        /\ \A a \in Address \ {Contract} : Wallets[a] = ledger.balance[a]
        /\ ledger.balance \in [Address -> Nat] /\ v \in Nat
    BY <1>1, <1>4 DEF WalletsExact
  <2>2. /\ Wallets' \in [Address -> Nat]
        /\ Wallets'[Contract] = ledger'.balance[Contract] - (v + x)
        /\ \A a \in Address \ {Contract} : Wallets'[a] = ledger'.balance[a]
    BY <1>1, <1>2, <1>4 DEF WalletsExact
  <2>3. Wallets'[Contract] = Wallets[Contract]
    <3>1. ledger'.balance[Contract] = ledger.balance[Contract] + x
      BY <1>3, <2>1
    <3>2. ledger.balance[Contract] \in Nat
      BY <2>1
    <3> QED BY <2>1, <2>2, <3>1, <3>2
  <2>4. ASSUME NEW a \in Address, a # Contract
        PROVE  Wallets'[a] = Wallets[a] - (IF a = f THEN x ELSE 0)
    BY <1>3, <2>1, <2>2, <2>4
  <2> QED BY <1>3, <2>1, <2>2, <2>3, <2>4
<1>6. Wallets' = [Wallets EXCEPT ![f] = @ - x]
  BY <1>3, <1>5
<1>7. Pooled!Total(Vaults') - Pooled!Total(Vaults) = x
  <2>1. v \in Nat /\ SumFunctionOnSet(Vaults', Claim) = v + x
    BY <1>1, <1>2, <1>4 DEF WalletsExact
  <2> QED BY <1>4, <2>1, PooledSum DEF Pooled!Total
<1>8. /\ Vaults' \in [Claim -> Nat]
      /\ \A d \in Claim : Vaults'[d] >= Vaults[d] /\ (d \in PaidClaims => Vaults'[d] = Vaults[d])
      /\ PaidClaims' = PaidClaims
  BY VaultsLemmaNext DEF VaultsShown, PaidIn
<1>9. Wallets' = [Wallets EXCEPT ![f] = @ - (Pooled!Total(Vaults') - Pooled!Total(Vaults))]
      /\ Wallets'[f] \in Nat
  BY <1>3, <1>5, <1>6, <1>7
<1> QED
  BY <1>3, <1>8, <1>9 DEF Pooled!Deposit

\* Vaults are emptied into wallets, to the last unit; a bulk_distribute of no
\* split is nothing.
LEMMA PayOutImplemented ==
    ASSUME TypeInv, TypeInv', PoolCovered, PoolCovered', NEW ids, PaidOut(ids)
    PROVE  Pooled!PayOut(PaidClaims' \ PaidClaims) \/ UNCHANGED <<Wallets, Vaults, PaidClaims>>
<1>1. WalletsExact /\ WalletsExact' /\ VaultsShown
  BY WalletsLemma, WalletsLemmaNext, VaultsLemma
<1>2. PICK v, w : v = SumFunctionOnSet(Vaults, Claim) /\ w = SumFunctionOnSet(Vaults, ids)
  OBVIOUS
<1>3. v \in Int /\ w \in Int /\ SumFunctionOnSet(Vaults', Claim) = v - w
  BY <1>1, <1>2, PaidOutSum
<1>4. /\ Wallets \in [Address -> Nat] /\ Contract \in Address
      /\ Wallets[Contract] = ledger.balance[Contract] - v
      /\ \A a \in Address \ {Contract} : Wallets[a] = ledger.balance[a]
      /\ ledger.balance \in [Address -> Nat]
      /\ SumFunctionOnSet(Wallets, Address) = Held(ledger) - v
      /\ Held(ledger) \in Nat
  BY <1>1, <1>2 DEF WalletsExact
<1>5. /\ Wallets' \in [Address -> Nat]
      /\ Wallets'[Contract] = ledger'.balance[Contract] - (v - w)
      /\ \A a \in Address \ {Contract} : Wallets'[a] = ledger'.balance[a]
      /\ ledger'.balance \in [Address -> Nat]
      /\ SumFunctionOnSet(Wallets', Address) = Held(ledger)' - (v - w)
  BY <1>1, <1>3 DEF WalletsExact
<1>6. /\ Held(ledger)' = Held(ledger)
      /\ \A a \in Address \ {Contract} : ledger'.balance[a] >= ledger.balance[a]
      /\ ledger'.balance[Contract] >= ledger.balance[Contract] - w
  BY <1>2 DEF PaidOut, Held
<1>7. SumFunctionOnSet(Wallets', Address) - SumFunctionOnSet(Wallets, Address) = w
  BY <1>3, <1>4, <1>5, <1>6
<1>8. ASSUME NEW a \in Address PROVE Wallets'[a] >= Wallets[a]
  <2>1. CASE a = Contract
    <3>1. ledger'.balance[Contract] \in Int /\ ledger.balance[Contract] \in Int
      BY <1>4, <1>5
    <3> QED BY <1>3, <1>4, <1>5, <1>6, <2>1, <3>1
  <2>2. CASE a # Contract
    BY <1>4, <1>5, <1>6, <2>2
  <2> QED BY <2>1, <2>2
<1>9. /\ ids \cap PaidClaims = {} /\ PaidClaims' = PaidClaims \cup ids
      /\ Vaults' = [c \in Claim |-> IF c \in ids THEN 0 ELSE Vaults[c]]
  BY DEF PaidOut
<1>10. CASE ids # {}
  <2>1. PaidClaims' \ PaidClaims = ids
    BY <1>9
  <2>2. Pooled!SumFunctionOnSet(Wallets', Address) - Pooled!SumFunctionOnSet(Wallets, Address)
          = Pooled!SumFunctionOnSet(Vaults, ids)
    BY <1>2, <1>7, PooledSum
  <2>3. Pooled!PayOut(ids)
    BY <1>5, <1>8, <1>9, <1>10, <2>2 DEF Pooled!PayOut
  <2> QED BY <2>1, <2>3
<1>11. CASE ids = {}
  <2>1. Vaults' = Vaults /\ PaidClaims' = PaidClaims /\ w = 0
    BY <1>1, <1>2, <1>9, <1>11, SumEmpty DEF VaultsShown
  <2>2. Wallets' = Wallets
    <3>1. /\ IsFiniteSet(Address) /\ \A a \in Address : Wallets[a] \in Int /\ Wallets'[a] \in Int
          /\ \A a \in Address : Wallets'[a] >= Wallets[a]
      BY <1>4, <1>5, <1>8, FiniteAddress
    <3> SUFFICES ASSUME NEW b \in Address, Wallets'[b] > Wallets[b] PROVE FALSE
      BY <1>4, <1>5, <3>1
    <3>2. PICK f, g : f = Wallets /\ g = Wallets'
      OBVIOUS
    <3>3. PICK R : R = Address \ {b}
      OBVIOUS
    <3>4. /\ SumFunctionOnSet(f, Address) = f[b] + SumFunctionOnSet(f, R)
          /\ SumFunctionOnSet(g, Address) = g[b] + SumFunctionOnSet(g, R)
      BY <3>1, <3>2, <3>3, SumRemove
    <3>5. IsFiniteSet(R) /\ \A a \in R : f[a] \in Int /\ g[a] \in Int /\ f[a] <= g[a]
      BY <3>1, <3>2, <3>3, FS_Subset
    <3>6. SumFunctionOnSet(f, R) <= SumFunctionOnSet(g, R)
      BY <3>5, SumMonotone
    <3>7. SumFunctionOnSet(f, R) \in Int /\ SumFunctionOnSet(g, R) \in Int
      BY <3>5, SumType
    <3>8. f[b] \in Int /\ g[b] \in Int /\ f[b] < g[b]
      BY <3>1, <3>2
    <3>9. SumFunctionOnSet(g, Address) - SumFunctionOnSet(f, Address) = 0
      BY <1>7, <2>1, <3>2
    <3> QED BY <3>4, <3>6, <3>7, <3>8, <3>9
  <2> QED BY <2>1, <2>2
<1> QED
  BY <1>10, <1>11

\* The vaults the contract shows are vaults: every step is one of Custody, or
\* changes nothing that Custody speaks of.
THEOREM CustodyCorrect == Spec => ImplementsCustody
<1>1. Init => Pooled!Init
  <2> SUFFICES ASSUME Init PROVE Pooled!Init
    OBVIOUS
  <2>1. TypeInv /\ PoolCovered
    BY InitInv, InitCovered DEF IInv
  <2>2. Wallets \in [Address -> Nat]
    BY <2>1, WalletsLemma DEF WalletsExact
  <2> QED BY <2>2, InitCovered DEF Pooled!Init
<1>2. CustodyInv /\ CustodyInv' /\ [Next]_vars => [Pooled!Next]_(Pooled!custodyVars)
  <2> SUFFICES ASSUME CustodyInv, CustodyInv', [Next]_vars
               PROVE  Pooled!Next \/ UNCHANGED <<Wallets, Vaults, PaidClaims>>
    BY DEF Pooled!custodyVars
  <2>1. TypeInv /\ TypeInv' /\ PoolCovered /\ PoolCovered'
    BY DEF CustodyInv, IInv
  <2>2. ASSUME Nothing PROVE UNCHANGED <<Wallets, Vaults, PaidClaims>>
    BY <2>2 DEF Nothing, Wallets
  <2>3. CASE UNCHANGED vars
    BY <2>1, <2>2, <2>3, StutterStep
  <2>4. CASE Next
    <3>1. CustodyStep
      BY <2>1, <2>4, NextStep
    <3>2. ASSUME PaidElsewhere
          PROVE  Pooled!Next \/ UNCHANGED <<Wallets, Vaults, PaidClaims>>
      BY <2>1, <3>2, TransferImplemented DEF Pooled!Next
    <3>3. ASSUME PaidIn PROVE Pooled!Next
      BY <2>1, <3>3, DepositImplemented DEF Pooled!Next
    <3>4. ASSUME NEW ids, PaidOut(ids)
          PROVE  Pooled!Next \/ UNCHANGED <<Wallets, Vaults, PaidClaims>>
      BY <2>1, <3>4, PayOutImplemented DEF Pooled!Next
    <3> QED BY <2>2, <3>1, <3>2, <3>3, <3>4 DEF CustodyStep
  <2> QED BY <2>3, <2>4
<1> QED
  BY <1>1, <1>2, CustodyInvariance, PTL DEF Spec, ImplementsCustody, Pooled!Spec

\* The balance of the contract always covers the active escrows and the open
\* splits together.
THEOREM Solvent == Spec => []PoolCovered
BY CustodyInvariance, PTL DEF CustodyInv

-----------------------------------------------------------------------------
(***************************************************************************)
(* What the recipients get.                                                *)
(***************************************************************************)

\* replace_split_recipient marks no split.
LEMMA ReplaceMarksNone ==
    ASSUME TypeInv, NEW a \in Account, NEW s \in SplitId, NEW old \in Beneficiaries,
           NEW new \in Beneficiaries, ReplaceSplitRecipient(a, s, old, new)
    PROVE  \A t \in DOMAIN splits : splits'[t].distributed = splits[t].distributed
<1> DEFINE q == ReplaceIn(splits[s].recipients, old, new)
<1>1. /\ TypeInv' /\ s \in DOMAIN splits /\ DOMAIN splits' = DOMAIN splits
      /\ splits' = [splits EXCEPT ![s] = [splits[s] EXCEPT !.recipients = q]]
      /\ splits[s] \in SplitRecord
      /\ UNCHANGED <<otherVars, ledger, stats>>
  BY ReplaceTypes
<1> HIDE DEF q
<1>2. splits'[s].distributed = splits[s].distributed
  BY <1>1 DEF SplitRecord
<1> QED
  BY <1>1, <1>2

\* Only a distribution marks a split as distributed, and it alone if it is the
\* only one that changes.
LEMMA MarkedByDistribution ==
    ASSUME TypeInv, Next, NEW s \in OpenSplits, splits' = [splits EXCEPT ![s].distributed = TRUE]
    PROVE  Distributes({s})
<1>1. /\ SplitsOK /\ s \in DOMAIN splits /\ splits[s] \in SplitRecord /\ splits[s].distributed = FALSE
      /\ splits \in Seq(SplitRecord) /\ Len(splits) \in Nat /\ DOMAIN splits = 1 .. Len(splits)
  BY TypeFacts, SplitsLemma DEF OpenSplits, Closed, SplitRecord, SplitsOK
<1>2. /\ splits'[s].distributed = TRUE /\ DOMAIN splits' = DOMAIN splits
      /\ \A t \in DOMAIN splits \ {s} : splits'[t] = splits[t]
  BY <1>1 DEF SplitRecord
<1>3. ASSUME NEW D, D \subseteq DOMAIN splits, Distributes(D) PROVE D = {s}
  <2>1. splits' = MarkedAll(D) /\ D \subseteq OpenSplits
    BY <1>3, DistributesTypes
  <2>2. s \in D
    BY <1>1, <1>2, <2>1 DEF MarkedAll
  <2>3. ASSUME NEW t \in D, t # s PROVE FALSE
    <3>1. splits[t] \in SplitRecord /\ ~splits[t].distributed /\ t \in DOMAIN splits
      BY <1>1, <1>3, <2>1, SplitsLemma DEF OpenSplits, Closed
    <3>2. splits'[t] = [splits[t] EXCEPT !.distributed = TRUE]
      BY <2>1, <3>1 DEF MarkedAll
    <3>3. splits'[t].distributed = TRUE
      BY <3>1, <3>2 DEF SplitRecord
    <3> QED BY <1>2, <2>3, <3>1, <3>3
  <2> QED BY <2>2, <2>3
<1>4. ASSUME NEW c \in Account, NEW r \in RecipientLists, NEW x \in Amounts, CreateSplit(c, r, x)
      PROVE  FALSE
  <2>1. Len(splits') = Len(splits) + 1 /\ splits' \in Seq(SplitRecord)
    BY <1>4, CreateSplitTypes DEF TypeInv
  <2>2. DOMAIN splits' = 1 .. Len(splits) + 1
    BY <1>1, <2>1, LenProperties
  <2> QED BY <1>1, <1>2, <2>2
<1>5. ASSUME NEW c \in Account, NEW r \in RecipientLists, NEW x \in Amounts, NEW e \in Ledger,
             CreateSplitWithEscrow(c, r, x, e)
      PROVE  FALSE
  <2>1. splits' = splits
    BY <1>5 DEF CreateSplitWithEscrow, splitVars
  <2> QED BY <1>1, <1>2, <2>1
<1>6. ASSUME NEW c \in Account, NEW t \in SplitId, Distribute(c, t) PROVE Distributes({s})
  <2>1. t \in DOMAIN splits /\ Distributes({t})
    BY <1>1, <1>6, DistributeLemma
  <2>2. {t} = {s}
    BY <1>3, <2>1
  <2> QED BY <2>1, <2>2
<1>7. ASSUME NEW c \in Account, NEW ids \in SeqOf(SplitId, MaxBulk + 1), BulkDistribute(c, ids)
      PROVE  Distributes({s})
  <2>1. PICK D \in SUBSET DOMAIN splits : Distributes(D)
    BY <1>1, <1>7, BulkDistributeLemma
  <2>2. D = {s}
    BY <1>3, <2>1
  <2> QED BY <2>1, <2>2
<1>8. ASSUME NEW c \in Account, NEW t \in SplitId, CancelSplit(c, t) PROVE FALSE
  <2>1. splits' = [splits EXCEPT ![t].cancelled = TRUE] /\ t \in DOMAIN splits
    BY <1>8, CancelSplitTypes
  <2>2. splits'[s].distributed = splits[s].distributed
    BY <1>1, <2>1 DEF SplitRecord
  <2> QED BY <1>1, <1>2, <2>2
<1>9. ASSUME NEW c \in Account, NEW t \in SplitId, NEW old \in Beneficiaries, NEW new \in Beneficiaries,
             ReplaceSplitRecipient(c, t, old, new)
      PROVE  FALSE
  BY <1>1, <1>2, <1>9, ReplaceMarksNone
<1>10. ASSUME EscrowNext, UNCHANGED splitVars PROVE FALSE
  <2>1. splits' = splits
    BY <1>10 DEF splitVars
  <2> QED BY <1>1, <1>2, <2>1
<1> QED
  BY <1>4, <1>5, <1>6, <1>7, <1>8, <1>9, <1>10 DEF Next, SplitNext

\* The recipients of a split get what they are due in this step.
FairTo(split) ==
    /\ \A k \in DOMAIN split.recipients :
          LET extra == Gain(split.recipients[k].address) - FloorShare(split, k)
          IN  /\ extra \in 0 .. Len(split.recipients) - 1
              /\ k < Len(split.recipients) => extra = 0
    /\ SumFunctionOnSet([a \in PaysTo(split) |-> Gain(a)], PaysTo(split)) = split.total_amount

\* A distribution of which the contract is no recipient is fair.
LEMMA FairAlone ==
    ASSUME ledger \in LedgerType, NEW split, Divisible(split), split.recipients # <<>>,
           ValidRecipients(split.recipients), Contract \notin PaysTo(split),
           PaidUpTo(ledger, ledger', split, Positions(split))
    PROVE  FairTo(split)
<1> DEFINE r == split.recipients
           h == [k \in DOMAIN r |-> r[k].address]
           g == AmountsOf(split)
           gain == [a \in PaysTo(split) |-> Gain(a)]
<1>1. /\ Len(r) \in Nat /\ DOMAIN r = 1 .. Len(r) /\ IsFiniteSet(DOMAIN r) /\ Len(r) # 0
      /\ \A k \in DOMAIN r : r[k].address \in Address
  BY PositionsLemma DEF Divisible, ValidRecipients
<1>2. /\ \A k \in DOMAIN r :
            /\ AmountToSend(split, k) \in Nat /\ FloorShare(split, k) \in Nat
            /\ k < Len(r) => AmountToSend(split, k) = FloorShare(split, k)
      /\ SumFunctionOnSet(g, DOMAIN r) = split.total_amount
      /\ AmountToSend(split, Len(r)) - FloorShare(split, Len(r)) \in 0 .. Len(r) - 1
  BY AmountsLemma DEF Positions
<1>3. ASSUME NEW k \in DOMAIN r
      PROVE  Gain(r[k].address) = AmountToSend(split, k)
  <2>1. ledger'.balance[r[k].address] = ledger.balance[r[k].address] + AmountToSend(split, k)
    BY DEF PaidUpTo, Positions
  <2>2. ledger.balance[r[k].address] \in Nat
    BY <1>1 DEF LedgerType
  <2> QED BY <1>2, <2>1, <2>2 DEF Gain
<1>4. ASSUME NEW k \in DOMAIN r
      PROVE  /\ Gain(r[k].address) - FloorShare(split, k) \in 0 .. Len(r) - 1
             /\ k < Len(r) => Gain(r[k].address) - FloorShare(split, k) = 0
  <2>1. CASE k < Len(r)
    BY <1>1, <1>2, <1>3, <2>1
  <2>2. CASE ~(k < Len(r))
    <3>1. k = Len(r)
      BY <1>1, <2>2
    <3> QED BY <1>1, <1>2, <1>3, <2>2, <3>1
  <2> QED BY <2>1, <2>2
<1>5. SumFunctionOnSet(gain, PaysTo(split)) = split.total_amount
  <2>1. PaysTo(split) = {h[k] : k \in DOMAIN r}
    BY DEF PaysTo
  <2>2. \A j, k \in DOMAIN r : h[j] = h[k] => j = k
    BY DEF ValidRecipients
  <2>3. \A k \in DOMAIN r : gain[h[k]] = g[k] /\ g[k] \in Int
    BY <1>2, <1>3 DEF AmountsOf, Positions, PaysTo
  <2>4. PICK G : G = gain
    OBVIOUS
  <2>5. PICK H, D : H = h /\ D = DOMAIN r
    OBVIOUS
  <2> HIDE DEF h, g, gain, r
  <2>6. /\ IsFiniteSet(D) /\ \A j, k \in D : H[j] = H[k] => j = k
        /\ \A k \in D : G[H[k]] = g[k] /\ g[k] \in Int
    BY <1>1, <2>2, <2>3, <2>4, <2>5
  <2>7. SumFunctionOnSet(G, {H[k] : k \in D}) = SumFunctionOnSet(g, D)
    BY <2>6, SumImage
  <2> QED BY <1>2, <2>1, <2>4, <2>5, <2>7
<1> QED
  BY <1>4, <1>5 DEF FairTo

\* A distribution pays every recipient its share, and the whole amount in all,
\* after whatever replacements of recipients.
THEOREM SharesCorrect == Spec => FairShares
<1>1. IInv /\ [Next]_vars => [FairStep]_vars
  <2> SUFFICES ASSUME IInv, Next, NEW s \in OpenSplits,
                      splits' = [splits EXCEPT ![s].distributed = TRUE],
                      Contract \notin PaysTo(splits[s])
               PROVE  FairTo(splits[s])
    BY DEF FairStep, FairTo
  <2>1. TypeInv /\ SplitsOK /\ s \in DOMAIN splits
    BY TypeFacts DEF IInv, OpenSplits
  <2>2. PICK v \in Work : Commit(v) /\ PaidAlone(v, {s})
    BY <2>1, MarkedByDistribution DEF Distributes
  <2>3. PaidUpTo(ledger, ledger', splits[s], Positions(splits[s]))
    BY <2>1, <2>2 DEF PaidAlone, Commit
  <2>4. /\ Divisible(splits[s]) /\ splits[s].recipients # <<>>
        /\ ValidRecipients(splits[s].recipients) /\ ledger \in LedgerType
    BY <2>1, SplitsLemma DEF SplitsOK
  <2> QED BY <2>1, <2>3, <2>4, FairAlone
<1> QED
  BY <1>1, Invariance, PTL DEF Spec, FairShares

=============================================================================
