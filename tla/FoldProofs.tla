------------------------------ MODULE FoldProofs ------------------------------
(***************************************************************************)
(* Facts about the folds of the community modules, for any operator Op and *)
(* any choice of the next element: MapThenFoldSet, on which FoldLeft,      *)
(* FoldSet and the sums are built, is a recursive function over the        *)
(* subsets of a finite set; it exists, it is unique, it computes what its  *)
(* recursion says, and it stays in a set that Op does not leave.  A proof  *)
(* about a component instantiates Op with the step of its own fold.        *)
(*                                                                         *)
(* Induction over the subsets of a finite set takes the form "a non-empty  *)
(* set of subsets has a smallest element" (SmallestSubset), applied to the *)
(* subsets for which the claim fails: the induction rules of the library   *)
(* have the claim as an operator parameter, which the provers cannot       *)
(* instantiate.                                                            *)
(***************************************************************************)
EXTENDS Integers, Functions, FiniteSetTheorems, TLAPS

CONSTANTS
    Op(_, _, _), \* the step: its parameters, the value of an element, the fold of the rest
    Choose(_)    \* the element of a set that is taken off next

\* Every non-empty set of subsets of a finite set has a minimal element.
LEMMA SmallestSubset ==
    ASSUME NEW S, IsFiniteSet(S), NEW T \in SUBSET (SUBSET S), T # {}
    PROVE  \E s \in T : \A t \in T : t \subseteq s => t = s
<1>1. IsWellFoundedOn(StrictSubsetOrdering(S), SUBSET S)
  BY FS_StrictSubsetOrderingWellFounded, FS_FiniteSubsetsOfFinite
<1>2. PICK s \in T : \A t \in T : <<t, s>> \notin StrictSubsetOrdering(S)
  BY <1>1, WFMin
<1> QED
  BY <1>2 DEF StrictSubsetOrdering

-----------------------------------------------------------------------------
(***************************************************************************)
(* The recursive function behind a fold of f over the subsets of S.        *)
(***************************************************************************)
Folds(p, h, f, b, S) ==
    h = [s \in SUBSET S |-> IF s = {} THEN b ELSE Op(p, f[Choose(s)], h[s \ {Choose(s)}])]

FoldsOf(p, f, b, S) == CHOOSE h : Folds(p, h, f, b, S)

Fold(p, f, b, S) == FoldsOf(p, f, b, S)[S]

\* Choose takes an element of every non-empty subset.
Chooses(S) == \A s \in SUBSET S : s # {} => Choose(s) \in s

\* Two such functions agree where both are defined.
LEMMA FoldsUnique ==
    ASSUME NEW S, IsFiniteSet(S), Chooses(S), NEW T, S \subseteq T, NEW p, NEW f, NEW b, NEW g, NEW h,
           Folds(p, g, f, b, S), Folds(p, h, f, b, T)
    PROVE  \A s \in SUBSET S : g[s] = h[s]
<1> DEFINE Bad == {s \in SUBSET S : g[s] # h[s]}
<1>1. SUFFICES ASSUME Bad # {} PROVE FALSE
  OBVIOUS
<1>2. PICK s \in Bad : \A t \in Bad : t \subseteq s => t = s
  <2>1. Bad \in SUBSET (SUBSET S)
    OBVIOUS
  <2> HIDE DEF Bad
  <2> QED BY <1>1, <2>1, SmallestSubset
<1>3. s # {}
  BY <1>2 DEF Folds
<1>4. Choose(s) \in s
  BY <1>2, <1>3 DEF Chooses
<1>5. g[s \ {Choose(s)}] = h[s \ {Choose(s)}]
  BY <1>2, <1>4
<1>6. g[s] = Op(p, f[Choose(s)], g[s \ {Choose(s)}]) /\ h[s] = Op(p, f[Choose(s)], h[s \ {Choose(s)}])
  BY <1>3 DEF Folds
<1> QED
  BY <1>2, <1>5, <1>6

\* Over a finite set there is such a function.
LEMMA FoldsExist ==
    ASSUME NEW S, IsFiniteSet(S), Chooses(S), NEW p, NEW f, NEW b
    PROVE  Folds(p, FoldsOf(p, f, b, S), f, b, S)
<1> DEFINE Bad == {T \in SUBSET S : ~\E h : Folds(p, h, f, b, T)}
<1>1. SUFFICES ASSUME Bad # {} PROVE FALSE
  <2>1. SUFFICES \E h : Folds(p, h, f, b, S)
    BY DEF FoldsOf
  <2> QED BY <1>1
<1>2. PICK T \in Bad : \A t \in Bad : t \subseteq T => t = T
  <2>1. Bad \in SUBSET (SUBSET S)
    OBVIOUS
  <2> HIDE DEF Bad
  <2> QED BY <1>1, <2>1, SmallestSubset
<1>3. T \subseteq S /\ IsFiniteSet(T)
  BY <1>2, FS_Subset
<1>4. ASSUME NEW U \in SUBSET T, U # T PROVE Folds(p, FoldsOf(p, f, b, U), f, b, U)
  <2>1. \E h : Folds(p, h, f, b, U)
    BY <1>2, <1>3, <1>4
  <2> QED BY <2>1 DEF FoldsOf
<1> DEFINE rest(s) == s \ {Choose(s)}
           it == [s \in SUBSET T |-> IF s = {} THEN b
                                     ELSE Op(p, f[Choose(s)], FoldsOf(p, f, b, rest(s))[rest(s)])]
<1>5. ASSUME NEW s \in SUBSET T, s # {} PROVE it[rest(s)] = FoldsOf(p, f, b, rest(s))[rest(s)]
  <2> DEFINE u == rest(s)
  <2>1. Choose(s) \in s
    BY <1>3, <1>5 DEF Chooses
  <2>2. u \in SUBSET T /\ u # T /\ IsFiniteSet(u)
    BY <1>3, <2>1, FS_Subset
  <2> HIDE DEF rest
  <2>3. Folds(p, FoldsOf(p, f, b, u), f, b, u)
    BY <1>4, <2>2
  <2>4. CASE u = {}
    <3>1. it[u] = b
      BY <2>2, <2>4
    <3>2. FoldsOf(p, f, b, u)[u] = b
      BY <2>3, <2>4 DEF Folds
    <3> QED BY <3>1, <3>2
  <2>5. CASE u # {}
    <3> DEFINE v == rest(u)
    <3>1. Choose(u) \in u
      BY <1>3, <2>2, <2>5 DEF Chooses
    <3>2. v \subseteq u /\ v \in SUBSET T /\ v # T /\ IsFiniteSet(v) /\ Chooses(v)
      BY <1>3, <2>2, <3>1, FS_Subset DEF rest, Chooses
    <3>3. Folds(p, FoldsOf(p, f, b, v), f, b, v)
      BY <1>4, <3>2
    <3>4. FoldsOf(p, f, b, v)[v] = FoldsOf(p, f, b, u)[v]
      <4> HIDE DEF u, v
      <4> QED BY <2>3, <3>2, <3>3, FoldsUnique
    <3>5. it[u] = Op(p, f[Choose(u)], FoldsOf(p, f, b, v)[v])
      BY <2>2, <2>5
    <3>6. FoldsOf(p, f, b, u)[u] = Op(p, f[Choose(u)], FoldsOf(p, f, b, u)[v])
      BY <2>3, <2>5 DEF Folds, rest
    <3> QED BY <3>4, <3>5, <3>6
  <2> QED BY <2>4, <2>5
<1>6. ASSUME NEW s \in SUBSET T
      PROVE  it[s] = IF s = {} THEN b ELSE Op(p, f[Choose(s)], it[rest(s)])
  BY <1>5, <1>6
<1> HIDE DEF it
<1>7. it = [s \in SUBSET T |-> IF s = {} THEN b ELSE Op(p, f[Choose(s)], it[rest(s)])]
  <2>1. it = [s \in SUBSET T |-> it[s]]
    BY DEF it
  <2> QED BY <1>6, <2>1
<1>8. Folds(p, it, f, b, T)
  BY <1>7 DEF Folds
<1> QED
  BY <1>2, <1>8

-----------------------------------------------------------------------------
(***************************************************************************)
(* What the fold computes.                                                 *)
(***************************************************************************)

\* The fold over the empty set is its base.
LEMMA FoldEmpty ==
    ASSUME NEW p, NEW f, NEW b
    PROVE  Fold(p, f, b, {}) = b
<1>1. Folds(p, FoldsOf(p, f, b, {}), f, b, {})
  BY FoldsExist, FS_EmptySet DEF Chooses
<1> QED
  BY <1>1 DEF Folds, Fold

\* The fold over a set that has an element: the one chosen, and the rest.
LEMMA FoldStep ==
    ASSUME NEW S, IsFiniteSet(S), Chooses(S), S # {}, NEW p, NEW f, NEW b
    PROVE  /\ Choose(S) \in S
           /\ Fold(p, f, b, S) = Op(p, f[Choose(S)], Fold(p, f, b, S \ {Choose(S)}))
<1> DEFINE R == S \ {Choose(S)}
<1>1. Choose(S) \in S
  BY DEF Chooses
<1>2. IsFiniteSet(R) /\ R \subseteq S /\ Chooses(R)
  BY FS_Subset DEF Chooses
<1>3. Folds(p, FoldsOf(p, f, b, S), f, b, S) /\ Folds(p, FoldsOf(p, f, b, R), f, b, R)
  BY <1>2, FoldsExist
<1>4. FoldsOf(p, f, b, R)[R] = FoldsOf(p, f, b, S)[R]
  <2> HIDE DEF R
  <2> QED BY <1>2, <1>3, FoldsUnique
<1>5. FoldsOf(p, f, b, S)[S] = Op(p, f[Choose(S)], FoldsOf(p, f, b, S)[R])
  BY <1>3 DEF Folds
<1> QED
  BY <1>1, <1>4, <1>5 DEF Fold

\* An invariant of the fold that may depend on the elements already taken:
\* W[s] holds what the fold over s can be.
LEMMA FoldInduction ==
    ASSUME NEW S, IsFiniteSet(S), Chooses(S), NEW p, NEW f, NEW W, NEW b \in W[{}],
           \A s \in SUBSET S :
              s # {} => \A v \in W[s \ {Choose(s)}] : Op(p, f[Choose(s)], v) \in W[s]
    PROVE  Fold(p, f, b, S) \in W[S]
<1> DEFINE Bad == {s \in SUBSET S : Fold(p, f, b, s) \notin W[s]}
<1>1. SUFFICES ASSUME Bad # {} PROVE FALSE
  OBVIOUS
<1>2. PICK s \in Bad : \A t \in Bad : t \subseteq s => t = s
  <2>1. Bad \in SUBSET (SUBSET S)
    OBVIOUS
  <2> HIDE DEF Bad
  <2> QED BY <1>1, <2>1, SmallestSubset
<1>3. s # {}
  BY <1>2, FoldEmpty
<1>4. s \subseteq S /\ IsFiniteSet(s) /\ Chooses(s)
  BY <1>2, FS_Subset DEF Chooses
<1> DEFINE r == s \ {Choose(s)}
<1>5. Choose(s) \in s /\ Fold(p, f, b, s) = Op(p, f[Choose(s)], Fold(p, f, b, r))
  BY <1>3, <1>4, FoldStep
<1>6. Fold(p, f, b, r) \in W[r]
  BY <1>2, <1>4, <1>5
<1>7. Op(p, f[Choose(s)], Fold(p, f, b, r)) \in W[s]
  BY <1>3, <1>4, <1>6
<1> QED
  BY <1>2, <1>5, <1>7

\* A set that holds the base and that no step leaves holds the fold.
LEMMA FoldStays ==
    ASSUME NEW S, IsFiniteSet(S), Chooses(S), NEW p, NEW f, NEW V, NEW b \in V,
           \A x \in S, v \in V : Op(p, f[x], v) \in V
    PROVE  Fold(p, f, b, S) \in V
<1> DEFINE W == [s \in SUBSET S |-> V]
<1>1. b \in W[{}] /\ W[S] = V
  OBVIOUS
<1>2. \A s \in SUBSET S : s # {} => \A v \in W[s \ {Choose(s)}] : Op(p, f[Choose(s)], v) \in W[s]
  BY DEF Chooses
<1> HIDE DEF W
<1> QED
  BY <1>1, <1>2, FoldInduction

\* A non-empty finite set of integers has a largest element, which is what
\* the folds over sequences choose.
LEMMA LargestElement ==
    ASSUME NEW S, IsFiniteSet(S), S # {}, \A x \in S : x \in Int
    PROVE  \E x \in S : \A y \in S : x >= y
<1> DEFINE Bad == {s \in SUBSET S : s # {} /\ ~\E x \in s : \A y \in s : x >= y}
<1>1. SUFFICES ASSUME Bad # {} PROVE FALSE
  OBVIOUS
<1>2. PICK s \in Bad : \A t \in Bad : t \subseteq s => t = s
  <2>1. Bad \in SUBSET (SUBSET S)
    OBVIOUS
  <2> HIDE DEF Bad
  <2> QED BY <1>1, <2>1, SmallestSubset
<1>3. PICK e \in s : TRUE
  BY <1>2
<1>4. CASE s = {e}
  BY <1>2, <1>4
<1>5. CASE s # {e}
  <2>1. s \ {e} \in SUBSET S /\ s \ {e} # {} /\ s \ {e} # s
    BY <1>2, <1>3, <1>5
  <2>2. PICK x \in s \ {e} : \A y \in s \ {e} : x >= y
    BY <1>2, <2>1
  <2>3. x \in Int /\ e \in Int /\ \A y \in s : y \in Int
    BY <1>2, <1>3, <2>2
  <2>4. CASE x >= e
    BY <1>2, <2>2, <2>4
  <2>5. CASE ~(x >= e)
    BY <1>2, <1>3, <2>2, <2>3, <2>5
  <2> QED BY <2>4, <2>5
<1> QED
  BY <1>4, <1>5

==============================================================================
