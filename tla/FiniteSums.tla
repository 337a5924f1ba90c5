----------------------------- MODULE FiniteSums -----------------------------
(***************************************************************************)
(* What sums over sets obey, for every finite set and every weights: the   *)
(* totals of credit notes (CreditRules) and of invoices (AccountContext).  *)
(*                                                                         *)
(* A sum folds a choice over a set.  What it computes is shown by the      *)
(* least counterexample: among finite sets ordered by strict inclusion     *)
(* there is a smallest one that breaks a law, and it cannot break it       *)
(* because its subsets do not.                                             *)
(***************************************************************************)
EXTENDS Integers, FiniteSetsExt, FiniteSetTheorems, WellFoundedInduction, TLAPS

-----------------------------------------------------------------------------
(* The least counterexample.                                               *)

\* A set of finite sets that is not empty has a member none of whose strict
\* subsets is in it.
LEMMA SmallestSet ==
  ASSUME NEW S, IsFiniteSet(S), NEW Bad \in SUBSET SUBSET S, Bad # {}
  PROVE  \E T \in Bad : \A U \in Bad : U \subseteq T => U = T
<1>1. FiniteSubsetsOf(S) = SUBSET S
  BY FS_FiniteSubsetsOfFinite
<1>2. IsWellFoundedOn(StrictSubsetOrdering(S), SUBSET S)
  BY <1>1, FS_StrictSubsetOrderingWellFounded
<1> DEFINE R == StrictSubsetOrdering(S)
<1>3. \E T \in Bad : \A U \in Bad : ~ (<<U, T>> \in R)
  <2>1. Bad \subseteq SUBSET S
    OBVIOUS
  <2> HIDE DEF R
  <2>2. IsWellFoundedOn(R, SUBSET S)
    BY <1>2 DEF R
  <2> QED BY <2>1, <2>2, WFMin
<1>4. \A T, U \in Bad : U \subseteq T /\ U # T => <<U, T>> \in R
  BY DEF StrictSubsetOrdering
<1> QED BY <1>3, <1>4

-----------------------------------------------------------------------------
(* A sum takes out one member after another.                               *)

SomeOf(s) == CHOOSE x \in s : TRUE

IsSum(f, w, S) ==
  f = [s \in SUBSET S |-> IF s = {} THEN 0 ELSE w[SomeOf(s)] + f[s \ {SomeOf(s)}]]

Sums(w, S) == CHOOSE f : IsSum(f, w, S)

\* The sum of the weights w of the members of S: what MapThenSumSet computes,
\* unfolded.
SumOf(w, S) == Sums(w, S)[S]

\* Two such sums agree wherever both are defined.
LEMMA SumsAgree ==
  ASSUME NEW w, NEW S, IsFiniteSet(S), NEW T \in SUBSET S,
         NEW f, NEW g, IsSum(f, w, S), IsSum(g, w, T)
  PROVE  f[T] = g[T]
<1> DEFINE Bad == {s \in SUBSET T : f[s] # g[s]}
<1>1. SUFFICES ASSUME Bad # {} PROVE FALSE
  BY <1>1
<1>2. PICK s \in Bad : \A u \in Bad : u \subseteq s => u = s
  <2>1. IsFiniteSet(T) /\ Bad \in SUBSET SUBSET T
    BY FS_Subset
  <2> HIDE DEF Bad
  <2> QED BY <1>1, <2>1, SmallestSet
<1>3. s \in SUBSET T /\ s \in SUBSET S /\ f[s] # g[s]
  BY <1>2
<1>4. /\ f[s] = IF s = {} THEN 0 ELSE w[SomeOf(s)] + f[s \ {SomeOf(s)}]
      /\ g[s] = IF s = {} THEN 0 ELSE w[SomeOf(s)] + g[s \ {SomeOf(s)}]
  BY <1>3 DEF IsSum
<1>5. s # {}
  BY <1>3, <1>4
<1>6. SomeOf(s) \in s
  BY <1>5 DEF SomeOf
<1>7. s \ {SomeOf(s)} \in SUBSET T /\ s \ {SomeOf(s)} # s
  BY <1>3, <1>6
<1>8. s \ {SomeOf(s)} \notin Bad
  BY <1>2, <1>7
<1>9. f[s \ {SomeOf(s)}] = g[s \ {SomeOf(s)}]
  BY <1>7, <1>8
<1> QED BY <1>3, <1>4, <1>9

\* Every finite set has such a sum.
LEMMA SumsExist ==
  ASSUME NEW w, NEW S, IsFiniteSet(S)
  PROVE  IsSum(Sums(w, S), w, S)
<1> DEFINE Bad == {s \in SUBSET S : ~ \E f : IsSum(f, w, s)}
<1>1. Bad = {}
  <2>1. SUFFICES ASSUME Bad # {} PROVE FALSE
    OBVIOUS
  <2>2. PICK s \in Bad : \A u \in Bad : u \subseteq s => u = s
    <3>1. Bad \in SUBSET SUBSET S
      OBVIOUS
    <3> HIDE DEF Bad
    <3> QED BY <2>1, <3>1, SmallestSet
  <2>3. ASSUME NEW u \in SUBSET s, u # s PROVE IsSum(Sums(w, u), w, u) /\ IsFiniteSet(u)
    <3>1. u \notin Bad /\ u \in SUBSET S
      BY <2>2, <2>3
    <3>2. \E f : IsSum(f, w, u)
      BY <3>1
    <3>3. IsFiniteSet(u)
      BY <3>1, FS_Subset
    <3> QED BY <3>2, <3>3 DEF Sums
  <2> DEFINE h == [u \in SUBSET s |->
                     IF u = {} THEN 0
                     ELSE w[SomeOf(u)] + Sums(w, u \ {SomeOf(u)})[u \ {SomeOf(u)}]]
  <2>4. ASSUME NEW u \in SUBSET s, u # {}
        PROVE  h[u \ {SomeOf(u)}] = Sums(w, u \ {SomeOf(u)})[u \ {SomeOf(u)}]
    <3> DEFINE v == u \ {SomeOf(u)}
    <3>1. SomeOf(u) \in u
      BY <2>4 DEF SomeOf
    <3>2. v \in SUBSET s /\ v # s
      BY <3>1
    <3>3. IsSum(Sums(w, v), w, v) /\ IsFiniteSet(v)
      BY <2>3, <3>2
    <3>4. Sums(w, v)[v] = IF v = {} THEN 0 ELSE w[SomeOf(v)] + Sums(w, v)[v \ {SomeOf(v)}]
      <4> HIDE DEF v
      <4> QED BY <3>3 DEF IsSum
    <3>5. CASE v = {}
      BY <3>2, <3>4, <3>5
    <3>6. CASE v # {}
      <4> DEFINE rest == v \ {SomeOf(v)}
      <4>1. SomeOf(v) \in v
        BY <3>6 DEF SomeOf
      <4>2. rest \in SUBSET v /\ rest \in SUBSET s /\ rest # s
        BY <3>2, <4>1
      <4>3. IsSum(Sums(w, rest), w, rest)
        BY <2>3, <4>2
      <4>4. Sums(w, v)[rest] = Sums(w, rest)[rest]
        <5> HIDE DEF v, rest
        <5> QED BY <3>3, <4>2, <4>3, SumsAgree
      <4>5. h[v] = w[SomeOf(v)] + Sums(w, rest)[rest]
        <5> HIDE DEF v
        <5> QED BY <3>2, <3>6
      <4> HIDE DEF v, rest, h
      <4>6. h[v] = Sums(w, v)[v]
        BY <3>4, <3>6, <4>4, <4>5 DEF rest
      <4> QED BY <4>6 DEF v
    <3>7. v = {} \/ v # {}
      OBVIOUS
    <3> HIDE DEF h, v
    <3>8. h[v] = Sums(w, v)[v]
      BY <3>5, <3>6, <3>7 DEF v
    <3> QED BY <3>8 DEF v
  <2>5. IsSum(h, w, s)
    <3>1. \A u \in SUBSET s :
            h[u] = IF u = {} THEN 0 ELSE w[SomeOf(u)] + h[u \ {SomeOf(u)}]
      BY <2>4
    <3>2. h = [u \in SUBSET s |-> h[u]]
      OBVIOUS
    <3> HIDE DEF h
    <3> QED BY <3>1, <3>2 DEF IsSum
  <2> HIDE DEF h
  <2> QED BY <2>2, <2>5
<1>2. \E f : IsSum(f, w, S)
  BY <1>1
<1> QED BY <1>2 DEF Sums

-----------------------------------------------------------------------------
(* The laws of sums.                                                       *)

\* The sum of nothing is 0.
LEMMA SumOfNone ==
  ASSUME NEW w
  PROVE  SumOf(w, {}) = 0
<1>1. IsSum(Sums(w, {}), w, {})
  BY SumsExist, FS_EmptySet
<1>2. Sums(w, {})[{}] = 0
  BY <1>1 DEF IsSum
<1> QED BY <1>2 DEF SumOf

\* Some member is taken out first.
LEMMA SumUnfolds ==
  ASSUME NEW w, NEW S, IsFiniteSet(S), S # {}
  PROVE  /\ SomeOf(S) \in S
         /\ SumOf(w, S) = w[SomeOf(S)] + SumOf(w, S \ {SomeOf(S)})
<1> DEFINE T == S \ {SomeOf(S)}
<1>1. SomeOf(S) \in S
  BY DEF SomeOf
<1>2. IsFiniteSet(T) /\ T \in SUBSET S
  BY FS_Subset
<1>3. IsSum(Sums(w, S), w, S) /\ IsSum(Sums(w, T), w, T)
  BY <1>2, SumsExist
<1>4. Sums(w, S)[S] = w[SomeOf(S)] + Sums(w, S)[T]
  BY <1>3 DEF IsSum
<1>5. Sums(w, S)[T] = Sums(w, T)[T]
  <2> HIDE DEF T
  <2> QED BY <1>2, <1>3, SumsAgree
<1>6. SumOf(w, S) = Sums(w, S)[S] /\ SumOf(w, T) = Sums(w, T)[T]
  BY DEF SumOf
<1> HIDE DEF T
<1> QED BY <1>1, <1>4, <1>5, <1>6 DEF T

\* Sets whose members have a weight.
Weighted(w, S) == \A x \in S : w[x] \in Nat

\* Their sum is a natural number.
LEMMA SumIsNat ==
  ASSUME NEW w, NEW S, IsFiniteSet(S), Weighted(w, S)
  PROVE  SumOf(w, S) \in Nat
<1> DEFINE Bad == {s \in SUBSET S : SumOf(w, s) \notin Nat}
<1>1. Bad = {}
  <2>1. SUFFICES ASSUME Bad # {} PROVE FALSE
    OBVIOUS
  <2>2. PICK s \in Bad : \A u \in Bad : u \subseteq s => u = s
    <3>1. Bad \in SUBSET SUBSET S
      OBVIOUS
    <3> HIDE DEF Bad
    <3> QED BY <2>1, <3>1, SmallestSet
  <2>3. s \in SUBSET S /\ SumOf(w, s) \notin Nat /\ IsFiniteSet(s)
    BY <2>2, FS_Subset
  <2>4. s # {}
    BY <2>3, SumOfNone
  <2>5. /\ SomeOf(s) \in s
        /\ SumOf(w, s) = w[SomeOf(s)] + SumOf(w, s \ {SomeOf(s)})
    BY <2>3, <2>4, SumUnfolds
  <2>6. w[SomeOf(s)] \in Nat
    BY <2>3, <2>5 DEF Weighted
  <2>7. SumOf(w, s \ {SomeOf(s)}) \in Nat
    BY <2>2, <2>3, <2>5
  <2> QED BY <2>3, <2>5, <2>6, <2>7
<1> QED BY <1>1

\* Any member may be taken out first.
AnyOrder(w, S) == \A x \in S : SumOf(w, S) = w[x] + SumOf(w, S \ {x})

\* The sum of a set is what any one member weighs and the sum of the others.
LEMMA SumWithout ==
  ASSUME NEW w, NEW S, IsFiniteSet(S), Weighted(w, S)
  PROVE  AnyOrder(w, S)
<1> DEFINE Bad == {s \in SUBSET S : ~AnyOrder(w, s)}
<1>1. Bad = {}
  <2>1. SUFFICES ASSUME Bad # {} PROVE FALSE
    OBVIOUS
  <2>2. PICK s \in Bad : \A u \in Bad : u \subseteq s => u = s
    <3>1. Bad \in SUBSET SUBSET S
      OBVIOUS
    <3> HIDE DEF Bad
    <3> QED BY <2>1, <3>1, SmallestSet
  <2>3. \A z \in SUBSET S : IsFiniteSet(z) /\ Weighted(w, z) /\ SumOf(w, z) \in Nat
    BY FS_Subset, SumIsNat DEF Weighted
  <2>4. PICK x \in s : SumOf(w, s) # w[x] + SumOf(w, s \ {x})
    BY <2>2 DEF AnyOrder
  <2> DEFINE y == SomeOf(s)
  <2>5. y \in s /\ SumOf(w, s) = w[y] + SumOf(w, s \ {y})
    BY <2>2, <2>3, <2>4, SumUnfolds
  <2> HIDE DEF y
  <2>6. y # x
    BY <2>4, <2>5
  <2>7. AnyOrder(w, s \ {y}) /\ AnyOrder(w, s \ {x})
    <3>1. /\ s \ {y} \in SUBSET S /\ s \ {y} # s
          /\ s \ {x} \in SUBSET S /\ s \ {x} # s
      BY <2>2, <2>4, <2>5
    <3> QED BY <2>2, <3>1
  <2>8. /\ SumOf(w, s \ {y}) = w[x] + SumOf(w, (s \ {y}) \ {x})
        /\ SumOf(w, s \ {x}) = w[y] + SumOf(w, (s \ {x}) \ {y})
    BY <2>4, <2>5, <2>6, <2>7 DEF AnyOrder
  <2> DEFINE rest == SumOf(w, (s \ {x}) \ {y})
  <2>9. SumOf(w, (s \ {y}) \ {x}) = rest
    <3>1. (s \ {y}) \ {x} = (s \ {x}) \ {y}
      OBVIOUS
    <3> QED BY <3>1
  <2>10. w[x] \in Nat /\ w[y] \in Nat /\ rest \in Nat
    BY <2>2, <2>3, <2>4, <2>5 DEF Weighted
  <2> HIDE DEF rest
  <2>11. SumOf(w, s) = w[y] + (w[x] + rest)
    BY <2>5, <2>8, <2>9
  <2>12. SumOf(w, s \ {x}) = w[y] + rest
    BY <2>8 DEF rest
  <2>13. w[x] + SumOf(w, s \ {x}) = SumOf(w, s)
    BY <2>10, <2>11, <2>12
  <2> QED BY <2>4, <2>13
<1> QED BY <1>1

\* A member added adds its weight.
LEMMA SumWith ==
  ASSUME NEW w, NEW S, IsFiniteSet(S), Weighted(w, S), NEW x, x \notin S, w[x] \in Nat
  PROVE  SumOf(w, S \cup {x}) = SumOf(w, S) + w[x]
<1>1. IsFiniteSet(S \cup {x}) /\ Weighted(w, S \cup {x})
  BY FS_AddElement DEF Weighted
<1>2. SumOf(w, S \cup {x}) = w[x] + SumOf(w, (S \cup {x}) \ {x})
  BY <1>1, SumWithout DEF AnyOrder
<1>3. (S \cup {x}) \ {x} = S
  OBVIOUS
<1>4. SumOf(w, S) \in Nat
  BY SumIsNat
<1>5. SumOf(w, S \cup {x}) = w[x] + SumOf(w, S)
  BY <1>2, <1>3
<1> QED BY <1>4, <1>5

\* Fewer members never sum to more.
LEMMA SumIsMonotone ==
  ASSUME NEW w, NEW S, IsFiniteSet(S), Weighted(w, S), NEW T \in SUBSET S
  PROVE  SumOf(w, T) <= SumOf(w, S)
<1> DEFINE Bad == {s \in SUBSET S : T \subseteq s /\ ~ (SumOf(w, T) <= SumOf(w, s))}
<1>1. Bad = {}
  <2>1. SUFFICES ASSUME Bad # {} PROVE FALSE
    OBVIOUS
  <2>2. PICK s \in Bad : \A u \in Bad : u \subseteq s => u = s
    <3>1. Bad \in SUBSET SUBSET S
      OBVIOUS
    <3> HIDE DEF Bad
    <3> QED BY <2>1, <3>1, SmallestSet
  <2>3. \A z \in SUBSET S : IsFiniteSet(z) /\ Weighted(w, z) /\ SumOf(w, z) \in Nat
    BY FS_Subset, SumIsNat DEF Weighted
  <2>4. s # T
    BY <2>2, <2>3
  <2>5. PICK x \in s : x \notin T
    BY <2>2, <2>4
  <2>6. SumOf(w, s) = w[x] + SumOf(w, s \ {x})
    <3>1. AnyOrder(w, s)
      BY <2>2, <2>3, SumWithout
    <3> QED BY <2>5, <3>1 DEF AnyOrder
  <2>7. SumOf(w, T) <= SumOf(w, s \ {x})
    <3>1. s \ {x} \in SUBSET S /\ s \ {x} # s /\ T \subseteq s \ {x}
      BY <2>2, <2>5
    <3> QED BY <2>2, <3>1
  <2>8. w[x] \in Nat /\ SumOf(w, s \ {x}) \in Nat /\ SumOf(w, T) \in Nat /\ SumOf(w, s) \in Nat
    BY <2>2, <2>3, <2>5 DEF Weighted
  <2> QED BY <2>2, <2>6, <2>7, <2>8
<1> QED BY <1>1

\* Weights of at most m each sum to at most m times their number.
LEMMA SumIsBounded ==
  ASSUME NEW w, NEW S, IsFiniteSet(S), NEW m \in Nat, \A x \in S : w[x] \in 0..m
  PROVE  SumOf(w, S) <= Cardinality(S) * m
<1> DEFINE Bad == {s \in SUBSET S : ~ (SumOf(w, s) <= Cardinality(s) * m)}
<1>1. Bad = {}
  <2>1. SUFFICES ASSUME Bad # {} PROVE FALSE
    OBVIOUS
  <2>2. PICK s \in Bad : \A u \in Bad : u \subseteq s => u = s
    <3>1. Bad \in SUBSET SUBSET S
      OBVIOUS
    <3> HIDE DEF Bad
    <3> QED BY <2>1, <3>1, SmallestSet
  <2>3. \A z \in SUBSET S :
          IsFiniteSet(z) /\ Weighted(w, z) /\ SumOf(w, z) \in Nat /\ Cardinality(z) \in Nat
    BY FS_Subset, FS_CardinalityType, SumIsNat DEF Weighted
  <2>4. s # {}
    <3>1. SumOf(w, {}) = 0 /\ Cardinality({}) = 0 /\ 0 * m = 0
      BY SumOfNone, FS_EmptySet
    <3>2. SumOf(w, {}) <= Cardinality({}) * m
      BY <3>1
    <3> QED BY <2>2, <3>2
  <2>5. PICK x \in s : TRUE
    BY <2>4
  <2>6. SumOf(w, s) = w[x] + SumOf(w, s \ {x})
    <3>1. AnyOrder(w, s)
      BY <2>2, <2>3, SumWithout
    <3> QED BY <2>5, <3>1 DEF AnyOrder
  <2>7. s \ {x} \in SUBSET S /\ s \ {x} # s
    BY <2>2, <2>5
  <2>8. SumOf(w, s \ {x}) <= Cardinality(s \ {x}) * m
    BY <2>2, <2>7
  <2>9. Cardinality(s) = Cardinality(s \ {x}) + 1 /\ Cardinality(s \ {x}) \in Nat
    BY <2>2, <2>3, <2>5, <2>7, FS_RemoveElement
  <2>10. \A n \in Nat : (n + 1) * m = n * m + m
    OBVIOUS
  <2>11. w[x] \in 0..m /\ SumOf(w, s \ {x}) \in Nat
    BY <2>2, <2>3, <2>5, <2>7
  <2>12. Cardinality(s) * m = Cardinality(s \ {x}) * m + m
    BY <2>9, <2>10
  <2>13. Cardinality(s \ {x}) * m \in Nat
    BY <2>9
  <2>14. SumOf(w, s) <= Cardinality(s) * m
    BY <2>6, <2>8, <2>11, <2>12, <2>13
  <2> QED BY <2>2, <2>14
<1> QED BY <1>1
=============================================================================
