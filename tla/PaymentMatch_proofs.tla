------------------------- MODULE PaymentMatch_proofs -------------------------
(***************************************************************************)
(* What the edit distance computes, for every key and everything written:  *)
(* a string is no further from the key than the policy allows exactly when *)
(* so many edits make it of the key.                                       *)
(*                                                                         *)
(* The distance is an entry of a table, and each row of it is computed     *)
(* from the row before.  Neighbouring entries differ by one at most, so    *)
(* the tables of two strings that are one edit apart differ by one at most *)
(* at the end, and a string within so many edits is no further.  The other *)
(* way round, every entry of the table counts the edits that make a string *)
(* which begins as what is written and ends as the key.                    *)
(***************************************************************************)
EXTENDS PaymentMatch, FiniteSetTheorems, SequenceTheorems, WellFoundedInduction, TLAPS

-----------------------------------------------------------------------------
(* Recursion over numbers.                                                 *)

\* A set with 0 in it, and with every number the next one, has all numbers in it.
LEMMA AllNumbers ==
  ASSUME NEW S, 0 \in S, \A n \in Nat : n \in S => n + 1 \in S
  PROVE  \A n \in Nat : n \in S
<1> DEFINE Bad == {n \in Nat : n \notin S}
           R == OpToRel(<, Nat)
<1>1. SUFFICES ASSUME Bad # {} PROVE FALSE
  BY <1>1
<1>2. PICK n \in Bad : \A m \in Bad : ~ (<<m, n>> \in R)
  <2>1. Bad \subseteq Nat
    OBVIOUS
  <2>2. IsWellFoundedOn(R, Nat)
    BY NatLessThanWellFounded
  <2> HIDE DEF R, Bad
  <2> QED BY <1>1, <2>1, <2>2, WFMin
<1>3. \A m \in Bad : ~(m < n)
  BY <1>2 DEF OpToRel
<1> HIDE DEF R
<1>4. n # 0 /\ n - 1 \in Nat /\ n - 1 < n
  BY <1>2
<1>5. n - 1 \in S
  BY <1>3, <1>4
<1>6. (n - 1) + 1 \in S /\ (n - 1) + 1 = n
  BY <1>4, <1>5
<1> QED BY <1>2, <1>6

\* f is computed step by step from b, and so is whatever takes these steps from
\* values in V.
Steps(f, b, F, n) == f[0] = b /\ \A i \in 1..n : f[i] = F[<<f[i - 1], i>>]

TakesTheSteps(h, b, F, n, V) ==
  h[0] = b /\ \A i \in 1..n : h[i - 1] \in V => h[i] = F[<<h[i - 1], i>>]

IsDefined(b, F, n, V) ==
  \E f \in [0..n -> V] :
    /\ Steps(f, b, F, n)
    /\ \A h : TakesTheSteps(h, b, F, n, V) => \A i \in 0..n : h[i] = f[i]

\* A value that is computed from the one before, step by step, is defined, and
\* by nothing but its steps.
LEMMA RecursionIsDefined ==
  ASSUME NEW n \in Nat, NEW V, NEW b \in V, NEW F \in [V \X (1..n) -> V]
  PROVE  IsDefined(b, F, n, V)
<1> DEFINE Defined == {m \in Nat : m <= n => \E f \in [0..m -> V] : Steps(f, b, F, m)}
<1>1. 0 \in Defined
  <2>1. [i \in 0..0 |-> b] \in [0..0 -> V] /\ Steps([i \in 0..0 |-> b], b, F, 0)
    BY DEF Steps
  <2> QED BY <2>1
<1>2. ASSUME NEW m \in Nat, m \in Defined PROVE m + 1 \in Defined
  <2> SUFFICES ASSUME m + 1 <= n PROVE \E f \in [0..(m + 1) -> V] : Steps(f, b, F, m + 1)
    BY DEF Defined
  <2>1. PICK f \in [0..m -> V] : Steps(f, b, F, m)
    BY <1>2
  <2> DEFINE g == [i \in 0..(m + 1) |-> IF i <= m THEN f[i] ELSE F[<<f[m], m + 1>>]]
  <2>2. F[<<f[m], m + 1>>] \in V
    OBVIOUS
  <2>3. g \in [0..(m + 1) -> V]
    BY <2>2
  <2>4. Steps(g, b, F, m + 1)
    <3>1. g[0] = b
      BY <2>1 DEF Steps
    <3>2. ASSUME NEW i \in 1..(m + 1) PROVE g[i] = F[<<g[i - 1], i>>]
      <4>1. CASE i <= m
        BY <2>1, <4>1 DEF Steps
      <4>2. CASE i = m + 1
        BY <4>2
      <4> QED BY <4>1, <4>2
    <3> HIDE DEF g
    <3> QED BY <3>1, <3>2 DEF Steps
  <2> HIDE DEF g
  <2> QED BY <2>3, <2>4
<1>3. n \in Defined
  <2> HIDE DEF Defined
  <2> QED BY <1>1, <1>2, AllNumbers
<1>4. PICK f \in [0..n -> V] : Steps(f, b, F, n)
  BY <1>3
<1>5. ASSUME NEW h, TakesTheSteps(h, b, F, n, V)
      PROVE  \A i \in 0..n : h[i] = f[i]
  <2> DEFINE Same == {m \in Nat : m <= n => h[m] = f[m]}
  <2>1. 0 \in Same
    BY <1>4, <1>5 DEF Steps, TakesTheSteps
  <2>2. ASSUME NEW m \in Nat, m \in Same PROVE m + 1 \in Same
    <3> SUFFICES ASSUME m + 1 <= n PROVE h[m + 1] = f[m + 1]
      OBVIOUS
    <3>1. h[m] = f[m] /\ f[m] \in V /\ m + 1 \in 1..n /\ (m + 1) - 1 = m
      BY <2>2
    <3> QED BY <1>4, <1>5, <3>1 DEF Steps, TakesTheSteps
  <2>3. \A m \in Nat : m \in Same
    <3> HIDE DEF Same
    <3> QED BY <2>1, <2>2, AllNumbers
  <2> QED BY <2>3
<1> QED BY <1>4, <1>5 DEF IsDefined

-----------------------------------------------------------------------------
(* The table of distances.                                                 *)

IsRow(row, key) == row \in [0..Len(key) -> Nat]

Cost(a, b) == IF a = b THEN 0 ELSE 1

\* One row follows from the one before.
Follows(previous, character, key, row) ==
  /\ row[0] = previous[0] + 1
  /\ \A j \in 1..Len(key) :
       /\ row[j] <= previous[j] + 1
       /\ row[j] <= row[j - 1] + 1
       /\ row[j] <= previous[j - 1] + Cost(character, key[j])
       /\ row[j] \in {previous[j] + 1, row[j - 1] + 1, previous[j - 1] + Cost(character, key[j])}

\* The least of three numbers is one of them and above none of them (the min of
\* edit_distance).
LEMMA LeastOfThree ==
  ASSUME NEW a \in Nat, NEW b \in Nat, NEW c \in Nat
  PROVE  /\ Min({a, b, c}) \in {a, b, c}
         /\ Min({a, b, c}) <= a /\ Min({a, b, c}) <= b /\ Min({a, b, c}) <= c
<1>1. \E x \in {a, b, c} : \A y \in {a, b, c} : x <= y
  <2>1. CASE a <= b /\ a <= c
    BY <2>1
  <2>2. CASE b <= a /\ b <= c
    BY <2>2
  <2>3. CASE c <= a /\ c <= b
    BY <2>3
  <2> QED BY <2>1, <2>2, <2>3
<1> QED BY <1>1 DEF Min

\* The row that is computed is a row, and follows from the one before.
LEMMA NextRowFollows ==
  ASSUME NEW key, Len(key) \in Nat, NEW previous, IsRow(previous, key), NEW character
  PROVE  /\ IsRow(NextRow(previous, character, key), key)
         /\ Follows(previous, character, key, NextRow(previous, character, key))
<1> DEFINE n == Len(key)
           Cell(left, j) ==
             Min({previous[j] + 1, left + 1,
                  previous[j - 1] + IF character = key[j] THEN 0 ELSE 1})
           IsFilled(f) ==
             f = [j \in 0..n |-> IF j = 0 THEN previous[0] + 1 ELSE Cell(f[j - 1], j)]
           F == [x \in Nat \X (1..n) |-> Cell(x[1], x[2])]
<1>1. ASSUME NEW left \in Nat, NEW j \in 1..n
      PROVE  /\ Cell(left, j) \in Nat
             /\ Cell(left, j) <= previous[j] + 1 /\ Cell(left, j) <= left + 1
             /\ Cell(left, j) <= previous[j - 1] + Cost(character, key[j])
             /\ Cell(left, j) \in {previous[j] + 1, left + 1,
                                   previous[j - 1] + Cost(character, key[j])}
  <2>1. previous[j] \in Nat /\ previous[j - 1] \in Nat
    BY DEF IsRow
  <2>2. Cost(character, key[j]) \in Nat
    BY DEF Cost
  <2>3. Cell(left, j) = Min({previous[j] + 1, left + 1, previous[j - 1] + Cost(character, key[j])})
    BY DEF Cost
  <2> DEFINE x == previous[j] + 1
             y == left + 1
             z == previous[j - 1] + Cost(character, key[j])
  <2>4. x \in Nat /\ y \in Nat /\ z \in Nat
    BY <2>1, <2>2
  <2>5. Cell(left, j) = Min({x, y, z})
    BY <2>3
  <2> HIDE DEF Cell, x, y, z
  <2>6. /\ Cell(left, j) \in {x, y, z}
        /\ Cell(left, j) <= x /\ Cell(left, j) <= y /\ Cell(left, j) <= z
    BY <2>4, <2>5, LeastOfThree
  <2> QED BY <2>4, <2>6 DEF x, y, z
<1> n \in Nat
  OBVIOUS
<1> HIDE DEF Cell, n
<1>2. F \in [Nat \X (1..n) -> Nat]
  BY <1>1
<1>3. previous[0] + 1 \in Nat
  BY DEF IsRow
<1>4. PICK f \in [0..n -> Nat] :
        /\ Steps(f, previous[0] + 1, F, n)
        /\ \A h : TakesTheSteps(h, previous[0] + 1, F, n, Nat) => \A j \in 0..n : h[j] = f[j]
  <2> DEFINE V == Nat
             b == previous[0] + 1
  <2>1. n \in Nat /\ b \in V /\ F \in [V \X (1..n) -> V]
    BY <1>2, <1>3
  <2> HIDE DEF F, V, b
  <2> HIDE DEF IsFilled
  <2>2. IsDefined(b, F, n, V)
    BY <2>1, RecursionIsDefined
  <2> QED BY <2>2 DEF V, b, IsDefined
<1>5. \A x \in Nat, j \in 1..n : F[<<x, j>>] = Cell(x, j)
  OBVIOUS
<1> HIDE DEF F
<1>6. /\ f[0] = previous[0] + 1
      /\ \A j \in 1..n : f[j - 1] \in Nat /\ f[j] = Cell(f[j - 1], j)
  <2>1. \A j \in 1..n : f[j - 1] \in Nat
    OBVIOUS
  <2> QED BY <1>4, <1>5, <2>1 DEF Steps
<1>7. IsFilled(f)
  <2> DEFINE g == [j \in 0..n |-> IF j = 0 THEN previous[0] + 1 ELSE Cell(f[j - 1], j)]
  <2>1. ASSUME NEW j \in 0..n PROVE f[j] = g[j]
    BY <1>6
  <2>2. f = [j \in 0..n |-> f[j]] /\ g = [j \in 0..n |-> g[j]]
    OBVIOUS
  <2>3. f = g
    <3> HIDE DEF g
    <3> QED BY <2>1, <2>2
  <2> QED BY <2>3
<1>8. ASSUME NEW h, IsFilled(h) PROVE h = f
  <2>1. h[0] = previous[0] + 1 /\ \A j \in 1..n : h[j] = Cell(h[j - 1], j)
    BY <1>8
  <2>2. \A j \in 0..n : h[j] = f[j]
    BY <1>4, <1>5, <2>1 DEF TakesTheSteps
  <2>3. h = [j \in 0..n |-> h[j]]
    BY <1>8
  <2> QED BY <2>2, <2>3
<1>9. NextRow(previous, character, key) = CHOOSE h : IsFilled(h)
  BY DEF NextRow, Cell, n
<1>10. NextRow(previous, character, key) = f
  <2> HIDE DEF IsFilled
  <2> QED BY <1>7, <1>8, <1>9
<1>11. Follows(previous, character, key, f)
  BY <1>1, <1>6 DEF Follows, n
<1> QED BY <1>10, <1>11 DEF IsRow, n

\* The rows of the table, one for each beginning of what is written.
IsTable(rows, written, key) ==
  /\ rows \in [0..Len(written) -> [0..Len(key) -> Nat]]
  /\ \A j \in 0..Len(key) : rows[0][j] = j
  /\ \A i \in 1..Len(written) : Follows(rows[i - 1], written[i], key, rows[i])

\* The distance is the last entry of a table whose rows follow one another.
LEMMA DistanceIsInATable ==
  ASSUME NEW written, Len(written) \in Nat, NEW key, Len(key) \in Nat
  PROVE  \E rows : /\ IsTable(rows, written, key)
                   /\ EditDistance(written, key) = rows[Len(written)][Len(key)]
<1> DEFINE m == Len(written)
           V == [0..Len(key) -> Nat]
           first == [j \in 0..Len(key) |-> j]
           next(row, i) == NextRow(row, written[i], key)
           IsFilled(f) == f = [i \in 0..m |-> IF i = 0 THEN first ELSE next(f[i - 1], i)]
           F == [x \in V \X (1..m) |-> next(x[1], x[2])]
<1>1. ASSUME NEW row \in V, NEW i \in 1..m
      PROVE  next(row, i) \in V /\ Follows(row, written[i], key, next(row, i))
  BY NextRowFollows DEF IsRow
<1>2. first \in V
  OBVIOUS
<1>3. F \in [V \X (1..m) -> V]
  <2> HIDE DEF next, V
  <2> QED BY <1>1
<1>4. \A row \in V, i \in 1..m : F[<<row, i>>] = next(row, i)
  <2> HIDE DEF next, V
  <2> QED OBVIOUS
<1>5. \A j \in 0..Len(key) : first[j] = j
  OBVIOUS
<1>6. EditDistance(written, key) = (CHOOSE f : IsFilled(f))[m][Len(key)]
  BY DEF EditDistance
<1> m \in Nat
  OBVIOUS
<1> HIDE DEF F, m, V, first, next
<1>7. PICK f \in [0..m -> V] :
        /\ Steps(f, first, F, m)
        /\ \A h : TakesTheSteps(h, first, F, m, V) => \A i \in 0..m : h[i] = f[i]
  <2> HIDE DEF IsFilled
  <2>1. IsDefined(first, F, m, V)
    BY <1>2, <1>3, RecursionIsDefined
  <2> QED BY <2>1 DEF IsDefined
<1>8. /\ f[0] = first
      /\ \A i \in 1..m : f[i - 1] \in V /\ f[i] = next(f[i - 1], i)
  <2>1. \A i \in 1..m : f[i - 1] \in V
    OBVIOUS
  <2> QED BY <1>4, <1>7, <2>1 DEF Steps
<1>9. IsFilled(f)
  <2> DEFINE g == [i \in 0..m |-> IF i = 0 THEN first ELSE next(f[i - 1], i)]
  <2>1. ASSUME NEW i \in 0..m PROVE f[i] = g[i]
    BY <1>8
  <2>2. f = [i \in 0..m |-> f[i]] /\ g = [i \in 0..m |-> g[i]]
    OBVIOUS
  <2>3. f = g
    <3> HIDE DEF g
    <3> QED BY <2>1, <2>2
  <2> QED BY <2>3
<1>10. ASSUME NEW h, IsFilled(h) PROVE h = f
  <2>1. h[0] = first /\ \A i \in 1..m : h[i] = next(h[i - 1], i)
    BY <1>10
  <2>2. \A i \in 0..m : h[i] = f[i]
    BY <1>4, <1>7, <2>1 DEF TakesTheSteps
  <2>3. h = [i \in 0..m |-> h[i]]
    BY <1>10
  <2> QED BY <2>2, <2>3
<1>11. EditDistance(written, key) = f[m][Len(key)]
  <2> HIDE DEF IsFilled
  <2> QED BY <1>6, <1>9, <1>10
<1>12. IsTable(f, written, key)
  <2>1. \A j \in 0..Len(key) : f[0][j] = j
    BY <1>5, <1>8
  <2>2. \A i \in 1..m : Follows(f[i - 1], written[i], key, f[i])
    BY <1>1, <1>8
  <2> QED BY <2>1, <2>2 DEF IsTable, m, V
<1> QED BY <1>11, <1>12 DEF m

-----------------------------------------------------------------------------
(* Rows that are compared.                                                 *)

\* No entry of this row is more than e above that of the other.
Within(row, other, e, key) == \A j \in 0..Len(key) : row[j] <= other[j] + e

\* Two bounds, one after the other, add up.
LEMMA DifferencesAdd ==
  \A x, y, z, c, d \in Nat : x <= y + c /\ y <= z + d => x <= (z + c) + d
OBVIOUS

\* Rows that follow with the same character stay as close.
LEMMA RowsStayClose ==
  ASSUME NEW key, Len(key) \in Nat, NEW p, NEW q, NEW p2, NEW q2, NEW character, NEW e \in Nat,
         IsRow(p, key), IsRow(q, key), IsRow(p2, key), IsRow(q2, key),
         Follows(p, character, key, q), Follows(p2, character, key, q2), Within(p, p2, e, key)
  PROVE  Within(q, q2, e, key)
<1> DEFINE n == Len(key)
           Close == {j \in Nat : j <= n => q[j] <= q2[j] + e}
<1>1. 0 \in Close
  BY DEF Follows, Within, IsRow
<1>2. ASSUME NEW i \in Nat, i \in Close PROVE i + 1 \in Close
  <2> SUFFICES ASSUME i + 1 <= n PROVE q[i + 1] <= q2[i + 1] + e
    OBVIOUS
  <2> DEFINE j == i + 1
  <2>1. j \in 1..n /\ j \in 0..n /\ i \in 0..n /\ j - 1 = i
    OBVIOUS
  <2>2. /\ q[j] \in Nat /\ q2[j] \in Nat /\ q[i] \in Nat /\ q2[i] \in Nat
        /\ p[j] \in Nat /\ p2[j] \in Nat /\ p[i] \in Nat /\ p2[i] \in Nat
    BY <2>1 DEF IsRow
  <2> DEFINE cost == Cost(character, key[j])
  <2>3. cost \in Nat
    BY DEF Cost
  <2>4. q[j] <= p[j] + 1 /\ q[j] <= q[i] + 1 /\ q[j] <= p[i] + cost
    BY <2>1 DEF Follows
  <2>5. q2[j] = p2[j] + 1 \/ q2[j] = q2[i] + 1 \/ q2[j] = p2[i] + cost
    BY <2>1 DEF Follows
  <2>6. p[j] <= p2[j] + e /\ p[i] <= p2[i] + e /\ q[i] <= q2[i] + e
    BY <1>2, <2>1 DEF Within
  <2> HIDE DEF cost
  <2> HIDE DEF Close, n, j
  <2> SUFFICES q[j] <= q2[j] + e
    BY DEF j
  <2>7. CASE q2[j] = p2[j] + 1
    BY <2>2, <2>4, <2>6, <2>7, DifferencesAdd
  <2>8. CASE q2[j] = q2[i] + 1
    BY <2>2, <2>4, <2>6, <2>8, DifferencesAdd
  <2>9. CASE q2[j] = p2[i] + cost
    BY <2>2, <2>3, <2>4, <2>6, <2>9, DifferencesAdd
  <2> QED BY <2>5, <2>7, <2>8, <2>9
<1>3. \A j \in Nat : j \in Close
  <2> HIDE DEF Close
  <2> QED BY <1>1, <1>2, AllNumbers
<1> QED BY <1>3 DEF Within

\* With different characters they differ by one more.
LEMMA RowsDrift ==
  ASSUME NEW key, Len(key) \in Nat, NEW p, NEW q, NEW p2, NEW q2, NEW a, NEW b,
         IsRow(p, key), IsRow(q, key), IsRow(p2, key), IsRow(q2, key),
         Follows(p, a, key, q), Follows(p2, b, key, q2), Within(p, p2, 0, key)
  PROVE  Within(q, q2, 1, key)
<1> DEFINE n == Len(key)
           Close == {j \in Nat : j <= n => q[j] <= q2[j] + 1}
<1>1. 0 \in Close
  BY DEF Follows, Within, IsRow
<1>2. ASSUME NEW i \in Nat, i \in Close PROVE i + 1 \in Close
  <2> SUFFICES ASSUME i + 1 <= n PROVE q[i + 1] <= q2[i + 1] + 1
    OBVIOUS
  <2> DEFINE j == i + 1
  <2>1. j \in 1..n /\ j \in 0..n /\ i \in 0..n /\ j - 1 = i
    OBVIOUS
  <2>2. /\ q[j] \in Nat /\ q2[j] \in Nat /\ q[i] \in Nat /\ q2[i] \in Nat
        /\ p[j] \in Nat /\ p2[j] \in Nat /\ p[i] \in Nat /\ p2[i] \in Nat
    BY <2>1 DEF IsRow
  <2>3. /\ Cost(a, key[j]) \in Nat /\ Cost(a, key[j]) <= 1
        /\ Cost(b, key[j]) \in Nat
    BY DEF Cost
  <2>4. q[j] <= p[j] + 1 /\ q[j] <= q[i] + 1 /\ q[j] <= p[i] + Cost(a, key[j])
    BY <2>1 DEF Follows
  <2>5. q2[j] = p2[j] + 1 \/ q2[j] = q2[i] + 1 \/ q2[j] = p2[i] + Cost(b, key[j])
    BY <2>1 DEF Follows
  <2>6. p[j] <= p2[j] /\ p[i] <= p2[i] /\ q[i] <= q2[i] + 1
    BY <1>2, <2>1, <2>2 DEF Within
  <2> HIDE DEF Close, n, j
  <2> SUFFICES q[j] <= q2[j] + 1
    BY DEF j
  <2>7. CASE q2[j] = p2[j] + 1
    BY <2>2, <2>4, <2>6, <2>7
  <2>8. CASE q2[j] = q2[i] + 1
    BY <2>2, <2>4, <2>6, <2>8
  <2>9. CASE q2[j] = p2[i] + Cost(b, key[j])
    <3>1. \A v, w, x, y, c, d \in Nat :
            v <= w + c /\ c <= 1 /\ w <= x /\ y = x + d => v <= y + 1
      OBVIOUS
    <3> QED BY <2>2, <2>3, <2>4, <2>6, <2>9, <3>1
  <2> QED BY <2>5, <2>7, <2>8, <2>9
<1>3. \A j \in Nat : j \in Close
  <2> HIDE DEF Close
  <2> QED BY <1>1, <1>2, AllNumbers
<1> QED BY <1>3 DEF Within

\* Entries of a row go up by one at most.
Climbs(row, key) == \A j \in 1..Len(key) : row[j] <= row[j - 1] + 1

\* A row that follows is one more at most, and one less at most.
LEMMA RowsFollowClosely ==
  ASSUME NEW key, Len(key) \in Nat, NEW p, NEW q, NEW character, IsRow(p, key), IsRow(q, key),
         Follows(p, character, key, q), Climbs(p, key)
  PROVE  Within(q, p, 1, key) /\ Within(p, q, 1, key) /\ Climbs(q, key)
<1> DEFINE n == Len(key)
           Close == {j \in Nat : j <= n => p[j] <= q[j] + 1}
<1>1. 0 \in Close
  BY DEF Follows, IsRow
<1>2. ASSUME NEW i \in Nat, i \in Close PROVE i + 1 \in Close
  <2> SUFFICES ASSUME i + 1 <= n PROVE p[i + 1] <= q[i + 1] + 1
    OBVIOUS
  <2> DEFINE j == i + 1
  <2>1. j \in 1..n /\ j \in 0..n /\ i \in 0..n /\ j - 1 = i
    OBVIOUS
  <2>2. q[j] \in Nat /\ q[i] \in Nat /\ p[j] \in Nat /\ p[i] \in Nat
    BY <2>1 DEF IsRow
  <2>3. Cost(character, key[j]) \in {0, 1}
    BY DEF Cost
  <2>4. q[j] = p[j] + 1 \/ q[j] = q[i] + 1 \/ q[j] = p[i] + Cost(character, key[j])
    BY <2>1 DEF Follows
  <2>5. p[j] <= p[i] + 1 /\ p[i] <= q[i] + 1
    BY <1>2, <2>1 DEF Climbs
  <2> QED BY <2>2, <2>3, <2>4, <2>5
<1>3. \A j \in Nat : j \in Close
  <2> HIDE DEF Close
  <2> QED BY <1>1, <1>2, AllNumbers
<1>4. Within(p, q, 1, key)
  BY <1>3 DEF Within
<1>5. Within(q, p, 1, key)
  <2>1. q[0] <= p[0] + 1
    BY DEF Follows, IsRow
  <2>2. \A j \in 1..n : q[j] <= p[j] + 1
    BY DEF Follows
  <2> QED BY <2>1, <2>2 DEF Within
<1>6. Climbs(q, key)
  BY DEF Climbs, Follows
<1> QED BY <1>4, <1>5, <1>6

\* The rows of a table are rows that climb.
LEMMA TableOfRows ==
  ASSUME NEW key, Len(key) \in Nat, NEW written, Len(written) \in Nat, NEW rows,
         IsTable(rows, written, key)
  PROVE  \A i \in 0..Len(written) : IsRow(rows[i], key) /\ Climbs(rows[i], key)
<1> DEFINE m == Len(written)
           Good == {i \in Nat : i <= m => Climbs(rows[i], key)}
<1>1. \A i \in 0..m : IsRow(rows[i], key)
  BY DEF IsTable, IsRow
<1>2. 0 \in Good
  <2>1. \A j \in 1..Len(key) : rows[0][j] = j /\ rows[0][j - 1] = j - 1
    BY DEF IsTable
  <2> QED BY <2>1 DEF Climbs
<1>3. ASSUME NEW i \in Nat, i \in Good PROVE i + 1 \in Good
  <2> SUFFICES ASSUME i + 1 <= m PROVE Climbs(rows[i + 1], key)
    OBVIOUS
  <2>1. Follows(rows[(i + 1) - 1], written[i + 1], key, rows[i + 1]) /\ (i + 1) - 1 = i
    BY DEF IsTable
  <2>2. IsRow(rows[i], key) /\ IsRow(rows[i + 1], key) /\ Climbs(rows[i], key)
    BY <1>1, <1>3
  <2> HIDE DEF Good
  <2> QED BY <2>1, <2>2, RowsFollowClosely
<1>4. \A i \in Nat : i \in Good
  <2> HIDE DEF Good
  <2> QED BY <1>2, <1>3, AllNumbers
<1> QED BY <1>1, <1>4

\* As long as the same is written, two tables stay as close as they are.
LEMMA TablesStayClose ==
  ASSUME NEW key, Len(key) \in Nat, NEW w, Len(w) \in Nat, NEW v, Len(v) \in Nat,
         NEW r, IsTable(r, w, key), NEW t, IsTable(t, v, key),
         NEW a \in Nat, NEW b \in Nat, NEW l \in Nat, NEW e \in Nat,
         a + l <= Len(w), b + l <= Len(v), \A i \in 1..l : w[a + i] = v[b + i],
         Within(r[a], t[b], e, key)
  PROVE  Within(r[a + l], t[b + l], e, key)
<1> DEFINE Close == {i \in Nat : i <= l => Within(r[a + i], t[b + i], e, key)}
<1>1. 0 \in Close
  OBVIOUS
<1>2. ASSUME NEW i \in Nat, i \in Close PROVE i + 1 \in Close
  <2> SUFFICES ASSUME i + 1 <= l PROVE Within(r[a + (i + 1)], t[b + (i + 1)], e, key)
    OBVIOUS
  <2> DEFINE c == a + (i + 1)
             d == b + (i + 1)
  <2>1. /\ c \in 1..Len(w) /\ c \in 0..Len(w) /\ c - 1 \in 0..Len(w) /\ c - 1 = a + i
        /\ d \in 1..Len(v) /\ d \in 0..Len(v) /\ d - 1 \in 0..Len(v) /\ d - 1 = b + i
        /\ w[c] = v[d]
    <3>1. i + 1 \in 1..l
      OBVIOUS
    <3>2. w[c] = v[d]
      BY <3>1
    <3>3. c \in 1..Len(w) /\ c \in 0..Len(w) /\ c - 1 \in 0..Len(w) /\ c - 1 = a + i
      <4> HIDE DEF Close
      <4> QED BY <3>1
    <3>4. d \in 1..Len(v) /\ d \in 0..Len(v) /\ d - 1 \in 0..Len(v) /\ d - 1 = b + i
      <4> HIDE DEF Close
      <4> QED BY <3>1
    <3> QED BY <3>2, <3>3, <3>4
  <2>2. Within(r[c - 1], t[d - 1], e, key)
    BY <1>2, <2>1
  <2> HIDE DEF c, d, Close
  <2>3. /\ Follows(r[c - 1], w[c], key, r[c]) /\ IsRow(r[c - 1], key) /\ IsRow(r[c], key)
        /\ Follows(t[d - 1], w[c], key, t[d]) /\ IsRow(t[d - 1], key) /\ IsRow(t[d], key)
    BY <2>1, TableOfRows DEF IsTable
  <2>4. Within(r[c], t[d], e, key)
    BY <2>2, <2>3, RowsStayClose
  <2> QED BY <2>4 DEF c, d
<1>3. l \in Close
  <2> HIDE DEF Close
  <2> QED BY <1>1, <1>2, AllNumbers
<1> QED BY <1>3

\* One edit: after the first n characters, x of v give way to y of w.
OneEdit(v, w, n, x, y, l) ==
  /\ Len(v) = n + x + l /\ Len(w) = n + y + l
  /\ \A i \in 1..n : w[i] = v[i]
  /\ \A i \in 1..l : w[n + y + i] = v[n + x + i]

\* One edit adds one to the distance at most.
LEMMA OneEditIsOneMore ==
  ASSUME NEW key, Len(key) \in Nat, NEW w, NEW v, NEW n \in Nat, NEW l \in Nat,
         NEW x \in {0, 1}, NEW y \in {0, 1}, OneEdit(v, w, n, x, y, l)
  PROVE  /\ EditDistance(w, key) \in Nat /\ EditDistance(v, key) \in Nat
         /\ EditDistance(w, key) <= EditDistance(v, key) + 1
<1>1. Len(w) = n + y + l /\ Len(v) = n + x + l /\ Len(w) \in Nat /\ Len(v) \in Nat
  BY DEF OneEdit
<1>2. PICK r : IsTable(r, w, key) /\ EditDistance(w, key) = r[Len(w)][Len(key)]
  BY <1>1, DistanceIsInATable
<1>3. PICK t : IsTable(t, v, key) /\ EditDistance(v, key) = t[Len(v)][Len(key)]
  BY <1>1, DistanceIsInATable
<1>4. /\ \A i \in 0..Len(w) : IsRow(r[i], key) /\ Climbs(r[i], key)
      /\ \A i \in 0..Len(v) : IsRow(t[i], key) /\ Climbs(t[i], key)
  BY <1>1, <1>2, <1>3, TableOfRows
<1>5. Within(r[0], t[0], 0, key)
  BY <1>2, <1>3 DEF IsTable, Within
<1>6. Within(r[n], t[n], 0, key)
  <2>1. \A i \in 1..n : w[0 + i] = v[0 + i]
    BY DEF OneEdit
  <2>2. 0 + n <= Len(w) /\ 0 + n <= Len(v)
    BY <1>1
  <2>3. Within(r[0 + n], t[0 + n], 0, key)
    BY <1>1, <1>2, <1>3, <1>5, <2>1, <2>2, TablesStayClose
  <2> QED BY <2>3
<1>7. Within(r[n + y], t[n + x], 1, key)
  <2>1. n \in 0..Len(w) /\ n \in 0..Len(v)
    BY <1>1
  <2>2. \A j \in 0..Len(key) : r[n][j] \in Nat /\ t[n][j] \in Nat /\ r[n][j] <= t[n][j]
    BY <1>4, <1>6, <2>1 DEF Within, IsRow
  <2>3. CASE x = 0 /\ y = 0
    <3>1. Within(r[n], t[n], 1, key)
      BY <2>2 DEF Within
    <3> QED BY <2>3, <3>1
  <2>4. CASE x = 1 /\ y = 0
    <3>1. n + 1 \in 1..Len(v) /\ n + 1 \in 0..Len(v) /\ (n + 1) - 1 = n
      BY <1>1, <2>4
    <3>2. Follows(t[n], v[n + 1], key, t[n + 1])
      BY <1>3, <3>1 DEF IsTable
    <3>3. Within(t[n], t[n + 1], 1, key)
      BY <1>4, <2>1, <3>1, <3>2, RowsFollowClosely
    <3>4. \A j \in 0..Len(key) : t[n + 1][j] \in Nat
      BY <1>4, <3>1 DEF IsRow
    <3>5. Within(r[n], t[n + 1], 1, key)
      <4> SUFFICES ASSUME NEW j \in 0..Len(key) PROVE r[n][j] <= t[n + 1][j] + 1
        BY DEF Within
      <4>1. /\ r[n][j] \in Nat /\ t[n][j] \in Nat /\ t[n + 1][j] \in Nat
            /\ r[n][j] <= t[n][j] /\ t[n][j] <= t[n + 1][j] + 1
        BY <2>2, <3>3, <3>4 DEF Within
      <4> QED BY <4>1
    <3> QED BY <2>4, <3>5
  <2>5. CASE x = 0 /\ y = 1
    <3>1. n + 1 \in 1..Len(w) /\ n + 1 \in 0..Len(w) /\ (n + 1) - 1 = n
      BY <1>1, <2>5
    <3>2. Follows(r[n], w[n + 1], key, r[n + 1])
      BY <1>2, <3>1 DEF IsTable
    <3>3. Within(r[n + 1], r[n], 1, key)
      BY <1>4, <2>1, <3>1, <3>2, RowsFollowClosely
    <3>4. \A j \in 0..Len(key) : r[n + 1][j] \in Nat
      BY <1>4, <3>1 DEF IsRow
    <3>5. Within(r[n + 1], t[n], 1, key)
      <4> SUFFICES ASSUME NEW j \in 0..Len(key) PROVE r[n + 1][j] <= t[n][j] + 1
        BY DEF Within
      <4>1. /\ r[n][j] \in Nat /\ t[n][j] \in Nat /\ r[n + 1][j] \in Nat
            /\ r[n][j] <= t[n][j] /\ r[n + 1][j] <= r[n][j] + 1
        BY <2>2, <3>3, <3>4 DEF Within
      <4>2. \A p, q, s \in Nat : p <= q /\ s <= p + 1 => s <= q + 1
        OBVIOUS
      <4> QED BY ONLY <4>1, <4>2
    <3> QED BY <2>5, <3>5
  <2>6. CASE x = 1 /\ y = 1
    <3>1. /\ n + 1 \in 1..Len(w) /\ n + 1 \in 0..Len(w) /\ (n + 1) - 1 = n
          /\ n + 1 \in 1..Len(v) /\ n + 1 \in 0..Len(v)
      BY <1>1, <2>6
    <3>2. Follows(r[n], w[n + 1], key, r[n + 1]) /\ Follows(t[n], v[n + 1], key, t[n + 1])
      BY <1>2, <1>3, <3>1 DEF IsTable
    <3>3. Within(r[n + 1], t[n + 1], 1, key)
      BY <1>4, <1>6, <2>1, <3>1, <3>2, RowsDrift
    <3> QED BY <2>6, <3>3
  <2> QED BY <2>3, <2>4, <2>5, <2>6
<1>8. Within(r[Len(w)], t[Len(v)], 1, key)
  <2>1. \A i \in 1..l : w[(n + y) + i] = v[(n + x) + i]
    BY DEF OneEdit
  <2> DEFINE a == n + y
             b == n + x
  <2>2. a \in Nat /\ b \in Nat /\ a + l = Len(w) /\ b + l = Len(v)
    BY <1>1
  <2>3. /\ \A i \in 1..l : w[a + i] = v[b + i]
        /\ Within(r[a], t[b], 1, key)
    BY <1>7, <2>1
  <2> HIDE DEF a, b
  <2>4. Within(r[a + l], t[b + l], 1, key)
    <3>1. a + l <= Len(w) /\ b + l <= Len(v)
      BY <1>1, <2>2
    <3> QED BY <1>1, <1>2, <1>3, <2>2, <2>3, <3>1, TablesStayClose
  <2> QED BY <2>2, <2>4
<1>9. r[Len(w)][Len(key)] \in Nat /\ t[Len(v)][Len(key)] \in Nat
  <2>1. Len(w) \in 0..Len(w) /\ Len(v) \in 0..Len(v) /\ Len(key) \in 0..Len(key)
    BY <1>1
  <2>2. IsRow(r[Len(w)], key) /\ IsRow(t[Len(v)], key)
    BY <1>4, <2>1
  <2> QED BY <2>1, <2>2 DEF IsRow
<1> QED BY <1>2, <1>3, <1>8, <1>9 DEF Within

-----------------------------------------------------------------------------
(* Strings an edit away.                                                   *)

StringsOf(C, k) == {s \in Seq(C) : Len(s) = k}

\* What is left of s, and where, when x characters after the first n of it give
\* way to y others and l characters are left.
KeepsTheRest(w, s, n, x, y, l, middle) ==
  /\ \A i \in 1..n : w[i] = s[i]
  /\ \A i \in 1..y : w[n + i] = middle[i]
  /\ \A i \in 1..l : w[n + y + i] = s[n + x + i]

\* w is k characters of s and then l of t.
Joins(w, s, k, t, l) ==
  /\ \A i \in 1..k : w[i] = s[i]
  /\ \A i \in 1..l : w[k + i] = t[i]

\* Two strings one after the other.
LEMMA OneAfterTheOther ==
  ASSUME NEW C, NEW k \in Nat, NEW l \in Nat, NEW s \in StringsOf(C, k), NEW t \in StringsOf(C, l),
         NEW w, w = s \o t
  PROVE  w \in StringsOf(C, k + l) /\ Joins(w, s, k, t, l)
<1>1. s \in Seq(C) /\ t \in Seq(C) /\ Len(s) = k /\ Len(t) = l
  BY DEF StringsOf
<1>2. /\ w \in Seq(C) /\ Len(w) = k + l
      /\ \A i \in 1..(k + l) : w[i] = IF i <= k THEN s[i] ELSE t[i - k]
  BY <1>1, ConcatProperties
<1>3. \A i \in 1..k : i \in 1..(k + l) /\ i <= k
  OBVIOUS
<1>4. \A i \in 1..l : k + i \in 1..(k + l) /\ ~(k + i <= k) /\ (k + i) - k = i
  OBVIOUS
<1>5. \A i \in 1..k : w[i] = s[i]
  BY <1>2, <1>3
<1>6. \A i \in 1..l : w[k + i] = t[i]
  BY <1>2, <1>4
<1> QED BY <1>2, <1>5, <1>6 DEF StringsOf, Joins

\* The characters of a string from one on.
LEMMA ARunOfCharacters ==
  ASSUME NEW C, NEW k \in Nat, NEW s \in StringsOf(C, k), NEW n \in Nat, NEW l \in Nat, n + l <= k
  PROVE  /\ SubSeq(s, n + 1, n + l) \in StringsOf(C, l)
         /\ \A i \in 1..l : SubSeq(s, n + 1, n + l)[i] = s[n + i]
<1>1. s \in Seq(C) /\ Len(s) = k
  BY DEF StringsOf
<1>2. \A i \in (n + 1)..(n + l) : s[i] \in C
  BY <1>1
<1> DEFINE w == SubSeq(s, n + 1, n + l)
<1>3. /\ w \in Seq(C)
      /\ Len(w) = IF n + 1 <= n + l THEN (n + l) - (n + 1) + 1 ELSE 0
      /\ \A i \in 1..((n + l) - (n + 1) + 1) : w[i] = s[(n + 1) + i - 1]
  BY <1>2, SubSeqProperties
<1> HIDE DEF w
<1>4. Len(w) = l
  BY <1>3
<1>5. ASSUME NEW i \in 1..l PROVE w[i] = s[n + i]
  <2>1. i \in 1..((n + l) - (n + 1) + 1) /\ (n + 1) + i - 1 = n + i
    OBVIOUS
  <2> QED BY <1>3, <2>1
<1> QED BY <1>3, <1>4, <1>5 DEF w, StringsOf

\* A splice has the length it should, and is the string everywhere else.
LEMMA SplicingKeepsTheRest ==
  ASSUME NEW C, NEW n \in Nat, NEW x \in Nat, NEW y \in Nat, NEW l \in Nat,
         NEW s \in StringsOf(C, n + x + l), NEW middle \in StringsOf(C, y)
  PROVE  /\ Spliced(s, n, x, middle) \in StringsOf(C, n + y + l)
         /\ KeepsTheRest(Spliced(s, n, x, middle), s, n, x, y, l, middle)
<1> DEFINE first == SubSeq(s, 1, n)
           last == SubSeq(s, n + x + 1, Len(s))
           start == first \o middle
           w == start \o last
           k == n + y
           d == n + x
<1>1. first \in StringsOf(C, n) /\ \A i \in 1..n : first[i] = s[i]
  <2>1. /\ SubSeq(s, 0 + 1, 0 + n) \in StringsOf(C, n)
        /\ \A i \in 1..n : SubSeq(s, 0 + 1, 0 + n)[i] = s[0 + i]
    <3> DEFINE a == n + x + l
               b == 0
    <3>1. a \in Nat /\ b \in Nat /\ b + n <= a
      OBVIOUS
    <3>2. s \in StringsOf(C, a)
      OBVIOUS
    <3> HIDE DEF a, b
    <3>3. /\ SubSeq(s, b + 1, b + n) \in StringsOf(C, n)
          /\ \A i \in 1..n : SubSeq(s, b + 1, b + n)[i] = s[b + i]
      BY <3>1, <3>2, ARunOfCharacters
    <3> QED BY <3>3 DEF b
  <2> QED BY <2>1
<1>2. last \in StringsOf(C, l) /\ \A i \in 1..l : last[i] = s[d + i]
  <2>1. d \in Nat /\ d + l <= d + l /\ Len(s) = d + l /\ s \in StringsOf(C, d + l) /\ d + l \in Nat
    BY DEF StringsOf
  <2>2. last = SubSeq(s, d + 1, d + l)
    BY <2>1
  <2> DEFINE a == d + l
  <2>3. a \in Nat /\ d + l <= a /\ s \in StringsOf(C, a)
    BY <2>1
  <2> HIDE DEF d, last, a
  <2>4. /\ SubSeq(s, d + 1, d + l) \in StringsOf(C, l)
        /\ \A i \in 1..l : SubSeq(s, d + 1, d + l)[i] = s[d + i]
    BY <2>1, <2>3, ARunOfCharacters
  <2> QED BY <2>2, <2>4
<1> HIDE DEF first, last
<1>3. /\ start \in StringsOf(C, k)
      /\ \A i \in 1..n : start[i] = first[i]
      /\ \A i \in 1..y : start[n + i] = middle[i]
  <2>1. start = first \o middle
    OBVIOUS
  <2> HIDE DEF start
  <2>2. start \in StringsOf(C, n + y) /\ Joins(start, first, n, middle, y)
    BY <1>1, <2>1, OneAfterTheOther
  <2> QED BY <2>2 DEF Joins
<1> HIDE DEF start
<1>4. k \in Nat
  OBVIOUS
<1>5. \A i \in 1..n : i \in 1..k
  OBVIOUS
<1>6. \A i \in 1..y : n + i \in 1..k
  OBVIOUS
<1> HIDE DEF k
<1>7. /\ w \in StringsOf(C, k + l)
      /\ \A i \in 1..k : w[i] = start[i]
      /\ \A i \in 1..l : w[k + i] = last[i]
  <2>1. w = start \o last
    OBVIOUS
  <2> HIDE DEF w
  <2>2. w \in StringsOf(C, k + l) /\ Joins(w, start, k, last, l)
    BY <1>2, <1>3, <1>4, <2>1, OneAfterTheOther
  <2> QED BY <2>2 DEF Joins
<1> HIDE DEF w, d
<1>8. /\ \A i \in 1..n : w[i] = s[i]
      /\ \A i \in 1..y : w[n + i] = middle[i]
      /\ \A i \in 1..l : w[k + i] = s[d + i]
  BY <1>1, <1>2, <1>3, <1>5, <1>6, <1>7
<1>9. Spliced(s, n, x, middle) = w
  BY DEF Spliced, w, start, first, last
<1> QED BY <1>7, <1>8, <1>9 DEF KeepsTheRest, k, d

\* Splicing is one edit, when it puts in a character or none for one or none.
LEMMA SplicingIsOneEdit ==
  ASSUME NEW C, NEW n \in Nat, NEW x \in Nat, NEW y \in Nat, NEW l \in Nat,
         NEW s \in StringsOf(C, n + x + l), NEW middle \in StringsOf(C, y)
  PROVE  OneEdit(s, Spliced(s, n, x, middle), n, x, y, l)
<1> DEFINE w == Spliced(s, n, x, middle)
<1>1. w \in StringsOf(C, n + y + l) /\ KeepsTheRest(w, s, n, x, y, l, middle)
  BY SplicingKeepsTheRest
<1> HIDE DEF w
<1>2. Len(s) = n + x + l /\ Len(w) = n + y + l
  BY <1>1 DEF StringsOf
<1>3. OneEdit(s, w, n, x, y, l)
  BY <1>1, <1>2 DEF KeepsTheRest, OneEdit
<1> QED BY <1>3 DEF w

IsOneEdit(v, w) ==
  \E n \in Nat, l \in Nat, x \in {0, 1}, y \in {0, 1} : OneEdit(v, w, n, x, y, l)

Middles(characters) == {<<>>} \cup {<<a>> : a \in characters}

\* Every string within an edit of those in S is one edit from one of them.
LEMMA WithinEditsIsOneEdit ==
  ASSUME NEW C, NEW S \in SUBSET Seq(C), NEW characters \in SUBSET C,
         NEW w \in WithinEdits(S, characters)
  PROVE  w \in Seq(C) /\ \E v \in S : IsOneEdit(v, w)
<1>1. PICK s \in S, x \in {0, 1} :
        \E n \in 0..(Len(s) - x), middle \in Middles(characters) : w = Spliced(s, n, x, middle)
  BY DEF WithinEdits, Middles
<1>2. PICK n \in 0..(Len(s) - x), middle \in Middles(characters) : w = Spliced(s, n, x, middle)
  BY <1>1
<1>3. s \in Seq(C) /\ Len(s) \in Nat
  BY LenProperties
<1>4. PICK y \in {0, 1} : middle \in StringsOf(C, y)
  <2>1. CASE middle = <<>>
    <3>1. middle \in StringsOf(C, 0)
      BY <2>1 DEF StringsOf
    <3> QED BY <3>1
  <2>2. CASE middle \in {<<a>> : a \in characters}
    <3>1. PICK a \in characters : middle = <<a>>
      BY <2>2
    <3>2. middle \in StringsOf(C, 1)
      BY <3>1 DEF StringsOf
    <3> QED BY <3>2
  <2> QED BY <2>1, <2>2 DEF Middles
<1> DEFINE l == Len(s) - n - x
<1>5. n \in Nat /\ l \in Nat /\ x \in Nat /\ y \in Nat /\ s \in StringsOf(C, n + x + l)
  BY <1>3 DEF StringsOf
<1> HIDE DEF l
<1>6. w \in StringsOf(C, n + y + l)
  BY <1>2, <1>4, <1>5, SplicingKeepsTheRest
<1>7. OneEdit(s, w, n, x, y, l)
  BY <1>2, <1>4, <1>5, SplicingIsOneEdit
<1> QED BY <1>5, <1>6, <1>7 DEF StringsOf, IsOneEdit

\* Strings in which an edit leaves and puts in the same are the same.
LEMMA OneEditIsSpliced ==
  ASSUME NEW C, NEW n \in Nat, NEW x \in Nat, NEW y \in {0, 1}, NEW l \in Nat,
         NEW v \in Seq(C), NEW w \in Seq(C), OneEdit(v, w, n, x, y, l),
         NEW middle \in StringsOf(C, y), y = 1 => middle[1] = w[n + 1]
  PROVE  w = Spliced(v, n, x, middle)
<1> DEFINE u == Spliced(v, n, x, middle)
<1>1. v \in StringsOf(C, n + x + l) /\ y \in Nat
  BY DEF OneEdit, StringsOf
<1>2. u \in StringsOf(C, n + y + l) /\ KeepsTheRest(u, v, n, x, y, l, middle)
  BY <1>1, SplicingKeepsTheRest
<1> HIDE DEF u
<1>3. u \in Seq(C) /\ Len(u) = n + y + l /\ Len(w) = n + y + l
  BY <1>2 DEF StringsOf, OneEdit
<1>4. /\ \A i \in 1..n : u[i] = w[i]
      /\ \A i \in 1..l : u[n + y + i] = w[n + y + i]
  BY <1>2 DEF KeepsTheRest, OneEdit
<1>5. y = 1 => u[n + 1] = w[n + 1]
  BY <1>2 DEF KeepsTheRest
<1>6. ASSUME NEW i \in 1..Len(u) PROVE u[i] = w[i]
  <2>1. CASE i <= n
    BY <1>4, <2>1
  <2>2. CASE i > n /\ i <= n + y
    <3>1. y = 1 /\ i = n + 1
      BY <2>2
    <3> QED BY <1>5, <3>1
  <2>3. CASE i > n + y
    <3>1. i - (n + y) \in 1..l /\ i = n + y + (i - (n + y))
      BY <1>3, <2>3
    <3> QED BY <1>4, <3>1
  <2> QED BY <2>1, <2>2, <2>3
<1>7. u = w
  BY <1>3, <1>6, SeqEqual
<1> QED BY <1>7 DEF u

\* One edit that puts in nothing but one of these characters.
IsOneEditWith(v, w, characters) ==
  \E n \in Nat, l \in Nat, x \in {0, 1}, y \in {0, 1} :
    OneEdit(v, w, n, x, y, l) /\ (y = 1 => w[n + 1] \in characters)

\* Conversely, whatever is one edit from a string in S, with a character that
\* may be written, is within an edit.
LEMMA OneEditIsWithinEdits ==
  ASSUME NEW C, NEW S \in SUBSET Seq(C), NEW characters \in SUBSET C, NEW v \in S,
         NEW w \in Seq(C), IsOneEditWith(v, w, characters)
  PROVE  w \in WithinEdits(S, characters)
<1>0. PICK n \in Nat, l \in Nat, x \in {0, 1}, y \in {0, 1} :
        OneEdit(v, w, n, x, y, l) /\ (y = 1 => w[n + 1] \in characters)
  BY DEF IsOneEditWith
<1>1. \E middle \in Middles(characters) :
        middle \in StringsOf(C, y) /\ (y = 1 => middle[1] = w[n + 1])
  <2>1. CASE y = 0
    <3>1. <<>> \in Middles(characters) /\ <<>> \in StringsOf(C, 0)
      BY DEF Middles, StringsOf
    <3> QED BY <2>1, <3>1
  <2>2. CASE y = 1
    <3> DEFINE a == w[n + 1]
               middle == <<a>>
    <3>1. a \in characters /\ a \in C
      BY <1>0, <2>2
    <3> HIDE DEF a
    <3>2. middle \in Middles(characters) /\ middle \in StringsOf(C, 1) /\ middle[1] = a
      BY <3>1 DEF Middles, StringsOf
    <3> HIDE DEF middle
    <3> QED BY <2>2, <3>2 DEF a
  <2> QED BY <2>1, <2>2
<1>2. PICK middle \in Middles(characters) :
        middle \in StringsOf(C, y) /\ (y = 1 => middle[1] = w[n + 1])
  BY <1>1
<1>3. w = Spliced(v, n, x, middle)
  <2>1. v \in Seq(C) /\ x \in Nat
    OBVIOUS
  <2> QED BY <1>0, <1>2, <2>1, OneEditIsSpliced
<1>4. n \in 0..(Len(v) - x)
  BY <1>0 DEF OneEdit
<1> DEFINE Near(s, z) == {Spliced(s, m, z, t) : m \in 0..(Len(s) - z), t \in Middles(characters)}
<1>5. w \in Near(v, x)
  BY <1>2, <1>3, <1>4
<1>6. WithinEdits(S, characters) = UNION {Near(s, z) : s \in S, z \in {0, 1}}
  BY DEF WithinEdits, Middles
<1> HIDE DEF Near
<1> QED BY <1>5, <1>6

-----------------------------------------------------------------------------
(* The strings within so many edits.                                       *)

\* The strings within each number of edits of the key.
NearOnes(near, key, characters, C) ==
  /\ near \in [0..TypoDistance -> SUBSET Seq(C)]
  /\ near[0] = {key}
  /\ \A e \in 1..TypoDistance : near[e] = WithinEdits(near[e - 1], characters)

\* NearMissesOf computes these sets.
LEMMA NearMissesAreNearOnes ==
  ASSUME NEW C, NEW key \in Seq(C), NEW characters \in SUBSET C
  PROVE  \E near : /\ NearOnes(near, key, characters, C)
                   /\ near[TypoDistance] = NearMissesOf(key, characters)
<1> DEFINE m == TypoDistance
           V == SUBSET Seq(C)
           first == {key}
           next(S) == WithinEdits(S, characters)
           IsFilled(f) == f = [e \in 0..m |-> IF e = 0 THEN first ELSE next(f[e - 1])]
           F == [x \in V \X (1..m) |-> next(x[1])]
<1>1. ASSUME NEW S \in V PROVE next(S) \in V
  BY WithinEditsIsOneEdit
<1>2. first \in V
  OBVIOUS
<1>3. F \in [V \X (1..m) -> V]
  <2> HIDE DEF next, V
  <2> QED BY <1>1
<1>4. \A S \in V, e \in 1..m : F[<<S, e>>] = next(S)
  <2> HIDE DEF next, V
  <2> QED OBVIOUS
<1>5. NearMissesOf(key, characters) = (CHOOSE f : IsFilled(f))[m]
  BY DEF NearMissesOf
<1> m \in Nat
  BY PaymentMatchAssumption
<1> HIDE DEF F, m, V, first, next
<1>7. PICK f \in [0..m -> V] :
        /\ Steps(f, first, F, m)
        /\ \A h : TakesTheSteps(h, first, F, m, V) => \A e \in 0..m : h[e] = f[e]
  <2> HIDE DEF IsFilled
  <2>1. IsDefined(first, F, m, V)
    BY <1>2, <1>3, RecursionIsDefined
  <2> QED BY <2>1 DEF IsDefined
<1>8. /\ f[0] = first
      /\ \A e \in 1..m : f[e - 1] \in V /\ f[e] = next(f[e - 1])
  <2>1. \A e \in 1..m : f[e - 1] \in V
    OBVIOUS
  <2> QED BY <1>4, <1>7, <2>1 DEF Steps
<1>9. IsFilled(f)
  <2> DEFINE g == [e \in 0..m |-> IF e = 0 THEN first ELSE next(f[e - 1])]
  <2>1. ASSUME NEW e \in 0..m PROVE f[e] = g[e]
    BY <1>8
  <2>2. f = [e \in 0..m |-> f[e]] /\ g = [e \in 0..m |-> g[e]]
    OBVIOUS
  <2>3. f = g
    <3> HIDE DEF g
    <3> QED BY <2>1, <2>2
  <2> QED BY <2>3
<1>10. ASSUME NEW h, IsFilled(h) PROVE h = f
  <2>1. h[0] = first /\ \A e \in 1..m : h[e] = next(h[e - 1])
    BY <1>10
  <2>2. \A e \in 0..m : h[e] = f[e]
    BY <1>4, <1>7, <2>1 DEF TakesTheSteps
  <2>3. h = [e \in 0..m |-> h[e]]
    BY <1>10
  <2> QED BY <2>2, <2>3
<1>11. NearMissesOf(key, characters) = f[m]
  <2> HIDE DEF IsFilled
  <2> QED BY <1>5, <1>9, <1>10
<1>12. NearOnes(f, key, characters, C)
  BY <1>7, <1>8 DEF NearOnes, m, V, first, next
<1> QED BY <1>11, <1>12 DEF m

\* A string is no distance from itself.
LEMMA NoDistanceFromItself ==
  ASSUME NEW key, Len(key) \in Nat
  PROVE  EditDistance(key, key) = 0
<1> DEFINE n == Len(key)
<1>1. PICK rows : IsTable(rows, key, key) /\ EditDistance(key, key) = rows[n][n]
  BY DistanceIsInATable
<1> DEFINE Zero == {k \in Nat : k <= n => rows[k][k] = 0}
<1>2. 0 \in Zero
  BY <1>1 DEF IsTable
<1>3. ASSUME NEW k \in Nat, k \in Zero PROVE k + 1 \in Zero
  <2> SUFFICES ASSUME k + 1 <= n PROVE rows[k + 1][k + 1] = 0
    OBVIOUS
  <2> DEFINE c == k + 1
  <2>1. c \in 1..n /\ c \in 0..n /\ c - 1 = k /\ k \in 0..n
    OBVIOUS
  <2>2. rows[k][k] = 0
    BY <1>3, <2>1
  <2> HIDE DEF c, Zero
  <2>3. Follows(rows[c - 1], key[c], key, rows[c]) /\ IsRow(rows[c], key)
    BY <1>1, <2>1, TableOfRows DEF IsTable
  <2>4. rows[c][c] \in Nat /\ rows[c][c] <= rows[k][k] + Cost(key[c], key[c])
    BY <2>1, <2>3 DEF Follows, IsRow
  <2>5. rows[c][c] <= 0
    BY <2>2, <2>4 DEF Cost
  <2> QED BY <2>4, <2>5 DEF c
<1>4. n \in Zero
  <2> HIDE DEF Zero
  <2> QED BY <1>2, <1>3, AllNumbers
<1> QED BY <1>1, <1>4

\* What is within so many edits is no further from the key.
LEMMA NearOnesAreNear ==
  ASSUME NEW C, NEW key \in Seq(C), NEW characters \in SUBSET C,
         NEW near, NearOnes(near, key, characters, C)
  PROVE  \A e \in 0..TypoDistance : \A w \in near[e] : EditDistance(w, key) <= e
<1> DEFINE Near == {e \in Nat : e <= TypoDistance =>
                      \A w \in near[e] : EditDistance(w, key) \in Nat /\ EditDistance(w, key) <= e}
<1> Len(key) \in Nat /\ TypoDistance \in Nat
  BY LenProperties, PaymentMatchAssumption
<1>1. 0 \in Near
  BY NoDistanceFromItself DEF NearOnes
<1>2. ASSUME NEW e \in Nat, e \in Near PROVE e + 1 \in Near
  <2> SUFFICES ASSUME e + 1 <= TypoDistance, NEW w \in near[e + 1]
               PROVE  EditDistance(w, key) \in Nat /\ EditDistance(w, key) <= e + 1
    OBVIOUS
  <2> DEFINE c == e + 1
  <2>1. c \in 1..TypoDistance /\ c - 1 = e /\ e \in 0..TypoDistance /\ e <= TypoDistance
    OBVIOUS
  <2>2. \A v \in near[e] : EditDistance(v, key) \in Nat /\ EditDistance(v, key) <= e
    BY <1>2, <2>1
  <2> HIDE DEF c, Near
  <2>3. near[c] = WithinEdits(near[e], characters) /\ near[e] \in SUBSET Seq(C)
    BY <2>1 DEF NearOnes
  <2>4. w \in WithinEdits(near[e], characters)
    BY <2>3 DEF c
  <2>5. PICK v \in near[e] : IsOneEdit(v, w)
    BY <2>3, <2>4, WithinEditsIsOneEdit
  <2>6. /\ EditDistance(w, key) \in Nat /\ EditDistance(v, key) \in Nat
        /\ EditDistance(w, key) <= EditDistance(v, key) + 1
    BY <2>5, OneEditIsOneMore DEF IsOneEdit
  <2> QED BY <2>2, <2>6
<1>3. \A e \in Nat : e \in Near
  <2> HIDE DEF Near
  <2> QED BY <1>1, <1>2, AllNumbers
<1> QED BY <1>3

\* One more edit is within one more.
LEMMA OneMoreEdit ==
  ASSUME NEW C, NEW key \in Seq(C), NEW characters \in SUBSET C,
         NEW near, NearOnes(near, key, characters, C),
         NEW d \in 1..TypoDistance, NEW v \in near[d - 1], NEW w \in Seq(C),
         IsOneEditWith(v, w, characters)
  PROVE  w \in near[d]
<1> DEFINE S == near[d - 1]
<1>1. d - 1 \in 0..TypoDistance
  BY PaymentMatchAssumption
<1>2. near[d] = WithinEdits(S, characters) /\ S \in SUBSET Seq(C) /\ v \in S
  BY <1>1 DEF NearOnes
<1> HIDE DEF S
<1>3. w \in WithinEdits(S, characters)
  BY <1>2, OneEditIsWithinEdits
<1> QED BY <1>2, <1>3

\* What is within so many edits is within more.
LEMMA NearOnesGrow ==
  ASSUME NEW C, NEW key \in Seq(C), NEW characters \in SUBSET C,
         NEW near, NearOnes(near, key, characters, C),
         NEW e \in Nat, e <= TypoDistance, NEW w \in near[e]
  PROVE  w \in near[TypoDistance]
<1> DEFINE In == {d \in Nat : e + d <= TypoDistance => w \in near[e + d]}
<1>1. TypoDistance \in Nat
  BY PaymentMatchAssumption
<1>2. 0 \in In
  OBVIOUS
<1>3. ASSUME NEW d \in Nat, d \in In PROVE d + 1 \in In
  <2> SUFFICES ASSUME e + (d + 1) <= TypoDistance PROVE w \in near[e + (d + 1)]
    OBVIOUS
  <2> DEFINE c == e + d
             b == e + (d + 1)
  <2>1. b \in 1..TypoDistance /\ b - 1 = c /\ c \in 0..TypoDistance /\ c <= TypoDistance
    BY <1>1
  <2>2. w \in near[b - 1]
    BY <1>3, <2>1
  <2> HIDE DEF c, b, In
  <2>3. w \in Seq(C)
    BY <2>1, <2>2 DEF NearOnes
  <2>4. Len(w) \in Nat /\ OneEdit(w, w, 0, 0, 0, Len(w))
    BY <2>3, LenProperties DEF OneEdit
  <2>5. IsOneEditWith(w, w, characters)
    BY <2>4 DEF IsOneEditWith
  <2>6. w \in near[b]
    BY <2>1, <2>2, <2>3, <2>5, OneMoreEdit
  <2> QED BY <2>6 DEF b
<1>4. TypoDistance - e \in In /\ e + (TypoDistance - e) = TypoDistance
  <2>1. TypoDistance - e \in Nat /\ e + (TypoDistance - e) = TypoDistance
    BY <1>1
  <2> HIDE DEF In
  <2> QED BY <1>2, <1>3, <2>1, AllNumbers
<1> QED BY <1>4

\* What is written up to k, and the key from after j.
Halfway(w, k, key, j) ==
  [i \in 1..(k + (Len(key) - j)) |-> IF i <= k THEN w[i] ELSE key[i - k + j]]

IsHalfway(u, w, k, key, j) ==
  /\ Len(u) = k + (Len(key) - j)
  /\ \A i \in 1..k : u[i] = w[i]
  /\ \A i \in 1..(Len(key) - j) : u[k + i] = key[j + i]

\* The string halfway is a string, with the characters it should have.
LEMMA HalfwayIsAString ==
  ASSUME NEW C, NEW key \in Seq(C), NEW w \in Seq(C), NEW k \in 0..Len(w), NEW j \in 0..Len(key)
  PROVE  Halfway(w, k, key, j) \in Seq(C) /\ IsHalfway(Halfway(w, k, key, j), w, k, key, j)
<1> DEFINE n == k + (Len(key) - j)
           u == Halfway(w, k, key, j)
<1>1. Len(key) \in Nat /\ Len(w) \in Nat /\ n \in Nat
  BY LenProperties
<1>2. /\ \A i \in 1..Len(key) : key[i] \in C
      /\ \A i \in 1..Len(w) : w[i] \in C
  OBVIOUS
<1>3. u = [i \in 1..n |-> IF i <= k THEN w[i] ELSE key[i - k + j]]
  BY DEF Halfway
<1> HIDE DEF u
<1>4. ASSUME NEW i \in 1..n PROVE (IF i <= k THEN w[i] ELSE key[i - k + j]) \in C
  <2>1. CASE i <= k
    BY <1>1, <1>2, <2>1
  <2>2. CASE i > k
    <3>1. i - k + j \in 1..Len(key)
      BY <1>1, <2>2
    <3> QED BY <1>2, <2>2, <3>1
  <2> QED BY <2>1, <2>2
<1>5. \A i \in 1..k : u[i] = w[i]
  <2>1. \A i \in 1..k : i \in 1..n /\ i <= k
    BY <1>1
  <2> HIDE DEF n
  <2> QED BY <1>3, <2>1
<1>6. \A i \in 1..(Len(key) - j) : u[k + i] = key[j + i]
  <2>1. \A i \in 1..(Len(key) - j) : k + i \in 1..n /\ ~(k + i <= k) /\ (k + i) - k + j = j + i
    BY <1>1
  <2> HIDE DEF n
  <2> QED BY <1>3, <2>1
<1> HIDE DEF n
<1>7. u \in [1..n -> C]
  BY <1>3, <1>4
<1>8. u \in Seq(C) /\ Len(u) = n
  BY <1>1, <1>7
<1> QED BY <1>5, <1>6, <1>8 DEF u, n, IsHalfway

\* A character more of what is written, or one less of the key, is one edit.
LEMMA HalfwayIsOneEdit ==
  ASSUME NEW C, NEW key \in Seq(C), NEW characters \in SUBSET C, NEW w \in Seq(characters),
         NEW k \in 0..Len(w), NEW j \in 0..Len(key), NEW x \in {0, 1}, NEW y \in {0, 1},
         k + y <= Len(w), j + x <= Len(key)
  PROVE  IsOneEditWith(Halfway(w, k, key, j), Halfway(w, k + y, key, j + x), characters)
<1> DEFINE u == Halfway(w, k, key, j)
           c == k + y
           d == j + x
           v == Halfway(w, c, key, d)
           l == Len(key) - d
           r == Len(key) - j
<1>1. /\ Len(key) \in Nat /\ Len(w) \in Nat /\ k \in Nat /\ l \in Nat /\ r = x + l
      /\ c \in 0..Len(w) /\ d \in 0..Len(key)
  BY LenProperties
<1>2. w \in Seq(C)
  OBVIOUS
<1> HIDE DEF u, c, d, v
<1>3. /\ Len(u) = k + (Len(key) - j)
      /\ \A i \in 1..k : u[i] = w[i]
      /\ \A i \in 1..(Len(key) - j) : u[k + i] = key[j + i]
  <2>1. u \in Seq(C) /\ IsHalfway(u, w, k, key, j)
    BY <1>1, <1>2, HalfwayIsAString DEF u
  <2> QED BY <2>1 DEF IsHalfway
<1>4. /\ Len(v) = c + (Len(key) - d)
      /\ \A i \in 1..c : v[i] = w[i]
      /\ \A i \in 1..(Len(key) - d) : v[c + i] = key[d + i]
  <2>1. v \in Seq(C) /\ IsHalfway(v, w, c, key, d)
    BY <1>1, <1>2, HalfwayIsAString DEF v
  <2> QED BY <2>1 DEF IsHalfway
<1> HIDE DEF l, r
<1>5. Len(u) = k + x + l /\ Len(v) = k + y + l
  <2>1. Len(u) = k + r /\ Len(v) = c + l /\ r = x + l
    BY <1>1, <1>3, <1>4 DEF l, r
  <2>2. k + (x + l) = k + x + l
    BY <1>1
  <2> QED BY <2>1, <2>2 DEF c
<1>6. \A i \in 1..k : v[i] = u[i]
  <2>1. \A i \in 1..k : i \in 1..c
    BY <1>1 DEF c
  <2> QED BY <1>3, <1>4, <2>1
<1>7. \A i \in 1..l : v[k + y + i] = u[k + x + i]
  <2> SUFFICES ASSUME NEW i \in 1..l PROVE v[k + y + i] = u[k + x + i]
    OBVIOUS
  <2>1. v[c + i] = key[d + i]
    BY <1>4 DEF l
  <2>2. x + i \in 1..r /\ k + (x + i) = k + x + i /\ j + (x + i) = d + i
    BY <1>1 DEF d
  <2>3. u[k + (x + i)] = key[j + (x + i)]
    BY <1>3, <2>2 DEF r
  <2> QED BY <2>1, <2>2, <2>3 DEF c
<1>8. y = 1 => v[k + 1] \in characters
  <2> SUFFICES ASSUME y = 1 PROVE v[k + 1] \in characters
    OBVIOUS
  <2>1. k + 1 \in 1..c /\ k + 1 \in 1..Len(w)
    BY <1>1 DEF c
  <2> QED BY <1>4, <2>1
<1>9. OneEdit(u, v, k, x, y, l)
  BY <1>5, <1>6, <1>7 DEF OneEdit
<1>10. IsOneEditWith(u, v, characters)
  BY <1>1, <1>8, <1>9 DEF IsOneEditWith
<1> QED BY <1>10 DEF u, v, c, d

\* A character that is the same is no edit.
LEMMA HalfwayIsTheSame ==
  ASSUME NEW C, NEW key \in Seq(C), NEW w \in Seq(C),
         NEW k \in 1..Len(w), NEW j \in 1..Len(key), w[k] = key[j]
  PROVE  Halfway(w, k - 1, key, j - 1) = Halfway(w, k, key, j)
<1> DEFINE a == k - 1
           b == j - 1
           u == Halfway(w, a, key, b)
           v == Halfway(w, k, key, j)
<1>1. /\ Len(key) \in Nat /\ Len(w) \in Nat
      /\ a \in 0..Len(w) /\ b \in 0..Len(key) /\ k \in 0..Len(w) /\ j \in 0..Len(key)
      /\ k = a + 1 /\ j = b + 1
  BY LenProperties
<1> HIDE DEF a, b, u, v
<1>2. /\ u \in Seq(C) /\ Len(u) = a + (Len(key) - b)
      /\ \A i \in 1..a : u[i] = w[i]
      /\ \A i \in 1..(Len(key) - b) : u[a + i] = key[b + i]
  <2>1. u \in Seq(C) /\ IsHalfway(u, w, a, key, b)
    BY <1>1, HalfwayIsAString DEF u
  <2> QED BY <2>1 DEF IsHalfway
<1>3. /\ v \in Seq(C) /\ Len(v) = k + (Len(key) - j)
      /\ \A i \in 1..k : v[i] = w[i]
      /\ \A i \in 1..(Len(key) - j) : v[k + i] = key[j + i]
  <2>1. v \in Seq(C) /\ IsHalfway(v, w, k, key, j)
    BY <1>1, HalfwayIsAString DEF v
  <2> QED BY <2>1 DEF IsHalfway
<1>4. Len(u) = Len(v)
  BY <1>1, <1>2, <1>3
<1>5. ASSUME NEW i \in 1..Len(u) PROVE u[i] = v[i]
  <2>1. CASE i <= a
    <3>1. i \in 1..a /\ i \in 1..k
      BY <1>1, <2>1
    <3> QED BY <1>2, <1>3, <3>1
  <2>2. CASE i = k
    <3>1. 1 \in 1..(Len(key) - b) /\ k \in 1..k
      BY <1>1
    <3>2. u[a + 1] = key[b + 1] /\ v[k] = w[k]
      BY <1>2, <1>3, <3>1
    <3> QED BY <1>1, <2>2, <3>2
  <2>3. CASE i > k
    <3> DEFINE h == i - k
    <3>1. h \in 1..(Len(key) - j) /\ i = k + h /\ h + 1 \in 1..(Len(key) - b)
          /\ i = a + (h + 1) /\ b + (h + 1) = j + h
      BY <1>1, <1>2, <2>3
    <3> HIDE DEF h
    <3>2. v[k + h] = key[j + h]
      BY <1>3, <3>1
    <3>3. u[a + (h + 1)] = key[b + (h + 1)]
      BY <1>2, <3>1
    <3> QED BY <3>1, <3>2, <3>3
  <2>4. i <= a \/ i = k \/ i > k
    BY <1>1, <1>2
  <2> QED BY <2>1, <2>2, <2>3, <2>4
<1>6. u = v
  BY <1>2, <1>3, <1>4, <1>5, SeqEqual
<1> QED BY <1>6 DEF u, v, a, b

\* Entries of a row that are within the distance allowed are numbers of edits
\* that make one halfway string of the key.
RowIsReached(row, w, k, key, near) ==
  \A j \in 0..Len(key) : row[j] <= TypoDistance => Halfway(w, k, key, j) \in near[row[j]]

\* One edit more in the table is one edit more of the string.
LEMMA OneMoreInTheTable ==
  ASSUME NEW C, NEW key \in Seq(C), NEW characters \in SUBSET C, NEW w \in Seq(characters),
         NEW near, NearOnes(near, key, characters, C),
         NEW k \in 0..Len(w), NEW j \in 0..Len(key), NEW x \in {0, 1}, NEW y \in {0, 1},
         NEW h \in 0..Len(w), h = k + y, NEW i \in 0..Len(key), i = j + x,
         NEW e \in Nat, NEW d \in Nat, d = e + 1, d <= TypoDistance,
         Halfway(w, k, key, j) \in near[e]
  PROVE  Halfway(w, h, key, i) \in near[d]
<1> DEFINE u == Halfway(w, k, key, j)
           v == Halfway(w, h, key, i)
<1>1. w \in Seq(C) /\ k + y <= Len(w) /\ j + x <= Len(key)
  BY LenProperties
<1>2. IsOneEditWith(u, Halfway(w, k + y, key, j + x), characters)
  BY <1>1, HalfwayIsOneEdit
<1>3. v = Halfway(w, k + y, key, j + x)
  OBVIOUS
<1>4. v \in Seq(C)
  BY <1>1, HalfwayIsAString
<1>5. d \in 1..TypoDistance /\ d - 1 = e
  BY PaymentMatchAssumption
<1>6. u \in near[d - 1]
  BY <1>5
<1> HIDE DEF u, v
<1>7. IsOneEditWith(u, v, characters)
  BY <1>2, <1>3
<1>8. v \in near[d]
  BY <1>4, <1>5, <1>6, <1>7, OneMoreEdit
<1> QED BY <1>8 DEF v

\* The first row is reached by leaving out what the key begins with.
LEMMA FirstRowIsReached ==
  ASSUME NEW C, NEW key \in Seq(C), NEW characters \in SUBSET C, NEW w \in Seq(characters),
         NEW near, NearOnes(near, key, characters, C),
         NEW row, IsRow(row, key), \A j \in 0..Len(key) : row[j] = j
  PROVE  RowIsReached(row, w, 0, key, near)
<1> DEFINE Reached == {j \in Nat : j <= Len(key) /\ j <= TypoDistance =>
                                     Halfway(w, 0, key, j) \in near[j]}
<1>1. Len(key) \in Nat /\ Len(w) \in Nat /\ TypoDistance \in Nat /\ w \in Seq(C)
  BY LenProperties, PaymentMatchAssumption
<1>2. 0 \in Reached
  <2> DEFINE u == Halfway(w, 0, key, 0)
  <2>1. u \in Seq(C) /\ IsHalfway(u, w, 0, key, 0)
    <3>1. 0 \in 0..Len(w) /\ 0 \in 0..Len(key)
      BY <1>1
    <3> QED BY <1>1, <3>1, HalfwayIsAString
  <2> HIDE DEF u
  <2>2. Len(u) = Len(key) /\ \A i \in 1..Len(key) : u[i] = key[i]
    <3>1. Len(u) = 0 + (Len(key) - 0) /\ \A i \in 1..(Len(key) - 0) : u[0 + i] = key[0 + i]
      BY <2>1 DEF IsHalfway
    <3> QED BY <1>1, <3>1
  <2>3. u = key
    BY <2>1, <2>2, SeqEqual
  <2>4. key \in near[0]
    BY DEF NearOnes
  <2> QED BY <2>3, <2>4 DEF u
<1>3. ASSUME NEW j \in Nat, j \in Reached PROVE j + 1 \in Reached
  <2> DEFINE i == j + 1
             o == 0
  <2> SUFFICES ASSUME i <= Len(key), i <= TypoDistance PROVE Halfway(w, o, key, i) \in near[i]
    OBVIOUS
  <2>1. /\ i \in 0..Len(key) /\ j \in 0..Len(key) /\ i \in Nat /\ j <= Len(key) /\ j <= TypoDistance
        /\ o \in 0..Len(w) /\ o \in {0, 1} /\ o = o + o
    BY <1>1
  <2>2. Halfway(w, o, key, j) \in near[j]
    BY <1>3, <2>1
  <2> DEFINE l == 1
  <2>3. l \in {0, 1} /\ i = j + l
    OBVIOUS
  <2>4. i = j + 1
    OBVIOUS
  <2> HIDE DEF i, o, l, Reached
  <2> QED BY <2>1, <2>2, <2>3, <2>4, OneMoreInTheTable
<1>4. \A j \in Nat : j \in Reached
  <2> HIDE DEF Reached
  <2> QED BY <1>2, <1>3, AllNumbers
<1> QED BY <1>1, <1>4 DEF RowIsReached

\* Each row is reached from the one before.
LEMMA NextRowIsReached ==
  ASSUME NEW C, NEW key \in Seq(C), NEW characters \in SUBSET C, NEW w \in Seq(characters),
         NEW near, NearOnes(near, key, characters, C), NEW k \in 1..Len(w),
         NEW p, NEW q, IsRow(p, key), IsRow(q, key), Follows(p, w[k], key, q),
         NEW b, b = k - 1, RowIsReached(p, w, b, key, near)
  PROVE  RowIsReached(q, w, k, key, near)
<1> DEFINE Reached == {j \in Nat : j <= Len(key) /\ q[j] <= TypoDistance =>
                                     Halfway(w, k, key, j) \in near[q[j]]}
<1>1. /\ Len(key) \in Nat /\ Len(w) \in Nat /\ TypoDistance \in Nat /\ w \in Seq(C)
      /\ b \in 0..Len(w) /\ k \in 0..Len(w) /\ k = b + 1
  BY LenProperties, PaymentMatchAssumption
\* A character more is written.
<1>2. ASSUME NEW j \in 0..Len(key), q[j] = p[j] + 1, q[j] <= TypoDistance
      PROVE  Halfway(w, k, key, j) \in near[q[j]]
  <2> DEFINE e == p[j]
             d == q[j]
             i == j
             y == 1
             x == 0
  <2>1. e \in Nat /\ d \in Nat /\ d = e + 1 /\ d <= TypoDistance /\ e <= TypoDistance
    BY <1>1, <1>2 DEF IsRow
  <2>2. Halfway(w, b, key, j) \in near[e]
    BY <2>1 DEF RowIsReached
  <2>3. x \in {0, 1} /\ y \in {0, 1} /\ k = b + y /\ i = j + x /\ i \in 0..Len(key)
    BY <1>1
  <2>4. j \in 0..Len(key) /\ b \in 0..Len(w) /\ k \in 0..Len(w)
    BY <1>1
  <2> HIDE DEF e, d, i, x, y, Reached
  <2>5. Halfway(w, k, key, i) \in near[d]
    <3>1. e \in Nat /\ d \in Nat /\ d = e + 1 /\ d <= TypoDistance
      BY <2>1
    <3> QED BY <2>2, <2>3, <2>4, <3>1, OneMoreInTheTable, SMTT(60)
  <2> QED BY <2>5 DEF d, i
<1>3. 0 \in Reached
  <2>1. 0 \in 0..Len(key) /\ q[0] = p[0] + 1
    BY <1>1 DEF Follows
  <2> QED BY <1>2, <2>1
<1>4. ASSUME NEW a \in Nat, a \in Reached PROVE a + 1 \in Reached
  <2> DEFINE j == a + 1
  <2> SUFFICES ASSUME j <= Len(key), q[j] <= TypoDistance
               PROVE  Halfway(w, k, key, j) \in near[q[j]]
    OBVIOUS
  <2>1. j \in 0..Len(key) /\ j \in 1..Len(key) /\ a \in 0..Len(key) /\ j - 1 = a /\ j = a + 1
    BY <1>1
  <2>2. /\ q[j] \in Nat /\ q[a] \in Nat /\ p[j] \in Nat /\ p[a] \in Nat
    BY <2>1 DEF IsRow
  <2>3. \/ q[j] = p[j] + 1
        \/ q[j] = q[a] + 1
        \/ q[j] = p[a] + Cost(w[k], key[j])
    BY <2>1 DEF Follows
  <2>4. q[a] <= TypoDistance => Halfway(w, k, key, a) \in near[q[a]]
    BY <1>4, <2>1
  <2>5. p[a] <= TypoDistance => Halfway(w, b, key, a) \in near[p[a]]
    BY <2>1 DEF RowIsReached
  <2> HIDE DEF j, Reached
  <2>6. CASE q[j] = p[j] + 1
    BY <1>2, <2>1, <2>6
  <2>7. CASE q[j] = q[a] + 1
    <3> DEFINE e == q[a]
               d == q[j]
               y == 0
               x == 1
    <3>1. e \in Nat /\ d \in Nat /\ d = e + 1 /\ d <= TypoDistance /\ e <= TypoDistance
      BY <1>1, <2>2, <2>7
    <3>2. Halfway(w, k, key, a) \in near[e]
      BY <2>4, <3>1
    <3>3. x \in {0, 1} /\ y \in {0, 1} /\ k = k + y /\ j = a + x
      BY <2>1
    <3> HIDE DEF e, d, x, y
    <3>4. Halfway(w, k, key, j) \in near[d]
      BY <1>1, <2>1, <3>1, <3>2, <3>3, OneMoreInTheTable
    <3> QED BY <3>4 DEF d
  <2>8. CASE q[j] = p[a] + Cost(w[k], key[j]) /\ w[k] = key[j]
    <3>1. q[j] = p[a]
      BY <2>2, <2>8 DEF Cost
    <3>2. Halfway(w, b, key, a) \in near[q[j]]
      BY <2>5, <3>1
    <3>3. Halfway(w, k - 1, key, j - 1) = Halfway(w, k, key, j)
      BY <1>1, <2>1, <2>8, HalfwayIsTheSame
    <3> QED BY <2>1, <3>2, <3>3
  <2>9. CASE q[j] = p[a] + Cost(w[k], key[j]) /\ w[k] # key[j]
    <3> DEFINE e == p[a]
               d == q[j]
               y == 1
               x == 1
    <3>1. e \in Nat /\ d \in Nat /\ d = e + 1 /\ d <= TypoDistance /\ e <= TypoDistance
      BY <1>1, <2>2, <2>9 DEF Cost
    <3>2. Halfway(w, b, key, a) \in near[e]
      BY <2>5, <3>1
    <3>3. x \in {0, 1} /\ y \in {0, 1} /\ k = b + y /\ j = a + x
      BY <1>1, <2>1
    <3> HIDE DEF e, d, x, y
    <3>4. Halfway(w, k, key, j) \in near[d]
      BY <1>1, <2>1, <3>1, <3>2, <3>3, OneMoreInTheTable
    <3> QED BY <3>4 DEF d
  <2> QED BY <2>3, <2>6, <2>7, <2>8, <2>9
<1>5. \A j \in Nat : j \in Reached
  <2> HIDE DEF Reached
  <2> QED BY <1>3, <1>4, AllNumbers
<1> QED BY <1>1, <1>5 DEF RowIsReached

\* Whatever the table says is no further than allowed is within so many edits.
LEMMA NearIsANearOne ==
  ASSUME NEW C, NEW key \in Seq(C), NEW characters \in SUBSET C, NEW w \in Seq(characters),
         NEW near, NearOnes(near, key, characters, C), EditDistance(w, key) <= TypoDistance
  PROVE  w \in near[TypoDistance]
<1> DEFINE n == Len(key)
           m == Len(w)
<1>1. n \in Nat /\ m \in Nat /\ w \in Seq(C)
  BY LenProperties
<1>2. PICK rows : IsTable(rows, w, key) /\ EditDistance(w, key) = rows[m][n]
  BY <1>1, DistanceIsInATable
<1>3. \A k \in 0..m : IsRow(rows[k], key)
  BY <1>1, <1>2, TableOfRows
<1> DEFINE Reached == {k \in Nat : k <= m => RowIsReached(rows[k], w, k, key, near)}
<1>4. 0 \in Reached
  <2> DEFINE row == rows[0]
  <2>1. IsRow(row, key) /\ \A j \in 0..Len(key) : row[j] = j
    BY <1>1, <1>2, <1>3 DEF IsTable
  <2> HIDE DEF row
  <2>2. RowIsReached(row, w, 0, key, near)
    BY <2>1, FirstRowIsReached
  <2> QED BY <2>2 DEF row
<1>5. ASSUME NEW b \in Nat, b \in Reached PROVE b + 1 \in Reached
  <2> DEFINE k == b + 1
             p == rows[b]
             q == rows[k]
  <2> SUFFICES ASSUME k <= m PROVE RowIsReached(q, w, k, key, near)
    OBVIOUS
  <2>1. k \in 1..m /\ k \in 0..m /\ b \in 0..m /\ k - 1 = b
    BY <1>1
  <2>2. Follows(p, w[k], key, q)
    <3>1. Follows(rows[k - 1], w[k], key, rows[k])
      BY <1>2, <2>1 DEF IsTable
    <3> QED BY <2>1, <3>1
  <2>3. IsRow(p, key) /\ IsRow(q, key)
    BY <1>3, <2>1
  <2>4. RowIsReached(p, w, b, key, near)
    BY <1>5, <2>1
  <2> HIDE DEF p, q, k, Reached
  <2>5. k \in 1..Len(w) /\ b = k - 1
    BY <2>1
  <2> QED BY <2>2, <2>3, <2>4, <2>5, NextRowIsReached
<1>6. RowIsReached(rows[m], w, m, key, near)
  <2>1. \A k \in Nat : k \in Reached
    <3> HIDE DEF Reached
    <3> QED BY <1>4, <1>5, AllNumbers
  <2> QED BY <1>1, <2>1
<1> DEFINE e == rows[m][n]
           u == Halfway(w, m, key, n)
<1>7. e \in Nat /\ e <= TypoDistance /\ n \in 0..n /\ m \in 0..m
  <2>1. n \in 0..n /\ m \in 0..m
    BY <1>1
  <2>2. IsRow(rows[m], key)
    BY <1>3, <2>1
  <2> QED BY <1>2, <2>1, <2>2 DEF IsRow
<1>8. u \in near[e]
  BY <1>6, <1>7 DEF RowIsReached
<1>9. u = w
  <2>1. u \in Seq(C) /\ IsHalfway(u, w, m, key, n)
    BY <1>1, <1>7, HalfwayIsAString
  <2> HIDE DEF u
  <2>2. Len(u) = m + (n - n) /\ \A i \in 1..m : u[i] = w[i]
    BY <2>1 DEF IsHalfway
  <2>3. Len(u) = Len(w) /\ \A i \in 1..Len(u) : u[i] = w[i]
    BY <1>1, <2>2
  <2> QED BY <1>1, <2>1, <2>3, SeqEqual
<1> HIDE DEF e, u
<1> QED BY <1>7, <1>8, <1>9, NearOnesGrow

\* A string is among those within the edits allowed exactly when its distance
\* is no more than allowed (edit_distance, payment_match.py).
THEOREM TheDistanceIsTheEdits ==
  ASSUME NEW key, key \in Seq(ToSet(key)), NEW characters, NEW w \in Seq(characters)
  PROVE  w \in NearMissesOf(key, characters) <=> EditDistance(w, key) <= TypoDistance
<1> DEFINE C == ToSet(key) \cup characters
<1>1. key \in Seq(C) /\ characters \in SUBSET C
  OBVIOUS
<1> HIDE DEF C
<1>2. PICK near : NearOnes(near, key, characters, C) /\ near[TypoDistance] = NearMissesOf(key, characters)
  BY <1>1, NearMissesAreNearOnes
<1>3. w \in NearMissesOf(key, characters) => EditDistance(w, key) <= TypoDistance
  <2>1. TypoDistance \in 0..TypoDistance
    BY PaymentMatchAssumption
  <2> QED BY <1>1, <1>2, <2>1, NearOnesAreNear
<1>4. EditDistance(w, key) <= TypoDistance => w \in NearMissesOf(key, characters)
  BY <1>1, <1>2, NearIsANearOne
<1> QED BY <1>3, <1>4

=============================================================================
