------------------------ MODULE CallDeskAnswers_proofs ------------------------
(***************************************************************************)
(* The theorems about CallDesk that concern what a caller is told: that    *)
(* what get_account_context says is about the account they proved to be,   *)
(* that no invoice they still owe is missing from it, and that match_      *)
(* payment confirms a payment only when no other can be meant, and calls   *)
(* what is written on it a typo only when it is one (PaymentMatch_proofs). *)
(*                                                                         *)
(* An answer is fixed when the ledger is read, and the ledger may change   *)
(* until the answer is out.  The invariants relate what an invocation has  *)
(* gathered to the ledger as it is now: an invoice is settled and never    *)
(* becomes owed again, so what was complete stays complete; a payment is   *)
(* allocated and never listed again, so what fitted alone still does.      *)
(***************************************************************************)
EXTENDS CallDesk_proofs, PaymentMatch_proofs, FiniteSums

-----------------------------------------------------------------------------
(* Listings: sequences that have each member of a set once.                *)

\* A listing of a finite set is as long as the set is large.
LEMMA ListingLists ==
  ASSUME NEW S, IsFiniteSet(S), NEW s \in SetToSeqs(S)
  PROVE  /\ s \in Seq(S) /\ Len(s) = Cardinality(S) /\ Cardinality(S) \in Nat
         /\ \A x \in S : \E n \in 1..Len(s) : s[n] = x
<1> DEFINE D == 1..Cardinality(S)
<1>1. Cardinality(S) \in Nat
  BY FS_CardinalityType
<1>2. IsFiniteSet(D) /\ Cardinality(D) = Cardinality(S)
  BY <1>1, FS_Interval
<1>3. s \in [D -> S] /\ \A i, j \in D : i # j => s[i] # s[j]
  BY DEF SetToSeqs
<1>4. s \in Seq(S) /\ Len(s) = Cardinality(S)
  BY <1>1, <1>3
<1>5. s \in Injection(D, S)
  BY <1>3 DEF Injection, IsInjective
<1>6. s \in Surjection(D, S)
  <2> HIDE DEF D
  <2> QED BY <1>2, <1>5, FS_Injection
<1>7. \A x \in S : \E n \in D : s[n] = x
  BY <1>6 DEF Surjection
<1> QED BY <1>1, <1>4, <1>7

\* One of a finite number of things is the heaviest.
LEMMA OneIsHeaviest ==
  ASSUME NEW S, IsFiniteSet(S), S # {}, NEW w, \A x \in S : w[x] \in Int
  PROVE  \E x \in S : \A y \in S : w[y] <= w[x]
<1> DEFINE Bad == {s \in SUBSET S : s # {} /\ ~ \E x \in s : \A y \in s : w[y] <= w[x]}
<1>1. Bad = {}
  <2>1. SUFFICES ASSUME Bad # {} PROVE FALSE
    OBVIOUS
  <2>2. PICK s \in Bad : \A u \in Bad : u \subseteq s => u = s
    <3>1. Bad \in SUBSET SUBSET S
      OBVIOUS
    <3> HIDE DEF Bad
    <3> QED BY <2>1, <3>1, SmallestSet
  <2>3. PICK a \in s : TRUE
    BY <2>2
  <2>4. CASE s = {a}
    BY <2>2, <2>4
  <2>5. CASE s # {a}
    <3>1. s \ {a} # {} /\ s \ {a} \in SUBSET S /\ s \ {a} \notin Bad
      BY <2>2, <2>3, <2>5
    <3>2. PICK x \in s \ {a} : \A y \in s \ {a} : w[y] <= w[x]
      BY <3>1
    <3>3. w[a] \in Int /\ w[x] \in Int /\ \A y \in s : w[y] \in Int
      BY <2>2, <2>3
    <3>4. CASE w[a] <= w[x]
      <4>1. \A y \in s : w[y] <= w[x] BY <3>2, <3>4
      <4> QED BY <2>2, <4>1
    <3>5. CASE w[x] <= w[a]
      <4>1. \A y \in s : w[y] <= w[a] BY <3>2, <3>3, <3>5
      <4> QED BY <2>2, <2>3, <4>1
    <3> QED BY <3>3, <3>4, <3>5
  <2> QED BY <2>4, <2>5
<1>2. S \notin Bad
  BY <1>1
<1> QED BY <1>2

\* s has the lighter before the heavier.
Ascending(s, w) == \A i, j \in 1..Len(s) : i < j => w[s[i]] <= w[s[j]]

\* A listing of all but the heaviest is completed by the heaviest.
LEMMA HeaviestComesLast ==
  ASSUME NEW S, IsFiniteSet(S), NEW w, NEW x \in S, \A y \in S : w[y] <= w[x],
         NEW s \in SetToSeqs(S \ {x}), Ascending(s, w)
  PROVE  Append(s, x) \in SetToSeqs(S) /\ Ascending(Append(s, x), w)
<1> DEFINE t == Append(s, x)
           n == Cardinality(S \ {x})
<1>1. IsFiniteSet(S \ {x}) /\ Cardinality(S) = n + 1 /\ n \in Nat
  <2>1. IsFiniteSet(S \ {x}) /\ Cardinality(S \ {x}) = Cardinality(S) - 1
    BY FS_RemoveElement
  <2>2. Cardinality(S) \in Nat /\ Cardinality(S \ {x}) \in Nat
    BY <2>1, FS_CardinalityType
  <2> QED BY <2>1, <2>2
<1>2. s \in Seq(S \ {x}) /\ Len(s) = n
  BY <1>1, ListingLists
<1>3. s \in Seq(S)
  BY <1>2
<1>4. /\ t \in Seq(S) /\ Len(t) = n + 1
      /\ \A i \in 1..n : t[i] = s[i]
      /\ t[n + 1] = x
  <2>1. /\ t \in Seq(S) /\ Len(t) = Len(s) + 1
        /\ \A i \in 1..Len(s) : t[i] = s[i]
        /\ t[Len(s) + 1] = x
    BY <1>3, AppendProperties
  <2> QED BY <1>2, <2>1
<1>5. t \in [1..(n + 1) -> S]
  BY <1>4, LenProperties
<1>6. \A i \in 1..n : s[i] \in S \ {x}
  BY <1>2, ElementOfSeq
<1>7. \A i, j \in 1..n : i # j => s[i] # s[j]
  BY DEF SetToSeqs
<1> HIDE DEF t, n
<1>8. \A i, j \in 1..(n + 1) : i # j => t[i] # t[j]
  <2> SUFFICES ASSUME NEW i \in 1..(n + 1), NEW j \in 1..(n + 1), i # j PROVE t[i] # t[j]
    OBVIOUS
  <2>1. CASE i \in 1..n /\ j \in 1..n
    BY <1>4, <1>7, <2>1
  <2>2. CASE i = n + 1 \/ j = n + 1
    <3>1. i \in 1..n \/ j \in 1..n
      BY <1>1, <2>2
    <3> QED BY <1>4, <1>6, <2>2, <3>1
  <2> QED BY <1>1, <2>1, <2>2
<1>9. t \in SetToSeqs(S)
  BY <1>1, <1>5, <1>8 DEF SetToSeqs
<1>10. \A i, j \in 1..(n + 1) : i < j => w[t[i]] <= w[t[j]]
  <2> SUFFICES ASSUME NEW i \in 1..(n + 1), NEW j \in 1..(n + 1), i < j PROVE w[t[i]] <= w[t[j]]
    OBVIOUS
  <2>1. i \in 1..n
    BY <1>1
  <2>2. CASE j \in 1..n
    BY <1>2, <1>4, <2>1, <2>2 DEF Ascending
  <2>3. CASE j = n + 1
    BY <1>4, <1>6, <2>1, <2>3
  <2> QED BY <1>1, <2>2, <2>3
<1> QED BY <1>4, <1>9, <1>10 DEF Ascending, t

\* So every finite set has such a listing.
LEMMA SortedListing ==
  ASSUME NEW S, IsFiniteSet(S), NEW w, \A x \in S : w[x] \in Int
  PROVE  \E s \in SetToSeqs(S) : Ascending(s, w)
<1> DEFINE Bad == {u \in SUBSET S : ~ \E s \in SetToSeqs(u) : Ascending(s, w)}
<1>1. Bad = {}
  <2>1. SUFFICES ASSUME Bad # {} PROVE FALSE
    OBVIOUS
  <2>2. PICK u \in Bad : \A v \in Bad : v \subseteq u => v = u
    <3>1. Bad \in SUBSET SUBSET S
      OBVIOUS
    <3> HIDE DEF Bad
    <3> QED BY <2>1, <3>1, SmallestSet
  <2>3. CASE u = {}
    <3>1. 1..Cardinality(u) = {}
      BY <2>3, FS_EmptySet
    <3>2. <<>> \in SetToSeqs(u)
      BY <3>1 DEF SetToSeqs
    <3>3. Ascending(<<>>, w)
      BY DEF Ascending
    <3> QED BY <2>2, <3>2, <3>3
  <2>4. CASE u # {}
    <3>1. u \in SUBSET S /\ IsFiniteSet(u)
      BY <2>2, FS_Subset
    <3>2. PICK x \in u : \A y \in u : w[y] <= w[x]
      BY <2>4, <3>1, OneIsHeaviest
    <3>3. u \ {x} \notin Bad /\ u \ {x} \in SUBSET S
      BY <2>2, <3>1, <3>2
    <3>4. PICK s \in SetToSeqs(u \ {x}) : Ascending(s, w)
      BY <3>3
    <3>5. Append(s, x) \in SetToSeqs(u) /\ Ascending(Append(s, x), w)
      BY <3>1, <3>2, <3>4, HeaviestComesLast
    <3> QED BY <2>2, <3>5
  <2> QED BY <2>3, <2>4
<1>2. S \notin Bad
  BY <1>1
<1> QED BY <1>2

-----------------------------------------------------------------------------
(* What AccountContext reads out of a ledger.                              *)

Amounts == [i \in Invoices |-> Invoice[i].amount]

\* What some invoices come to.
Owing(S) == MapThenSumSet(LAMBDA i : Invoice[i].amount, S)

\* It is a sum of weights, whichever invoices they are.
LEMMA OwingIsSum ==
  ASSUME NEW S \in SUBSET Invoices
  PROVE  Owing(S) = SumOf(Amounts, S)
<1> DEFINE IsOwing(f) ==
      f = [s \in SUBSET S |-> IF s = {} THEN 0 ELSE Invoice[SomeOf(s)].amount + f[s \ {SomeOf(s)}]]
<1>1. Owing(S) = (CHOOSE f : IsOwing(f))[S]
  BY DEF Owing, MapThenSumSet, MapThenFoldSet, SomeOf
<1>2. \A s \in SUBSET S : s # {} => Amounts[SomeOf(s)] = Invoice[SomeOf(s)].amount
  BY DEF SomeOf, Amounts
<1>3. ASSUME NEW f PROVE IsOwing(f) <=> IsSum(f, Amounts, S)
  <2>1. [s \in SUBSET S |-> IF s = {} THEN 0 ELSE Invoice[SomeOf(s)].amount + f[s \ {SomeOf(s)}]]
        = [s \in SUBSET S |-> IF s = {} THEN 0 ELSE Amounts[SomeOf(s)] + f[s \ {SomeOf(s)}]]
    BY <1>2
  <2> QED BY <2>1 DEF IsSum
<1>4. (CHOOSE f : IsOwing(f)) = CHOOSE f : IsSum(f, Amounts, S)
  <2> HIDE DEF IsOwing
  <2> QED BY <1>3
<1> QED BY <1>1, <1>4 DEF SumOf, Sums

\* So it is a number, and fewer invoices never come to more.
LEMMA OwingLess ==
  ASSUME NEW S \in SUBSET Invoices, NEW T \in SUBSET S
  PROVE  Owing(S) \in Nat /\ Owing(T) \in Nat /\ Owing(T) <= Owing(S)
<1>1. IsFiniteSet(S) /\ IsFiniteSet(T)
  BY OpenItemsAssumption, FS_Subset
<1>2. Weighted(Amounts, S) /\ Weighted(Amounts, T)
  BY OpenItemsAssumption DEF Weighted, Amounts
<1>3. Owing(S) = SumOf(Amounts, S) /\ Owing(T) = SumOf(Amounts, T)
  BY OwingIsSum
<1>4. SumOf(Amounts, S) \in Nat /\ SumOf(Amounts, T) \in Nat
  BY <1>1, <1>2, SumIsNat
<1>5. SumOf(Amounts, T) <= SumOf(Amounts, S)
  BY <1>1, <1>2, SumIsMonotone
<1> QED BY <1>3, <1>4, <1>5

\* The open invoices are listed, the oldest due first.
LEMMA OldestAreFirst ==
  ASSUME NEW S \in SUBSET Invoices
  PROVE  /\ OldestDueFirst(S) \in SetToSeqs(S)
         /\ \A i, j \in 1..Len(OldestDueFirst(S)) : i < j =>
              Invoice[OldestDueFirst(S)[i]].due <= Invoice[OldestDueFirst(S)[j]].due
<1> DEFINE due == [i \in S |-> Invoice[i].due]
           Sorted(s) == \A i, j \in 1..Len(s) : i < j => Invoice[s[i]].due <= Invoice[s[j]].due
<1>1. IsFiniteSet(S) /\ \A i \in S : due[i] \in Int
  BY OpenItemsAssumption, FS_Subset
<1>2. PICK s \in SetToSeqs(S) : Ascending(s, due)
  <2> HIDE DEF due
  <2> QED BY <1>1, SortedListing
<1>3. \A n \in 1..Len(s) : s[n] \in S
  BY <1>1, ListingLists, ElementOfSeq
<1>4. Sorted(s)
  BY <1>2, <1>3 DEF Ascending
<1>5. OldestDueFirst(S) = CHOOSE t \in SetToSeqs(S) : Sorted(t)
  BY DEF OldestDueFirst, IsSorted
<1> HIDE DEF Sorted
<1>6. OldestDueFirst(S) \in SetToSeqs(S) /\ Sorted(OldestDueFirst(S))
  BY <1>2, <1>4, <1>5
<1> QED BY <1>6 DEF Sorted

\* The others are listed too, in an order that says nothing about what is owed.
LEMMA NewestAreListed ==
  ASSUME NEW S \in SUBSET Invoices
  PROVE  NewestFirst(S) \in SetToSeqs(S)
<1> DEFINE age == [i \in S |-> - Invoice[i].issued]
           Sorted(s) == \A i, j \in 1..Len(s) : i < j => Invoice[s[i]].issued >= Invoice[s[j]].issued
<1>1. /\ IsFiniteSet(S)
      /\ \A i \in S : Invoice[i].issued \in Nat /\ age[i] \in Int /\ age[i] = - Invoice[i].issued
  BY OpenItemsAssumption, FS_Subset
<1> HIDE DEF age
<1>2. PICK s \in SetToSeqs(S) : Ascending(s, age)
  BY <1>1, SortedListing
<1>3. \A n \in 1..Len(s) : s[n] \in S
  BY <1>1, ListingLists, ElementOfSeq
<1>4. Sorted(s)
  <2> SUFFICES ASSUME NEW i \in 1..Len(s), NEW j \in 1..Len(s), i < j
               PROVE  Invoice[s[i]].issued >= Invoice[s[j]].issued
    OBVIOUS
  <2>1. age[s[i]] <= age[s[j]]
    BY <1>2 DEF Ascending
  <2> QED BY <1>1, <1>3, <2>1
<1>5. NewestFirst(S) = CHOOSE t \in SetToSeqs(S) : Sorted(t)
  BY DEF NewestFirst, IsSorted
<1> HIDE DEF Sorted
<1> QED BY <1>2, <1>4, <1>5

\* What is read out is the beginning of a list.
LEMMA ReadOutIsTheBeginning ==
  ASSUME NEW S, NEW s \in Seq(S)
  PROVE  /\ ReadOut(s) \in Seq(S)
         /\ Len(ReadOut(s)) = Min({MaxInvoices, Len(s)})
         /\ Len(ReadOut(s)) \in 0..Len(s)
         /\ \A n \in 1..Len(ReadOut(s)) : ReadOut(s)[n] = s[n]
<1> DEFINE shown == Min({MaxInvoices, Len(s)})
<1>1. Len(s) \in Nat /\ MaxInvoices \in Nat
  BY AccountContextAssumption, LenProperties
<1>2. \E n \in {MaxInvoices, Len(s)} : \A k \in {MaxInvoices, Len(s)} : n <= k
  BY <1>1
<1>3. shown \in {MaxInvoices, Len(s)} /\ \A k \in {MaxInvoices, Len(s)} : shown <= k
  BY <1>2 DEF Min
<1>4. shown \in Nat /\ shown <= Len(s)
  BY <1>1, <1>3
<1>5. \A n \in 1..shown : s[n] \in S
  BY <1>1, <1>4, ElementOfSeq
<1>6. ReadOut(s) = SubSeq(s, 1, shown)
  BY DEF ReadOut
<1> HIDE DEF shown
<1>7. /\ SubSeq(s, 1, shown) \in Seq(S)
      /\ Len(SubSeq(s, 1, shown)) = IF 1 <= shown THEN shown - 1 + 1 ELSE 0
      /\ \A n \in 1..(shown - 1 + 1) : SubSeq(s, 1, shown)[n] = s[1 + n - 1]
  BY <1>4, <1>5, SubSeqProperties
<1>8. Len(SubSeq(s, 1, shown)) = shown
  BY <1>4, <1>7
<1>9. ASSUME NEW n \in 1..shown PROVE SubSeq(s, 1, shown)[n] = s[n]
  <2>1. n \in 1..(shown - 1 + 1) /\ 1 + n - 1 = n
    BY <1>4
  <2> QED BY <1>7, <2>1
<1>10. Len(ReadOut(s)) \in 0..Len(s)
  BY <1>1, <1>4, <1>6, <1>8
<1>11. ReadOut(s) \in Seq(S) /\ Len(ReadOut(s)) = shown
  BY <1>6, <1>7, <1>8
<1>12. \A n \in 1..Len(ReadOut(s)) : ReadOut(s)[n] = s[n]
  BY <1>6, <1>9, <1>11
<1> QED BY <1>10, <1>11, <1>12 DEF shown

-----------------------------------------------------------------------------
(* What a reading has gathered, and what is owed now.                      *)

ReadingStates ==
  [pc : ReadingPcs, call : Calls \cup {"none"}, customer : Accounts \cup {Nobody},
   contact : Contacts \cup {Nobody}, open : Seq(Invoices), count : Nat, total : Nat,
   recent : Seq(Invoices), crm : BOOLEAN, reply : ReadingReplies]

\* Everything that is owed has been taken into account by r.
Complete(r) ==
  LET open == InvoicesOf(r.customer) \cap owed
      shown == ToSet(r.open)
  IN  /\ r.total >= Owing(open)
      /\ r.count >= Cardinality(open)
      /\ Len(r.open) = Min({MaxInvoices, r.count})
      /\ \A i \in shown, j \in open \ shown : Invoice[i].due <= Invoice[j].due
      /\ ToSet(r.recent) \cap open = {}

\* What r would read out belongs to whom it is for.
OnesOwn(r) == ToSet(r.open) \cup ToSet(r.recent) \subseteq InvoicesOf(r.customer)

\* What holds of a reading at each of its program points.
ReadingOK(r) ==
  /\ r.pc # "idle" => r.call \in Calls
  /\ r.pc # "done" => r.reply = "none"
  /\ r.pc \in {"ledger", "crm", "summary"} \/ r.reply = "OK" => ProvedFor(r.call, r.customer)
  /\ r.pc \in {"crm", "summary"} \/ r.reply = "OK" => OnesOwn(r) /\ Complete(r)

ReadingInv ==
  /\ OpenItemsTypeOK
  /\ reading \in [Readings -> ReadingStates]
  /\ \A x \in Readings : ReadingOK(reading[x])

\* A whole account's invoices, read at once, are complete.
LEMMA ReadingIsComplete ==
  ASSUME OpenItemsTypeOK, NEW r, NEW mine, mine = InvoicesOf(r.customer),
         NEW open, open = OldestDueFirst(mine \cap owed),
         r.open = ReadOut(open), r.count = Len(open), r.total = Total(open),
         r.recent = ReadOut(NewestFirst(mine \ owed))
  PROVE  /\ r.open \in Seq(Invoices) /\ r.recent \in Seq(Invoices)
         /\ r.count \in Nat /\ r.total \in Nat
         /\ OnesOwn(r) /\ Complete(r)
<1> DEFINE due == mine \cap owed
           rest == mine \ owed
           recent == NewestFirst(rest)
<1>1. due \in SUBSET Invoices /\ rest \in SUBSET Invoices /\ due \cap rest = {} /\ mine \subseteq Invoices
  BY DEF InvoicesOf
<1>2. IsFiniteSet(due) /\ IsFiniteSet(rest)
  BY <1>1, OpenItemsAssumption, FS_Subset
<1>3. open \in SetToSeqs(due) /\ recent \in SetToSeqs(rest)
  BY <1>1, OldestAreFirst, NewestAreListed
<1>4. \A i, j \in 1..Len(open) : i < j => Invoice[open[i]].due <= Invoice[open[j]].due
  BY <1>1, OldestAreFirst
<1> HIDE DEF due, rest, recent
<1>5. /\ open \in Seq(due) /\ Len(open) = Cardinality(due) /\ Cardinality(due) \in Nat
      /\ \A i \in due : \E n \in 1..Len(open) : open[n] = i
  BY <1>2, <1>3, ListingLists
<1>6. recent \in Seq(rest)
  BY <1>2, <1>3, ListingLists
<1>7. /\ r.open \in Seq(due) /\ Len(r.open) = Min({MaxInvoices, Len(open)})
      /\ Len(r.open) \in 0..Len(open)
      /\ \A n \in 1..Len(r.open) : r.open[n] = open[n]
  <2>1. PICK list \in Seq(due) : list = open
    BY <1>5
  <2>2. /\ ReadOut(list) \in Seq(due) /\ Len(ReadOut(list)) = Min({MaxInvoices, Len(list)})
        /\ Len(ReadOut(list)) \in 0..Len(list)
        /\ \A n \in 1..Len(ReadOut(list)) : ReadOut(list)[n] = list[n]
    BY ReadOutIsTheBeginning
  <2>3. r.open = ReadOut(list)
    BY <2>1
  <2> QED BY <2>1, <2>2, <2>3
<1>8. r.recent = ReadOut(recent)
  BY DEF recent, rest
<1>9. r.recent \in Seq(rest)
  BY <1>6, <1>8, ReadOutIsTheBeginning
<1>10. DOMAIN r.open = 1..Len(r.open) /\ DOMAIN open = 1..Len(open)
  BY <1>5, <1>7, LenProperties
<1>11. ToSet(r.open) \subseteq due
  BY <1>7, <1>10, ElementOfSeq DEF ToSet
<1>12. ToSet(r.recent) \subseteq rest
  BY <1>9, LenProperties, ElementOfSeq DEF ToSet
<1>13. ToSet(open) = due
  <2>1. \A n \in 1..Len(open) : open[n] \in due
    BY <1>5, ElementOfSeq
  <2> QED BY <1>5, <1>10, <2>1 DEF ToSet
<1>14. r.total = Owing(due)
  BY <1>13 DEF Total, Owing
<1>15. r.open \in Seq(Invoices) /\ r.recent \in Seq(Invoices)
  BY <1>1, <1>7, <1>9, SeqMonotonic
<1>16. ASSUME NEW i \in ToSet(r.open), NEW j \in due \ ToSet(r.open)
       PROVE  Invoice[i].due <= Invoice[j].due
  <2>1. PICK n \in 1..Len(r.open) : r.open[n] = i
    BY <1>10 DEF ToSet
  <2>2. PICK m \in 1..Len(open) : open[m] = j
    BY <1>5
  <2>3. m \notin 1..Len(r.open)
    BY <1>7, <1>10, <2>2 DEF ToSet
  <2>4. Len(open) \in Nat /\ Len(r.open) \in Nat /\ Len(r.open) <= Len(open)
    BY <1>5, <1>7
  <2>5. n < m /\ n \in 1..Len(open)
    BY <2>1, <2>2, <2>3, <2>4
  <2>6. open[n] = i
    BY <1>7, <2>1
  <2> QED BY <1>4, <2>2, <2>5, <2>6
<1>17. OnesOwn(r)
  BY <1>11, <1>12 DEF OnesOwn, due, rest
<1>18. r.total \in Nat /\ r.total >= Owing(due)
  BY <1>1, <1>14, OwingLess
<1>19. r.count \in Nat /\ r.count = Cardinality(due) /\ r.count >= Cardinality(due)
  BY <1>5
<1>20. Len(r.open) = Min({MaxInvoices, r.count})
  BY <1>7
<1>21. ToSet(r.recent) \cap due = {}
  BY <1>1, <1>12
<1>22. InvoicesOf(r.customer) \cap owed = due
  BY DEF due
<1>23. Complete(r)
  BY <1>16, <1>18, <1>19, <1>20, <1>21, <1>22 DEF Complete
<1> QED BY <1>15, <1>17, <1>18, <1>19, <1>23

\* It stays so while invoices are settled.
LEMMA CompleteStaysComplete ==
  ASSUME OpenItemsTypeOK, owed' \subseteq owed, NEW r, Complete(r), r.total \in Nat, r.count \in Nat
  PROVE  Complete(r)'
<1>1. PICK before : before = InvoicesOf(r.customer) \cap owed
  OBVIOUS
<1>2. PICK after : after = InvoicesOf(r.customer) \cap owed'
  OBVIOUS
<1>3. before \in SUBSET Invoices /\ after \in SUBSET before
  BY <1>1, <1>2 DEF InvoicesOf
<1>4. Owing(before) \in Nat /\ Owing(after) \in Nat /\ Owing(after) <= Owing(before)
  BY <1>3, OwingLess
<1>5. IsFiniteSet(before) /\ IsFiniteSet(after)
  BY <1>3, OpenItemsAssumption, FS_Subset
<1>6. Cardinality(after) <= Cardinality(before)
  BY <1>3, <1>5, FS_Subset
<1>7. Cardinality(after) \in Nat /\ Cardinality(before) \in Nat
  BY <1>5, FS_CardinalityType
<1>8. /\ r.total >= Owing(before) /\ r.count >= Cardinality(before)
      /\ Len(r.open) = Min({MaxInvoices, r.count})
      /\ \A i \in ToSet(r.open), j \in before \ ToSet(r.open) : Invoice[i].due <= Invoice[j].due
      /\ ToSet(r.recent) \cap before = {}
  BY <1>1 DEF Complete
<1>9. /\ r.total >= Owing(after) /\ r.count >= Cardinality(after)
      /\ \A i \in ToSet(r.open), j \in after \ ToSet(r.open) : Invoice[i].due <= Invoice[j].due
      /\ ToSet(r.recent) \cap after = {}
  BY <1>3, <1>4, <1>6, <1>7, <1>8
<1> QED BY <1>2, <1>8, <1>9 DEF Complete, InvoicesOf

-----------------------------------------------------------------------------
(* What a reading is told, step by step.                                   *)

\* One step of a reading leaves it a state a reading can be in.
LEMMA GatherMoves ==
  ASSUME reading \in [Readings -> ReadingStates], NEW x \in Readings, NEW pc \in ReadingPcs,
         NEW fields \in ReadingStates, Gather(x, pc, fields)
  PROVE  /\ reading' \in [Readings -> ReadingStates]
         /\ reading'[x] = [fields EXCEPT !.pc = pc]
         /\ \A y \in Readings \ {x} : reading'[y] = reading[y]
<1>1. [fields EXCEPT !.pc = pc] \in ReadingStates
  BY DEF ReadingStates
<1> QED BY <1>1 DEF Gather

\* A new reading has gathered nothing and says nothing.
LEMMA NewReadingIsEmpty ==
  /\ NewReading \in ReadingStates
  /\ \A c \in Calls : [NewReading EXCEPT !.call = c] \in ReadingStates
  /\ \A c \in Calls : [NewReading EXCEPT !.call = c, !.reply = "SERVICE_UNAVAILABLE"] \in ReadingStates
<1>1. <<>> \in Seq(Invoices)
  BY EmptySeq
<1> QED BY <1>1 DEF NewReading, ReadingStates, ReadingPcs, ReadingReplies

\* Each step of a reading keeps it about the account it was let in for, and
\* complete.
LEMMA ReadingStepIsOwn ==
  ASSUME VerifiedIsProved, ReadingInv, NEW x \in Readings, ReadingStep(x)
  PROVE  /\ reading' \in [Readings -> ReadingStates] /\ ReadingOK(reading'[x])
         /\ \A y \in Readings \ {x} : reading'[y] = reading[y]
<1> DEFINE q == reading[x]
           Goal == /\ reading' \in [Readings -> ReadingStates] /\ ReadingOK(reading'[x])
                   /\ \A y \in Readings \ {x} : reading'[y] = reading[y]
<1>1. q \in ReadingStates /\ ReadingOK(q) /\ reading \in [Readings -> ReadingStates]
  BY DEF ReadingInv
<1>2. /\ ReadingPcs = {"idle", "gate", "ledger", "crm", "summary", "done"}
      /\ ReadingReplies = {"OK", "NOT_AUTHORIZED", "SERVICE_UNAVAILABLE", "none"}
  BY DEF ReadingPcs, ReadingReplies
<1>3. ASSUME NEW fields \in ReadingStates, NEW pc \in ReadingPcs, Gather(x, pc, fields),
             NEW r, r = [fields EXCEPT !.pc = pc], ReadingOK(r)
      PROVE  Goal
  BY <1>1, <1>3, GatherMoves
<1>4. CASE PassReadingGate(x)
  <2>1. q.pc = "gate" /\ q.reply = "none" /\ q.call \in Calls
    BY <1>1, <1>4 DEF PassReadingGate, ReadingOK
  <2>2. CASE AnswerReading(x, "NOT_AUTHORIZED")
    <3>1. PICK fields : fields = [q EXCEPT !.reply = "NOT_AUTHORIZED"]
      OBVIOUS
    <3>2. PICK r : r = [fields EXCEPT !.pc = "done"]
      OBVIOUS
    <3>3. fields \in ReadingStates
      BY <1>1, <1>2, <3>1 DEF ReadingStates
    <3>4. r.pc = "done" /\ r.reply = "NOT_AUTHORIZED" /\ r.call = q.call
      BY <1>1, <3>1, <3>2 DEF ReadingStates
    <3>5. ReadingOK(r)
      BY <2>1, <3>4 DEF ReadingOK
    <3> QED BY <1>2, <1>3, <2>2, <3>1, <3>2, <3>3, <3>5 DEF AnswerReading
  <2>3. CASE /\ Verified(q.call)
             /\ Gather(x, "ledger", [q EXCEPT !.customer = gate[q.call].customer,
                                             !.contact = gate[q.call].contact])
    <3>1. PICK fields : fields = [q EXCEPT !.customer = gate[q.call].customer,
                                           !.contact = gate[q.call].contact]
      OBVIOUS
    <3>2. PICK r : r = [fields EXCEPT !.pc = "ledger"]
      OBVIOUS
    <3>3. /\ gate[q.call].contact \in Contacts
          /\ gate[q.call].customer = Stored[gate[q.call].contact]["customer_id"]
          /\ Proved(q.call, gate[q.call].contact)
      BY <2>1, <2>3 DEF VerifiedIsProved
    <3>4. gate[q.call].customer \in Accounts /\ ProvedFor(q.call, gate[q.call].customer)
      BY <3>3 DEF Accounts, ProvedFor
    <3>5. fields \in ReadingStates
      BY <1>1, <3>1, <3>3, <3>4 DEF ReadingStates
    <3>6. /\ r.pc = "ledger" /\ r.reply = "none" /\ r.call = q.call
          /\ r.customer = gate[q.call].customer
      BY <1>1, <2>1, <3>1, <3>2 DEF ReadingStates
    <3>7. ReadingOK(r)
      BY <2>1, <3>4, <3>6 DEF ReadingOK
    <3> QED BY <1>2, <1>3, <2>3, <3>1, <3>2, <3>5, <3>7
  <2> QED BY <1>4, <2>2, <2>3 DEF PassReadingGate
<1>5. CASE ReadInvoices(x)
  <2> DEFINE mine == InvoicesOf(q.customer)
             open == OldestDueFirst(mine \cap owed)
             recent == NewestFirst(mine \ owed)
  <2>1. q.pc = "ledger" /\ q.reply = "none" /\ q.call \in Calls /\ ProvedFor(q.call, q.customer)
    BY <1>1, <1>5 DEF ReadInvoices, ReadingOK
  <2>2. PICK fields : fields = [q EXCEPT
           !.open = ReadOut(open), !.count = Len(open), !.total = Total(open), !.recent = ReadOut(recent)]
    OBVIOUS
  <2>3. PICK r : r = [fields EXCEPT !.pc = "crm"]
    OBVIOUS
  <2>4. Gather(x, "crm", fields)
    BY <1>5, <2>2 DEF ReadInvoices
  <2> HIDE DEF mine, open, recent
  <2>5. /\ fields.open = ReadOut(open) /\ fields.count = Len(open) /\ fields.total = Total(open)
        /\ fields.recent = ReadOut(recent)
        /\ r.open = ReadOut(open) /\ r.count = Len(open) /\ r.total = Total(open)
        /\ r.recent = ReadOut(recent)
        /\ r.customer = q.customer /\ r.pc = "crm" /\ r.call = q.call /\ r.reply = "none"
    BY <1>1, <2>1, <2>2, <2>3 DEF ReadingStates
  <2>6. mine = InvoicesOf(r.customer) /\ open = OldestDueFirst(mine \cap owed)
        /\ r.recent = ReadOut(NewestFirst(mine \ owed))
    BY <2>5 DEF mine, open, recent
  <2>7. /\ r.open \in Seq(Invoices) /\ r.recent \in Seq(Invoices)
        /\ r.count \in Nat /\ r.total \in Nat
        /\ OnesOwn(r) /\ Complete(r)
    BY <2>5, <2>6, ReadingIsComplete DEF ReadingInv
  <2>8. fields \in ReadingStates
    BY <1>1, <2>2, <2>5, <2>7 DEF ReadingStates
  <2>9. ReadingOK(r)
    BY <2>1, <2>5, <2>7 DEF ReadingOK
  <2> QED BY <1>2, <1>3, <2>3, <2>4, <2>8, <2>9
<1>6. ASSUME q.pc \in {"crm", "summary"},
             NEW fields \in ReadingStates, NEW pc \in {"summary", "done"}, Gather(x, pc, fields),
             fields.reply = IF pc = "done" THEN "OK" ELSE "none",
             fields.call = q.call, fields.customer = q.customer, fields.open = q.open,
             fields.count = q.count, fields.total = q.total, fields.recent = q.recent
      PROVE  Goal
  <2>1. PICK r : r = [fields EXCEPT !.pc = pc]
    OBVIOUS
  <2>2. /\ r.pc = pc /\ r.reply = fields.reply /\ r.call = q.call /\ r.customer = q.customer
        /\ r.open = q.open /\ r.count = q.count /\ r.total = q.total /\ r.recent = q.recent
    BY <1>6, <2>1 DEF ReadingStates
  <2>3. q.call \in Calls /\ ProvedFor(q.call, q.customer) /\ OnesOwn(q) /\ Complete(q)
    BY <1>1, <1>6 DEF ReadingOK
  <2>4. OnesOwn(r) /\ Complete(r) /\ ProvedFor(r.call, r.customer)
    BY <2>2, <2>3 DEF OnesOwn, Complete
  <2>5. ReadingOK(r)
    BY <1>6, <2>2, <2>3, <2>4 DEF ReadingOK
  <2> QED BY <1>2, <1>3, <1>6, <2>1, <2>5
<1>7. CASE ReadCrm(x)
  <2>1. q.pc = "crm" /\ q.reply = "none"
    BY <1>1, <1>7 DEF ReadCrm, ReadingOK
  <2>2. PICK known \in BOOLEAN : Gather(x, "summary", [q EXCEPT !.crm = known])
    <3>1. (q.contact \in InCrm) \in BOOLEAN
      OBVIOUS
    <3>2. CASE Gather(x, "summary", [q EXCEPT !.crm = q.contact \in InCrm])
      <4> HIDE DEF Goal
      <4> QED BY <3>1, <3>2
    <3>3. CASE Gather(x, "summary", q)
      <4>1. q = [q EXCEPT !.crm = q.crm] /\ q.crm \in BOOLEAN
        BY <1>1 DEF ReadingStates
      <4>2. Gather(x, "summary", [q EXCEPT !.crm = q.crm])
        BY <3>3, <4>1
      <4> QED BY <4>1, <4>2
    <3> QED BY <1>7, <3>2, <3>3 DEF ReadCrm
  <2>3. [q EXCEPT !.crm = known] \in ReadingStates
    BY <1>1 DEF ReadingStates
  <2>4. PICK fields : fields = [q EXCEPT !.crm = known]
    OBVIOUS
  <2>5. /\ fields.reply = "none"
        /\ fields.call = q.call /\ fields.customer = q.customer /\ fields.open = q.open
        /\ fields.count = q.count /\ fields.total = q.total /\ fields.recent = q.recent
    BY <1>1, <2>1, <2>4 DEF ReadingStates
  <2> QED BY <1>6, <2>1, <2>2, <2>3, <2>4, <2>5
<1>8. CASE ReadSummaryText(x)
  <2>1. q.pc = "summary"
    BY <1>8 DEF ReadSummaryText
  <2>2. PICK fields : fields = [q EXCEPT !.reply = "OK"]
    OBVIOUS
  <2>3. fields \in ReadingStates
    BY <1>1, <1>2, <2>2 DEF ReadingStates
  <2>4. Gather(x, "done", fields)
    BY <1>8, <2>2 DEF ReadSummaryText, AnswerReading
  <2>5. /\ fields.reply = "OK"
        /\ fields.call = q.call /\ fields.customer = q.customer /\ fields.open = q.open
        /\ fields.count = q.count /\ fields.total = q.total /\ fields.recent = q.recent
    BY <1>1, <2>2 DEF ReadingStates
  <2> QED BY <1>6, <2>1, <2>3, <2>4, <2>5
<1>9. CASE FailReading(x)
  <2>1. q.call \in Calls
    BY <1>1, <1>9 DEF FailReading, ReadingOK
  <2>2. PICK fields : fields = [NewReading EXCEPT !.call = q.call, !.reply = "SERVICE_UNAVAILABLE"]
    OBVIOUS
  <2>3. PICK r : r = [fields EXCEPT !.pc = "done"]
    OBVIOUS
  <2>4. fields \in ReadingStates
    BY <2>1, <2>2, NewReadingIsEmpty
  <2>5. r.pc = "done" /\ r.reply = "SERVICE_UNAVAILABLE" /\ r.call = q.call
    BY <2>2, <2>3 DEF NewReading
  <2>6. ReadingOK(r)
    BY <2>1, <2>5 DEF ReadingOK
  <2> QED BY <1>2, <1>3, <1>9, <2>2, <2>3, <2>4, <2>6 DEF FailReading
<1> QED BY <1>4, <1>5, <1>7, <1>8, <1>9 DEF ReadingStep

\* A reading that begins says nothing yet.
LEMMA ReadingBegins ==
  ASSUME ReadingInv, NEW x \in Readings, NEW c \in Calls, BeginReading(x, c)
  PROVE  /\ reading' \in [Readings -> ReadingStates] /\ ReadingOK(reading'[x])
         /\ \A y \in Readings \ {x} : reading'[y] = reading[y]
<1>1. PICK fields : fields = [NewReading EXCEPT !.call = c]
  OBVIOUS
<1>2. PICK r : r = [fields EXCEPT !.pc = "gate"]
  OBVIOUS
<1>3. fields \in ReadingStates /\ "gate" \in ReadingPcs
  BY <1>1, NewReadingIsEmpty DEF ReadingPcs
<1>4. Gather(x, "gate", fields)
  BY <1>1 DEF BeginReading
<1>5. r.pc = "gate" /\ r.call = c /\ r.reply = "none"
  BY <1>1, <1>2 DEF NewReading
<1>6. ReadingOK(r)
  BY <1>5 DEF ReadingOK
<1> QED BY <1>2, <1>3, <1>4, <1>6, GatherMoves DEF ReadingInv

\* The tools change nothing of the ledger: it moves by itself or not at all.
LEMMA ItemsMoveAlone ==
  ASSUME [Next]_vars
  PROVE  OpenItemsNext \/ UNCHANGED itemVars
<1>1. ASSUME NEW m \in Questions, QuestionStep(m) PROVE UNCHANGED itemVars
  BY <1>1 DEF QuestionStep, PassGate, ReadInvoice, ReadPayments, ReadAddress, FailQuestion, itemVars
<1>2. ASSUME NEW x \in Readings, ReadingStep(x) PROVE UNCHANGED itemVars
  BY <1>2 DEF ReadingStep, PassReadingGate, ReadInvoices, ReadCrm, ReadSummaryText, FailReading, itemVars
<1>3. ASSUME ToolCall PROVE UNCHANGED itemVars
  BY <1>3 DEF ToolCall, BeginQuestion, BeginReading
<1>4. ASSUME ToolStep PROVE UNCHANGED itemVars
  BY <1>1, <1>2, <1>4 DEF ToolStep
<1>5. ASSUME UNCHANGED vars PROVE UNCHANGED itemVars
  BY <1>5 DEF vars
<1> QED BY <1>3, <1>4, <1>5 DEF Next

\* What is owed never grows during the calls.
LEMMA OwedOnlyShrinks ==
  ASSUME OpenItemsTypeOK, [Next]_vars
  PROVE  OpenItemsTypeOK' /\ owed' \subseteq owed
<1>1. CASE UNCHANGED itemVars
  BY <1>1 DEF itemVars, OpenItemsTypeOK
<1>2. CASE OpenItemsNext
  BY <1>2 DEF OpenItemsNext, Settlement, Allocation, OpenItemsTypeOK
<1> QED BY <1>1, <1>2, ItemsMoveAlone

\* Every step keeps every reading about its account, and complete.
LEMMA ReadingsStayOwn ==
  ASSUME DeskInv, VerifiedIsProved, ReadingInv, [Next]_vars PROVE ReadingInv'
<1>1. AttemptsKept /\ OpenItemsTypeOK' /\ owed' \subseteq owed
  BY DeskGoesOn, OwedOnlyShrinks DEF ReadingInv
<1>2. ASSUME NEW r \in ReadingStates, ReadingOK(r) PROVE ReadingOK(r)'
  <2>1. ProvedFor(r.call, r.customer) => ProvedFor(r.call, r.customer)'
    BY <1>1, AccountStaysProved
  <2>2. r.total \in Nat /\ r.count \in Nat
    BY DEF ReadingStates
  <2>3. Complete(r) => Complete(r)'
    BY <1>1, <2>2, CompleteStaysComplete DEF ReadingInv
  <2>4. OnesOwn(r) => OnesOwn(r)'
    BY DEF OnesOwn, InvoicesOf
  <2> QED BY <1>2, <2>1, <2>3, <2>4 DEF ReadingOK
<1>3. ASSUME reading' \in [Readings -> ReadingStates], NEW x \in Readings, ReadingOK(reading'[x]),
             \A y \in Readings \ {x} : reading'[y] = reading[y]
      PROVE  ReadingInv'
  <2>1. ASSUME NEW y \in Readings PROVE ReadingOK(reading[y])'
    <3>1. PICK r : r = reading'[y]
      OBVIOUS
    <3>2. r \in ReadingStates /\ ReadingOK(r)
      BY <1>3, <3>1 DEF ReadingInv
    <3>3. ReadingOK(r)'
      BY <1>2, <3>2
    <3> QED BY <3>1, <3>3 DEF ReadingOK
  <2> QED BY <1>1, <1>3, <2>1 DEF ReadingInv
<1>4. CASE reading' = reading
  <2>1. ASSUME NEW y \in Readings PROVE ReadingOK(reading[y])'
    <3>1. PICK r : r = reading[y]
      OBVIOUS
    <3>2. r \in ReadingStates /\ ReadingOK(r) /\ r = reading'[y]
      BY <1>4, <3>1 DEF ReadingInv
    <3>3. ReadingOK(r)'
      BY <1>2, <3>2
    <3> QED BY <3>2, <3>3 DEF ReadingOK
  <2> QED BY <1>1, <1>4, <2>1 DEF ReadingInv
<1>5. ASSUME NEW x \in Readings, ReadingStep(x) PROVE ReadingInv'
  BY <1>3, <1>5, ReadingStepIsOwn
<1>6. ASSUME NEW x \in Readings, NEW c \in Calls, BeginReading(x, c) PROVE ReadingInv'
  BY <1>3, <1>6, ReadingBegins
<1> QED
  BY <1>4, <1>5, <1>6 DEF Next, ToolCall, ToolStep, CallerRowsNext, OpenItemsNext, vars

\* Nothing has been read when the calls begin.
LEMMA ReadingsStart == Init => ReadingInv
<1> SUFFICES ASSUME Init PROVE ReadingInv
  OBVIOUS
<1>1. OpenItemsTypeOK
  BY DEF Init, OpenItemsInit, OpenItemsTypeOK
<1>2. reading \in [Readings -> ReadingStates] /\ \A x \in Readings : reading[x] = NewReading
  BY NewReadingIsEmpty DEF Init, ReadingInit
<1>3. \A x \in Readings : ReadingOK(reading[x])
  BY <1>2 DEF ReadingOK, NewReading
<1> QED BY <1>1, <1>2, <1>3 DEF ReadingInv

\* What holds of a reading at each of its program points always holds.
LEMMA ReadingsAreOwn == Spec => []ReadingInv
<1>1. ReadingInv /\ VerifiedIsProved /\ DeskInv /\ [Next]_vars => ReadingInv'
  BY ReadingsStayOwn
<1> QED BY <1>1, ReadingsStart, DeskIsTyped, OnlyTheProvedAreVerified, PTL DEF Spec

-----------------------------------------------------------------------------
(* What a match says.                                                      *)

\* A near miss of the invoice's key that is neither it nor its number.
IsTypo(written, i) == written \in NearMisses[i] \ {<<>>, Invoice[i].number, Invoice[i].key}

\* What is written is a near miss exactly when it is no further from the key
\* than the policy allows.
LEMMA NearMissIsNear ==
  ASSUME NEW i \in Invoices, NEW e \in Payments
  PROVE  Payment[e].reference \in NearMisses[i]
           <=> EditDistance(Payment[e].reference, Invoice[i].key) <= TypoDistance
<1> DEFINE written == Payment[e].reference
           key == Invoice[i].key
<1>1. key \in Seq(ToSet(key)) /\ written \in Seq(ToSet(written))
  BY OpenItemsAssumption
<1>2. ToSet(written) \subseteq Written
  BY DEF Written
<1>3. NearMisses[i] = NearMissesOf(key, Written)
  BY DEF NearMisses
<1> HIDE DEF written, key
<1>4. written \in Seq(Written)
  BY <1>1, <1>2, SeqMonotonic
<1>5. written \in NearMissesOf(key, Written) <=> EditDistance(written, key) <= TypoDistance
  BY <1>1, <1>4, TheDistanceIsTheEdits
<1> QED BY <1>3, <1>5 DEF written, key

\* What a match says of the invoice i and the claim of q, relative to what is
\* listed now.
OnlyFit(q) ==
  LET result == q.result
      i == q.invoice
      p == result.payment
      written == Payment[p].reference
  IN  /\ {e \in PaymentsOf(q.customer) \cap (listed \cup {p}) : Meant(q.claim, e)} = {p}
      /\ \A j \in Invoices \ {i} : written \in {Invoice[j].number, Invoice[j].key} =>
           written \in {Invoice[i].number, Invoice[i].key}
      /\ result.link = "EXACT" <=> written \in {Invoice[i].number, Invoice[i].key}
      /\ result.link = "PROBABLE_TYPO" <=> IsTypo(written, i)
      /\ result.covers <=> Payment[p].amount >= Invoice[i].amount
      /\ result.address <=> ~Payment[p].addressMatches

\* A payment is a fit exactly when it is what the caller means.
LEMMA FitIsMeant ==
  ASSUME NEW claim, claim.amount \in Nat, claim.date \in Nat, NEW e \in Payments
  PROVE  Fits(Candidate(e), claim) <=> Meant(claim, e)
<1>1. Payment[e].date \in Nat /\ ToleranceDays \in Nat
  BY OpenItemsAssumption, PaymentMatchAssumption
<1>2. Candidate(e).status \in SettledStatuses
  BY DEF Candidate, SettledStatuses
<1>3. Candidate(e).amount = Payment[e].amount /\ Candidate(e).date = Payment[e].date
  BY DEF Candidate
<1>4. Payment[e].date - claim.date \in 0..ToleranceDays
        <=> claim.date <= Payment[e].date /\ Payment[e].date <= claim.date + ToleranceDays
  BY <1>1
<1> QED BY <1>2, <1>3, <1>4 DEF Fits, Meant

\* A payment that is judged a match says nothing of another invoice.
LEMMA JudgedFairly ==
  ASSUME NEW i \in Invoices, NEW e \in Payments, NEW result,
         result = Judge(Candidate(e), Invoice[i], KnownReferences(i)), result.status = "MATCH"
  PROVE  /\ result.payment = e
         /\ \A j \in Invoices \ {i} : Payment[e].reference \in {Invoice[j].number, Invoice[j].key} =>
              Payment[e].reference \in {Invoice[i].number, Invoice[i].key}
         /\ result.link = "EXACT" <=> Payment[e].reference \in {Invoice[i].number, Invoice[i].key}
         /\ result.link = "PROBABLE_TYPO" <=> IsTypo(Payment[e].reference, i)
         /\ result.covers <=> Payment[e].amount >= Invoice[i].amount
         /\ result.address <=> ~Payment[e].addressMatches
<1> DEFINE written == Payment[e].reference
           own == {Invoice[i].number, Invoice[i].key}
           link == ClassifyReference(written, Invoice[i].number, Invoice[i].key, KnownReferences(i))
<1>1. /\ Candidate(e).reference = written /\ Candidate(e).entry = e
      /\ Candidate(e).amount = Payment[e].amount
      /\ Candidate(e).addressMatches = Payment[e].addressMatches
      /\ Payment[e].addressMatches \in BOOLEAN
  BY OpenItemsAssumption DEF Candidate
<1>2. DOMAIN NoResult = {"status", "payment", "covers", "link", "address", "name", "missing"}
      /\ NoResult.status = "none"
  BY DEF NoResult
<1> HIDE DEF written, own, link
<1>3. CASE link = "OTHER_INVOICE"
  <2>1. result = [NoResult EXCEPT !.status = "NO_MATCH", !.link = link]
    BY <1>1, <1>3 DEF Judge, link
  <2> QED BY <1>2, <2>1
<1>4. CASE link # "OTHER_INVOICE"
  <2>1. result = [NoResult EXCEPT
                    !.status = "MATCH", !.payment = e, !.link = link,
                    !.covers = Payment[e].amount >= Invoice[i].amount,
                    !.address = ~Payment[e].addressMatches,
                    !.name = ~Candidate(e).nameMatches]
    BY <1>1, <1>4 DEF Judge, link
  <2>2. /\ result.payment = e /\ result.link = link
        /\ result.covers <=> Payment[e].amount >= Invoice[i].amount
        /\ result.address <=> ~Payment[e].addressMatches
    BY <1>2, <2>1
  <2>3. link = "EXACT" <=> written # <<>> /\ written \in own
    BY DEF ClassifyReference, link, own
  <2>4. ASSUME NEW j \in Invoices \ {i}, written \in {Invoice[j].number, Invoice[j].key},
               written # <<>>
        PROVE  written \in own
    <3>1. written \in KnownReferences(i)
      BY <2>4 DEF KnownReferences
    <3> QED BY <1>4, <2>4, <3>1 DEF ClassifyReference, link, own
  <2>5. /\ written \in own => written # <<>>
        /\ \A j \in Invoices : written \in {Invoice[j].number, Invoice[j].key} => written # <<>>
    BY OpenItemsAssumption DEF own
  <2>6. link = "EXACT" <=> written \in own
    BY <2>3, <2>5
  <2>7. \A j \in Invoices \ {i} : written \in {Invoice[j].number, Invoice[j].key} => written \in own
    BY <2>4, <2>5
  <2>8. link = "PROBABLE_TYPO" <=>
          /\ written # <<>> /\ written \notin own
          /\ EditDistance(written, Invoice[i].key) <= TypoDistance
    BY <1>4 DEF ClassifyReference, link, own
  <2>9. written \in NearMisses[i] <=> EditDistance(written, Invoice[i].key) <= TypoDistance
    BY NearMissIsNear DEF written
  <2>10. link = "PROBABLE_TYPO" <=> IsTypo(written, i)
    BY <2>8, <2>9 DEF IsTypo, own
  <2> QED BY <2>2, <2>6, <2>7, <2>10 DEF written, own
<1> QED BY <1>3, <1>4

\* A match that is made is with the only payment listed that the caller can mean.
LEMMA MatchedIsOnlyFit ==
  ASSUME OpenItemsTypeOK, NEW q, NEW r, r.customer = q.customer, r.invoice = q.invoice,
         r.claim = q.claim, q.invoice \in Invoices,
         q.claim.amount \in Nat \cup {NotSaid}, q.claim.date \in Nat \cup {NotSaid},
         r.result = MatchClaim(q.claim, Invoice[q.invoice], Candidates(q.customer),
                               KnownReferences(q.invoice)),
         r.result.status = "MATCH"
  PROVE  OnlyFit(r)
<1> DEFINE claim == q.claim
           result == r.result
           i == q.invoice
           fitting == {p \in Candidates(q.customer) : Fits(p, claim)}
           known == KnownReferences(i)
           meant == {e \in PaymentsOf(q.customer) \cap listed : Meant(claim, e)}
<1>1. NoResult.status = "none" /\ "status" \in DOMAIN NoResult /\ "missing" \in DOMAIN NoResult
  BY DEF NoResult
<1>2. Missing(claim) = {}
  <2>1. CASE Missing(claim) # {}
    <3>1. result = [NoResult EXCEPT !.status = "INSUFFICIENT", !.missing = Missing(claim)]
      BY <2>1 DEF MatchClaim
    <3> QED BY <1>1, <3>1
  <2> QED BY <2>1
<1>3. claim.amount \in Nat /\ claim.date \in Nat
  BY <1>2 DEF Missing
<1>4. \A e \in Payments : Fits(Candidate(e), claim) <=> Meant(claim, e)
  BY <1>3, FitIsMeant
<1>5. fitting = {Candidate(e) : e \in meant}
  BY <1>4 DEF Candidates, PaymentsOf
<1>6. fitting # {} /\ ~(Cardinality(fitting) > 1)
      /\ result = Judge(CHOOSE p \in fitting : TRUE, Invoice[i], known)
  <2>1. CASE fitting = {}
    <3>1. result = [NoResult EXCEPT !.status = "NO_MATCH"]
      BY <1>2, <2>1 DEF MatchClaim
    <3> QED BY <1>1, <3>1
  <2>2. CASE fitting # {} /\ Cardinality(fitting) > 1
    <3>1. result = [NoResult EXCEPT !.status = "INSUFFICIENT"]
      BY <1>2, <2>2 DEF MatchClaim
    <3> QED BY <1>1, <3>1
  <2>3. CASE fitting # {} /\ ~(Cardinality(fitting) > 1)
    BY <1>2, <2>3 DEF MatchClaim
  <2> QED BY <2>1, <2>2, <2>3
<1>7. \E p : fitting = {p}
  <2>1. IsFiniteSet(meant)
    BY OpenItemsAssumption, FS_Subset DEF PaymentsOf
  <2> DEFINE card == [e \in meant |-> Candidate(e)]
  <2>2. card \in [meant -> fitting] /\ {card[e] : e \in meant} = fitting
    BY <1>5
  <2>3. IsFiniteSet({card[e] : e \in meant})
    <3>1. card \in [meant -> fitting]
      BY <2>2
    <3> HIDE DEF card, meant, fitting
    <3> QED BY <2>1, <3>1, ImageIsFinite
  <2> HIDE DEF card, meant, fitting
  <2>4. IsFiniteSet(fitting)
    BY <2>2, <2>3
  <2>5. Cardinality(fitting) \in Nat /\ Cardinality(fitting) # 0
    BY <1>6, <2>4, FS_CardinalityType, FS_EmptySet
  <2>6. Cardinality(fitting) = 1
    BY <1>6, <2>5
  <2> QED BY <2>4, <2>6, FS_Singleton
<1>8. PICK e \in meant : fitting = {Candidate(e)} /\ result = Judge(Candidate(e), Invoice[i], known)
  BY <1>5, <1>6, <1>7
<1>9. e \in Payments /\ e \in PaymentsOf(q.customer) \cap listed /\ Meant(claim, e)
  BY <1>8 DEF PaymentsOf
<1>10. meant = {e}
  <2>1. ASSUME NEW d \in meant PROVE d = e
    <3>1. Candidate(d) = Candidate(e)
      BY <1>5, <1>8
    <3>2. Candidate(d).entry = d /\ Candidate(e).entry = e
      BY DEF Candidate
    <3> QED BY <3>1, <3>2
  <2> QED BY <1>8, <2>1
<1>11. /\ result.payment = e
       /\ \A j \in Invoices \ {i} : Payment[e].reference \in {Invoice[j].number, Invoice[j].key} =>
            Payment[e].reference \in {Invoice[i].number, Invoice[i].key}
       /\ result.link = "EXACT" <=> Payment[e].reference \in {Invoice[i].number, Invoice[i].key}
       /\ result.link = "PROBABLE_TYPO" <=> IsTypo(Payment[e].reference, i)
       /\ result.covers <=> Payment[e].amount >= Invoice[i].amount
       /\ result.address <=> ~Payment[e].addressMatches
  BY <1>8, <1>9, JudgedFairly
<1>12. {d \in PaymentsOf(q.customer) \cap (listed \cup {e}) : Meant(claim, d)} = {e}
  BY <1>9, <1>10
<1> QED BY <1>11, <1>12 DEF OnlyFit

\* It stays the only one while payments are allocated.
LEMMA OnlyFitStays ==
  ASSUME listed' \subseteq listed, NEW q, OnlyFit(q)
  PROVE  OnlyFit(q)'
<1> DEFINE p == q.result.payment
<1>1. {e \in PaymentsOf(q.customer) \cap (listed \cup {p}) : Meant(q.claim, e)} = {p}
  BY DEF OnlyFit
<1>2. {e \in PaymentsOf(q.customer) \cap (listed' \cup {p}) : Meant(q.claim, e)} = {p}
  BY <1>1
<1> QED BY <1>2 DEF OnlyFit, PaymentsOf, Meant

\* What holds of a question at each of its program points, of what it matches.
FitOK(q) ==
  /\ q.claim.amount \in Nat \cup {NotSaid, Garbled} /\ q.claim.date \in Nat \cup {NotSaid, Garbled}
  /\ q.pc = "payments" => Garbled \notin {q.claim.amount, q.claim.date}
  /\ q.pc = "address" /\ q.result.status = "MATCH" => OnlyFit(q)
  /\ q.reply = "MATCH" => OnlyFit(q) /\ (q.spoken => q.result.address)

FitsInv == OpenItemsTypeOK /\ \A m \in Questions : FitOK(question[m])

\* Each step of a question keeps what it matches the only fit.
LEMMA QuestionStepFits ==
  ASSUME QuestionsInv, FitsInv, NEW m \in Questions, QuestionStep(m)
  PROVE  FitOK(question'[m])
<1> DEFINE q == question[m]
<1>1. q \in QuestionStates /\ QuestionOK(q) /\ FitOK(q) /\ OpenItemsTypeOK
  BY DEF QuestionsInv, QuestionTypeOK, FitsInv
<1>2. ASSUME NEW pc, NEW fields \in QuestionStates, Ask(m, pc, fields)
      PROVE  question'[m] = [fields EXCEPT !.pc = pc]
  BY <1>2 DEF Ask, QuestionsInv, QuestionTypeOK
<1>3. ASSUME NEW reply \in {"NOT_AUTHORIZED", "VALIDATION", "SERVICE_UNAVAILABLE"},
             AnswerQuestion(m, reply)
      PROVE  FitOK(question'[m])
  <2>1. [q EXCEPT !.reply = reply] \in QuestionStates
    BY <1>1, <1>3 DEF QuestionStates, QuestionReplies
  <2>2. question'[m] = [[q EXCEPT !.reply = reply] EXCEPT !.pc = "done"]
    BY <1>2, <1>3, <2>1 DEF AnswerQuestion
  <2>3. question'[m].pc = "done" /\ question'[m].reply = reply /\ question'[m].claim = q.claim
    BY <1>1, <2>2 DEF QuestionStates
  <2> QED BY <1>1, <1>3, <2>3 DEF FitOK
<1>4. CASE PassGate(m)
  <2>1. CASE AnswerQuestion(m, "NOT_AUTHORIZED")
    BY <1>3, <2>1
  <2>2. CASE Ask(m, "invoice", [q EXCEPT !.customer = gate[q.call].customer])
    <3>1. question'[m] = [question[m] EXCEPT !.customer = gate[q.call].customer, !.pc = "invoice"]
      BY <1>1, <2>2 DEF Ask, QuestionsInv, QuestionTypeOK
    <3>2. q.pc = "gate" /\ q.reply = "none"
      BY <1>1, <1>4 DEF PassGate, QuestionOK
    <3>3. question'[m].pc = "invoice" /\ question'[m].reply = "none" /\ question'[m].claim = q.claim
      BY <1>1, <3>1, <3>2 DEF QuestionStates
    <3> QED BY <1>1, <3>3 DEF FitOK
  <2> QED BY <1>4, <2>1, <2>2 DEF PassGate
<1>5. CASE ReadInvoice(m)
  <2>1. CASE AnswerQuestion(m, "NOT_AUTHORIZED") \/ AnswerQuestion(m, "VALIDATION")
    BY <1>3, <2>1
  <2>2. CASE Garbled \notin {q.claim.amount, q.claim.date} /\ Ask(m, "payments", q)
    <3>1. question'[m] = [q EXCEPT !.pc = "payments"]
      BY <1>1, <1>2, <2>2
    <3>2. q.reply = "none"
      BY <1>1, <1>5 DEF ReadInvoice, QuestionOK
    <3>3. question'[m].pc = "payments" /\ question'[m].reply = "none" /\ question'[m].claim = q.claim
      BY <1>1, <3>1, <3>2 DEF QuestionStates
    <3> QED BY <1>1, <2>2, <3>3 DEF FitOK
  <2> QED BY <1>5, <2>1, <2>2 DEF ReadInvoice
<1>6. CASE ReadPayments(m)
  <2>1. q.pc = "payments" /\ q.reply = "none" /\ q.invoice \in Invoices
    BY <1>1, <1>6 DEF ReadPayments, QuestionOK
  <2>2. PICK result :
          /\ result = MatchClaim(q.claim, Invoice[q.invoice], Candidates(q.customer), KnownReferences(q.invoice))
          /\ Ask(m, "address", [q EXCEPT !.result = result])
    BY <1>6 DEF ReadPayments
  <2>3. PICK r : r = [q EXCEPT !.result = result, !.pc = "address"]
    OBVIOUS
  <2>4. question'[m] = r
    BY <1>1, <2>2, <2>3 DEF Ask, QuestionsInv, QuestionTypeOK
  <2>5. /\ r.pc = "address" /\ r.customer = q.customer /\ r.result = result
        /\ r.invoice = q.invoice /\ r.claim = q.claim /\ r.reply = "none"
    BY <1>1, <2>1, <2>3 DEF QuestionStates
  <2>6. q.claim.amount \in Nat \cup {NotSaid} /\ q.claim.date \in Nat \cup {NotSaid}
    BY <1>1, <2>1 DEF FitOK
  <2>7. r.result.status = "MATCH" => OnlyFit(r)
    BY <1>1, <2>1, <2>2, <2>5, <2>6, MatchedIsOnlyFit
  <2>8. FitOK(r)
    BY <1>1, <2>5, <2>7 DEF FitOK
  <2> QED BY <2>4, <2>8
<1>7. CASE ReadAddress(m)
  <2> DEFINE p == q.result.payment
             heard == p \in PaymentsOf(q.customer) \cap listed /\ ~Payment[p].addressMatches
  <2>1. q.pc = "address" /\ q.reply = "none"
    BY <1>1, <1>7 DEF ReadAddress, QuestionOK
  <2>2. PICK r : r = [q EXCEPT !.spoken = heard, !.reply = q.result.status, !.pc = "done"]
    OBVIOUS
  <2>3. question'[m] = r
    BY <1>1, <1>7, <2>2 DEF ReadAddress, Ask, QuestionsInv, QuestionTypeOK
  <2> HIDE DEF heard
  <2>4. /\ r.pc = "done" /\ r.customer = q.customer /\ r.result = q.result /\ r.spoken = heard
        /\ r.invoice = q.invoice /\ r.claim = q.claim /\ r.reply = q.result.status
    BY <1>1, <2>2 DEF QuestionStates
  <2>5. ASSUME q.result.status = "MATCH" PROVE OnlyFit(r) /\ (r.spoken => r.result.address)
    <3>1. OnlyFit(q)
      BY <1>1, <2>1, <2>5 DEF FitOK
    <3>2. OnlyFit(r)
      BY <2>4, <3>1 DEF OnlyFit
    <3>3. r.spoken => ~Payment[q.result.payment].addressMatches
      BY <2>4 DEF heard
    <3>4. q.result.address <=> ~Payment[q.result.payment].addressMatches
      BY <3>1 DEF OnlyFit
    <3> QED BY <2>4, <3>2, <3>3, <3>4
  <2>6. FitOK(r)
    BY <1>1, <2>4, <2>5 DEF FitOK
  <2> QED BY <2>3, <2>6
<1>8. CASE FailQuestion(m)
  BY <1>3, <1>8 DEF FailQuestion
<1> QED BY <1>4, <1>5, <1>6, <1>7, <1>8 DEF QuestionStep

\* No payment is listed again.
LEMMA ListedOnlyShrinks ==
  ASSUME OpenItemsTypeOK, [Next]_vars
  PROVE  listed' \subseteq listed
<1>1. CASE UNCHANGED itemVars
  BY <1>1 DEF itemVars
<1>2. CASE OpenItemsNext
  BY <1>2 DEF OpenItemsNext, Settlement, Allocation
<1> QED BY <1>1, <1>2, ItemsMoveAlone

\* Every step keeps every match the only fit.
LEMMA FitsStay ==
  ASSUME QuestionsInv, FitsInv, [Next]_vars PROVE FitsInv'
<1>1. OpenItemsTypeOK' /\ listed' \subseteq listed
  BY OwedOnlyShrinks, ListedOnlyShrinks DEF FitsInv
<1>2. ASSUME NEW q, FitOK(q) PROVE FitOK(q)'
  BY <1>1, <1>2, OnlyFitStays DEF FitOK
<1>3. ASSUME NEW n \in Questions, FitOK(question'[n]) PROVE FitOK(question[n])'
  <2>1. PICK q : q = question'[n]
    OBVIOUS
  <2>2. FitOK(q)'
    BY <1>2, <1>3, <2>1
  <2> QED BY <2>1, <2>2 DEF FitOK
<1>4. ASSUME \A n \in Questions : FitOK(question'[n]) PROVE FitsInv'
  BY <1>1, <1>3, <1>4 DEF FitsInv
<1>5. CASE question' = question
  BY <1>4, <1>5 DEF FitsInv
<1>6. ASSUME NEW m \in Questions, FitOK(question'[m]),
             \A n \in Questions \ {m} : question'[n] = question[n]
      PROVE  FitsInv'
  <2>1. \A n \in Questions : FitOK(question'[n])
    BY <1>6 DEF FitsInv
  <2> QED BY <1>4, <2>1
<1>7. ASSUME NEW m \in Questions, QuestionStep(m) PROVE FitsInv'
  <2>1. \A n \in Questions \ {m} : question'[n] = question[n]
    BY <1>7 DEF QuestionStep, PassGate, ReadInvoice, ReadPayments, ReadAddress, FailQuestion,
                AnswerQuestion, Ask, QuestionsInv, QuestionTypeOK
  <2> QED BY <1>6, <1>7, <2>1, QuestionStepFits
<1>8. ASSUME NEW m \in Questions, NEW c \in Calls, NEW i \in Invoices, NEW claim \in Claims,
             BeginQuestion(m, c, i, claim)
      PROVE  FitsInv'
  <2>1. \A n \in Questions \ {m} : question'[n] = question[n]
    BY <1>8 DEF BeginQuestion, Ask, QuestionsInv, QuestionTypeOK
  <2>2. question'[m] = [[NewQuestion EXCEPT !.call = c, !.invoice = i, !.claim = claim] EXCEPT !.pc = "gate"]
    BY <1>8 DEF BeginQuestion, Ask, QuestionsInv, QuestionTypeOK
  <2>3. question'[m].pc = "gate" /\ question'[m].reply = "none" /\ question'[m].claim = claim
    BY <2>2 DEF NewQuestion
  <2>4. FitOK(question'[m])
    BY <2>3, MatchPaymentAssumption DEF FitOK
  <2> QED BY <1>6, <2>1, <2>4
<1> QED
  BY <1>5, <1>7, <1>8 DEF Next, ToolCall, ToolStep, CallerRowsNext, OpenItemsNext, vars

\* What holds of a question between its reads (FitOK) always holds.
LEMMA FitsAreOnly == Spec => []FitsInv
<1>1. Init => FitsInv
  <2> SUFFICES ASSUME Init PROVE FitsInv
    OBVIOUS
  <2>1. OpenItemsTypeOK
    BY DEF Init, OpenItemsInit, OpenItemsTypeOK
  <2>2. ASSUME NEW m \in Questions PROVE FitOK(question[m])
    <3>1. /\ question[m].pc = "idle" /\ question[m].reply = "none"
          /\ question[m].claim.amount = NotSaid /\ question[m].claim.date = NotSaid
      BY DEF Init, QuestionInit, NewQuestion, NoClaim
    <3> QED BY <3>1 DEF FitOK
  <2> QED BY <2>1, <2>2 DEF FitsInv
<1>2. FitsInv /\ QuestionsInv /\ [Next]_vars => FitsInv'
  BY FitsStay
<1> QED BY <1>1, <1>2, QuestionsAreOwn, PTL DEF Spec

-----------------------------------------------------------------------------
(* The theorems.                                                           *)

\* What has been read of two lists is what has been read of each.
LEMMA TwoLists ==
  ASSUME NEW S, NEW s \in Seq(S), NEW t \in Seq(S), NEW T, ToSet(s) \cup ToSet(t) \subseteq T
  PROVE  ToSet(s \o t) \subseteq T
<1> SUFFICES ASSUME NEW n \in DOMAIN (s \o t) PROVE (s \o t)[n] \in T
  BY DEF ToSet
<1>1. /\ s \o t \in Seq(S) /\ Len(s \o t) = Len(s) + Len(t)
      /\ \A i \in 1..(Len(s) + Len(t)) :
           (s \o t)[i] = IF i <= Len(s) THEN s[i] ELSE t[i - Len(s)]
  BY ConcatProperties
<1>2. /\ Len(s) \in Nat /\ Len(t) \in Nat /\ n \in 1..(Len(s) + Len(t))
      /\ DOMAIN s = 1..Len(s) /\ DOMAIN t = 1..Len(t)
  BY <1>1, LenProperties
<1>3. CASE n <= Len(s)
  <2>1. n \in DOMAIN s /\ (s \o t)[n] = s[n]
    BY <1>1, <1>2, <1>3
  <2> QED BY <2>1 DEF ToSet
<1>4. CASE ~ (n <= Len(s))
  <2>1. n - Len(s) \in DOMAIN t /\ (s \o t)[n] = t[n - Len(s)]
    BY <1>1, <1>2, <1>4
  <2> QED BY <2>1 DEF ToSet
<1> QED BY <1>3, <1>4

\* Whatever happens while an answer is on its way, what a call is told about
\* invoices is about an account that it was proved to be
\* (get_account_context.py, _invoices over verified_context).
THEOREM ContextIsTheirs == Spec => []ContextIsForTheVerified
<1>1. ReadingInv => ContextIsForTheVerified
  <2> SUFFICES ASSUME ReadingInv, NEW x \in Readings, reading[x].reply = "OK"
               PROVE  /\ ProvedFor(reading[x].call, reading[x].customer)
                      /\ ToSet(reading[x].open \o reading[x].recent)
                           \subseteq InvoicesOf(reading[x].customer)
    BY DEF ContextIsForTheVerified
  <2>1. ProvedFor(reading[x].call, reading[x].customer) /\ OnesOwn(reading[x])
    BY DEF ReadingInv, ReadingOK
  <2>2. reading[x].open \in Seq(Invoices) /\ reading[x].recent \in Seq(Invoices)
    BY DEF ReadingInv, ReadingStates
  <2> QED BY <2>1, <2>2, TwoLists DEF OnesOwn
<1> QED BY <1>1, ReadingsAreOwn, PTL

\* However many invoices there are, and whatever is settled meanwhile, each one
\* still owed is in the sum and in the number a caller is told, and what is left
\* unread is due no earlier than what is read out (get_account_context.py,
\* _invoices).
THEOREM NothingOwedIsMissing == Spec => []OutstandingIsComplete
<1>1. ReadingInv => OutstandingIsComplete
  <2> SUFFICES ASSUME ReadingInv PROVE OutstandingIsComplete
    OBVIOUS
  <2>1. \A x \in Readings : reading[x].reply = "OK" => Complete(reading[x])
    BY DEF ReadingInv, ReadingOK
  <2> QED BY <2>1 DEF OutstandingIsComplete, Complete, Owing
<1> QED BY <1>1, ReadingsAreOwn, PTL

\* A payment is confirmed only when it is the one payment of the account that the
\* caller can mean, however the payments move between the reads, and when it does
\* not say that it is for another invoice (domain/payment_match.py,
\* match_payment and classify_reference).
THEOREM NoOtherIsMeant == Spec => []MatchIsTheOnlyFit
<1>1. FitsInv => MatchIsTheOnlyFit
  <2> SUFFICES ASSUME FitsInv PROVE MatchIsTheOnlyFit
    OBVIOUS
  <2>1. \A m \in Questions : question[m].reply = "MATCH" =>
          OnlyFit(question[m]) /\ (question[m].spoken => question[m].result.address)
    BY DEF FitsInv, FitOK
  <2> QED BY <2>1 DEF MatchIsTheOnlyFit, OnlyFit
<1> QED BY <1>1, FitsAreOnly, PTL

\* What is written on a confirmed payment is called a typo exactly when edits of
\* the invoice's key, as many as the policy allows, make it, and when it is
\* neither the key nor the number itself, for every key and everything written
\* (domain/payment_match.py, edit_distance and classify_reference).
THEOREM TyposAreNearMisses == Spec => []TypoIsANearMiss
<1>1. FitsInv => TypoIsANearMiss
  <2> SUFFICES ASSUME FitsInv PROVE TypoIsANearMiss
    OBVIOUS
  <2>1. \A m \in Questions : question[m].reply = "MATCH" => OnlyFit(question[m])
    BY DEF FitsInv, FitOK
  <2> QED BY <2>1 DEF TypoIsANearMiss, OnlyFit, IsTypo
<1> QED BY <1>1, FitsAreOnly, PTL

\* Every variable of the desk holds what the code can put in it.
THEOREM EverythingIsTyped == Spec => []TypeOK
<1>1. DeskInv /\ QuestionsInv /\ ReadingInv => TypeOK
  BY DEF DeskInv, QuestionsInv, ReadingInv, ReadingStates, ReadingTypeOK, TypeOK
<1> QED BY <1>1, DeskIsTyped, QuestionsAreOwn, ReadingsAreOwn, PTL
=============================================================================
