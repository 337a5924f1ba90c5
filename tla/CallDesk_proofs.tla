--------------------------- MODULE CallDesk_proofs ---------------------------
(***************************************************************************)
(* Theorems about CallDesk for every number of calls, people, answers and  *)
(* invocations of the four endpoints, and for every policy, checked by     *)
(* TLAPS.                                                                  *)
(***************************************************************************)
EXTENDS CallDesk, FiniteSetTheorems, TLAPS

-----------------------------------------------------------------------------
(* Factors and identity records.                                           *)

\* There are finitely many factors, and so finitely many of any kind.
LEMMA FactorsFinite ==
  /\ IsFiniteSet(Factors)
  /\ \A S \in SUBSET Factors : IsFiniteSet(S)
<1>1. IsFiniteSet({"email", "phone", "date_of_birth", "customer_id"})
  <2>1. IsFiniteSet({}) BY FS_EmptySet
  <2>2. IsFiniteSet({} \cup {"email"}) BY <2>1, FS_AddElement
  <2>3. IsFiniteSet(({} \cup {"email"}) \cup {"phone"}) BY <2>2, FS_AddElement
  <2>4. IsFiniteSet((({} \cup {"email"}) \cup {"phone"}) \cup {"date_of_birth"}) BY <2>3, FS_AddElement
  <2>5. IsFiniteSet(((({} \cup {"email"}) \cup {"phone"}) \cup {"date_of_birth"}) \cup {"customer_id"})
    BY <2>4, FS_AddElement
  <2>6. ((({} \cup {"email"}) \cup {"phone"}) \cup {"date_of_birth"}) \cup {"customer_id"}
          = {"email", "phone", "date_of_birth", "customer_id"}
    OBVIOUS
  <2> QED BY <2>5, <2>6
<1> QED BY <1>1, FS_Subset DEF Factors

\* An answer that check_factors lets through is a proof of who is on the record:
\* whatever it took for confirmed is right, and what it did not was unreadable.
LEMMA VerifiedProves ==
  ASSUME NEW p \in Contacts, NEW supplied, DOMAIN supplied \subseteq Factors,
         CheckFactors(supplied, Stored[p]) = "VERIFIED"
  PROVE  Proves(supplied, p)
<1> DEFINE stored == Stored[p]
           confirmed == Confirmed(supplied, stored)
           right == {f \in DOMAIN supplied : Normalise(f, supplied[f]) = Normalise(f, stored[f])}
<1> USE CallerRowsAssumption, FactorsAssumption
<1>1. Mismatched(supplied, stored) = {}
  BY DEF CheckFactors
<1>2. Cardinality(confirmed) >= RequiredFactorCount /\ confirmed \cap PersonalFactors # {}
  BY <1>1 DEF CheckFactors
<1>3. confirmed \subseteq right
  BY DEF Confirmed, Matches
<1>4. Cardinality(right) >= RequiredFactorCount
  <2>1. IsFiniteSet(right) /\ IsFiniteSet(confirmed)
    BY FactorsFinite, <1>3
  <2>2. Cardinality(confirmed) <= Cardinality(right)
    BY <1>3, <2>1, FS_Subset
  <2>3. Cardinality(confirmed) \in Nat /\ Cardinality(right) \in Nat
    BY <2>1, FS_CardinalityType
  <2> QED BY <1>2, <2>2, <2>3
<1>5. ASSUME NEW f \in DOMAIN supplied, f \notin right
      PROVE  f = "date_of_birth" /\ Normalise(f, supplied[f]) = Unparseable
  <2>1. f \notin confirmed
    BY <1>3, <1>5
  <2>2. f \in Unreadable(supplied)
    BY <1>1, <2>1 DEF Mismatched
  <2> QED BY <2>2 DEF Unreadable, Normalise
<1> HIDE DEF right, confirmed, stored
<1>6. right \cap PersonalFactors # {}
  BY <1>2, <1>3
<1>7. /\ Cardinality(right) >= RequiredFactorCount
      /\ right \cap PersonalFactors # {}
      /\ \A f \in DOMAIN supplied \ right :
           f = "date_of_birth" /\ Normalise(f, supplied[f]) = Unparseable
  BY <1>4, <1>5, <1>6
<1> QED BY <1>7 DEF right, stored, Proves

\* Nobody is verified who is not on record.
LEMMA OnlyContactsVerify ==
  ASSUME NEW p, NEW supplied, CheckFactors(supplied, StoredFactors(p)) = "VERIFIED"
  PROVE  p \in Contacts
<1> SUFFICES ASSUME p \notin Contacts PROVE FALSE
  OBVIOUS
<1>1. DOMAIN StoredFactors(p) = {}
  BY DEF StoredFactors
<1>2. Confirmed(supplied, StoredFactors(p)) = {}
  BY <1>1 DEF Confirmed
<1>3. Confirmed(supplied, StoredFactors(p)) \cap PersonalFactors # {}
  BY DEF CheckFactors
<1> QED BY <1>2, <1>3

\* An index lookup finds one of the contacts or nobody.
LEMMA LookupFindsContacts ==
  ASSUME NEW f, NEW v PROVE LookupContact(f, v) \in Contacts \cup {Nobody}
<1> DEFINE hits == {p \in Contacts : Matches(f, Stored[p][f], v)}
<1>1. CASE Cardinality(hits) = 1
  <2>1. hits # {} BY <1>1, FS_EmptySet
  <2>2. (CHOOSE p \in hits : TRUE) \in hits BY <2>1
  <2> QED BY <1>1, <2>2 DEF LookupContact
<1> QED BY <1>1 DEF LookupContact

\* What an attempt supplies is some of the factors, each with something that
\* callers are heard to say.
LEMMA SuppliedIsSaid ==
  ASSUME NEW supplied \in {ParseFactors(offer) : offer \in Offers} \cup {<<>>}
  PROVE  /\ DOMAIN supplied \subseteq Factors
         /\ \A f \in DOMAIN supplied : supplied[f] \in Said[f]
<1>1. CASE supplied = <<>>
  <2>1. DOMAIN supplied = {} BY <1>1
  <2> QED BY <2>1
<1>2. ASSUME NEW offer \in Offers, supplied = ParseFactors(offer)
      PROVE  /\ DOMAIN supplied \subseteq Factors
             /\ \A f \in DOMAIN supplied : supplied[f] \in Said[f]
  BY <1>2, VerifyIdentityAssumption DEF ParseFactors, Restrict
<1> QED BY <1>1, <1>2

\* So its fingerprints are among those there can be.
LEMMA FingerprintsAreKnown ==
  ASSUME NEW supplied, DOMAIN supplied \subseteq Factors,
         \A f \in DOMAIN supplied : supplied[f] \in Said[f]
  PROVE  /\ Fingerprints(supplied) \subseteq AllFingerprints
         /\ \A f \in DOMAIN supplied : Fingerprint(f, supplied[f]) \in AllFingerprints
<1>1. ASSUME NEW f \in DOMAIN supplied PROVE Fingerprint(f, supplied[f]) \in AllFingerprints
  <2>1. f \in Factors /\ supplied[f] \in Said[f] OBVIOUS
  <2> HIDE DEF Fingerprint
  <2>2. Fingerprint(f, supplied[f]) \in {Fingerprint(f, v) : v \in Said[f]} BY <2>1
  <2> QED BY <2>1, <2>2 DEF AllFingerprints
<1> QED BY <1>1 DEF Fingerprints

\* The image of a finite set is finite, and no larger.
LEMMA ImageIsFinite ==
  ASSUME NEW S, IsFiniteSet(S), NEW T, NEW g \in [S -> T]
  PROVE  /\ IsFiniteSet({g[x] : x \in S})
         /\ Cardinality({g[x] : x \in S}) <= Cardinality(S)
<1> DEFINE image == {g[x] : x \in S}
<1>1. g \in Surjection(S, image)
  BY DEF Surjection
<1> QED BY <1>1, FS_Surjection

\* There are finitely many fingerprints, and finitely many values of a field.
LEMMA FingerprintsAreFinite ==
  /\ IsFiniteSet(AllFingerprints)
  /\ \A f \in Factors : IsFiniteSet({Normalise(f, v) : v \in Said[f]})
<1>1. ASSUME NEW f \in Factors
      PROVE  IsFiniteSet({Fingerprint(f, v) : v \in Said[f]})
             /\ IsFiniteSet({Normalise(f, v) : v \in Said[f]})
  <2> DEFINE print == [v \in Said[f] |-> Fingerprint(f, v)]
             form == [v \in Said[f] |-> Normalise(f, v)]
  <2>1. IsFiniteSet(Said[f]) BY CallerRowsAssumption
  <2>2. print \in [Said[f] -> {Fingerprint(f, v) : v \in Said[f]}]
    OBVIOUS
  <2>3. form \in [Said[f] -> {Normalise(f, v) : v \in Said[f]}]
    OBVIOUS
  <2>4. IsFiniteSet({print[v] : v \in Said[f]})
    <3> HIDE DEF print
    <3> QED BY <2>1, <2>2, ImageIsFinite
  <2>5. IsFiniteSet({form[v] : v \in Said[f]})
    <3> HIDE DEF form
    <3> QED BY <2>1, <2>3, ImageIsFinite
  <2>6. {print[v] : v \in Said[f]} = {Fingerprint(f, v) : v \in Said[f]}
    OBVIOUS
  <2>7. {form[v] : v \in Said[f]} = {Normalise(f, v) : v \in Said[f]}
    OBVIOUS
  <2> QED BY <2>4, <2>5, <2>6, <2>7
<1>2. IsFiniteSet({{Fingerprint(f, v) : v \in Said[f]} : f \in Factors})
  <2> DEFINE all == [f \in Factors |-> {Fingerprint(f, v) : v \in Said[f]}]
  <2>1. all \in [Factors -> {{Fingerprint(f, v) : v \in Said[f]} : f \in Factors}]
    OBVIOUS
  <2>2. IsFiniteSet({all[f] : f \in Factors})
    <3>1. IsFiniteSet(Factors) BY FactorsFinite
    <3> HIDE DEF all
    <3> QED BY <2>1, <3>1, ImageIsFinite
  <2>3. {all[f] : f \in Factors} = {{Fingerprint(f, v) : v \in Said[f]} : f \in Factors}
    OBVIOUS
  <2> QED BY <2>2, <2>3
<1>3. IsFiniteSet(AllFingerprints)
  <2>1. \A T \in {{Fingerprint(f, v) : v \in Said[f]} : f \in Factors} : IsFiniteSet(T)
    BY <1>1
  <2> QED BY <1>2, <2>1, FS_UNION DEF AllFingerprints
<1> QED BY <1>1, <1>3

\* The worst field is a field, and what it has had is a number.
LEMMA WorstFieldIsWorst ==
  ASSUME NEW prints, IsFiniteSet(prints)
  PROVE  /\ WorstField(prints) \in Nat
         /\ \E f \in Factors : WorstField(prints) = CountFor(prints, f)
         /\ \A f \in Factors : CountFor(prints, f) <= WorstField(prints)
<1> DEFINE counts == {CountFor(prints, f) : f \in Factors}
<1>1. ASSUME NEW f PROVE CountFor(prints, f) \in Nat
  <2>1. IsFiniteSet({p \in prints : p[1] = f}) BY FS_Subset
  <2> QED BY <2>1, FS_CardinalityType DEF CountFor
<1>2. counts = {CountFor(prints, "email"), CountFor(prints, "phone"),
                CountFor(prints, "date_of_birth"), CountFor(prints, "customer_id")}
  BY DEF Factors
<1>3. \E n \in counts : \A k \in counts : n >= k
  <2> HIDE DEF counts
  <2>1. ASSUME NEW a \in Nat, NEW b \in Nat, NEW c \in Nat, NEW d \in Nat
        PROVE  \E n \in {a, b, c, d} : \A k \in {a, b, c, d} : n >= k
    OBVIOUS
  <2> QED BY <1>1, <1>2, <2>1
<1>4. WorstField(prints) \in counts /\ \A k \in counts : WorstField(prints) >= k
  BY <1>3 DEF WorstField, Max
<1>5. \A k \in counts : k \in Nat BY <1>1
<1> QED BY <1>1, <1>4, <1>5

-----------------------------------------------------------------------------
(* What a step can do to the invocations and to the rows.                  *)

\* One step of an attempt leaves it a state an attempt can be in, and no other
\* attempt changes.
LEMMA AdvanceMoves ==
  ASSUME AttemptTypeOK, NEW v \in Attempts, NEW pc \in AttemptPcs,
         NEW fields \in AttemptStates, Advance(v, pc, fields)
  PROVE  /\ AttemptTypeOK'
         /\ attempt'[v] = [fields EXCEPT !.pc = pc]
         /\ \A w \in Attempts \ {v} : attempt'[w] = attempt[w]
<1>1. [fields EXCEPT !.pc = pc] \in AttemptStates
  BY DEF AttemptStates
<1> QED BY <1>1 DEF Advance, AttemptTypeOK

\* The same of the answer that ends one.
LEMMA AnswerEnds ==
  ASSUME AttemptTypeOK, NEW v \in Attempts, NEW reply \in AttemptReplies,
         AnswerAttempt(v, reply)
  PROVE  /\ AttemptTypeOK'
         /\ attempt'[v] = [attempt[v] EXCEPT !.reply = reply, !.pc = "done"]
         /\ \A w \in Attempts \ {v} : attempt'[w] = attempt[w]
<1>1. [attempt[v] EXCEPT !.reply = reply] \in AttemptStates
  BY DEF AttemptTypeOK, AttemptStates
<1>2. "done" \in AttemptPcs BY DEF AttemptPcs
<1> HIDE DEF AttemptStates
<1> QED BY <1>1, <1>2, AdvanceMoves DEF AnswerAttempt

\* The outcome of an attempt is one of three.
LEMMA OutcomeIsOneOfThree ==
  ASSUME NEW v \in Attempts
  PROVE  Outcome(v) \in {"VERIFIED", "PARTIALLY_VERIFIED", "FAILED"}
BY DEF Outcome, CheckFactors

\* Wrong answers have known fingerprints, finitely many.
LEMMA WrongPrintsAreKnown ==
  ASSUME AttemptTypeOK, NEW v \in Attempts
  PROVE  WrongPrints(v) \subseteq AllFingerprints
<1>1. /\ DOMAIN attempt[v].supplied \subseteq Factors
      /\ \A f \in DOMAIN attempt[v].supplied : attempt[v].supplied[f] \in Said[f]
  BY SuppliedIsSaid DEF AttemptTypeOK, AttemptStates
<1>2. \A f \in DOMAIN attempt[v].supplied :
        Fingerprint(f, attempt[v].supplied[f]) \in AllFingerprints
  BY <1>1, FingerprintsAreKnown
<1> QED BY <1>2 DEF WrongPrints, Mismatched

\* What holds of an attempt at each of its program points: one that goes on to
\* admit has found everything right.
AttemptOK(v) ==
  /\ attempt[v].pc = "idle" => attempt[v] = NewAttempt
  /\ attempt[v].pc # "idle" => attempt[v].call \in Calls
  /\ attempt[v].pc # "done" => attempt[v].reply = "none"
  /\ attempt[v].pc = "admit" => Outcome(v) = "VERIFIED"

\* A step of an attempt leaves what the attempt is about as it was, and leaves
\* the other attempts alone.
AttemptGoesOn(v) ==
  /\ AttemptTypeOK'
  /\ attempt[v].pc \notin {"idle", "done"}
  /\ attempt'[v].pc # "idle"
  /\ attempt'[v].call = attempt[v].call
  /\ attempt'[v].supplied = attempt[v].supplied
  /\ attempt'[v].contact = attempt[v].contact
  /\ attempt'[v].after = attempt[v].after
  /\ attempt'[v].pc # "done" => attempt'[v].reply = attempt[v].reply
  /\ attempt'[v].pc = "admit" => Outcome(v) = "VERIFIED"
  /\ \A w \in Attempts \ {v} : attempt'[w] = attempt[w]

\* Each of the steps of an attempt is one of that kind.
LEMMA AttemptStepGoesOn ==
  ASSUME AttemptTypeOK, CallerRowsTypeOK, NEW v \in Attempts, AttemptOK(v), AttemptStep(v)
  PROVE  AttemptGoesOn(v)
<1> DEFINE Same(fields) ==
      /\ fields \in AttemptStates
      /\ fields.call = attempt[v].call /\ fields.supplied = attempt[v].supplied
      /\ fields.contact = attempt[v].contact /\ fields.after = attempt[v].after
      /\ fields.reply = attempt[v].reply
<1>1. attempt[v] \in AttemptStates
  BY DEF AttemptTypeOK
<1>2. AttemptPcs = {"idle", "count", "guess", "record", "wrong", "mark", "attempt",
                    "conflict", "admit", "done"}
  BY DEF AttemptPcs
<1>3. ASSUME NEW reply \in AttemptReplies, attempt[v].pc \notin {"idle", "done"},
             Conclude(v, reply) \/ AnswerAttempt(v, reply)
      PROVE  AttemptGoesOn(v)
  <2>1. PICK r \in AttemptReplies : AnswerAttempt(v, r)
    BY <1>3 DEF Conclude, AttemptReplies
  <2>2. /\ AttemptTypeOK'
        /\ attempt'[v] = [attempt[v] EXCEPT !.reply = r, !.pc = "done"]
        /\ \A w \in Attempts \ {v} : attempt'[w] = attempt[w]
    BY <2>1, AnswerEnds
  <2> QED BY <1>1, <1>3, <2>2 DEF AttemptGoesOn, AttemptStates
<1>4. ASSUME NEW pc \in AttemptPcs \ {"idle", "done"}, NEW fields, Same(fields),
             pc = "admit" => Outcome(v) = "VERIFIED",
             attempt[v].pc \notin {"idle", "done"}, Advance(v, pc, fields)
      PROVE  AttemptGoesOn(v)
  <2>1. /\ AttemptTypeOK'
        /\ attempt'[v] = [fields EXCEPT !.pc = pc]
        /\ \A w \in Attempts \ {v} : attempt'[w] = attempt[w]
    BY <1>4, AdvanceMoves
  <2> QED BY <1>1, <1>4, <2>1 DEF AttemptGoesOn, AttemptStates
<1>5. /\ Same(attempt[v])
      /\ Same([attempt[v] EXCEPT !.read = {}])
      /\ \A n \in Nat : Same([attempt[v] EXCEPT !.count = n])
      /\ \A n \in Nat : Same([attempt[v] EXCEPT !.read = {}, !.count = n])
      /\ \A S \in SUBSET AllFingerprints : Same([attempt[v] EXCEPT !.read = S])
  BY <1>1 DEF AttemptStates
<1>6. Outcome(v) \in AttemptReplies
  BY OutcomeIsOneOfThree DEF AttemptReplies
<1>7. AttemptReplies = {"VERIFIED", "PARTIALLY_VERIFIED", "FAILED", "GUESSING", "ACCOUNT_LOCKED",
                        "CALL_LOCKED", "SERVICE_UNAVAILABLE", "none"}
  BY DEF AttemptReplies
<1>8. /\ attempt[v].pc # "idle" => wrong[attempt[v].call] \subseteq AllFingerprints
      /\ attempt[v].read \subseteq AllFingerprints
  BY <1>1 DEF AttemptStates, AttemptOK, CallerRowsTypeOK
<1>9. \A S \in SUBSET AllFingerprints : WorstField(S) \in Nat
  BY FingerprintsAreFinite, FS_Subset, WorstFieldIsWorst
<1> HIDE DEF AttemptStates, AttemptPcs, AttemptReplies, Advance, Conclude, AnswerAttempt, Outcome, Same
<1>10. CASE CountOffer(v)
  BY <1>2, <1>4, <1>5, <1>10 DEF CountOffer
<1>11. CASE SuspectGuessing(v)
  BY <1>3, <1>7, <1>11 DEF SuspectGuessing
<1>12. CASE ReadRecord(v)
  BY <1>2, <1>3, <1>4, <1>5, <1>7, <1>12 DEF ReadRecord
<1>13. CASE ReadWrongValues(v)
  <2> DEFINE before == wrong[attempt[v].call]
             counted == [attempt[v] EXCEPT !.count = WorstField(before)]
             marked == [attempt[v] EXCEPT !.read = before]
  <2>1. attempt[v].pc = "wrong" /\ before \in SUBSET AllFingerprints
    BY <1>8, <1>13 DEF ReadWrongValues
  <2>2. Same(counted) /\ Same(marked)
    BY <1>5, <1>9, <2>1
  <2>3. Advance(v, "attempt", counted) \/ Advance(v, "mark", marked)
    BY <1>13 DEF ReadWrongValues
  <2> HIDE DEF counted, marked
  <2> QED BY <1>2, <1>4, <2>1, <2>2, <2>3
<1>14. CASE MarkWrongValues(v)
  <2> DEFINE prints == attempt[v].read \cup WrongPrints(v)
             marked == [attempt[v] EXCEPT !.read = {}, !.count = WorstField(prints)]
  <2>1. prints \in SUBSET AllFingerprints
    BY <1>8, WrongPrintsAreKnown
  <2>2. WorstField(prints) \in Nat
    BY <1>9, <2>1
  <2>3. Same(marked)
    <3> HIDE DEF prints
    <3> QED BY <1>5, <2>2
  <2>4. attempt[v].pc = "mark" /\ Advance(v, "attempt", marked)
    BY <1>14 DEF MarkWrongValues
  <2> HIDE DEF marked
  <2> QED BY <1>2, <1>4, <2>3, <2>4
<1>15. CASE Settle(v)
  BY <1>2, <1>3, <1>4, <1>5, <1>6, <1>7, <1>15 DEF Settle
<1>16. CASE NoteConflict(v)
  BY <1>2, <1>3, <1>4, <1>5, <1>6, <1>16 DEF NoteConflict
<1>17. CASE Admit(v)
  BY <1>3, <1>7, <1>17 DEF Admit
<1>18. CASE FailAttempt(v)
  BY <1>3, <1>7, <1>18 DEF FailAttempt
<1> QED
  BY <1>10, <1>11, <1>12, <1>13, <1>14, <1>15, <1>16, <1>17, <1>18 DEF AttemptStep

\* The record that answers find is that of a contact, or a candidate's id.
LEMMA ResolvedIsKnown ==
  ASSUME CallerRowsTypeOK, NEW c \in Calls, NEW supplied
  PROVE  ResolveContact(c, supplied) \in Contacts \cup Accounts \cup {Nobody}
<1>1. candidate[c].customer \in Accounts \cup {Nobody}
  BY DEF CallerRowsTypeOK
<1> QED BY <1>1, LookupFindsContacts DEF ResolveContact

\* An attempt that begins is about a call, and has answered nothing.
LEMMA AttemptBegins ==
  ASSUME AttemptTypeOK, CallerRowsTypeOK, NEW v \in Attempts, NEW c \in Calls,
         NEW offer \in Offers, BeginAttempt(v, c, offer)
  PROVE  /\ AttemptTypeOK' /\ AttemptOK(v)'
         /\ attempt[v].pc = "idle"
         /\ attempt'[v].pc \in {"count", "record"}
         /\ \A w \in Attempts \ {v} : attempt'[w] = attempt[w]
<1> DEFINE supplied == ParseFactors(offer)
           pc == IF supplied = <<>> THEN "record" ELSE "count"
           begun == [NewAttempt EXCEPT
                       !.call = c, !.supplied = supplied, !.contact = ResolveContact(c, supplied),
                       !.read = offered[c],
                       !.after = {w \in Attempts : attempt[w].pc = "done"}]
<1>1. ResolveContact(c, supplied) \in Contacts \cup Accounts \cup {Nobody}
  BY ResolvedIsKnown
<1>2. offered[c] \in SUBSET AllFingerprints
  BY DEF CallerRowsTypeOK
<1>3. begun \in AttemptStates /\ begun.call = c /\ begun.reply = "none"
  <2> HIDE DEF ResolveContact
  <2> QED BY <1>1, <1>2 DEF AttemptStates, NewAttempt, AttemptPcs, AttemptReplies
<1>4. pc \in AttemptPcs /\ pc \in {"count", "record"}
  BY DEF AttemptPcs
<1>5. attempt[v].pc = "idle" /\ Advance(v, pc, begun)
  BY DEF BeginAttempt
<1> HIDE DEF begun, pc
<1>6. /\ AttemptTypeOK'
      /\ attempt'[v] = [begun EXCEPT !.pc = pc]
      /\ \A w \in Attempts \ {v} : attempt'[w] = attempt[w]
  BY <1>3, <1>4, <1>5, AdvanceMoves
<1>7. attempt'[v].pc = pc /\ attempt'[v].call = c /\ attempt'[v].reply = "none"
  BY <1>3, <1>6 DEF AttemptStates
<1> QED BY <1>4, <1>5, <1>6, <1>7 DEF AttemptOK

\* What every step, whoever takes it, leaves of an attempt: it goes on being
\* about what it is about, and once answered it stays as it is.
AttemptsKept ==
  \A v \in Attempts :
    /\ attempt[v].pc # "idle" =>
         /\ attempt'[v].pc # "idle"
         /\ attempt'[v].call = attempt[v].call /\ attempt'[v].supplied = attempt[v].supplied
         /\ attempt'[v].contact = attempt[v].contact /\ attempt'[v].after = attempt[v].after
    /\ attempt[v].pc = "done" => attempt'[v] = attempt[v]

AttemptsOK == \A v \in Attempts : AttemptOK(v)

\* What a step does to the attempts.
LEMMA AttemptsMove ==
  ASSUME AttemptTypeOK, CallerRowsTypeOK, AttemptsOK, [Next]_vars
  PROVE  AttemptTypeOK' /\ AttemptsOK' /\ AttemptsKept
<1>1. ASSUME NEW v \in Attempts, NEW c \in Calls, NEW offer \in Offers, BeginAttempt(v, c, offer)
      PROVE  AttemptTypeOK' /\ AttemptsOK' /\ AttemptsKept
  <2>1. /\ AttemptTypeOK' /\ AttemptOK(v)'
        /\ attempt[v].pc = "idle"
        /\ \A w \in Attempts \ {v} : attempt'[w] = attempt[w]
    BY <1>1, AttemptBegins
  <2> QED BY <2>1 DEF AttemptsOK, AttemptOK, AttemptsKept, Outcome
<1>2. ASSUME NEW v \in Attempts, AttemptStep(v)
      PROVE  AttemptTypeOK' /\ AttemptsOK' /\ AttemptsKept
  <2>1. AttemptOK(v)
    BY DEF AttemptsOK
  <2>2. AttemptGoesOn(v)
    BY <1>2, <2>1, AttemptStepGoesOn
  <2>3. AttemptTypeOK' /\ AttemptsKept
    BY <2>2 DEF AttemptGoesOn, AttemptsKept
  <2>4. AttemptOK(v)'
    BY <2>1, <2>2 DEF AttemptGoesOn, AttemptOK, Outcome
  <2>5. \A w \in Attempts \ {v} : AttemptOK(w)'
    BY <2>2 DEF AttemptGoesOn, AttemptsOK, AttemptOK, Outcome
  <2> QED BY <2>3, <2>4, <2>5 DEF AttemptsOK
<1>3. CASE attempt' = attempt
  BY <1>3 DEF AttemptTypeOK, AttemptsOK, AttemptOK, AttemptsKept, Outcome
<1> QED BY <1>1, <1>2, <1>3 DEF Next, ToolCall, ToolStep, CallerRowsNext, OpenItemsNext, vars

\* The same for the other endpoint.
CheckOK(k) ==
  /\ check[k].pc # "idle" => check[k].call \in Calls
  /\ check[k].pc # "done" => check[k].reply = "none"
  /\ check[k].pc = "remember" => check[k].contact \in Contacts

ChecksOK == \A k \in Checks : CheckOK(k)

ChecksKept ==
  \A k \in Checks :
    /\ check[k].pc # "idle" =>
         check'[k].pc # "idle" /\ check'[k].call = check[k].call /\ check'[k].said = check[k].said
    /\ check[k].pc = "done" => check'[k] = check[k]

\* One step of a check leaves it a state a check can be in.
LEMMA ProceedMoves ==
  ASSUME CheckTypeOK, NEW k \in Checks, NEW pc \in CheckPcs,
         NEW fields \in CheckStates, Proceed(k, pc, fields)
  PROVE  /\ CheckTypeOK'
         /\ check'[k] = [fields EXCEPT !.pc = pc]
         /\ \A j \in Checks \ {k} : check'[j] = check[j]
<1>1. [fields EXCEPT !.pc = pc] \in CheckStates
  BY DEF CheckStates
<1> QED BY <1>1 DEF Proceed, CheckTypeOK

\* A step of a check leaves what the check is about as it was, and leaves the
\* other checks alone.
CheckGoesOn(k) ==
  /\ CheckTypeOK'
  /\ check[k].pc \notin {"idle", "done"}
  /\ check'[k].pc # "idle"
  /\ check'[k].call = check[k].call /\ check'[k].said = check[k].said
  /\ check'[k].pc # "done" => check'[k].reply = check[k].reply
  /\ check'[k].pc = "remember" => check'[k].contact \in Contacts
  /\ \A j \in Checks \ {k} : check'[j] = check[j]

\* Each of the steps of a check is one of that kind.
LEMMA CheckStepGoesOn ==
  ASSUME CheckTypeOK, CallerRowsTypeOK, NEW k \in Checks, CheckOK(k), CheckStep(k)
  PROVE  CheckGoesOn(k)
<1> DEFINE Same(fields) ==
      /\ fields \in CheckStates
      /\ fields.call = check[k].call /\ fields.said = check[k].said
      /\ fields.reply = check[k].reply
<1>1. check[k] \in CheckStates
  BY DEF CheckTypeOK
<1>2. CheckPcs = {"idle", "count", "guess", "resolve", "remember", "done"}
  BY DEF CheckPcs
<1>3. CheckReplies = {"MATCHED", "NOT_MATCHED", "AMBIGUOUS", "LOCKED", "VALIDATION",
                      "SERVICE_UNAVAILABLE", "none"}
  BY DEF CheckReplies
<1>4. ASSUME NEW reply \in CheckReplies, NEW p \in Contacts \cup {Nobody},
             check[k].pc \notin {"idle", "done"},
             Report(k, reply, p) \/ AnswerCheck(k, reply, p)
      PROVE  CheckGoesOn(k)
  <2>1. PICK r \in CheckReplies, q \in Contacts \cup {Nobody} : AnswerCheck(k, r, q)
    BY <1>4 DEF Report, CheckReplies
  <2> DEFINE answered == [check[k] EXCEPT !.read = {}, !.reply = r, !.contact = q]
  <2>2. answered \in CheckStates /\ answered.call = check[k].call /\ answered.said = check[k].said
    BY <1>1 DEF CheckStates
  <2>3. Proceed(k, "done", answered) /\ "done" \in CheckPcs
    BY <2>1 DEF AnswerCheck, CheckPcs
  <2> HIDE DEF answered
  <2>4. /\ CheckTypeOK'
        /\ check'[k] = [answered EXCEPT !.pc = "done"]
        /\ \A j \in Checks \ {k} : check'[j] = check[j]
    BY <2>2, <2>3, ProceedMoves
  <2> QED BY <1>4, <2>2, <2>4 DEF CheckGoesOn, CheckStates
<1>5. ASSUME NEW pc \in CheckPcs \ {"idle", "done"}, NEW fields, Same(fields),
             pc = "remember" => fields.contact \in Contacts,
             check[k].pc \notin {"idle", "done"}, Proceed(k, pc, fields)
      PROVE  CheckGoesOn(k)
  <2>1. /\ CheckTypeOK'
        /\ check'[k] = [fields EXCEPT !.pc = pc]
        /\ \A j \in Checks \ {k} : check'[j] = check[j]
    BY <1>5, ProceedMoves
  <2> QED BY <1>1, <1>5, <2>1 DEF CheckGoesOn, CheckStates
<1>6. /\ Same([check[k] EXCEPT !.read = {}])
      /\ \A p \in Contacts : /\ Same([check[k] EXCEPT !.contact = p])
                             /\ [check[k] EXCEPT !.contact = p].contact = p
  BY <1>1 DEF CheckStates
<1>7. check[k].pc # "idle" => resolved[check[k].call] \in Contacts \cup {Nobody}
  BY DEF CheckOK, CallerRowsTypeOK
<1>8. check[k].contact \in Contacts \cup {Nobody}
  BY <1>1 DEF CheckStates
<1>9. \A p : Compares(k, p) \in CheckReplies
  BY <1>3 DEF Compares
<1> HIDE DEF CheckStates, CheckPcs, CheckReplies, Proceed, Report, AnswerCheck, Compares, Same
<1>10. CASE CountCheck(k)
  BY <1>2, <1>3, <1>4, <1>5, <1>6, <1>10 DEF CountCheck
<1>11. CASE SuspectGuesser(k)
  BY <1>3, <1>4, <1>11 DEF SuspectGuesser
<1>12. CASE ResolveOnce(k)
  <2> DEFINE f == Field(k)
             found == IF f \in Identifying THEN LookupContact(f, check[k].said[f]) ELSE Nobody
             resolving == [check[k] EXCEPT !.contact = found]
  <2>1. check[k].pc = "resolve" BY <1>12 DEF ResolveOnce
  <2>2. found \in Contacts \cup {Nobody} BY LookupFindsContacts
  <2>3. \/ found # Nobody /\ Proceed(k, "remember", resolving)
        \/ AnswerCheck(k, Compares(k, resolved[check[k].call]), resolved[check[k].call])
    BY <1>12 DEF ResolveOnce
  <2>4. found # Nobody => Same(resolving) /\ resolving.contact \in Contacts
    <3> HIDE DEF found
    <3> QED BY <1>6, <2>2
  <2> HIDE DEF resolving, found
  <2> QED BY <1>2, <1>4, <1>5, <1>7, <1>9, <2>1, <2>2, <2>3, <2>4
<1>13. CASE Remember(k)
  BY <1>4, <1>8, <1>9, <1>13 DEF Remember
<1>14. CASE FailCheck(k)
  BY <1>3, <1>4, <1>14 DEF FailCheck
<1> QED BY <1>10, <1>11, <1>12, <1>13, <1>14 DEF CheckStep

\* A check that begins is about a call and has answered nothing that tells the
\* caller anything.
LEMMA CheckBegins ==
  ASSUME CheckTypeOK, CallerRowsTypeOK, NEW k \in Checks, NEW c \in Calls,
         NEW f \in Factors, NEW v \in Said[f], BeginCheck(k, c, f, v)
  PROVE  /\ CheckTypeOK' /\ CheckOK(k)'
         /\ check[k].pc = "idle"
         /\ check'[k].reply \in {"none", "VALIDATION"}
         /\ \A j \in Checks \ {k} : check'[j] = check[j]
<1> DEFINE began == [NewCheck EXCEPT !.call = c, !.said = Answer(f, v)]
           counting == [began EXCEPT !.read = offered[c]]
           refused == [began EXCEPT !.reply = "VALIDATION"]
<1>1. offered[c] \in SUBSET AllFingerprints
  BY DEF CallerRowsTypeOK
<1>2. Answer(f, v) \in UNION {{Answer(g, w) : w \in Said[g]} : g \in Factors}
  OBVIOUS
<1>3. /\ counting \in CheckStates /\ counting.call = c /\ counting.reply = "none"
      /\ refused \in CheckStates /\ refused.call = c /\ refused.reply = "VALIDATION"
  BY <1>1, <1>2 DEF CheckStates, NewCheck, CheckPcs, CheckReplies
<1>4. /\ check[k].pc = "idle"
      /\ Proceed(k, "count", counting) \/ Proceed(k, "done", refused)
  BY DEF BeginCheck
<1>5. "count" \in CheckPcs /\ "done" \in CheckPcs
  BY DEF CheckPcs
<1> HIDE DEF counting, refused
<1>6. /\ CheckTypeOK'
      /\ \/ check'[k] = [counting EXCEPT !.pc = "count"]
         \/ check'[k] = [refused EXCEPT !.pc = "done"]
      /\ \A j \in Checks \ {k} : check'[j] = check[j]
  BY <1>3, <1>4, <1>5, ProceedMoves
<1>7. CheckOK(k)' /\ check'[k].reply \in {"none", "VALIDATION"}
  BY <1>3, <1>6 DEF CheckStates, CheckOK
<1> QED BY <1>4, <1>6, <1>7

\* What every step leaves of a check.
LEMMA ChecksMove ==
  ASSUME CheckTypeOK, CallerRowsTypeOK, ChecksOK, [Next]_vars
  PROVE  CheckTypeOK' /\ ChecksOK' /\ ChecksKept
<1>1. ASSUME NEW k \in Checks, NEW c \in Calls, NEW f \in Factors, NEW v \in Said[f],
             BeginCheck(k, c, f, v)
      PROVE  CheckTypeOK' /\ ChecksOK' /\ ChecksKept
  <2>1. /\ CheckTypeOK' /\ CheckOK(k)'
        /\ check[k].pc = "idle"
        /\ \A j \in Checks \ {k} : check'[j] = check[j]
    BY <1>1, CheckBegins
  <2> QED BY <2>1 DEF ChecksOK, CheckOK, ChecksKept
<1>2. ASSUME NEW k \in Checks, CheckStep(k)
      PROVE  CheckTypeOK' /\ ChecksOK' /\ ChecksKept
  <2>1. CheckOK(k) /\ CheckGoesOn(k)
    BY <1>2, CheckStepGoesOn DEF ChecksOK
  <2>2. CheckTypeOK' /\ ChecksKept /\ CheckOK(k)'
    BY <2>1 DEF CheckGoesOn, ChecksKept, CheckOK
  <2>3. \A j \in Checks \ {k} : CheckOK(j)'
    BY <2>1 DEF CheckGoesOn, ChecksOK, CheckOK
  <2> QED BY <2>2, <2>3 DEF ChecksOK
<1>3. CASE check' = check
  BY <1>3 DEF CheckTypeOK, ChecksOK, CheckOK, ChecksKept
<1> QED BY <1>1, <1>2, <1>3 DEF Next, ToolCall, ToolStep, CallerRowsNext, OpenItemsNext, vars

\* The endpoints behind the gate write nothing.
LEMMA ReadersOnlyRead ==
  ASSUME CallerRowsTypeOK,
         \/ \E m \in Questions : QuestionStep(m)
         \/ \E x \in Readings : ReadingStep(x)
         \/ \E m \in Questions, c \in Calls, i \in Invoices, claim \in Claims : BeginQuestion(m, c, i, claim)
         \/ \E x \in Readings, c \in Calls : BeginReading(x, c)
  PROVE  /\ UNCHANGED <<offered, wrong, resolved, signals, gate, candidate, account, clock, lost>>
         /\ faults' \in 0..MaxFaults
<1> USE CallerRowsAssumption DEF CallerRowsTypeOK, rowVars, Fault
<1>1. ASSUME NEW m \in Questions, QuestionStep(m)
      PROVE  /\ UNCHANGED <<offered, wrong, resolved, signals, gate, candidate, account, clock, lost>>
             /\ faults' \in 0..MaxFaults
  <2>1. CASE FailQuestion(m)
    BY <2>1 DEF FailQuestion
  <2>2. CASE UNCHANGED rowVars
    BY <2>2
  <2> QED
    BY <1>1, <2>1, <2>2 DEF QuestionStep, PassGate, ReadInvoice, ReadPayments, ReadAddress
<1>2. ASSUME NEW x \in Readings, ReadingStep(x)
      PROVE  /\ UNCHANGED <<offered, wrong, resolved, signals, gate, candidate, account, clock, lost>>
             /\ faults' \in 0..MaxFaults
  <2>1. CASE FailReading(x) \/ ReadCrm(x)
    BY <2>1 DEF FailReading, ReadCrm
  <2>2. CASE UNCHANGED rowVars
    BY <2>2
  <2> QED
    BY <1>2, <2>1, <2>2 DEF ReadingStep, PassReadingGate, ReadInvoices, ReadSummaryText
<1> QED BY <1>1, <1>2 DEF BeginQuestion, BeginReading

\* A failing call, or an answer that is lost, uses up one of the faults.
LEMMA FaultsAreBounded ==
  ASSUME CallerRowsTypeOK, Fault \/ UNCHANGED faults PROVE faults' \in 0..MaxFaults
BY CallerRowsAssumption DEF CallerRowsTypeOK, Fault

\* A signal is added to those of its call.
LEMMA SignalsAreTyped ==
  ASSUME CallerRowsTypeOK, NEW c \in Calls,
         NEW type \in {"SUSPECTED_GUESSING", "CONFLICTING_IDENTITY_DATA"}, RecordRiskSignal(c, type)
  PROVE  signals' \in [Calls -> SUBSET {"SUSPECTED_GUESSING", "CONFLICTING_IDENTITY_DATA"}]
<1> DEFINE Types == {"SUSPECTED_GUESSING", "CONFLICTING_IDENTITY_DATA"}
<1>1. signals \in [Calls -> SUBSET Types]
  BY DEF CallerRowsTypeOK
<1>2. signals' = [signals EXCEPT ![c] = signals[c] \cup {type}]
  BY DEF RecordRiskSignal
<1>3. type \in Types
  OBVIOUS
<1> HIDE DEF Types
<1>4. signals[c] \cup {type} \in SUBSET Types
  BY <1>1, <1>3
<1>5. signals' \in [Calls -> SUBSET Types]
  BY <1>1, <1>2, <1>4
<1> QED BY <1>5 DEF Types

\* Writing back an attribute that was read counts at most one more loss.
LEMMA LossesAreCounted ==
  ASSUME CallerRowsTypeOK, NEW c \in Calls, NEW attribute \in Extended, NEW current, NEW read,
         WriteOver(c, attribute, current, read)
  PROVE  /\ lost' \in [Calls -> [Extended -> Nat]]
         /\ \A d \in Calls, a \in Extended : lost'[d][a] >= lost[d][a]
         /\ \A d \in Calls, a \in Extended : lost'[d][a] # lost[d][a] =>
              d = c /\ a = attribute /\ current # read /\ lost'[d][a] = lost[d][a] + 1
         /\ current # read => lost'[c][attribute] = lost[c][attribute] + 1
<1>1. lost \in [Calls -> [Extended -> Nat]]
  BY DEF CallerRowsTypeOK
<1>2. lost' = [lost EXCEPT ![c] = [lost[c] EXCEPT ![attribute] =
                 lost[c][attribute] + IF current = read THEN 0 ELSE 1]]
  BY DEF WriteOver
<1>3. lost[c] \in [Extended -> Nat] /\ lost[c][attribute] \in Nat
  BY <1>1
<1>4. lost[c][attribute] + (IF current = read THEN 0 ELSE 1) \in Nat
  BY <1>3
<1> QED BY <1>1, <1>2, <1>3, <1>4

\* Whatever is done to a contact's counter and lock, they are a number and a
\* time no later than a lock can end.
LEMMA CountersAreTyped ==
  ASSUME CallerRowsTypeOK, NEW n \in Nat,
         \/ UNCHANGED account
         \/ \E p \in Contacts : ClearAttempts(p) \/ LockAccount(p, n) \/ CountAttempts(p, n)
  PROVE  account' \in [Contacts -> [attempts : Nat, lockedUntil : 0..(MaxClock + LockWindow)]]
<1> DEFINE Counter == [attempts : Nat, lockedUntil : 0..(MaxClock + LockWindow)]
<1>1. account \in [Contacts -> Counter]
  BY DEF CallerRowsTypeOK
<1>2. clock + LockWindow \in 0..(MaxClock + LockWindow) /\ 0 \in 0..(MaxClock + LockWindow)
  BY CallerRowsAssumption DEF CallerRowsTypeOK
<1>3. ASSUME NEW p \in Contacts, ClearAttempts(p) \/ LockAccount(p, n)
      PROVE  account' \in [Contacts -> Counter]
  BY <1>1, <1>2, <1>3 DEF ClearAttempts, LockAccount
<1>4. ASSUME NEW p \in Contacts, CountAttempts(p, n)
      PROVE  account' \in [Contacts -> Counter]
  <2>1. account[p] \in Counter BY <1>1
  <2>2. [account[p] EXCEPT !.attempts = n] \in Counter BY <2>1
  <2>3. account' = [account EXCEPT ![p] = [account[p] EXCEPT !.attempts = n]]
    BY <1>4 DEF CountAttempts
  <2> QED BY <1>1, <2>2, <2>3
<1> QED BY <1>1, <1>3, <1>4

\* The rows keep their types when an attempt goes on.
LEMMA AttemptKeepsRows ==
  ASSUME CallerRowsTypeOK, AttemptTypeOK, NEW v \in Attempts, AttemptOK(v), AttemptStep(v)
  PROVE  CallerRowsTypeOK'
<1> DEFINE call == attempt[v].call
           who == attempt[v].contact
<1>1. attempt[v] \in AttemptStates
  BY DEF AttemptTypeOK
<1>2. /\ attempt[v].read \subseteq AllFingerprints /\ attempt[v].count \in Nat
      /\ attempt[v].supplied \in {ParseFactors(offer) : offer \in Offers} \cup {<<>>}
  BY <1>1 DEF AttemptStates
<1>3. attempt[v].pc # "idle" => call \in Calls
  BY DEF AttemptOK
<1>4. WrongPrints(v) \subseteq AllFingerprints
  BY WrongPrintsAreKnown
<1>5. Fingerprints(attempt[v].supplied) \subseteq AllFingerprints
  BY <1>2, SuppliedIsSaid, FingerprintsAreKnown
<1>6. attempt[v].pc = "admit" => who \in Contacts
  BY OnlyContactsVerify DEF AttemptOK, Outcome
<1>10. CASE CountOffer(v)
  <2>1. /\ attempt[v].pc = "count" /\ "offered" \in Extended
        /\ RecordFactorAttempts(call, attempt[v].read, Fingerprints(attempt[v].supplied))
        /\ UNCHANGED <<wrong, resolved, signals, gate, candidate, account, clock, faults>>
    BY <1>10 DEF CountOffer, Extended
  <2>2. lost' \in [Calls -> [Extended -> Nat]]
    BY <1>3, <2>1, LossesAreCounted DEF RecordFactorAttempts
  <2> QED BY <1>2, <1>3, <1>5, <2>1, <2>2 DEF RecordFactorAttempts, CallerRowsTypeOK
<1>11. CASE SuspectGuessing(v) \/ NoteConflict(v)
  <2>1. /\ attempt[v].pc # "idle"
        /\ Fault \/ UNCHANGED faults
        /\ RecordRiskSignal(call, "SUSPECTED_GUESSING") \/ RecordRiskSignal(call, "CONFLICTING_IDENTITY_DATA")
        /\ UNCHANGED <<offered, wrong, resolved, gate, candidate, account, clock, lost>>
    BY <1>11 DEF SuspectGuessing, NoteConflict, Conclude
  <2>2. signals' \in [Calls -> SUBSET {"SUSPECTED_GUESSING", "CONFLICTING_IDENTITY_DATA"}]
    BY <1>3, <2>1, SignalsAreTyped
  <2>3. faults' \in 0..MaxFaults
    BY <2>1, FaultsAreBounded DEF CallerRowsTypeOK
  <2> QED BY <2>1, <2>2, <2>3 DEF CallerRowsTypeOK
<1>12. CASE ReadRecord(v) \/ ReadWrongValues(v)
  BY <1>12 DEF ReadRecord, ReadWrongValues, rowVars, CallerRowsTypeOK
<1>13. CASE MarkWrongValues(v)
  <2>1. /\ attempt[v].pc = "mark" /\ "wrong" \in Extended
        /\ RecordWrongValues(call, attempt[v].read, WrongPrints(v))
        /\ UNCHANGED <<offered, resolved, signals, gate, candidate, account, clock, faults>>
    BY <1>13 DEF MarkWrongValues, Extended
  <2>2. lost' \in [Calls -> [Extended -> Nat]]
    BY <1>3, <2>1, LossesAreCounted DEF RecordWrongValues
  <2> QED BY <1>2, <1>3, <1>4, <2>1, <2>2 DEF RecordWrongValues, CallerRowsTypeOK
<1>14. CASE Settle(v)
  <2>1. /\ MoveCounter(v)
        /\ Fault \/ UNCHANGED faults
        /\ UNCHANGED <<offered, wrong, resolved, signals, gate, candidate, clock, lost>>
    BY <1>14 DEF Settle, Conclude
  <2>2. \/ who \in Contacts /\ ClearAttempts(who)
        \/ who \in Contacts /\ LockAccount(who, attempt[v].count)
        \/ who \in Contacts /\ CountAttempts(who, attempt[v].count)
        \/ UNCHANGED account
    BY <2>1 DEF MoveCounter
  <2>3. account' \in [Contacts -> [attempts : Nat, lockedUntil : 0..(MaxClock + LockWindow)]]
    BY <1>2, <2>2, CountersAreTyped
  <2> QED BY <2>1, <2>3, FaultsAreBounded DEF CallerRowsTypeOK
<1>15. CASE Admit(v)
  <2>1. /\ attempt[v].pc = "admit"
        /\ Fault \/ UNCHANGED faults
        /\ SetVerification(call, who)
        /\ UNCHANGED <<offered, wrong, resolved, signals, candidate, account, clock, lost>>
    BY <1>15 DEF Admit, Conclude
  <2>2. Stored[who]["customer_id"] \in Accounts
    BY <1>6, <2>1 DEF Accounts
  <2> QED BY <1>3, <1>6, <2>1, <2>2, FaultsAreBounded DEF SetVerification, CallerRowsTypeOK
<1>16. CASE FailAttempt(v)
  BY <1>16, FaultsAreBounded DEF FailAttempt, CallerRowsTypeOK
<1> QED BY <1>10, <1>11, <1>12, <1>13, <1>14, <1>15, <1>16 DEF AttemptStep

\* And when a check does.
LEMMA CheckKeepsRows ==
  ASSUME CallerRowsTypeOK, CheckTypeOK, NEW k \in Checks, CheckOK(k), CheckStep(k)
  PROVE  CallerRowsTypeOK'
<1> DEFINE call == check[k].call
           who == check[k].contact
<1>1. check[k] \in CheckStates
  BY DEF CheckTypeOK
<1>2. /\ check[k].read \subseteq AllFingerprints
      /\ check[k].said \in {<<>>} \cup UNION {{Answer(f, v) : v \in Said[f]} : f \in Factors}
  BY <1>1 DEF CheckStates
<1>3. check[k].pc # "idle" => call \in Calls
  BY DEF CheckOK
<1>4. Fingerprints(check[k].said) \subseteq AllFingerprints
  <2>1. CASE check[k].said = <<>>
    <3>1. DOMAIN check[k].said = {} BY <2>1
    <3> QED BY <3>1 DEF Fingerprints
  <2>2. ASSUME NEW f \in Factors, NEW v \in Said[f], check[k].said = Answer(f, v)
        PROVE  Fingerprints(check[k].said) \subseteq AllFingerprints
    <3>1. /\ DOMAIN check[k].said \subseteq Factors
          /\ \A g \in DOMAIN check[k].said : check[k].said[g] \in Said[g]
      BY <2>2 DEF Answer
    <3> QED BY <3>1, FingerprintsAreKnown
  <2> QED BY <1>2, <2>1, <2>2
<1>5. CASE CountCheck(k)
  <2>1. /\ check[k].pc = "count" /\ "offered" \in Extended
        /\ Fault \/ UNCHANGED faults
        /\ RecordFactorAttempts(call, check[k].read, Fingerprints(check[k].said))
        /\ UNCHANGED <<wrong, resolved, signals, gate, candidate, account, clock>>
    BY <1>5 DEF CountCheck, Report, Extended
  <2>2. lost' \in [Calls -> [Extended -> Nat]]
    BY <1>3, <2>1, LossesAreCounted DEF RecordFactorAttempts
  <2> QED
    BY <1>2, <1>3, <1>4, <2>1, <2>2, FaultsAreBounded DEF RecordFactorAttempts, CallerRowsTypeOK
<1>6. CASE SuspectGuesser(k)
  <2>1. /\ check[k].pc = "guess"
        /\ Fault \/ UNCHANGED faults
        /\ RecordRiskSignal(call, "SUSPECTED_GUESSING")
        /\ UNCHANGED <<offered, wrong, resolved, gate, candidate, account, clock, lost>>
    BY <1>6 DEF SuspectGuesser, Report
  <2>2. signals' \in [Calls -> SUBSET {"SUSPECTED_GUESSING", "CONFLICTING_IDENTITY_DATA"}]
    BY <1>3, <2>1, SignalsAreTyped
  <2>3. faults' \in 0..MaxFaults
    BY <2>1, FaultsAreBounded DEF CallerRowsTypeOK
  <2> QED BY <2>1, <2>2, <2>3 DEF CallerRowsTypeOK
<1>7. CASE ResolveOnce(k)
  BY <1>7 DEF ResolveOnce, rowVars, CallerRowsTypeOK
<1>8. CASE Remember(k)
  <2>1. /\ check[k].pc = "remember" /\ "resolved" \in Extended
        /\ Fault \/ UNCHANGED faults
        /\ SetResolvedContact(call, who)
        /\ UNCHANGED <<offered, wrong, signals, gate, candidate, account, clock>>
    BY <1>8 DEF Remember, Report, Extended
  <2>2. lost' \in [Calls -> [Extended -> Nat]]
    BY <1>3, <2>1, LossesAreCounted DEF SetResolvedContact
  <2>3. who \in Contacts
    BY <2>1 DEF CheckOK
  <2> QED BY <1>3, <2>1, <2>2, <2>3, FaultsAreBounded DEF SetResolvedContact, CallerRowsTypeOK
<1>9. CASE FailCheck(k)
  BY <1>9, FaultsAreBounded DEF FailCheck, CallerRowsTypeOK
<1> QED BY <1>5, <1>6, <1>7, <1>8, <1>9 DEF CheckStep

\* And when a call arrives or time passes.
LEMMA WorldKeepsRows ==
  ASSUME CallerRowsTypeOK, CallerRowsNext PROVE CallerRowsTypeOK'
<1>1. CASE Tick
  BY <1>1, CallerRowsAssumption DEF Tick, CallerRowsTypeOK
<1>2. ASSUME NEW c \in Calls, NEW n \in Numbers, Initiate(c, n)
      PROVE  CallerRowsTypeOK'
  <2> DEFINE Passed == [customer : Accounts \cup {Nobody}, language : Languages \cup {"none"}]
  <2>1. candidate \in [Calls -> Passed]
    BY DEF CallerRowsTypeOK
  <2>2. ASSUME Recognise(c, n) PROVE candidate' \in [Calls -> Passed]
    <3> DEFINE p == LookupContact("phone", n)
    <3>1. p \in Contacts => Stored[p]["customer_id"] \in Accounts /\ Language[p] \in Languages
      BY CallerRowsAssumption DEF Accounts
    <3>2. p = Nobody \/ p \in Contacts
      BY LookupFindsContacts
    <3>3. [customer |-> Nobody, language |-> "de"] \in Passed
      BY DEF Languages
    <3>4. p \in Contacts => [customer |-> Stored[p]["customer_id"], language |-> Language[p]] \in Passed
      BY <3>1
    <3>5. candidate' = [candidate EXCEPT ![c] =
            IF p = Nobody THEN [customer |-> Nobody, language |-> "de"]
            ELSE [customer |-> Stored[p]["customer_id"], language |-> Language[p]]]
      BY <2>2 DEF Recognise
    <3> HIDE DEF p, Passed
    <3> QED BY <2>1, <3>2, <3>3, <3>4, <3>5
  <2>3. ASSUME candidate' = [candidate EXCEPT ![c].language = "de"]
        PROVE  candidate' \in [Calls -> Passed]
    <3>1. [candidate[c] EXCEPT !.language = "de"] \in Passed
      BY <2>1 DEF Languages
    <3> HIDE DEF Passed
    <3> QED BY <2>1, <2>3, <3>1
  <2>4. candidate' \in [Calls -> Passed]
    BY <1>2, <2>2, <2>3 DEF Initiate
  <2>5. /\ Fault \/ UNCHANGED faults
        /\ UNCHANGED <<offered, wrong, resolved, signals, gate, account, clock, lost>>
    BY <1>2 DEF Initiate
  <2> QED BY <2>4, <2>5, FaultsAreBounded DEF CallerRowsTypeOK
<1> QED BY <1>1, <1>2 DEF CallerRowsNext

-----------------------------------------------------------------------------
(* The rows, the attempts and the checks are always what they can be.      *)

DeskInv ==
  CallerRowsTypeOK /\ AttemptTypeOK /\ CheckTypeOK /\ AttemptsOK /\ ChecksOK

\* Nothing has been asked, offered or decided when the calls begin.
LEMMA DeskStarts == Init => DeskInv
<1> SUFFICES ASSUME Init PROVE DeskInv
  OBVIOUS
<1>1. CallerRowsTypeOK
  BY CallerRowsAssumption
  DEF Init, CallerRowsInit, CallerRowsTypeOK, NotVerified, Extended
<1>2. NewAttempt \in AttemptStates
  BY DEF NewAttempt, AttemptStates, AttemptPcs, AttemptReplies
<1>3. AttemptTypeOK /\ AttemptsOK
  BY <1>2 DEF Init, AttemptInit, AttemptTypeOK, AttemptsOK, AttemptOK, NewAttempt
<1>4. NewCheck \in CheckStates
  BY DEF NewCheck, CheckStates, CheckPcs, CheckReplies
<1>5. CheckTypeOK /\ ChecksOK
  BY <1>4 DEF Init, CheckInit, CheckTypeOK, ChecksOK, CheckOK, NewCheck
<1> QED BY <1>1, <1>3, <1>5 DEF DeskInv

\* Every step of the desk keeps it so.
LEMMA DeskGoesOn ==
  ASSUME DeskInv, [Next]_vars PROVE DeskInv' /\ AttemptsKept /\ ChecksKept
<1> USE DEF DeskInv
<1>1. AttemptTypeOK' /\ AttemptsOK' /\ AttemptsKept
  BY AttemptsMove
<1>2. CheckTypeOK' /\ ChecksOK' /\ ChecksKept
  BY ChecksMove
<1>3. CallerRowsTypeOK'
  <2>1. ASSUME NEW v \in Attempts, AttemptStep(v) PROVE CallerRowsTypeOK'
    BY <2>1, AttemptKeepsRows DEF AttemptsOK
  <2>2. ASSUME NEW k \in Checks, CheckStep(k) PROVE CallerRowsTypeOK'
    BY <2>2, CheckKeepsRows DEF ChecksOK
  <2>3. CASE \/ \E m \in Questions : QuestionStep(m)
             \/ \E x \in Readings : ReadingStep(x)
             \/ \E m \in Questions, c \in Calls, i \in Invoices, claim \in Claims : BeginQuestion(m, c, i, claim)
             \/ \E x \in Readings, c \in Calls : BeginReading(x, c)
    BY <2>3, ReadersOnlyRead DEF CallerRowsTypeOK
  <2>4. CASE UNCHANGED rowVars
    BY <2>4 DEF rowVars, CallerRowsTypeOK
  <2>5. CASE CallerRowsNext
    BY <2>5, WorldKeepsRows
  <2> QED
    BY <2>1, <2>2, <2>3, <2>4, <2>5
    DEF Next, ToolCall, ToolStep, vars, BeginAttempt, BeginCheck
<1> QED BY <1>1, <1>2, <1>3

\* For every number of calls, people and invocations, the rows and the
\* invocations of the two identity endpoints keep their types, and an attempt
\* about to admit has found everything right.
THEOREM DeskIsTyped == Spec => []DeskInv
<1>1. DeskInv /\ [Next]_vars => DeskInv'
  BY DeskGoesOn
<1> QED BY <1>1, DeskStarts, PTL DEF Spec

-----------------------------------------------------------------------------
(* Who is let in.                                                          *)

\* A proof, once given on a call, stays given.
LEMMA ProofsStay ==
  ASSUME DeskInv, AttemptsKept, NEW c, NEW p, Proved(c, p) PROVE Proved(c, p)'
<1>1. PICK v \in Attempts :
        /\ attempt[v].call = c /\ attempt[v].contact = p
        /\ attempt[v].reply \in {"VERIFIED", "SERVICE_UNAVAILABLE"}
        /\ Proves(attempt[v].supplied, p)
  BY DEF Proved
<1>2. attempt[v].pc = "done"
  BY <1>1 DEF DeskInv, AttemptsOK, AttemptOK
<1>3. attempt'[v] = attempt[v]
  BY <1>2 DEF AttemptsKept
<1> QED BY <1>1, <1>3 DEF Proved

\* Only Admit opens the gate of a call.
LEMMA OnlyAdmitOpens ==
  ASSUME DeskInv, [Next]_vars
  PROVE  gate' = gate \/ \E v \in Attempts : Admit(v)
<1>1. ASSUME NEW v \in Attempts, AttemptStep(v), ~Admit(v) PROVE gate' = gate
  BY <1>1
  DEF AttemptStep, CountOffer, SuspectGuessing, ReadRecord, ReadWrongValues, MarkWrongValues,
      Settle, NoteConflict, FailAttempt, rowVars
<1>2. ASSUME NEW k \in Checks, CheckStep(k) PROVE gate' = gate
  BY <1>2
  DEF CheckStep, CountCheck, SuspectGuesser, ResolveOnce, Remember, FailCheck, rowVars
<1>3. CASE \/ \E m \in Questions : QuestionStep(m)
           \/ \E x \in Readings : ReadingStep(x)
           \/ \E m \in Questions, c \in Calls, i \in Invoices, claim \in Claims : BeginQuestion(m, c, i, claim)
           \/ \E x \in Readings, c \in Calls : BeginReading(x, c)
  BY <1>3, ReadersOnlyRead DEF DeskInv
<1>4. CASE CallerRowsNext
  BY <1>4 DEF CallerRowsNext, Tick, Initiate
<1>5. CASE UNCHANGED rowVars
  BY <1>5 DEF rowVars
<1> QED
  BY <1>1, <1>2, <1>3, <1>4, <1>5
  DEF Next, ToolCall, ToolStep, vars, BeginAttempt, BeginCheck

\* What one attempt admits, its own answers prove.
LEMMA AdmittedIsProved ==
  ASSUME DeskInv, NEW v \in Attempts, attempt[v].pc = "admit"
  PROVE  attempt[v].contact \in Contacts /\ Proves(attempt[v].supplied, attempt[v].contact)
<1>1. CheckFactors(attempt[v].supplied, StoredFactors(attempt[v].contact)) = "VERIFIED"
  BY DEF DeskInv, AttemptsOK, AttemptOK, Outcome
<1>2. attempt[v].contact \in Contacts
  BY <1>1, OnlyContactsVerify
<1>3. DOMAIN attempt[v].supplied \subseteq Factors
  BY SuppliedIsSaid DEF DeskInv, AttemptTypeOK, AttemptStates
<1>4. CheckFactors(attempt[v].supplied, Stored[attempt[v].contact]) = "VERIFIED"
  BY <1>1, <1>2 DEF StoredFactors
<1> QED BY <1>2, <1>3, <1>4, VerifiedProves

\* Whoever a call is verified as has been proved by one attempt of that call.
LEMMA GateStaysEarned ==
  ASSUME DeskInv, VerifiedIsProved, [Next]_vars PROVE VerifiedIsProved'
<1>1. DeskInv' /\ AttemptsKept
  BY DeskGoesOn
<1> SUFFICES ASSUME NEW c \in Calls, NEW g, g = gate'[c], g # NotVerified
             PROVE  /\ g.contact \in Contacts
                    /\ g.customer = Stored[g.contact]["customer_id"]
                    /\ Proved(c, g.contact)'
  BY DEF VerifiedIsProved, Verified
<1>2. CASE g = gate[c]
  <2>1. /\ g.contact \in Contacts
        /\ g.customer = Stored[g.contact]["customer_id"]
        /\ Proved(c, g.contact)
    BY <1>2 DEF VerifiedIsProved, Verified
  <2> QED BY <1>1, <2>1, ProofsStay
<1>3. ASSUME NEW v \in Attempts, Admit(v), g # gate[c]
      PROVE  /\ g.contact \in Contacts
             /\ g.customer = Stored[g.contact]["customer_id"]
             /\ Proved(c, g.contact)'
  <2>1. attempt[v].contact \in Contacts /\ Proves(attempt[v].supplied, attempt[v].contact)
    BY <1>3, AdmittedIsProved DEF Admit
  <2>2. /\ attempt[v].call = c
        /\ g = [customer |-> Stored[attempt[v].contact]["customer_id"], contact |-> attempt[v].contact]
    BY <1>3 DEF Admit, SetVerification, DeskInv, CallerRowsTypeOK
  <2>3. attempt'[v].reply \in {"VERIFIED", "SERVICE_UNAVAILABLE"}
    <3>1. PICK reply \in {"VERIFIED", "SERVICE_UNAVAILABLE"} : AnswerAttempt(v, reply)
      BY <1>3 DEF Admit, Conclude
    <3>2. reply \in AttemptReplies
      BY <3>1 DEF AttemptReplies
    <3>3. attempt'[v] = [attempt[v] EXCEPT !.reply = reply, !.pc = "done"]
      BY <3>1, <3>2, AnswerEnds DEF DeskInv
    <3> QED BY <3>3 DEF DeskInv, AttemptTypeOK, AttemptStates
  <2>4. /\ attempt'[v].call = c /\ attempt'[v].contact = g.contact
        /\ attempt'[v].supplied = attempt[v].supplied
    BY <1>1, <1>3, <2>2 DEF AttemptsKept, Admit
  <2>5. Proved(c, g.contact)'
    BY <2>1, <2>2, <2>3, <2>4 DEF Proved
  <2> QED BY <2>1, <2>2, <2>5
<1> QED BY <1>2, <1>3, OnlyAdmitOpens

\* The gate is earned, for any number of attempts under way at once, any policy
\* and any faults (verify_identity.py: what _verify admits, one check_factors
\* has found right).
THEOREM OnlyTheProvedAreVerified == Spec => []VerifiedIsProved
<1>1. Init => VerifiedIsProved
  BY DEF Init, CallerRowsInit, VerifiedIsProved, Verified
<1>2. VerifiedIsProved /\ DeskInv /\ [Next]_vars => VerifiedIsProved'
  BY GateStaysEarned
<1> QED BY <1>1, <1>2, DeskIsTyped, PTL DEF Spec

-----------------------------------------------------------------------------
(* The lock.                                                               *)

\* Only Settle touches the counter and the lock of an account.
LEMMA OnlySettleCounts ==
  ASSUME DeskInv, [Next]_vars
  PROVE  account' = account \/ \E v \in Attempts : Settle(v)
<1>1. ASSUME NEW v \in Attempts, AttemptStep(v), ~Settle(v) PROVE account' = account
  BY <1>1
  DEF AttemptStep, CountOffer, SuspectGuessing, ReadRecord, ReadWrongValues, MarkWrongValues,
      NoteConflict, Admit, FailAttempt, rowVars
<1>2. ASSUME NEW k \in Checks, CheckStep(k) PROVE account' = account
  BY <1>2
  DEF CheckStep, CountCheck, SuspectGuesser, ResolveOnce, Remember, FailCheck, rowVars
<1>3. CASE \/ \E m \in Questions : QuestionStep(m)
           \/ \E x \in Readings : ReadingStep(x)
           \/ \E m \in Questions, c \in Calls, i \in Invoices, claim \in Claims : BeginQuestion(m, c, i, claim)
           \/ \E x \in Readings, c \in Calls : BeginReading(x, c)
  BY <1>3, ReadersOnlyRead DEF DeskInv
<1>4. CASE CallerRowsNext
  BY <1>4 DEF CallerRowsNext, Tick, Initiate
<1>5. CASE UNCHANGED rowVars
  BY <1>5 DEF rowVars
<1> QED
  BY <1>1, <1>2, <1>3, <1>4, <1>5
  DEF Next, ToolCall, ToolStep, vars, BeginAttempt, BeginCheck

\* And an attempt settles once.
LEMMA SettleMovesOn ==
  ASSUME DeskInv, NEW v \in Attempts, Settle(v)
  PROVE  attempt'[v].pc # "attempt" /\ attempt'[v].reply # "GUESSING"
<1>1. attempt[v] \in AttemptStates /\ attempt[v].reply = "none" /\ attempt[v].pc = "attempt"
  BY DEF DeskInv, AttemptTypeOK, AttemptsOK, AttemptOK, Settle
<1>2. ASSUME NEW pc \in {"conflict", "admit"}, Advance(v, pc, attempt[v])
      PROVE  attempt'[v].pc # "attempt" /\ attempt'[v].reply # "GUESSING"
  <2>1. attempt'[v] = [attempt[v] EXCEPT !.pc = pc]
    BY <1>1, <1>2, AdvanceMoves DEF AttemptPcs, DeskInv
  <2> QED BY <1>1, <2>1 DEF AttemptStates
<1>3. ASSUME NEW reply \in {"CALL_LOCKED", "VERIFIED", "PARTIALLY_VERIFIED", "FAILED", "SERVICE_UNAVAILABLE"},
             AnswerAttempt(v, reply)
      PROVE  attempt'[v].pc # "attempt" /\ attempt'[v].reply # "GUESSING"
  <2>0. AttemptTypeOK /\ reply \in AttemptReplies
    BY DEF AttemptReplies, DeskInv
  <2>1. attempt'[v] = [attempt[v] EXCEPT !.reply = reply, !.pc = "done"]
    BY <1>3, <2>0, AnswerEnds
  <2> QED BY <1>1, <2>1 DEF AttemptStates
<1> QED BY <1>2, <1>3, OutcomeIsOneOfThree DEF Settle, Conclude

\* A step that ends a lock before its time has found everything right.
LEMMA UnlockStep ==
  ASSUME DeskInv, [Next]_vars, NEW p \in Contacts, IsLocked(p),
         account'[p].lockedUntil <= clock', ~(clock' > clock)
  PROVE  \E v \in Attempts :
           /\ attempt[v].pc = "attempt" /\ attempt'[v].pc # "attempt"
           /\ attempt[v].contact = p /\ Proves(attempt[v].supplied, p)
<1>1. /\ clock \in Nat /\ account \in [Contacts -> [attempts : Nat, lockedUntil : 0..(MaxClock + LockWindow)]]
      /\ clock < account[p].lockedUntil
      /\ account[p].lockedUntil \in Int /\ LockWindow \in Nat \ {0}
  BY CallerRowsAssumption DEF DeskInv, CallerRowsTypeOK, IsLocked
<1>2. clock' \in Nat
  BY DeskGoesOn, CallerRowsAssumption DEF DeskInv, CallerRowsTypeOK
<1>3. account'[p] # account[p] /\ clock' <= clock
  BY <1>1, <1>2
<1>4. PICK v \in Attempts : Settle(v)
  BY <1>3, OnlySettleCounts
<1>5. clock' = clock /\ MoveCounter(v) /\ attempt[v].pc = "attempt"
  BY <1>4 DEF Settle
<1>6. attempt[v].contact = p /\ Outcome(v) = "VERIFIED"
  <2> DEFINE q == attempt[v].contact
  <2>1. CASE q \in Contacts /\ Outcome(v) = "VERIFIED" /\ ClearAttempts(q)
    BY <1>1, <1>3, <2>1 DEF ClearAttempts
  <2>2. CASE q \in Contacts /\ LockAccount(q, attempt[v].count)
    BY <1>1, <1>3, <1>5, <2>2 DEF LockAccount
  <2>3. CASE q \in Contacts /\ CountAttempts(q, attempt[v].count)
    BY <1>1, <1>3, <1>5, <2>3 DEF CountAttempts
  <2>4. CASE UNCHANGED account
    BY <1>3, <2>4
  <2> QED BY <1>5, <2>1, <2>2, <2>3, <2>4 DEF MoveCounter
<1>7. attempt'[v].pc # "attempt"
  BY <1>4, SettleMovesOn
<1>8. Proves(attempt[v].supplied, p)
  <2>1. CheckFactors(attempt[v].supplied, Stored[p]) = "VERIFIED"
    BY <1>6 DEF Outcome, StoredFactors
  <2>2. DOMAIN attempt[v].supplied \subseteq Factors
    BY SuppliedIsSaid DEF DeskInv, AttemptTypeOK, AttemptStates
  <2> QED BY <2>1, <2>2, VerifiedProves
<1> QED BY <1>5, <1>6, <1>7, <1>8

\* No wrong answer ends a lock, whatever is under way on whatever call
\* (verify_identity.py, _record_attempt).
THEOREM LocksLast == Spec => UnlockNeedsTimeOrProof
<1>1. DeskInv /\ [Next]_vars =>
        [\A p \in Contacts :
           IsLocked(p) /\ account'[p].lockedUntil <= clock' =>
             \/ clock' > clock
             \/ \E v \in Attempts :
                  /\ attempt[v].pc = "attempt" /\ attempt'[v].pc # "attempt"
                  /\ attempt[v].contact = p /\ Proves(attempt[v].supplied, p)]_vars
  BY UnlockStep
<1> QED BY <1>1, DeskIsTyped, PTL DEF Spec, UnlockNeedsTimeOrProof

\* What has been counted against a call are mistakes it has made.
Made(c, prints) == \A f, x : <<f, x>> \in prints => x \in Mistakes(c, f)

\* What an attempt knows of the mistakes of its call.
CountOK(v) ==
  /\ attempt[v].pc = "mark" => Made(attempt[v].call, attempt[v].read)
  /\ attempt[v].pc = "attempt" /\ attempt[v].count >= MaxAttempts => Exhausted(attempt[v].call)

LockInv ==
  /\ \A c \in Calls : Made(c, wrong[c])
  /\ \A v \in Attempts : CountOK(v)
  /\ LockIsEarned

\* A mistake, once made, stays made.
LEMMA MistakesStay ==
  ASSUME DeskInv, AttemptsKept, NEW c, NEW f PROVE Mistakes(c, f) \subseteq Mistakes(c, f)'
<1> SUFFICES ASSUME NEW x \in Mistakes(c, f) PROVE x \in Mistakes(c, f)'
  OBVIOUS
<1>1. PICK v \in Attempts :
        /\ x = Normalise(f, attempt[v].supplied[f])
        /\ attempt[v].call = c /\ f \in DOMAIN attempt[v].supplied
        /\ ~ (attempt[v].contact \in Contacts
              /\ Matches(f, attempt[v].supplied[f], Stored[attempt[v].contact][f]))
  BY DEF Mistakes, OnRecord
<1>2. attempt[v].pc # "idle"
  <2> SUFFICES ASSUME attempt[v].pc = "idle" PROVE FALSE
    OBVIOUS
  <2>1. attempt[v].supplied = <<>>
    BY DEF DeskInv, AttemptsOK, AttemptOK, NewAttempt
  <2>2. DOMAIN attempt[v].supplied = {}
    BY <2>1
  <2> QED BY <1>1, <2>2
<1>3. /\ attempt'[v].call = c /\ attempt'[v].supplied = attempt[v].supplied
      /\ attempt'[v].contact = attempt[v].contact
  BY <1>1, <1>2 DEF AttemptsKept
<1> QED BY <1>1, <1>3 DEF Mistakes, OnRecord

\* There are finitely many for each field.
LEMMA MistakesAreFinite ==
  ASSUME DeskInv, NEW c, NEW f \in Factors PROVE IsFiniteSet(Mistakes(c, f))
<1>1. \A v \in Attempts : f \in DOMAIN attempt[v].supplied => attempt[v].supplied[f] \in Said[f]
  BY SuppliedIsSaid DEF DeskInv, AttemptTypeOK, AttemptStates
<1>2. Mistakes(c, f) \subseteq {Normalise(f, w) : w \in Said[f]}
  BY <1>1 DEF Mistakes
<1> QED BY <1>2, FingerprintsAreFinite, FS_Subset

\* Mistakes that exhaust a call go on doing so.
LEMMA ExhaustedStays ==
  ASSUME DeskInv, DeskInv', AttemptsKept, NEW c, Exhausted(c) PROVE Exhausted(c)'
<1>1. PICK f \in Factors : Cardinality(Mistakes(c, f)) >= MaxAttempts
  BY DEF Exhausted
<1>2. IsFiniteSet(Mistakes(c, f)) /\ IsFiniteSet(Mistakes(c, f)')
  <2>1. IsFiniteSet(Mistakes(c, f)) BY MistakesAreFinite
  <2>2. \A v \in Attempts : f \in DOMAIN attempt'[v].supplied => attempt'[v].supplied[f] \in Said[f]
    BY SuppliedIsSaid DEF DeskInv, AttemptTypeOK, AttemptStates
  <2>3. Mistakes(c, f)' \subseteq {Normalise(f, w) : w \in Said[f]}
    BY <2>2 DEF Mistakes
  <2> QED BY <2>1, <2>3, FingerprintsAreFinite, FS_Subset
<1>3. Cardinality(Mistakes(c, f)) <= Cardinality(Mistakes(c, f)')
  BY <1>2, MistakesStay, FS_Subset
<1>4. Cardinality(Mistakes(c, f)) \in Nat /\ Cardinality(Mistakes(c, f)') \in Nat
  BY <1>2, FS_CardinalityType
<1>5. Cardinality(Mistakes(c, f)') >= MaxAttempts
  BY <1>1, <1>3, <1>4, VerifyIdentityAssumption
<1> QED BY <1>5 DEF Exhausted

\* What an attempt marks as wrong is a mistake of its call.
LEMMA WrongPrintsAreMade ==
  ASSUME DeskInv, NEW v \in Attempts PROVE Made(attempt[v].call, WrongPrints(v))
<1> DEFINE supplied == attempt[v].supplied
           who == attempt[v].contact
<1> SUFFICES ASSUME NEW f, NEW x, <<f, x>> \in WrongPrints(v)
             PROVE  x \in Mistakes(attempt[v].call, f)
  BY DEF Made
<1>1. PICK g \in Mismatched(supplied, StoredFactors(who)) : <<f, x>> = Fingerprint(g, supplied[g])
  BY DEF WrongPrints
<1>2. f = g /\ x = Normalise(f, supplied[f])
  BY <1>1 DEF Fingerprint
<1>3. f \in DOMAIN supplied /\ f \in Factors
      /\ f \notin Unreadable(supplied) /\ f \notin Confirmed(supplied, StoredFactors(who))
  BY <1>1, <1>2, SuppliedIsSaid DEF Mismatched, DeskInv, AttemptTypeOK, AttemptStates
<1>4. ~ (who \in Contacts /\ Matches(f, supplied[f], Stored[who][f]))
  <2> SUFFICES ASSUME who \in Contacts, Matches(f, supplied[f], Stored[who][f]) PROVE FALSE
    OBVIOUS
  <2>1. StoredFactors(who) = Stored[who] /\ f \in DOMAIN Stored[who]
    BY <1>3, CallerRowsAssumption DEF StoredFactors
  <2> QED BY <1>3, <2>1 DEF Confirmed
<1> QED BY <1>2, <1>3, <1>4 DEF Mistakes, OnRecord

\* A count that reaches the maximum counts so many different mistakes.
LEMMA CountedIsExhausted ==
  ASSUME DeskInv, NEW c, NEW prints \in SUBSET AllFingerprints, Made(c, prints),
         WorstField(prints) >= MaxAttempts
  PROVE  Exhausted(c)
<1>1. IsFiniteSet(prints)
  BY FingerprintsAreFinite, FS_Subset
<1>2. PICK f \in Factors : WorstField(prints) = CountFor(prints, f)
  BY <1>1, WorstFieldIsWorst
<1> DEFINE counted == {p \in prints : p[1] = f}
           value == [p \in counted |-> p[2]]
<1>3. ASSUME NEW p \in counted PROVE p = <<f, p[2]>>
  <2>1. PICK g \in Factors : \E w \in Said[g] : p = Fingerprint(g, w)
    BY DEF AllFingerprints
  <2> QED BY <2>1 DEF Fingerprint
<1>4. \A p \in counted : p[2] \in Mistakes(c, f)
  BY <1>3 DEF Made
<1>5. value \in Injection(counted, Mistakes(c, f))
  <2>1. value \in [counted -> Mistakes(c, f)]
    BY <1>4
  <2>2. ASSUME NEW p \in counted, NEW q \in counted, value[p] = value[q] PROVE p = q
    <3>1. p[2] = q[2] BY <2>2
    <3> QED BY <1>3, <3>1
  <2> HIDE DEF value, counted
  <2> QED BY <2>1, <2>2 DEF Injection, IsInjective
<1>6. IsFiniteSet(Mistakes(c, f))
  BY MistakesAreFinite
<1>7. Cardinality(counted) <= Cardinality(Mistakes(c, f)) /\ IsFiniteSet(counted)
  <2> HIDE DEF value, counted
  <2> QED BY <1>5, <1>6, FS_Injection
<1>8. Cardinality(counted) \in Nat /\ Cardinality(Mistakes(c, f)) \in Nat
  BY <1>6, <1>7, FS_CardinalityType
<1>9. Cardinality(counted) >= MaxAttempts
  BY <1>2 DEF CountFor
<1>10. Cardinality(Mistakes(c, f)) >= MaxAttempts
  <2> HIDE DEF counted
  <2> QED BY <1>7, <1>8, <1>9, VerifyIdentityAssumption
<1> QED BY <1>10 DEF Exhausted

\* Only MarkWrongValues writes what was wrong.
LEMMA OnlyMarkWrites ==
  ASSUME DeskInv, [Next]_vars
  PROVE  wrong' = wrong \/ \E v \in Attempts : MarkWrongValues(v)
<1>1. ASSUME NEW v \in Attempts, AttemptStep(v), ~MarkWrongValues(v) PROVE wrong' = wrong
  BY <1>1
  DEF AttemptStep, CountOffer, SuspectGuessing, ReadRecord, ReadWrongValues, Settle,
      NoteConflict, Admit, FailAttempt, rowVars
<1>2. ASSUME NEW k \in Checks, CheckStep(k) PROVE wrong' = wrong
  BY <1>2
  DEF CheckStep, CountCheck, SuspectGuesser, ResolveOnce, Remember, FailCheck, rowVars
<1>3. CASE \/ \E m \in Questions : QuestionStep(m)
           \/ \E x \in Readings : ReadingStep(x)
           \/ \E m \in Questions, c \in Calls, i \in Invoices, claim \in Claims : BeginQuestion(m, c, i, claim)
           \/ \E x \in Readings, c \in Calls : BeginReading(x, c)
  BY <1>3, ReadersOnlyRead DEF DeskInv
<1>4. CASE CallerRowsNext
  BY <1>4 DEF CallerRowsNext, Tick, Initiate
<1>5. CASE UNCHANGED rowVars
  BY <1>5 DEF rowVars
<1> QED
  BY <1>1, <1>2, <1>3, <1>4, <1>5
  DEF Next, ToolCall, ToolStep, vars, BeginAttempt, BeginCheck

\* An attempt that changes either begins or goes on.
LEMMA ChangesAreSteps ==
  ASSUME DeskInv, [Next]_vars, NEW v \in Attempts, attempt'[v] # attempt[v]
  PROVE  AttemptStep(v) \/ \E c \in Calls, offer \in Offers : BeginAttempt(v, c, offer)
<1>1. ASSUME NEW w \in Attempts, AttemptStep(w), w # v PROVE FALSE
  <2>1. AttemptGoesOn(w)
    BY <1>1, AttemptStepGoesOn DEF DeskInv, AttemptsOK
  <2> QED BY <1>1, <2>1 DEF AttemptGoesOn
<1>2. ASSUME NEW w \in Attempts, NEW c \in Calls, NEW offer \in Offers, BeginAttempt(w, c, offer), w # v
      PROVE  FALSE
  <2>1. \A u \in Attempts \ {w} : attempt'[u] = attempt[u]
    BY <1>2, AttemptBegins DEF DeskInv
  <2> QED BY <1>2, <2>1
<1> QED
  BY <1>1, <1>2 DEF Next, ToolCall, ToolStep, CallerRowsNext, OpenItemsNext, vars

\* The other steps of an attempt count nothing, and only Settle locks a call.
LEMMA OtherStepsCountNothing ==
  ASSUME DeskInv, NEW v \in Attempts, AttemptStep(v), ~ReadWrongValues(v), ~MarkWrongValues(v)
  PROVE  /\ attempt'[v].pc \notin {"mark", "attempt"}
         /\ attempt'[v].reply = "CALL_LOCKED" => Settle(v) /\ attempt[v].count >= MaxAttempts
<1> DEFINE Goal == /\ attempt'[v].pc \notin {"mark", "attempt"}
                   /\ attempt'[v].reply = "CALL_LOCKED" => Settle(v) /\ attempt[v].count >= MaxAttempts
<1>1. /\ attempt[v] \in AttemptStates
      /\ attempt[v].pc # "done" => attempt[v].reply = "none"
  BY DEF DeskInv, AttemptTypeOK, AttemptsOK, AttemptOK
<1>2. ASSUME NEW pc \in {"guess", "record", "wrong", "conflict", "admit"},
             NEW fields \in {attempt[v], [attempt[v] EXCEPT !.read = {}]},
             attempt[v].pc # "done", Advance(v, pc, fields)
      PROVE  Goal
  <2>1. fields \in AttemptStates /\ fields.reply = "none"
    BY <1>1, <1>2 DEF AttemptStates
  <2>2. attempt'[v] = [fields EXCEPT !.pc = pc]
    BY <1>2, <2>1, AdvanceMoves DEF AttemptPcs, DeskInv
  <2> QED BY <1>2, <2>1, <2>2 DEF AttemptStates
<1>3. ASSUME NEW reply \in AttemptReplies, AnswerAttempt(v, reply),
             reply = "CALL_LOCKED" => Settle(v) /\ attempt[v].count >= MaxAttempts
      PROVE  Goal
  <2>0. AttemptTypeOK
    BY DEF DeskInv
  <2>1. attempt'[v] = [attempt[v] EXCEPT !.reply = reply, !.pc = "done"]
    BY <1>3, <2>0, AnswerEnds
  <2> QED BY <1>1, <1>3, <2>1 DEF AttemptStates
<1>4. ASSUME NEW reply \in AttemptReplies, Conclude(v, reply),
             reply = "CALL_LOCKED" => Settle(v) /\ attempt[v].count >= MaxAttempts
      PROVE  Goal
  BY <1>3, <1>4 DEF Conclude, AttemptReplies
<1>5. /\ {"GUESSING", "ACCOUNT_LOCKED", "CALL_LOCKED", "VERIFIED", "SERVICE_UNAVAILABLE"} \subseteq AttemptReplies
      /\ Outcome(v) \in AttemptReplies /\ Outcome(v) # "CALL_LOCKED"
  BY OutcomeIsOneOfThree DEF AttemptReplies
<1>6. CASE CountOffer(v)
  BY <1>2, <1>6 DEF CountOffer
<1>7. CASE SuspectGuessing(v)
  BY <1>4, <1>5, <1>7 DEF SuspectGuessing
<1>8. CASE ReadRecord(v)
  BY <1>2, <1>3, <1>5, <1>8 DEF ReadRecord
<1>9. CASE Settle(v)
  <2>1. attempt[v].pc # "done" BY <1>9 DEF Settle
  <2>2. CASE attempt[v].count >= MaxAttempts /\ Conclude(v, "CALL_LOCKED")
    BY <1>4, <1>5, <1>9, <2>2
  <2>3. CASE Advance(v, "conflict", attempt[v]) \/ Advance(v, "admit", attempt[v])
    BY <1>2, <2>1, <2>3
  <2>4. CASE Conclude(v, Outcome(v))
    BY <1>4, <1>5, <2>4
  <2> QED BY <1>9, <2>2, <2>3, <2>4 DEF Settle
<1>10. CASE NoteConflict(v)
  BY <1>2, <1>4, <1>5, <1>10 DEF NoteConflict
<1>11. CASE Admit(v)
  BY <1>4, <1>5, <1>11 DEF Admit
<1>12. CASE FailAttempt(v)
  BY <1>3, <1>5, <1>12 DEF FailAttempt
<1> QED BY <1>6, <1>7, <1>8, <1>9, <1>10, <1>11, <1>12 DEF AttemptStep

\* What counts as too many mistakes are too many mistakes, at every point of an
\* attempt that changes.
LEMMA CountsStayMade ==
  ASSUME DeskInv, LockInv, [Next]_vars, NEW v \in Attempts, attempt'[v] # attempt[v]
  PROVE  CountOK(v)'
<1>1. DeskInv' /\ AttemptsKept
  BY DeskGoesOn
<1>2. attempt[v] \in AttemptStates /\ attempt \in [Attempts -> AttemptStates]
  BY DEF DeskInv, AttemptTypeOK
<1>3. ASSUME NEW c \in Calls, NEW offer \in Offers, BeginAttempt(v, c, offer)
      PROVE  CountOK(v)'
  <2>1. attempt'[v].pc \in {"count", "record"}
    BY <1>3, AttemptBegins DEF DeskInv
  <2> QED BY <2>1 DEF CountOK
<1>4. CASE ReadWrongValues(v) \/ MarkWrongValues(v)
  <2>1. PICK c \in Calls : attempt[v].call = c /\ attempt'[v].call = c
    BY <1>1, <1>4 DEF DeskInv, AttemptsOK, AttemptOK, AttemptsKept, ReadWrongValues, MarkWrongValues
  <2> DEFINE prints == attempt[v].read \cup WrongPrints(v)
  <2>2. wrong[c] \in SUBSET AllFingerprints /\ Made(c, wrong[c])
    BY DEF DeskInv, CallerRowsTypeOK, LockInv
  <2>3. WorstField(wrong[c]) >= MaxAttempts => Exhausted(c)
    BY <2>2, CountedIsExhausted
  <2>4. CASE ReadWrongValues(v)
    <3>1. \/ attempt'[v] = [[attempt[v] EXCEPT !.count = WorstField(wrong[c])] EXCEPT !.pc = "attempt"]
          \/ attempt'[v] = [[attempt[v] EXCEPT !.read = wrong[c]] EXCEPT !.pc = "mark"]
      BY <1>2, <2>1, <2>4 DEF ReadWrongValues, Advance
    <3>2. \/ attempt'[v].pc = "attempt" /\ attempt'[v].count = WorstField(wrong[c])
          \/ attempt'[v].pc = "mark" /\ attempt'[v].read = wrong[c]
      BY <1>2, <3>1 DEF AttemptStates
    <3>3. CASE attempt'[v].pc = "attempt" /\ attempt'[v].count = WorstField(wrong[c])
      <4>1. attempt'[v].count >= MaxAttempts => Exhausted(c)'
        BY <1>1, <2>3, <3>3, ExhaustedStays
      <4> QED BY <2>1, <3>3, <4>1 DEF CountOK
    <3>4. CASE attempt'[v].pc = "mark" /\ attempt'[v].read = wrong[c]
      <4>1. \A f, x : <<f, x>> \in wrong[c] => x \in Mistakes(c, f)'
        BY <1>1, <2>2, MistakesStay DEF Made
      <4> QED BY <2>1, <3>4, <4>1 DEF CountOK, Made
    <3> QED BY <3>2, <3>3, <3>4
  <2>5. CASE MarkWrongValues(v)
    <3>1. attempt[v].pc = "mark"
          /\ attempt'[v] = [[attempt[v] EXCEPT !.read = {}, !.count = WorstField(prints)] EXCEPT !.pc = "attempt"]
      BY <1>2, <2>5 DEF MarkWrongValues, Advance
    <3>2. attempt'[v].pc = "attempt" /\ attempt'[v].count = WorstField(prints)
      BY <1>2, <3>1 DEF AttemptStates
    <3>3. prints \in SUBSET AllFingerprints
      BY <1>2, WrongPrintsAreKnown DEF DeskInv, AttemptStates
    <3>4. Made(c, prints)
      BY <2>1, <3>1, WrongPrintsAreMade DEF Made, LockInv, CountOK
    <3>5. attempt'[v].count >= MaxAttempts => Exhausted(c)'
      BY <1>1, <3>2, <3>3, <3>4, CountedIsExhausted, ExhaustedStays
    <3> QED BY <2>1, <3>2, <3>5 DEF CountOK
  <2> QED BY <1>4, <2>4, <2>5
<1>5. CASE AttemptStep(v) /\ ~ReadWrongValues(v) /\ ~MarkWrongValues(v)
  BY <1>5, OtherStepsCountNothing DEF CountOK
<1>6. AttemptStep(v) \/ \E c \in Calls, offer \in Offers : BeginAttempt(v, c, offer)
  BY ChangesAreSteps
<1> QED BY <1>3, <1>4, <1>5, <1>6

\* A call that is told LOCKED for its mistakes has just been settled.
LEMMA ReplyIsOnlySettled ==
  ASSUME DeskInv, [Next]_vars, NEW v \in Attempts, attempt'[v] # attempt[v],
         attempt'[v].reply = "CALL_LOCKED"
  PROVE  Settle(v) /\ attempt[v].count >= MaxAttempts
<1>1. CASE AttemptStep(v) /\ ~ReadWrongValues(v) /\ ~MarkWrongValues(v)
  BY <1>1, OtherStepsCountNothing
<1>2. ASSUME AttemptStep(v), ReadWrongValues(v) \/ MarkWrongValues(v) PROVE FALSE
  <2>1. attempt[v].reply = "none" /\ attempt[v] \in AttemptStates
    BY <1>2 DEF ReadWrongValues, MarkWrongValues, DeskInv, AttemptsOK, AttemptOK, AttemptTypeOK
  <2>2. attempt'[v].reply = attempt[v].reply
    BY <2>1, <1>2 DEF ReadWrongValues, MarkWrongValues, Advance, AttemptStates, DeskInv, AttemptTypeOK
  <2> QED BY <2>1, <2>2
<1>3. ASSUME NEW c \in Calls, NEW offer \in Offers, BeginAttempt(v, c, offer) PROVE FALSE
  <2>1. attempt'[v].pc # "done"
    BY <1>3, AttemptBegins DEF DeskInv
  <2>2. attempt'[v].reply = "none"
    BY <2>1, DeskGoesOn DEF DeskInv, AttemptsOK, AttemptOK
  <2> QED BY <1>3, <2>2
<1> QED BY <1>1, <1>2, <1>3, ChangesAreSteps

\* Every step keeps every lock earned.
LEMMA LocksStayEarned ==
  ASSUME DeskInv, LockInv, [Next]_vars PROVE LockInv'
<1>1. DeskInv' /\ AttemptsKept
  BY DeskGoesOn
<1>2. ASSUME NEW c \in Calls, NEW prints, prints = wrong'[c]
      PROVE  Made(c, prints)'
  <2>1. CASE prints = wrong[c]
    BY <1>1, <2>1, MistakesStay DEF LockInv, Made
  <2>2. ASSUME NEW v \in Attempts, MarkWrongValues(v), prints # wrong[c]
        PROVE  Made(c, prints)'
    <3>1. attempt[v].call = c /\ prints = attempt[v].read \cup WrongPrints(v)
      BY <1>2, <2>2 DEF MarkWrongValues, RecordWrongValues, DeskInv, CallerRowsTypeOK
    <3>2. Made(c, prints)
      BY <2>2, <3>1, WrongPrintsAreMade DEF Made, LockInv, CountOK, MarkWrongValues
    <3> QED BY <1>1, <3>2, MistakesStay DEF Made
  <2> QED BY <1>2, <2>1, <2>2, OnlyMarkWrites
<1>3. ASSUME NEW v \in Attempts PROVE CountOK(v)'
  <2>1. CASE attempt'[v] = attempt[v]
    <3>1. PICK c : c = attempt[v].call /\ c = attempt'[v].call
      BY <2>1
    <3>2. attempt'[v].pc = "mark" => \A f, x : <<f, x>> \in attempt'[v].read => x \in Mistakes(c, f)'
      BY <1>1, <2>1, <3>1, MistakesStay DEF LockInv, CountOK, Made
    <3>3. attempt'[v].pc = "attempt" /\ attempt'[v].count >= MaxAttempts => Exhausted(c)'
      BY <1>1, <2>1, <3>1, ExhaustedStays DEF LockInv, CountOK
    <3> QED BY <3>1, <3>2, <3>3 DEF CountOK, Made
  <2>2. CASE attempt'[v] # attempt[v]
    BY <2>2, CountsStayMade
  <2> QED BY <2>1, <2>2
<1>4. ASSUME NEW v \in Attempts, NEW c, c = attempt'[v].call, attempt'[v].reply = "CALL_LOCKED"
      PROVE  Exhausted(c)'
  <2>1. CASE attempt'[v] = attempt[v]
    <3>1. Exhausted(c) BY <1>4, <2>1 DEF LockInv, LockIsEarned
    <3> QED BY <1>1, <3>1, ExhaustedStays
  <2>2. CASE attempt'[v] # attempt[v]
    <3>1. Settle(v) /\ attempt[v].count >= MaxAttempts
      BY <1>4, <2>2, ReplyIsOnlySettled
    <3>2. attempt[v].call = c
      BY <1>1, <1>4, <3>1 DEF Settle, AttemptsKept
    <3>3. Exhausted(c) BY <3>1, <3>2 DEF LockInv, CountOK, Settle
    <3> QED BY <1>1, <3>3, ExhaustedStays
  <2> QED BY <2>1, <2>2
<1>5. ASSUME NEW p \in Contacts, account'[p].lockedUntil # 0
      PROVE  \E v \in Attempts, c \in {attempt'[w].call : w \in Attempts} :
               attempt'[v].contact = p /\ attempt'[v].call = c /\ Exhausted(c)'
  <2>1. CASE account[p].lockedUntil # 0
    <3>1. PICK v \in Attempts : attempt[v].contact = p /\ Exhausted(attempt[v].call)
      BY <2>1 DEF LockInv, LockIsEarned
    <3>2. p # Nobody /\ attempt[v].pc # "idle"
      BY <3>1, CallerRowsAssumption DEF DeskInv, AttemptsOK, AttemptOK, NewAttempt
    <3>3. attempt'[v].call = attempt[v].call /\ attempt'[v].contact = p
      BY <1>1, <3>1, <3>2 DEF AttemptsKept
    <3>4. PICK c : c = attempt[v].call
      OBVIOUS
    <3>5. Exhausted(c)'
      BY <1>1, <3>1, <3>4, ExhaustedStays
    <3> QED BY <3>3, <3>4, <3>5
  <2>2. CASE account[p].lockedUntil = 0
    <3>1. PICK v \in Attempts : Settle(v)
      BY <1>5, <2>2, OnlySettleCounts
    <3>2. LockAccount(p, attempt[v].count) /\ attempt[v].contact = p /\ attempt[v].count >= MaxAttempts
      BY <1>5, <2>2, <3>1
      DEF Settle, MoveCounter, ClearAttempts, CountAttempts, LockAccount, DeskInv, CallerRowsTypeOK
    <3>3. PICK c : c = attempt[v].call
      OBVIOUS
    <3>4. attempt'[v].call = c /\ attempt'[v].contact = p
      BY <1>1, <3>1, <3>2, <3>3 DEF AttemptsKept, Settle
    <3>5. Exhausted(c)
      BY <3>1, <3>2, <3>3 DEF LockInv, CountOK, Settle
    <3>6. Exhausted(c)'
      BY <1>1, <3>5, ExhaustedStays
    <3> QED BY <3>4, <3>6
  <2> QED BY <2>1, <2>2
<1>6. \A c \in Calls : Made(c, wrong[c])'
  BY <1>2 DEF Made
<1>7. LockIsEarned'
  <2>1. \A v \in Attempts : attempt'[v].reply = "CALL_LOCKED" => Exhausted(attempt[v].call)'
    BY <1>4 DEF Exhausted, Mistakes, OnRecord
  <2>2. \A p \in Contacts : account'[p].lockedUntil # 0 =>
          \E v \in Attempts : attempt'[v].contact = p /\ Exhausted(attempt[v].call)'
    <3> SUFFICES ASSUME NEW p \in Contacts, account'[p].lockedUntil # 0
                 PROVE  \E v \in Attempts : attempt'[v].contact = p /\ Exhausted(attempt[v].call)'
      OBVIOUS
    <3>1. PICK v \in Attempts, c \in {attempt'[w].call : w \in Attempts} :
            attempt'[v].contact = p /\ attempt'[v].call = c /\ Exhausted(c)'
      BY <1>5
    <3>2. Exhausted(attempt[v].call)'
      BY <3>1 DEF Exhausted, Mistakes, OnRecord
    <3> QED BY <3>1, <3>2
  <2> QED BY <2>1, <2>2 DEF LockIsEarned
<1> QED BY <1>3, <1>6, <1>7 DEF LockInv

\* So what is counted, and whoever is locked, is for mistakes that were made.
LEMMA CountsAreMade == Spec => []LockInv
<1>1. Init => LockInv
  <2> SUFFICES ASSUME Init PROVE LockInv
    OBVIOUS
  <2>1. \A c \in Calls : Made(c, wrong[c])
    BY DEF Init, CallerRowsInit, Made
  <2>2. \A v \in Attempts : attempt[v].pc = "idle" /\ attempt[v].reply = "none"
    BY DEF Init, AttemptInit, NewAttempt
  <2>3. \A p \in Contacts : account[p].lockedUntil = 0
    BY DEF Init, CallerRowsInit
  <2> QED BY <2>1, <2>2, <2>3 DEF LockInv, LockIsEarned, CountOK
<1>2. LockInv /\ DeskInv /\ [Next]_vars => LockInv'
  BY LocksStayEarned
<1> QED BY <1>1, <1>2, DeskIsTyped, PTL DEF Spec

\* However many attempts a call has under way, and whatever is lost between
\* them, a lock takes that many different mistakes (verify_identity.py,
\* _record_attempt, over wrong_values of the conversation row).
THEOREM LocksAreEarned == Spec => []LockIsEarned
<1>1. LockInv => LockIsEarned
  BY DEF LockInv
<1> QED BY <1>1, CountsAreMade, PTL

-----------------------------------------------------------------------------
(* Whose details are confirmed.                                            *)

\* The people whose details a call has been told are right.
Seen(c) ==
  {check[k].contact : k \in {k \in Checks : check[k].call = c /\ check[k].reply = "MATCHED"}}

\* Nobody's are while nobody is resolved; and whoever is resolved now counts.
RecordsOK(c) ==
  /\ Seen(c) \subseteq Contacts
  /\ resolved[c] = Nobody => Seen(c) = {}
  /\ resolved[c] # Nobody => Cardinality(Seen(c) \cup {resolved[c]}) <= 1 + lost[c]["resolved"]

RecordsInv == \A c \in Calls : RecordsOK(c)

\* Only Remember resolves anybody.
LEMMA OnlyRememberResolves ==
  ASSUME DeskInv, [Next]_vars
  PROVE  \/ /\ resolved' = resolved
            /\ \A c \in Calls : lost'[c]["resolved"] = lost[c]["resolved"]
         \/ \E k \in Checks : Remember(k)
<1> DEFINE Quiet == /\ resolved' = resolved
                    /\ \A c \in Calls : lost'[c]["resolved"] = lost[c]["resolved"]
<1>1. ASSUME NEW c \in Calls, NEW attribute \in {"offered", "wrong"}, NEW current, NEW read,
             WriteOver(c, attribute, current, read), resolved' = resolved
      PROVE  Quiet
  <2>1. attribute \in Extended /\ "resolved" \in Extended /\ attribute # "resolved"
    BY <1>1 DEF Extended
  <2> QED BY <1>1, <2>1, LossesAreCounted DEF DeskInv
<1>2. ASSUME NEW v \in Attempts, AttemptStep(v) PROVE Quiet
  <2>1. CASE CountOffer(v) \/ MarkWrongValues(v)
    <3>1. attempt[v].call \in Calls
      BY <2>1 DEF CountOffer, MarkWrongValues, DeskInv, AttemptsOK, AttemptOK
    <3> QED BY <1>1, <2>1, <3>1 DEF CountOffer, MarkWrongValues, RecordFactorAttempts, RecordWrongValues
  <2>2. CASE UNCHANGED <<resolved, lost>>
    BY <2>2
  <2> QED
    BY <1>2, <2>1, <2>2
    DEF AttemptStep, SuspectGuessing, ReadRecord, ReadWrongValues, Settle, NoteConflict, Admit,
        FailAttempt, rowVars
<1>3. ASSUME NEW k \in Checks, CheckStep(k), ~Remember(k) PROVE Quiet
  <2>1. CASE CountCheck(k)
    <3>1. check[k].call \in Calls
      BY <2>1 DEF CountCheck, DeskInv, ChecksOK, CheckOK
    <3> QED BY <1>1, <2>1, <3>1 DEF CountCheck, RecordFactorAttempts
  <2>2. CASE UNCHANGED <<resolved, lost>>
    BY <2>2
  <2> QED
    BY <1>3, <2>1, <2>2 DEF CheckStep, SuspectGuesser, ResolveOnce, FailCheck, rowVars
<1>4. CASE \/ \E m \in Questions : QuestionStep(m)
           \/ \E x \in Readings : ReadingStep(x)
           \/ \E m \in Questions, c \in Calls, i \in Invoices, claim \in Claims : BeginQuestion(m, c, i, claim)
           \/ \E x \in Readings, c \in Calls : BeginReading(x, c)
  BY <1>4, ReadersOnlyRead DEF DeskInv
<1>5. CASE CallerRowsNext
  BY <1>5 DEF CallerRowsNext, Tick, Initiate
<1>6. CASE UNCHANGED rowVars
  BY <1>6 DEF rowVars
<1> QED
  BY <1>2, <1>3, <1>4, <1>5, <1>6
  DEF Next, ToolCall, ToolStep, vars, BeginAttempt, BeginCheck

\* A check that changes either begins or goes on.
LEMMA CheckChangesAreSteps ==
  ASSUME DeskInv, [Next]_vars, NEW k \in Checks, check'[k] # check[k]
  PROVE  \/ CheckStep(k)
         \/ \E c \in Calls, f \in Factors : \E v \in Said[f] : BeginCheck(k, c, f, v)
<1>1. ASSUME NEW j \in Checks, CheckStep(j), j # k PROVE FALSE
  <2>1. CheckGoesOn(j)
    BY <1>1, CheckStepGoesOn DEF DeskInv, ChecksOK
  <2> QED BY <1>1, <2>1 DEF CheckGoesOn
<1>2. ASSUME NEW j \in Checks, NEW c \in Calls, NEW f \in Factors, NEW v \in Said[f],
             BeginCheck(j, c, f, v), j # k
      PROVE  FALSE
  <2>1. \A i \in Checks \ {j} : check'[i] = check[i]
    BY <1>2, CheckBegins DEF DeskInv
  <2> QED BY <1>2, <2>1
<1> QED
  BY <1>1, <1>2 DEF Next, ToolCall, ToolStep, CallerRowsNext, OpenItemsNext, vars

\* What a check that ends leaves behind.
LEMMA CheckAnswerEnds ==
  ASSUME DeskInv, NEW k \in Checks, NEW reply \in CheckReplies, NEW p \in Contacts \cup {Nobody},
         AnswerCheck(k, reply, p)
  PROVE  check'[k].reply = reply /\ check'[k].contact = p
<1> DEFINE answered == [check[k] EXCEPT !.read = {}, !.reply = reply, !.contact = p]
<1>1. answered \in CheckStates /\ answered.reply = reply /\ answered.contact = p
  BY DEF CheckStates, DeskInv, CheckTypeOK
<1>2. "done" \in CheckPcs BY DEF CheckPcs
<1>3. Proceed(k, "done", answered)
  BY DEF AnswerCheck
<1> HIDE DEF answered
<1>4. check'[k] = [answered EXCEPT !.pc = "done"]
  BY <1>1, <1>2, <1>3, ProceedMoves DEF DeskInv
<1> QED BY <1>1, <1>4 DEF CheckStates

\* A match is with the record that is resolved, or that is about to be.
LEMMA MatchesAreWithTheResolved ==
  ASSUME DeskInv, [Next]_vars, NEW k \in Checks, check'[k] # check[k], check'[k].reply = "MATCHED"
  PROVE  \/ /\ ResolveOnce(k) /\ resolved[check[k].call] \in Contacts
            /\ check'[k].contact = resolved[check[k].call]
         \/ Remember(k) /\ check'[k].contact = check[k].contact
<1>1. ASSUME NEW p, Compares(k, p) = "MATCHED" PROVE p \in Contacts
  <2> SUFFICES ASSUME p \notin Contacts PROVE FALSE
    OBVIOUS
  <2>1. DOMAIN StoredFactors(p) = {}
    BY DEF StoredFactors
  <2>2. Confirmed(check[k].said, StoredFactors(p)) = {}
    BY <2>1 DEF Confirmed
  <2> QED BY <1>1, <2>2 DEF Compares
<1>2. /\ \A p : Compares(k, p) \in CheckReplies
      /\ {"AMBIGUOUS", "LOCKED", "SERVICE_UNAVAILABLE"} \subseteq CheckReplies
  BY DEF Compares, CheckReplies
<1>3. check[k] \in CheckStates /\ CheckOK(k)
  BY DEF DeskInv, CheckTypeOK, ChecksOK
<1>4. ASSUME NEW pc \in {"guess", "resolve", "remember"}, NEW fields \in CheckStates,
             fields.reply = "none", Proceed(k, pc, fields)
      PROVE  FALSE
  <2>1. check'[k] = [fields EXCEPT !.pc = pc]
    BY <1>4, ProceedMoves DEF CheckPcs, DeskInv
  <2>2. check'[k].reply = "none"
    BY <1>4, <2>1 DEF CheckStates
  <2> QED BY <2>2
<1>5. ASSUME NEW reply \in CheckReplies, NEW p \in Contacts \cup {Nobody}, Report(k, reply, p)
      PROVE  reply = "MATCHED" /\ check'[k].contact = p
  BY <1>2, <1>5, CheckAnswerEnds DEF Report
<1>6. CASE CountCheck(k)
  <2>1. [check[k] EXCEPT !.read = {}] \in CheckStates /\ [check[k] EXCEPT !.read = {}].reply = "none"
    BY <1>3, <1>6 DEF CheckStates, CountCheck, CheckOK
  <2> QED BY <1>2, <1>4, <1>5, <1>6, <2>1 DEF CountCheck
<1>7. CASE SuspectGuesser(k)
  BY <1>2, <1>5, <1>7 DEF SuspectGuesser
<1>8. CASE ResolveOnce(k)
  <2> DEFINE c == check[k].call
             f == Field(k)
             found == IF f \in Identifying THEN LookupContact(f, check[k].said[f]) ELSE Nobody
             resolving == [check[k] EXCEPT !.contact = found]
  <2>1. CASE found # Nobody /\ Proceed(k, "remember", resolving)
    <3>1. found \in Contacts BY <2>1, LookupFindsContacts
    <3>2. resolving \in CheckStates /\ resolving.reply = "none"
      <4> HIDE DEF found
      <4> QED BY <1>3, <1>8, <3>1 DEF CheckStates, CheckOK, ResolveOnce
    <3> HIDE DEF resolving, found
    <3> QED BY <1>4, <2>1, <3>2
  <2>2. CASE AnswerCheck(k, Compares(k, resolved[c]), resolved[c])
    <3>1. resolved[c] \in Contacts \cup {Nobody}
      BY <1>3, <1>8 DEF ResolveOnce, CheckOK, DeskInv, CallerRowsTypeOK
    <3>2. Compares(k, resolved[c]) = "MATCHED" /\ check'[k].contact = resolved[c]
      BY <1>2, <2>2, <3>1, CheckAnswerEnds
    <3> QED BY <1>1, <1>8, <3>2
  <2> QED BY <1>8, <2>1, <2>2 DEF ResolveOnce
<1>9. CASE Remember(k)
  <2>1. check[k].contact \in Contacts \cup {Nobody} BY <1>3 DEF CheckStates
  <2> QED BY <1>2, <1>5, <1>9, <2>1 DEF Remember
<1>10. CASE FailCheck(k)
  <2>1. check'[k].reply = "SERVICE_UNAVAILABLE"
    BY <1>2, <1>10, CheckAnswerEnds DEF FailCheck
  <2> QED BY <2>1
<1>11. ASSUME NEW c \in Calls, NEW f \in Factors, NEW v \in Said[f], BeginCheck(k, c, f, v)
       PROVE  FALSE
  BY <1>11, CheckBegins DEF DeskInv
<1> QED
  BY <1>6, <1>7, <1>8, <1>9, <1>10, <1>11, CheckChangesAreSteps DEF CheckStep

\* What a step adds to what a call has seen is what is resolved, and if that is
\* somebody else than was resolved before, one more write has been lost.
LEMMA SeenGrowsByTheResolved ==
  ASSUME DeskInv, [Next]_vars, NEW c \in Calls
  PROVE  \/ /\ resolved'[c] = resolved[c] /\ lost'[c]["resolved"] = lost[c]["resolved"]
            /\ Seen(c)' \subseteq Seen(c) \cup ({resolved[c]} \cap Contacts)
         \/ /\ resolved'[c] \in Contacts
            /\ Seen(c)' \subseteq Seen(c) \cup {resolved'[c]}
            /\ IF resolved[c] = Nobody THEN lost'[c]["resolved"] = lost[c]["resolved"]
               ELSE lost'[c]["resolved"] = lost[c]["resolved"] + 1
<1>1. ASSUME NEW p, p \in Seen(c)', p \notin Seen(c)
      PROVE  \/ p = resolved[c] /\ p = resolved'[c] /\ p \in Contacts
             \/ \E k \in Checks : Remember(k) /\ check[k].call = c /\ check[k].contact = p
  <2>1. PICK k \in Checks : check'[k].call = c /\ check'[k].reply = "MATCHED" /\ check'[k].contact = p
    BY <1>1 DEF Seen
  <2>2. check'[k] # check[k]
    BY <1>1, <2>1 DEF Seen
  <2>3. \/ /\ ResolveOnce(k) /\ resolved[check[k].call] \in Contacts
           /\ check'[k].contact = resolved[check[k].call]
        \/ Remember(k) /\ check'[k].contact = check[k].contact
    BY <2>1, <2>2, MatchesAreWithTheResolved
  <2>4. check[k].call = c
    BY <2>1, <2>3, DeskGoesOn DEF ResolveOnce, Remember, ChecksKept
  <2>5. ResolveOnce(k) => resolved' = resolved
    BY DEF ResolveOnce, rowVars
  <2> QED BY <2>1, <2>3, <2>4, <2>5
<1>2. ASSUME NEW k \in Checks, Remember(k)
      PROVE  IF check[k].call = c
               THEN /\ resolved'[c] = check[k].contact /\ check[k].contact \in Contacts
                    /\ IF resolved[c] = Nobody THEN lost'[c]["resolved"] = lost[c]["resolved"]
                       ELSE lost'[c]["resolved"] = lost[c]["resolved"] + 1
               ELSE resolved'[c] = resolved[c] /\ lost'[c]["resolved"] = lost[c]["resolved"]
  <2>1. check[k].call \in Calls /\ check[k].contact \in Contacts
    BY <1>2 DEF Remember, DeskInv, ChecksOK, CheckOK
  <2>2. /\ resolved' = [resolved EXCEPT ![check[k].call] = check[k].contact]
        /\ WriteOver(check[k].call, "resolved", resolved[check[k].call], Nobody)
    BY <1>2 DEF Remember, SetResolvedContact
  <2>3. "resolved" \in Extended BY DEF Extended
  <2>4. resolved \in [Calls -> Contacts \cup {Nobody}]
    BY DEF DeskInv, CallerRowsTypeOK
  <2> QED BY <2>1, <2>2, <2>3, <2>4, LossesAreCounted DEF DeskInv
<1>3. ASSUME NEW k \in Checks, NEW j \in Checks, Remember(k), Remember(j) PROVE k = j
  <2>1. CheckGoesOn(k) /\ CheckGoesOn(j)
    BY <1>3, CheckStepGoesOn DEF DeskInv, ChecksOK, CheckStep
  <2>2. check[j].pc = "remember" /\ check[j].reply = "none" /\ check[j] \in CheckStates
    BY <1>3 DEF Remember, DeskInv, ChecksOK, CheckOK, CheckTypeOK
  <2>3. check'[j] # check[j]
    <3>1. PICK reply \in {Compares(j, check[j].contact), "SERVICE_UNAVAILABLE"},
               p \in {check[j].contact, Nobody} : AnswerCheck(j, reply, p)
      BY <1>3 DEF Remember, Report
    <3>2. reply \in CheckReplies /\ reply # "none" /\ p \in Contacts \cup {Nobody}
      BY <2>2, <3>1 DEF Compares, CheckReplies, CheckStates
    <3>3. check'[j].reply = reply
      BY <3>1, <3>2, CheckAnswerEnds
    <3> QED BY <2>2, <3>2, <3>3
  <2> QED BY <2>1, <2>3 DEF CheckGoesOn
<1>4. CASE \E k \in Checks : Remember(k)
  <2>1. PICK k \in Checks : Remember(k)
    BY <1>4
  <2>2. CASE check[k].call = c
    BY <1>1, <1>2, <1>3, <2>1, <2>2
  <2>3. CASE check[k].call # c
    BY <1>1, <1>2, <1>3, <2>1, <2>3
  <2> QED BY <2>2, <2>3
<1>5. CASE ~ \E k \in Checks : Remember(k)
  BY <1>1, <1>5, OnlyRememberResolves
<1> QED BY <1>4, <1>5

\* Every step keeps the confirmed details those of so few people.
LEMMA RecordsStay ==
  ASSUME DeskInv, RecordsInv, [Next]_vars PROVE RecordsInv'
<1> SUFFICES ASSUME NEW c \in Calls PROVE RecordsOK(c)'
  BY DEF RecordsInv
<1> DEFINE before == Seen(c) \cup {resolved[c]}
           after == Seen(c)' \cup {resolved'[c]}
<1>1. /\ resolved[c] \in Contacts \cup {Nobody} /\ Nobody \notin Contacts
      /\ lost[c]["resolved"] \in Nat
      /\ Seen(c) \subseteq Contacts /\ IsFiniteSet(Seen(c))
  <2>1. resolved[c] \in Contacts \cup {Nobody} /\ Nobody \notin Contacts
    BY CallerRowsAssumption DEF DeskInv, CallerRowsTypeOK
  <2>2. lost[c]["resolved"] \in Nat
    BY DEF DeskInv, CallerRowsTypeOK, Extended
  <2>3. Seen(c) \subseteq Contacts
    BY DEF RecordsInv, RecordsOK
  <2>4. IsFiniteSet(Seen(c))
    BY <2>3, CallerRowsAssumption, FS_Subset
  <2> QED BY <2>1, <2>2, <2>3, <2>4
<1>2. RecordsOK(c)
  BY DEF RecordsInv
<1>3. IsFiniteSet(before) /\ Cardinality(before) \in Nat
  BY <1>1, FS_AddElement, FS_CardinalityType
<1>4. CASE /\ resolved'[c] = resolved[c] /\ lost'[c]["resolved"] = lost[c]["resolved"]
           /\ Seen(c)' \subseteq Seen(c) \cup ({resolved[c]} \cap Contacts)
  <2>1. after \subseteq before /\ Seen(c)' \subseteq Contacts
    BY <1>1, <1>4
  <2>2. resolved'[c] = Nobody => Seen(c)' = {}
    BY <1>1, <1>2, <1>4 DEF RecordsOK
  <2>3. Cardinality(after) <= Cardinality(before) /\ Cardinality(after) \in Nat
    BY <1>3, <2>1, FS_Subset, FS_CardinalityType
  <2>4. resolved'[c] # Nobody => Cardinality(after) <= 1 + lost'[c]["resolved"]
    <3> HIDE DEF after
    <3> QED BY <1>1, <1>2, <1>3, <1>4, <2>3 DEF RecordsOK
  <2> QED BY <2>1, <2>2, <2>4 DEF RecordsOK
<1>5. CASE /\ resolved'[c] \in Contacts
           /\ Seen(c)' \subseteq Seen(c) \cup {resolved'[c]}
           /\ IF resolved[c] = Nobody THEN lost'[c]["resolved"] = lost[c]["resolved"]
              ELSE lost'[c]["resolved"] = lost[c]["resolved"] + 1
  <2>1. Seen(c)' \subseteq Contacts /\ resolved'[c] # Nobody
    BY <1>1, <1>5
  <2>2. CASE resolved[c] = Nobody
    <3>1. after = {resolved'[c]}
      BY <1>2, <1>5, <2>2 DEF RecordsOK
    <3>2. Cardinality(after) = 1
      BY <3>1, FS_Singleton
    <3>3. Cardinality(after) <= 1 + lost'[c]["resolved"]
      BY <1>1, <1>5, <2>2, <3>2
    <3> QED BY <2>1, <3>3 DEF RecordsOK
  <2>3. CASE resolved[c] # Nobody
    <3>1. after \subseteq before \cup {resolved'[c]}
      BY <1>5
    <3>2. /\ IsFiniteSet(before \cup {resolved'[c]})
          /\ Cardinality(before \cup {resolved'[c]}) <= Cardinality(before) + 1
          /\ Cardinality(before \cup {resolved'[c]}) \in Nat
      <4> HIDE DEF before
      <4>1. PICK p : p = resolved'[c]
        OBVIOUS
      <4>2. IsFiniteSet(before \cup {p})
            /\ (Cardinality(before \cup {p}) = Cardinality(before)
                \/ Cardinality(before \cup {p}) = Cardinality(before) + 1)
        BY <1>3, FS_AddElement
      <4> QED BY <1>3, <4>1, <4>2
    <3>3. Cardinality(after) <= Cardinality(before \cup {resolved'[c]}) /\ Cardinality(after) \in Nat
      <4> HIDE DEF before, after
      <4> QED BY <3>1, <3>2, FS_Subset, FS_CardinalityType
    <3>4. Cardinality(before) <= 1 + lost[c]["resolved"]
      BY <1>2, <2>3 DEF RecordsOK
    <3>5. Cardinality(after) <= 1 + lost'[c]["resolved"]
      <4> HIDE DEF before, after
      <4> QED BY <1>1, <1>3, <1>5, <2>3, <3>2, <3>3, <3>4
    <3> QED BY <2>1, <3>5 DEF RecordsOK
  <2> QED BY <2>2, <2>3
<1> QED BY <1>4, <1>5, SeenGrowsByTheResolved

\* Whatever two checks of one call do at once, the details a call is told are
\* right are one person's, plus one person more for each write of
\* resolved_contact_id that another had come before (check_factor.py,
\* _resolve_once).
THEOREM DetailsAreOfOne == Spec => []OneRecordPerCall
<1>1. Init => RecordsInv
  <2> SUFFICES ASSUME Init, NEW c \in Calls PROVE RecordsOK(c)
    BY DEF RecordsInv
  <2>1. Seen(c) = {}
    BY DEF Init, CheckInit, NewCheck, Seen
  <2>2. resolved[c] = Nobody
    BY DEF Init, CallerRowsInit
  <2> QED BY <2>1, <2>2 DEF RecordsOK
<1>2. RecordsInv /\ DeskInv /\ [Next]_vars => RecordsInv'
  BY RecordsStay
<1>3. RecordsInv /\ DeskInv => OneRecordPerCall
  <2> SUFFICES ASSUME RecordsInv, DeskInv, NEW c \in Calls
               PROVE  Cardinality(Seen(c)) <= 1 + lost[c]["resolved"]
    BY DEF OneRecordPerCall, Seen
  <2>1. RecordsOK(c) /\ lost[c]["resolved"] \in Nat
    BY DEF RecordsInv, DeskInv, CallerRowsTypeOK, Extended
  <2>2. CASE resolved[c] = Nobody
    <3>1. Seen(c) = {} BY <2>1, <2>2 DEF RecordsOK
    <3>2. Cardinality({}) = 0 BY FS_EmptySet
    <3> QED BY <2>1, <3>1, <3>2
  <2>3. CASE resolved[c] # Nobody
    <3>1. IsFiniteSet(Seen(c))
      BY <2>1, CallerRowsAssumption, FS_Subset DEF RecordsOK
    <3>2. IsFiniteSet(Seen(c) \cup {resolved[c]})
      BY <3>1, FS_AddElement
    <3>3. Cardinality(Seen(c)) <= Cardinality(Seen(c) \cup {resolved[c]})
      BY <3>2, FS_Subset
    <3>4. Cardinality(Seen(c)) \in Nat /\ Cardinality(Seen(c) \cup {resolved[c]}) \in Nat
      BY <3>1, <3>2, FS_CardinalityType
    <3> QED BY <2>1, <2>3, <3>3, <3>4 DEF RecordsOK
  <2> QED BY <2>2, <2>3
<1> QED BY <1>1, <1>2, <1>3, DeskIsTyped, PTL DEF Spec

-----------------------------------------------------------------------------
(* What is said about a payment.                                           *)

\* A match is with a payment of the account it was looked for in.
LEMMA MatchIsOwn ==
  ASSUME NEW customer, NEW i \in Invoices, NEW claim, NEW result,
         result = MatchClaim(claim, Invoice[i], Candidates(customer), KnownReferences(i))
  PROVE  /\ result \in Results
         /\ result.status \in {"MATCH", "NO_MATCH", "INSUFFICIENT"}
         /\ result.status = "MATCH" => Payment[result.payment].owner = customer
<1> DEFINE fitting == {p \in Candidates(customer) : Fits(p, claim)}
           known == KnownReferences(i)
<1>1. /\ NoResult \in Results
      /\ NoResult.status = "none" /\ DOMAIN NoResult =
           {"status", "payment", "covers", "link", "address", "name", "missing"}
  BY DEF NoResult, Results, Links
<1>2. CASE Missing(claim) # {}
  <2>1. result = [NoResult EXCEPT !.status = "INSUFFICIENT", !.missing = Missing(claim)]
    BY <1>2 DEF MatchClaim
  <2>2. Missing(claim) \in SUBSET {"claimed_amount", "claimed_transfer_date"}
    BY DEF Missing
  <2> QED BY <1>1, <2>1, <2>2 DEF Results
<1>3. CASE result = [NoResult EXCEPT !.status = "NO_MATCH"]
           \/ result = [NoResult EXCEPT !.status = "INSUFFICIENT"]
  BY <1>1, <1>3 DEF Results
<1>4. CASE fitting # {} /\ result = Judge(CHOOSE p \in fitting : TRUE, Invoice[i], known)
  <2>1. PICK p \in fitting : result = Judge(p, Invoice[i], known)
    BY <1>4
  <2>2. PICK e \in Payments : p = Candidate(e) /\ Payment[e].owner = customer
    BY <2>1 DEF Candidates, PaymentsOf
  <2>3. /\ p.entry = e /\ p.amount \in Nat /\ Invoice[i].amount \in Nat
        /\ p.addressMatches \in BOOLEAN /\ p.nameMatches \in BOOLEAN
    BY <2>2, OpenItemsAssumption DEF Candidate
  <2> DEFINE link == ClassifyReference(p.reference, Invoice[i].number, Invoice[i].key, known)
  <2>4. link \in Links
    BY DEF ClassifyReference, Links
  <2>5. \/ result = [NoResult EXCEPT !.status = "NO_MATCH", !.link = link]
        \/ result = [NoResult EXCEPT
             !.status = "MATCH", !.payment = e, !.link = link,
             !.covers = p.amount >= Invoice[i].amount,
             !.address = ~p.addressMatches, !.name = ~p.nameMatches]
    BY <2>1, <2>3 DEF Judge
  <2>6. /\ (p.amount >= Invoice[i].amount) \in BOOLEAN
        /\ (~p.addressMatches) \in BOOLEAN /\ (~p.nameMatches) \in BOOLEAN
    BY <2>3
  <2> HIDE DEF link
  <2> QED BY <1>1, <2>2, <2>4, <2>5, <2>6 DEF Results
<1> QED BY <1>2, <1>3, <1>4 DEF MatchClaim

\* One step of a question leaves it a state a question can be in.
LEMMA AskMoves ==
  ASSUME QuestionTypeOK, NEW m \in Questions, NEW pc \in QuestionPcs,
         NEW fields \in QuestionStates, Ask(m, pc, fields)
  PROVE  /\ QuestionTypeOK'
         /\ question'[m] = [fields EXCEPT !.pc = pc]
         /\ \A n \in Questions \ {m} : question'[n] = question[n]
<1>1. [fields EXCEPT !.pc = pc] \in QuestionStates
  BY DEF QuestionStates
<1> QED BY <1>1 DEF Ask, QuestionTypeOK

\* What holds of a question at each of its program points.
QuestionOK(q) ==
  /\ q.pc \in {"invoice", "payments", "address"} => ProvedFor(q.call, q.customer)
  /\ q.pc \in {"payments", "address"} => Invoice[q.invoice].owner = q.customer
  /\ q.pc \in {"gate", "invoice", "payments", "address"} => q.invoice \in Invoices /\ q.call \in Calls
  /\ q.pc = "address" =>
       /\ q.result.status \in {"MATCH", "NO_MATCH", "INSUFFICIENT"}
       /\ q.result.status = "MATCH" => Payment[q.result.payment].owner = q.customer
  /\ q.pc # "done" => q.reply = "none"
  /\ q.reply \in {"MATCH", "NO_MATCH", "INSUFFICIENT"} =>
       /\ ProvedFor(q.call, q.customer)
       /\ Invoice[q.invoice].owner = q.customer
       /\ q.reply = "MATCH" => Payment[q.result.payment].owner = q.customer

QuestionsInv == QuestionTypeOK /\ \A m \in Questions : QuestionOK(question[m])

\* What was proved for an account stays proved for it.
LEMMA AccountStaysProved ==
  ASSUME DeskInv, AttemptsKept, NEW c, NEW customer, ProvedFor(c, customer)
  PROVE  ProvedFor(c, customer)'
<1>1. PICK p \in Contacts : Stored[p]["customer_id"] = customer /\ Proved(c, p)
  BY DEF ProvedFor
<1>2. Proved(c, p)'
  BY <1>1, ProofsStay
<1> QED BY <1>1, <1>2 DEF ProvedFor

\* Each step of a question keeps it about the account it was let in for.
LEMMA QuestionStepIsOwn ==
  ASSUME DeskInv, VerifiedIsProved, QuestionsInv, NEW m \in Questions, QuestionStep(m)
  PROVE  /\ QuestionTypeOK' /\ QuestionOK(question'[m])
         /\ \A n \in Questions \ {m} : question'[n] = question[n]
<1> DEFINE q == question[m]
           Goal == /\ QuestionTypeOK' /\ QuestionOK(question'[m])
                   /\ \A n \in Questions \ {m} : question'[n] = question[n]
<1>1. q \in QuestionStates /\ QuestionOK(q)
  BY DEF QuestionsInv, QuestionTypeOK
<1>2. /\ QuestionPcs = {"idle", "gate", "invoice", "payments", "address", "done"}
      /\ QuestionReplies = {"MATCH", "NO_MATCH", "INSUFFICIENT", "NOT_AUTHORIZED", "VALIDATION",
                            "SERVICE_UNAVAILABLE", "none"}
  BY DEF QuestionPcs, QuestionReplies
<1>3. ASSUME NEW reply \in {"NOT_AUTHORIZED", "VALIDATION", "SERVICE_UNAVAILABLE"},
             AnswerQuestion(m, reply)
      PROVE  Goal
  <2>1. [q EXCEPT !.reply = reply] \in QuestionStates
    BY <1>1, <1>2 DEF QuestionStates
  <2>2. /\ QuestionTypeOK'
        /\ question'[m] = [[q EXCEPT !.reply = reply] EXCEPT !.pc = "done"]
        /\ \A n \in Questions \ {m} : question'[n] = question[n]
    BY <1>2, <1>3, <2>1, AskMoves DEF AnswerQuestion, QuestionsInv
  <2>3. question'[m].pc = "done" /\ question'[m].reply = reply
    BY <1>1, <2>2 DEF QuestionStates
  <2> QED BY <2>2, <2>3 DEF QuestionOK
<1>4. CASE PassGate(m)
  <2>1. CASE AnswerQuestion(m, "NOT_AUTHORIZED")
    BY <1>3, <2>1
  <2>2. CASE Verified(q.call) /\ Ask(m, "invoice", [q EXCEPT !.customer = gate[q.call].customer])
    <3> DEFINE fields == [q EXCEPT !.customer = gate[q.call].customer]
    <3>1. q.pc = "gate" /\ q.reply = "none" /\ q.call \in Calls /\ q.invoice \in Invoices
      BY <1>1, <1>4 DEF PassGate, QuestionOK
    <3>2. /\ gate[q.call].contact \in Contacts
          /\ gate[q.call].customer = Stored[gate[q.call].contact]["customer_id"]
          /\ Proved(q.call, gate[q.call].contact)
      BY <2>2, <3>1 DEF VerifiedIsProved
    <3>3. gate[q.call].customer \in Accounts /\ ProvedFor(q.call, gate[q.call].customer)
      BY <3>2 DEF Accounts, ProvedFor
    <3>4. fields \in QuestionStates
      BY <1>1, <3>3 DEF QuestionStates
    <3>5. /\ QuestionTypeOK'
          /\ question'[m] = [fields EXCEPT !.pc = "invoice"]
          /\ \A n \in Questions \ {m} : question'[n] = question[n]
      BY <1>2, <2>2, <3>4, AskMoves DEF QuestionsInv
    <3>6. /\ question'[m].pc = "invoice" /\ question'[m].call = q.call
          /\ question'[m].customer = gate[q.call].customer
          /\ question'[m].invoice = q.invoice /\ question'[m].reply = "none"
      BY <1>1, <3>1, <3>5 DEF QuestionStates
    <3> QED BY <3>1, <3>3, <3>5, <3>6 DEF QuestionOK
  <2> QED BY <1>4, <2>1, <2>2 DEF PassGate
<1>5. CASE ReadInvoice(m)
  <2>1. CASE AnswerQuestion(m, "NOT_AUTHORIZED") \/ AnswerQuestion(m, "VALIDATION")
    BY <1>3, <2>1
  <2>2. CASE q.invoice \in InvoicesOf(q.customer) /\ Ask(m, "payments", q)
    <3>1. /\ q.pc = "invoice" /\ q.reply = "none" /\ q.call \in Calls /\ q.invoice \in Invoices
          /\ ProvedFor(q.call, q.customer)
      BY <1>1, <1>5 DEF ReadInvoice, QuestionOK
    <3>2. Invoice[q.invoice].owner = q.customer
      BY <2>2 DEF InvoicesOf
    <3>3. /\ QuestionTypeOK'
          /\ question'[m] = [q EXCEPT !.pc = "payments"]
          /\ \A n \in Questions \ {m} : question'[n] = question[n]
      BY <1>1, <1>2, <2>2, AskMoves DEF QuestionsInv
    <3>4. /\ question'[m].pc = "payments" /\ question'[m].call = q.call
          /\ question'[m].customer = q.customer
          /\ question'[m].invoice = q.invoice /\ question'[m].reply = "none"
      BY <1>1, <3>1, <3>3 DEF QuestionStates
    <3> QED BY <3>1, <3>2, <3>3, <3>4 DEF QuestionOK
  <2> QED BY <1>5, <2>1, <2>2 DEF ReadInvoice
<1>6. CASE ReadPayments(m)
  <2>1. /\ q.pc = "payments" /\ q.reply = "none" /\ q.call \in Calls /\ q.invoice \in Invoices
        /\ ProvedFor(q.call, q.customer) /\ Invoice[q.invoice].owner = q.customer
    BY <1>1, <1>6 DEF ReadPayments, QuestionOK
  <2>2. PICK result :
          /\ result = MatchClaim(q.claim, Invoice[q.invoice], Candidates(q.customer), KnownReferences(q.invoice))
          /\ Ask(m, "address", [q EXCEPT !.result = result])
    BY <1>6 DEF ReadPayments
  <2>3. /\ result \in Results
        /\ result.status \in {"MATCH", "NO_MATCH", "INSUFFICIENT"}
        /\ result.status = "MATCH" => Payment[result.payment].owner = q.customer
    BY <2>1, <2>2, MatchIsOwn
  <2>4. [q EXCEPT !.result = result] \in QuestionStates
    BY <1>1, <2>3 DEF QuestionStates
  <2>5. /\ QuestionTypeOK'
        /\ question'[m] = [[q EXCEPT !.result = result] EXCEPT !.pc = "address"]
        /\ \A n \in Questions \ {m} : question'[n] = question[n]
    BY <1>2, <2>2, <2>4, AskMoves DEF QuestionsInv
  <2>6. /\ question'[m].pc = "address" /\ question'[m].call = q.call
        /\ question'[m].customer = q.customer /\ question'[m].result = result
        /\ question'[m].invoice = q.invoice /\ question'[m].reply = "none"
    BY <1>1, <2>1, <2>5 DEF QuestionStates
  <2> QED BY <2>1, <2>3, <2>5, <2>6 DEF QuestionOK
<1>7. CASE ReadAddress(m)
  <2>1. /\ q.pc = "address" /\ q.result.status \in {"MATCH", "NO_MATCH", "INSUFFICIENT"}
        /\ ProvedFor(q.call, q.customer) /\ Invoice[q.invoice].owner = q.customer
        /\ q.result.status = "MATCH" => Payment[q.result.payment].owner = q.customer
    BY <1>1, <1>7 DEF ReadAddress, QuestionOK
  <2> DEFINE p == q.result.payment
             heard == p \in PaymentsOf(q.customer) \cap listed /\ ~Payment[p].addressMatches
             fields == [q EXCEPT !.spoken = heard, !.reply = q.result.status]
  <2>2. heard \in BOOLEAN
    OBVIOUS
  <2>3. Ask(m, "done", fields)
    BY <1>7 DEF ReadAddress
  <2> HIDE DEF heard
  <2>4. fields \in QuestionStates
    BY <1>1, <1>2, <2>1, <2>2 DEF QuestionStates
  <2>5. /\ QuestionTypeOK'
        /\ question'[m] = [fields EXCEPT !.pc = "done"]
        /\ \A n \in Questions \ {m} : question'[n] = question[n]
    BY <1>2, <2>3, <2>4, AskMoves DEF QuestionsInv
  <2>6. /\ question'[m].pc = "done" /\ question'[m].call = q.call
        /\ question'[m].customer = q.customer /\ question'[m].result = q.result
        /\ question'[m].invoice = q.invoice /\ question'[m].reply = q.result.status
    BY <1>1, <2>5 DEF QuestionStates
  <2> QED BY <2>1, <2>5, <2>6 DEF QuestionOK
<1>8. CASE FailQuestion(m)
  BY <1>3, <1>8 DEF FailQuestion
<1> QED BY <1>4, <1>5, <1>6, <1>7, <1>8 DEF QuestionStep

\* A question that begins says nothing yet.
LEMMA QuestionBegins ==
  ASSUME QuestionTypeOK, NEW m \in Questions, NEW c \in Calls, NEW i \in Invoices,
         NEW claim \in Claims, BeginQuestion(m, c, i, claim)
  PROVE  /\ QuestionTypeOK' /\ QuestionOK(question'[m])
         /\ \A n \in Questions \ {m} : question'[n] = question[n]
<1> DEFINE fields == [NewQuestion EXCEPT !.call = c, !.invoice = i, !.claim = claim]
<1>1. NoResult \in Results
  BY DEF NoResult, Results, Links
<1>2. fields \in QuestionStates /\ "gate" \in QuestionPcs
  BY <1>1 DEF QuestionStates, NewQuestion, QuestionPcs, QuestionReplies
<1>3. Ask(m, "gate", fields)
  BY DEF BeginQuestion
<1>4. /\ QuestionTypeOK'
      /\ question'[m] = [fields EXCEPT !.pc = "gate"]
      /\ \A n \in Questions \ {m} : question'[n] = question[n]
  <2> HIDE DEF fields
  <2> QED BY <1>2, <1>3, AskMoves
<1>5. /\ question'[m].pc = "gate" /\ question'[m].call = c /\ question'[m].invoice = i
      /\ question'[m].reply = "none"
  BY <1>4 DEF NewQuestion
<1> QED BY <1>4, <1>5 DEF QuestionOK

\* Every step keeps all of them so.
LEMMA QuestionsStayOwn ==
  ASSUME DeskInv, VerifiedIsProved, QuestionsInv, [Next]_vars PROVE QuestionsInv'
<1>1. AttemptsKept
  BY DeskGoesOn
<1>2. ASSUME NEW q, QuestionOK(q) PROVE QuestionOK(q)'
  BY <1>1, <1>2, AccountStaysProved DEF QuestionOK
<1>3. ASSUME NEW m \in Questions, QuestionTypeOK', QuestionOK(question'[m]),
             \A n \in Questions \ {m} : question'[n] = question[n]
      PROVE  QuestionsInv'
  <2> SUFFICES ASSUME NEW n \in Questions, NEW q, q = question'[n] PROVE QuestionOK(q)'
    BY <1>3 DEF QuestionsInv, QuestionOK
  <2>1. QuestionOK(q)
    BY <1>3 DEF QuestionsInv
  <2> QED BY <1>2, <2>1
<1>4. CASE question' = question
  <2>1. \A n \in Questions : QuestionOK(question[n])'
    <3> SUFFICES ASSUME NEW n \in Questions, NEW q, q = question'[n] PROVE QuestionOK(q)'
      BY DEF QuestionOK
    <3> QED BY <1>2, <1>4 DEF QuestionsInv
  <2> QED BY <1>4, <2>1 DEF QuestionsInv, QuestionTypeOK
<1>5. ASSUME NEW m \in Questions, QuestionStep(m) PROVE QuestionsInv'
  BY <1>3, <1>5, QuestionStepIsOwn
<1>6. ASSUME NEW m \in Questions, NEW c \in Calls, NEW i \in Invoices, NEW claim \in Claims,
             BeginQuestion(m, c, i, claim)
      PROVE  QuestionsInv'
  BY <1>3, <1>6, QuestionBegins DEF QuestionsInv
<1> QED
  BY <1>4, <1>5, <1>6 DEF Next, ToolCall, ToolStep, CallerRowsNext, OpenItemsNext, vars

\* Nothing has been asked when the calls begin.
LEMMA QuestionsStart == Init => QuestionsInv
<1> SUFFICES ASSUME Init PROVE QuestionsInv
  OBVIOUS
<1>1. NewQuestion \in QuestionStates
  <2>1. NoResult \in Results
    BY DEF NoResult, Results, Links
  <2> QED BY <2>1 DEF NewQuestion, QuestionStates, QuestionPcs, QuestionReplies
<1> QED
  BY <1>1 DEF Init, QuestionInit, QuestionsInv, QuestionTypeOK, QuestionOK, NewQuestion

\* So questions are always about the account they were let in for.
LEMMA QuestionsAreOwn == Spec => []QuestionsInv
<1>1. QuestionsInv /\ VerifiedIsProved /\ DeskInv /\ [Next]_vars => QuestionsInv'
  BY QuestionsStayOwn
<1> QED BY <1>1, QuestionsStart, DeskIsTyped, OnlyTheProvedAreVerified, PTL DEF Spec

\* Whatever is settled, allocated or verified while an answer is on its way,
\* what a call is told about a payment is about an account that it was proved to
\* be (match_payment.py, _handle over verified_context).
THEOREM MatchesAreTheirs == Spec => []MatchesAreForTheVerified
<1>1. QuestionsInv => MatchesAreForTheVerified
  BY DEF QuestionsInv, QuestionOK, MatchesAreForTheVerified
<1> QED BY <1>1, QuestionsAreOwn, PTL
=============================================================================
