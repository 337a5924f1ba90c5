------------------------ MODULE CallDeskLimits_proofs ------------------------
(***************************************************************************)
(* How far the limits of the identity endpoints reach, however many        *)
(* invocations are under way: no more values of a field are judged than    *)
(* the allowance, times the writes of the attempts that were lost; a call  *)
(* that was told LOCKED is not verified afterwards, unless a write was     *)
(* lost; and nobody is stopped for guessing who has not guessed.  Together *)
(* they show that the endpoints implement GatePromise.                     *)
(***************************************************************************)
EXTENDS CallDesk_proofs

-----------------------------------------------------------------------------
(* Counting.                                                               *)

\* More fingerprints are never fewer for a field.
LEMMA CountGrows ==
  ASSUME NEW T, IsFiniteSet(T), NEW S, S \subseteq T, NEW f
  PROVE  /\ CountFor(S, f) \in Nat /\ CountFor(T, f) \in Nat
         /\ CountFor(S, f) <= CountFor(T, f)
<1> DEFINE s == {p \in S : p[1] = f}
           t == {p \in T : p[1] = f}
<1>1. s \subseteq t OBVIOUS
<1>2. IsFiniteSet(t) BY FS_Subset
<1> HIDE DEF s, t
<1>3. IsFiniteSet(s) /\ Cardinality(s) <= Cardinality(t)
  BY <1>1, <1>2, FS_Subset
<1>4. Cardinality(s) \in Nat /\ Cardinality(t) \in Nat
  BY <1>2, <1>3, FS_CardinalityType
<1> QED BY <1>3, <1>4 DEF CountFor, s, t

\* So what enumerates goes on doing so, and the worst field gets no better.
LEMMA MoreIsNoBetter ==
  ASSUME NEW S, NEW T \in SUBSET AllFingerprints, S \subseteq T
  PROVE  /\ IsEnumerating(S) => IsEnumerating(T)
         /\ WorstField(S) \in Nat /\ WorstField(T) \in Nat
         /\ WorstField(S) <= WorstField(T)
<1>1. IsFiniteSet(T) /\ IsFiniteSet(S)
  BY FingerprintsAreFinite, FS_Subset
<1>2. \A f \in Factors : CountFor(S, f) \in Nat /\ CountFor(T, f) \in Nat
                       /\ CountFor(S, f) <= CountFor(T, f)
  BY <1>1, CountGrows
<1>3. MaxDistinctValues \in Nat
  BY FactorsAssumption
<1>4. IsEnumerating(S) => IsEnumerating(T)
  BY <1>2, <1>3 DEF IsEnumerating
<1>5. WorstField(T) \in Nat /\ \A f \in Factors : CountFor(T, f) <= WorstField(T)
  BY <1>1, WorstFieldIsWorst
<1>6. WorstField(S) \in Nat /\ \E f \in Factors : WorstField(S) = CountFor(S, f)
  BY <1>1, WorstFieldIsWorst
<1> QED BY <1>2, <1>4, <1>5, <1>6

-----------------------------------------------------------------------------
(* What each step of an invocation makes of it.                            *)

\* Where a step of an attempt leads: to an answer that says nothing, or on.
AttemptMoved(v) ==
  LET a == attempt[v]
      b == attempt'[v]
      before == wrong[attempt[v].call]
  IN  \/ b.pc = "done" /\ b.reply = "SERVICE_UNAVAILABLE"
      \/ /\ CountOffer(v) /\ a.pc = "count" /\ b.reply = "none"
         /\ IF IsEnumerating(a.read \cup Fingerprints(a.supplied))
              THEN b.pc = "guess" ELSE b.pc = "record"
      \/ SuspectGuessing(v) /\ a.pc = "guess" /\ b.pc = "done" /\ b.reply = "GUESSING"
      \/ a.pc = "record" /\ b.pc = "wrong" /\ b.reply = "none"
      \/ a.pc = "record" /\ b.pc = "done" /\ b.reply = "ACCOUNT_LOCKED"
      \/ ReadWrongValues(v) /\ a.pc = "wrong" /\ b.pc = "attempt" /\ b.reply = "none"
           /\ b.count = WorstField(before)
      \/ a.pc = "wrong" /\ b.pc = "mark" /\ b.reply = "none" /\ b.read = before
      \/ MarkWrongValues(v) /\ a.pc = "mark" /\ b.pc = "attempt" /\ b.reply = "none"
           /\ b.count = WorstField(a.read \cup WrongPrints(v))
      \/ Settle(v) /\ a.pc = "attempt" /\ a.count >= MaxAttempts
           /\ b.pc = "done" /\ b.reply = "CALL_LOCKED"
      \/ a.pc = "attempt" /\ ~ (a.count >= MaxAttempts)
           /\ b.pc \in {"conflict", "admit"} /\ b.reply = "none"
      \/ a.pc = "conflict" /\ b.pc = "admit" /\ b.reply = "none"
      \/ a.pc \in {"attempt", "conflict"} /\ b.pc = "done"
           /\ b.reply \in {"PARTIALLY_VERIFIED", "FAILED"}
      \/ a.pc = "admit" /\ b.pc = "done" /\ b.reply = "VERIFIED"

\* Each of the steps leads to one of these.
LEMMA AttemptStepMoves ==
  ASSUME DeskInv, NEW v \in Attempts, AttemptStep(v)
  PROVE  AttemptMoved(v)
<1>1. /\ attempt[v] \in AttemptStates
      /\ attempt[v].pc # "done" => attempt[v].reply = "none"
  BY DEF DeskInv, AttemptTypeOK, AttemptsOK, AttemptOK
<1>2. ASSUME NEW pc \in AttemptPcs, NEW fields \in AttemptStates, Advance(v, pc, fields)
      PROVE  /\ attempt'[v].pc = pc /\ attempt'[v].reply = fields.reply
             /\ attempt'[v].read = fields.read /\ attempt'[v].count = fields.count
  <2>1. attempt'[v] = [fields EXCEPT !.pc = pc]
    BY <1>2, AdvanceMoves DEF DeskInv
  <2> QED BY <2>1 DEF AttemptStates
<1>3. ASSUME NEW reply \in AttemptReplies, AnswerAttempt(v, reply)
      PROVE  attempt'[v].pc = "done" /\ attempt'[v].reply = reply
  <2>0. AttemptTypeOK
    BY DEF DeskInv
  <2>1. attempt'[v] = [attempt[v] EXCEPT !.reply = reply, !.pc = "done"]
    BY <1>3, <2>0, AnswerEnds
  <2> QED BY <1>1, <2>1 DEF AttemptStates
<1>4. ASSUME NEW reply \in AttemptReplies, Conclude(v, reply)
      PROVE  attempt'[v].pc = "done" /\ attempt'[v].reply \in {reply, "SERVICE_UNAVAILABLE"}
  BY <1>3, <1>4 DEF Conclude, AttemptReplies
<1>5. /\ {"GUESSING", "ACCOUNT_LOCKED", "CALL_LOCKED", "VERIFIED", "SERVICE_UNAVAILABLE"} \subseteq AttemptReplies
      /\ Outcome(v) \in AttemptReplies
      /\ Outcome(v) \in {"VERIFIED", "PARTIALLY_VERIFIED", "FAILED"}
      /\ {"guess", "record", "wrong", "mark", "attempt", "conflict", "admit"} \subseteq AttemptPcs
  BY OutcomeIsOneOfThree DEF AttemptReplies, AttemptPcs
<1>6. CASE CountOffer(v)
  <2> DEFINE fields == [attempt[v] EXCEPT !.read = {}]
             pc == IF IsEnumerating(attempt[v].read \cup Fingerprints(attempt[v].supplied))
                     THEN "guess" ELSE "record"
  <2>1. attempt[v].pc = "count" /\ Advance(v, pc, fields)
    BY <1>6 DEF CountOffer
  <2>2. fields \in AttemptStates /\ fields.reply = "none"
    BY <1>1, <2>1 DEF AttemptStates
  <2>3. pc \in AttemptPcs
    BY <1>5
  <2>4. attempt'[v].pc = pc /\ attempt'[v].reply = "none"
    <3> HIDE DEF pc, fields
    <3> QED BY <1>2, <2>1, <2>2, <2>3
  <2> QED BY <1>6, <2>1, <2>4 DEF AttemptMoved
<1>7. CASE SuspectGuessing(v)
  <2>1. attempt[v].pc = "guess" /\ Conclude(v, "GUESSING")
    BY <1>7 DEF SuspectGuessing
  <2> QED BY <1>4, <1>5, <1>7, <2>1 DEF AttemptMoved
<1>8. CASE ReadRecord(v)
  <2>1. attempt[v].pc = "record"
        /\ (AnswerAttempt(v, "ACCOUNT_LOCKED") \/ Advance(v, "wrong", attempt[v]))
    BY <1>8 DEF ReadRecord
  <2> QED BY <1>1, <1>2, <1>3, <1>5, <2>1 DEF AttemptMoved
<1>9. CASE ReadWrongValues(v)
  <2> DEFINE before == wrong[attempt[v].call]
             counted == [attempt[v] EXCEPT !.count = WorstField(before)]
             marked == [attempt[v] EXCEPT !.read = before]
  <2>1. attempt[v].pc = "wrong" /\ (Advance(v, "attempt", counted) \/ Advance(v, "mark", marked))
    BY <1>9 DEF ReadWrongValues
  <2>2. before \in SUBSET AllFingerprints
    BY <2>1 DEF DeskInv, CallerRowsTypeOK, AttemptsOK, AttemptOK
  <2>3. WorstField(before) \in Nat
    BY <2>2, MoreIsNoBetter
  <2>4. /\ counted \in AttemptStates /\ counted.reply = "none" /\ counted.count = WorstField(before)
        /\ marked \in AttemptStates /\ marked.reply = "none" /\ marked.read = before
    <3> HIDE DEF before
    <3> QED BY <1>1, <2>1, <2>2, <2>3 DEF AttemptStates
  <2>5. \/ attempt'[v].pc = "attempt" /\ attempt'[v].reply = "none" /\ attempt'[v].count = WorstField(before)
        \/ attempt'[v].pc = "mark" /\ attempt'[v].reply = "none" /\ attempt'[v].read = before
    <3> HIDE DEF counted, marked, before
    <3> QED BY <1>2, <1>5, <2>1, <2>4
  <2> QED BY <1>9, <2>1, <2>5 DEF AttemptMoved
<1>10. CASE MarkWrongValues(v)
  <2> DEFINE prints == attempt[v].read \cup WrongPrints(v)
             marked == [attempt[v] EXCEPT !.read = {}, !.count = WorstField(prints)]
  <2>1. attempt[v].pc = "mark" /\ Advance(v, "attempt", marked)
    BY <1>10 DEF MarkWrongValues
  <2>2. prints \in SUBSET AllFingerprints
    BY <1>1, WrongPrintsAreKnown DEF DeskInv, AttemptStates
  <2>3. WorstField(prints) \in Nat
    BY <2>2, MoreIsNoBetter
  <2>4. marked \in AttemptStates /\ marked.reply = "none" /\ marked.count = WorstField(prints)
    <3> HIDE DEF prints
    <3> QED BY <1>1, <2>1, <2>3 DEF AttemptStates
  <2>5. attempt'[v].pc = "attempt" /\ attempt'[v].reply = "none" /\ attempt'[v].count = WorstField(prints)
    <3> HIDE DEF marked, prints
    <3> QED BY <1>2, <1>5, <2>1, <2>4
  <2> QED BY <1>10, <2>1, <2>5 DEF AttemptMoved
<1>11. CASE Settle(v)
  <2>1. attempt[v].pc = "attempt"
    BY <1>11 DEF Settle
  <2>2. CASE attempt[v].count >= MaxAttempts /\ Conclude(v, "CALL_LOCKED")
    BY <1>4, <1>5, <1>11, <2>1, <2>2 DEF AttemptMoved
  <2>3. CASE /\ ~ (attempt[v].count >= MaxAttempts)
             /\ Advance(v, "conflict", attempt[v]) \/ Advance(v, "admit", attempt[v])
    BY <1>1, <1>2, <1>5, <2>1, <2>3 DEF AttemptMoved
  <2>4. CASE Outcome(v) # "VERIFIED" /\ Conclude(v, Outcome(v))
    BY <1>4, <1>5, <2>1, <2>4 DEF AttemptMoved
  <2> QED BY <1>11, <2>2, <2>3, <2>4 DEF Settle
<1>12. CASE NoteConflict(v)
  <2>1. attempt[v].pc = "conflict"
    BY <1>12 DEF NoteConflict
  <2>2. CASE Advance(v, "admit", attempt[v])
    BY <1>1, <1>2, <1>5, <2>1, <2>2 DEF AttemptMoved
  <2>3. CASE Outcome(v) # "VERIFIED" /\ Conclude(v, Outcome(v))
    BY <1>4, <1>5, <2>1, <2>3 DEF AttemptMoved
  <2> QED BY <1>12, <2>2, <2>3 DEF NoteConflict
<1>13. CASE Admit(v)
  <2>1. attempt[v].pc = "admit" /\ Conclude(v, "VERIFIED")
    BY <1>13 DEF Admit
  <2> QED BY <1>4, <1>5, <2>1 DEF AttemptMoved
<1>14. CASE FailAttempt(v)
  BY <1>3, <1>5, <1>14 DEF FailAttempt, AttemptMoved
<1> QED BY <1>6, <1>7, <1>8, <1>9, <1>10, <1>11, <1>12, <1>13, <1>14 DEF AttemptStep

\* An attempt that begins has read what was offered, and knows who was answered.
LEMMA AttemptBeginsFresh ==
  ASSUME DeskInv, NEW v \in Attempts, NEW c \in Calls, NEW offer \in Offers, BeginAttempt(v, c, offer)
  PROVE  /\ attempt[v].pc = "idle"
         /\ attempt'[v].call = c /\ attempt'[v].reply = "none" /\ attempt'[v].read = offered[c]
         /\ attempt'[v].supplied = ParseFactors(offer)
         /\ attempt'[v].after = {w \in Attempts : attempt[w].pc = "done"}
         /\ IF attempt'[v].supplied = <<>> THEN attempt'[v].pc = "record" ELSE attempt'[v].pc = "count"
         /\ \A w \in Attempts \ {v} : attempt'[w] = attempt[w]
<1> DEFINE supplied == ParseFactors(offer)
           pc == IF supplied = <<>> THEN "record" ELSE "count"
           done == {w \in Attempts : attempt[w].pc = "done"}
           begun == [NewAttempt EXCEPT
                       !.call = c, !.supplied = supplied, !.contact = ResolveContact(c, supplied),
                       !.read = offered[c],
                       !.after = done]
<1>1. ResolveContact(c, supplied) \in Contacts \cup Accounts \cup {Nobody}
  BY ResolvedIsKnown DEF DeskInv
<1>2. offered[c] \in SUBSET AllFingerprints /\ done \in SUBSET Attempts
  BY DEF DeskInv, CallerRowsTypeOK
<1>3. /\ begun \in AttemptStates /\ begun.call = c /\ begun.reply = "none" /\ begun.read = offered[c]
      /\ begun.after = done /\ begun.supplied = supplied
  <2> HIDE DEF ResolveContact, done
  <2> QED BY <1>1, <1>2 DEF AttemptStates, NewAttempt, AttemptPcs, AttemptReplies
<1>4. pc \in AttemptPcs
  BY DEF AttemptPcs
<1>5. attempt[v].pc = "idle" /\ Advance(v, pc, begun)
  BY DEF BeginAttempt
<1>6. IF supplied = <<>> THEN pc = "record" ELSE pc = "count"
  OBVIOUS
<1> HIDE DEF begun, pc, supplied
<1>7. /\ attempt'[v] = [begun EXCEPT !.pc = pc]
      /\ \A w \in Attempts \ {v} : attempt'[w] = attempt[w]
  BY <1>3, <1>4, <1>5, AdvanceMoves DEF DeskInv
<1>8. /\ attempt'[v].pc = pc /\ attempt'[v].call = c /\ attempt'[v].reply = "none"
      /\ attempt'[v].read = offered[c] /\ attempt'[v].after = done /\ attempt'[v].supplied = supplied
  <2> HIDE DEF done
  <2> QED BY <1>3, <1>7 DEF AttemptStates
<1> QED BY <1>5, <1>6, <1>7, <1>8 DEF supplied

-----------------------------------------------------------------------------
(* The allowance.                                                          *)

\* An invocation that has something judged, or will have when it goes on.
AttemptJudges(a) ==
  \/ a.pc \in {"record", "wrong", "mark", "attempt", "conflict", "admit"}
  \/ a.reply \in {"VERIFIED", "PARTIALLY_VERIFIED", "FAILED"}

CheckJudges(a) == a.pc \in {"resolve", "remember"} \/ a.reply \in {"MATCHED", "NOT_MATCHED"}

\* The fingerprints of one field that such invocations of a call were given.
Judged(c, f) ==
  {p \in AllFingerprints :
     /\ p[1] = f
     /\ \/ \E v \in Attempts : /\ attempt[v].call = c /\ AttemptJudges(attempt[v])
                               /\ p \in Fingerprints(attempt[v].supplied)
        \/ \E k \in Checks : /\ check[k].call = c /\ CheckJudges(check[k])
                             /\ p \in Fingerprints(check[k].said)}

\* What has been judged of an attempt was counted first, and was not too much.
LEMMA JudgedIsCounted ==
  ASSUME DeskInv, [Next]_vars, NEW v \in Attempts,
         AttemptJudges(attempt'[v]), ~AttemptJudges(attempt[v])
  PROVE  \/ attempt'[v].supplied = <<>>
         \/ /\ CountOffer(v)
            /\ ~IsEnumerating(attempt[v].read \cup Fingerprints(attempt[v].supplied))
<1>1. attempt'[v] # attempt[v]
  OBVIOUS
<1>2. ASSUME NEW c \in Calls, NEW offer \in Offers, BeginAttempt(v, c, offer)
      PROVE  attempt'[v].supplied = <<>>
  BY <1>2, AttemptBeginsFresh DEF AttemptJudges
<1>3. ASSUME AttemptStep(v)
      PROVE  /\ CountOffer(v)
             /\ ~IsEnumerating(attempt[v].read \cup Fingerprints(attempt[v].supplied))
  <2>1. AttemptMoved(v)
    BY <1>3, AttemptStepMoves
  <2> QED BY <2>1 DEF AttemptMoved, AttemptJudges
<1> QED BY <1>1, <1>2, <1>3, ChangesAreSteps

\* The same of a check.
LEMMA CheckedIsCounted ==
  ASSUME DeskInv, [Next]_vars, NEW k \in Checks,
         CheckJudges(check'[k]), ~CheckJudges(check[k])
  PROVE  /\ CountCheck(k)
         /\ ~IsEnumerating(check[k].read \cup Fingerprints(check[k].said))
<1>1. /\ check[k] \in CheckStates
      /\ check[k].pc # "done" => check[k].reply = "none"
  BY DEF DeskInv, CheckTypeOK, ChecksOK, CheckOK
<1>2. /\ \A p : Compares(k, p) \in CheckReplies
      /\ {"AMBIGUOUS", "LOCKED", "SERVICE_UNAVAILABLE"} \subseteq CheckReplies
  BY DEF Compares, CheckReplies
<1>3. ASSUME NEW pc \in CheckPcs, NEW fields \in CheckStates, Proceed(k, pc, fields)
      PROVE  check'[k].pc = pc /\ check'[k].reply = fields.reply
  <2>1. check'[k] = [fields EXCEPT !.pc = pc]
    BY <1>3, ProceedMoves DEF DeskInv
  <2> QED BY <2>1 DEF CheckStates
<1>4. ASSUME NEW reply \in {"AMBIGUOUS", "LOCKED", "SERVICE_UNAVAILABLE"}, AnswerCheck(k, reply, Nobody)
      PROVE  FALSE
  <2> DEFINE answered == [check[k] EXCEPT !.read = {}, !.reply = reply, !.contact = Nobody]
  <2>1. answered \in CheckStates /\ answered.reply = reply
    BY <1>1, <1>2 DEF CheckStates
  <2>2. "done" \in CheckPcs /\ Proceed(k, "done", answered)
    BY <1>4 DEF CheckPcs, AnswerCheck
  <2> HIDE DEF answered
  <2>3. check'[k].pc = "done" /\ check'[k].reply = reply
    BY <1>3, <2>1, <2>2
  <2> QED BY <2>3 DEF CheckJudges
<1>5. ASSUME NEW c \in Calls, NEW f \in Factors, NEW v \in Said[f], BeginCheck(k, c, f, v)
      PROVE  FALSE
  <2> DEFINE began == [NewCheck EXCEPT !.call = c, !.said = Answer(f, v)]
             counting == [began EXCEPT !.read = offered[c]]
             refused == [began EXCEPT !.reply = "VALIDATION"]
  <2>1. offered[c] \in SUBSET AllFingerprints
    BY DEF DeskInv, CallerRowsTypeOK
  <2>2. Answer(f, v) \in UNION {{Answer(g, w) : w \in Said[g]} : g \in Factors}
    OBVIOUS
  <2>3. /\ counting \in CheckStates /\ counting.reply = "none"
        /\ refused \in CheckStates /\ refused.reply = "VALIDATION"
    BY <2>1, <2>2 DEF CheckStates, NewCheck, CheckPcs, CheckReplies
  <2>4. Proceed(k, "count", counting) \/ Proceed(k, "done", refused)
    BY <1>5 DEF BeginCheck
  <2>5. "count" \in CheckPcs /\ "done" \in CheckPcs
    BY DEF CheckPcs
  <2> HIDE DEF counting, refused
  <2>6. \/ check'[k].pc = "count" /\ check'[k].reply = "none"
        \/ check'[k].pc = "done" /\ check'[k].reply = "VALIDATION"
    BY <1>3, <2>3, <2>4, <2>5
  <2> QED BY <2>6 DEF CheckJudges
<1>6. CASE CountCheck(k)
  <2> DEFINE prints == Fingerprints(check[k].said)
             fields == [check[k] EXCEPT !.read = {}]
  <2>1. check[k].pc = "count" /\ fields \in CheckStates /\ fields.reply = "none"
    BY <1>1, <1>6 DEF CountCheck, CheckStates
  <2>2. \/ IsEnumerating(check[k].read \cup prints) /\ Proceed(k, "guess", fields)
        \/ Report(k, "AMBIGUOUS", Nobody)
        \/ ~IsEnumerating(check[k].read \cup prints)
    BY <1>6 DEF CountCheck
  <2>3. "guess" \in CheckPcs
    BY DEF CheckPcs
  <2>4. ASSUME Proceed(k, "guess", fields) PROVE FALSE
    <3> HIDE DEF fields
    <3>1. check'[k].pc = "guess" /\ check'[k].reply = "none"
      BY <1>3, <2>1, <2>3, <2>4
    <3> QED BY <3>1 DEF CheckJudges
  <2> QED BY <1>4, <1>6, <2>2, <2>4 DEF Report
<1>7. ASSUME SuspectGuesser(k) PROVE FALSE
  BY <1>4, <1>7 DEF SuspectGuesser, Report
<1>8. ASSUME ResolveOnce(k) \/ Remember(k) PROVE FALSE
  BY <1>8 DEF ResolveOnce, Remember, CheckJudges
<1>9. ASSUME FailCheck(k) PROVE FALSE
  BY <1>4, <1>9 DEF FailCheck
<1>10. check'[k] # check[k]
  OBVIOUS
<1> QED
  BY <1>5, <1>6, <1>7, <1>8, <1>9, <1>10, CheckChangesAreSteps DEF CheckStep

\* The attempts are written by who counts, and by nobody else.
LEMMA OnlyCountingWrites ==
  ASSUME DeskInv, [Next]_vars
  PROVE  \/ /\ offered' = offered
            /\ \A c \in Calls : lost'[c]["offered"] = lost[c]["offered"]
         \/ (\E v \in Attempts : CountOffer(v)) /\ check' = check
         \/ (\E k \in Checks : CountCheck(k)) /\ attempt' = attempt
<1> DEFINE Quiet == /\ offered' = offered
                    /\ \A c \in Calls : lost'[c]["offered"] = lost[c]["offered"]
<1>1. ASSUME NEW c \in Calls, NEW attribute \in {"wrong", "resolved"}, NEW current, NEW read,
             WriteOver(c, attribute, current, read), offered' = offered
      PROVE  Quiet
  <2>1. attribute \in Extended /\ "offered" \in Extended /\ attribute # "offered"
    BY <1>1 DEF Extended
  <2> QED BY <1>1, <2>1, LossesAreCounted DEF DeskInv
<1>2. ASSUME NEW v \in Attempts, AttemptStep(v), ~CountOffer(v) PROVE Quiet
  <2>1. CASE MarkWrongValues(v)
    <3>1. attempt[v].call \in Calls
      BY <2>1 DEF MarkWrongValues, DeskInv, AttemptsOK, AttemptOK
    <3> QED BY <1>1, <2>1, <3>1 DEF MarkWrongValues, RecordWrongValues
  <2>2. CASE UNCHANGED <<offered, lost>>
    BY <2>2
  <2> QED
    BY <1>2, <2>1, <2>2
    DEF AttemptStep, SuspectGuessing, ReadRecord, ReadWrongValues, Settle, NoteConflict, Admit,
        FailAttempt, rowVars
<1>3. ASSUME NEW k \in Checks, CheckStep(k), ~CountCheck(k) PROVE Quiet
  <2>1. CASE Remember(k)
    <3>1. check[k].call \in Calls
      BY <2>1 DEF Remember, DeskInv, ChecksOK, CheckOK
    <3> QED BY <1>1, <2>1, <3>1 DEF Remember, SetResolvedContact
  <2>2. CASE UNCHANGED <<offered, lost>>
    BY <2>2
  <2> QED
    BY <1>3, <2>1, <2>2 DEF CheckStep, SuspectGuesser, ResolveOnce, FailCheck, rowVars
<1>4. CASE \/ \E m \in Questions : QuestionStep(m)
           \/ \E x \in Readings : ReadingStep(x)
           \/ \E m \in Questions, c \in Calls, i \in Invoices, claim \in Claims : BeginQuestion(m, c, i, claim)
           \/ \E x \in Readings, c \in Calls : BeginReading(x, c)
  BY <1>4, ReadersOnlyRead DEF DeskInv
<1>5. CASE CallerRowsNext
  BY <1>5 DEF CallerRowsNext, Tick, Initiate
<1>6. CASE UNCHANGED rowVars
  BY <1>6 DEF rowVars
<1>7. CASE (\E v \in Attempts : AttemptStep(v)) /\ check' = check
  BY <1>2, <1>7
<1>8. CASE (\E k \in Checks : CheckStep(k)) /\ attempt' = attempt
  BY <1>3, <1>8
<1> QED
  BY <1>4, <1>5, <1>6, <1>7, <1>8
  DEF Next, ToolCall, ToolStep, vars, BeginAttempt, BeginCheck

\* Only one kind of invocation moves in a step.
LEMMA OneKindMoves ==
  ASSUME DeskInv, [Next]_vars
  PROVE  check' = check \/ attempt' = attempt
BY DEF Next, ToolCall, ToolStep, CallerRowsNext, OpenItemsNext, vars, OpenItemsNext

\* What a step adds to what a call has judged is what it writes, if that is not
\* too much; and a write that replaces another is counted.
LEMMA JudgedGrowsByTheCounted ==
  ASSUME DeskInv, [Next]_vars, NEW c \in Calls
  PROVE  \E read, prints \in SUBSET AllFingerprints :
           /\ offered'[c] = read \cup prints
           /\ lost'[c]["offered"] = lost[c]["offered"] + (IF offered[c] = read THEN 0 ELSE 1)
           /\ \A f \in Factors :
                Judged(c, f)' \subseteq Judged(c, f) \cup
                  {p \in prints : p[1] = f /\ ~IsEnumerating(read \cup prints)}
<1> DEFINE Grows(read, prints) ==
             \A f \in Factors :
               Judged(c, f)' \subseteq Judged(c, f) \cup
                 {p \in prints : p[1] = f /\ ~IsEnumerating(read \cup prints)}
           ByAttempt(v, p) ==
             /\ CountOffer(v) /\ attempt'[v] # attempt[v] /\ check' = check
             /\ attempt[v].call = c /\ p \in Fingerprints(attempt[v].supplied)
             /\ ~IsEnumerating(attempt[v].read \cup Fingerprints(attempt[v].supplied))
           ByCheck(k, p) ==
             /\ CountCheck(k) /\ check'[k] # check[k] /\ attempt' = attempt
             /\ check[k].call = c /\ p \in Fingerprints(check[k].said)
             /\ ~IsEnumerating(check[k].read \cup Fingerprints(check[k].said))
<1>1. DeskInv' /\ AttemptsKept /\ ChecksKept
  BY DeskGoesOn
<1>2. ASSUME NEW f \in Factors, NEW p, p \in Judged(c, f)', p \notin Judged(c, f)
      PROVE  /\ p[1] = f
             /\ (\E v \in Attempts : ByAttempt(v, p)) \/ (\E k \in Checks : ByCheck(k, p))
  <2>1. p[1] = f /\ p \in AllFingerprints
    BY <1>2 DEF Judged
  <2>2. ASSUME NEW v \in Attempts, attempt'[v].call = c, AttemptJudges(attempt'[v]),
               p \in Fingerprints(attempt'[v].supplied)
        PROVE  ByAttempt(v, p)
    <3>1. CASE AttemptJudges(attempt[v])
      <4>1. attempt[v].pc # "idle"
        BY <3>1 DEF AttemptJudges, DeskInv, AttemptsOK, AttemptOK, NewAttempt
      <4>2. attempt'[v].call = attempt[v].call /\ attempt'[v].supplied = attempt[v].supplied
        BY <1>1, <4>1 DEF AttemptsKept
      <4> QED BY <1>2, <2>1, <2>2, <3>1, <4>2 DEF Judged
    <3>2. CASE ~AttemptJudges(attempt[v])
      <4>1. attempt'[v].supplied # <<>>
        BY <2>2 DEF Fingerprints
      <4>2. /\ CountOffer(v)
            /\ ~IsEnumerating(attempt[v].read \cup Fingerprints(attempt[v].supplied))
        BY <2>2, <3>2, <4>1, JudgedIsCounted
      <4>3. attempt[v].pc # "idle" /\ attempt'[v] # attempt[v]
        BY <2>2, <3>2, <4>2 DEF CountOffer
      <4>4. attempt'[v].call = attempt[v].call /\ attempt'[v].supplied = attempt[v].supplied
        BY <1>1, <4>3 DEF AttemptsKept
      <4> QED BY <2>2, <4>2, <4>3, <4>4, OneKindMoves
    <3> QED BY <3>1, <3>2
  <2>3. ASSUME NEW k \in Checks, check'[k].call = c, CheckJudges(check'[k]),
               p \in Fingerprints(check'[k].said)
        PROVE  ByCheck(k, p)
    <3>1. CASE CheckJudges(check[k])
      <4>1. check[k].pc # "idle"
        BY <3>1 DEF CheckJudges, DeskInv, ChecksOK, CheckOK
      <4>2. check'[k].call = check[k].call /\ check'[k].said = check[k].said
        BY <1>1, <4>1 DEF ChecksKept
      <4> QED BY <1>2, <2>1, <2>3, <3>1, <4>2 DEF Judged
    <3>2. CASE ~CheckJudges(check[k])
      <4>1. /\ CountCheck(k)
            /\ ~IsEnumerating(check[k].read \cup Fingerprints(check[k].said))
        BY <2>3, <3>2, CheckedIsCounted
      <4>2. check[k].pc # "idle" /\ check'[k] # check[k]
        BY <2>3, <3>2, <4>1 DEF CountCheck
      <4>3. check'[k].call = check[k].call /\ check'[k].said = check[k].said
        BY <1>1, <4>2 DEF ChecksKept
      <4> QED BY <2>3, <4>1, <4>2, <4>3, OneKindMoves
    <3> QED BY <3>1, <3>2
  <2>4. \/ \E v \in Attempts : /\ attempt'[v].call = c /\ AttemptJudges(attempt'[v])
                               /\ p \in Fingerprints(attempt'[v].supplied)
        \/ \E k \in Checks : /\ check'[k].call = c /\ CheckJudges(check'[k])
                             /\ p \in Fingerprints(check'[k].said)
    BY <1>2 DEF Judged
  <2> HIDE DEF ByAttempt, ByCheck
  <2> QED BY <2>1, <2>2, <2>3, <2>4
<1>3. /\ offered \in [Calls -> SUBSET AllFingerprints]
      /\ \A d \in Calls : lost[d]["offered"] \in Nat
      /\ "offered" \in Extended
  BY DEF DeskInv, CallerRowsTypeOK, Extended
<1>4. ASSUME NEW d \in Calls, NEW read, NEW prints,
             RecordFactorAttempts(d, read, prints)
      PROVE  IF d = c
               THEN /\ offered'[c] = read \cup prints
                    /\ lost'[c]["offered"] = lost[c]["offered"] + (IF offered[c] = read THEN 0 ELSE 1)
               ELSE offered'[c] = offered[c] /\ lost'[c]["offered"] = lost[c]["offered"]
  <2>1. /\ \A e \in Calls, a \in Extended : lost'[e][a] # lost[e][a] =>
             e = d /\ a = "offered" /\ offered[d] # read /\ lost'[e][a] = lost[e][a] + 1
        /\ offered[d] # read => lost'[d]["offered"] = lost[d]["offered"] + 1
    <3>1. WriteOver(d, "offered", offered[d], read)
      BY <1>4 DEF RecordFactorAttempts
    <3> QED BY <1>3, <3>1, LossesAreCounted DEF DeskInv
  <2>2. offered' = [offered EXCEPT ![d] = read \cup prints]
    BY <1>4 DEF RecordFactorAttempts
  <2> QED BY <1>3, <2>1, <2>2
<1>5. ASSUME offered'[c] = offered[c], lost'[c]["offered"] = lost[c]["offered"],
             \A p : ~ (\E v \in Attempts : ByAttempt(v, p)) /\ ~ (\E k \in Checks : ByCheck(k, p))
      PROVE  \E read, prints \in SUBSET AllFingerprints :
               /\ offered'[c] = read \cup prints
               /\ lost'[c]["offered"] = lost[c]["offered"] + (IF offered[c] = read THEN 0 ELSE 1)
               /\ Grows(read, prints)
  <2>1. Grows(offered[c], {})
    <3> HIDE DEF ByAttempt, ByCheck
    <3> QED BY <1>2, <1>5
  <2>2. offered[c] \in SUBSET AllFingerprints /\ {} \in SUBSET AllFingerprints
    BY <1>3
  <2>3. lost'[c]["offered"] = lost[c]["offered"] + 0
    BY <1>3, <1>5
  <2> HIDE DEF Grows
  <2>4. offered'[c] = offered[c] \cup {}
    BY <1>5
  <2> QED BY <2>1, <2>2, <2>3, <2>4
<1>6. ASSUME NEW d \in Calls, NEW read \in SUBSET AllFingerprints, NEW prints \in SUBSET AllFingerprints,
             RecordFactorAttempts(d, read, prints),
             \A p : (\E v \in Attempts : ByAttempt(v, p)) \/ (\E k \in Checks : ByCheck(k, p)) =>
               d = c /\ p \in prints /\ ~IsEnumerating(read \cup prints)
      PROVE  \E r, q \in SUBSET AllFingerprints :
               /\ offered'[c] = r \cup q
               /\ lost'[c]["offered"] = lost[c]["offered"] + (IF offered[c] = r THEN 0 ELSE 1)
               /\ Grows(r, q)
  <2>1. CASE d = c
    <3>1. Grows(read, prints)
      <4> HIDE DEF ByAttempt, ByCheck
      <4> QED BY <1>2, <1>6
    <3>2. /\ offered'[c] = read \cup prints
          /\ lost'[c]["offered"] = lost[c]["offered"] + (IF offered[c] = read THEN 0 ELSE 1)
      BY <1>4, <1>6, <2>1
    <3> HIDE DEF Grows
    <3> QED BY <3>1, <3>2
  <2>2. CASE d # c
    <3>1. offered'[c] = offered[c] /\ lost'[c]["offered"] = lost[c]["offered"]
      BY <1>4, <1>6, <2>2
    <3> HIDE DEF ByAttempt, ByCheck, Grows
    <3> QED BY <1>5, <1>6, <2>2, <3>1
  <2> QED BY <2>1, <2>2
<1>7. CASE (\E v \in Attempts : CountOffer(v)) /\ check' = check
  <2>1. PICK v \in Attempts : CountOffer(v)
    BY <1>7
  <2>2. attempt[v].call \in Calls /\ attempt[v].read \in SUBSET AllFingerprints
        /\ attempt[v].supplied \in {ParseFactors(offer) : offer \in Offers} \cup {<<>>}
    BY <2>1 DEF CountOffer, DeskInv, AttemptsOK, AttemptOK, AttemptTypeOK, AttemptStates
  <2>3. Fingerprints(attempt[v].supplied) \in SUBSET AllFingerprints
    BY <2>2, SuppliedIsSaid, FingerprintsAreKnown
  <2>4. RecordFactorAttempts(attempt[v].call, attempt[v].read, Fingerprints(attempt[v].supplied))
    BY <2>1 DEF CountOffer
  <2>5. \A w \in Attempts \ {v} : attempt'[w] = attempt[w]
    BY <2>1, AttemptStepGoesOn DEF AttemptGoesOn, AttemptStep, DeskInv, AttemptsOK
  <2>6. \A p : \A w \in Attempts : ByAttempt(w, p) => w = v
    BY <2>5
  <2>7. \A p : \A k \in Checks : ~ByCheck(k, p)
    BY <1>7
  <2>8. \A p : ByAttempt(v, p) => /\ attempt[v].call = c /\ p \in Fingerprints(attempt[v].supplied)
                                  /\ ~IsEnumerating(attempt[v].read \cup Fingerprints(attempt[v].supplied))
    OBVIOUS
  <2> HIDE DEF ByAttempt, ByCheck, Grows
  <2>9. PICK d, read, prints : d = attempt[v].call /\ read = attempt[v].read
                               /\ prints = Fingerprints(attempt[v].supplied)
    OBVIOUS
  <2>10. \A p : (\E w \in Attempts : ByAttempt(w, p)) \/ (\E k \in Checks : ByCheck(k, p)) =>
            d = c /\ p \in prints /\ ~IsEnumerating(read \cup prints)
    BY <2>6, <2>7, <2>8, <2>9
  <2>11. RecordFactorAttempts(d, read, prints)
    BY <2>4, <2>9
  <2>12. d \in Calls /\ read \in SUBSET AllFingerprints /\ prints \in SUBSET AllFingerprints
    BY <2>2, <2>3, <2>9
  <2> QED BY <1>6, <2>10, <2>11, <2>12 DEF Grows
<1>8. CASE (\E k \in Checks : CountCheck(k)) /\ attempt' = attempt
  <2>1. PICK k \in Checks : CountCheck(k)
    BY <1>8
  <2>2. check[k].call \in Calls /\ check[k].read \in SUBSET AllFingerprints
        /\ check[k].said \in {<<>>} \cup UNION {{Answer(f, v) : v \in Said[f]} : f \in Factors}
    BY <2>1 DEF CountCheck, DeskInv, ChecksOK, CheckOK, CheckTypeOK, CheckStates
  <2>3. Fingerprints(check[k].said) \in SUBSET AllFingerprints
    <3>1. DOMAIN check[k].said \subseteq Factors
          /\ \A f \in DOMAIN check[k].said : check[k].said[f] \in Said[f]
      <4>1. CASE check[k].said = <<>>
        <5>1. DOMAIN check[k].said = {} BY <4>1
        <5> QED BY <5>1
      <4>2. CASE \E f \in Factors : \E v \in Said[f] : check[k].said = Answer(f, v)
        BY <4>2 DEF Answer
      <4> QED BY <2>2, <4>1, <4>2
    <3> QED BY <3>1, FingerprintsAreKnown
  <2>4. RecordFactorAttempts(check[k].call, check[k].read, Fingerprints(check[k].said))
    BY <2>1 DEF CountCheck
  <2>5. \A j \in Checks \ {k} : check'[j] = check[j]
    BY <2>1, CheckStepGoesOn DEF CheckGoesOn, CheckStep, DeskInv, ChecksOK
  <2>6. \A p : \A j \in Checks : ByCheck(j, p) => j = k
    BY <2>5
  <2>7. \A p : \A v \in Attempts : ~ByAttempt(v, p)
    BY <1>8
  <2>8. \A p : ByCheck(k, p) => /\ check[k].call = c /\ p \in Fingerprints(check[k].said)
                                /\ ~IsEnumerating(check[k].read \cup Fingerprints(check[k].said))
    OBVIOUS
  <2> HIDE DEF ByAttempt, ByCheck, Grows
  <2>9. PICK d, read, prints : d = check[k].call /\ read = check[k].read
                               /\ prints = Fingerprints(check[k].said)
    OBVIOUS
  <2>10. \A p : (\E v \in Attempts : ByAttempt(v, p)) \/ (\E j \in Checks : ByCheck(j, p)) =>
            d = c /\ p \in prints /\ ~IsEnumerating(read \cup prints)
    BY <2>6, <2>7, <2>8, <2>9
  <2>11. RecordFactorAttempts(d, read, prints)
    BY <2>4, <2>9
  <2>12. d \in Calls /\ read \in SUBSET AllFingerprints /\ prints \in SUBSET AllFingerprints
    BY <2>2, <2>3, <2>9
  <2> QED BY <1>6, <2>10, <2>11, <2>12 DEF Grows
<1>9. CASE /\ ~ ((\E v \in Attempts : CountOffer(v)) /\ check' = check)
           /\ ~ ((\E k \in Checks : CountCheck(k)) /\ attempt' = attempt)
  <2>1. /\ offered' = offered
        /\ lost'[c]["offered"] = lost[c]["offered"]
    BY <1>9, OnlyCountingWrites
  <2>2. \A p : ~ (\E v \in Attempts : ByAttempt(v, p)) /\ ~ (\E k \in Checks : ByCheck(k, p))
    BY <1>9
  <2> HIDE DEF ByAttempt, ByCheck, Grows
  <2> QED BY <1>5, <2>1, <2>2 DEF Grows
<1> QED BY <1>7, <1>8, <1>9

\* What has been judged of a field is within the allowance, given what the row
\* says was offered and how many writes of it were lost: what is not on the row
\* any more is within what those lost writes allow.
WithinAllowance(judged, onRow, losses) ==
  /\ Cardinality(judged) <= MaxDistinctValues * (1 + losses)
  /\ ~IsEnumerating(onRow) => Cardinality(judged \ onRow) <= MaxDistinctValues * losses

\* The arithmetic of the allowance: what is judged next is among what has been
\* judged and what is written, and what is written is not too much.
LEMMA AllowanceAddsUp ==
  ASSUME NEW f \in Factors, NEW J \in SUBSET AllFingerprints, NEW K \in SUBSET AllFingerprints,
         \A p \in K : p[1] = f,
         NEW O \in SUBSET AllFingerprints, NEW read \in SUBSET AllFingerprints,
         NEW prints \in SUBSET AllFingerprints, NEW R, R = read \cup prints,
         NEW l \in Nat, NEW m \in Nat, O = read => m = l, O # read => m = l + 1,
         K \subseteq J \cup prints, IsEnumerating(R) => K \subseteq J,
         WithinAllowance(J, O, l)
  PROVE  WithinAllowance(K, R, m)
<1>0. /\ Cardinality(J) <= MaxDistinctValues * (1 + l)
      /\ ~IsEnumerating(O) => Cardinality(J \ O) <= MaxDistinctValues * l
  BY DEF WithinAllowance
<1>1. MaxDistinctValues \in Nat
  BY FactorsAssumption
<1>2. PICK M \in Nat : M = MaxDistinctValues
  BY <1>1
<1>3. \A a \in Nat, b \in Nat : a * b \in Nat /\ a * (1 + b) = a * b + a
  OBVIOUS
<1>4. O = read \/ O # read
  OBVIOUS
<1>5. /\ M * l \in Nat /\ M * m \in Nat
      /\ M * (1 + l) = M * l + M /\ M * (1 + m) = M * m + M
      /\ O # read => M * m = M * l + M
  <2>1. m = l + 1 => M * m = M * l + M
    <3>1. l + 1 = 1 + l OBVIOUS
    <3> QED BY <1>2, <1>3, <3>1
  <2> QED BY <1>2, <1>3, <1>4, <2>1
<1>6. \A S \in SUBSET AllFingerprints : IsFiniteSet(S) /\ Cardinality(S) \in Nat
  BY FingerprintsAreFinite, FS_Subset, FS_CardinalityType
<1>7. \A T \in SUBSET AllFingerprints : \A S \in SUBSET T : Cardinality(S) <= Cardinality(T)
  BY <1>6, FS_Subset
<1>8. R \in SUBSET AllFingerprints /\ K \ R \in SUBSET AllFingerprints /\ J \ O \in SUBSET AllFingerprints
  OBVIOUS
<1>9. ASSUME IsEnumerating(R)
      PROVE  /\ Cardinality(K) <= MaxDistinctValues * (1 + m)
             /\ ~IsEnumerating(R) => Cardinality(K \ R) <= MaxDistinctValues * m
  <2>1. K \in SUBSET J
    BY <1>9
  <2>2. Cardinality(K) <= Cardinality(J)
    BY <1>7, <2>1
  <2>3. M * l <= M * m
    BY <1>2, <1>4, <1>5
  <2>4. Cardinality(J) <= M * l + M
    BY <1>0, <1>2, <1>5
  <2>5. Cardinality(K) \in Nat /\ Cardinality(J) \in Nat
    BY <1>6
  <2>6. Cardinality(K) <= M * m + M
    BY <1>2, <1>5, <2>2, <2>3, <2>4, <2>5
  <2> QED BY <1>2, <1>5, <1>9, <2>6
<1>10. ASSUME ~IsEnumerating(R)
       PROVE  /\ Cardinality(K) <= MaxDistinctValues * (1 + m)
              /\ Cardinality(K \ R) <= MaxDistinctValues * m
  <2>1. Cardinality(K \ R) <= M * m
    <3>1. CASE O = read
      <4>1. ~IsEnumerating(O)
        BY <1>8, <1>10, <3>1, MoreIsNoBetter
      <4>2. K \ R \in SUBSET (J \ O)
        BY <3>1
      <4>3. Cardinality(K \ R) <= Cardinality(J \ O)
        BY <1>7, <1>8, <4>2
      <4>4. Cardinality(J \ O) <= M * l /\ m = l
        BY <1>0, <1>2, <1>4, <3>1, <4>1
      <4> QED BY <1>5, <1>6, <1>8, <4>3, <4>4
    <3>2. CASE O # read
      <4>1. K \ R \in SUBSET J
        OBVIOUS
      <4>2. Cardinality(K \ R) <= Cardinality(J)
        BY <1>7, <4>1
      <4>3. Cardinality(J) <= M * l + M
        BY <1>0, <1>2, <1>5
      <4>4. Cardinality(K \ R) \in Nat /\ Cardinality(J) \in Nat
        BY <1>6, <1>8
      <4> QED BY <1>5, <3>2, <4>2, <4>3, <4>4
    <3> QED BY <3>1, <3>2
  <2> DEFINE written == {p \in R : p[1] = f}
  <2>2. Cardinality(written) <= M /\ written \in SUBSET AllFingerprints
    <3>1. CountFor(R, f) \in Nat
      BY <1>6, <1>8, CountGrows
    <3>2. ~ (CountFor(R, f) > MaxDistinctValues)
      BY <1>10 DEF IsEnumerating
    <3> QED BY <1>2, <1>8, <3>1, <3>2 DEF CountFor
  <2>3. K \subseteq (K \ R) \cup written
    OBVIOUS
  <2> HIDE DEF written
  <2>4. Cardinality(K) <= Cardinality(K \ R) + Cardinality(written)
    <3>1. (K \ R) \cup written \in SUBSET AllFingerprints
      BY <1>8, <2>2
    <3>2. Cardinality(K) <= Cardinality((K \ R) \cup written)
      BY <1>7, <2>3, <3>1
    <3>3. Cardinality((K \ R) \cup written) =
            Cardinality(K \ R) + Cardinality(written) - Cardinality((K \ R) \cap written)
      BY <1>6, <1>8, <2>2, FS_Union
    <3>4. Cardinality((K \ R) \cap written) \in Nat
      <4>1. (K \ R) \cap written \in SUBSET AllFingerprints BY <1>8
      <4> QED BY <1>6, <4>1
    <3>5. Cardinality(K \ R) \in Nat /\ Cardinality(written) \in Nat /\ Cardinality(K) \in Nat
      BY <1>6, <1>8, <2>2
    <3> QED BY <3>2, <3>3, <3>4, <3>5
  <2>5. Cardinality(K \ R) \in Nat /\ Cardinality(written) \in Nat /\ Cardinality(K) \in Nat
    BY <1>6, <1>8, <2>2
  <2>6. Cardinality(K) <= M * m + M
    BY <1>2, <1>5, <2>1, <2>2, <2>4, <2>5
  <2> QED BY <1>2, <1>5, <2>1, <2>6
<1> QED BY <1>9, <1>10, Zenon DEF WithinAllowance

AllowanceOK(c, f) == WithinAllowance(Judged(c, f), offered[c], lost[c]["offered"])

AllowanceInv == \A c \in Calls, f \in Factors : AllowanceOK(c, f)

\* Nothing has been judged when the calls begin.
LEMMA AllowanceAtFirst == Init => AllowanceInv
<1> SUFFICES ASSUME Init, NEW c \in Calls, NEW f \in Factors PROVE AllowanceOK(c, f)
  BY DEF AllowanceInv
<1>1. Judged(c, f) = {}
  BY DEF Init, AttemptInit, CheckInit, NewAttempt, NewCheck, Judged, AttemptJudges, CheckJudges
<1>2. lost[c]["offered"] = 0
  BY DEF Init, CallerRowsInit, Extended
<1>3. \A n \in Nat : n * 0 = 0 /\ n * (1 + 0) = n
  OBVIOUS
<1>4. MaxDistinctValues \in Nat /\ Cardinality({}) = 0
  BY FactorsAssumption, FS_EmptySet
<1>5. Judged(c, f) \ offered[c] = {}
  BY <1>1
<1> QED BY <1>1, <1>2, <1>3, <1>4, <1>5 DEF AllowanceOK, WithinAllowance

\* Every step keeps to it.
LEMMA AllowanceStays ==
  ASSUME DeskInv, AllowanceInv, [Next]_vars PROVE AllowanceInv'
<1> SUFFICES ASSUME NEW c \in Calls, NEW f \in Factors PROVE AllowanceOK(c, f)'
  BY DEF AllowanceInv
<1>1. PICK read \in SUBSET AllFingerprints, prints \in SUBSET AllFingerprints :
        /\ offered'[c] = read \cup prints
        /\ lost'[c]["offered"] = lost[c]["offered"] + (IF offered[c] = read THEN 0 ELSE 1)
        /\ Judged(c, f)' \subseteq Judged(c, f) \cup
             {p \in prints : p[1] = f /\ ~IsEnumerating(read \cup prints)}
  BY JudgedGrowsByTheCounted
<1>2. PICK J, K, O, l, R, m :
        /\ J = Judged(c, f) /\ K = Judged(c, f)'
        /\ O = offered[c] /\ l = lost[c]["offered"]
        /\ R = read \cup prints /\ m = lost'[c]["offered"]
  OBVIOUS
<1>3. /\ J \in SUBSET AllFingerprints /\ K \in SUBSET AllFingerprints
      /\ \A p \in K : p[1] = f
  BY <1>2 DEF Judged
<1>4. O \in SUBSET AllFingerprints /\ l \in Nat
  BY <1>2 DEF DeskInv, CallerRowsTypeOK, Extended
<1>5. WithinAllowance(J, O, l)
  BY <1>2 DEF AllowanceInv, AllowanceOK
<1>6. m \in Nat /\ (O = read => m = l) /\ (O # read => m = l + 1)
  BY <1>1, <1>2, <1>4
<1>7. K \subseteq J \cup prints
  BY <1>1, <1>2
<1>8. IsEnumerating(R) => K \subseteq J
  BY <1>1, <1>2
<1>9. R = read \cup prints
  BY <1>2
<1>10. WithinAllowance(K, R, m)
  BY <1>3, <1>4, <1>5, <1>6, <1>9, <1>7, <1>8, AllowanceAddsUp
<1> QED BY <1>1, <1>2, <1>10 DEF AllowanceOK

\* What a call is told about has been judged.
LEMMA ToldIsJudged ==
  ASSUME DeskInv, NEW c \in Calls, NEW f \in Factors
  PROVE  /\ IsFiniteSet(Told(c, f)) /\ Cardinality(Told(c, f)) \in Nat
         /\ Cardinality(Judged(c, f)) \in Nat
         /\ Cardinality(Told(c, f)) <= Cardinality(Judged(c, f))
<1>1. ASSUME NEW x \in Told(c, f) PROVE <<f, x>> \in Judged(c, f)
  <2>1. ASSUME NEW v \in Attempts, attempt[v].call = c, f \in DOMAIN attempt[v].supplied,
               attempt[v].reply \in {"VERIFIED", "PARTIALLY_VERIFIED", "FAILED"},
               x = Normalise(f, attempt[v].supplied[f])
        PROVE  <<f, x>> \in Judged(c, f)
    <3>1. attempt[v].supplied \in {ParseFactors(offer) : offer \in Offers} \cup {<<>>}
      BY DEF DeskInv, AttemptTypeOK, AttemptStates
    <3>2. Fingerprint(f, attempt[v].supplied[f]) \in AllFingerprints
      BY <2>1, <3>1, SuppliedIsSaid, FingerprintsAreKnown
    <3>3. Fingerprint(f, attempt[v].supplied[f]) = <<f, x>>
      BY <2>1 DEF Fingerprint
    <3>4. <<f, x>> \in Fingerprints(attempt[v].supplied)
      BY <2>1, <3>3 DEF Fingerprints
    <3> QED BY <2>1, <3>2, <3>3, <3>4 DEF Judged, AttemptJudges
  <2>2. ASSUME NEW k \in Checks, check[k].call = c, f \in DOMAIN check[k].said,
               check[k].reply \in {"MATCHED", "NOT_MATCHED"},
               x = Normalise(f, check[k].said[f])
        PROVE  <<f, x>> \in Judged(c, f)
    <3>1. check[k].said \in {<<>>} \cup UNION {{Answer(g, w) : w \in Said[g]} : g \in Factors}
      BY DEF DeskInv, CheckTypeOK, CheckStates
    <3>2. DOMAIN check[k].said \subseteq Factors
          /\ \A g \in DOMAIN check[k].said : check[k].said[g] \in Said[g]
      <4>1. check[k].said # <<>>
        BY <2>2
      <4>2. PICK g \in Factors : \E w \in Said[g] : check[k].said = Answer(g, w)
        BY <3>1, <4>1
      <4> QED BY <4>2 DEF Answer
    <3>3. Fingerprint(f, check[k].said[f]) \in AllFingerprints
      BY <2>2, <3>2, FingerprintsAreKnown
    <3>4. Fingerprint(f, check[k].said[f]) = <<f, x>>
      BY <2>2 DEF Fingerprint
    <3>5. <<f, x>> \in Fingerprints(check[k].said)
      BY <2>2, <3>4 DEF Fingerprints
    <3> QED BY <2>2, <3>3, <3>4, <3>5 DEF Judged, CheckJudges
  <2> QED BY <2>1, <2>2 DEF Told
<1> DEFINE values == {p[2] : p \in Judged(c, f)}
           value == [p \in Judged(c, f) |-> p[2]]
<1>2. ASSUME NEW x \in Told(c, f) PROVE x \in {value[p] : p \in Judged(c, f)}
  <2>1. <<f, x>> \in Judged(c, f)
    BY <1>1
  <2>2. value[<<f, x>>] = x
    BY <2>1
  <2> HIDE DEF value
  <2> QED BY <2>1, <2>2
<1>3. value \in [Judged(c, f) -> values]
  OBVIOUS
<1>4. IsFiniteSet(Judged(c, f))
  BY FingerprintsAreFinite, FS_Subset DEF Judged
<1>5. /\ IsFiniteSet({value[p] : p \in Judged(c, f)})
      /\ Cardinality({value[p] : p \in Judged(c, f)}) <= Cardinality(Judged(c, f))
  <2> HIDE DEF value, values
  <2> QED BY <1>3, <1>4, ImageIsFinite
<1>6. PICK image : image = {value[p] : p \in Judged(c, f)}
  OBVIOUS
<1>7. IsFiniteSet(image) /\ Cardinality(image) <= Cardinality(Judged(c, f)) /\ Told(c, f) \subseteq image
  <2> HIDE DEF value
  <2> QED BY <1>2, <1>5, <1>6
<1>8. IsFiniteSet(Told(c, f)) /\ Cardinality(Told(c, f)) <= Cardinality(image)
  BY <1>7, FS_Subset
<1> HIDE DEF value, values
<1> QED BY <1>4, <1>7, <1>8, FS_CardinalityType

\* However a caller spreads values over verify_identity and check_factor, and
\* however invocations overlap, no more values of a field are judged than the
\* allowance, but for as many again per lost write of the attempts (FR-006a).
THEOREM AllowanceIsKept == Spec => []AllowanceHolds
<1>1. Init => AllowanceInv
  BY AllowanceAtFirst
<1>2. DeskInv /\ AllowanceInv /\ [Next]_vars => AllowanceInv'
  BY AllowanceStays
<1>3. DeskInv /\ AllowanceInv => AllowanceHolds
  <2> SUFFICES ASSUME DeskInv, AllowanceInv, NEW c \in Calls, NEW f \in Factors
               PROVE  Cardinality(Told(c, f)) <= MaxDistinctValues * (1 + lost[c]["offered"])
    BY DEF AllowanceHolds
  <2>1. PICK n : n = MaxDistinctValues * (1 + lost[c]["offered"])
    OBVIOUS
  <2>2. n \in Nat
    <3>1. lost[c]["offered"] \in Nat
      BY DEF DeskInv, CallerRowsTypeOK, Extended
    <3>2. \A a \in Nat, b \in Nat : a * (1 + b) \in Nat
      OBVIOUS
    <3> QED BY <2>1, <3>1, <3>2, FactorsAssumption
  <2>3. Cardinality(Judged(c, f)) <= n
    BY <2>1 DEF AllowanceInv, AllowanceOK, WithinAllowance
  <2> QED BY <2>1, <2>2, <2>3, ToldIsJudged
<1> QED BY <1>1, <1>2, <1>3, DeskIsTyped, PTL DEF Spec

-----------------------------------------------------------------------------
(* The lock of a call.                                                     *)

\* A call that is told LOCKED, or is about to be, for guessing; and for mistakes.
StoppedForGuessing(a) == a.pc = "guess" \/ a.reply = "GUESSING"
StoppedForMistakes(a) == (a.pc = "attempt" /\ a.count >= MaxAttempts) \/ a.reply = "CALL_LOCKED"

\* Unless a write has been lost, the row says so.
LockIsOnRow(a) ==
  /\ StoppedForGuessing(a) /\ lost[a.call]["offered"] = 0 => IsEnumerating(offered[a.call])
  /\ StoppedForMistakes(a) /\ lost[a.call]["wrong"] = 0 => WorstField(wrong[a.call]) >= MaxAttempts

\* The attempt began after one of its call had been answered so.
After(v, reply) ==
  \E w \in attempt[v].after : attempt[w].call = attempt[v].call /\ attempt[w].reply = reply

\* It does not get past the counting of what it offers; it says nothing, or it
\* never proves anything.
BarredByGuessing(a) ==
  /\ a.supplied # <<>> => a.pc \in {"count", "guess", "done"}
  /\ a.pc = "count" => IsEnumerating(a.read)
  /\ a.pc # "admit" /\ a.reply # "VERIFIED"

\* It counts too many mistakes.
BarredByMistakes(a) ==
  /\ a.pc = "mark" => WorstField(a.read) >= MaxAttempts
  /\ a.pc = "attempt" => a.count >= MaxAttempts
  /\ a.pc \notin {"conflict", "admit"} /\ a.reply # "VERIFIED"

\* An attempt that begins after a lock reads the lock from the row.
BarredOK(v) ==
  /\ \A w \in attempt[v].after : attempt[w].pc = "done"
  /\ LockIsOnRow(attempt[v])
  /\ After(v, "GUESSING") /\ lost[attempt[v].call]["offered"] = 0 => BarredByGuessing(attempt[v])
  /\ After(v, "CALL_LOCKED") /\ lost[attempt[v].call]["wrong"] = 0 => BarredByMistakes(attempt[v])

BarredInv == \A v \in Attempts : BarredOK(v)

\* While no write is lost the offered values only grow.
LEMMA OfferedStays ==
  ASSUME DeskInv, [Next]_vars, NEW c \in Calls, lost'[c]["offered"] = 0
  PROVE  /\ lost[c]["offered"] = 0
         /\ IsEnumerating(offered[c]) => IsEnumerating(offered'[c])
<1>1. PICK read \in SUBSET AllFingerprints, prints \in SUBSET AllFingerprints :
        /\ offered'[c] = read \cup prints
        /\ lost'[c]["offered"] = lost[c]["offered"] + (IF offered[c] = read THEN 0 ELSE 1)
  BY JudgedGrowsByTheCounted
<1>2. lost[c]["offered"] \in Nat
  BY DEF DeskInv, CallerRowsTypeOK, Extended
<1>3. lost[c]["offered"] = 0 /\ offered[c] = read
  BY <1>1, <1>2
<1>4. read \cup prints \in SUBSET AllFingerprints /\ read \subseteq read \cup prints
  BY <1>1
<1>5. IsEnumerating(read) => IsEnumerating(read \cup prints)
  BY <1>4, MoreIsNoBetter
<1> QED BY <1>1, <1>3, <1>5

\* Wrong values are written by who marks them, and by nobody else.
LEMMA OnlyMarkingCounts ==
  ASSUME DeskInv, [Next]_vars
  PROVE  \/ /\ wrong' = wrong
            /\ \A c \in Calls : lost'[c]["wrong"] = lost[c]["wrong"]
         \/ \E v \in Attempts : MarkWrongValues(v)
<1> DEFINE Quiet == /\ wrong' = wrong
                    /\ \A c \in Calls : lost'[c]["wrong"] = lost[c]["wrong"]
<1>1. ASSUME NEW c \in Calls, NEW attribute \in {"offered", "resolved"}, NEW current, NEW read,
             WriteOver(c, attribute, current, read), wrong' = wrong
      PROVE  Quiet
  <2>1. attribute \in Extended /\ "wrong" \in Extended /\ attribute # "wrong"
    BY <1>1 DEF Extended
  <2> QED BY <1>1, <2>1, LossesAreCounted DEF DeskInv
<1>2. ASSUME NEW v \in Attempts, AttemptStep(v), ~MarkWrongValues(v) PROVE Quiet
  <2>1. CASE CountOffer(v)
    <3>1. attempt[v].call \in Calls
      BY <2>1 DEF CountOffer, DeskInv, AttemptsOK, AttemptOK
    <3> QED BY <1>1, <2>1, <3>1 DEF CountOffer, RecordFactorAttempts
  <2>2. CASE UNCHANGED <<wrong, lost>>
    BY <2>2
  <2> QED
    BY <1>2, <2>1, <2>2
    DEF AttemptStep, SuspectGuessing, ReadRecord, ReadWrongValues, Settle, NoteConflict, Admit,
        FailAttempt, rowVars
<1>3. ASSUME NEW k \in Checks, CheckStep(k) PROVE Quiet
  <2>1. CASE CountCheck(k) \/ Remember(k)
    <3>1. check[k].call \in Calls
      BY <2>1 DEF CountCheck, Remember, DeskInv, ChecksOK, CheckOK
    <3> QED BY <1>1, <2>1, <3>1 DEF CountCheck, Remember, RecordFactorAttempts, SetResolvedContact
  <2>2. CASE UNCHANGED <<wrong, lost>>
    BY <2>2
  <2> QED
    BY <1>3, <2>1, <2>2 DEF CheckStep, SuspectGuesser, ResolveOnce, FailCheck, rowVars
<1>4. CASE \/ \E m \in Questions : QuestionStep(m)
           \/ \E x \in Readings : ReadingStep(x)
           \/ \E m \in Questions, c \in Calls, i \in Invoices, claim \in Claims : BeginQuestion(m, c, i, claim)
           \/ \E x \in Readings, c \in Calls : BeginReading(x, c)
  BY <1>4, ReadersOnlyRead DEF DeskInv
<1>5. CASE CallerRowsNext
  BY <1>5 DEF CallerRowsNext, Tick, Initiate
<1>6. CASE UNCHANGED rowVars
  BY <1>6 DEF rowVars
<1> QED
  BY <1>2, <1>3, <1>4, <1>5, <1>6
  DEF Next, ToolCall, ToolStep, vars, BeginAttempt, BeginCheck

\* While no write is lost the wrong values only grow.
LEMMA WrongStays ==
  ASSUME DeskInv, [Next]_vars, NEW c \in Calls, lost'[c]["wrong"] = 0
  PROVE  /\ lost[c]["wrong"] = 0
         /\ WorstField(wrong[c]) >= MaxAttempts => WorstField(wrong'[c]) >= MaxAttempts
<1>1. /\ lost[c]["wrong"] \in Nat /\ "wrong" \in Extended /\ MaxAttempts \in Nat
      /\ wrong \in [Calls -> SUBSET AllFingerprints]
  BY VerifyIdentityAssumption DEF DeskInv, CallerRowsTypeOK, Extended
<1>2. CASE wrong' = wrong /\ lost'[c]["wrong"] = lost[c]["wrong"]
  BY <1>2
<1>3. ASSUME NEW v \in Attempts, MarkWrongValues(v)
      PROVE  /\ lost[c]["wrong"] = 0
             /\ WorstField(wrong[c]) >= MaxAttempts => WorstField(wrong'[c]) >= MaxAttempts
  <2>1. PICK d, read, prints :
          /\ d = attempt[v].call /\ read = attempt[v].read /\ prints = WrongPrints(v)
    OBVIOUS
  <2>2. d \in Calls /\ read \in SUBSET AllFingerprints /\ prints \in SUBSET AllFingerprints
    BY <1>3, <2>1, WrongPrintsAreKnown
    DEF MarkWrongValues, DeskInv, AttemptsOK, AttemptOK, AttemptTypeOK, AttemptStates
  <2>3. /\ wrong' = [wrong EXCEPT ![d] = read \cup prints]
        /\ WriteOver(d, "wrong", wrong[d], read)
    BY <1>3, <2>1 DEF MarkWrongValues, RecordWrongValues
  <2>4. /\ lost'[c]["wrong"] # lost[c]["wrong"] => lost'[c]["wrong"] = lost[c]["wrong"] + 1
        /\ wrong[d] # read => lost'[d]["wrong"] = lost[d]["wrong"] + 1
    BY <1>1, <2>2, <2>3, LossesAreCounted DEF DeskInv
  <2>5. lost[c]["wrong"] = 0
    BY <1>1, <2>4
  <2>6. CASE d # c
    BY <1>1, <2>3, <2>5, <2>6
  <2>7. CASE d = c
    <3>1. wrong[c] = read
      BY <1>1, <2>4, <2>7
    <3>2. wrong'[c] = read \cup prints
      BY <1>1, <2>3, <2>7
    <3>3. read \cup prints \in SUBSET AllFingerprints /\ read \subseteq read \cup prints
      BY <2>2
    <3>4. /\ WorstField(read) \in Nat /\ WorstField(read \cup prints) \in Nat
          /\ WorstField(read) <= WorstField(read \cup prints)
      BY <3>3, MoreIsNoBetter
    <3> QED BY <1>1, <2>5, <3>1, <3>2, <3>4
  <2> QED BY <2>6, <2>7
<1> QED BY <1>2, <1>3, OnlyMarkingCounts

\* Nothing has been read or counted when the calls begin.
LEMMA BarredAtFirst == Init => BarredInv
BY DEF Init, AttemptInit, NewAttempt, BarredInv, BarredOK, LockIsOnRow, StoppedForGuessing,
       StoppedForMistakes, After

\* Nobody is verified who has said nothing.
LEMMA NothingProvesNothing ==
  ASSUME NEW v \in Attempts, attempt[v].supplied = <<>> PROVE Outcome(v) # "VERIFIED"
<1>1. DOMAIN attempt[v].supplied = {}
  OBVIOUS
<1>2. Confirmed(attempt[v].supplied, StoredFactors(attempt[v].contact)) = {}
  BY <1>1 DEF Confirmed
<1> QED BY <1>2 DEF Outcome, CheckFactors

\* Those answered before an attempt began stay as they were answered.
LEMMA AnsweredStay ==
  ASSUME DeskInv, [Next]_vars, NEW v \in Attempts, NEW S \in SUBSET Attempts,
         attempt'[v].after = S, \A w \in S : attempt[w].pc = "done"
  PROVE  /\ \A w \in attempt'[v].after : attempt'[w].pc = "done"
         /\ \A reply : After(v, reply)' =>
              \E w \in S : attempt[w].call = attempt'[v].call /\ attempt[w].reply = reply
<1>1. \A w \in S : attempt'[w] = attempt[w]
  BY DeskGoesOn DEF AttemptsKept
<1> QED BY <1>1 DEF After

\* What makes a call locked is on its row, unless a write was lost.
LEMMA LockGetsOnRow ==
  ASSUME DeskInv, BarredInv, [Next]_vars, NEW v \in Attempts, AttemptStep(v)
  PROVE  LockIsOnRow(attempt[v])'
<1>1. AttemptMoved(v) /\ AttemptGoesOn(v) /\ LockIsOnRow(attempt[v])
  BY AttemptStepMoves, AttemptStepGoesOn DEF DeskInv, AttemptsOK, BarredInv, BarredOK
<1>2. PICK c \in Calls : c = attempt[v].call /\ c = attempt'[v].call
  BY <1>1 DEF AttemptGoesOn, DeskInv, AttemptsOK, AttemptOK
<1>3. ASSUME StoppedForGuessing(attempt[v])', lost'[c]["offered"] = 0
      PROVE  IsEnumerating(offered'[c])
  <2>1. CASE attempt'[v].pc = "guess"
    <3>1. CountOffer(v) /\ IsEnumerating(attempt[v].read \cup Fingerprints(attempt[v].supplied))
      BY <1>1, <2>1 DEF AttemptMoved
    <3>2. offered'[c] = attempt[v].read \cup Fingerprints(attempt[v].supplied)
      BY <1>2, <3>1 DEF CountOffer, RecordFactorAttempts, DeskInv, CallerRowsTypeOK
    <3> QED BY <3>1, <3>2
  <2>2. CASE attempt'[v].reply = "GUESSING"
    <3>1. attempt[v].pc = "guess"
      BY <1>1, <2>2 DEF AttemptMoved
    <3>2. lost[c]["offered"] = 0 /\ (IsEnumerating(offered[c]) => IsEnumerating(offered'[c]))
      BY <1>3, OfferedStays
    <3> QED BY <1>1, <1>2, <3>1, <3>2 DEF LockIsOnRow, StoppedForGuessing
  <2> QED BY <1>3, <2>1, <2>2 DEF StoppedForGuessing
<1>4. ASSUME StoppedForMistakes(attempt[v])', lost'[c]["wrong"] = 0
      PROVE  WorstField(wrong'[c]) >= MaxAttempts
  <2>1. lost[c]["wrong"] = 0 /\ (WorstField(wrong[c]) >= MaxAttempts => WorstField(wrong'[c]) >= MaxAttempts)
    BY <1>4, WrongStays
  <2>2. CASE attempt'[v].pc = "attempt" /\ attempt'[v].count >= MaxAttempts
    <3>1. \/ ReadWrongValues(v) /\ attempt'[v].count = WorstField(wrong[c])
          \/ MarkWrongValues(v)
               /\ attempt'[v].count = WorstField(attempt[v].read \cup WrongPrints(v))
      BY <1>1, <1>2, <2>2 DEF AttemptMoved
    <3>2. MarkWrongValues(v) => wrong'[c] = attempt[v].read \cup WrongPrints(v)
      BY <1>2 DEF MarkWrongValues, RecordWrongValues, DeskInv, CallerRowsTypeOK
    <3> QED BY <2>1, <2>2, <3>1, <3>2
  <2>3. CASE attempt'[v].reply = "CALL_LOCKED"
    <3>1. attempt[v].pc = "attempt" /\ attempt[v].count >= MaxAttempts
      BY <1>1, <2>3 DEF AttemptMoved
    <3> QED BY <1>1, <1>2, <2>1, <3>1 DEF LockIsOnRow, StoppedForMistakes
  <2> QED BY <1>4, <2>2, <2>3 DEF StoppedForMistakes
<1> QED BY <1>2, <1>3, <1>4 DEF LockIsOnRow

\* An attempt that goes on stays barred.
LEMMA BarredGoOn ==
  ASSUME DeskInv, BarredInv, [Next]_vars, NEW v \in Attempts, AttemptStep(v)
  PROVE  /\ BarredByGuessing(attempt[v]) => BarredByGuessing(attempt'[v])
         /\ /\ BarredByMistakes(attempt[v])
            /\ WorstField(wrong[attempt[v].call]) >= MaxAttempts
            => BarredByMistakes(attempt'[v])
<1>1. AttemptMoved(v) /\ AttemptGoesOn(v)
  BY AttemptStepMoves, AttemptStepGoesOn DEF DeskInv, AttemptsOK
<1>2. /\ attempt[v].read \in SUBSET AllFingerprints
      /\ attempt[v].supplied \in {ParseFactors(offer) : offer \in Offers} \cup {<<>>}
      /\ MaxAttempts \in Nat
  BY VerifyIdentityAssumption DEF DeskInv, AttemptTypeOK, AttemptStates
<1>3. ASSUME BarredByGuessing(attempt[v]) PROVE BarredByGuessing(attempt'[v])
  <2>1. attempt[v].pc = "count" =>
          IsEnumerating(attempt[v].read \cup Fingerprints(attempt[v].supplied))
    <3>1. Fingerprints(attempt[v].supplied) \in SUBSET AllFingerprints
      BY <1>2, SuppliedIsSaid, FingerprintsAreKnown
    <3> QED BY <1>2, <1>3, <3>1, MoreIsNoBetter DEF BarredByGuessing
  <2>2. attempt'[v].supplied = attempt[v].supplied /\ attempt[v].pc \notin {"idle", "done"}
    BY <1>1 DEF AttemptGoesOn
  <2>3. attempt[v].supplied = <<>> => attempt'[v].pc # "admit"
    BY <1>1, NothingProvesNothing DEF AttemptGoesOn
  <2>4. attempt[v].supplied # <<>> => attempt[v].pc \in {"count", "guess"}
    BY <1>3, <2>2 DEF BarredByGuessing
  <2>5. attempt[v].pc # "admit" /\ attempt[v].reply # "VERIFIED"
    BY <1>3 DEF BarredByGuessing
  <2>6. attempt'[v].reply # "VERIFIED" /\ attempt'[v].pc # "count"
    BY <1>1, <2>5 DEF AttemptMoved
  <2>7. attempt[v].pc \in {"count", "guess"} => attempt'[v].pc \in {"guess", "done"}
    BY <1>1, <2>1 DEF AttemptMoved
  <2> QED BY <2>2, <2>3, <2>4, <2>6, <2>7 DEF BarredByGuessing
<1>4. ASSUME BarredByMistakes(attempt[v]), WorstField(wrong[attempt[v].call]) >= MaxAttempts
      PROVE  BarredByMistakes(attempt'[v])
  <2>1. attempt[v].pc = "mark" => WorstField(attempt[v].read \cup WrongPrints(v)) >= MaxAttempts
    <3>1. attempt[v].read \cup WrongPrints(v) \in SUBSET AllFingerprints
      BY <1>2, WrongPrintsAreKnown DEF DeskInv
    <3>2. /\ WorstField(attempt[v].read) \in Nat
          /\ WorstField(attempt[v].read \cup WrongPrints(v)) \in Nat
          /\ WorstField(attempt[v].read) <= WorstField(attempt[v].read \cup WrongPrints(v))
      BY <3>1, MoreIsNoBetter
    <3> QED BY <1>2, <1>4, <3>2 DEF BarredByMistakes
  <2>2. /\ attempt[v].pc = "attempt" => attempt[v].count >= MaxAttempts
        /\ attempt[v].pc \notin {"conflict", "admit"}
    BY <1>4 DEF BarredByMistakes
  <2> QED BY <1>1, <1>4, <2>1, <2>2 DEF AttemptMoved, BarredByMistakes
<1> QED BY <1>3, <1>4

\* Every step keeps every attempt so.
LEMMA BarredStay ==
  ASSUME DeskInv, BarredInv, [Next]_vars PROVE BarredInv'
<1> SUFFICES ASSUME NEW v \in Attempts PROVE BarredOK(v)'
  BY DEF BarredInv
<1>1. /\ DeskInv' /\ AttemptsKept
      /\ attempt[v].after \in SUBSET Attempts
      /\ \A w \in attempt[v].after : attempt[w].pc = "done"
      /\ LockIsOnRow(attempt[v])
  BY DeskGoesOn DEF DeskInv, AttemptTypeOK, AttemptStates, BarredInv, BarredOK
<1>2. ASSUME NEW c \in Calls, NEW w \in Attempts, attempt[w].call = c
      PROVE  /\ attempt[w].reply = "GUESSING" /\ lost'[c]["offered"] = 0 =>
                  /\ lost[c]["offered"] = 0
                  /\ IsEnumerating(offered[c]) /\ IsEnumerating(offered'[c])
             /\ attempt[w].reply = "CALL_LOCKED" /\ lost'[c]["wrong"] = 0 =>
                  /\ lost[c]["wrong"] = 0
                  /\ WorstField(wrong[c]) >= MaxAttempts /\ WorstField(wrong'[c]) >= MaxAttempts
  <2>1. LockIsOnRow(attempt[w])
    BY DEF BarredInv, BarredOK
  <2> QED BY <1>2, <2>1, OfferedStays, WrongStays DEF LockIsOnRow, StoppedForGuessing, StoppedForMistakes
<1>3. CASE attempt'[v] = attempt[v]
  <2>1. /\ \A w \in attempt'[v].after : attempt'[w].pc = "done"
        /\ \A reply : After(v, reply)' => After(v, reply)
    BY <1>1, <1>3, AnsweredStay DEF After
  <2>2. CASE attempt[v].pc = "idle"
    <3>1. attempt[v] = NewAttempt
      BY <2>2 DEF DeskInv, AttemptsOK, AttemptOK
    <3> QED
      BY <1>3, <2>1, <3>1
      DEF NewAttempt, BarredOK, LockIsOnRow, StoppedForGuessing, StoppedForMistakes, After
  <2>3. CASE attempt[v].pc # "idle"
    <3>1. PICK c \in Calls : c = attempt[v].call /\ c = attempt'[v].call
      BY <1>3, <2>3 DEF DeskInv, AttemptsOK, AttemptOK
    <3>2. LockIsOnRow(attempt[v])'
      BY <1>1, <1>3, <3>1, OfferedStays, WrongStays
      DEF LockIsOnRow, StoppedForGuessing, StoppedForMistakes
    <3>3. /\ lost'[c]["offered"] = 0 => lost[c]["offered"] = 0
          /\ lost'[c]["wrong"] = 0 => lost[c]["wrong"] = 0
      BY OfferedStays, WrongStays
    <3>4. BarredOK(v)
      BY DEF BarredInv
    <3>5. After(v, "GUESSING")' /\ lost'[c]["offered"] = 0 => BarredByGuessing(attempt[v])
      BY <2>1, <3>1, <3>3, <3>4 DEF BarredOK
    <3>6. After(v, "CALL_LOCKED")' /\ lost'[c]["wrong"] = 0 => BarredByMistakes(attempt[v])
      BY <2>1, <3>1, <3>3, <3>4 DEF BarredOK
    <3> QED BY <1>3, <2>1, <3>1, <3>2, <3>5, <3>6 DEF BarredOK
  <2> QED BY <2>2, <2>3
<1>4. ASSUME NEW c \in Calls, NEW offer \in Offers, BeginAttempt(v, c, offer)
      PROVE  BarredOK(v)'
  <2>1. PICK S \in SUBSET Attempts : S = {w \in Attempts : attempt[w].pc = "done"}
    OBVIOUS
  <2>2. /\ attempt'[v].call = c /\ attempt'[v].reply = "none" /\ attempt'[v].read = offered[c]
        /\ attempt'[v].after = S
        /\ IF attempt'[v].supplied = <<>> THEN attempt'[v].pc = "record" ELSE attempt'[v].pc = "count"
    BY <1>4, <2>1, AttemptBeginsFresh
  <2>3. /\ \A w \in attempt'[v].after : attempt'[w].pc = "done"
        /\ \A reply : After(v, reply)' => \E w \in S : attempt[w].call = c /\ attempt[w].reply = reply
    BY <2>1, <2>2, AnsweredStay
  <2>4. LockIsOnRow(attempt[v])'
    BY <2>2 DEF LockIsOnRow, StoppedForGuessing, StoppedForMistakes
  <2>5. After(v, "GUESSING")' /\ lost'[c]["offered"] = 0 => BarredByGuessing(attempt'[v])
    BY <1>2, <2>2, <2>3 DEF BarredByGuessing
  <2>6. BarredByMistakes(attempt'[v])
    BY <2>2 DEF BarredByMistakes
  <2> QED BY <2>2, <2>3, <2>4, <2>5, <2>6 DEF BarredOK
<1>5. CASE AttemptStep(v)
  <2>1. AttemptGoesOn(v)
    BY <1>5, AttemptStepGoesOn DEF DeskInv, AttemptsOK
  <2>2. PICK c \in Calls : c = attempt[v].call /\ c = attempt'[v].call
    BY <2>1 DEF AttemptGoesOn, DeskInv, AttemptsOK, AttemptOK
  <2>3. attempt'[v].after = attempt[v].after
    BY <2>1 DEF AttemptGoesOn
  <2>4. /\ \A w \in attempt'[v].after : attempt'[w].pc = "done"
        /\ \A reply : After(v, reply)' =>
             \E w \in attempt[v].after : attempt[w].call = c /\ attempt[w].reply = reply
    BY <1>1, <2>2, <2>3, AnsweredStay
  <2>5. LockIsOnRow(attempt[v])'
    BY <1>5, LockGetsOnRow
  <2>6. BarredOK(v)
    BY DEF BarredInv
  <2>7. After(v, "GUESSING")' /\ lost'[c]["offered"] = 0 => BarredByGuessing(attempt'[v])
    <3> SUFFICES ASSUME After(v, "GUESSING")', lost'[c]["offered"] = 0
                 PROVE  BarredByGuessing(attempt'[v])
      OBVIOUS
    <3>1. PICK w \in attempt[v].after : attempt[w].call = c /\ attempt[w].reply = "GUESSING"
      BY <2>4
    <3>2. lost[c]["offered"] = 0
      BY OfferedStays
    <3>3. BarredByGuessing(attempt[v])
      BY <2>2, <2>6, <3>1, <3>2 DEF BarredOK, After
    <3> QED BY <1>5, <3>3, BarredGoOn
  <2>8. After(v, "CALL_LOCKED")' /\ lost'[c]["wrong"] = 0 => BarredByMistakes(attempt'[v])
    <3> SUFFICES ASSUME After(v, "CALL_LOCKED")', lost'[c]["wrong"] = 0
                 PROVE  BarredByMistakes(attempt'[v])
      OBVIOUS
    <3>1. PICK w \in attempt[v].after : attempt[w].call = c /\ attempt[w].reply = "CALL_LOCKED"
      BY <2>4
    <3>2. w \in Attempts
      BY <1>1
    <3>3. lost[c]["wrong"] = 0 /\ WorstField(wrong[c]) >= MaxAttempts
      BY <1>2, <3>1, <3>2
    <3>4. BarredByMistakes(attempt[v])
      BY <2>2, <2>6, <3>1, <3>3 DEF BarredOK, After
    <3> QED BY <1>5, <2>2, <3>3, <3>4, BarredGoOn
  <2> QED BY <2>2, <2>4, <2>5, <2>7, <2>8 DEF BarredOK
<1> QED BY <1>3, <1>4, <1>5, ChangesAreSteps

\* So an attempt that begins after a lock gets nowhere.
LEMMA TheBarredStayBarred == Spec => []BarredInv
<1>1. DeskInv /\ BarredInv /\ [Next]_vars => BarredInv'
  BY BarredStay
<1> QED BY <1>1, BarredAtFirst, DeskIsTyped, PTL DEF Spec

\* While no count has been lost, a call that was told LOCKED for what it offered
\* is not verified by anything it tries afterwards (FR-006).
THEOREM LockedCallsStayLocked == Spec => []LockedCallStaysLocked
<1>1. BarredInv => LockedCallStaysLocked
  BY DEF BarredInv, BarredOK, BarredByGuessing, BarredByMistakes, After, LockedCallStaysLocked,
         BeganLocked, ToldLocked
<1> QED BY <1>1, TheBarredStayBarred, PTL

-----------------------------------------------------------------------------
(* Stopped for guessing.                                                   *)

\* A check that begins has read what was offered, if its detail can be checked.
LEMMA CheckBeginsFresh ==
  ASSUME DeskInv, NEW k \in Checks, NEW c \in Calls, NEW f \in Factors, NEW v \in Said[f],
         BeginCheck(k, c, f, v)
  PROVE  /\ check[k].pc = "idle"
         /\ check'[k].call = c /\ check'[k].said = Answer(f, v)
         /\ \/ /\ f \in Checkable /\ check'[k].pc = "count" /\ check'[k].reply = "none"
               /\ check'[k].read = offered[c]
            \/ f \notin Checkable /\ check'[k].pc = "done" /\ check'[k].reply = "VALIDATION"
         /\ \A j \in Checks \ {k} : check'[j] = check[j]
<1> DEFINE began == [NewCheck EXCEPT !.call = c, !.said = Answer(f, v)]
           counting == [began EXCEPT !.read = offered[c]]
           refusing == [began EXCEPT !.reply = "VALIDATION"]
<1>1. offered[c] \in SUBSET AllFingerprints
  BY DEF DeskInv, CallerRowsTypeOK
<1>2. Answer(f, v) \in UNION {{Answer(g, w) : w \in Said[g]} : g \in Factors}
  OBVIOUS
<1>3. /\ counting \in CheckStates /\ counting.call = c /\ counting.reply = "none"
      /\ counting.said = Answer(f, v) /\ counting.read = offered[c]
      /\ refusing \in CheckStates /\ refusing.call = c /\ refusing.reply = "VALIDATION"
      /\ refusing.said = Answer(f, v)
  <2> HIDE DEF Answer
  <2> QED BY <1>1, <1>2 DEF CheckStates, NewCheck, CheckPcs, CheckReplies
<1>4. /\ check[k].pc = "idle"
      /\ \/ f \in Checkable /\ Proceed(k, "count", counting)
         \/ f \notin Checkable /\ Proceed(k, "done", refusing)
  BY DEF BeginCheck
<1>5. "count" \in CheckPcs /\ "done" \in CheckPcs
  BY DEF CheckPcs
<1> HIDE DEF counting, refusing
<1>6. /\ \/ f \in Checkable /\ check'[k] = [counting EXCEPT !.pc = "count"]
         \/ f \notin Checkable /\ check'[k] = [refusing EXCEPT !.pc = "done"]
      /\ \A j \in Checks \ {k} : check'[j] = check[j]
  BY <1>3, <1>4, <1>5, ProceedMoves DEF DeskInv
<1> HIDE DEF Answer
<1> QED BY <1>3, <1>4, <1>6 DEF CheckStates

\* Where a step of a check leads.
CheckMoved(k) ==
  LET a == check[k]
      b == check'[k]
  IN  \/ b.pc = "done" /\ b.reply \in {"SERVICE_UNAVAILABLE", "AMBIGUOUS"}
      \/ /\ CountCheck(k) /\ a.pc = "count" /\ b.reply = "none"
         /\ IF IsEnumerating(a.read \cup Fingerprints(a.said)) THEN b.pc = "guess" ELSE b.pc = "resolve"
      \/ SuspectGuesser(k) /\ a.pc = "guess" /\ b.pc = "done" /\ b.reply = "LOCKED"
      \/ a.pc = "resolve" /\ b.pc = "remember" /\ b.reply = "none"
      \/ a.pc \in {"resolve", "remember"} /\ b.pc = "done" /\ b.reply \in {"MATCHED", "NOT_MATCHED"}

\* Each of the steps leads to one of these.
LEMMA CheckStepMoves ==
  ASSUME DeskInv, NEW k \in Checks, CheckStep(k)
  PROVE  CheckMoved(k)
<1>1. /\ check[k] \in CheckStates
      /\ check[k].pc # "done" => check[k].reply = "none"
  BY DEF DeskInv, CheckTypeOK, ChecksOK, CheckOK
<1>2. ASSUME NEW pc \in CheckPcs, NEW fields \in CheckStates, Proceed(k, pc, fields)
      PROVE  check'[k].pc = pc /\ check'[k].reply = fields.reply
  <2>1. check'[k] = [fields EXCEPT !.pc = pc]
    BY <1>2, ProceedMoves DEF DeskInv
  <2> QED BY <2>1 DEF CheckStates
<1>3. ASSUME NEW reply \in CheckReplies, NEW p \in Contacts \cup {Nobody}, AnswerCheck(k, reply, p)
      PROVE  check'[k].pc = "done" /\ check'[k].reply = reply
  <2> DEFINE answered == [check[k] EXCEPT !.read = {}, !.reply = reply, !.contact = p]
  <2>1. answered \in CheckStates /\ answered.reply = reply
    BY <1>1 DEF CheckStates
  <2>2. Proceed(k, "done", answered) /\ "done" \in CheckPcs
    BY <1>3 DEF AnswerCheck, CheckPcs
  <2> HIDE DEF answered
  <2> QED BY <1>2, <2>1, <2>2
<1>4. ASSUME NEW reply \in CheckReplies, NEW p \in Contacts \cup {Nobody}, Report(k, reply, p)
      PROVE  check'[k].pc = "done" /\ check'[k].reply \in {reply, "SERVICE_UNAVAILABLE"}
  <2>1. "SERVICE_UNAVAILABLE" \in CheckReplies BY DEF CheckReplies
  <2> QED BY <1>3, <1>4, <2>1 DEF Report
<1>5. /\ \A p : Compares(k, p) \in {"MATCHED", "NOT_MATCHED"}
      /\ {"AMBIGUOUS", "LOCKED", "SERVICE_UNAVAILABLE", "MATCHED", "NOT_MATCHED"} \subseteq CheckReplies
      /\ {"guess", "resolve", "remember"} \subseteq CheckPcs
  BY DEF Compares, CheckReplies, CheckPcs
<1>6. CASE CountCheck(k)
  <2> DEFINE fields == [check[k] EXCEPT !.read = {}]
             prints == Fingerprints(check[k].said)
  <2>1. check[k].pc = "count"
    BY <1>6 DEF CountCheck
  <2>2. fields \in CheckStates /\ fields.reply = "none"
    BY <1>1, <2>1 DEF CheckStates
  <2>3. \/ IsEnumerating(check[k].read \cup prints) /\ Proceed(k, "guess", fields)
        \/ Report(k, "AMBIGUOUS", Nobody)
        \/ ~IsEnumerating(check[k].read \cup prints) /\ Proceed(k, "resolve", fields)
    BY <1>6 DEF CountCheck
  <2>4. CASE Report(k, "AMBIGUOUS", Nobody)
    BY <1>4, <1>5, <2>4 DEF CheckMoved
  <2>5. CASE IsEnumerating(check[k].read \cup prints) /\ Proceed(k, "guess", fields)
    <3> HIDE DEF fields
    <3>1. check'[k].pc = "guess" /\ check'[k].reply = "none"
      BY <1>2, <1>5, <2>2, <2>5
    <3> QED BY <1>6, <2>1, <2>5, <3>1 DEF CheckMoved
  <2>6. CASE ~IsEnumerating(check[k].read \cup prints) /\ Proceed(k, "resolve", fields)
    <3> HIDE DEF fields
    <3>1. check'[k].pc = "resolve" /\ check'[k].reply = "none"
      BY <1>2, <1>5, <2>2, <2>6
    <3> QED BY <1>6, <2>1, <2>6, <3>1 DEF CheckMoved
  <2> QED BY <2>3, <2>4, <2>5, <2>6
<1>7. CASE SuspectGuesser(k)
  <2>1. check[k].pc = "guess" /\ Report(k, "LOCKED", Nobody)
    BY <1>7 DEF SuspectGuesser
  <2> QED BY <1>4, <1>5, <1>7, <2>1 DEF CheckMoved
<1>8. CASE ResolveOnce(k)
  <2> DEFINE f == Field(k)
             found == IF f \in Identifying THEN LookupContact(f, check[k].said[f]) ELSE Nobody
             resolving == [check[k] EXCEPT !.contact = found]
             known == resolved[check[k].call]
  <2>1. check[k].pc = "resolve" BY <1>8 DEF ResolveOnce
  <2>2. found \in Contacts \cup {Nobody} BY LookupFindsContacts
  <2>3. known \in Contacts \cup {Nobody}
    BY <2>1 DEF DeskInv, ChecksOK, CheckOK, CallerRowsTypeOK
  <2>4. Proceed(k, "remember", resolving) \/ AnswerCheck(k, Compares(k, known), known)
    BY <1>8 DEF ResolveOnce
  <2>5. resolving \in CheckStates /\ resolving.reply = "none"
    <3> HIDE DEF found
    <3> QED BY <1>1, <2>1, <2>2 DEF CheckStates
  <2> HIDE DEF resolving, found, known
  <2> QED BY <1>2, <1>3, <1>5, <2>1, <2>3, <2>4, <2>5 DEF CheckMoved
<1>9. CASE Remember(k)
  <2> DEFINE p == check[k].contact
  <2>1. check[k].pc = "remember" /\ Report(k, Compares(k, p), p)
    BY <1>9 DEF Remember
  <2>2. p \in Contacts \cup {Nobody}
    BY <1>1 DEF CheckStates
  <2> QED BY <1>4, <1>5, <2>1, <2>2 DEF CheckMoved
<1>10. CASE FailCheck(k)
  BY <1>3, <1>5, <1>10 DEF FailCheck, CheckMoved
<1> QED BY <1>6, <1>7, <1>8, <1>9, <1>10 DEF CheckStep

\* All of these have been offered on the call.
Shown(c, prints) == \A f, x : <<f, x>> \in prints => x \in Heard(c, f)

\* More values of one field have been offered than the allowance.
Guessed(c) == \E f \in Factors : Cardinality(Heard(c, f)) > MaxDistinctValues

\* Whatever an invocation has read was offered, and who is stopped has guessed.
AttemptGuessOK(v) ==
  /\ attempt[v].pc = "count" => Shown(attempt[v].call, attempt[v].read)
  /\ attempt[v].pc = "guess" \/ attempt[v].reply = "GUESSING" => Guessed(attempt[v].call)

CheckGuessOK(k) ==
  /\ check[k].pc = "idle" => check[k].said = <<>>
  /\ check[k].pc \notin {"idle", "done"} => DOMAIN check[k].said \subseteq Checkable
  /\ check[k].pc = "count" => Shown(check[k].call, check[k].read)
  /\ check[k].pc = "guess" \/ check[k].reply = "LOCKED" => Guessed(check[k].call)

GuessInv ==
  /\ \A c \in Calls : Shown(c, offered[c])
  /\ \A v \in Attempts : AttemptGuessOK(v)
  /\ \A k \in Checks : CheckGuessOK(k)

\* Finitely many values are offered for a field.
HeardFinite == \A c \in Calls, f \in Factors : IsFiniteSet(Heard(c, f))

\* An agent hears finitely many values for each field.
LEMMA HeardIsFinite == DeskInv => HeardFinite
<1> SUFFICES ASSUME DeskInv, NEW c \in Calls, NEW f \in Factors PROVE IsFiniteSet(Heard(c, f))
  BY DEF HeardFinite
<1>1. \A v \in Attempts : f \in DOMAIN attempt[v].supplied => attempt[v].supplied[f] \in Said[f]
  BY SuppliedIsSaid DEF DeskInv, AttemptTypeOK, AttemptStates
<1>2. ASSUME NEW k \in Checks, f \in DOMAIN check[k].said PROVE check[k].said[f] \in Said[f]
  <2>1. check[k].said \in {<<>>} \cup UNION {{Answer(g, w) : w \in Said[g]} : g \in Factors}
    BY DEF DeskInv, CheckTypeOK, CheckStates
  <2>2. check[k].said # <<>>
    BY <1>2
  <2>3. PICK g \in Factors : \E w \in Said[g] : check[k].said = Answer(g, w)
    BY <2>1, <2>2
  <2> QED BY <1>2, <2>3 DEF Answer
<1>3. Heard(c, f) \subseteq {Normalise(f, w) : w \in Said[f]}
  BY <1>1, <1>2 DEF Heard
<1> QED BY <1>3, FingerprintsAreFinite, FS_Subset

\* What has been offered stays offered.
LEMMA HeardStays ==
  ASSUME DeskInv, GuessInv, AttemptsKept, ChecksKept, NEW c, NEW f
  PROVE  Heard(c, f) \subseteq Heard(c, f)'
<1> SUFFICES ASSUME NEW x \in Heard(c, f) PROVE x \in Heard(c, f)'
  OBVIOUS
<1>1. ASSUME NEW v \in Attempts, attempt[v].call = c, f \in DOMAIN attempt[v].supplied,
             x = Normalise(f, attempt[v].supplied[f])
      PROVE  x \in Heard(c, f)'
  <2>1. attempt[v].pc # "idle"
    <3> SUFFICES ASSUME attempt[v].pc = "idle" PROVE FALSE
      OBVIOUS
    <3>1. attempt[v].supplied = <<>>
      BY DEF DeskInv, AttemptsOK, AttemptOK, NewAttempt
    <3>2. DOMAIN attempt[v].supplied = {}
      BY <3>1
    <3> QED BY <1>1, <3>2
  <2>2. attempt'[v].call = c /\ attempt'[v].supplied = attempt[v].supplied
    BY <1>1, <2>1 DEF AttemptsKept
  <2> QED BY <1>1, <2>2 DEF Heard
<1>2. ASSUME NEW k \in Checks, check[k].call = c, f \in DOMAIN check[k].said \cap Checkable,
             x = Normalise(f, check[k].said[f])
      PROVE  x \in Heard(c, f)'
  <2>1. check[k].pc # "idle"
    <3> SUFFICES ASSUME check[k].pc = "idle" PROVE FALSE
      OBVIOUS
    <3>1. check[k].said = <<>>
      BY DEF GuessInv, CheckGuessOK
    <3>2. DOMAIN check[k].said = {}
      BY <3>1
    <3> QED BY <1>2, <3>2
  <2>2. check'[k].call = c /\ check'[k].said = check[k].said
    BY <1>2, <2>1 DEF ChecksKept
  <2> QED BY <1>2, <2>2 DEF Heard
<1> QED BY <1>1, <1>2 DEF Heard

\* So does what shows that somebody has guessed.
LEMMA GuessedStays ==
  ASSUME DeskInv, DeskInv', GuessInv, AttemptsKept, ChecksKept, NEW c \in Calls, Guessed(c)
  PROVE  Guessed(c)'
<1>1. PICK f \in Factors : Cardinality(Heard(c, f)) > MaxDistinctValues
  BY DEF Guessed
<1>2. DeskInv' => HeardFinite'
  BY HeardIsFinite, PTL
<1>3. IsFiniteSet(Heard(c, f)) /\ IsFiniteSet(Heard(c, f)')
  BY <1>2, HeardIsFinite DEF HeardFinite
<1>4. Cardinality(Heard(c, f)) <= Cardinality(Heard(c, f)')
  BY <1>3, HeardStays, FS_Subset
<1>5. Cardinality(Heard(c, f)) \in Nat /\ Cardinality(Heard(c, f)') \in Nat
  BY <1>3, FS_CardinalityType
<1>6. Cardinality(Heard(c, f)') > MaxDistinctValues
  BY <1>1, <1>4, <1>5, FactorsAssumption
<1> QED BY <1>6 DEF Guessed

\* Fingerprints of what was offered that exceed the allowance show it.
LEMMA EnumeratingIsGuessed ==
  ASSUME DeskInv, NEW c \in Calls, NEW prints \in SUBSET AllFingerprints, Shown(c, prints),
         IsEnumerating(prints)
  PROVE  Guessed(c)
<1>1. IsFiniteSet(prints)
  BY FingerprintsAreFinite, FS_Subset
<1>2. PICK f \in Factors : CountFor(prints, f) > MaxDistinctValues
  BY DEF IsEnumerating
<1> DEFINE counted == {p \in prints : p[1] = f}
           value == [p \in counted |-> p[2]]
<1>3. ASSUME NEW p \in counted PROVE p = <<f, p[2]>>
  <2>1. PICK g \in Factors : \E w \in Said[g] : p = Fingerprint(g, w)
    BY DEF AllFingerprints
  <2> QED BY <2>1 DEF Fingerprint
<1>4. \A p \in counted : p[2] \in Heard(c, f)
  BY <1>3 DEF Shown
<1>5. value \in Injection(counted, Heard(c, f))
  <2>1. value \in [counted -> Heard(c, f)]
    BY <1>4
  <2>2. ASSUME NEW p \in counted, NEW q \in counted, value[p] = value[q] PROVE p = q
    <3>1. p[2] = q[2] BY <2>2
    <3> QED BY <1>3, <3>1
  <2> HIDE DEF value, counted
  <2> QED BY <2>1, <2>2 DEF Injection, IsInjective
<1>6. IsFiniteSet(Heard(c, f))
  BY HeardIsFinite DEF HeardFinite
<1>7. Cardinality(counted) <= Cardinality(Heard(c, f)) /\ IsFiniteSet(counted)
  <2> HIDE DEF value, counted
  <2> QED BY <1>5, <1>6, FS_Injection
<1>8. Cardinality(counted) \in Nat /\ Cardinality(Heard(c, f)) \in Nat
  BY <1>6, <1>7, FS_CardinalityType
<1>9. Cardinality(counted) > MaxDistinctValues
  BY <1>2 DEF CountFor
<1>10. Cardinality(Heard(c, f)) > MaxDistinctValues
  <2> HIDE DEF counted
  <2> QED BY <1>7, <1>8, <1>9, FactorsAssumption
<1> QED BY <1>10 DEF Guessed

\* What an invocation was given has been offered.
LEMMA GivenIsShown ==
  ASSUME DeskInv, GuessInv
  PROVE  /\ \A v \in Attempts : Shown(attempt[v].call, Fingerprints(attempt[v].supplied))
         /\ \A k \in Checks : check[k].pc = "count" =>
              Shown(check[k].call, Fingerprints(check[k].said))
<1>1. ASSUME NEW v \in Attempts, NEW f, NEW x, <<f, x>> \in Fingerprints(attempt[v].supplied)
      PROVE  x \in Heard(attempt[v].call, f)
  <2>1. f \in DOMAIN attempt[v].supplied /\ x = Normalise(f, attempt[v].supplied[f])
    BY <1>1 DEF Fingerprints, Fingerprint
  <2> QED BY <2>1 DEF Heard
<1>2. ASSUME NEW k \in Checks, check[k].pc = "count", NEW f, NEW x,
             <<f, x>> \in Fingerprints(check[k].said)
      PROVE  x \in Heard(check[k].call, f)
  <2>1. f \in DOMAIN check[k].said /\ x = Normalise(f, check[k].said[f])
    BY <1>2 DEF Fingerprints, Fingerprint
  <2>2. f \in Checkable
    BY <1>2, <2>1 DEF GuessInv, CheckGuessOK
  <2> QED BY <2>1, <2>2 DEF Heard
<1> QED BY <1>1, <1>2 DEF Shown

\* What has been offered stays so, on the row and in the hands of those who
\* count, and nobody is stopped for less than guessing.
LEMMA GuessingStaysEarned ==
  ASSUME DeskInv, GuessInv, [Next]_vars PROVE GuessInv'
<1>1. DeskInv' /\ AttemptsKept /\ ChecksKept
  BY DeskGoesOn
<1>2. ASSUME NEW c \in Calls, NEW prints, Shown(c, prints) PROVE Shown(c, prints)'
  BY <1>1, <1>2, HeardStays DEF Shown
<1>3. ASSUME NEW c \in Calls, Guessed(c) PROVE Guessed(c)'
  BY <1>1, <1>3, GuessedStays
<1>4. ASSUME NEW v \in Attempts, attempt[v].pc \notin {"idle", "done"}
      PROVE  /\ attempt[v].call \in Calls
             /\ attempt'[v].call = attempt[v].call
             /\ attempt[v].read \cup Fingerprints(attempt[v].supplied) \in SUBSET AllFingerprints
             /\ attempt[v].pc = "count" =>
                  Shown(attempt[v].call, attempt[v].read \cup Fingerprints(attempt[v].supplied))
  <2>1. attempt[v].call \in Calls /\ attempt'[v].call = attempt[v].call
    BY <1>1, <1>4 DEF AttemptsKept, DeskInv, AttemptsOK, AttemptOK
  <2>2. /\ attempt[v].read \in SUBSET AllFingerprints
        /\ attempt[v].supplied \in {ParseFactors(offer) : offer \in Offers} \cup {<<>>}
    BY DEF DeskInv, AttemptTypeOK, AttemptStates
  <2>3. Fingerprints(attempt[v].supplied) \in SUBSET AllFingerprints
    BY <2>2, SuppliedIsSaid, FingerprintsAreKnown
  <2>4. Shown(attempt[v].call, Fingerprints(attempt[v].supplied))
    BY GivenIsShown
  <2>5. attempt[v].pc = "count" => Shown(attempt[v].call, attempt[v].read)
    BY DEF GuessInv, AttemptGuessOK
  <2> QED BY <2>1, <2>2, <2>3, <2>4, <2>5 DEF Shown
<1>5. ASSUME NEW k \in Checks, check[k].pc \notin {"idle", "done"}
      PROVE  /\ check[k].call \in Calls
             /\ check'[k].call = check[k].call /\ check'[k].said = check[k].said
             /\ check[k].read \cup Fingerprints(check[k].said) \in SUBSET AllFingerprints
             /\ check[k].pc = "count" =>
                  Shown(check[k].call, check[k].read \cup Fingerprints(check[k].said))
  <2>1. /\ check[k].call \in Calls
        /\ check'[k].call = check[k].call /\ check'[k].said = check[k].said
    BY <1>1, <1>5 DEF ChecksKept, DeskInv, ChecksOK, CheckOK
  <2>2. /\ check[k].read \in SUBSET AllFingerprints
        /\ check[k].said \in {<<>>} \cup UNION {{Answer(g, w) : w \in Said[g]} : g \in Factors}
    BY DEF DeskInv, CheckTypeOK, CheckStates
  <2>3. DOMAIN check[k].said \subseteq Factors
        /\ \A g \in DOMAIN check[k].said : check[k].said[g] \in Said[g]
    <3>1. CASE check[k].said = <<>>
      BY <3>1
    <3>2. CASE check[k].said # <<>>
      <4>1. PICK g \in Factors : \E w \in Said[g] : check[k].said = Answer(g, w)
        BY <2>2, <3>2
      <4> QED BY <4>1 DEF Answer
    <3> QED BY <3>1, <3>2
  <2>4. Fingerprints(check[k].said) \in SUBSET AllFingerprints
    BY <2>3, FingerprintsAreKnown DEF Fingerprints
  <2>5. check[k].pc = "count" => Shown(check[k].call, Fingerprints(check[k].said))
    BY GivenIsShown
  <2>6. check[k].pc = "count" => Shown(check[k].call, check[k].read)
    BY DEF GuessInv, CheckGuessOK
  <2> QED BY <2>1, <2>2, <2>4, <2>5, <2>6 DEF Shown
<1>6. ASSUME NEW c \in Calls, NEW prints, prints = offered'[c] PROVE Shown(c, prints)
  <2>0. offered \in [Calls -> SUBSET AllFingerprints] /\ Shown(c, offered[c])
    BY DEF DeskInv, CallerRowsTypeOK, GuessInv
  <2>1. CASE offered' = offered
    BY <1>6, <2>0, <2>1
  <2>2. ASSUME NEW v \in Attempts, CountOffer(v) PROVE Shown(c, prints)
    <3>1. /\ attempt[v].pc = "count"
          /\ offered' = [offered EXCEPT ![attempt[v].call] =
               attempt[v].read \cup Fingerprints(attempt[v].supplied)]
      BY <2>2 DEF CountOffer, RecordFactorAttempts
    <3> QED BY <1>4, <1>6, <2>0, <3>1
  <2>3. ASSUME NEW k \in Checks, CountCheck(k) PROVE Shown(c, prints)
    <3>1. /\ check[k].pc = "count"
          /\ offered' = [offered EXCEPT ![check[k].call] =
               check[k].read \cup Fingerprints(check[k].said)]
      BY <2>3 DEF CountCheck, RecordFactorAttempts
    <3> QED BY <1>5, <1>6, <2>0, <3>1
  <2> QED BY <2>1, <2>2, <2>3, OnlyCountingWrites
<1>7. \A c \in Calls : Shown(c, offered[c])'
  <2> SUFFICES ASSUME NEW c \in Calls PROVE Shown(c, offered[c])'
    OBVIOUS
  <2>1. PICK prints : prints = offered'[c]
    OBVIOUS
  <2>2. Shown(c, prints)'
    BY <1>2, <1>6, <2>1
  <2> QED BY <2>1, <2>2 DEF Shown
<1>8. ASSUME NEW v \in Attempts PROVE AttemptGuessOK(v)'
  <2>1. CASE attempt'[v] = attempt[v]
    <3>1. AttemptGuessOK(v) /\ (attempt[v].pc # "idle" => attempt[v].call \in Calls)
          /\ (attempt[v].pc = "idle" => attempt[v].reply = "none")
      BY DEF GuessInv, DeskInv, AttemptsOK, AttemptOK
    <3>2. attempt[v].pc = "count" => Shown(attempt[v].call, attempt[v].read)'
      BY <1>2, <2>1, <3>1 DEF AttemptGuessOK, Shown
    <3>3. attempt[v].pc = "guess" \/ attempt[v].reply = "GUESSING" => Guessed(attempt[v].call)'
      BY <1>3, <2>1, <3>1 DEF AttemptGuessOK, Guessed
    <3> QED BY <2>1, <3>2, <3>3 DEF AttemptGuessOK
  <2>2. ASSUME NEW c \in Calls, NEW offer \in Offers, BeginAttempt(v, c, offer)
        PROVE  AttemptGuessOK(v)'
    <3>1. /\ attempt'[v].call = c /\ attempt'[v].reply = "none" /\ attempt'[v].read = offered[c]
          /\ attempt'[v].pc \in {"record", "count"}
      BY <2>2, AttemptBeginsFresh
    <3>2. PICK prints : prints = offered[c]
      OBVIOUS
    <3>3. Shown(c, prints)'
      BY <1>2, <3>2 DEF GuessInv
    <3>4. Shown(attempt[v].call, attempt[v].read)'
      BY <3>1, <3>2, <3>3 DEF Shown
    <3> QED BY <3>1, <3>4 DEF AttemptGuessOK
  <2>3. ASSUME AttemptStep(v) PROVE AttemptGuessOK(v)'
    <3>1. attempt[v].pc \notin {"idle", "done"} /\ attempt'[v].pc # "idle"
      BY <2>3, AttemptStepGoesOn DEF AttemptGoesOn, DeskInv, AttemptsOK
    <3>2. PICK c \in Calls : c = attempt[v].call /\ c = attempt'[v].call
      BY <1>4, <3>1
    <3>3. AttemptMoved(v)
      BY <2>3, AttemptStepMoves
    <3>4. attempt'[v].pc # "count"
      BY <3>1, <3>3 DEF AttemptMoved
    <3>5. ASSUME attempt'[v].pc = "guess" \/ attempt'[v].reply = "GUESSING" PROVE Guessed(c)
      <4>1. \/ /\ attempt[v].pc = "count"
               /\ IsEnumerating(attempt[v].read \cup Fingerprints(attempt[v].supplied))
            \/ attempt[v].pc = "guess"
        BY <3>3, <3>5 DEF AttemptMoved
      <4> QED BY <1>4, <3>1, <3>2, <4>1, EnumeratingIsGuessed DEF GuessInv, AttemptGuessOK
    <3>6. attempt'[v].pc = "guess" \/ attempt'[v].reply = "GUESSING" => Guessed(c)'
      BY <1>3, <3>5
    <3> QED BY <3>2, <3>4, <3>6 DEF AttemptGuessOK, Guessed
  <2> QED BY <2>1, <2>2, <2>3, ChangesAreSteps
<1>9. ASSUME NEW k \in Checks PROVE CheckGuessOK(k)'
  <2>1. CASE check'[k] = check[k]
    <3>1. CheckGuessOK(k) /\ (check[k].pc # "idle" => check[k].call \in Calls)
          /\ (check[k].pc = "idle" => check[k].reply = "none")
      BY DEF GuessInv, DeskInv, ChecksOK, CheckOK
    <3>2. check[k].pc = "count" => Shown(check[k].call, check[k].read)'
      BY <1>2, <2>1, <3>1 DEF CheckGuessOK, Shown
    <3>3. check[k].pc = "guess" \/ check[k].reply = "LOCKED" => Guessed(check[k].call)'
      BY <1>3, <2>1, <3>1 DEF CheckGuessOK, Guessed
    <3> QED BY <2>1, <3>1, <3>2, <3>3 DEF CheckGuessOK
  <2>2. ASSUME NEW c \in Calls, NEW f \in Factors, NEW w \in Said[f], BeginCheck(k, c, f, w)
        PROVE  CheckGuessOK(k)'
    <3>1. /\ check'[k].call = c /\ check'[k].said = Answer(f, w)
          /\ \/ /\ f \in Checkable /\ check'[k].pc = "count" /\ check'[k].reply = "none"
                /\ check'[k].read = offered[c]
             \/ check'[k].pc = "done" /\ check'[k].reply = "VALIDATION"
      BY <2>2, CheckBeginsFresh
    <3>2. PICK prints : prints = offered[c]
      OBVIOUS
    <3>3. Shown(c, prints)'
      BY <1>2, <3>2 DEF GuessInv
    <3>4. check'[k].pc = "count" => Shown(check[k].call, check[k].read)'
      BY <3>1, <3>2, <3>3 DEF Shown
    <3>5. check'[k].pc # "done" => DOMAIN check'[k].said \subseteq Checkable
      BY <3>1 DEF Answer
    <3> QED BY <3>1, <3>4, <3>5 DEF CheckGuessOK
  <2>3. ASSUME CheckStep(k) PROVE CheckGuessOK(k)'
    <3>1. check[k].pc \notin {"idle", "done"} /\ check'[k].pc # "idle"
      BY <2>3, CheckStepGoesOn DEF CheckGoesOn, DeskInv, ChecksOK
    <3>2. PICK c \in Calls : c = check[k].call /\ c = check'[k].call
      BY <1>5, <3>1
    <3>3. CheckMoved(k)
      BY <2>3, CheckStepMoves
    <3>4. check'[k].pc # "count" /\ DOMAIN check'[k].said \subseteq Checkable
      BY <1>5, <3>1, <3>3 DEF CheckMoved, GuessInv, CheckGuessOK
    <3>5. ASSUME check'[k].pc = "guess" \/ check'[k].reply = "LOCKED" PROVE Guessed(c)
      <4>1. \/ /\ check[k].pc = "count"
               /\ IsEnumerating(check[k].read \cup Fingerprints(check[k].said))
            \/ check[k].pc = "guess"
        BY <3>3, <3>5 DEF CheckMoved
      <4> QED BY <1>5, <3>1, <3>2, <4>1, EnumeratingIsGuessed DEF GuessInv, CheckGuessOK
    <3>6. check'[k].pc = "guess" \/ check'[k].reply = "LOCKED" => Guessed(c)'
      BY <1>3, <3>5
    <3> QED BY <3>1, <3>2, <3>4, <3>6 DEF CheckGuessOK, Guessed
  <2> QED BY <2>1, <2>2, <2>3, CheckChangesAreSteps
<1> QED BY <1>7, <1>8, <1>9 DEF GuessInv

\* Nothing has been offered when the calls begin.
LEMMA GuessingStarts == Init => GuessInv
<1> SUFFICES ASSUME Init PROVE GuessInv
  OBVIOUS
<1>1. \A c \in Calls : Shown(c, offered[c])
  BY DEF Init, CallerRowsInit, Shown
<1>2. \A v \in Attempts : attempt[v].pc = "idle" /\ attempt[v].reply = "none"
  BY DEF Init, AttemptInit, NewAttempt
<1>3. \A k \in Checks : check[k].pc = "idle" /\ check[k].reply = "none" /\ check[k].said = <<>>
  BY DEF Init, CheckInit, NewCheck
<1> QED BY <1>1, <1>2, <1>3 DEF GuessInv, AttemptGuessOK, CheckGuessOK

\* What an attempt or a check counts against a call was always offered on it.
LEMMA GuessesAreOffered == Spec => []GuessInv
<1>1. DeskInv /\ GuessInv /\ [Next]_vars => GuessInv'
  BY GuessingStaysEarned
<1> QED BY <1>1, GuessingStarts, DeskIsTyped, PTL DEF Spec

\* Nobody is stopped for guessing who has not offered more values of one field
\* than the allowance (FR-006a), however invocations of the two endpoints
\* overlap: a write that is lost can only make the desk forget (guessing.py).
THEOREM StoppedHaveGuessed == Spec => []GuessingIsEarned
<1>1. DeskInv /\ GuessInv => GuessingIsEarned
  <2> SUFFICES ASSUME DeskInv, GuessInv, NEW c \in Calls,
                      \/ \E v \in Attempts : attempt[v].call = c /\ attempt[v].reply = "GUESSING"
                      \/ \E k \in Checks : check[k].call = c /\ check[k].reply = "LOCKED"
               PROVE  Guessed(c)
    BY DEF GuessingIsEarned, Guessed
  <2> QED BY DEF GuessInv, AttemptGuessOK, CheckGuessOK
<1> QED BY <1>1, GuessesAreOffered, DeskIsTyped, PTL

-----------------------------------------------------------------------------
(* The promise.                                                            *)

\* The promise counts as the desk does.
LEMMA PromiseCounts == \A S : Gate!Cardinality(S) = Cardinality(S)
BY DEF Gate!Cardinality, Cardinality

\* What an attempt has offered, once it has begun, it goes on having offered.
LEMMA OfferStays ==
  ASSUME DeskInv, BarredInv, AttemptsKept, NEW v \in Attempts, attempt[v].pc # "idle"
  PROVE  OfferOf(v)' = OfferOf(v)
<1>1. /\ attempt'[v].call = attempt[v].call /\ attempt'[v].supplied = attempt[v].supplied
      /\ attempt'[v].contact = attempt[v].contact /\ attempt'[v].after = attempt[v].after
  BY DEF AttemptsKept
<1>2. \A w \in attempt[v].after : attempt'[w] = attempt[w]
  BY DEF AttemptsKept, BarredInv, BarredOK, DeskInv, AttemptTypeOK, AttemptStates
<1>3. BeganLocked(v)' = BeganLocked(v)
  BY <1>1, <1>2 DEF BeganLocked, ToldLocked
<1> HIDE DEF BeganLocked
<1> QED BY <1>1, <1>3 DEF OfferOf

\* A call has made the same offers while none of its attempts begins.
LEMMA OffersStay ==
  ASSUME DeskInv, DeskInv', BarredInv, AttemptsKept, NEW c \in Calls,
         \A v \in Attempts : attempt[v].pc = "idle" /\ attempt'[v].pc # "idle" => attempt'[v].call # c
  PROVE  OffersMade'[c] = OffersMade[c]
<1> DEFINE made == {v \in Begun(attempt) : attempt[v].call = c}
           making == {v \in Begun(attempt') : attempt'[v].call = c}
<1>1. DOMAIN attempt = Attempts /\ DOMAIN attempt' = Attempts
  BY DEF DeskInv, AttemptTypeOK
<1>2. making = made
  BY <1>1 DEF AttemptsKept, Begun
<1>3. ASSUME NEW v \in made PROVE OfferOf(v)' = OfferOf(v)
  BY <1>1, OfferStays DEF Begun
<1>4. OffersMade[c] = {OfferOf(v) : v \in made} /\ OffersMade'[c] = {OfferOf(v)' : v \in making}
  BY Zenon DEF OffersMade
<1> HIDE DEF made, making
<1> QED BY <1>2, <1>3, <1>4

\* Everybody who has been told LOCKED has been answered.
LEMMA TurnedAwayAreAnswered ==
  ASSUME DeskInv, NEW v \in Attempts
  PROVE  ToldLocked(v) => attempt[v].pc = "done"
BY DEF DeskInv, AttemptsOK, AttemptOK, ToldLocked

\* The answers that say of what was supplied whether it is right.
Judging(reply) == reply \in {"VERIFIED", "PARTIALLY_VERIFIED", "FAILED"}

\* What the answer to an attempt adds to what its call has been told.
LEMMA ToldByAttempt ==
  ASSUME DeskInv, NEW v \in Attempts, AttemptGoesOn(v), check' = check
  PROVE  /\ Judging(attempt'[v].reply) => Gate!Judge(attempt[v].call, attempt[v].supplied)
         /\ ~Judging(attempt'[v].reply) => ValuesTold' = ValuesTold
<1>1. PICK c, supplied, reply :
        /\ c \in Calls
        /\ c = attempt[v].call /\ c = attempt'[v].call
        /\ supplied = attempt[v].supplied /\ supplied = attempt'[v].supplied
        /\ reply = attempt'[v].reply
  BY DEF AttemptGoesOn, DeskInv, AttemptsOK, AttemptOK
<1> c \in Calls
  BY <1>1
<1>2. attempt[v].reply = "none" /\ \A w \in Attempts \ {v} : attempt'[w] = attempt[w]
  BY DEF AttemptGoesOn, DeskInv, AttemptsOK, AttemptOK
<1>3. ASSUME NEW d \in Calls, NEW f \in Factors
      PROVE  Told(d, f)' = IF Judging(reply) /\ d = c THEN Gate!With(Told(d, f), f, supplied)
                           ELSE Told(d, f)
  <2>1. ASSUME NEW x
        PROVE  x \in Told(d, f)' <=>
                 \/ x \in Told(d, f)
                 \/ Judging(reply) /\ d = c /\ f \in DOMAIN supplied /\ x = Normalise(f, supplied[f])
    BY <1>1, <1>2 DEF Told, Judging
  <2> QED BY <2>1 DEF Gate!With
<1> HIDE DEF Judging
<1>4. ASSUME Judging(reply) PROVE Gate!Judge(c, supplied)
  BY <1>3, <1>4, Zenon DEF ValuesTold, Gate!Judge
<1>5. ASSUME ~Judging(reply) PROVE ValuesTold' = ValuesTold
  BY <1>3, <1>5 DEF ValuesTold
<1> QED BY <1>1, <1>4, <1>5

\* Who is turned away by it.
LEMMA TurnedAwayByAttempt ==
  ASSUME DeskInv, NEW v \in Attempts, AttemptGoesOn(v)
  PROVE  /\ ToldLocked(v)' => Gate!TurnAway(attempt[v].call)
         /\ ~ToldLocked(v)' => TurnedAway' = TurnedAway
<1>1. PICK c \in Calls : c = attempt[v].call /\ c = attempt'[v].call
  BY DEF AttemptGoesOn, DeskInv, AttemptsOK, AttemptOK
<1>2. ~ToldLocked(v) /\ \A w \in Attempts \ {v} : attempt'[w] = attempt[w]
  BY DEF AttemptGoesOn, DeskInv, AttemptsOK, AttemptOK, ToldLocked
<1>3. ASSUME NEW d \in Calls
      PROVE  d \in TurnedAway' <=> d \in TurnedAway \/ (d = c /\ ToldLocked(v)')
  BY <1>1, <1>2 DEF TurnedAway, ToldLocked
<1>4. TurnedAway \subseteq Calls /\ TurnedAway' \subseteq Calls
  BY DEF TurnedAway
<1> HIDE DEF ToldLocked
<1>5. ASSUME ToldLocked(v)' PROVE Gate!TurnAway(c)
  BY <1>3, <1>4, <1>5 DEF Gate!TurnAway
<1>6. ASSUME ~ToldLocked(v)' PROVE TurnedAway' = TurnedAway
  BY <1>3, <1>4, <1>6
<1> QED BY <1>1, <1>5, <1>6

\* An attempt that goes on offers nothing more.
LEMMA NothingOfferedByAttempt ==
  ASSUME DeskInv, DeskInv', BarredInv, AttemptsKept, NEW v \in Attempts, AttemptGoesOn(v),
         check' = check
  PROVE  OffersMade' = OffersMade /\ ValuesHeard' = ValuesHeard
<1>1. \A w \in Attempts : attempt[w].pc = "idle" => attempt'[w].pc = "idle"
  BY DEF AttemptGoesOn
<1>2. ASSUME NEW c \in Calls PROVE OffersMade'[c] = OffersMade[c]
  BY <1>1, OffersStay
<1>3. OffersMade' = OffersMade
  <2> DEFINE made == OffersMade
  <2>1. DOMAIN made = Calls /\ DOMAIN made' = Calls
    BY DEF OffersMade
  <2>2. made = [c \in Calls |-> made[c]] /\ made' = [c \in Calls |-> made'[c]]
    BY DEF OffersMade
  <2> HIDE DEF made
  <2> QED BY <1>2, <2>2 DEF made
<1>4. ASSUME NEW c \in Calls, NEW f \in Factors PROVE Heard(c, f)' = Heard(c, f)
  <2>1. \A w \in Attempts : attempt'[w].call = attempt[w].call /\ attempt'[w].supplied = attempt[w].supplied
    BY DEF AttemptGoesOn
  <2>2. ASSUME NEW x PROVE x \in Heard(c, f)' <=> x \in Heard(c, f)
    BY <2>1 DEF Heard
  <2> QED BY <2>2
<1>5. ValuesHeard' = ValuesHeard
  BY <1>4 DEF ValuesHeard
<1> QED BY <1>3, <1>5

\* Nobody makes an offer or is turned away while no attempt moves.
LEMMA AttemptsRest ==
  ASSUME attempt' = attempt PROVE OffersMade' = OffersMade /\ TurnedAway' = TurnedAway
<1>1. \A v \in Attempts : OfferOf(v)' = OfferOf(v)
  BY DEF OfferOf, BeganLocked, ToldLocked
<1>2. TurnedAway' = TurnedAway
  BY DEF TurnedAway, ToldLocked
<1>3. OffersMade' = OffersMade
  BY DEF OffersMade, Begun, OfferOf, BeganLocked, ToldLocked
<1> QED BY <1>2, <1>3

\* The answers of the other endpoint that say whether something is right.
Comparing(reply) == reply \in {"MATCHED", "NOT_MATCHED"}

\* What the answer to a check adds to what its call has been told.
LEMMA ToldByCheck ==
  ASSUME DeskInv, NEW k \in Checks, CheckGoesOn(k), attempt' = attempt
  PROVE  /\ Comparing(check'[k].reply) => Gate!Judge(check[k].call, check[k].said)
         /\ ~Comparing(check'[k].reply) => ValuesTold' = ValuesTold
         /\ ValuesHeard' = ValuesHeard
<1>1. PICK c, said, reply :
        /\ c \in Calls
        /\ c = check[k].call /\ c = check'[k].call
        /\ said = check[k].said /\ said = check'[k].said
        /\ reply = check'[k].reply
  BY DEF CheckGoesOn, DeskInv, ChecksOK, CheckOK
<1> c \in Calls
  BY <1>1
<1>2. check[k].reply = "none" /\ \A j \in Checks \ {k} : check'[j] = check[j]
  BY DEF CheckGoesOn, DeskInv, ChecksOK, CheckOK
<1>3. ASSUME NEW d \in Calls, NEW f \in Factors
      PROVE  /\ Told(d, f)' = IF Comparing(reply) /\ d = c THEN Gate!With(Told(d, f), f, said)
                              ELSE Told(d, f)
             /\ Heard(d, f)' = Heard(d, f)
  <2>1. ASSUME NEW x
        PROVE  x \in Told(d, f)' <=>
                 \/ x \in Told(d, f)
                 \/ Comparing(reply) /\ d = c /\ f \in DOMAIN said /\ x = Normalise(f, said[f])
    BY <1>1, <1>2 DEF Told, Comparing
  <2>2. \A j \in Checks : check'[j].call = check[j].call /\ check'[j].said = check[j].said
    BY <1>1, <1>2
  <2>3. ASSUME NEW x PROVE x \in Heard(d, f)' <=> x \in Heard(d, f)
    BY <2>2 DEF Heard
  <2> QED BY <2>1, <2>3 DEF Gate!With
<1> HIDE DEF Comparing
<1>4. ASSUME Comparing(reply) PROVE Gate!Judge(c, said)
  BY <1>3, <1>4, Zenon DEF ValuesTold, Gate!Judge
<1>5. ASSUME ~Comparing(reply) PROVE ValuesTold' = ValuesTold
  BY <1>3, <1>5 DEF ValuesTold
<1>6. ValuesHeard' = ValuesHeard
  BY <1>3 DEF ValuesHeard
<1> QED BY <1>1, <1>4, <1>5, <1>6

\* What holds of the desk that the promise relies on.
GateInv == DeskInv /\ LockInv /\ BarredInv /\ GuessInv /\ AllowanceHolds

\* What a call is told is within the allowance, if nothing is lost in telling it.
LEMMA TellingIsAllowed ==
  ASSUME DeskInv, AllowanceHolds', NEW c \in Calls, CountsLost' = CountsLost
  PROVE  Gate!WithinAllowance(c)
<1>1. lost'[c]["offered"] = lost[c]["offered"]
  <2>1. CountsLost'[c] = CountsLost[c]
    OBVIOUS
  <2>2. CountsLost'[c]["offered"] = lost'[c]["offered"] /\ CountsLost[c]["offered"] = lost[c]["offered"]
    BY DEF CountsLost
  <2> QED BY <2>1, <2>2
<1>2. ASSUME NEW f \in Factors
      PROVE  Cardinality(ValuesTold'[c][f]) <= MaxDistinctValues * (1 + CountsLost[c]["offered"])
  <2>1. ValuesTold'[c][f] = Told(c, f)' /\ CountsLost[c]["offered"] = lost[c]["offered"]
    BY DEF ValuesTold, CountsLost
  <2>2. Cardinality(Told(c, f)') <= MaxDistinctValues * (1 + lost'[c]["offered"])
    BY DEF AllowanceHolds
  <2> QED BY <1>1, <2>1, <2>2
<1>3. Gate!WithinAllowance(c) <=>
        \A f \in Factors : Gate!Cardinality(ValuesTold'[c][f])
                             <= MaxDistinctValues * (1 + CountsLost[c]["offered"])
  BY DEF Gate!WithinAllowance
<1> HIDE DEF ValuesTold, CountsLost
<1> QED BY <1>2, <1>3, PromiseCounts

\* Who has guessed, or made too many mistakes, has done so as the promise counts.
LEMMA StoppedAsPromised ==
  ASSUME NEW c \in Calls
  PROVE  /\ Guessed(c) => Gate!Guessing(c)
         /\ DeskInv /\ Exhausted(c) => Gate!Mistaken(c)
<1>1. ASSUME Guessed(c) PROVE Gate!Guessing(c)
  <2>1. PICK f \in Factors : Cardinality(Heard(c, f)) > MaxDistinctValues
    BY <1>1 DEF Guessed
  <2>2. ValuesHeard[c][f] = Heard(c, f)
    BY DEF ValuesHeard
  <2>3. Gate!Cardinality(ValuesHeard[c][f]) > MaxDistinctValues
    BY <2>1, <2>2, PromiseCounts
  <2> QED BY <2>3 DEF Gate!Guessing
<1>2. ASSUME DeskInv, Exhausted(c) PROVE Gate!Mistaken(c)
  <2>1. PICK f \in Factors : Cardinality(Mistakes(c, f)) >= MaxAttempts
    BY <1>2 DEF Exhausted
  <2>2. Gate!Wrong(c, f) = Mistakes(c, f)
    <3>1. \A v \in Attempts : attempt[v].pc = "idle" => attempt[v].supplied = <<>>
      BY <1>2 DEF DeskInv, AttemptsOK, AttemptOK, NewAttempt
    <3>2. \A v \in Attempts : f \in DOMAIN attempt[v].supplied => v \in Begun(attempt)
      BY <1>2, <3>1 DEF Begun, DeskInv, AttemptTypeOK
    <3>3. Begun(attempt) \subseteq Attempts
      BY <1>2 DEF Begun, DeskInv, AttemptTypeOK
    <3>4. ASSUME NEW v, NEW w
          PROVE  OnRecord(f, w, IF attempt[v].contact \in Contacts THEN attempt[v].contact ELSE Nobody)
                   <=> OnRecord(f, w, attempt[v].contact)
      BY CallerRowsAssumption DEF OnRecord
    <3>5. ASSUME NEW x PROVE x \in Gate!Wrong(c, f) <=> x \in Mistakes(c, f)
      <4>1. x \in Gate!Wrong(c, f) <=>
              \E o \in OffersMade[c] : /\ f \in DOMAIN o.answers
                                       /\ ~OnRecord(f, o.answers[f], o.about)
                                       /\ x = Normalise(f, o.answers[f])
        BY DEF Gate!Wrong
      <4>2. OffersMade[c] = {OfferOf(v) : v \in {v \in Begun(attempt) : attempt[v].call = c}}
        BY DEF OffersMade
      <4>3. x \in Gate!Wrong(c, f) <=>
              \E v \in Begun(attempt) : /\ attempt[v].call = c
                                        /\ f \in DOMAIN attempt[v].supplied
                                        /\ ~OnRecord(f, attempt[v].supplied[f], attempt[v].contact)
                                        /\ x = Normalise(f, attempt[v].supplied[f])
        <5>1. \A v : /\ OfferOf(v).answers = attempt[v].supplied
                      /\ OfferOf(v).about = IF attempt[v].contact \in Contacts THEN attempt[v].contact
                                             ELSE Nobody
          BY DEF OfferOf
        <5> HIDE DEF OfferOf, Begun
        <5> QED BY <3>4, <4>1, <4>2, <5>1
      <4> HIDE DEF Begun
      <4> QED BY <3>2, <3>3, <4>3 DEF Mistakes
    <3> QED BY <3>5
  <2>3. Gate!Cardinality(Gate!Wrong(c, f)) >= MaxAttempts
    BY <2>1, <2>2, PromiseCounts
  <2> QED BY <2>3 DEF Gate!Mistaken
<1> QED BY <1>1, <1>2

\* What an answer about nothing tells is nothing.
LEMMA NothingIsTold ==
  ASSUME NEW c \in Calls, Gate!Judge(c, <<>>) PROVE ValuesTold' = ValuesTold
<1>1. ASSUME NEW S, NEW d PROVE Gate!With(S, d, <<>>) = S
  BY DEF Gate!With
<1>2. ValuesTold' = [ValuesTold EXCEPT ![c] = [d \in Factors |-> Gate!With(ValuesTold[c][d], d, <<>>)]]
  BY DEF Gate!Judge
<1>3. \A d \in Factors : Gate!With(ValuesTold[c][d], d, <<>>) = ValuesTold[c][d]
  BY <1>1
<1>4. ValuesTold = [b \in Calls |-> [d \in Factors |-> ValuesTold[b][d]]]
  BY DEF ValuesTold
<1> HIDE DEF ValuesTold
<1>5. [d \in Factors |-> Gate!With(ValuesTold[c][d], d, <<>>)] = ValuesTold[c]
  <2>1. [d \in Factors |-> Gate!With(ValuesTold[c][d], d, <<>>)] = [d \in Factors |-> ValuesTold[c][d]]
    BY <1>3
  <2>2. ValuesTold[c] = [d \in Factors |-> ValuesTold[c][d]]
    BY <1>4
  <2> QED BY <2>1, <2>2
<1> QED BY <1>2, <1>4, <1>5

\* What is seen of the desk, but for what it says.
RowsAsSeen == <<LetInAs, FreeAt, clock, CountsLost>>

\* A step of an attempt that only says something tells a caller what they may be
\* told, or turns away one who has earned it.
LEMMA SayingIsPromised ==
  ASSUME GateInv, DeskInv', AllowanceHolds', AttemptsKept, NEW v \in Attempts, AttemptStep(v),
         check' = check, RowsAsSeen' = RowsAsSeen
  PROVE  [Gate!Next]_Gate!promiseVars
<1>1. AttemptGoesOn(v) /\ AttemptMoved(v)
  BY AttemptStepGoesOn, AttemptStepMoves DEF GateInv, DeskInv, AttemptsOK
<1>2. OffersMade' = OffersMade /\ ValuesHeard' = ValuesHeard
  BY <1>1, NothingOfferedByAttempt DEF GateInv
<1>3. PICK c, supplied : c \in Calls /\ c = attempt[v].call /\ supplied = attempt[v].supplied
  BY <1>1 DEF AttemptGoesOn, GateInv, DeskInv, AttemptsOK, AttemptOK
<1> c \in Calls
  BY <1>3
<1>4. /\ Judging(attempt'[v].reply) => Gate!Judge(c, supplied)
      /\ ~Judging(attempt'[v].reply) => ValuesTold' = ValuesTold
  BY <1>1, <1>3, ToldByAttempt DEF GateInv
<1>5. /\ ToldLocked(v)' => Gate!TurnAway(c)
      /\ ~ToldLocked(v)' => TurnedAway' = TurnedAway
  BY <1>1, <1>3, TurnedAwayByAttempt DEF GateInv
<1>6. LetInAs' = LetInAs /\ FreeAt' = FreeAt /\ clock' = clock /\ CountsLost' = CountsLost
  BY DEF RowsAsSeen
<1>7. CASE ToldLocked(v)'
  <2>1. Gate!TurnAway(c) /\ ValuesTold' = ValuesTold
    BY <1>4, <1>5, <1>7 DEF ToldLocked, Judging
  <2>2. ASSUME attempt'[v].reply = "GUESSING" PROVE Gate!Guessing(c)
    <3>1. attempt[v].pc = "guess"
      BY <1>1, <2>2 DEF AttemptMoved
    <3>2. Guessed(c)
      BY <1>3, <3>1 DEF GateInv, GuessInv, AttemptGuessOK
    <3> QED BY <3>2, StoppedAsPromised
  <2>3. ASSUME attempt'[v].reply = "CALL_LOCKED" PROVE Gate!Mistaken(c)
    <3>1. attempt[v].pc = "attempt" /\ attempt[v].count >= MaxAttempts
      BY <1>1, <2>3 DEF AttemptMoved
    <3>2. Exhausted(c)
      BY <1>3, <3>1 DEF GateInv, LockInv, CountOK
    <3> QED BY <3>2, StoppedAsPromised DEF GateInv
  <2>4. Gate!Guessing(c) \/ Gate!Mistaken(c)
    BY <1>7, <2>2, <2>3 DEF ToldLocked
  <2>5. Gate!Refuse(c)
    BY <1>2, <1>6, <2>1, <2>4 DEF Gate!Refuse
  <2> QED BY <2>5 DEF Gate!Next
<1>8. CASE Judging(attempt'[v].reply)
  <2>1. Gate!Judge(c, supplied) /\ TurnedAway' = TurnedAway
    BY <1>4, <1>5, <1>8 DEF ToldLocked, Judging
  <2>2. CASE supplied = <<>>
    <3>1. ValuesTold' = ValuesTold
      BY <2>1, <2>2, NothingIsTold
    <3> QED BY <1>2, <1>6, <2>1, <3>1 DEF Gate!promiseVars
  <2>3. CASE supplied # <<>>
    <3>1. supplied \in {ParseFactors(offer) : offer \in Offers}
      BY <1>3, <2>3 DEF GateInv, DeskInv, AttemptTypeOK, AttemptStates
    <3>2. DOMAIN supplied \subseteq Factors
      BY <3>1, SuppliedIsSaid
    <3>3. ASSUME NEW f \in DOMAIN supplied PROVE Normalise(f, supplied[f]) \in ValuesHeard[c][f]
      <4>1. Normalise(f, supplied[f]) \in Heard(c, f)
        BY <1>3 DEF Heard
      <4> QED BY <3>2, <4>1 DEF ValuesHeard
    <3>4. Gate!WithinAllowance(c)
      BY <1>6, TellingIsAllowed DEF GateInv
    <3>5. Gate!Tell(c, supplied)
      BY <1>2, <1>6, <2>1, <3>3, <3>4 DEF Gate!Tell
    <3> QED BY <3>1, <3>5 DEF Gate!Next
  <2> QED BY <2>2, <2>3
<1>9. CASE ~ToldLocked(v)' /\ ~Judging(attempt'[v].reply)
  BY <1>2, <1>4, <1>5, <1>6, <1>9 DEF Gate!promiseVars
<1> QED BY <1>7, <1>8, <1>9

\* A count that is written over is one count lost.
LEMMA LossAsPromised ==
  ASSUME DeskInv, NEW c \in Calls, NEW attribute \in Extended, NEW current, NEW read,
         WriteOver(c, attribute, current, read)
  PROVE  \/ CountsLost' = CountsLost
         \/ /\ attribute \in {"offered", "wrong"}
            /\ CountsLost' = [CountsLost EXCEPT ![c][attribute] = @ + 1]
<1>1. \A d \in Calls, a \in Extended : lost'[d][a] # lost[d][a] =>
        d = c /\ a = attribute /\ lost'[d][a] = lost[d][a] + 1
  BY LossesAreCounted DEF DeskInv
<1>2. {"offered", "wrong"} \subseteq Extended
  BY DEF Extended
<1>3. CASE lost'[c][attribute] = lost[c][attribute] \/ attribute \notin {"offered", "wrong"}
  <2>1. \A d \in Calls, a \in {"offered", "wrong"} : lost'[d][a] = lost[d][a]
    BY <1>1, <1>2, <1>3
  <2> QED BY <2>1 DEF CountsLost
<1>4. CASE lost'[c][attribute] # lost[c][attribute] /\ attribute \in {"offered", "wrong"}
  <2>1. \A d \in Calls, a \in {"offered", "wrong"} :
          lost'[d][a] = IF d = c /\ a = attribute THEN lost[d][a] + 1 ELSE lost[d][a]
    BY <1>1, <1>2, <1>4
  <2>2. [CountsLost[c] EXCEPT ![attribute] = @ + 1] =
          [a \in {"offered", "wrong"} |-> lost'[c][a]]
    BY <1>4, <2>1 DEF CountsLost
  <2>3. CountsLost' = [CountsLost EXCEPT ![c] = [a \in {"offered", "wrong"} |-> lost'[c][a]]]
    BY <1>4, <2>1 DEF CountsLost
  <2>4. CountsLost' = [CountsLost EXCEPT ![c] = [CountsLost[c] EXCEPT ![attribute] = CountsLost[c][attribute] + 1]]
    BY <2>2, <2>3
  <2> QED BY <1>4, <2>4
<1> QED BY <1>3, <1>4

\* A step that counts is promised, whatever count it loses.
LEMMA CountingIsPromised ==
  ASSUME GateInv, DeskInv', AllowanceHolds', AttemptsKept, NEW v \in Attempts,
         CountOffer(v) \/ MarkWrongValues(v), check' = check
  PROVE  [Gate!Next]_Gate!promiseVars
<1>1. AttemptStep(v)
  BY DEF AttemptStep
<1>2. AttemptGoesOn(v) /\ AttemptMoved(v)
  BY <1>1, AttemptStepGoesOn, AttemptStepMoves DEF GateInv, DeskInv, AttemptsOK
<1>3. OffersMade' = OffersMade /\ ValuesHeard' = ValuesHeard
  BY <1>2, NothingOfferedByAttempt DEF GateInv
<1>4. PICK c \in Calls : c = attempt[v].call
  BY <1>2 DEF AttemptGoesOn, GateInv, DeskInv, AttemptsOK, AttemptOK
<1>5. ~ToldLocked(v)' /\ ~Judging(attempt'[v].reply)
  <2>1. attempt[v].pc \in {"count", "mark"}
    BY DEF CountOffer, MarkWrongValues
  <2>2. attempt'[v].reply \in {"none", "SERVICE_UNAVAILABLE"}
    BY <1>2, <2>1 DEF AttemptMoved
  <2> QED BY <2>2 DEF ToldLocked, Judging
<1>6. ValuesTold' = ValuesTold /\ TurnedAway' = TurnedAway
  BY <1>2, <1>5, ToldByAttempt, TurnedAwayByAttempt DEF GateInv
<1>7. LetInAs' = LetInAs /\ FreeAt' = FreeAt /\ clock' = clock
  BY DEF CountOffer, MarkWrongValues, LetInAs, FreeAt
<1>8. \/ CountsLost' = CountsLost
      \/ \E attribute \in {"offered", "wrong"} :
           CountsLost' = [CountsLost EXCEPT ![c][attribute] = @ + 1]
  <2>1. PICK attribute \in {"offered", "wrong"} : \E current, read : WriteOver(c, attribute, current, read)
    BY <1>4 DEF CountOffer, MarkWrongValues, RecordFactorAttempts, RecordWrongValues
  <2>2. attribute \in Extended
    BY DEF Extended
  <2> HIDE DEF CountsLost
  <2> QED BY <2>1, <2>2, LossAsPromised DEF GateInv
<1>9. CASE CountsLost' = CountsLost
  BY <1>3, <1>6, <1>7, <1>9 DEF Gate!promiseVars
<1>10. ASSUME NEW attribute \in {"offered", "wrong"},
              CountsLost' = [CountsLost EXCEPT ![c][attribute] = @ + 1]
       PROVE  Gate!Next
  <2>1. Gate!LoseCount(c, attribute)
    BY <1>3, <1>6, <1>7, <1>10 DEF Gate!LoseCount
  <2> QED BY <2>1 DEF Gate!Next, Gate!Counts
<1> QED BY <1>8, <1>9, <1>10

\* The offer of an attempt that is under way is among those of its call.
LEMMA OfferIsMade ==
  ASSUME DeskInv, NEW v \in Attempts, attempt[v].pc # "idle"
  PROVE  /\ OfferOf(v) \in OffersMade[attempt[v].call]
         /\ OfferOf(v).answers = attempt[v].supplied
         /\ attempt[v].contact \in Contacts => OfferOf(v).about = attempt[v].contact
         /\ OfferOf(v).late = BeganLocked(v)
<1>1. v \in Begun(attempt) /\ attempt[v].call \in Calls
  BY DEF DeskInv, AttemptTypeOK, AttemptsOK, AttemptOK, Begun
<1>2. OfferOf(v) \in OffersMade[attempt[v].call]
  BY <1>1 DEF OffersMade
<1> HIDE DEF BeganLocked
<1> QED BY <1>2 DEF OfferOf

\* What an attempt answers when it concludes, and while it goes on.
LEMMA Concluded ==
  ASSUME DeskInv, NEW v \in Attempts, attempt[v].pc \notin {"idle", "done"}
  PROVE  /\ \A reply \in AttemptReplies :
              Conclude(v, reply) => attempt'[v].reply \in {reply, "SERVICE_UNAVAILABLE"}
         /\ \A pc \in AttemptPcs : Advance(v, pc, attempt[v]) => attempt'[v].reply = "none"
<1>1. /\ AttemptTypeOK /\ attempt[v] \in AttemptStates /\ attempt[v].reply = "none"
      /\ "SERVICE_UNAVAILABLE" \in AttemptReplies
  BY DEF DeskInv, AttemptTypeOK, AttemptsOK, AttemptOK, AttemptReplies
<1>2. ASSUME NEW reply \in AttemptReplies, AnswerAttempt(v, reply)
      PROVE  attempt'[v].reply = reply
  <2>1. attempt'[v] = [attempt[v] EXCEPT !.reply = reply, !.pc = "done"]
    BY <1>1, <1>2, AnswerEnds
  <2> QED BY <1>1, <2>1 DEF AttemptStates
<1>3. ASSUME NEW pc \in AttemptPcs, Advance(v, pc, attempt[v])
      PROVE  attempt'[v].reply = "none"
  <2>1. attempt'[v] = [attempt[v] EXCEPT !.pc = pc]
    BY <1>1, <1>3, AdvanceMoves
  <2> QED BY <1>1, <2>1 DEF AttemptStates
<1> QED BY <1>1, <1>2, <1>3 DEF Conclude

\* A step that settles what an attempt was is promised: it locks an account for
\* mistakes and frees one on a proof.
LEMMA SettlingIsPromised ==
  ASSUME GateInv, DeskInv', AllowanceHolds', AttemptsKept, NEW v \in Attempts, Settle(v),
         check' = check
  PROVE  [Gate!Next]_Gate!promiseVars
<1>1. AttemptStep(v) /\ attempt[v].pc = "attempt"
  BY DEF AttemptStep, Settle
<1>2. AttemptGoesOn(v) /\ AttemptMoved(v)
  BY <1>1, AttemptStepGoesOn, AttemptStepMoves DEF GateInv, DeskInv, AttemptsOK
<1>3. OffersMade' = OffersMade /\ ValuesHeard' = ValuesHeard
  BY <1>2, NothingOfferedByAttempt DEF GateInv
<1>4. PICK c, p, o :
        c \in Calls /\ c = attempt[v].call /\ p = attempt[v].contact /\ o = OfferOf(v)
  BY <1>2 DEF AttemptGoesOn, GateInv, DeskInv, AttemptsOK, AttemptOK
<1> c \in Calls
  BY <1>4
<1>5. o \in OffersMade[c] /\ (p \in Contacts => o.about = p) /\ o.answers = attempt[v].supplied
  BY <1>1, <1>4, OfferIsMade DEF GateInv
<1>6. LetInAs' = LetInAs /\ clock' = clock /\ CountsLost' = CountsLost
  BY DEF Settle, LetInAs, CountsLost
<1>7. /\ Judging(attempt'[v].reply) => Gate!Judge(c, attempt[v].supplied)
      /\ ~Judging(attempt'[v].reply) => ValuesTold' = ValuesTold
      /\ ToldLocked(v)' => Gate!TurnAway(c)
      /\ ~ToldLocked(v)' => TurnedAway' = TurnedAway
  BY <1>2, <1>4, ToldByAttempt, TurnedAwayByAttempt DEF GateInv
<1>8. attempt[v].count >= MaxAttempts => Gate!Mistaken(c)
  BY <1>1, <1>4, StoppedAsPromised DEF GateInv, LockInv, CountOK
<1>9. ToldLocked(v)' => attempt[v].count >= MaxAttempts
  BY <1>1, <1>2 DEF AttemptMoved, ToldLocked
<1>10. account \in [Contacts -> [attempts : Nat, lockedUntil : 0..(MaxClock + LockWindow)]]
  BY DEF GateInv, DeskInv, CallerRowsTypeOK
<1>11. CASE FreeAt' = FreeAt
  BY <1>1, <1>6, <1>11, SayingIsPromised DEF RowsAsSeen
<1>12. ASSUME p \in Contacts, Outcome(v) = "VERIFIED", ClearAttempts(p)
       PROVE  Gate!Next
  <2>1. ~Judging(attempt'[v].reply)
    <3>1. \/ Conclude(v, "CALL_LOCKED")
          \/ Advance(v, "conflict", attempt[v])
          \/ Advance(v, "admit", attempt[v])
      BY <1>12 DEF Settle
    <3>2. attempt'[v].reply \in {"CALL_LOCKED", "none", "SERVICE_UNAVAILABLE"}
      BY <1>1, <3>1, Concluded DEF GateInv, AttemptReplies, AttemptPcs
    <3> QED BY <3>2 DEF Judging
  <2>2. Proves(attempt[v].supplied, p)
    <3>1. CheckFactors(attempt[v].supplied, Stored[p]) = "VERIFIED"
      BY <1>4, <1>12 DEF Outcome, StoredFactors
    <3>2. DOMAIN attempt[v].supplied \subseteq Factors
      BY SuppliedIsSaid DEF GateInv, DeskInv, AttemptTypeOK, AttemptStates
    <3> QED BY <1>12, <3>1, <3>2, VerifiedProves
  <2>3. FreeAt' = [FreeAt EXCEPT ![p] = 0]
    BY <1>10, <1>12 DEF FreeAt, ClearAttempts
  <2>4. Gate!Free(c, o)
    BY <1>3, <1>5, <1>6, <1>7, <1>8, <1>9, <1>12, <2>1, <2>2, <2>3 DEF Gate!Free
  <2> QED BY <1>5, <2>4 DEF Gate!Next
<1>13. ASSUME p \in Contacts, attempt[v].count >= MaxAttempts, LockAccount(p, attempt[v].count)
       PROVE  Gate!Next
  <2>1. ~Judging(attempt'[v].reply)
    <3>1. Conclude(v, "CALL_LOCKED")
      BY <1>13 DEF Settle
    <3>2. attempt'[v].reply \in {"CALL_LOCKED", "SERVICE_UNAVAILABLE"}
      BY <1>1, <3>1, Concluded DEF GateInv, AttemptReplies
    <3> QED BY <3>2 DEF Judging
  <2>2. FreeAt' = [FreeAt EXCEPT ![p] = clock + LockWindow]
    BY <1>10, <1>13 DEF FreeAt, LockAccount
  <2>3. Gate!Lock(c, o)
    BY <1>3, <1>5, <1>6, <1>7, <1>8, <1>9, <1>13, <2>1, <2>2 DEF Gate!Lock
  <2> QED BY <1>5, <2>3 DEF Gate!Next
<1>14. ASSUME p \in Contacts, CountAttempts(p, attempt[v].count)
       PROVE  FreeAt' = FreeAt
  BY <1>10, <1>14 DEF FreeAt, CountAttempts
<1>15. ASSUME UNCHANGED account PROVE FreeAt' = FreeAt
  BY <1>15 DEF FreeAt
<1>16. MoveCounter(v)
  BY DEF Settle
<1> QED BY <1>4, <1>11, <1>12, <1>13, <1>14, <1>15, <1>16 DEF MoveCounter

\* A caller who is let in has proved who they are, by an offer that did not come
\* too late unless a count was lost.
LEMMA AdmittingIsPromised ==
  ASSUME GateInv, DeskInv', AllowanceHolds', AttemptsKept, NEW v \in Attempts, Admit(v),
         check' = check
  PROVE  [Gate!Next]_Gate!promiseVars
<1>1. AttemptStep(v) /\ attempt[v].pc = "admit"
  BY DEF AttemptStep, Admit
<1>2. AttemptGoesOn(v)
  BY <1>1, AttemptStepGoesOn DEF GateInv, DeskInv, AttemptsOK
<1>3. OffersMade' = OffersMade /\ ValuesHeard' = ValuesHeard
  BY <1>2, NothingOfferedByAttempt DEF GateInv
<1>4. PICK c, p, o, supplied :
        /\ c \in Calls
        /\ c = attempt[v].call /\ p = attempt[v].contact
        /\ o = OfferOf(v) /\ supplied = attempt[v].supplied
  BY <1>2 DEF AttemptGoesOn, GateInv, DeskInv, AttemptsOK, AttemptOK
<1> c \in Calls
  BY <1>4
<1>5. p \in Contacts /\ Proves(supplied, p)
  BY <1>1, <1>4, AdmittedIsProved DEF GateInv
<1>6. /\ o \in OffersMade[c] /\ o.about = p /\ o.answers = supplied
      /\ o.late = BeganLocked(v)
  BY <1>1, <1>4, <1>5, OfferIsMade DEF GateInv
<1>7. CountsLost' = CountsLost /\ FreeAt' = FreeAt /\ clock' = clock
  BY DEF Admit, CountsLost, FreeAt
<1>8. LetInAs' = [LetInAs EXCEPT ![c] = p]
  BY <1>4 DEF Admit, SetVerification, LetInAs, GateInv, DeskInv, CallerRowsTypeOK
<1>9. BeganLocked(v) => ~Gate!NoneLost(c)
  <2> SUFFICES ASSUME BeganLocked(v), Gate!NoneLost(c) PROVE FALSE
    OBVIOUS
  <2>1. lost[c]["offered"] = 0 /\ lost[c]["wrong"] = 0
    BY DEF Gate!NoneLost, Gate!Counts, CountsLost
  <2>2. attempt[v].pc # "admit"
    BY <1>4, <2>1 DEF GateInv, BarredInv, BarredOK, BarredByGuessing, BarredByMistakes, After,
                      BeganLocked, ToldLocked
  <2> QED BY <1>1, <2>2
<1>10. attempt'[v].reply \in {"VERIFIED", "SERVICE_UNAVAILABLE"}
  <2>1. Conclude(v, "VERIFIED")
    BY DEF Admit
  <2> QED BY <1>1, <2>1, Concluded DEF GateInv, AttemptReplies
<1>11. TurnedAway' = TurnedAway
  BY <1>2, <1>10, TurnedAwayByAttempt DEF GateInv, ToldLocked
<1>12. (Gate!Judge(c, supplied) /\ Gate!WithinAllowance(c)) \/ ValuesTold' = ValuesTold
  <2>1. CASE Judging(attempt'[v].reply)
    <3>1. Gate!Judge(c, supplied)
      BY <1>2, <1>4, <2>1, ToldByAttempt DEF GateInv
    <3>2. Gate!WithinAllowance(c)
      BY <1>7, TellingIsAllowed DEF GateInv
    <3> QED BY <3>1, <3>2
  <2>2. CASE ~Judging(attempt'[v].reply)
    BY <1>2, <2>2, ToldByAttempt DEF GateInv
  <2> QED BY <2>1, <2>2
<1>13. Gate!LetIn(c, o)
  BY <1>3, <1>5, <1>6, <1>7, <1>8, <1>9, <1>11, <1>12 DEF Gate!LetIn
<1> QED BY <1>6, <1>13 DEF Gate!Next

\* So every step of an attempt is promised.
LEMMA AttemptIsPromised ==
  ASSUME GateInv, DeskInv', AllowanceHolds', AttemptsKept, NEW v \in Attempts, AttemptStep(v),
         check' = check
  PROVE  [Gate!Next]_Gate!promiseVars
<1>1. CASE CountOffer(v) \/ MarkWrongValues(v)
  BY <1>1, CountingIsPromised
<1>2. CASE Settle(v)
  BY <1>2, SettlingIsPromised
<1>3. CASE Admit(v)
  BY <1>3, AdmittingIsPromised
<1>4. CASE \/ SuspectGuessing(v) \/ ReadRecord(v) \/ ReadWrongValues(v) \/ NoteConflict(v)
           \/ FailAttempt(v)
  <2>1. UNCHANGED <<gate, account, clock, lost>>
    BY <1>4 DEF SuspectGuessing, ReadRecord, ReadWrongValues, NoteConflict, FailAttempt, rowVars
  <2>2. RowsAsSeen' = RowsAsSeen
    BY <2>1 DEF RowsAsSeen, LetInAs, FreeAt, CountsLost
  <2> QED BY <2>2, SayingIsPromised
<1> QED BY <1>1, <1>2, <1>3, <1>4 DEF AttemptStep

\* Every step of a check is: it loses a count, or says of what was heard whether
\* it is right, or says nothing that the promise is about.
LEMMA CheckIsPromised ==
  ASSUME GateInv, DeskInv', AllowanceHolds', NEW k \in Checks, CheckStep(k), attempt' = attempt
  PROVE  [Gate!Next]_Gate!promiseVars
<1>1. CheckGoesOn(k) /\ CheckMoved(k)
  BY CheckStepGoesOn, CheckStepMoves DEF GateInv, DeskInv, ChecksOK
<1>2. PICK c, said : c \in Calls /\ c = check[k].call /\ said = check[k].said
  BY <1>1 DEF CheckGoesOn, GateInv, DeskInv, ChecksOK, CheckOK
<1> c \in Calls
  BY <1>2
<1>3. /\ Comparing(check'[k].reply) => Gate!Judge(c, said)
      /\ ~Comparing(check'[k].reply) => ValuesTold' = ValuesTold
      /\ ValuesHeard' = ValuesHeard
  BY <1>1, <1>2, ToldByCheck DEF GateInv
<1>4. OffersMade' = OffersMade /\ TurnedAway' = TurnedAway
  BY AttemptsRest
<1>5. LetInAs' = LetInAs /\ FreeAt' = FreeAt /\ clock' = clock
  BY DEF CheckStep, CountCheck, SuspectGuesser, ResolveOnce, Remember, FailCheck, rowVars, LetInAs, FreeAt
<1>6. CASE CountCheck(k)
  <2>1. ~Comparing(check'[k].reply)
    BY <1>1, <1>6 DEF CheckMoved, Comparing, CountCheck
  <2>2. \/ CountsLost' = CountsLost
        \/ CountsLost' = [CountsLost EXCEPT ![c]["offered"] = @ + 1]
    <3>1. PICK current, read : WriteOver(c, "offered", current, read)
      BY <1>2, <1>6 DEF CountCheck, RecordFactorAttempts
    <3>2. "offered" \in Extended
      BY DEF Extended
    <3> HIDE DEF CountsLost
    <3> QED BY <3>1, <3>2, LossAsPromised DEF GateInv
  <2>3. CASE CountsLost' = CountsLost
    BY <1>3, <1>4, <1>5, <2>1, <2>3 DEF Gate!promiseVars
  <2>4. CASE CountsLost' = [CountsLost EXCEPT ![c]["offered"] = @ + 1]
    <3>1. Gate!LoseCount(c, "offered")
      BY <1>3, <1>4, <1>5, <2>1, <2>4 DEF Gate!LoseCount
    <3> QED BY <3>1 DEF Gate!Next, Gate!Counts
  <2> QED BY <2>2, <2>3, <2>4
<1>7. CASE ~CountCheck(k)
  <2>1. CountsLost' = CountsLost
    <3>1. CASE Remember(k)
      <4>1. PICK current, read : WriteOver(c, "resolved", current, read)
        BY <1>2, <3>1 DEF Remember, SetResolvedContact
      <4>2. "resolved" \in Extended /\ "resolved" \notin {"offered", "wrong"}
        BY DEF Extended
      <4> HIDE DEF CountsLost
      <4> QED BY <4>1, <4>2, LossAsPromised DEF GateInv
    <3>2. CASE lost' = lost
      BY <3>2 DEF CountsLost
    <3> QED BY <1>7, <3>1, <3>2 DEF CheckStep, SuspectGuesser, ResolveOnce, FailCheck, rowVars
  <2>2. CASE ~Comparing(check'[k].reply)
    BY <1>3, <1>4, <1>5, <2>1, <2>2 DEF Gate!promiseVars
  <2>3. CASE Comparing(check'[k].reply)
    <3>1. Gate!Judge(c, said) /\ Gate!WithinAllowance(c)
      BY <1>3, <2>1, <2>3, TellingIsAllowed DEF GateInv
    <3>2. CASE said = <<>>
      <4>1. ValuesTold' = ValuesTold
        BY <3>1, <3>2, NothingIsTold
      <4> QED BY <1>3, <1>4, <1>5, <2>1, <4>1 DEF Gate!promiseVars
    <3>3. CASE said # <<>>
      <4>1. PICK f \in Factors : \E w \in Said[f] : said = Answer(f, w)
        BY <1>2, <3>3 DEF GateInv, DeskInv, CheckTypeOK, CheckStates
      <4>2. DOMAIN said = {f} /\ DOMAIN said \subseteq Checkable
        BY <1>1, <1>2, <4>1 DEF Answer, CheckGoesOn, GateInv, GuessInv, CheckGuessOK
      <4>3. ASSUME NEW g \in DOMAIN said PROVE Normalise(g, said[g]) \in ValuesHeard[c][g]
        <5>1. Normalise(g, said[g]) \in Heard(c, g)
          BY <1>2, <4>2 DEF Heard
        <5> QED BY <4>2, <5>1 DEF ValuesHeard
      <4>4. Gate!Tell(c, said)
        BY <1>3, <1>4, <1>5, <2>1, <3>1, <4>3 DEF Gate!Tell
      <4>5. said \in UNION {{Answer(g, w) : w \in Said[g]} : g \in Factors}
        BY <4>1
      <4> QED BY <4>4, <4>5 DEF Gate!Next
    <3> QED BY <3>2, <3>3
  <2> QED BY <2>2, <2>3
<1> QED BY <1>6, <1>7

\* An attempt that begins offers what it supplies, on this call, about whom it is.
LEMMA OfferingIsPromised ==
  ASSUME GateInv, DeskInv', AttemptsKept, NEW v \in Attempts, NEW c \in Calls,
         NEW offer \in Offers, BeginAttempt(v, c, offer), check' = check
  PROVE  Gate!Next
<1>1. PICK supplied, p :
        supplied = ParseFactors(offer) /\ p = OfferOf(v)'.about
  OBVIOUS
<1>2. /\ attempt[v].pc = "idle" /\ attempt[v].supplied = <<>> /\ attempt[v].reply = "none"
      /\ attempt'[v].call = c /\ attempt'[v].supplied = supplied
      /\ attempt'[v].reply = "none" /\ attempt'[v].pc # "idle"
      /\ attempt'[v].after = {w \in Attempts : attempt[w].pc = "done"}
      /\ \A w \in Attempts \ {v} : attempt'[w] = attempt[w]
  <2>1. /\ attempt[v].pc = "idle" /\ attempt'[v].pc # "idle"
        /\ \A w \in Attempts \ {v} : attempt'[w] = attempt[w]
    BY AttemptBegins DEF GateInv, DeskInv
  <2>2. attempt[v].supplied = <<>> /\ attempt[v].reply = "none"
    BY <2>1 DEF GateInv, DeskInv, AttemptsOK, AttemptOK, NewAttempt
  <2>3. /\ attempt'[v].call = c /\ attempt'[v].reply = "none"
        /\ attempt'[v].supplied = ParseFactors(offer)
        /\ attempt'[v].after = {w \in Attempts : attempt[w].pc = "done"}
    BY AttemptBeginsFresh DEF GateInv
  <2> QED BY <1>1, <2>1, <2>2, <2>3
<1>3. BeganLocked(v)' <=> c \in TurnedAway
  <2>1. BeganLocked(v)' <=> \E w \in Attempts : attempt[w].pc = "done" /\ attempt[w].call = c /\ ToldLocked(w)
    BY <1>2 DEF BeganLocked, ToldLocked
  <2>2. \A w \in Attempts : ToldLocked(w) => attempt[w].pc = "done"
    BY TurnedAwayAreAnswered DEF GateInv
  <2> HIDE DEF ToldLocked
  <2> QED BY <2>1, <2>2 DEF TurnedAway
<1>4. OfferOf(v)' = [answers |-> supplied, about |-> p, late |-> c \in TurnedAway]
  <2>1. BeganLocked(v)' = (c \in TurnedAway)
    <3>1. BeganLocked(v)' \in BOOLEAN
      BY DEF BeganLocked
    <3> HIDE DEF BeganLocked, TurnedAway
    <3> QED BY <1>3, <3>1
  <2>2. OfferOf(v)' = [answers |-> attempt'[v].supplied,
                       about   |-> IF attempt'[v].contact \in Contacts THEN attempt'[v].contact ELSE Nobody,
                       late    |-> BeganLocked(v)']
    BY DEF OfferOf
  <2>3. p = IF attempt'[v].contact \in Contacts THEN attempt'[v].contact ELSE Nobody
    BY <1>1, <2>2
  <2> HIDE DEF BeganLocked, OfferOf
  <2> QED BY <1>2, <2>1, <2>2, <2>3
<1>5. p \in Contacts \cup {Nobody}
  BY <1>1 DEF OfferOf
<1>6. ASSUME NEW d \in Calls
      PROVE  OffersMade'[d] = IF d = c THEN OffersMade[d] \cup {OfferOf(v)'} ELSE OffersMade[d]
  <2>1. CASE d # c
    <3>1. \A w \in Attempts : attempt[w].pc = "idle" /\ attempt'[w].pc # "idle" => attempt'[w].call # d
      BY <1>2, <2>1
    <3> QED BY <2>1, <3>1, OffersStay DEF GateInv
  <2>2. CASE d = c
    <3> DEFINE made == {w \in Begun(attempt) : attempt[w].call = c}
               making == {w \in Begun(attempt') : attempt'[w].call = c}
    <3>1. DOMAIN attempt = Attempts /\ DOMAIN attempt' = Attempts
      BY DEF GateInv, DeskInv, AttemptTypeOK
    <3>2. making = made \cup {v}
      BY <1>2, <3>1 DEF Begun
    <3>3. ASSUME NEW w \in made PROVE OfferOf(w)' = OfferOf(w)
      BY <3>1, OfferStays DEF Begun, GateInv
    <3>4. OffersMade[c] = {OfferOf(w) : w \in made} /\ OffersMade'[c] = {OfferOf(w)' : w \in making}
      BY Zenon DEF OffersMade
    <3> HIDE DEF made, making
    <3> QED BY <2>2, <3>2, <3>3, <3>4
  <2> QED BY <2>1, <2>2
<1>7. OffersMade' = [OffersMade EXCEPT ![c] =
        OffersMade[c] \cup {[answers |-> supplied, about |-> p, late |-> c \in TurnedAway]}]
  <2> DEFINE made == OffersMade
             now == OfferOf(v)'
  <2>1. DOMAIN made = Calls /\ DOMAIN made' = Calls
    BY DEF OffersMade
  <2>2. made = [d \in Calls |-> made[d]] /\ made' = [d \in Calls |-> made'[d]]
    BY DEF OffersMade
  <2>3. \A d \in Calls : made'[d] = IF d = c THEN made[d] \cup {now} ELSE made[d]
    BY <1>6
  <2>4. now = [answers |-> supplied, about |-> p, late |-> c \in TurnedAway]
    BY <1>4
  <2> HIDE DEF made, now
  <2>5. made' = [made EXCEPT ![c] = made[c] \cup {now}]
    BY <2>2, <2>3
  <2> QED BY <2>4, <2>5 DEF made
<1>8. Gate!Hear(c, supplied)
  <2>1. ASSUME NEW d \in Calls, NEW f \in Factors
        PROVE  Heard(d, f)' = IF d = c THEN Gate!With(Heard(d, f), f, supplied) ELSE Heard(d, f)
    <3>1. ASSUME NEW x
          PROVE  x \in Heard(d, f)' <=>
                   \/ x \in Heard(d, f)
                   \/ d = c /\ f \in DOMAIN supplied /\ x = Normalise(f, supplied[f])
      <4>1. \A w \in Attempts : f \in DOMAIN attempt[w].supplied => w # v
        BY <1>2
      <4> QED BY <1>2, <4>1 DEF Heard
    <3> QED BY <3>1 DEF Gate!With
  <2> QED BY <2>1, Zenon DEF ValuesHeard, Gate!Hear
<1>9. ValuesTold' = ValuesTold
  <2>1. ASSUME NEW d \in Calls, NEW f \in Factors PROVE Told(d, f)' = Told(d, f)
    <3>1. ASSUME NEW x PROVE x \in Told(d, f)' <=> x \in Told(d, f)
      BY <1>2 DEF Told
    <3> QED BY <3>1
  <2> QED BY <2>1 DEF ValuesTold
<1>10. TurnedAway' = TurnedAway
  <2>1. \A w \in Attempts : ToldLocked(w) => w # v
    BY <1>2 DEF ToldLocked
  <2>2. ASSUME NEW d \in Calls PROVE d \in TurnedAway' <=> d \in TurnedAway
    BY <1>2, <2>1 DEF TurnedAway, ToldLocked
  <2> QED BY <2>2 DEF TurnedAway
<1>11. LetInAs' = LetInAs /\ FreeAt' = FreeAt /\ clock' = clock /\ CountsLost' = CountsLost
  BY DEF BeginAttempt, rowVars, LetInAs, FreeAt, CountsLost
<1>12. Gate!Offer(c, supplied, p)
  BY <1>7, <1>8, <1>9, <1>10, <1>11 DEF Gate!Offer
<1>13. supplied \in {ParseFactors(o) : o \in Offers}
  BY <1>1
<1> QED BY <1>5, <1>12, <1>13 DEF Gate!Next

\* A check that begins asks about what was heard, if it can be asked about.
LEMMA AskingIsPromised ==
  ASSUME GateInv, NEW k \in Checks, NEW c \in Calls, NEW f \in Factors, NEW w \in Said[f],
         BeginCheck(k, c, f, w), attempt' = attempt
  PROVE  [Gate!Next]_Gate!promiseVars
<1>1. PICK said : said = Answer(f, w)
  OBVIOUS
<1>2. /\ check[k].pc = "idle" /\ check[k].said = <<>> /\ check[k].reply = "none"
      /\ check'[k].call = c /\ check'[k].said = said
      /\ check'[k].reply \in {"none", "VALIDATION"}
      /\ \A j \in Checks \ {k} : check'[j] = check[j]
  BY <1>1, CheckBeginsFresh DEF GateInv, GuessInv, CheckGuessOK, DeskInv, ChecksOK, CheckOK
<1>3. DOMAIN said = {f}
  BY <1>1 DEF Answer
<1>4. OffersMade' = OffersMade /\ TurnedAway' = TurnedAway
  BY AttemptsRest
<1>5. ValuesTold' = ValuesTold
  <2>1. ASSUME NEW d \in Calls, NEW g \in Factors PROVE Told(d, g)' = Told(d, g)
    <3>1. ASSUME NEW x PROVE x \in Told(d, g)' <=> x \in Told(d, g)
      BY <1>2 DEF Told
    <3> QED BY <3>1
  <2> QED BY <2>1 DEF ValuesTold
<1>6. LetInAs' = LetInAs /\ FreeAt' = FreeAt /\ clock' = clock /\ CountsLost' = CountsLost
  BY DEF BeginCheck, rowVars, LetInAs, FreeAt, CountsLost
<1>7. ASSUME NEW d \in Calls, NEW g \in Factors, NEW x
      PROVE  x \in Heard(d, g)' <=>
               \/ x \in Heard(d, g)
               \/ d = c /\ g = f /\ f \in Checkable /\ x = Normalise(g, said[g])
  <2>1. \A j \in Checks : g \in DOMAIN check[j].said => j # k
    BY <1>2
  <2> QED BY <1>2, <1>3, <2>1 DEF Heard
<1>8. CASE f \in Checkable
  <2>1. ASSUME NEW d \in Calls, NEW g \in Factors
        PROVE  Heard(d, g)' = IF d = c THEN Gate!With(Heard(d, g), g, said) ELSE Heard(d, g)
    BY <1>3, <1>7, <1>8 DEF Gate!With
  <2>2. Gate!Hear(c, said)
    BY <2>1, Zenon DEF ValuesHeard, Gate!Hear
  <2>3. Gate!Ask(c, said)
    BY <1>4, <1>5, <1>6, <2>2 DEF Gate!Ask
  <2>4. said \in UNION {{Answer(g, u) : u \in Said[g]} : g \in Factors}
    BY <1>1
  <2> QED BY <2>3, <2>4 DEF Gate!Next
<1>9. CASE f \notin Checkable
  <2>1. ASSUME NEW d \in Calls, NEW g \in Factors PROVE Heard(d, g)' = Heard(d, g)
    BY <1>7, <1>9
  <2>2. ValuesHeard' = ValuesHeard
    BY <2>1 DEF ValuesHeard
  <2> QED BY <1>4, <1>5, <1>6, <2>2 DEF Gate!promiseVars
<1> QED BY <1>8, <1>9

\* Every step of the desk is one the promise allows.
LEMMA StepIsPromised ==
  ASSUME GateInv, AllowanceHolds', [Next]_vars PROVE [Gate!Next]_Gate!promiseVars
<1>1. DeskInv' /\ AttemptsKept
  BY DeskGoesOn DEF GateInv
<1>2. ASSUME NEW v \in Attempts, NEW c \in Calls, NEW offer \in Offers, BeginAttempt(v, c, offer),
             check' = check
      PROVE  Gate!Next
  BY <1>1, <1>2, OfferingIsPromised
<1>3. ASSUME NEW k \in Checks, NEW c \in Calls, NEW f \in Factors, NEW w \in Said[f],
             BeginCheck(k, c, f, w), attempt' = attempt
      PROVE  [Gate!Next]_Gate!promiseVars
  BY <1>3, AskingIsPromised
<1>4. ASSUME NEW v \in Attempts, AttemptStep(v), check' = check
      PROVE  [Gate!Next]_Gate!promiseVars
  BY <1>1, <1>4, AttemptIsPromised
<1>5. ASSUME NEW k \in Checks, CheckStep(k), attempt' = attempt
      PROVE  [Gate!Next]_Gate!promiseVars
  BY <1>1, <1>5, CheckIsPromised
<1>6. ASSUME attempt' = attempt, check' = check
      PROVE  /\ OffersMade' = OffersMade /\ TurnedAway' = TurnedAway
             /\ ValuesHeard' = ValuesHeard /\ ValuesTold' = ValuesTold
  BY <1>6, AttemptsRest DEF ValuesHeard, ValuesTold, Heard, Told
<1>7. ASSUME attempt' = attempt, check' = check, UNCHANGED <<gate, account, clock, lost>>
      PROVE  [Gate!Next]_Gate!promiseVars
  <2>1. LetInAs' = LetInAs /\ FreeAt' = FreeAt /\ clock' = clock /\ CountsLost' = CountsLost
    BY <1>7 DEF LetInAs, FreeAt, CountsLost
  <2> QED BY <1>6, <1>7, <2>1 DEF Gate!promiseVars
<1>8. ASSUME Tick, attempt' = attempt, check' = check
      PROVE  [Gate!Next]_Gate!promiseVars
  <2>1. LetInAs' = LetInAs /\ FreeAt' = FreeAt /\ clock' = clock + 1 /\ CountsLost' = CountsLost
    BY <1>8 DEF Tick, LetInAs, FreeAt, CountsLost
  <2>2. Gate!Tick
    BY <1>6, <1>8, <2>1 DEF Gate!Tick
  <2> QED BY <2>2 DEF Gate!Next
<1>9. ASSUME NEW c \in Calls, NEW n \in Numbers, Initiate(c, n), attempt' = attempt, check' = check
      PROVE  [Gate!Next]_Gate!promiseVars
  BY <1>7, <1>9 DEF Initiate
<1>10. ASSUME attempt' = attempt, check' = check,
              \/ \E m \in Questions : QuestionStep(m)
              \/ \E x \in Readings : ReadingStep(x)
              \/ \E m \in Questions, c \in Calls, i \in Invoices, claim \in Claims : BeginQuestion(m, c, i, claim)
              \/ \E x \in Readings, c \in Calls : BeginReading(x, c)
       PROVE  [Gate!Next]_Gate!promiseVars
  BY <1>7, <1>10, ReadersOnlyRead DEF GateInv, DeskInv
<1>11. CASE ToolCall
  BY <1>2, <1>3, <1>10, <1>11 DEF ToolCall
<1>12. CASE ToolStep
  BY <1>4, <1>5, <1>10, <1>12 DEF ToolStep
<1>13. CASE CallerRowsNext /\ UNCHANGED <<attempt, check, itemVars, question, reading>>
  BY <1>8, <1>9, <1>13 DEF CallerRowsNext
<1>14. CASE UNCHANGED <<rowVars, attempt, check>>
  BY <1>7, <1>14 DEF rowVars
<1> QED BY <1>11, <1>12, <1>13, <1>14 DEF Next, vars

\* The desk begins where the promise does.
LEMMA PromiseStarts == Init => Gate!Init
<1> SUFFICES ASSUME Init PROVE Gate!Init
  OBVIOUS
<1>1. /\ \A v \in Attempts : attempt[v] = NewAttempt
      /\ DOMAIN attempt = Attempts
      /\ \A k \in Checks : check[k] = NewCheck
  BY DEF Init, AttemptInit, CheckInit
<1>2. Begun(attempt) = {}
  BY <1>1 DEF Begun, NewAttempt
<1>3. OffersMade = [c \in Calls |-> {}]
  BY <1>2 DEF OffersMade
<1>4. ASSUME NEW c \in Calls, NEW f \in Factors PROVE Heard(c, f) = {} /\ Told(c, f) = {}
  <2>1. \A x : x \notin Heard(c, f)
    BY <1>1 DEF Heard, NewAttempt, NewCheck
  <2>2. \A x : x \notin Told(c, f)
    BY <1>1 DEF Told, NewAttempt, NewCheck
  <2> QED BY <2>1, <2>2
<1>5. ValuesHeard = [c \in Calls |-> [f \in Factors |-> {}]]
      /\ ValuesTold = [c \in Calls |-> [f \in Factors |-> {}]]
  BY <1>4 DEF ValuesHeard, ValuesTold
<1>6. TurnedAway = {}
  BY <1>1 DEF TurnedAway, ToldLocked, NewAttempt
<1>7. /\ LetInAs = [c \in Calls |-> Nobody]
      /\ FreeAt = [p \in Contacts |-> 0] /\ clock = 0
      /\ CountsLost = [c \in Calls |-> [attribute \in {"offered", "wrong"} |-> 0]]
  BY DEF Init, CallerRowsInit, NotVerified, LetInAs, FreeAt, CountsLost, Extended
<1> QED BY <1>3, <1>5, <1>6, <1>7 DEF Gate!Init, Gate!Counts

\* The desk keeps its promise, for every number of calls, people, answers and
\* overlapping invocations, every policy and every loss of a write or an answer
\* (verify_identity.py 61-157, check_factor.py 58-112).
THEOREM GateIsKept == Spec => ImplementsGate
<1>1. GateInv /\ AllowanceHolds' /\ [Next]_vars => [Gate!Next]_Gate!promiseVars
  BY StepIsPromised
<1>2. DeskInv /\ LockInv /\ BarredInv /\ GuessInv /\ AllowanceHolds => GateInv
  BY DEF GateInv
<1>3. Spec => []AllowanceHolds
  BY AllowanceIsKept
<1> QED
  BY <1>1, <1>2, <1>3, PromiseStarts, CountsAreMade, TheBarredStayBarred, GuessesAreOffered, DeskIsTyped,
     PTL DEF Spec, ImplementsGate, Gate!Spec
=============================================================================
