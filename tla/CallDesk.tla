------------------------------ MODULE CallDesk ------------------------------
(***************************************************************************)
(* A call up to the point where money is talked about: conversation_init,  *)
(* then check_factor and verify_identity over one conversation row, and    *)
(* behind the gate they open match_payment and get_account_context over    *)
(* the ledger.  An agent may have several tool calls under way at once,    *)
(* and one that the caller no longer waits for goes on.                    *)
(***************************************************************************)
EXTENDS VerifyIdentity, CheckFactor, MatchPayment, AccountContext

CONSTANT MaxInvocations   \* bound: tool calls made on the calls of the model

vars == <<rowVars, attempt, check, itemVars, question, reading>>

Init ==
  CallerRowsInit /\ AttemptInit /\ CheckInit /\ OpenItemsInit /\ QuestionInit /\ ReadingInit

Begun(invocation) == {x \in DOMAIN invocation : invocation[x].pc # "idle"}

Invocations ==
  Cardinality(Begun(attempt)) + Cardinality(Begun(check))
  + Cardinality(Begun(question)) + Cardinality(Begun(reading))

\* The agent calls a tool.
ToolCall ==
  /\ Invocations < MaxInvocations
  /\ \E c \in Calls :
       \/ /\ \E v \in Attempts, offer \in Offers : BeginAttempt(v, c, offer)
          /\ UNCHANGED <<check, itemVars, question, reading>>
       \/ /\ \E k \in Checks, f \in Factors : \E v \in Said[f] : BeginCheck(k, c, f, v)
          /\ UNCHANGED <<attempt, itemVars, question, reading>>
       \/ /\ \E m \in Questions, i \in Invoices, claim \in Claims : BeginQuestion(m, c, i, claim)
          /\ UNCHANGED <<attempt, check, reading>>
       \/ /\ \E x \in Readings : BeginReading(x, c)
          /\ UNCHANGED <<attempt, check, question>>

\* A tool call that is under way goes on.
ToolStep ==
  \/ (\E v \in Attempts : AttemptStep(v)) /\ UNCHANGED <<check, itemVars, question, reading>>
  \/ (\E k \in Checks : CheckStep(k)) /\ UNCHANGED <<attempt, itemVars, question, reading>>
  \/ (\E m \in Questions : QuestionStep(m)) /\ UNCHANGED <<attempt, check, reading>>
  \/ (\E x \in Readings : ReadingStep(x)) /\ UNCHANGED <<attempt, check, question>>

Next ==
  \/ ToolCall
  \/ ToolStep
  \/ CallerRowsNext /\ UNCHANGED <<attempt, check, itemVars, question, reading>>
  \/ OpenItemsNext /\ UNCHANGED <<rowVars, attempt, check, question, reading>>

Spec == Init /\ [][Next]_vars

-----------------------------------------------------------------------------
(* Who is let in.                                                          *)

\* Every variable holds what the code can put in it.
TypeOK ==
  /\ CallerRowsTypeOK /\ AttemptTypeOK /\ CheckTypeOK
  /\ OpenItemsTypeOK /\ QuestionTypeOK /\ ReadingTypeOK

\* These answers prove that the caller is this person: all that could be read
\* are right, there are enough of them, and one is about the person.
Proves(supplied, p) ==
  LET right == {f \in DOMAIN supplied : Normalise(f, supplied[f]) = Normalise(f, Stored[p][f])}
  IN  /\ Cardinality(right) >= RequiredFactorCount
      /\ right \cap PersonalFactors # {}
      /\ \A f \in DOMAIN supplied \ right :
           f = "date_of_birth" /\ Normalise(f, supplied[f]) = Unparseable

Proved(c, p) ==
  \E v \in Attempts :
    /\ attempt[v].call = c /\ attempt[v].contact = p
    /\ attempt[v].reply \in {"VERIFIED", "SERVICE_UNAVAILABLE"}
    /\ Proves(attempt[v].supplied, p)

\* A conversation is verified only as somebody whom one attempt of that call
\* has proved the caller to be, and for that person's company (FR-001,
\* FR-003): two attempts under way at once never add up to a proof.
VerifiedIsProved ==
  \A c \in Calls : Verified(c) =>
    /\ gate[c].contact \in Contacts
    /\ gate[c].customer = Stored[gate[c].contact]["customer_id"]
    /\ Proved(c, gate[c].contact)

\* The values of one field about which a call has been told something.
Told(c, f) ==
  {Normalise(f, attempt[v].supplied[f]) :
     v \in {v \in Attempts :
              /\ attempt[v].call = c /\ f \in DOMAIN attempt[v].supplied
              /\ attempt[v].reply \in {"VERIFIED", "PARTIALLY_VERIFIED", "FAILED"}}}
  \cup
  {Normalise(f, check[k].said[f]) :
     k \in {k \in Checks :
              /\ check[k].call = c /\ f \in DOMAIN check[k].said
              /\ check[k].reply \in {"MATCHED", "NOT_MATCHED"}}}

\* However a caller spreads them over the two endpoints, no more values of a
\* field are judged than the allowance (FR-006a), except that each write of the
\* attempts that replaces one it has not seen starts the count afresh.
AllowanceHolds ==
  \A c \in Calls, f \in Factors :
    Cardinality(Told(c, f)) <= MaxDistinctValues * (1 + lost[c]["offered"])

\* The caller is told LOCKED for what the call has offered.
ToldLocked(v) == attempt[v].reply \in {"GUESSING", "CALL_LOCKED"}

\* Its call had been told LOCKED when the attempt began.
BeganLocked(v) ==
  \E w \in attempt[v].after : attempt[w].call = attempt[v].call /\ ToldLocked(w)

\* While no count has been lost, a call that was told LOCKED for what it
\* offered is not verified by anything it tries afterwards (FR-006).
LockedCallStaysLocked ==
  \A v \in Attempts :
    /\ BeganLocked(v)
    /\ lost[attempt[v].call]["offered"] = 0
    /\ lost[attempt[v].call]["wrong"] = 0
    => attempt[v].pc # "admit" /\ attempt[v].reply # "VERIFIED"

\* A value is what is on record as this factor of this person.
OnRecord(f, v, p) == p \in Contacts /\ Matches(f, v, Stored[p][f])

\* The wrong values a call has offered for one field of its contact's record.
Mistakes(c, f) ==
  {Normalise(f, attempt[v].supplied[f]) :
     v \in {v \in Attempts :
              /\ attempt[v].call = c /\ f \in DOMAIN attempt[v].supplied
              /\ ~OnRecord(f, attempt[v].supplied[f], attempt[v].contact)}}

Exhausted(c) == \E f \in Factors : Cardinality(Mistakes(c, f)) >= MaxAttempts

\* Nobody is locked out for repeating one mistake, however often it is sent and
\* however it is spelled, nor for several mistakes made in one breath: a lock
\* takes so many different wrong values of one field.
LockIsEarned ==
  /\ \A v \in Attempts : attempt[v].reply = "CALL_LOCKED" => Exhausted(attempt[v].call)
  /\ \A p \in Contacts : account[p].lockedUntil # 0 =>
       \E v \in Attempts : attempt[v].contact = p /\ Exhausted(attempt[v].call)

\* A lock on an account ends when its time is over or its owner is proved, and
\* no wrong answer given meanwhile, on whatever call, ends it sooner.
UnlockNeedsTimeOrProof ==
  [][\A p \in Contacts :
       IsLocked(p) /\ account'[p].lockedUntil <= clock' =>
         \/ clock' > clock
         \/ \E v \in Attempts :
              /\ attempt[v].pc = "attempt" /\ attempt'[v].pc # "attempt"
              /\ attempt[v].contact = p /\ Proves(attempt[v].supplied, p)]_vars

\* Details that one call is told have matched are details of one person, but
\* for each time two identifiers were resolved at once.
OneRecordPerCall ==
  \A c \in Calls :
    LET matched == {k \in Checks : check[k].call = c /\ check[k].reply = "MATCHED"}
    IN  Cardinality({check[k].contact : k \in matched}) <= 1 + lost[c]["resolved"]

\* The values of one field that a caller has offered on a call.
Heard(c, f) ==
  {Normalise(f, attempt[v].supplied[f]) :
     v \in {v \in Attempts : attempt[v].call = c /\ f \in DOMAIN attempt[v].supplied}}
  \cup
  {Normalise(f, check[k].said[f]) :
     k \in {k \in Checks :
              check[k].call = c /\ f \in DOMAIN check[k].said \cap Checkable}}

\* Nobody is stopped for guessing who has not offered more values of one field
\* than the allowance (FR-006a): repeating one answer, spelling it otherwise or
\* asking about it at both endpoints is no guess, whatever counts overlap.
GuessingIsEarned ==
  \A c \in Calls :
    \/ \E v \in Attempts : attempt[v].call = c /\ attempt[v].reply = "GUESSING"
    \/ \E k \in Checks : check[k].call = c /\ check[k].reply = "LOCKED"
    => \E f \in Factors : Cardinality(Heard(c, f)) > MaxDistinctValues

\* What an attempt offers and about whom, if the record is that of a person.
OfferOf(v) ==
  [answers |-> attempt[v].supplied,
   about   |-> IF attempt[v].contact \in Contacts THEN attempt[v].contact ELSE Nobody,
   late    |-> BeganLocked(v)]

\* What a call has come to, as the promise puts it.
OffersMade ==
  [c \in Calls |-> {OfferOf(v) : v \in {v \in Begun(attempt) : attempt[v].call = c}}]
ValuesHeard == [c \in Calls |-> [f \in Factors |-> Heard(c, f)]]
ValuesTold == [c \in Calls |-> [f \in Factors |-> Told(c, f)]]
TurnedAway == {c \in Calls : \E v \in Attempts : attempt[v].call = c /\ ToldLocked(v)}
LetInAs == [c \in Calls |-> gate[c].contact]
FreeAt == [p \in Contacts |-> account[p].lockedUntil]
CountsLost == [c \in Calls |-> [attribute \in {"offered", "wrong"} |-> lost[c][attribute]]]

\* The two endpoints implement the promise: whatever invocations overlap, and
\* whatever writes and answers are lost, a call is let in, told and turned away,
\* and an account locked and freed, as if the desk did one thing at a time with
\* everything in sight (verify_identity.py 61-157, check_factor.py 58-112).
Gate ==
  INSTANCE GatePromise
    WITH People <- Contacts, Details <- Factors,
         Answers <- {ParseFactors(offer) : offer \in Offers}
                      \cup UNION {{Answer(f, v) : v \in Said[f]} : f \in Factors},
         Allowance <- MaxDistinctValues, MaxWrong <- MaxAttempts,
         Normal <- Normalise, Right <- OnRecord, Proof <- Proves,
         offers <- OffersMade, heard <- ValuesHeard, told <- ValuesTold, refused <- TurnedAway,
         letIn <- LetInAs, freeAt <- FreeAt, now <- clock, losses <- CountsLost

ImplementsGate == Gate!Spec

-----------------------------------------------------------------------------
(* What they are told.                                                     *)

ProvedFor(c, customer) == \E p \in Contacts : Stored[p]["customer_id"] = customer /\ Proved(c, p)

\* What a call is told about a payment is about the account of somebody it was
\* verified as, whichever invoice the agent names and whoever is verified while
\* the answer is on its way (FR-001, FR-007).
MatchesAreForTheVerified ==
  \A m \in Questions :
    question[m].reply \in {"MATCH", "NO_MATCH", "INSUFFICIENT"} =>
      /\ ProvedFor(question[m].call, question[m].customer)
      /\ Invoice[question[m].invoice].owner = question[m].customer
      /\ question[m].reply = "MATCH" =>
           Payment[question[m].result.payment].owner = question[m].customer

\* So is what it is told about its invoices.
ContextIsForTheVerified ==
  \A x \in Readings :
    reading[x].reply = "OK" =>
      /\ ProvedFor(reading[x].call, reading[x].customer)
      /\ ToSet(reading[x].open \o reading[x].recent) \subseteq InvoicesOf(reading[x].customer)

Written == UNION {ToSet(Payment[p].reference) : p \in Payments}

\* The near misses of each invoice's key.
NearMisses == [i \in Invoices |-> NearMissesOf(Invoice[i].key, Written)]

\* What is on record as this payment is what the caller says they transferred.
Meant(claim, p) ==
  /\ Payment[p].amount = claim.amount
  /\ claim.date <= Payment[p].date /\ Payment[p].date <= claim.date + ToleranceDays

\* A payment is only ever confirmed when it is the one payment of the account
\* that the claim can mean, and when nothing written on it says that it is for
\* another invoice (FR-010).
MatchIsTheOnlyFit ==
  \A m \in Questions : question[m].reply = "MATCH" =>
    LET result == question[m].result
        i == question[m].invoice
        p == result.payment
        written == Payment[p].reference
    IN  /\ {q \in PaymentsOf(question[m].customer) \cap (listed \cup {p}) :
              Meant(question[m].claim, q)} = {p}
        /\ \A j \in Invoices \ {i} : written \in {Invoice[j].number, Invoice[j].key} =>
             written \in {Invoice[i].number, Invoice[i].key}
        /\ result.link = "EXACT" <=> written \in {Invoice[i].number, Invoice[i].key}
        /\ result.covers <=> Payment[p].amount >= Invoice[i].amount
        /\ question[m].spoken => result.address

\* A reference passes for a mistyped key exactly when so many edits can make it
\* of the key, and it is not one that means something by itself (FR-010).
TypoIsANearMiss ==
  \A m \in Questions : question[m].reply = "MATCH" =>
    LET i == question[m].invoice
        written == Payment[question[m].result.payment].reference
    IN  question[m].result.link = "PROBABLE_TYPO" <=>
          written \in NearMisses[i] \ {<<>>, Invoice[i].number, Invoice[i].key}

\* A caller is told of everything they owe: whatever is settled meanwhile and
\* whatever the CRM does, each invoice still owed is in the sum and in the
\* number, and none that is due before the last one read out is left out.
OutstandingIsComplete ==
  \A x \in Readings : reading[x].reply = "OK" =>
    LET open == InvoicesOf(reading[x].customer) \cap owed
        shown == ToSet(reading[x].open)
    IN  /\ reading[x].total >= MapThenSumSet(LAMBDA i : Invoice[i].amount, open)
        /\ reading[x].count >= Cardinality(open)
        /\ Len(reading[x].open) = Min({MaxInvoices, reading[x].count})
        /\ \A i \in shown, j \in open \ shown : Invoice[i].due <= Invoice[j].due
        /\ ToSet(reading[x].recent) \cap open = {}

-----------------------------------------------------------------------------
(* What the documentation says and the code does not do.                   *)

\* A conflict is recorded when the number rings for one account and the answers
\* name another (specs/001-voice-billing-agent/research.md, D3).
OwnNumberIsNoConflict ==
  \A c \in Calls : "CONFLICTING_IDENTITY_DATA" \in signals[c] =>
    \E v \in Attempts :
      /\ attempt[v].call = c /\ attempt[v].contact \in Contacts
      /\ Stored[attempt[v].contact]["customer_id"] # candidate[c].customer
=============================================================================
