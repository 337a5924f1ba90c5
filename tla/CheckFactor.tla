---------------------------- MODULE CheckFactor ----------------------------
(***************************************************************************)
(* handlers/check_factor.py: the endpoint that says of one answer whether  *)
(* it was heard right, while the caller is still on that question.  It     *)
(* counts what is offered as verify_identity does (common/guessing.py),    *)
(* and compares everything with the record the first identifier found.     *)
(***************************************************************************)
EXTENDS CallerRows

CONSTANT Checks   \* invocations of the endpoint

Checkable == {"email", "phone", "date_of_birth"}

\* identity.INDEXES: the factors somebody can be found by.
Identifying == {"email", "phone"}

VARIABLE check    \* per invocation: where it is, what it has read, what it answered

CheckPcs == {"idle", "count", "guess", "resolve", "remember", "done"}

\* LOCKED is the answer to guessing.
CheckReplies ==
  {"MATCHED", "NOT_MATCHED", "AMBIGUOUS", "LOCKED", "VALIDATION", "SERVICE_UNAVAILABLE", "none"}

\* One detail, as check_factors takes them.
Answer(f, v) == [g \in {f} |-> v]

NewCheck ==
  [pc |-> "idle", call |-> "none", said |-> <<>>, contact |-> Nobody, read |-> {}, reply |-> "none"]

CheckStates ==
  [pc : CheckPcs, call : Calls \cup {"none"},
   said : {<<>>} \cup UNION {{Answer(f, v) : v \in Said[f]} : f \in Factors},
   contact : Contacts \cup {Nobody}, read : SUBSET AllFingerprints, reply : CheckReplies]

CheckTypeOK == check \in [Checks -> CheckStates]

CheckInit == check = [k \in Checks |-> NewCheck]

Proceed(k, pc, fields) == check' = [check EXCEPT ![k] = [fields EXCEPT !.pc = pc]]

AnswerCheck(k, reply, contact) ==
  Proceed(k, "done", [check[k] EXCEPT !.read = {}, !.reply = reply, !.contact = contact])

\* The last write is made, and its answer may be lost all the same.
Report(k, reply, contact) ==
  \/ AnswerCheck(k, reply, contact) /\ UNCHANGED faults
  \/ AnswerCheck(k, "SERVICE_UNAVAILABLE", Nobody) /\ Fault

-----------------------------------------------------------------------------

\* Which detail this is about.
Field(k) == CHOOSE f \in DOMAIN check[k].said : TRUE

\* _compares: confirmed, not merely not mistaken.
Compares(k, p) ==
  IF Confirmed(check[k].said, StoredFactors(p)) # {} THEN "MATCHED" ELSE "NOT_MATCHED"

\* The field must be one that can be checked; factor_attempts is read.
BeginCheck(k, c, f, v) ==
  /\ check[k].pc = "idle" /\ Arrived(c)
  /\ LET began == [NewCheck EXCEPT !.call = c, !.said = Answer(f, v)]
     IN  IF f \in Checkable
           THEN Proceed(k, "count", [began EXCEPT !.read = offered[c]])
           ELSE Proceed(k, "done", [began EXCEPT !.reply = "VALIDATION"])
  /\ UNCHANGED rowVars

\* Mutant: only the final verification counts.
CountCheckLater(k) ==
  /\ check[k].pc = "count"
  /\ Proceed(k, "resolve", [check[k] EXCEPT !.read = {}])
  /\ UNCHANGED rowVars

\* record_factor_attempts, and then the question whether a date can be read two ways.
CountCheck(k) ==
  /\ check[k].pc = "count"
  /\ LET prints == Fingerprints(check[k].said)
         f == Field(k)
     IN  /\ RecordFactorAttempts(check[k].call, check[k].read, prints)
         /\ IF IsEnumerating(check[k].read \cup prints)
              THEN Proceed(k, "guess", [check[k] EXCEPT !.read = {}]) /\ UNCHANGED faults
            ELSE IF f = "date_of_birth" /\ AmbiguousDate(check[k].said[f])
              THEN Report(k, "AMBIGUOUS", Nobody)
            ELSE Proceed(k, "resolve", [check[k] EXCEPT !.read = {}]) /\ UNCHANGED faults
  /\ UNCHANGED <<wrong, resolved, signals, gate, candidate, account, clock>>

SuspectGuesser(k) ==
  /\ check[k].pc = "guess"
  /\ RecordRiskSignal(check[k].call, "SUSPECTED_GUESSING")
  /\ Report(k, "LOCKED", Nobody)
  /\ UNCHANGED <<offered, wrong, resolved, gate, candidate, account, clock, lost>>

\* Mutant: every identifier is looked up afresh.
ResolveEach(k) ==
  /\ check[k].pc = "resolve"
  /\ LET f == Field(k)
         found == IF f \in Identifying THEN LookupContact(f, check[k].said[f]) ELSE Nobody
     IN  AnswerCheck(k, Compares(k, found), found)
  /\ UNCHANGED rowVars

\* Whoever the first identifier found is who the rest is compared with; an
\* identifier finds somebody only while nobody has been.
ResolveOnce(k) ==
  /\ check[k].pc = "resolve"
  /\ LET c == check[k].call
         f == Field(k)
         found == IF f \in Identifying THEN LookupContact(f, check[k].said[f]) ELSE Nobody
     IN  IF resolved[c] = Nobody /\ found # Nobody
           THEN Proceed(k, "remember", [check[k] EXCEPT !.contact = found])
           ELSE AnswerCheck(k, Compares(k, resolved[c]), resolved[c])
  /\ UNCHANGED rowVars

\* set_resolved_contact, and the comparison with that record.
Remember(k) ==
  /\ check[k].pc = "remember"
  /\ SetResolvedContact(check[k].call, check[k].contact)
  /\ Report(k, Compares(k, check[k].contact), check[k].contact)
  /\ UNCHANGED <<offered, wrong, signals, gate, candidate, account, clock>>

FailCheck(k) ==
  /\ check[k].pc \notin {"idle", "done"}
  /\ Fault
  /\ AnswerCheck(k, "SERVICE_UNAVAILABLE", Nobody)
  /\ UNCHANGED <<offered, wrong, resolved, signals, gate, candidate, account, clock, lost>>

CheckStep(k) ==
  CountCheck(k) \/ SuspectGuesser(k) \/ ResolveOnce(k) \/ Remember(k) \/ FailCheck(k)
=============================================================================
