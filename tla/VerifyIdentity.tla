--------------------------- MODULE VerifyIdentity ---------------------------
(***************************************************************************)
(* handlers/verify_identity.py: the endpoint that decides whether a caller *)
(* is who they say, and the only one that moves the lockout.  It finds the *)
(* record the answers are about, counts what was offered, compares, counts *)
(* what was wrong, moves the counter of the account, and admits.  Between  *)
(* any two of these another invocation may run.                            *)
(***************************************************************************)
EXTENDS CallerRows, Functions

CONSTANTS
  Attempts,      \* invocations of the endpoint
  Offers,        \* what agents send: an answer, or Blank, for some of the factors
  Blank,         \* a field with nothing in it
  MaxAttempts    \* policy verification_max_attempts

ASSUME VerifyIdentityAssumption ==
  /\ MaxAttempts \in Nat \ {0}
  /\ \A offer \in Offers :
       /\ DOMAIN offer \subseteq Factors
       /\ \A f \in DOMAIN offer : offer[f] = Blank \/ offer[f] \in Said[f]

VARIABLE attempt   \* per invocation: where it is, what it has read, what it answered

AttemptPcs ==
  {"idle", "count", "guess", "record", "wrong", "mark", "attempt", "conflict", "admit", "done"}

\* GUESSING, ACCOUNT_LOCKED and CALL_LOCKED are one answer, LOCKED: what tells
\* them apart is why.
AttemptReplies ==
  {"VERIFIED", "PARTIALLY_VERIFIED", "FAILED", "GUESSING", "ACCOUNT_LOCKED", "CALL_LOCKED",
   "SERVICE_UNAVAILABLE", "none"}

\* _parse_factors: blank fields are dropped.
ParseFactors(offer) == Restrict(offer, {f \in DOMAIN offer : offer[f] # Blank})

\* "after" is history: the attempts that had been answered when this one began.
NewAttempt ==
  [pc |-> "idle", call |-> "none", supplied |-> <<>>, contact |-> Nobody, read |-> {},
   count |-> 0, after |-> {}, reply |-> "none"]

AttemptStates ==
  [pc : AttemptPcs, call : Calls \cup {"none"},
   supplied : {ParseFactors(offer) : offer \in Offers} \cup {<<>>},
   contact : Contacts \cup Accounts \cup {Nobody}, read : SUBSET AllFingerprints,
   count : Nat, after : SUBSET Attempts, reply : AttemptReplies]

AttemptTypeOK == attempt \in [Attempts -> AttemptStates]

AttemptInit == attempt = [v \in Attempts |-> NewAttempt]

\* One step of an invocation: some of its fields change.
Advance(v, pc, fields) == attempt' = [attempt EXCEPT ![v] = [fields EXCEPT !.pc = pc]]

AnswerAttempt(v, reply) == Advance(v, "done", [attempt[v] EXCEPT !.reply = reply])

\* The last write is made, and its answer may be lost all the same.
Conclude(v, reply) ==
  \/ AnswerAttempt(v, reply) /\ UNCHANGED faults
  \/ AnswerAttempt(v, "SERVICE_UNAVAILABLE") /\ Fault

-----------------------------------------------------------------------------

\* _resolve_contact: what was said comes before the number that rang.  The
\* candidate is the id of a company, so it names no record.
ResolveContact(c, supplied) ==
  LET Found(f) == IF f \in DOMAIN supplied THEN LookupContact(f, supplied[f]) ELSE Nobody
  IN  CASE Found("email") # Nobody -> Found("email")
        [] Found("phone") # Nobody -> Found("phone")
        [] OTHER                   -> candidate[c].customer

Outcome(v) == CheckFactors(attempt[v].supplied, StoredFactors(attempt[v].contact))

WrongPrints(v) ==
  {Fingerprint(f, attempt[v].supplied[f]) :
     f \in Mismatched(attempt[v].supplied, StoredFactors(attempt[v].contact))}

\* How many different wrong answers the worst field has had.
WorstField(prints) == Max({CountFor(prints, f) : f \in Factors})

\* The number that rang is on another record than the one the answers found.
Conflicting(v) ==
  LET ringing == candidate[attempt[v].call].customer
  IN  ringing # Nobody /\ attempt[v].contact # Nobody /\ ringing # attempt[v].contact

-----------------------------------------------------------------------------

\* The record is found and factor_attempts is read, unless nothing was said.
BeginAttempt(v, c, offer) ==
  /\ attempt[v].pc = "idle" /\ Arrived(c)
  /\ LET supplied == ParseFactors(offer)
     IN  Advance(v, IF supplied = <<>> THEN "record" ELSE "count",
           [NewAttempt EXCEPT
              !.call = c, !.supplied = supplied, !.contact = ResolveContact(c, supplied),
              !.read = offered[c],
              !.after = {w \in Attempts : attempt[w].pc = "done"}])
  /\ UNCHANGED rowVars

\* record_factor_attempts: what was offered is written, with what was read.
CountOffer(v) ==
  /\ attempt[v].pc = "count"
  /\ LET prints == Fingerprints(attempt[v].supplied)
     IN  /\ RecordFactorAttempts(attempt[v].call, attempt[v].read, prints)
         /\ Advance(v, IF IsEnumerating(attempt[v].read \cup prints) THEN "guess" ELSE "record",
                    [attempt[v] EXCEPT !.read = {}])
  /\ UNCHANGED <<wrong, resolved, signals, gate, candidate, account, clock, faults>>

\* Too many values: a signal, and nothing is compared.
SuspectGuessing(v) ==
  /\ attempt[v].pc = "guess"
  /\ RecordRiskSignal(attempt[v].call, "SUSPECTED_GUESSING")
  /\ Conclude(v, "GUESSING")
  /\ UNCHANGED <<offered, wrong, resolved, gate, candidate, account, clock, lost>>

\* The identity record is read, and with it whether it is locked.
ReadRecord(v) ==
  /\ attempt[v].pc = "record"
  /\ IF IsLocked(attempt[v].contact)
       THEN AnswerAttempt(v, "ACCOUNT_LOCKED")
       ELSE Advance(v, "wrong", attempt[v])
  /\ UNCHANGED rowVars

\* Mutant: who got everything right has no mistakes.
ReadNoWrongValues(v) ==
  /\ attempt[v].pc = "wrong"
  /\ IF WrongPrints(v) = {}
       THEN Advance(v, "attempt", attempt[v])
       ELSE Advance(v, "mark", [attempt[v] EXCEPT !.read = wrong[attempt[v].call]])
  /\ UNCHANGED rowVars

\* record_wrong_values reads, and has nothing to write when nothing is wrong.
ReadWrongValues(v) ==
  /\ attempt[v].pc = "wrong"
  /\ LET before == wrong[attempt[v].call]
     IN  IF WrongPrints(v) = {}
           THEN Advance(v, "attempt", [attempt[v] EXCEPT !.count = WorstField(before)])
           ELSE Advance(v, "mark", [attempt[v] EXCEPT !.read = before])
  /\ UNCHANGED rowVars

MarkWrongValues(v) ==
  /\ attempt[v].pc = "mark"
  /\ RecordWrongValues(attempt[v].call, attempt[v].read, WrongPrints(v))
  /\ Advance(v, "attempt", [attempt[v] EXCEPT
       !.read = {}, !.count = WorstField(attempt[v].read \cup WrongPrints(v))])
  /\ UNCHANGED <<offered, resolved, signals, gate, candidate, account, clock, faults>>

\* Mutant: a wrong answer is written into the counter, and the lock with it is gone.
MoveCounterAfresh(v) ==
  LET p == attempt[v].contact
  IN  IF p \in Contacts
        THEN account' = [account EXCEPT ![p] =
               [attempts |-> attempt[v].count,
                lockedUntil |-> IF attempt[v].count >= MaxAttempts
                                  THEN clock + LockWindow ELSE 0]]
        ELSE UNCHANGED account

\* Mutant: answers that are right, but too few, end a lock as a proof does.
MoveCounterForAnyRight(v) ==
  LET p == attempt[v].contact
      n == attempt[v].count
  IN  \/ p \in Contacts /\ Outcome(v) # "FAILED" /\ ClearAttempts(p)
      \/ p \in Contacts /\ Outcome(v) = "FAILED" /\ n >= MaxAttempts /\ LockAccount(p, n)
      \/ p \in Contacts /\ Outcome(v) = "FAILED" /\ n < MaxAttempts /\ CountAttempts(p, n)
      \/ p \notin Contacts /\ UNCHANGED account

\* _record_attempt: the account's counter is set to the count of this call.
\* Nothing is counted against a record that was not found.
MoveCounter(v) ==
  LET p == attempt[v].contact
      n == attempt[v].count
  IN  \/ p \in Contacts /\ Outcome(v) = "VERIFIED" /\ ClearAttempts(p)
      \/ p \in Contacts /\ Outcome(v) = "FAILED" /\ n >= MaxAttempts /\ LockAccount(p, n)
      \/ p \in Contacts /\ Outcome(v) = "FAILED" /\ n < MaxAttempts /\ CountAttempts(p, n)
      \/ (p \notin Contacts \/ Outcome(v) = "PARTIALLY_VERIFIED") /\ UNCHANGED account

\* A call with too many wrong answers is told LOCKED, whatever it got right.
Settle(v) ==
  /\ attempt[v].pc = "attempt"
  /\ MoveCounter(v)
  /\ IF attempt[v].count >= MaxAttempts THEN Conclude(v, "CALL_LOCKED")
     ELSE IF Conflicting(v) THEN Advance(v, "conflict", attempt[v]) /\ UNCHANGED faults
     ELSE IF Outcome(v) = "VERIFIED" THEN Advance(v, "admit", attempt[v]) /\ UNCHANGED faults
     ELSE Conclude(v, Outcome(v))
  /\ UNCHANGED <<offered, wrong, resolved, signals, gate, candidate, clock, lost>>

\* Recorded, and not acted on.
NoteConflict(v) ==
  /\ attempt[v].pc = "conflict"
  /\ RecordRiskSignal(attempt[v].call, "CONFLICTING_IDENTITY_DATA")
  /\ IF Outcome(v) = "VERIFIED" THEN Advance(v, "admit", attempt[v]) /\ UNCHANGED faults
     ELSE Conclude(v, Outcome(v))
  /\ UNCHANGED <<offered, wrong, resolved, gate, candidate, account, clock, lost>>

\* A person authenticates; the company's account is what they reach.
Admit(v) ==
  /\ attempt[v].pc = "admit"
  /\ SetVerification(attempt[v].call, attempt[v].contact)
  /\ Conclude(v, "VERIFIED")
  /\ UNCHANGED <<offered, wrong, resolved, signals, candidate, account, clock, lost>>

\* A call to the table fails: nothing is written and the caller is told to wait.
FailAttempt(v) ==
  /\ attempt[v].pc \notin {"idle", "done"}
  /\ Fault
  /\ AnswerAttempt(v, "SERVICE_UNAVAILABLE")
  /\ UNCHANGED <<offered, wrong, resolved, signals, gate, candidate, account, clock, lost>>

AttemptStep(v) ==
  \/ CountOffer(v) \/ SuspectGuessing(v) \/ ReadRecord(v) \/ ReadWrongValues(v)
  \/ MarkWrongValues(v) \/ Settle(v) \/ NoteConflict(v) \/ Admit(v) \/ FailAttempt(v)
=============================================================================
