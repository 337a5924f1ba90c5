---------------------------- MODULE MatchPayment ----------------------------
(***************************************************************************)
(* handlers/match_payment.py: the endpoint that compares a payment the     *)
(* caller describes with those on record.  It only reads, but it reads     *)
(* four times: the gate, the invoice, the payments, and the payments once  *)
(* more for the address on the one that matched.                           *)
(***************************************************************************)
EXTENDS CallerRows, OpenItems

CONSTANTS
  Questions,   \* invocations of the endpoint
  Claims,      \* the amounts and dates agents send
  Garbled      \* an amount or a date that cannot be read

ASSUME MatchPaymentAssumption ==
  \A claim \in Claims :
    claim.amount \in Nat \cup {NotSaid, Garbled} /\ claim.date \in Nat \cup {NotSaid, Garbled}

VARIABLE question   \* per invocation: where it is, whom it is for, what it answered

QuestionPcs == {"idle", "gate", "invoice", "payments", "address", "done"}

QuestionReplies ==
  {"MATCH", "NO_MATCH", "INSUFFICIENT", "NOT_AUTHORIZED", "VALIDATION", "SERVICE_UNAVAILABLE", "none"}

Links == {"ABSENT", "EXACT", "OTHER_INVOICE", "PROBABLE_TYPO", "UNRELATED"}

Results ==
  [status : {"MATCH", "NO_MATCH", "INSUFFICIENT", "none"}, payment : Payments \cup {NoPayment},
   covers : BOOLEAN, link : Links, address : BOOLEAN, name : BOOLEAN,
   missing : SUBSET {"claimed_amount", "claimed_transfer_date"}]

NoClaim == [amount |-> NotSaid, date |-> NotSaid]

\* "spoken" is whether the address of the payment is in the answer.
NewQuestion ==
  [pc |-> "idle", call |-> "none", customer |-> Nobody, invoice |-> "none", claim |-> NoClaim,
   result |-> NoResult, spoken |-> FALSE, reply |-> "none"]

QuestionStates ==
  [pc : QuestionPcs, call : Calls \cup {"none"}, customer : Accounts \cup {Nobody},
   invoice : Invoices \cup {"none"}, claim : Claims \cup {NoClaim}, result : Results,
   spoken : BOOLEAN, reply : QuestionReplies]

QuestionTypeOK == question \in [Questions -> QuestionStates]

QuestionInit == question = [m \in Questions |-> NewQuestion]

Ask(m, pc, fields) == question' = [question EXCEPT ![m] = [fields EXCEPT !.pc = pc]]

AnswerQuestion(m, reply) == Ask(m, "done", [question[m] EXCEPT !.reply = reply])

-----------------------------------------------------------------------------

\* Entries of any account that quote this as their number or key, but for the
\* invoice under discussion.
KnownReferences(invoice) ==
  UNION {{Invoice[i].number, Invoice[i].key} : i \in Invoices \ {invoice}}

\* A payer's address is on the row only when it differs from the one on file.
Candidate(p) ==
  [entry |-> p, amount |-> Payment[p].amount, date |-> Payment[p].date,
   status |-> "UNALLOCATED", reference |-> Payment[p].reference,
   nameMatches |-> Payment[p].nameMatches, addressMatches |-> Payment[p].addressMatches]

Candidates(customer) == {Candidate(p) : p \in PaymentsOf(customer) \cap listed}

BeginQuestion(m, c, i, claim) ==
  /\ question[m].pc = "idle" /\ Arrived(c)
  /\ Ask(m, "gate", [NewQuestion EXCEPT !.call = c, !.invoice = i, !.claim = claim])
  /\ UNCHANGED <<rowVars, itemVars>>

\* verified_context: the row, not the conversation, says who is asking.
PassGate(m) ==
  /\ question[m].pc = "gate"
  /\ IF Verified(question[m].call)
       THEN Ask(m, "invoice", [question[m] EXCEPT !.customer = gate[question[m].call].customer])
       ELSE AnswerQuestion(m, "NOT_AUTHORIZED")
  /\ UNCHANGED <<rowVars, itemVars>>

\* Mutant: whose invoice it is is left to the agent.
ReadAnyInvoice(m) ==
  /\ question[m].pc = "invoice"
  /\ IF question[m].invoice \in owed /\ Garbled \notin {question[m].claim.amount, question[m].claim.date}
       THEN Ask(m, "payments", question[m])
       ELSE AnswerQuestion(m, "VALIDATION")
  /\ UNCHANGED <<rowVars, itemVars>>

\* _invoice_for, and the claim is parsed after it.
ReadInvoice(m) ==
  LET i == question[m].invoice
      claim == question[m].claim
  IN  /\ question[m].pc = "invoice"
      /\ IF i \notin InvoicesOf(question[m].customer) THEN AnswerQuestion(m, "NOT_AUTHORIZED")
         ELSE IF i \notin owed \/ Garbled \in {claim.amount, claim.date}
           THEN AnswerQuestion(m, "VALIDATION")
         ELSE Ask(m, "payments", question[m])
      /\ UNCHANGED <<rowVars, itemVars>>

ReadPayments(m) ==
  /\ question[m].pc = "payments"
  /\ LET i == question[m].invoice
         result == MatchClaim(question[m].claim, Invoice[i],
                              Candidates(question[m].customer), KnownReferences(i))
     IN  Ask(m, "address", [question[m] EXCEPT !.result = result])
  /\ UNCHANGED <<rowVars, itemVars>>

\* _payer_address queries again: by now the payment may not be listed.
ReadAddress(m) ==
  LET p == question[m].result.payment
  IN  /\ question[m].pc = "address"
      /\ Ask(m, "done", [question[m] EXCEPT
           !.spoken = p \in PaymentsOf(question[m].customer) \cap listed /\ ~Payment[p].addressMatches,
           !.reply = question[m].result.status])
      /\ UNCHANGED <<rowVars, itemVars>>

FailQuestion(m) ==
  /\ question[m].pc \notin {"idle", "done"}
  /\ Fault
  /\ AnswerQuestion(m, "SERVICE_UNAVAILABLE")
  /\ UNCHANGED <<offered, wrong, resolved, signals, gate, candidate, account, clock, lost, itemVars>>

QuestionStep(m) ==
  PassGate(m) \/ ReadInvoice(m) \/ ReadPayments(m) \/ ReadAddress(m) \/ FailQuestion(m)
=============================================================================
