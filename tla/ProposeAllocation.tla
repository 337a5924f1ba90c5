------------------------- MODULE ProposeAllocation -------------------------
(***************************************************************************)
(* handlers/propose_allocation.py and domain/allocation.py: the endpoint   *)
(* by which a caller's agent puts a payment and the invoice it settles in  *)
(* front of a person.  It reads both rows, looks for a review already open *)
(* on the payment in the CRM's search index, decides, and raises a ticket. *)
(* It never writes the ledger: the ticket is the review.                   *)
(*                                                                         *)
(* The caller has passed the verification gate; the gate's refusal is the  *)
(* one RequestCredit models.                                               *)
(***************************************************************************)
EXTENDS Crm, PaymentLedger

CONSTANTS
  Proposals,      \* invocations of the endpoint
  EntryIds,       \* what an agent can name: rows of the customer, and others
  AuthorityMax    \* policy allocation_authority_max; zero as shipped

ASSUME ProposalAssumption == AuthorityMax \in Nat

VARIABLE proposal   \* per invocation: where it is, what it read, what it answered

ProposalPcs == {"idle", "search", "raise", "done"}

ProposalReplies ==
  {"UNDER_REVIEW", "ALREADY_UNDER_REVIEW", "ALREADY_ALLOCATED", "VALIDATION",
   "NOT_AUTHORIZED", "SERVICE_UNAVAILABLE", "none"}

NewProposal ==
  [pc |-> "idle", payment |-> NoRow, invoice |-> NoRow, read |-> "PENDING",
   reply |-> "none", told |-> "none", answer |-> NoTicket]

ProposalTypeOK ==
  proposal \in
    [Proposals -> [pc : ProposalPcs, payment : Payments \cup {NoRow},
                   invoice : Invoices \cup {NoRow}, read : RowStatuses,
                   reply : ProposalReplies, told : RowStatuses \cup {"none"},
                   answer : Tickets \cup {NoTicket}]]

ProposalInit == proposal = [r \in Proposals |-> NewProposal]

-----------------------------------------------------------------------------

\* decide_allocation: the payment's status first, the agent's authority after.
DecideAllocation(status, amount) ==
  CASE status = "UNDER_REVIEW" -> "ALREADY_UNDER_REVIEW"
    [] status = "ALLOCATED"    -> "ALREADY_ALLOCATED"
    [] status = "UNALLOCATED"  -> IF amount <= AuthorityMax THEN "AUTO_ALLOCATE"
                                                            ELSE "PROPOSE_REVIEW"
    [] OTHER                   -> "NOT_ALLOWED"

Decided(r) == DecideAllocation(proposal[r].read, RowAmount[proposal[r].payment])

\* Mutant: the name of the decision where the status belongs.
NewStatusAsDecided(r) == Decided(r)

\* new_status of the decision: what the caller is told and the audit records.
NewStatus(r) == IF Decided(r) = "AUTO_ALLOCATE" THEN "ALLOCATED" ELSE "UNDER_REVIEW"

Answer(r, reply, told, t) ==
  proposal' = [proposal EXCEPT ![r].pc = "done", ![r].reply = reply,
                               ![r].told = told, ![r].answer = t]

\* Mutant: the ticket may name the payment anywhere, or only its invoice.
NamesEither(t, r) ==
  \/ ticket[t].payload.payment = proposal[r].payment
  \/ proposal[r].invoice \in ticket[t].payload.invoices

\* _open_review compares the first entry a ticket names, which is the payment.
Reviews(t, r) == ticket[t].payload.payment = proposal[r].payment

OpenReviews(page, r) == {t \in page : Reviews(t, r)}

-----------------------------------------------------------------------------

\* _owned_entry, twice: both rows are the customer's and of the right type.
ReadEntries(r, p, i) ==
  /\ proposal[r].pc = "idle"
  /\ p \in Payments /\ i \in Invoices
  /\ \E status \in StatusReads(p) :
       proposal' = [proposal EXCEPT ![r].pc = "search", ![r].payment = p,
                                    ![r].invoice = i, ![r].read = status]
  /\ UNCHANGED <<crmVars, paymentVars>>

RefuseForeign(r, p, i) ==
  /\ proposal[r].pc = "idle"
  /\ ~(p \in Payments /\ i \in Invoices)
  /\ Answer(r, "NOT_AUTHORIZED", "none", NoTicket)
  /\ UNCHANGED <<crmVars, paymentVars>>

\* Somebody at the company has already asked.
AnswerOpenReview(r) ==
  /\ proposal[r].pc = "search"
  /\ \E page \in Pages(PendingRequests) :
       \E t \in OpenReviews(page, r) :
         Answer(r, "ALREADY_UNDER_REVIEW", proposal[r].read, t)
  /\ UNCHANGED <<crmVars, paymentVars>>

\* The search finds no review of this payment: the decision is the row's.
NothingOpen(r) ==
  /\ proposal[r].pc = "search"
  /\ \E page \in Pages(PendingRequests) : OpenReviews(page, r) = {}

\* No ticket is named: review_ticket_id is a field nothing in the code writes.
AnswerAlready(r) ==
  /\ NothingOpen(r)
  /\ Decided(r) \in {"ALREADY_UNDER_REVIEW", "ALREADY_ALLOCATED"}
  /\ Answer(r, Decided(r), proposal[r].read, NoTicket)
  /\ UNCHANGED <<crmVars, paymentVars>>

RefuseStatus(r) ==
  /\ NothingOpen(r)
  /\ Decided(r) = "NOT_ALLOWED"
  /\ Answer(r, "VALIDATION", "none", NoTicket)
  /\ UNCHANGED <<crmVars, paymentVars>>

Propose(r) ==
  /\ NothingOpen(r)
  /\ Decided(r) \in {"PROPOSE_REVIEW", "AUTO_ALLOCATE"}
  /\ proposal' = [proposal EXCEPT ![r].pc = "raise"]
  /\ UNCHANGED <<crmVars, paymentVars>>

Asked(r) == [payment |-> proposal[r].payment, invoices |-> {proposal[r].invoice}]

\* _raise_ticket, and the audit event unless it is lost.  The interaction note that follows is
\* written on the contact, and its failure is swallowed.
RaiseReview(r, t) ==
  /\ proposal[r].pc = "raise"
  /\ CreateTicket(t, Asked(r))
  /\ \/ Audit("propose_allocation", t) /\ UNCHANGED faults
     \/ Fault /\ UNCHANGED auditLog
  /\ Answer(r, "UNDER_REVIEW", NewStatus(r), t)
  /\ UNCHANGED <<today, index, accepted, notes, row, replica>>

\* The ticket is created and its answer is lost.
RaiseReviewUnanswered(r, t) ==
  /\ proposal[r].pc = "raise"
  /\ Fault
  /\ CreateTicket(t, Asked(r))
  /\ Answer(r, "SERVICE_UNAVAILABLE", "none", NoTicket)
  /\ UNCHANGED <<today, index, accepted, notes, paymentVars>>

\* A call fails with nothing written.
FailProposal(r) ==
  /\ proposal[r].pc \in {"search", "raise"}
  /\ Fault
  /\ Answer(r, "SERVICE_UNAVAILABLE", "none", NoTicket)
  /\ UNCHANGED <<today, ticket, index, accepted, notes, paymentVars>>

ProposalNext ==
  \E r \in Proposals :
    \/ \E p, i \in EntryIds : ReadEntries(r, p, i) \/ RefuseForeign(r, p, i)
    \/ AnswerOpenReview(r) \/ AnswerAlready(r) \/ RefuseStatus(r) \/ Propose(r)
    \/ \E t \in Tickets : RaiseReview(r, t) \/ RaiseReviewUnanswered(r, t)
    \/ FailProposal(r)
=============================================================================
