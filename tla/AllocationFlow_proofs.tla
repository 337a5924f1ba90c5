------------------------ MODULE AllocationFlow_proofs ------------------------
(***************************************************************************)
(* Theorems about AllocationFlow for every set of payments, invoices and   *)
(* tickets, every number of proposals and of runs of the applier, and any  *)
(* number of faults, checked by TLAPS.                                     *)
(*                                                                         *)
(* CrmChange and RowChange say, once, all that a step of the workflow can  *)
(* do to the CRM and to the rows.  The inductive invariant, IInv, adds to  *)
(* the types where acceptance comes from, what a row's status says about   *)
(* its other fields, and what a run and a proposal know at each of their   *)
(* program points.                                                         *)
(***************************************************************************)
EXTENDS AllocationFlow, FiniteSetTheorems, TLAPS

-----------------------------------------------------------------------------
(* The inductive invariant, in parts.                                      *)

\* Acceptance is remembered, and the index invents neither it nor a ticket.
AcceptanceInv ==
  \A t \in Tickets :
    /\ ticket[t].outcome = "Absent" => ticket[t].payload = NoPayload
    /\ ticket[t].outcome = "Accepted" \/ index[t] = "Accepted" => t \in accepted
    /\ t \in accepted \/ index[t] # "Absent" => ticket[t].outcome # "Absent"

\* A payment is given to invoices, and a row settled, only with the status
\* that says so.
Moved(e) == row[e].status \in {"ALLOCATED", "PAID"}

RowInv ==
  \A e \in Rows :
    /\ row[e].allocatedTo # {} => Moved(e)
    /\ row[e].settledBy # NoRow => row[e].status = "PAID"
    /\ replica[e] = "ALLOCATED" => Moved(e)

\* A run only handles accepted tickets.  One it is about to act on names
\* invoices, and a payment that covers them; one it is settling has its payment
\* given to those invoices, of which all but the ones left are paid.
RunOK(a) ==
  /\ applier[a].queue \subseteq accepted
  /\ applier[a].pc \in {"move", "settle", "audit", "note", "refuse"} =>
       applier[a].current \in accepted
  /\ applier[a].pc \in {"move", "settle"} => Current(a).invoices # {} /\ Covers(Current(a))
  /\ applier[a].pc = "settle" =>
       /\ row[Current(a).payment].allocatedTo = Current(a).invoices
       /\ applier[a].left \subseteq Current(a).invoices
       /\ \A i \in Current(a).invoices \ applier[a].left : row[i].status = "PAID"

RunInv == \A a \in Appliers : RunOK(a)

\* What an invocation of the endpoint has read and answered.
ProposalOK(r) ==
  LET q == proposal[r]
  IN  /\ q.pc # "done" => q.reply = "none" /\ q.answer = NoTicket
      /\ q.pc \in {"search", "raise"} =>
           /\ q.payment \in Payments \cap EntryIds /\ q.invoice \in Invoices \cap EntryIds
           /\ q.read = "ALLOCATED" => Moved(q.payment)
      /\ q.answer # NoTicket =>
           ticket[q.answer].outcome # "Absent" /\ ticket[q.answer].payload.payment = q.payment
      /\ q.reply = "UNDER_REVIEW" =>
           /\ q.answer # NoTicket
           /\ q.payment \in Payments
           /\ RowAmount[q.payment] > AuthorityMax => q.told = "UNDER_REVIEW"
      /\ q.reply = "ALREADY_ALLOCATED" => q.payment \in Payments /\ Moved(q.payment)

ProposalInv == \A r \in Proposals : ProposalOK(r)

\* The payments that were moved and whose invoices nobody is settling any more.
HalfDone ==
  {p \in Payments :
    /\ row[p].status = "ALLOCATED"
    /\ ~Settled(p)
    /\ \A a \in Appliers : ~(applier[a].pc = "settle" /\ Current(a).payment = p)}

IInv ==
  /\ TypeOK
  /\ AcceptanceInv
  /\ RowInv
  /\ RunInv
  /\ ProposalInv
  /\ IsFiniteSet(HalfDone) /\ Cardinality(HalfDone) <= faults

-----------------------------------------------------------------------------
(* What a step can do.                                                     *)

\* Only these things ever happen to the CRM, whichever part takes the step.
CrmChange ==
  /\ today' \in {today, today + 1} /\ today' \in Days
  /\ faults' = faults \/ Fault
  /\ \/ UNCHANGED <<ticket, accepted>>
     \/ \E t \in Tickets, p \in Payloads :
          CreateTicket(t, p) /\ UNCHANGED <<accepted, row, replica, applier>>
     \/ \E t \in Tickets, o \in {"Accepted", "Rejected"} :
          Decide(t, o) /\ UNCHANGED <<paymentVars, applier>>
  /\ index' = index \/ \E t \in Tickets : Reindex(t) /\ UNCHANGED <<paymentVars, applier>>
  /\ notes' = notes \/ \E t \in Tickets, kind \in NoteKinds : AppendNote(t, kind)

\* A ticket already in the CRM never changes what it asks for, and accepted
\* tickets stay in the history.
TicketsKept ==
  /\ accepted \subseteq accepted'
  /\ \A t \in Tickets : ticket[t].outcome # "Absent" =>
       ticket'[t].outcome # "Absent" /\ ticket'[t].payload = ticket[t].payload

\* Every step, whichever part takes it, changes the CRM as CrmChange says.
LEMMA CrmStep ==
  ASSUME TypeOK, RunInv, ProposalInv, [Next]_vars
  PROVE  CrmChange
<1> USE CrmAssumption DEF CrmChange, crmVars, paymentVars
<1>1. today \in Days /\ today + 1 \in {today, today + 1}
  BY DEF TypeOK, CrmTypeOK
<1>2. CASE UNCHANGED vars
  BY <1>1, <1>2 DEF vars
<1>3. CASE CrmNext /\ UNCHANGED <<paymentVars, proposal, applier>>
  <2>1. CASE NextDay
    BY <1>1, <2>1 DEF NextDay, Days
  <2>2. ASSUME NEW t \in Tickets, Reindex(t) PROVE CrmChange
    BY <1>1, <1>3, <2>2 DEF Reindex
  <2>3. ASSUME NEW t \in Tickets, NEW o \in {"Accepted", "Rejected"}, Decide(t, o)
        PROVE  CrmChange
    BY <1>1, <1>3, <2>3 DEF Decide
  <2> QED BY <1>3, <2>1, <2>2, <2>3 DEF CrmNext
<1>4. ASSUME NEW t \in Tickets, NEW p \in HandPayloads, RaiseByHand(t, p),
             UNCHANGED <<paymentVars, proposal, applier>>
      PROVE  CrmChange
  BY <1>1, <1>4, FlowAssumption DEF RaiseByHand
<1>5. CASE PaymentLedgerNext /\ UNCHANGED <<crmVars, proposal, applier>>
  BY <1>1, <1>5
<1>6. CASE ProposalNext /\ UNCHANGED applier
  <2>1. ASSUME NEW r \in Proposals, NEW t \in Tickets,
               RaiseReview(r, t) \/ RaiseReviewUnanswered(r, t)
        PROVE  CrmChange
    <3>1. Asked(r) \in Payloads
      BY <2>1, FlowAssumption DEF RaiseReview, RaiseReviewUnanswered, ProposalInv, ProposalOK, Asked
    <3>2. CreateTicket(t, Asked(r)) /\ UNCHANGED <<today, index, accepted, notes, row, replica>>
      BY <2>1 DEF RaiseReview, RaiseReviewUnanswered
    <3>3. faults' = faults \/ Fault
      BY <2>1 DEF RaiseReview, RaiseReviewUnanswered
    <3> HIDE DEF Asked
    <3> QED BY <1>1, <1>6, <3>1, <3>2, <3>3
  <2>2. ASSUME NEW r \in Proposals, FailProposal(r) PROVE CrmChange
    BY <1>1, <2>2 DEF FailProposal
  <2>3. CASE UNCHANGED crmVars
    BY <1>1, <2>3
  <2> QED
    BY <1>6, <2>1, <2>2, <2>3
    DEF ProposalNext, ReadEntries, RefuseForeign, AnswerOpenReview, AnswerAlready, RefuseStatus,
        Propose
<1>7. CASE ApplierNext /\ UNCHANGED proposal
  <2>1. ASSUME NEW a \in Appliers, NoteAllocated(a) \/ NoteRefused(a) PROVE CrmChange
    <3>1. applier[a].current \in accepted /\ accepted \subseteq Tickets
      BY <2>1 DEF NoteAllocated, NoteRefused, RunInv, RunOK, TypeOK, CrmTypeOK
    <3> QED BY <1>1, <2>1, <3>1 DEF NoteAllocated, NoteRefused, NoteKinds
  <2>2. ASSUME NEW a \in Appliers, ApplierFault(a) PROVE CrmChange
    BY <1>1, <2>2
    DEF ApplierFault, MoveUnanswered, LoseAudit, FailTicket, CrashRun, FailRecheck
  <2>3. CASE UNCHANGED crmVars
    BY <1>1, <2>3
  <2>4. ASSUME NEW a \in Appliers, AuditAllocation(a) PROVE UNCHANGED crmVars
    BY <2>4 DEF AuditAllocation
  <2>5. ASSUME NEW a \in Appliers, Fetch(a) \/ ApplierStep(a)
        PROVE  UNCHANGED crmVars \/ NoteAllocated(a) \/ NoteRefused(a)
    BY <2>4, <2>5
    DEF ApplierStep, Fetch, AbortRun, SkipMalformed, Recheck, MovePayment, AlreadyMoved,
        SettleInvoice
  <2> QED
    BY <1>7, <2>1, <2>2, <2>3, <2>5 DEF ApplierNext
<1> QED
  BY <1>2, <1>3, <1>4, <1>5, <1>6, <1>7 DEF Next

\* No step loses a ticket, alters what it asks for or forgets an acceptance.
LEMMA TicketsAreKept ==
  ASSUME TypeOK, AcceptanceInv, CrmChange
  PROVE  TicketsKept
<1> USE DEF TicketsKept, TypeOK, CrmTypeOK
<1>1. CASE UNCHANGED <<ticket, accepted>>
  BY <1>1
<1>2. ASSUME NEW t \in Tickets, NEW p \in Payloads, CreateTicket(t, p), accepted' = accepted
      PROVE  TicketsKept
  BY <1>2 DEF CreateTicket
<1>3. ASSUME NEW t \in Tickets, NEW o \in {"Accepted", "Rejected"}, Decide(t, o)
      PROVE  TicketsKept
  BY <1>3 DEF Decide
<1> QED BY <1>1, <1>2, <1>3 DEF CrmChange

\* Nothing else happens to a row than these.
PaymentMoves(a) ==
  /\ applier[a].pc = "move"
  /\ MoveIfUnallocated(Current(a).payment, Current(a).invoices, applier[a].current)
  /\ UNCHANGED <<ticket, accepted>>
  /\ \/ applier' = [applier EXCEPT ![a].pc = "settle", ![a].left = Current(a).invoices]
        /\ faults' = faults
     \/ NextTicket(a, applier[a].queue) /\ Fault

InvoiceSettles(a, i) ==
  /\ applier[a].pc = "settle"
  /\ i \in applier[a].left
  /\ SettleUnlessPaid(i, Current(a).payment, applier[a].current)
  /\ applier' = [applier EXCEPT ![a].left = @ \ {i},
                                ![a].pc = IF applier[a].left = {i} THEN "audit" ELSE @]
  /\ UNCHANGED <<ticket, accepted, faults>>

RowChange ==
  /\ \/ row' = row
     \/ \E p \in Payments : Clear(p) /\ UNCHANGED <<crmVars, proposal, applier>>
     \/ \E i \in Invoices : SettleElsewhere(i) /\ UNCHANGED <<crmVars, proposal, applier>>
     \/ \E a \in Appliers :
          \/ PaymentMoves(a) /\ UNCHANGED <<replica, proposal>>
          \/ \E i \in Rows : InvoiceSettles(a, i) /\ UNCHANGED <<replica, proposal>>
  /\ replica' = replica \/ \E e \in Rows : Replicate(e)
  /\ \/ auditLog' = auditLog
     \/ \E t \in Tickets, action \in {"propose_allocation", "apply_allocation"} : Audit(action, t)

\* Every step, whichever part takes it, changes the rows as RowChange says.
LEMMA RowStep ==
  ASSUME TypeOK, RunInv, [Next]_vars
  PROVE  RowChange
<1> USE DEF RowChange, crmVars, paymentVars
<1>1. CASE UNCHANGED paymentVars
  BY <1>1
<1>2. CASE PaymentLedgerNext /\ UNCHANGED <<crmVars, proposal, applier>>
  BY <1>2, PaymentLedgerAssumption DEF PaymentLedgerNext, Replicate, Clear, SettleElsewhere
<1>3. CASE ProposalNext
  <2>1. ASSUME NEW r \in Proposals, NEW t \in Tickets, RaiseReview(r, t)
        PROVE  RowChange
    BY <2>1 DEF RaiseReview
  <2>2. ASSUME NEW r \in Proposals, NEW t \in Tickets, RaiseReviewUnanswered(r, t)
        PROVE  UNCHANGED paymentVars
    BY <2>2 DEF RaiseReviewUnanswered
  <2> QED
    BY <1>1, <1>3, <2>1, <2>2
    DEF ProposalNext, ReadEntries, RefuseForeign, AnswerOpenReview, AnswerAlready, RefuseStatus,
        Propose, FailProposal
<1>4. CASE ApplierNext /\ UNCHANGED proposal
  <2>1. ASSUME NEW a \in Appliers, MovePayment(a) \/ MoveUnanswered(a)
        PROVE  RowChange
    <3>1. PaymentMoves(a) /\ UNCHANGED <<replica, auditLog>>
      BY <2>1 DEF MovePayment, MoveUnanswered, PaymentMoves
    <3> HIDE DEF PaymentMoves
    <3> QED BY <1>4, <3>1
  <2>2. ASSUME NEW a \in Appliers, NEW i \in Rows, SettleInvoice(a, i)
        PROVE  RowChange
    <3>1. InvoiceSettles(a, i) /\ UNCHANGED <<replica, auditLog>>
      BY <2>2 DEF SettleInvoice, InvoiceSettles
    <3> HIDE DEF InvoiceSettles
    <3> QED BY <1>4, <3>1
  <2>3. ASSUME NEW a \in Appliers, AuditAllocation(a) PROVE RowChange
    <3>1. applier[a].current \in Tickets
      BY <2>3 DEF AuditAllocation, RunInv, RunOK, TypeOK, CrmTypeOK
    <3> QED BY <2>3, <3>1 DEF AuditAllocation
  <2>4. ASSUME NEW a \in Appliers, Fetch(a) \/ ApplierStep(a)
        PROVE  \/ MovePayment(a) \/ \E i \in Rows : SettleInvoice(a, i)
               \/ AuditAllocation(a) \/ UNCHANGED paymentVars
    BY <2>4
    DEF Fetch, ApplierStep, AbortRun, SkipMalformed, Recheck, AlreadyMoved, NoteAllocated,
        NoteRefused
  <2>5. ASSUME NEW a \in Appliers, ApplierFault(a)
        PROVE  MoveUnanswered(a) \/ UNCHANGED paymentVars
    BY <2>5 DEF ApplierFault, LoseAudit, FailTicket, CrashRun, FailRecheck
  <2> QED BY <1>1, <1>4, <2>1, <2>2, <2>3, <2>4, <2>5 DEF ApplierNext
<1> QED
  BY <1>1, <1>2, <1>3, <1>4 DEF Next, vars

\* What a row has come to is never undone: a row that has been moved or paid
\* stays so, with the invoices it was given, and a paid row stays paid.
RowsKept ==
  \A e \in Rows :
    /\ Moved(e) => Moved(e)' /\ row'[e].allocatedTo = row[e].allocatedTo
    /\ row[e].status = "PAID" => row'[e].status = "PAID"

\* No step undoes what a row has come to.
LEMMA RowsAreKept ==
  ASSUME TypeOK, RunInv, RowChange
  PROVE  RowsKept
<1> USE DEF RowsKept, Moved
<1>1. row \in [Rows -> [status : RowStatuses, allocatedTo : SUBSET Rows,
                        settledBy : Rows \cup {NoRow}, source : Tickets \cup {NoTicket}]]
  BY DEF TypeOK, RowTypeOK
<1>2. CASE row' = row
  BY <1>2
<1>3. ASSUME NEW p \in Payments, Clear(p) PROVE RowsKept
  BY <1>1, <1>3 DEF Clear
<1>4. ASSUME NEW i \in Invoices, SettleElsewhere(i) PROVE RowsKept
  BY <1>1, <1>4 DEF SettleElsewhere
<1>5. ASSUME NEW a \in Appliers, PaymentMoves(a) PROVE RowsKept
  BY <1>1, <1>5 DEF PaymentMoves, MoveIfUnallocated
<1>6. ASSUME NEW a \in Appliers, NEW i \in Rows, InvoiceSettles(a, i) PROVE RowsKept
  BY <1>1, <1>6 DEF InvoiceSettles, SettleUnlessPaid
<1> QED BY <1>2, <1>3, <1>4, <1>5, <1>6 DEF RowChange

-----------------------------------------------------------------------------
(* Types are preserved.                                                    *)

\* The CRM keeps its types.
LEMMA CrmTypes ==
  ASSUME TypeOK, CrmChange
  PROVE  CrmTypeOK'
<1> USE CrmAssumption DEF TypeOK, CrmTypeOK
<1>1. today' \in Days
  BY DEF CrmChange
<1>2. faults' \in 0..MaxFaults
  BY DEF CrmChange, Fault
<1>3. /\ ticket' \in [Tickets -> [payload : Payloads \cup {NoPayload},
                                  outcome : TicketOutcomes, modified : Days]]
      /\ \A t \in Tickets : ticket'[t].outcome # "Absent" => ticket'[t].payload \in Payloads
      /\ accepted' \in SUBSET Tickets
  <2>1. CASE UNCHANGED <<ticket, accepted>>
    BY <2>1
  <2>2. ASSUME NEW t \in Tickets, NEW p \in Payloads, CreateTicket(t, p), accepted' = accepted
        PROVE  <1>3!1 /\ <1>3!2 /\ <1>3!3
    BY <2>2 DEF CreateTicket, TicketOutcomes
  <2>3. ASSUME NEW t \in Tickets, NEW o \in {"Accepted", "Rejected"}, Decide(t, o)
        PROVE  <1>3!1 /\ <1>3!2 /\ <1>3!3
    BY <2>3 DEF Decide, TicketOutcomes
  <2> QED BY <2>1, <2>2, <2>3 DEF CrmChange
<1>4. index' \in [Tickets -> TicketOutcomes]
  BY DEF CrmChange, Reindex
<1>5. notes' \in [Tickets -> SUBSET NoteKinds]
  BY DEF CrmChange, AppendNote
<1> QED BY <1>1, <1>2, <1>3, <1>4, <1>5

\* The two updates of a run keep the type of the row they update.
LEMMA UpdateTypes ==
  ASSUME NEW rows \in [Rows -> [status : RowStatuses, allocatedTo : SUBSET Rows,
                                settledBy : Rows \cup {NoRow}, source : Tickets \cup {NoTicket}]],
         NEW e \in Rows, NEW p \in Rows, NEW invoices \in SUBSET Rows, NEW t \in Tickets
  PROVE  /\ [rows EXCEPT ![e].status = "ALLOCATED", ![e].allocatedTo = invoices,
                         ![e].source = t]
              \in [Rows -> [status : RowStatuses, allocatedTo : SUBSET Rows,
                            settledBy : Rows \cup {NoRow}, source : Tickets \cup {NoTicket}]]
         /\ [rows EXCEPT ![e].status = "PAID", ![e].settledBy = p, ![e].source = t]
              \in [Rows -> [status : RowStatuses, allocatedTo : SUBSET Rows,
                            settledBy : Rows \cup {NoRow}, source : Tickets \cup {NoTicket}]]
<1> DEFINE RowType == [status : RowStatuses, allocatedTo : SUBSET Rows,
                       settledBy : Rows \cup {NoRow}, source : Tickets \cup {NoTicket}]
<1>1. "ALLOCATED" \in RowStatuses /\ "PAID" \in RowStatuses
  BY DEF RowStatuses, PaymentStatuses
<1>2. \A r \in RowType : [r EXCEPT !.status = "ALLOCATED", !.allocatedTo = invoices, !.source = t]
                           \in RowType
  BY <1>1
<1>3. \A r \in RowType : [r EXCEPT !.status = "PAID", !.settledBy = p, !.source = t] \in RowType
  BY <1>1
<1>4. rows \in [Rows -> RowType]
  OBVIOUS
<1> HIDE DEF RowType
<1>5. [rows EXCEPT ![e] = [@ EXCEPT !.status = "ALLOCATED", !.allocatedTo = invoices,
                                    !.source = t]] \in [Rows -> RowType]
  BY <1>2, <1>4
<1>6. [rows EXCEPT ![e] = [@ EXCEPT !.status = "PAID", !.settledBy = p, !.source = t]]
        \in [Rows -> RowType]
  BY <1>3, <1>4
<1>7. [rows EXCEPT ![e].status = "ALLOCATED", ![e].allocatedTo = invoices, ![e].source = t]
        = [rows EXCEPT ![e] = [@ EXCEPT !.status = "ALLOCATED", !.allocatedTo = invoices,
                                        !.source = t]]
  BY <1>4
<1>8. [rows EXCEPT ![e].status = "PAID", ![e].settledBy = p, ![e].source = t]
        = [rows EXCEPT ![e] = [@ EXCEPT !.status = "PAID", !.settledBy = p, !.source = t]]
  BY <1>4
<1> QED BY <1>5, <1>6, <1>7, <1>8 DEF RowType

\* The rows keep their types.
LEMMA RowTypes ==
  ASSUME TypeOK, RunInv, RowChange
  PROVE  RowTypeOK'
<1> DEFINE RowType == [status : RowStatuses, allocatedTo : SUBSET Rows,
                       settledBy : Rows \cup {NoRow}, source : Tickets \cup {NoTicket}]
<1>1. row \in [Rows -> RowType] /\ replica \in [Rows -> RowStatuses]
  BY DEF TypeOK, RowTypeOK
<1>2. row' \in [Rows -> RowType]
  <2>0. /\ \A e \in Rows, invoices \in SUBSET Rows, t \in Tickets :
             [row EXCEPT ![e].status = "ALLOCATED", ![e].allocatedTo = invoices,
                         ![e].source = t] \in [Rows -> RowType]
        /\ \A e \in Rows, p \in Rows, t \in Tickets :
             [row EXCEPT ![e].status = "PAID", ![e].settledBy = p, ![e].source = t]
               \in [Rows -> RowType]
    <3>1. ASSUME NEW e \in Rows, NEW invoices \in SUBSET Rows, NEW t \in Tickets
          PROVE  [row EXCEPT ![e].status = "ALLOCATED", ![e].allocatedTo = invoices,
                             ![e].source = t] \in [Rows -> RowType]
      BY <1>1, UpdateTypes
    <3>2. ASSUME NEW e \in Rows, NEW p \in Rows, NEW t \in Tickets
          PROVE  [row EXCEPT ![e].status = "PAID", ![e].settledBy = p, ![e].source = t]
                   \in [Rows -> RowType]
      BY <1>1, UpdateTypes
    <3> HIDE DEF RowType
    <3> QED BY <3>1, <3>2, Zenon
  <2>1. CASE row' = row
    BY <1>1, <2>1
  <2>2. ASSUME NEW p \in Payments, Clear(p) PROVE row' \in [Rows -> RowType]
    BY <1>1, <2>2 DEF Clear, RowStatuses, PaymentStatuses
  <2>3. ASSUME NEW i \in Invoices, SettleElsewhere(i) PROVE row' \in [Rows -> RowType]
    BY <1>1, <2>3 DEF SettleElsewhere, RowStatuses
  <2>4. ASSUME NEW a \in Appliers, PaymentMoves(a) PROVE row' \in [Rows -> RowType]
    <3>1. /\ applier[a].current \in Tickets
          /\ Current(a).payment \in Rows /\ Current(a).invoices \subseteq Rows
      BY <2>4 DEF PaymentMoves, RunInv, RunOK, Covers, TypeOK, CrmTypeOK
    <3>2. row' = [row EXCEPT ![Current(a).payment].status = "ALLOCATED",
                             ![Current(a).payment].allocatedTo = Current(a).invoices,
                             ![Current(a).payment].source = applier[a].current]
      BY <2>4 DEF PaymentMoves, MoveIfUnallocated
    <3> HIDE DEF Current, RowType
    <3> QED BY <2>0, <3>1, <3>2, Zenon
  <2>5. ASSUME NEW a \in Appliers, NEW i \in Rows, InvoiceSettles(a, i)
        PROVE  row' \in [Rows -> RowType]
    <3>1. applier[a].current \in Tickets /\ Current(a).payment \in Rows
      BY <2>5 DEF InvoiceSettles, RunInv, RunOK, Covers, TypeOK, CrmTypeOK
    <3>2. \/ row' = row
          \/ row' = [row EXCEPT ![i].status = "PAID", ![i].settledBy = Current(a).payment,
                                ![i].source = applier[a].current]
      BY <2>5 DEF InvoiceSettles, SettleUnlessPaid
    <3>3. CASE row' = row
      BY <1>1, <3>3
    <3>4. CASE row' # row
      <4> HIDE DEF Current, RowType
      <4>1. row' = [row EXCEPT ![i].status = "PAID", ![i].settledBy = Current(a).payment,
                               ![i].source = applier[a].current]
        BY <3>2, <3>4, Zenon
      <4>2. [row EXCEPT ![i].status = "PAID", ![i].settledBy = Current(a).payment,
                        ![i].source = applier[a].current] \in [Rows -> RowType]
        BY <2>0, <3>1, Zenon
      <4> QED BY <4>1, <4>2, Zenon
    <3> QED BY <3>3, <3>4
  <2> QED BY <2>1, <2>2, <2>3, <2>4, <2>5 DEF RowChange
<1>3. replica' \in [Rows -> RowStatuses]
  BY <1>1 DEF RowChange, Replicate
<1>4. auditLog' \subseteq {"propose_allocation", "apply_allocation"} \X Tickets
  BY DEF RowChange, Audit, TypeOK, RowTypeOK
<1> QED BY <1>2, <1>3, <1>4 DEF RowTypeOK

\* A step of an invocation changes that invocation alone, to one of the same type.
ProposalType ==
  [pc : ProposalPcs, payment : Payments \cup {NoRow}, invoice : Invoices \cup {NoRow},
   read : RowStatuses, reply : ProposalReplies, told : RowStatuses \cup {"none"},
   answer : Tickets \cup {NoTicket}]

\* An invocation that answers keeps its type.
LEMMA AnswerTypes ==
  ASSUME TypeOK, NEW r \in Proposals, NEW reply \in ProposalReplies,
         NEW told \in RowStatuses \cup {"none"}, NEW t \in Tickets \cup {NoTicket},
         Answer(r, reply, told, t)
  PROVE  ProposalTypeOK'
<1>1. proposal \in [Proposals -> ProposalType]
  BY DEF TypeOK, ProposalTypeOK, ProposalType
<1>2. \A q \in ProposalType :
        [q EXCEPT !.pc = "done", !.reply = reply, !.told = told, !.answer = t] \in ProposalType
  BY DEF ProposalType, ProposalPcs
<1>3. proposal' = [proposal EXCEPT ![r] =
        [@ EXCEPT !.pc = "done", !.reply = reply, !.told = told, !.answer = t]]
  BY <1>1 DEF Answer, ProposalType
<1>4. proposal' \in [Proposals -> ProposalType]
  <2> HIDE DEF ProposalType
  <2> QED BY <1>1, <1>2, <1>3
<1> QED BY <1>4 DEF ProposalTypeOK, ProposalType

\* The endpoint keeps its types.
LEMMA ProposalTypes ==
  ASSUME TypeOK, RowInv, [Next]_vars
  PROVE  ProposalTypeOK'
<1>1. proposal \in [Proposals -> ProposalType]
  BY DEF TypeOK, ProposalTypeOK, ProposalType
<1>2. CASE proposal' = proposal
  BY <1>2 DEF TypeOK, ProposalTypeOK
<1>3. CASE ProposalNext
  <2>1. ASSUME NEW r \in Proposals, NEW p, NEW i, ReadEntries(r, p, i)
        PROVE  ProposalTypeOK'
    <3>1. PICK status \in StatusReads(p) :
            proposal' = [proposal EXCEPT ![r].pc = "search", ![r].payment = p,
                                         ![r].invoice = i, ![r].read = status]
      BY <2>1 DEF ReadEntries
    <3>2. status \in RowStatuses /\ p \in Payments /\ i \in Invoices
      BY <2>1, <3>1 DEF ReadEntries, StatusReads, TypeOK, RowTypeOK, Rows
    <3>3. \A q \in ProposalType :
            [q EXCEPT !.pc = "search", !.payment = p, !.invoice = i, !.read = status]
              \in ProposalType
      BY <3>2 DEF ProposalType, ProposalPcs
    <3>4. proposal' = [proposal EXCEPT ![r] =
            [@ EXCEPT !.pc = "search", !.payment = p, !.invoice = i, !.read = status]]
      BY <1>1, <3>1 DEF ProposalType
    <3>5. proposal' \in [Proposals -> ProposalType]
      <4> HIDE DEF ProposalType
      <4> QED BY <1>1, <3>3, <3>4
    <3> QED BY <3>5 DEF ProposalTypeOK, ProposalType
  <2>2. ASSUME NEW r \in Proposals, NEW p, NEW i, RefuseForeign(r, p, i)
        PROVE  ProposalTypeOK'
    BY <2>2, AnswerTypes DEF RefuseForeign, ProposalReplies
  <2>3. ASSUME NEW r \in Proposals, AnswerOpenReview(r)
        PROVE  ProposalTypeOK'
    <3>1. PICK t \in Tickets : Answer(r, "ALREADY_UNDER_REVIEW", proposal[r].read, t)
      BY <2>3 DEF AnswerOpenReview, Pages, PendingRequests, OpenReviews
    <3>2. proposal[r].read \in RowStatuses
      BY <1>1 DEF ProposalType
    <3> QED BY <3>1, <3>2, AnswerTypes DEF ProposalReplies
  <2>4. ASSUME NEW r \in Proposals, AnswerAlready(r)
        PROVE  ProposalTypeOK'
    <3>1. proposal[r].read \in RowStatuses
      BY <1>1 DEF ProposalType
    <3>2. Decided(r) \in ProposalReplies /\ Answer(r, Decided(r), proposal[r].read, NoTicket)
      BY <2>4 DEF AnswerAlready, ProposalReplies
    <3> HIDE DEF Decided
    <3> QED BY <3>1, <3>2, AnswerTypes
  <2>5. ASSUME NEW r \in Proposals, RefuseStatus(r) \/ FailProposal(r)
        PROVE  ProposalTypeOK'
    BY <2>5, AnswerTypes DEF RefuseStatus, FailProposal, ProposalReplies
  <2>6. ASSUME NEW r \in Proposals, Propose(r)
        PROVE  ProposalTypeOK'
    <3>1. \A q \in ProposalType : [q EXCEPT !.pc = "raise"] \in ProposalType
      BY DEF ProposalType, ProposalPcs
    <3>2. proposal' = [proposal EXCEPT ![r] = [@ EXCEPT !.pc = "raise"]]
      BY <2>6 DEF Propose
    <3>3. proposal' \in [Proposals -> ProposalType]
      <4> HIDE DEF ProposalType
      <4> QED BY <1>1, <3>1, <3>2
    <3> QED BY <3>3 DEF ProposalTypeOK, ProposalType
  <2>7. ASSUME NEW r \in Proposals, NEW t \in Tickets, RaiseReview(r, t)
        PROVE  ProposalTypeOK'
    <3>1. NewStatus(r) \in RowStatuses
      BY DEF NewStatus, RowStatuses, PaymentStatuses
    <3>2. Answer(r, "UNDER_REVIEW", NewStatus(r), t)
      BY <2>7 DEF RaiseReview
    <3> HIDE DEF NewStatus
    <3> QED BY <3>1, <3>2, AnswerTypes DEF ProposalReplies
  <2>8. ASSUME NEW r \in Proposals, NEW t \in Tickets, RaiseReviewUnanswered(r, t)
        PROVE  ProposalTypeOK'
    BY <2>8, AnswerTypes DEF RaiseReviewUnanswered, ProposalReplies
  <2> QED
    BY <1>3, <2>1, <2>2, <2>3, <2>4, <2>5, <2>6, <2>7, <2>8 DEF ProposalNext
<1> QED BY <1>2, <1>3 DEF Next, vars

\* A run's record.
RunType ==
  [pc : ApplierPcs, queue : SUBSET Tickets, current : Tickets \cup {NoTicket}, left : SUBSET Rows]

\* Going on with what is left of the page keeps the type of the runs.
LEMMA NextTicketTypes ==
  ASSUME TypeOK, NEW a \in Appliers, NEW queue \in SUBSET Tickets, NextTicket(a, queue)
  PROVE  ApplierTypeOK'
<1>1. applier \in [Appliers -> RunType]
  BY DEF TypeOK, ApplierTypeOK, RunType
<1>2. (IF queue = {} THEN IdleRun ELSE [IdleRun EXCEPT !.pc = "loop", !.queue = queue]) \in RunType
  BY DEF IdleRun, RunType, ApplierPcs
<1>3. applier' \in [Appliers -> RunType]
  <2> HIDE DEF RunType, IdleRun
  <2> QED BY <1>1, <1>2 DEF NextTicket
<1> QED BY <1>3 DEF ApplierTypeOK, RunType

\* The runs keep their types.
LEMMA ApplierTypes ==
  ASSUME TypeOK, RunInv, [Next]_vars
  PROVE  ApplierTypeOK'
<1>1. applier \in [Appliers -> RunType]
  BY DEF TypeOK, ApplierTypeOK, RunType
<1>2. CASE applier' = applier
  BY <1>2 DEF TypeOK, ApplierTypeOK
<1>3. ASSUME NEW a \in Appliers, NEW run \in RunType, applier' = [applier EXCEPT ![a] = run]
      PROVE  ApplierTypeOK'
  <2>1. applier' \in [Appliers -> RunType]
    <3> HIDE DEF RunType
    <3> QED BY <1>1, <1>3
  <2> QED BY <2>1 DEF ApplierTypeOK, RunType
<1>4. ASSUME NEW a \in Appliers, Fetch(a) \/ ApplierStep(a) \/ ApplierFault(a)
      PROVE  ApplierTypeOK'
  <2>1. applier[a] \in RunType
    BY <1>1
  <2>2. applier[a].queue \in SUBSET Tickets /\ applier[a].left \in SUBSET Rows
    BY <2>1 DEF RunType
  <2>3. ASSUME NEW pc \in ApplierPcs, Goto(a, pc) PROVE ApplierTypeOK'
    <3>1. [applier[a] EXCEPT !.pc = pc] \in RunType
      BY <2>1 DEF RunType
    <3>2. applier' = [applier EXCEPT ![a] = [applier[a] EXCEPT !.pc = pc]]
      BY <2>3 DEF Goto
    <3> HIDE DEF RunType
    <3> QED BY <1>3, <3>1, <3>2
  <2>4. CASE Fetch(a)
    BY <2>4, NextTicketTypes DEF Fetch, Pages, AcceptedRequests
  <2>5. ASSUME NEW t \in Tickets, AbortRun(a, t) PROVE ApplierTypeOK'
    <3>1. IdleRun \in RunType
      BY DEF IdleRun, RunType, ApplierPcs
    <3>2. applier' = [applier EXCEPT ![a] = IdleRun]
      BY <2>5 DEF AbortRun
    <3> HIDE DEF RunType, IdleRun
    <3> QED BY <1>3, <3>1, <3>2
  <2>6. ASSUME NEW t \in Tickets, SkipMalformed(a, t) \/ FailRecheck(a, t) PROVE ApplierTypeOK'
    BY <2>2, <2>6, NextTicketTypes DEF SkipMalformed, FailRecheck
  <2>7. ASSUME NEW t \in Tickets, Recheck(a, t) PROVE ApplierTypeOK'
    <3> DEFINE run == [pc      |-> IF Covers(ticket[t].payload) THEN "move" ELSE "refuse",
                       queue   |-> applier[a].queue \ {t},
                       current |-> t,
                       left    |-> {}]
    <3>1. run \in RunType
      BY <2>2 DEF RunType, ApplierPcs
    <3>2. applier' = [applier EXCEPT ![a] = run]
      BY <2>7 DEF Recheck
    <3> HIDE DEF RunType, run
    <3> QED BY <1>3, <3>1, <3>2
  <2>8. CASE MovePayment(a)
    <3>1. Current(a).invoices \in SUBSET Rows
      BY <2>8 DEF MovePayment, RunInv, RunOK, Covers
    <3>2. [applier[a] EXCEPT !.pc = "settle", !.left = Current(a).invoices] \in RunType
      BY <2>1, <3>1 DEF RunType, ApplierPcs
    <3>3. applier' = [applier EXCEPT ![a] =
                        [applier[a] EXCEPT !.pc = "settle", !.left = Current(a).invoices]]
      BY <1>1, <2>8 DEF MovePayment, RunType
    <3> HIDE DEF RunType, Current
    <3> QED BY <1>3, <3>2, <3>3
  <2>9. ASSUME NEW i \in Rows, SettleInvoice(a, i) PROVE ApplierTypeOK'
    <3> DEFINE pc == IF applier[a].left = {i} THEN "audit" ELSE applier[a].pc
    <3>1. [applier[a] EXCEPT !.left = @ \ {i}, !.pc = pc] \in RunType
      BY <2>1, <2>2 DEF RunType, ApplierPcs
    <3>2. applier' = [applier EXCEPT ![a] = [applier[a] EXCEPT !.left = @ \ {i}, !.pc = pc]]
      BY <1>1, <2>9 DEF SettleInvoice, RunType
    <3> HIDE DEF RunType, pc
    <3> QED BY <1>3, <3>1, <3>2
  <2>10. CASE AuditAllocation(a) \/ LoseAudit(a)
    BY <2>3, <2>10 DEF AuditAllocation, LoseAudit, ApplierPcs
  <2>11. CASE \/ AlreadyMoved(a) \/ NoteAllocated(a) \/ NoteRefused(a)
              \/ MoveUnanswered(a) \/ FailTicket(a)
    <3>1. NextTicket(a, applier[a].queue)
      BY <2>11 DEF AlreadyMoved, NoteAllocated, NoteRefused, MoveUnanswered, FailTicket
    <3> QED BY <2>2, <3>1, NextTicketTypes
  <2>12. CASE CrashRun(a)
    <3>1. IdleRun \in RunType /\ applier' = [applier EXCEPT ![a] = IdleRun]
      BY <2>12 DEF CrashRun, IdleRun, RunType, ApplierPcs
    <3> HIDE DEF RunType, IdleRun
    <3> QED BY <1>3, <3>1
  <2> QED
    BY <1>4, <2>4, <2>5, <2>6, <2>7, <2>8, <2>9, <2>10, <2>11, <2>12
    DEF ApplierStep, ApplierFault
<1> QED BY <1>2, <1>4 DEF Next, ApplierNext, vars

-----------------------------------------------------------------------------
(* The other parts of the invariant are preserved.                         *)

\* Acceptance stays what a person gave, and is never invented by the index.
LEMMA AcceptancePreserved ==
  ASSUME TypeOK, AcceptanceInv, CrmChange
  PROVE  AcceptanceInv'
<1> USE DEF TypeOK, CrmTypeOK, AcceptanceInv
<1>1. CASE UNCHANGED <<ticket, accepted>>
  BY <1>1 DEF CrmChange, Reindex
<1>2. ASSUME NEW t \in Tickets, NEW p \in Payloads, CreateTicket(t, p), accepted' = accepted
      PROVE  AcceptanceInv'
  BY <1>2 DEF CrmChange, CreateTicket, Reindex
<1>3. ASSUME NEW t \in Tickets, NEW o \in {"Accepted", "Rejected"}, Decide(t, o)
      PROVE  AcceptanceInv'
  BY <1>3 DEF Decide, CrmChange, Reindex
<1> QED BY <1>1, <1>2, <1>3 DEF CrmChange

\* A row's other fields keep up with its status, and a replica never runs ahead.
LEMMA RowsPreserved ==
  ASSUME TypeOK, RunInv, RowInv, RowChange, RowsKept
  PROVE  RowInv'
<1>1. row \in [Rows -> [status : RowStatuses, allocatedTo : SUBSET Rows,
                        settledBy : Rows \cup {NoRow}, source : Tickets \cup {NoTicket}]]
      /\ replica \in [Rows -> RowStatuses]
  BY DEF TypeOK, RowTypeOK
<1>2. SUFFICES ASSUME NEW e \in Rows
               PROVE  /\ row'[e].allocatedTo # {} => Moved(e)'
                      /\ row'[e].settledBy # NoRow => row'[e].status = "PAID"
                      /\ replica'[e] = "ALLOCATED" => Moved(e)'
  BY DEF RowInv
<1>3. replica'[e] = "ALLOCATED" => Moved(e)'
  <2>1. replica'[e] \in {replica[e], row[e].status}
    BY <1>1 DEF RowChange, Replicate
  <2> QED BY <2>1 DEF RowInv, RowsKept, Moved
<1>4. CASE row' = row
  BY <1>3, <1>4 DEF RowInv, Moved
<1>5. ASSUME NEW p \in Payments, Clear(p)
      PROVE  row'[e].allocatedTo = row[e].allocatedTo /\ row'[e].settledBy = row[e].settledBy
  BY <1>1, <1>5 DEF Clear
<1>6. ASSUME NEW i \in Invoices, SettleElsewhere(i)
      PROVE  row'[e].allocatedTo = row[e].allocatedTo /\ row'[e].settledBy = row[e].settledBy
  BY <1>1, <1>6 DEF SettleElsewhere
<1>7. ASSUME NEW a \in Appliers, PaymentMoves(a)
      PROVE  /\ row'[e].allocatedTo # {} => Moved(e)'
             /\ row'[e].settledBy = row[e].settledBy
  <2>1. Current(a).payment \in Rows
    BY <1>7 DEF PaymentMoves, RunInv, RunOK, Covers
  <2>2. CASE e = Current(a).payment
    BY <1>1, <1>7, <2>1, <2>2 DEF PaymentMoves, MoveIfUnallocated, Moved
  <2>3. CASE e # Current(a).payment
    BY <1>1, <1>7, <2>1, <2>3 DEF PaymentMoves, MoveIfUnallocated, Moved, RowInv
  <2> QED BY <2>2, <2>3
<1>8. ASSUME NEW a \in Appliers, NEW i \in Rows, InvoiceSettles(a, i)
      PROVE  /\ row'[e].allocatedTo = row[e].allocatedTo
             /\ row'[e].settledBy # NoRow => row'[e].status = "PAID"
  BY <1>1, <1>8 DEF InvoiceSettles, SettleUnlessPaid, RowInv
<1> QED
  BY <1>3, <1>4, <1>5, <1>6, <1>7, <1>8 DEF RowChange, RowInv, RowsKept

\* What holds of a run that does not move still holds: its ticket asks for the
\* same, and what it has done to the rows is not undone.
LEMMA RunKept ==
  ASSUME TypeOK, RunInv, RowInv, AcceptanceInv, TicketsKept, RowsKept, NEW a \in Appliers,
         applier'[a] = applier[a]
  PROVE  RunOK(a)'
<1>1. RunOK(a)
  BY DEF RunInv
<1>2. accepted \subseteq accepted' /\ accepted \subseteq Tickets
  BY DEF TicketsKept, TypeOK, CrmTypeOK
<1>3. ASSUME applier[a].pc \in {"move", "settle"}
      PROVE  Current(a)' = Current(a)
  <2>1. applier[a].current \in accepted
    BY <1>1, <1>3 DEF RunOK
  <2> QED BY <1>2, <2>1 DEF AcceptanceInv, TicketsKept, Current
<1>4. ASSUME applier[a].pc = "settle"
      PROVE  /\ row'[Current(a).payment].allocatedTo = Current(a).invoices
             /\ \A i \in Current(a).invoices \ applier[a].left : row'[i].status = "PAID"
  <2>1. /\ Current(a).payment \in Rows /\ Current(a).invoices \subseteq Rows
        /\ Current(a).invoices # {}
        /\ row[Current(a).payment].allocatedTo = Current(a).invoices
        /\ \A i \in Current(a).invoices \ applier[a].left : row[i].status = "PAID"
    BY <1>1, <1>4 DEF RunOK, Covers
  <2> HIDE DEF Current
  <2> QED BY <2>1 DEF RowInv, RowsKept
<1>5. Covers(Current(a)) = Covers(Current(a))' \/ applier[a].pc \notin {"move", "settle"}
  BY <1>3 DEF Covers
<1> HIDE DEF Current, Covers
<1> QED BY <1>1, <1>2, <1>3, <1>4, <1>5 DEF RunOK

\* What a run knows at its program points stays true, whoever takes the step.
LEMMA RunPreserved ==
  ASSUME TypeOK, RunInv, RowInv, AcceptanceInv, TicketsKept, RowsKept, [Next]_vars
  PROVE  RunInv'
<1>1. SUFFICES ASSUME NEW b \in Appliers, applier'[b] # applier[b]
               PROVE  RunOK(b)'
  BY RunKept DEF RunInv
<1>2. PICK a \in Appliers : Fetch(a) \/ ApplierStep(a) \/ ApplierFault(a)
  BY <1>1 DEF Next, ApplierNext, vars
<1>3. applier \in [Appliers -> RunType]
  BY DEF TypeOK, ApplierTypeOK, RunType
<1>4. accepted \subseteq accepted' /\ RunOK(a) /\ accepted \subseteq Tickets
  BY DEF RunInv, TicketsKept, TypeOK, CrmTypeOK
<1>5. ASSUME NEW queue \in SUBSET accepted, NextTicket(a, queue)
      PROVE  RunOK(b)'
  BY <1>1, <1>3, <1>4, <1>5 DEF NextTicket, IdleRun, RunOK, RunType
<1>6. ASSUME NEW pc \in {"audit", "note"}, Goto(a, pc), applier[a].pc = "audit"
      PROVE  RunOK(b)'
  BY <1>1, <1>3, <1>4, <1>6 DEF Goto, RunOK, RunType
<1>7. CASE Fetch(a)
  <2>1. PICK page \in Pages(AcceptedRequests) : NextTicket(a, page)
    BY <1>7 DEF Fetch
  <2>2. page \subseteq accepted
    BY DEF Pages, AcceptedRequests, AcceptanceInv
  <2> QED BY <1>5, <2>1, <2>2
<1>8. ASSUME NEW t \in Tickets, Recheck(a, t) PROVE RunOK(b)'
  <2> DEFINE p == ticket[t].payload
             run == [pc      |-> IF Covers(p) THEN "move" ELSE "refuse",
                     queue   |-> applier[a].queue \ {t},
                     current |-> t,
                     left    |-> {}]
  <2>1. applier' = [applier EXCEPT ![a] = run] /\ UNCHANGED ticket /\ p.invoices # {}
    BY <1>8 DEF Recheck, crmVars
  <2>2. b = a /\ applier'[b] = run
    BY <1>1, <1>3, <2>1
  <2>3. t \in accepted' /\ run.queue \subseteq accepted'
    BY <1>4, <1>8 DEF Recheck, RunOK
  <2>4. Current(b)' = p
    BY <2>1, <2>2 DEF Current
  <2>5. Covers(Current(b))' <=> Covers(p)
    BY <2>4 DEF Covers
  <2>6. /\ applier'[b].pc \in {"move", "refuse"} /\ applier'[b].current = t
        /\ applier'[b].queue = run.queue
        /\ applier'[b].pc = "move" => Covers(p)
    BY <2>2
  <2> HIDE DEF p, run, Current, Covers
  <2> QED BY <2>1, <2>3, <2>4, <2>5, <2>6 DEF RunOK
<1>9. CASE MovePayment(a)
  <2>1. /\ applier' = [applier EXCEPT ![a].pc = "settle", ![a].left = Current(a).invoices]
        /\ UNCHANGED ticket /\ applier[a].pc = "move"
    BY <1>9 DEF MovePayment, crmVars
  <2>2. /\ b = a /\ applier'[b].pc = "settle" /\ applier'[b].left = Current(a).invoices
        /\ applier'[b].current = applier[a].current /\ applier'[b].queue = applier[a].queue
    BY <1>1, <1>3, <2>1 DEF RunType
  <2>3. Current(b)' = Current(a)
    BY <2>1, <2>2 DEF Current
  <2>4. Covers(Current(a)) /\ Current(a).invoices # {}
    BY <1>4, <2>1 DEF RunOK
  <2>5. Covers(Current(b))'
    BY <2>3, <2>4 DEF Covers
  <2>6. row'[Current(a).payment].allocatedTo = Current(a).invoices
    <3>1. Current(a).payment \in Rows
      BY <2>4 DEF Covers
    <3> HIDE DEF Current
    <3> QED BY <1>9, <3>1 DEF MovePayment, MoveIfUnallocated, TypeOK, RowTypeOK
  <2> HIDE DEF Current, Covers
  <2> QED BY <1>4, <2>1, <2>2, <2>3, <2>4, <2>5, <2>6 DEF RunOK
<1>10. ASSUME NEW i \in Rows, SettleInvoice(a, i) PROVE RunOK(b)'
  <2>1. /\ applier' = [applier EXCEPT ![a].left = @ \ {i},
                                      ![a].pc = IF applier[a].left = {i} THEN "audit" ELSE @]
        /\ UNCHANGED ticket /\ applier[a].pc = "settle" /\ i \in applier[a].left
    BY <1>10 DEF SettleInvoice, crmVars
  <2>2. /\ b = a /\ applier'[b].pc \in {"settle", "audit"}
        /\ applier'[b].left = applier[a].left \ {i}
        /\ applier'[b].current = applier[a].current /\ applier'[b].queue = applier[a].queue
    BY <1>1, <1>3, <2>1 DEF RunType
  <2>3. Current(b)' = Current(a)
    BY <2>1, <2>2 DEF Current
  <2>4. /\ Covers(Current(a)) /\ Current(a).invoices # {}
        /\ row[Current(a).payment].allocatedTo = Current(a).invoices
        /\ applier[a].left \subseteq Current(a).invoices
        /\ \A j \in Current(a).invoices \ applier[a].left : row[j].status = "PAID"
    BY <1>4, <2>1 DEF RunOK
  <2>5. Covers(Current(b))'
    BY <2>3, <2>4 DEF Covers
  <2>6. /\ Current(a).payment \in Rows /\ Current(a).invoices \subseteq Rows
    BY <2>4 DEF Covers
  <2>7. row'[Current(a).payment].allocatedTo = Current(a).invoices
    <3> HIDE DEF Current
    <3> QED BY <2>4, <2>6 DEF RowInv, RowsKept
  <2>8. row'[i].status = "PAID"
    <3> HIDE DEF Current
    <3> QED BY <1>10 DEF SettleInvoice, SettleUnlessPaid, TypeOK, RowTypeOK
  <2>9. \A j \in Current(a).invoices \ applier'[b].left : row'[j].status = "PAID"
    <3> HIDE DEF Current
    <3> QED BY <2>2, <2>4, <2>6, <2>8 DEF RowsKept
  <2> HIDE DEF Current, Covers
  <2> QED BY <1>4, <2>1, <2>2, <2>3, <2>4, <2>5, <2>7, <2>9 DEF RunOK
<1>11. CASE AuditAllocation(a) \/ LoseAudit(a)
  BY <1>6, <1>11 DEF AuditAllocation, LoseAudit
<1>12. ASSUME NEW t \in Tickets, FailRecheck(a, t) \/ SkipMalformed(a, t) PROVE RunOK(b)'
  <2>1. applier[a].queue \ {t} \subseteq accepted
    BY <1>4 DEF RunOK
  <2> QED BY <1>5, <1>12, <2>1 DEF FailRecheck, SkipMalformed
<1>13. ASSUME applier' = [applier EXCEPT ![a] = IdleRun] PROVE RunOK(b)'
  BY <1>1, <1>3, <1>13 DEF IdleRun, RunOK
<1>14. CASE \/ AlreadyMoved(a) \/ MoveUnanswered(a) \/ NoteAllocated(a)
            \/ NoteRefused(a) \/ FailTicket(a)
  <2>1. applier[a].queue \subseteq accepted
    BY <1>4 DEF RunOK
  <2>2. NextTicket(a, applier[a].queue)
    BY <1>14 DEF AlreadyMoved, MoveUnanswered, NoteAllocated, NoteRefused, FailTicket
  <2> QED BY <1>5, <2>1, <2>2
<1>15. ASSUME NEW t \in Tickets, AbortRun(a, t) PROVE RunOK(b)'
  BY <1>13, <1>15 DEF AbortRun
<1>16. CASE CrashRun(a)
  BY <1>13, <1>16 DEF CrashRun
<1> QED
  BY <1>2, <1>7, <1>8, <1>9, <1>10, <1>11, <1>12, <1>14, <1>15, <1>16
  DEF ApplierStep, ApplierFault

\* What holds of an invocation that does not move still holds: its ticket is
\* still about its payment, and a payment that has moved stays so.
LEMMA InvocationKept ==
  ASSUME TypeOK, ProposalInv, RowsKept, TicketsKept, NEW r \in Proposals,
         proposal'[r] = proposal[r]
  PROVE  ProposalOK(r)'
<1>1. ProposalOK(r) /\ proposal[r].answer \in Tickets \cup {NoTicket}
  BY DEF ProposalInv, TypeOK, ProposalTypeOK
<1>2. \A p \in Payments : Moved(p) => Moved(p)'
  BY DEF RowsKept, Rows
<1> QED BY <1>1, <1>2 DEF ProposalOK, TicketsKept

\* An invocation that answers about no ticket and claims nothing has nothing
\* to keep.
LEMMA PlainAnswer ==
  ASSUME TypeOK, NEW r \in Proposals, NEW reply, NEW told, Answer(r, reply, told, NoTicket),
         reply \notin {"UNDER_REVIEW", "ALREADY_ALLOCATED"}
  PROVE  ProposalOK(r)'
<1>1. /\ proposal'[r].pc = "done" /\ proposal'[r].reply = reply
      /\ proposal'[r].answer = NoTicket
  BY DEF Answer, TypeOK, ProposalTypeOK
<1> QED BY <1>1 DEF ProposalOK

\* What the endpoint has read and answered stays true, whoever takes the step.
LEMMA ProposalsPreserved ==
  ASSUME TypeOK, ProposalInv, RowInv, AcceptanceInv, RowsKept, TicketsKept, [Next]_vars
  PROVE  ProposalInv'
<1>1. SUFFICES ASSUME NEW s \in Proposals, proposal'[s] # proposal[s]
               PROVE  ProposalOK(s)'
  BY InvocationKept DEF ProposalInv
<1>2. proposal \in [Proposals -> ProposalType]
  BY DEF TypeOK, ProposalTypeOK, ProposalType
<1>3. ProposalNext
  BY <1>1 DEF Next, vars
<1>4. ASSUME NEW r \in Proposals, NEW p \in EntryIds, NEW i \in EntryIds, ReadEntries(r, p, i)
      PROVE  ProposalOK(s)'
  <2>1. PICK status \in StatusReads(p) :
          proposal' = [proposal EXCEPT ![r].pc = "search", ![r].payment = p,
                                       ![r].invoice = i, ![r].read = status]
    BY <1>4 DEF ReadEntries
  <2>2. s = r /\ proposal'[s] = [proposal[s] EXCEPT !.pc = "search", !.payment = p,
                                                    !.invoice = i, !.read = status]
    BY <1>1, <1>2, <2>1 DEF ProposalType
  <2>3. /\ proposal'[s].pc = "search" /\ proposal'[s].payment = p /\ proposal'[s].invoice = i
        /\ proposal'[s].read = status /\ proposal'[s].reply = proposal[s].reply
        /\ proposal'[s].answer = proposal[s].answer
    BY <1>2, <2>2 DEF ProposalType
  <2>4. proposal[s].reply = "none" /\ proposal[s].answer = NoTicket
    BY <1>4, <2>2 DEF ReadEntries, ProposalInv, ProposalOK
  <2>5. p \in Payments \cap EntryIds /\ i \in Invoices \cap EntryIds
    BY <1>4 DEF ReadEntries
  <2>6. status = "ALLOCATED" => Moved(p)'
    <3>1. status \in {row[p].status, replica[p]} /\ p \in Rows
      BY <2>1, <2>5 DEF StatusReads, Rows
    <3> QED BY <3>1 DEF RowInv, RowsKept, Moved
  <2> QED BY <2>3, <2>4, <2>5, <2>6 DEF ProposalOK
<1>5. ASSUME NEW r \in Proposals, NEW p, NEW i, RefuseForeign(r, p, i) PROVE ProposalOK(s)'
  <2>1. s = r
    BY <1>1, <1>2, <1>5 DEF RefuseForeign, Answer
  <2> QED BY <1>5, <2>1, PlainAnswer DEF RefuseForeign
<1>6. ASSUME NEW r \in Proposals, AnswerOpenReview(r) PROVE ProposalOK(s)'
  <2>1. PICK t \in Tickets : /\ index[t] = "Undecided" /\ Reviews(t, r)
                             /\ Answer(r, "ALREADY_UNDER_REVIEW", proposal[r].read, t)
    BY <1>6 DEF AnswerOpenReview, Pages, PendingRequests, OpenReviews
  <2>2. s = r
    BY <1>1, <1>2, <2>1 DEF Answer
  <2>3. /\ proposal'[s].pc = "done" /\ proposal'[s].reply = "ALREADY_UNDER_REVIEW"
        /\ proposal'[s].answer = t /\ proposal'[s].payment = proposal[s].payment
    BY <1>2, <2>1, <2>2 DEF Answer, ProposalType
  <2>4. ticket'[t].outcome # "Absent" /\ ticket'[t].payload.payment = proposal[s].payment
    BY <2>1, <2>2 DEF AcceptanceInv, Reviews, TicketsKept
  <2> QED BY <2>3, <2>4 DEF ProposalOK
<1>7. ASSUME NEW r \in Proposals, AnswerAlready(r) PROVE ProposalOK(s)'
  <2>1. s = r
    BY <1>1, <1>2, <1>7 DEF AnswerAlready, Answer
  <2>2. CASE Decided(r) # "ALREADY_ALLOCATED"
    <3>1. Decided(r) = "ALREADY_UNDER_REVIEW"
      BY <1>7, <2>2 DEF AnswerAlready
    <3> QED BY <1>7, <2>1, <3>1, PlainAnswer DEF AnswerAlready
  <2>3. CASE Decided(r) = "ALREADY_ALLOCATED"
    <3>1. proposal[r].read = "ALLOCATED"
      BY <2>3 DEF Decided, DecideAllocation
    <3>2. proposal[r].payment \in Payments /\ Moved(proposal[r].payment)
      BY <1>7, <3>1 DEF AnswerAlready, NothingOpen, ProposalInv, ProposalOK
    <3>3. /\ proposal'[s].pc = "done" /\ proposal'[s].reply = "ALREADY_ALLOCATED"
          /\ proposal'[s].answer = NoTicket /\ proposal'[s].payment = proposal[s].payment
      BY <1>2, <1>7, <2>1, <2>3 DEF AnswerAlready, Answer, ProposalType
    <3>4. Moved(proposal[r].payment)'
      <4>1. proposal'[r].payment = proposal[r].payment
        BY <2>1, <3>3
      <4>2. \A p \in Payments : Moved(p) => Moved(p)'
        BY DEF RowsKept, Rows
      <4> QED BY <3>2, <4>1, <4>2
    <3> QED BY <2>1, <3>2, <3>3, <3>4 DEF ProposalOK
  <2> QED BY <2>2, <2>3
<1>8. ASSUME NEW r \in Proposals, RefuseStatus(r) \/ FailProposal(r) PROVE ProposalOK(s)'
  <2>1. s = r
    BY <1>1, <1>2, <1>8 DEF RefuseStatus, FailProposal, Answer
  <2> QED BY <1>8, <2>1, PlainAnswer DEF RefuseStatus, FailProposal
<1>9. ASSUME NEW r \in Proposals, Propose(r) PROVE ProposalOK(s)'
  <2>1. s = r
    BY <1>1, <1>2, <1>9 DEF Propose
  <2>2. /\ proposal'[s].pc = "raise" /\ proposal'[s].payment = proposal[s].payment
        /\ proposal'[s].invoice = proposal[s].invoice /\ proposal'[s].read = proposal[s].read
        /\ proposal'[s].reply = proposal[s].reply /\ proposal'[s].answer = proposal[s].answer
        /\ row' = row
    BY <1>2, <1>9, <2>1 DEF Propose, ProposalType, paymentVars
  <2>3. ProposalOK(s) /\ proposal[s].pc = "search"
    BY <1>9, <2>1 DEF Propose, NothingOpen, ProposalInv
  <2> QED BY <2>2, <2>3 DEF ProposalOK, Moved
<1>10. ASSUME NEW r \in Proposals, NEW t \in Tickets, RaiseReview(r, t) PROVE ProposalOK(s)'
  <2>1. s = r
    BY <1>1, <1>2, <1>10 DEF RaiseReview, Answer
  <2>2. /\ proposal'[s].pc = "done" /\ proposal'[s].reply = "UNDER_REVIEW"
        /\ proposal'[s].answer = t /\ proposal'[s].payment = proposal[s].payment
        /\ proposal'[s].told = NewStatus(s)
    BY <1>2, <1>10, <2>1 DEF RaiseReview, Answer, ProposalType
  <2>3. proposal[s].payment \in Payments
    BY <1>10, <2>1 DEF RaiseReview, ProposalInv, ProposalOK
  <2>4. ticket'[t].outcome # "Absent" /\ ticket'[t].payload.payment = proposal[s].payment
    BY <1>10, <2>1 DEF RaiseReview, CreateTicket, Asked, TypeOK, CrmTypeOK
  <2>5. RowAmount[proposal[s].payment] > AuthorityMax => NewStatus(s) = "UNDER_REVIEW"
    <3>1. RowAmount[proposal[s].payment] \in Nat /\ AuthorityMax \in Nat
      BY <2>3, PaymentLedgerAssumption, ProposalAssumption DEF Rows
    <3> QED BY <3>1 DEF NewStatus, Decided, DecideAllocation
  <2>6. t # NoTicket
    BY FlowAssumption
  <2> HIDE DEF NewStatus
  <2> QED BY <2>2, <2>3, <2>4, <2>5, <2>6 DEF ProposalOK
<1>11. ASSUME NEW r \in Proposals, NEW t \in Tickets, RaiseReviewUnanswered(r, t)
       PROVE  ProposalOK(s)'
  <2>1. s = r
    BY <1>1, <1>2, <1>11 DEF RaiseReviewUnanswered, Answer
  <2> QED BY <1>11, <2>1, PlainAnswer DEF RaiseReviewUnanswered
<1> QED
  BY <1>3, <1>4, <1>5, <1>6, <1>7, <1>8, <1>9, <1>10, <1>11 DEF ProposalNext

-----------------------------------------------------------------------------
(* A step leaves at most one more payment half done, and then it failed.   *)

\* A payment that is half done after a step was so before, unless the step is
\* the failure of a run that was moving it or settling its invoices.
LEMMA HalfDoneStep ==
  ASSUME TypeOK, AcceptanceInv, RowInv, RunInv, TicketsKept, RowsKept, RowChange, [Next]_vars,
         NEW p \in HalfDone', p \notin HalfDone
  PROVE  Fault /\ \E a \in Appliers : applier'[a] # applier[a] /\ Current(a).payment = p
<1>1. /\ p \in Payments /\ p \in Rows /\ row'[p].status = "ALLOCATED"
      /\ \E i \in row'[p].allocatedTo : row'[i].status # "PAID"
      /\ \A a \in Appliers : ~(applier'[a].pc = "settle" /\ Current(a)'.payment = p)
  BY DEF HalfDone, Settled, Rows
<1>2. /\ row \in [Rows -> [status : RowStatuses, allocatedTo : SUBSET Rows,
                           settledBy : Rows \cup {NoRow}, source : Tickets \cup {NoTicket}]]
      /\ applier \in [Appliers -> RunType]
  BY DEF TypeOK, RowTypeOK, ApplierTypeOK, RunType
<1>3. CASE row[p].status # "ALLOCATED"
  <2>1. PICK a \in Appliers : PaymentMoves(a) /\ Current(a).payment = p
    <3>1. row' # row
      BY <1>1, <1>3
    <3>2. ASSUME NEW q \in Payments, Clear(q) PROVE row'[p].status # "ALLOCATED"
      BY <1>1, <1>2, <1>3, <3>2 DEF Clear
    <3>3. ASSUME NEW i \in Invoices, SettleElsewhere(i) PROVE row'[p].status # "ALLOCATED"
      BY <1>1, <1>2, <1>3, <3>3 DEF SettleElsewhere
    <3>4. ASSUME NEW a \in Appliers, NEW i \in Rows, InvoiceSettles(a, i)
          PROVE  row'[p].status # "ALLOCATED"
      BY <1>1, <1>2, <1>3, <3>4 DEF InvoiceSettles, SettleUnlessPaid
    <3>5. PICK a \in Appliers : PaymentMoves(a)
      BY <1>1, <3>1, <3>2, <3>3, <3>4 DEF RowChange
    <3>6. Current(a).payment \in Rows
      BY <3>5 DEF PaymentMoves, RunInv, RunOK, Covers
    <3>7. Current(a).payment = p
      <4> HIDE DEF Current
      <4> QED BY <1>1, <1>2, <1>3, <3>5, <3>6 DEF PaymentMoves, MoveIfUnallocated
    <3> QED BY <3>5, <3>7
  <2>2. CASE applier' = [applier EXCEPT ![a].pc = "settle", ![a].left = Current(a).invoices]
    <3>1. applier'[a].pc = "settle" /\ applier'[a].current = applier[a].current
      BY <1>2, <2>2 DEF RunType
    <3>2. Current(a)' = Current(a)
      BY <2>1, <3>1 DEF Current, PaymentMoves
    <3> QED BY <1>1, <2>1, <3>1, <3>2
  <2>3. CASE NextTicket(a, applier[a].queue) /\ Fault
    <3>1. applier[a].pc = "move"
      BY <2>1 DEF PaymentMoves
    <3>2. applier'[a].pc \in {"idle", "loop"}
      BY <1>2, <2>3 DEF NextTicket, IdleRun
    <3>3. applier'[a] # applier[a]
      BY <3>1, <3>2
    <3> QED BY <2>1, <2>3, <3>3
  <2> QED BY <2>1, <2>2, <2>3 DEF PaymentMoves
<1>4. CASE row[p].status = "ALLOCATED"
  <2>1. ~Settled(p)
    <3>1. row'[p].allocatedTo = row[p].allocatedTo /\ row[p].allocatedTo \subseteq Rows
      BY <1>1, <1>2, <1>4 DEF RowsKept, Moved
    <3> QED BY <1>1, <3>1 DEF RowsKept, Settled
  <2>2. PICK b \in Appliers : applier[b].pc = "settle" /\ Current(b).payment = p
    BY <1>1, <1>4, <2>1 DEF HalfDone
  <2>3. applier[b].current \in accepted /\ applier[b].current \in Tickets
    BY <2>2 DEF RunInv, RunOK, TypeOK, CrmTypeOK
  <2>4. ticket'[applier[b].current].payload = ticket[applier[b].current].payload
    BY <2>3 DEF AcceptanceInv, TicketsKept
  <2>5. applier'[b] # applier[b]
    BY <1>1, <2>2, <2>4 DEF Current
  <2>6. PICK a \in Appliers : Fetch(a) \/ ApplierStep(a) \/ ApplierFault(a)
    BY <2>5 DEF Next, ApplierNext, vars
  <2>7. b = a
    BY <1>2, <2>5, <2>6
    DEF ApplierStep, ApplierFault, Fetch, AbortRun, SkipMalformed, Recheck, MovePayment,
        AlreadyMoved, SettleInvoice, AuditAllocation, NoteAllocated, NoteRefused, MoveUnanswered,
        LoseAudit, FailTicket, CrashRun, FailRecheck, NextTicket, Goto
  <2>8. ASSUME NEW i \in Rows, SettleInvoice(b, i) PROVE FALSE
    <3>1. CASE applier[b].left # {i}
      <4>1. applier'[b].pc = "settle" /\ applier'[b].current = applier[b].current
        BY <1>2, <2>2, <2>8, <3>1 DEF SettleInvoice, RunType
      <4>2. Current(b)'.payment = p
        BY <2>2, <2>4, <4>1 DEF Current
      <4> QED BY <1>1, <4>1, <4>2
    <3>2. CASE applier[b].left = {i}
      <4>1. /\ row[p].allocatedTo = Current(b).invoices
            /\ \A j \in Current(b).invoices \ applier[b].left : row[j].status = "PAID"
        BY <2>2 DEF RunInv, RunOK
      <4>2. row'[i].status = "PAID"
        BY <1>2, <2>8 DEF SettleInvoice, SettleUnlessPaid
      <4>3. row'[p].allocatedTo = row[p].allocatedTo /\ row[p].allocatedTo \subseteq Rows
        BY <1>1, <1>2, <1>4 DEF RowsKept, Moved
      <4> HIDE DEF Current
      <4> QED BY <1>1, <3>2, <4>1, <4>2, <4>3 DEF RowsKept
    <3> QED BY <3>1, <3>2
  <2>9. Fault
    BY <2>2, <2>6, <2>7, <2>8
    DEF ApplierStep, ApplierFault, Fetch, AbortRun, SkipMalformed, Recheck, MovePayment,
        AlreadyMoved, AuditAllocation, NoteAllocated, NoteRefused, MoveUnanswered,
        LoseAudit, FailTicket, CrashRun, FailRecheck
  <2> QED BY <2>2, <2>5, <2>9
<1> QED BY <1>3, <1>4

\* Only one run moves in a step.
LEMMA OneRunMoves ==
  ASSUME TypeOK, [Next]_vars, NEW a \in Appliers, NEW b \in Appliers,
         applier'[a] # applier[a], applier'[b] # applier[b]
  PROVE  a = b
<1>1. PICK c \in Appliers : Fetch(c) \/ ApplierStep(c) \/ ApplierFault(c)
  BY DEF Next, ApplierNext, vars
<1>2. applier \in [Appliers -> RunType]
  BY DEF TypeOK, ApplierTypeOK, RunType
<1> QED
  BY <1>1, <1>2
  DEF ApplierStep, ApplierFault, Fetch, AbortRun, SkipMalformed, Recheck, MovePayment,
      AlreadyMoved, SettleInvoice, AuditAllocation, NoteAllocated, NoteRefused, MoveUnanswered,
      LoseAudit, FailTicket, CrashRun, FailRecheck, NextTicket, Goto

\* There are no more half-done payments than there have been faults.
LEMMA HalfDonePreserved ==
  ASSUME IInv, TicketsKept, RowsKept, RowChange, CrmChange, [Next]_vars
  PROVE  IsFiniteSet(HalfDone)' /\ (Cardinality(HalfDone) <= faults)'
<1>1. /\ IsFiniteSet(HalfDone) /\ Cardinality(HalfDone) <= faults
      /\ Cardinality(HalfDone) \in Nat /\ faults \in Nat
  BY FS_CardinalityType, CrmAssumption DEF IInv, TypeOK, CrmTypeOK
<1>2. faults' \in {faults, faults + 1}
  BY DEF CrmChange, Fault
<1> HIDE DEF HalfDone
<1>3. CASE HalfDone' \subseteq HalfDone
  <2>1. IsFiniteSet(HalfDone') /\ Cardinality(HalfDone') <= Cardinality(HalfDone)
    BY <1>1, <1>3, FS_Subset
  <2>2. Cardinality(HalfDone') \in Nat
    BY <2>1, FS_CardinalityType
  <2> QED BY <1>1, <1>2, <2>1, <2>2
<1>4. ASSUME NEW p \in HalfDone', p \notin HalfDone
      PROVE  IsFiniteSet(HalfDone)' /\ (Cardinality(HalfDone) <= faults)'
  <2>1. ASSUME NEW q \in HalfDone', q \notin HalfDone
        PROVE  Fault /\ \E a \in Appliers : applier'[a] # applier[a] /\ Current(a).payment = q
    BY <2>1, HalfDoneStep DEF IInv
  <2>2. Fault
    BY <1>4, <2>1
  <2>3. ASSUME NEW q \in HalfDone', q \notin HalfDone PROVE q = p
    <3>1. PICK a \in Appliers : applier'[a] # applier[a] /\ Current(a).payment = q
      BY <2>1, <2>3
    <3>2. PICK b \in Appliers : applier'[b] # applier[b] /\ Current(b).payment = p
      BY <1>4, <2>1
    <3>3. a = b
      BY <3>1, <3>2, OneRunMoves DEF IInv
    <3> QED BY <3>1, <3>2, <3>3
  <2>4. HalfDone' \subseteq HalfDone \cup {p}
    BY <2>3
  <2>5. IsFiniteSet(HalfDone \cup {p}) /\ Cardinality(HalfDone \cup {p}) = Cardinality(HalfDone) + 1
    BY <1>1, <1>4, FS_AddElement
  <2>6. IsFiniteSet(HalfDone') /\ Cardinality(HalfDone') <= Cardinality(HalfDone \cup {p})
    BY <2>4, <2>5, FS_Subset
  <2>7. Cardinality(HalfDone') \in Nat
    BY <2>6, FS_CardinalityType
  <2> QED BY <1>1, <2>2, <2>5, <2>6, <2>7 DEF Fault
<1> QED BY <1>3, <1>4

-----------------------------------------------------------------------------
(* The theorems.                                                           *)

\* The invariant holds when the workflow starts.
LEMMA InvariantHoldsAtFirst == Init => IInv
<1> SUFFICES ASSUME Init PROVE IInv
  OBVIOUS
<1> USE DEF Init, CrmInit, PaymentLedgerInit, ProposalInit, ApplierInit
<1>1. CrmTypeOK
  BY CrmAssumption DEF CrmTypeOK, Days, AbsentTicket, TicketOutcomes
<1>2. RowTypeOK
  BY PaymentLedgerAssumption DEF RowTypeOK
<1>3. ProposalTypeOK
  BY DEF ProposalTypeOK, NewProposal, ProposalPcs, ProposalReplies, RowStatuses, PaymentStatuses
<1>4. ApplierTypeOK
  BY DEF ApplierTypeOK, IdleRun, ApplierPcs
<1>5. AcceptanceInv
  BY DEF AcceptanceInv, AbsentTicket
<1>6. RowInv
  BY DEF RowInv, Moved
<1>7. RunInv
  BY DEF RunInv, RunOK, IdleRun
<1>8. ProposalInv
  BY DEF ProposalInv, ProposalOK, NewProposal
<1>9. IsFiniteSet(HalfDone) /\ Cardinality(HalfDone) <= faults
  <2>1. HalfDone = {}
    BY DEF HalfDone, Settled, Rows
  <2> QED BY <2>1, FS_EmptySet
<1> QED
  BY <1>1, <1>2, <1>3, <1>4, <1>5, <1>6, <1>7, <1>8, <1>9 DEF IInv, TypeOK

\* The invariant is inductive: every step keeps every part of it.
LEMMA InvariantIsKept == IInv /\ [Next]_vars => IInv'
<1> SUFFICES ASSUME IInv, [Next]_vars PROVE IInv'
  OBVIOUS
<1>1. CrmChange /\ RowChange
  BY CrmStep, RowStep DEF IInv
<1>2. TicketsKept /\ RowsKept
  BY <1>1, TicketsAreKept, RowsAreKept DEF IInv
<1>3. TypeOK'
  BY <1>1, CrmTypes, RowTypes, ProposalTypes, ApplierTypes DEF IInv, TypeOK
<1>4. AcceptanceInv'
  BY <1>1, AcceptancePreserved DEF IInv
<1>5. RowInv'
  BY <1>1, <1>2, RowsPreserved DEF IInv
<1>6. RunInv'
  BY <1>2, RunPreserved DEF IInv
<1>7. ProposalInv'
  BY <1>2, ProposalsPreserved DEF IInv
<1>8. IsFiniteSet(HalfDone)' /\ (Cardinality(HalfDone) <= faults)'
  BY <1>1, <1>2, HalfDonePreserved
<1> QED
  BY <1>3, <1>4, <1>5, <1>6, <1>7, <1>8 DEF IInv

\* The invariant holds in every reachable state of the allocation workflow
\* (propose_allocation.py and apply_decisions.py over one CRM and one ledger).
THEOREM InvariantIsInvariant == Spec => []IInv
<1>1. Init => IInv
  BY InvariantHoldsAtFirst
<1>2. IInv /\ [Next]_vars => IInv'
  BY InvariantIsKept
<1> QED BY <1>1, <1>2, PTL DEF Spec

\* Every variable of the workflow keeps the type the code gives it.
THEOREM TypesAreKept == Spec => []TypeOK
<1>1. IInv => TypeOK
  BY DEF IInv
<1> QED BY <1>1, InvariantIsInvariant, PTL

\* However many runs overlap, payments left with an unpaid invoice that nobody
\* is settling are no more than the faults there have been: without a failure
\* or a crash between two updates, a payment moves together with its invoices
\* (apply_decisions.py 176-220).
THEOREM HalfDoneNeedsAFault == Spec => []MovedIsSettled
<1>1. IInv => MovedIsSettled
  BY DEF IInv, MovedIsSettled, HalfDone
<1> QED BY <1>1, InvariantIsInvariant, PTL

\* With no authority of its own (allocation_authority_max is zero as shipped),
\* the endpoint tells a caller nothing about a review or an allocation that is
\* not so, whatever stale rows and searches it read (propose_allocation.py).
THEOREM ReviewsAreReal ==
  ASSUME AuthorityMax = 0
  PROVE  Spec => []ReviewIsReal
<1>1. IInv => ReviewIsReal
  <2> SUFFICES ASSUME IInv, NEW r \in Proposals, ProposalOK(r)
               PROVE  /\ proposal[r].answer # NoTicket =>
                           ticket[proposal[r].answer].payload.payment = proposal[r].payment
                      /\ proposal[r].reply = "UNDER_REVIEW" =>
                           proposal[r].answer # NoTicket /\ proposal[r].told = "UNDER_REVIEW"
                      /\ proposal[r].reply = "ALREADY_ALLOCATED" =>
                           row[proposal[r].payment].status \in {"ALLOCATED", "PAID"}
    BY DEF ReviewIsReal, IInv, ProposalInv
  <2>1. \A p \in Payments : RowAmount[p] > AuthorityMax
    BY PaymentLedgerAssumption DEF Rows
  <2> QED BY <2>1 DEF ProposalOK, Moved
<1> QED BY <1>1, InvariantIsInvariant, PTL

-----------------------------------------------------------------------------
(* Refinement: the workflow implements AllocationPromise.                  *)

\* What the promise sees of a row.
Given(e) ==
  [ticket   |-> IF row[e].allocatedTo = {} \/ row[e].settledBy # NoRow
                THEN NoTicket ELSE row[e].source,
   invoices |-> row[e].allocatedTo]

\* The workflow starts in a state the promise allows.
LEMMA PromiseHoldsAtFirst == Init => Promise!Init
BY DEF Init, CrmInit, PaymentLedgerInit, AbsentTicket, Promise!Init, Promise!NotGiven

\* A run that moves a payment gives it, for its ticket, to what the ticket names.
LEMMA MovingIsGiving ==
  ASSUME IInv, NEW a \in Appliers, PaymentMoves(a)
  PROVE  Promise!Next
<1>1. row \in [Rows -> [status : RowStatuses, allocatedTo : SUBSET Rows,
                        settledBy : Rows \cup {NoRow}, source : Tickets \cup {NoTicket}]]
  BY DEF IInv, TypeOK, RowTypeOK
<1>2. /\ applier[a].current \in accepted /\ applier[a].current \in Tickets
      /\ Covers(Current(a)) /\ Current(a).invoices # {}
  BY DEF PaymentMoves, IInv, RunInv, RunOK, TypeOK, CrmTypeOK
<1>3. PICK t \in Tickets : t = applier[a].current
  BY <1>2
<1>4. PICK p \in Rows : p = Current(a).payment
  BY <1>2 DEF Covers
<1>5. PICK invoices \in SUBSET Rows : invoices = Current(a).invoices
  BY <1>2 DEF Covers
<1>6. p = ticket[t].payload.payment /\ invoices = ticket[t].payload.invoices
  BY <1>3, <1>4, <1>5 DEF Current
<1>7. t \in accepted /\ invoices # {} /\ RowAmount[p] >= AmountOf(invoices)
  BY <1>2, <1>3, <1>4, <1>5 DEF Covers
<1>8. row[p].status = "UNALLOCATED" /\ UNCHANGED <<ticket, accepted>>
      /\ row' = [row EXCEPT ![p].status = "ALLOCATED", ![p].allocatedTo = invoices,
                            ![p].source = t]
  BY <1>3, <1>4, <1>5 DEF PaymentMoves, MoveIfUnallocated
<1>9. row[p].allocatedTo = {} /\ row[p].settledBy = NoRow
  BY <1>8 DEF IInv, RowInv, Moved
<1>10. \A e \in Rows : Given(e)' = IF e = p THEN [ticket |-> t, invoices |-> invoices]
                                            ELSE Given(e)
  BY <1>1, <1>7, <1>8, <1>9 DEF Given
<1>11. \A e \in Rows : row'[e].settledBy = row[e].settledBy
  BY <1>1, <1>8
<1>12. Given(p) = Promise!NotGiven
  BY <1>9 DEF Given, Promise!NotGiven
<1>13. [e \in Rows |-> Given(e)]' =
         [[e \in Rows |-> Given(e)] EXCEPT ![p] = [ticket |-> t, invoices |-> invoices]]
  BY <1>10
<1>14. Promise!Give(t)
  <2> DEFINE asks == [x \in Tickets |-> ticket[x].payload]
             gave == [e \in Rows |-> Given(e)]
  <2>1. asks[t].payment = p /\ asks[t].invoices = invoices
    BY <1>6
  <2>2. gave[p] = Promise!NotGiven
    BY <1>12
  <2>3. gave' = [gave EXCEPT ![p] = [ticket |-> t, invoices |-> invoices]]
    BY <1>13
  <2>4. UNCHANGED <<asks, accepted, [e \in Rows |-> row[e].settledBy]>>
    BY <1>8, <1>11
  <2> HIDE DEF asks, gave
  <2>5. /\ {asks[t].payment} \cup asks[t].invoices \subseteq Rows
        /\ gave[asks[t].payment] = Promise!NotGiven
        /\ [e \in Rows |-> row[e].settledBy][asks[t].payment] = NoRow
        /\ RowAmount[asks[t].payment] >= AmountOf(asks[t].invoices)
        /\ gave' = [gave EXCEPT ![asks[t].payment] =
                     [ticket |-> t, invoices |-> asks[t].invoices]]
    BY <1>7, <1>9, <2>1, <2>2, <2>3
  <2> QED
    BY ONLY <1>7, <2>4, <2>5, Zenon DEF Promise!Give, Given, asks, gave
<1> QED BY <1>14 DEF Promise!Next

\* A run that settles a row settles it once, by the payment that was given to it.
LEMMA SettlingIsSettling ==
  ASSUME IInv, NEW a \in Appliers, NEW i \in Rows, InvoiceSettles(a, i)
  PROVE  [Promise!Next]_Promise!promiseVars
<1>1. row \in [Rows -> [status : RowStatuses, allocatedTo : SUBSET Rows,
                        settledBy : Rows \cup {NoRow}, source : Tickets \cup {NoTicket}]]
  BY DEF IInv, TypeOK, RowTypeOK
<1>2. UNCHANGED <<ticket, accepted>>
  BY DEF InvoiceSettles
<1>3. CASE row[i].status = "PAID"
  BY <1>2, <1>3 DEF InvoiceSettles, SettleUnlessPaid, Promise!promiseVars
<1>4. CASE row[i].status # "PAID"
  <2>1. Current(a).payment \in Rows /\ i \in row[Current(a).payment].allocatedTo
    BY DEF InvoiceSettles, IInv, RunInv, RunOK, Covers
  <2>2. PICK p \in Rows : p = Current(a).payment
    BY <2>1
  <2>3. i \in row[p].allocatedTo /\ row[i].settledBy = NoRow
    BY <1>4, <2>1, <2>2 DEF IInv, RowInv
  <2>4. row' = [row EXCEPT ![i].status = "PAID", ![i].settledBy = p,
                           ![i].source = applier[a].current]
    BY <1>4, <2>2 DEF InvoiceSettles, SettleUnlessPaid
  <2>5. \A e \in Rows : row'[e].settledBy = IF e = i THEN p ELSE row[e].settledBy
    BY <1>1, <2>4
  <2>6. \A e \in Rows : Given(e)' = IF e = i THEN [Given(i) EXCEPT !.ticket = NoTicket]
                                             ELSE Given(e)
    BY <1>1, <2>3, <2>4, PaymentLedgerAssumption DEF Given
  <2>7. [e \in Rows |-> Given(e)]' = [[e \in Rows |-> Given(e)] EXCEPT ![i].ticket = NoTicket]
    BY <2>6
  <2>8. Promise!Settle(i, p)
    BY <1>2, <2>3, <2>5, <2>7 DEF Promise!Settle, Given
  <2> QED BY <2>8 DEF Promise!Next
<1> QED BY <1>3, <1>4

\* Every step of the workflow is a step of the promise or leaves it alone.
LEMMA StepKeepsPromise ==
  IInv /\ [Next]_vars => [Promise!Next]_Promise!promiseVars
<1> SUFFICES ASSUME IInv, [Next]_vars PROVE [Promise!Next]_Promise!promiseVars
  OBVIOUS
<1> USE DEF Promise!promiseVars
<1>1. CrmChange /\ RowChange
  BY CrmStep, RowStep DEF IInv
<1>2. ticket \in [Tickets -> [payload : Payloads \cup {NoPayload},
                              outcome : TicketOutcomes, modified : Days]]
      /\ row \in [Rows -> [status : RowStatuses, allocatedTo : SUBSET Rows,
                           settledBy : Rows \cup {NoRow}, source : Tickets \cup {NoTicket}]]
  BY DEF IInv, TypeOK, CrmTypeOK, RowTypeOK
<1>3. CASE UNCHANGED <<ticket, accepted, row>>
  BY <1>3
<1>4. ASSUME NEW a \in Appliers, PaymentMoves(a)
      PROVE  Promise!Next
  BY <1>4, MovingIsGiving
<1>5. ASSUME NEW a \in Appliers, NEW i \in Rows, InvoiceSettles(a, i)
      PROVE  [Promise!Next]_Promise!promiseVars
  BY <1>5, SettlingIsSettling
<1>6. ASSUME NEW e \in Rows, Clear(e) \/ SettleElsewhere(e), UNCHANGED <<ticket, accepted>>
      PROVE  UNCHANGED Promise!promiseVars
  <2>1. \A x \in Rows : /\ row'[x].allocatedTo = row[x].allocatedTo
                        /\ row'[x].settledBy = row[x].settledBy
                        /\ row'[x].source = row[x].source
    BY <1>2, <1>6 DEF Clear, SettleElsewhere
  <2> QED BY <1>6, <2>1
<1>7. ASSUME NEW t \in Tickets, NEW p \in Payloads, CreateTicket(t, p),
             UNCHANGED <<accepted, row>>
      PROVE  Promise!Next
  <2>1. ticket[t].payload = NoPayload
    BY <1>7 DEF CreateTicket, IInv, AcceptanceInv
  <2>2. \A x \in Tickets : ticket'[x].payload = IF x = t THEN p ELSE ticket[x].payload
    BY <1>2, <1>7 DEF CreateTicket
  <2>3. Promise!Ask(t, p)
    BY <1>7, <2>1, <2>2 DEF Promise!Ask
  <2> QED BY <2>3 DEF Promise!Next
<1>8. ASSUME NEW t \in Tickets, NEW o \in {"Accepted", "Rejected"}, Decide(t, o),
             UNCHANGED row
      PROVE  [Promise!Next]_Promise!promiseVars
  <2>1. \A x \in Tickets : ticket'[x].payload = ticket[x].payload
    BY <1>2, <1>8 DEF Decide
  <2>2. ticket[t].payload # NoPayload
    BY <1>8, CrmAssumption DEF Decide, IInv, TypeOK, CrmTypeOK
  <2>3. CASE o = "Accepted"
    BY <1>8, <2>1, <2>2, <2>3 DEF Decide, Promise!Approve, Promise!Next
  <2>4. CASE o # "Accepted"
    BY <1>8, <2>1, <2>4 DEF Decide
  <2> QED BY <2>3, <2>4
<1>9. CASE UNCHANGED <<ticket, accepted>>
  BY <1>1, <1>3, <1>4, <1>5, <1>6, <1>9 DEF RowChange, Rows
<1> QED
  BY <1>1, <1>7, <1>8, <1>9 DEF CrmChange, paymentVars

\* The workflow implements AllocationPromise: whatever runs, failures and
\* tickets do, a payment is given once, for an accepted ticket that it covers,
\* and a row is settled once, by a payment given to it.
THEOREM WorkflowKeepsThePromise == Spec => ImplementsPromise
<1>1. Init => Promise!Init
  BY PromiseHoldsAtFirst
<1>2. IInv /\ [Next]_vars => [Promise!Next]_Promise!promiseVars
  BY StepKeepsPromise
<1> QED
  BY <1>1, <1>2, InvariantIsInvariant, PTL DEF Spec, ImplementsPromise, Promise!Spec
=============================================================================
