--------------------------- MODULE AllocationFlow ---------------------------
(***************************************************************************)
(* The allocation workflow end to end: agents propose (ProposeAllocation), *)
(* a person answers in the CRM (Crm), scheduled runs move payments and     *)
(* settle invoices (ApplyAllocations), and finance changes rows meanwhile  *)
(* (PaymentLedger).  Any step may fall between any two others.             *)
(***************************************************************************)
EXTENDS ProposeAllocation, ApplyAllocations

CONSTANT HandPayloads   \* what tickets raised outside the endpoint ask for

ASSUME FlowAssumption ==
  /\ HandPayloads \subseteq Payloads
  /\ NoTicket \notin Tickets
  /\ \A p \in Payments \cap EntryIds, i \in Invoices \cap EntryIds :
       [payment |-> p, invoices |-> {i}] \in Payloads

vars == <<crmVars, paymentVars, proposal, applier>>

Init == CrmInit /\ PaymentLedgerInit /\ ProposalInit /\ ApplierInit

Next ==
  \/ CrmNext /\ UNCHANGED <<paymentVars, proposal, applier>>
  \/ \E t \in Tickets, p \in HandPayloads :
       RaiseByHand(t, p) /\ UNCHANGED <<paymentVars, proposal, applier>>
  \/ PaymentLedgerNext /\ UNCHANGED <<crmVars, proposal, applier>>
  \/ ProposalNext /\ UNCHANGED applier
  \/ ApplierNext /\ UNCHANGED proposal

Spec == Init /\ [][Next]_vars

\* As for credits: the schedule keeps starting runs, a run that is not killed
\* goes on, and the index catches up.
Fairness ==
  /\ \A t \in Tickets : WF_vars(Reindex(t) /\ UNCHANGED <<paymentVars, proposal, applier>>)
  /\ \A a \in Appliers : WF_vars((Fetch(a) \/ ApplierStep(a)) /\ UNCHANGED proposal)

FairSpec == Spec /\ Fairness

-----------------------------------------------------------------------------

RowTypeOK ==
  /\ row \in [Rows -> [status : RowStatuses, allocatedTo : SUBSET Rows,
                       settledBy : Rows \cup {NoRow}, source : Tickets \cup {NoTicket}]]
  /\ replica \in [Rows -> RowStatuses]
  /\ auditLog \subseteq {"propose_allocation", "apply_allocation"} \X Tickets

\* Every variable holds what the code can put in it.
TypeOK == CrmTypeOK /\ RowTypeOK /\ ProposalTypeOK /\ ApplierTypeOK

\* The rows implement the promise: payments move once, for accepted tickets
\* that they cover; invoices are settled once, by a payment given to them,
\* however runs overlap, fail or stop half way (apply_decisions.py 176-220).
Promise ==
  INSTANCE AllocationPromise
    WITH asked <- [t \in Tickets |-> ticket[t].payload],
         approved <- accepted,
         given <- [e \in Rows |-> [ticket   |-> IF row[e].allocatedTo = {} \/ row[e].settledBy # NoRow
                                                THEN NoTicket ELSE row[e].source,
                                   invoices |-> row[e].allocatedTo]],
         settledBy <- [e \in Rows |-> row[e].settledBy]

ImplementsPromise == Promise!Spec

\* A caller told the payment is under review has a ticket that asks about that
\* payment, or a row that says so; and nobody is told it is allocated before
\* it is, or by then settled as an invoice itself (propose_allocation.py
\* 216-220, FR-025).
ReviewIsReal ==
  \A r \in Proposals :
    LET q == proposal[r]
    IN  /\ q.answer # NoTicket => ticket[q.answer].payload.payment = q.payment
        /\ q.reply = "UNDER_REVIEW" => q.answer # NoTicket /\ q.told = "UNDER_REVIEW"
        /\ q.reply = "ALREADY_ALLOCATED" => row[q.payment].status \in {"ALLOCATED", "PAID"}

Settled(p) == \A i \in row[p].allocatedTo : row[i].status = "PAID"

\* A payment that was moved has its invoices paid, but for those a run is still
\* settling: each failure or crash leaves at most one payment half done, and no
\* interleaving of runs leaves any (apply_decisions.py 199-203).
MovedIsSettled ==
  Cardinality({p \in Payments :
    /\ row[p].status = "ALLOCATED"
    /\ ~Settled(p)
    /\ \A a \in Appliers : ~(applier[a].pc = "settle" /\ Current(a).payment = p)}) <= faults

-----------------------------------------------------------------------------
(* Liveness.                                                               *)

\* The ticket asks for nothing that can be done, or the payment has moved.
ActedOn(t) ==
  /\ ticket[t].outcome # "Absent"
  /\ \/ ticket[t].payload.invoices = {}
     \/ /\ ticket[t].payload.payment \in Rows
        /\ row[ticket[t].payload.payment].status # "UNALLOCATED"

\* A ticket that stays accepted and names invoices ends with its payment no
\* longer unallocated, or with the refusal noted, in spite of faults: unless a
\* blank ticket was accepted too, which may stop every run before the others
\* are reached (apply_decisions.py 45-46 says that none can).
AcceptedIsActedOn ==
  \A t \in Tickets :
    <>[](ticket[t].outcome = "Accepted") =>
      <>(\/ "NotApplied" \in notes[t]
         \/ ActedOn(t)
         \/ \E b \in Tickets : ticket[b].outcome = "Accepted" /\ Blank(b))

-----------------------------------------------------------------------------
(* What the documentation says and the code does not do.                   *)

\* A payment never stays allocated while the invoice it paid is not
\* (apply_decisions.py 199-203), also when a run stops in between.
AllocatedIsSettled == \A p \in Payments : (row[p].status = "ALLOCATED") ~> Settled(p)
=============================================================================
