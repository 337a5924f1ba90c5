-------------------------- MODULE ApplyAllocations --------------------------
(***************************************************************************)
(* handlers/apply_decisions.py, the allocation half (_allocate): what a    *)
(* run of the applier does with an accepted ticket that carries no credit  *)
(* amount.  It re-reads the rows and re-checks the arithmetic, moves the   *)
(* payment, settles the invoices one update at a time, audits and notes.   *)
(* Only the two updates are conditional; a run may stop between any two.   *)
(*                                                                         *)
(* One loop serves both kinds of ticket (ApplyDecisions models the other); *)
(* they meet in the page a search returns and in nothing else.             *)
(***************************************************************************)
EXTENDS Crm, PaymentLedger

CONSTANT Appliers   \* runs that can be under way at the same time

VARIABLE applier    \* per run: where it is, tickets and invoices left, the current ticket

ApplierPcs == {"idle", "loop", "move", "settle", "audit", "note", "refuse"}

IdleRun == [pc |-> "idle", queue |-> {}, current |-> NoTicket, left |-> {}]

ApplierTypeOK ==
  applier \in [Appliers -> [pc : ApplierPcs, queue : SUBSET Tickets,
                            current : Tickets \cup {NoTicket}, left : SUBSET Rows]]

ApplierInit == applier = [a \in Appliers |-> IdleRun]

NextTicket(a, queue) ==
  applier' = [applier EXCEPT ![a] =
                IF queue = {} THEN IdleRun ELSE [IdleRun EXCEPT !.pc = "loop", !.queue = queue]]

Goto(a, pc) == applier' = [applier EXCEPT ![a].pc = pc]

\* What the ticket in hand asks for.
Current(a) == ticket[applier[a].current].payload

\* Every row named is on the account, and the payment covers the invoices.
Covers(payload) ==
  /\ {payload.payment} \cup payload.invoices \subseteq Rows
  /\ RowAmount[payload.payment] >= AmountOf(payload.invoices)

-----------------------------------------------------------------------------

Fetch(a) ==
  /\ applier[a].pc = "idle"
  /\ AcceptedRequests # {}
  /\ \E page \in Pages(AcceptedRequests) : NextTicket(a, page)
  /\ UNCHANGED <<crmVars, paymentVars>>

\* A ticket whose related_entry_id is empty: it names no payment either.
Blank(t) == ticket[t].payload.payment = NoRow

\* entries[0] of nothing: IndexError, which the loop does not catch, so the
\* run ends with the rest of its page untouched.
AbortRun(a, t) ==
  /\ applier[a].pc = "loop"
  /\ t \in applier[a].queue
  /\ Blank(t)
  /\ applier' = [applier EXCEPT ![a] = IdleRun]
  /\ UNCHANGED <<crmVars, paymentVars>>

\* The ticket names no invoice: ValueError, counted as failed and logged.
SkipMalformed(a, t) ==
  /\ applier[a].pc = "loop"
  /\ t \in applier[a].queue
  /\ ~Blank(t) /\ ticket[t].payload.invoices = {}
  /\ NextTicket(a, applier[a].queue \ {t})
  /\ UNCHANGED <<crmVars, paymentVars>>

Recheck(a, t) ==
  /\ applier[a].pc = "loop"
  /\ t \in applier[a].queue
  /\ ticket[t].payload.invoices # {}
  /\ applier' = [applier EXCEPT ![a] =
       [pc      |-> IF Covers(ticket[t].payload) THEN "move" ELSE "refuse",
        queue   |-> applier[a].queue \ {t},
        current |-> t,
        left    |-> {}]]
  /\ UNCHANGED <<crmVars, paymentVars>>

\* Mutant: the payment moves and its invoices are left as they are.
MovePaymentOnly(a) ==
  /\ applier[a].pc = "move"
  /\ MoveIfUnallocated(Current(a).payment, Current(a).invoices, applier[a].current)
  /\ Goto(a, "audit")
  /\ UNCHANGED <<crmVars, replica, auditLog>>

MovePayment(a) ==
  /\ applier[a].pc = "move"
  /\ MoveIfUnallocated(Current(a).payment, Current(a).invoices, applier[a].current)
  /\ applier' = [applier EXCEPT ![a].pc = "settle", ![a].left = Current(a).invoices]
  /\ UNCHANGED <<crmVars, replica, auditLog>>

\* update_if answers None: "already_applied", whatever the status is instead.
AlreadyMoved(a) ==
  /\ applier[a].pc = "move"
  /\ row[Current(a).payment].status # "UNALLOCATED"
  /\ NextTicket(a, applier[a].queue)
  /\ UNCHANGED <<crmVars, paymentVars>>

\* The payment is moved and the answer lost: the ticket counts as failed, or
\* as already applied when the client's own retry finds the first attempt.
MoveUnanswered(a) ==
  /\ applier[a].pc = "move"
  /\ Fault
  /\ MoveIfUnallocated(Current(a).payment, Current(a).invoices, applier[a].current)
  /\ NextTicket(a, applier[a].queue)
  /\ UNCHANGED <<today, ticket, index, accepted, notes, replica, auditLog>>

\* One invoice after another; which comes first is how the ticket lists them.
SettleInvoice(a, i) ==
  /\ applier[a].pc = "settle"
  /\ i \in applier[a].left
  /\ SettleUnlessPaid(i, Current(a).payment, applier[a].current)
  /\ applier' = [applier EXCEPT ![a].left = @ \ {i},
                                ![a].pc = IF applier[a].left = {i} THEN "audit" ELSE @]
  /\ UNCHANGED <<crmVars, replica, auditLog>>

AuditAllocation(a) ==
  /\ applier[a].pc = "audit"
  /\ Audit("apply_allocation", applier[a].current)
  /\ Goto(a, "note")
  /\ UNCHANGED <<crmVars, row, replica>>

\* audit.write swallows its own failure: the run goes on without the event.
LoseAudit(a) ==
  /\ applier[a].pc = "audit"
  /\ Fault
  /\ Goto(a, "note")
  /\ UNCHANGED <<today, ticket, index, accepted, notes, paymentVars>>

NoteAllocated(a) ==
  /\ applier[a].pc = "note"
  /\ AppendNote(applier[a].current, "Applied")
  /\ NextTicket(a, applier[a].queue)
  /\ UNCHANGED <<today, faults, ticket, index, accepted, paymentVars>>

\* Mutant: a refusal is logged and not written where a person reads it.
RefusedSilently(a) ==
  /\ applier[a].pc = "refuse"
  /\ NextTicket(a, applier[a].queue)
  /\ UNCHANGED <<crmVars, paymentVars>>

\* _refuse.
NoteRefused(a) ==
  /\ applier[a].pc = "refuse"
  /\ AppendNote(applier[a].current, "NotApplied")
  /\ NextTicket(a, applier[a].queue)
  /\ UNCHANGED <<today, faults, ticket, index, accepted, paymentVars>>

\* A call on the current ticket raises: it is counted and the run goes on.
FailTicket(a) ==
  /\ applier[a].pc \in {"move", "settle", "note", "refuse"}
  /\ Fault
  /\ NextTicket(a, applier[a].queue)
  /\ UNCHANGED <<today, ticket, index, accepted, notes, paymentVars>>

\* The ledger cannot be read for the next ticket.
FailRecheck(a, t) ==
  /\ applier[a].pc = "loop"
  /\ t \in applier[a].queue
  /\ Fault
  /\ NextTicket(a, applier[a].queue \ {t})
  /\ UNCHANGED <<today, ticket, index, accepted, notes, paymentVars>>

CrashRun(a) ==
  /\ applier[a].pc # "idle"
  /\ Fault
  /\ applier' = [applier EXCEPT ![a] = IdleRun]
  /\ UNCHANGED <<today, ticket, index, accepted, notes, paymentVars>>

ApplierStep(a) ==
  \/ \E t \in Tickets : AbortRun(a, t) \/ SkipMalformed(a, t) \/ Recheck(a, t)
  \/ MovePayment(a) \/ AlreadyMoved(a)
  \/ \E i \in Rows : SettleInvoice(a, i)
  \/ AuditAllocation(a) \/ NoteAllocated(a) \/ NoteRefused(a)

ApplierFault(a) ==
  \/ MoveUnanswered(a) \/ LoseAudit(a) \/ FailTicket(a) \/ CrashRun(a)
  \/ \E t \in Tickets : FailRecheck(a, t)

ApplierNext == \E a \in Appliers : Fetch(a) \/ ApplierStep(a) \/ ApplierFault(a)
=============================================================================
