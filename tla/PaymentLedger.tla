--------------------------- MODULE PaymentLedger ---------------------------
(***************************************************************************)
(* The rows of the DynamoDB ledger table that allocations are about: one   *)
(* customer's payments and invoices, read by get and query and moved by    *)
(* update_if (adapters/dynamo.py), a write that happens only while a       *)
(* condition on the row's status holds.  Rows are never removed and their  *)
(* amounts never change, so only the status of a row can be read stale.    *)
(***************************************************************************)
EXTENDS Integers, FiniteSetsExt

CONSTANTS
  Payments,       \* entry ids of the customer's payments
  Invoices,       \* entry ids of the customer's invoices
  RowAmount,      \* what each row is for, in francs, as abs() gives it
  SeedStatus,     \* the status of each row at the start
  PaidElsewhere,  \* invoices finance may settle some other way
  StrongReads,    \* whether a get sees the newest status
  NoTicket,       \* source_ticket_id of a row no ticket has moved
  NoRow           \* settled_by_entry_id of a row nothing has settled

Rows == Payments \cup Invoices

PaymentStatuses == {"PENDING", "UNALLOCATED", "UNDER_REVIEW", "ALLOCATED"}
RowStatuses == PaymentStatuses \cup {"OPEN", "PAID"}

ASSUME PaymentLedgerAssumption ==
  /\ Payments \cap Invoices = {}
  /\ RowAmount \in [Rows -> Nat \ {0}]
  /\ SeedStatus \in [Rows -> RowStatuses]
  /\ PaidElsewhere \subseteq Invoices
  /\ StrongReads \in BOOLEAN
  /\ NoRow \notin Rows

VARIABLES
  row,        \* status, allocated_to, settled_by_entry_id, source_ticket_id
  replica,    \* the status a get may still answer
  auditLog    \* audit events, as <<action, ticket>>

paymentVars == <<row, replica, auditLog>>

PaymentLedgerInit ==
  /\ row = [e \in Rows |-> [status |-> SeedStatus[e], allocatedTo |-> {},
                            settledBy |-> NoRow, source |-> NoTicket]]
  /\ replica = SeedStatus
  /\ auditLog = {}

-----------------------------------------------------------------------------

\* What a get of one row may answer for its status.
StatusReads(e) == {row[e].status} \cup IF StrongReads THEN {} ELSE {replica[e]}

\* The named rows' amounts, summed.
AmountOf(S) == MapThenSumSet(LAMBDA e : RowAmount[e], S)

Audit(action, t) == auditLog' = auditLog \cup {<<action, t>>}

\* Mutant: the payment moves whatever its status is by now.
MoveUnconditionally(p, invoices, t) ==
  row' = [row EXCEPT ![p].status = "ALLOCATED", ![p].allocatedTo = invoices,
                     ![p].source = t]

\* update_if on the payment: only from UNALLOCATED.
MoveIfUnallocated(p, invoices, t) ==
  /\ row[p].status = "UNALLOCATED"
  /\ row' = [row EXCEPT ![p].status = "ALLOCATED", ![p].allocatedTo = invoices,
                        ![p].source = t]

\* update_if on an invoice: unless it is PAID, and then nothing happens.
SettleUnlessPaid(i, p, t) ==
  row' = IF row[i].status = "PAID" THEN row
         ELSE [row EXCEPT ![i].status = "PAID", ![i].settledBy = p, ![i].source = t]

-----------------------------------------------------------------------------
(* What happens to the rows without the handlers.                          *)

Replicate(e) ==
  /\ ~StrongReads
  /\ replica[e] # row[e].status
  /\ replica' = [replica EXCEPT ![e] = row[e].status]
  /\ UNCHANGED <<row, auditLog>>

\* The bank confirms a pending payment.
Clear(p) ==
  /\ row[p].status = "PENDING"
  /\ row' = [row EXCEPT ![p].status = "UNALLOCATED"]
  /\ UNCHANGED <<replica, auditLog>>

\* Finance settles an invoice some other way.
SettleElsewhere(i) ==
  /\ row[i].status = "OPEN"
  /\ row' = [row EXCEPT ![i].status = "PAID"]
  /\ UNCHANGED <<replica, auditLog>>

PaymentLedgerNext ==
  \/ \E e \in Rows : Replicate(e)
  \/ \E p \in Payments : Clear(p)
  \/ \E i \in PaidElsewhere : SettleElsewhere(i)
=============================================================================
