------------------------------- MODULE Ledger -------------------------------
(***************************************************************************)
(* The rows of the DynamoDB ledger table that credits are about: one       *)
(* customer's invoices and the credit notes against them, read by query    *)
(* and written by put_if_absent (adapters/dynamo.py), with the audit log   *)
(* beside it.  Every query is keyed by customer_id, so customers do not    *)
(* interact and one is modelled.                                           *)
(*                                                                         *)
(* dynamo.query asks for no consistent read.  With StrongReads FALSE a     *)
(* read may miss notes that have not reached every replica yet.            *)
(***************************************************************************)
EXTENDS CreditRules

CONSTANTS
  Entries,        \* entry ids of the customer's invoices
  Billed,         \* what each was billed, in francs
  Disputable,     \* invoices a person may put under review
  SeedCredits,    \* credit notes on the ledger from the start
  StrongReads     \* whether a query sees every note already written

VARIABLES
  credits,        \* the credit notes on the ledger
  replicated,     \* those every read is sure to see
  disputed,       \* invoices with status UNDER_REVIEW or PENDING_APPROVAL
  auditLog        \* audit events, as <<action, ticket>>

ledgerVars == <<credits, replicated, disputed, auditLog>>

ASSUME LedgerAssumption ==
  /\ Billed \in [Entries -> Nat]
  /\ Disputable \subseteq Entries
  /\ StrongReads \in BOOLEAN

LedgerInit ==
  /\ credits = SeedCredits
  /\ replicated = SeedCredits
  /\ disputed = {}
  /\ auditLog = {}

-----------------------------------------------------------------------------

\* What one query of the customer's rows may return.
LedgerReads ==
  IF StrongReads THEN {credits}
                 ELSE {seen \in SUBSET credits : replicated \subseteq seen}

\* The charge a request names, given what has been credited against it.
ChargeFor(entry, already) ==
  IF entry \in Entries THEN Charge(Billed[entry], already, entry \in disputed) ELSE NoCharge

\* The credit note a ticket becomes: its key, cn_<ticket id>, is the ticket.
CreditNote(t, entry, amount, status, day) ==
  [ticket |-> t, entry |-> entry, amount |-> amount, status |-> status, date |-> day]

OnLedger(t) == \E note \in credits : note.ticket = t

\* Mutant: a put without the condition replaces the row.
PutOver(note) ==
  /\ credits' = {n \in credits : n.ticket # note.ticket} \cup {note}
  /\ replicated' = IF StrongReads THEN credits' ELSE replicated \cap credits'

\* put_if_absent succeeding: the caller has checked the key is free.
Put(note) ==
  /\ ~OnLedger(note.ticket)
  /\ credits' = credits \cup {note}
  /\ replicated' = IF StrongReads THEN credits' ELSE replicated

Audit(action, t) == auditLog' = auditLog \cup {<<action, t>>}

-----------------------------------------------------------------------------
(* What happens to the ledger without the handlers.                        *)

Replicate ==
  /\ replicated # credits
  /\ replicated' = credits
  /\ UNCHANGED <<credits, disputed, auditLog>>

OpenDispute(e) ==
  /\ e \in Disputable \ disputed
  /\ disputed' = disputed \cup {e}
  /\ UNCHANGED <<credits, replicated, auditLog>>

ResolveDispute(e) ==
  /\ e \in disputed
  /\ disputed' = disputed \ {e}
  /\ UNCHANGED <<credits, replicated, auditLog>>

LedgerNext ==
  \/ Replicate
  \/ \E e \in Disputable : OpenDispute(e) \/ ResolveDispute(e)
=============================================================================
