----------------------------- MODULE OpenItems -----------------------------
(***************************************************************************)
(* The rows of the ledger that a call reads out or compares with: invoices *)
(* and payments of several accounts, found through the status index.  Only *)
(* the status of a row changes, and during a call only one way: invoices   *)
(* are settled and payments allocated, by the applier and by finance.      *)
(***************************************************************************)
EXTENDS PaymentMatch, FiniteSetsExt

CONSTANTS
  Invoices,    \* entry ids of invoices, of all accounts
  Payments,    \* entry ids of payments, of all accounts
  Invoice,     \* owner, amount, number, key, due and issued of each
  Payment,     \* owner, amount, date, reference, payer's name and address of each
  Moving       \* the entries whose status changes during the call

\* Numbers and keys are keys of an index of the table, which are never empty;
\* keys and references are strings.
ASSUME OpenItemsAssumption ==
  /\ IsFiniteSet(Invoices) /\ IsFiniteSet(Payments)
  /\ \A i \in Invoices :
       /\ Invoice[i].amount \in Nat /\ Invoice[i].due \in Nat /\ Invoice[i].issued \in Nat
       /\ Invoice[i].number # <<>> /\ Invoice[i].key # <<>>
       /\ Invoice[i].key \in Seq(ToSet(Invoice[i].key))
  /\ \A p \in Payments :
       /\ Payment[p].amount \in Nat /\ Payment[p].date \in Nat
       /\ Payment[p].reference \in Seq(ToSet(Payment[p].reference))
       /\ Payment[p].nameMatches \in BOOLEAN /\ Payment[p].addressMatches \in BOOLEAN

VARIABLES
  owed,        \* the invoices that are OPEN or OVERDUE
  listed       \* the payments the index has as UNALLOCATED

itemVars == <<owed, listed>>

OpenItemsTypeOK == owed \subseteq Invoices /\ listed \subseteq Payments

OpenItemsInit == owed = Invoices /\ listed = Payments

InvoicesOf(owner) == {i \in Invoices : Invoice[i].owner = owner}
PaymentsOf(owner) == {p \in Payments : Payment[p].owner = owner}

\* An invoice is paid or cancelled.
Settlement(i) == i \in owed \cap Moving /\ owed' = owed \ {i} /\ UNCHANGED listed

\* A payment is allocated, and the index knows.
Allocation(p) == p \in listed \cap Moving /\ listed' = listed \ {p} /\ UNCHANGED owed

OpenItemsNext == (\E i \in Invoices : Settlement(i)) \/ (\E p \in Payments : Allocation(p))
=============================================================================
