------------------------- MODULE AllocationPromise -------------------------
(***************************************************************************)
(* What the allocation workflow promises about the ledger, without saying  *)
(* how: a payment is given to invoices at most once and for good, only for *)
(* a ticket a person accepted and only if it covers them; a row is settled *)
(* at most once, by a payment already given to it, and not given after.    *)
(***************************************************************************)
EXTENDS Integers

CONSTANTS
  Tickets, Rows, Payloads, NoPayload, NoRow, NoTicket,
  RowAmount,    \* what each row is for
  AmountOf(_)   \* what some rows are for together

VARIABLES
  asked,     \* what each ticket asks for
  approved,  \* the tickets a person has accepted at some time
  given,     \* per row: the ticket it was given to invoices for, and which
  settledBy  \* per row: the payment that settled it

promiseVars == <<asked, approved, given, settledBy>>

NotGiven == [ticket |-> NoTicket, invoices |-> {}]

Init ==
  /\ asked = [t \in Tickets |-> NoPayload]
  /\ approved = {}
  /\ given = [e \in Rows |-> NotGiven]
  /\ settledBy = [e \in Rows |-> NoRow]

Ask(t, p) ==
  /\ asked[t] = NoPayload
  /\ asked' = [asked EXCEPT ![t] = p]
  /\ UNCHANGED <<approved, given, settledBy>>

Approve(t) ==
  /\ asked[t] # NoPayload
  /\ approved' = approved \cup {t}
  /\ UNCHANGED <<asked, given, settledBy>>

Give(t) ==
  LET p == asked[t].payment
      invoices == asked[t].invoices
  IN  /\ t \in approved
      /\ {p} \cup invoices \subseteq Rows
      /\ given[p] = NotGiven /\ settledBy[p] = NoRow
      /\ RowAmount[p] >= AmountOf(invoices)
      /\ given' = [given EXCEPT ![p] = [ticket |-> t, invoices |-> invoices]]
      /\ UNCHANGED <<asked, approved, settledBy>>

\* A payment may be named where an invoice belongs: settled like one, it no
\* longer says for which ticket it was given.
Settle(i, p) ==
  /\ i \in given[p].invoices
  /\ settledBy[i] = NoRow
  /\ settledBy' = [settledBy EXCEPT ![i] = p]
  /\ given' = [given EXCEPT ![i].ticket = NoTicket]
  /\ UNCHANGED <<asked, approved>>

Next ==
  \/ \E t \in Tickets :
       \/ \E p \in Payloads : Ask(t, p)
       \/ Approve(t)
       \/ Give(t)
  \/ \E i, p \in Rows : Settle(i, p)

Spec == Init /\ [][Next]_promiseVars
=============================================================================
