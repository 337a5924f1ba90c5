--------------------------- MODULE CreditPromise ---------------------------
(***************************************************************************)
(* What the credit workflow promises about the ledger, without saying how: *)
(* a credit note appears at most once per ticket, only for a ticket that   *)
(* was asked for and then accepted by a person, for exactly the charge and *)
(* amount asked, within the per-request limit, and it never changes or     *)
(* goes away.  There are no conversations, searches, snapshots or runs.    *)
(***************************************************************************)
EXTENDS Integers

CONSTANTS Tickets, Payloads, NoPayload, SeedCredits, MaxPerRequest, Days

VARIABLES
  asked,     \* what each ticket asks for
  approved,  \* the tickets a person has accepted at some time
  granted    \* the credit notes on the ledger

promiseVars == <<asked, approved, granted>>

Init ==
  /\ asked = [t \in Tickets |-> NoPayload]
  /\ approved = {}
  /\ granted = SeedCredits

Ask(t, p) ==
  /\ asked[t] = NoPayload
  /\ asked' = [asked EXCEPT ![t] = p]
  /\ UNCHANGED <<approved, granted>>

Approve(t) ==
  /\ asked[t] # NoPayload
  /\ approved' = approved \cup {t}
  /\ UNCHANGED <<asked, granted>>

Grant(t, day) ==
  /\ t \in approved
  /\ \A note \in granted : note.ticket # t
  /\ asked[t].amount \in 1..MaxPerRequest
  /\ granted' = granted \cup
       {[ticket |-> t, entry |-> asked[t].entry, amount |-> asked[t].amount,
         status |-> "APPROVED", date |-> day]}
  /\ UNCHANGED <<asked, approved>>

Next ==
  \E t \in Tickets :
    \/ \E p \in Payloads : Ask(t, p)
    \/ Approve(t)
    \/ \E day \in Days : Grant(t, day)

Spec == Init /\ [][Next]_promiseVars
=============================================================================
