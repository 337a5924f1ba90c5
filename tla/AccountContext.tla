--------------------------- MODULE AccountContext ---------------------------
(***************************************************************************)
(* handlers/get_account_context.py: what the agent may know of a verified  *)
(* caller's account.  The gate, the invoices, the CRM and the summary are  *)
(* read one after the other.  Without the ledger there is no answer; with- *)
(* out the CRM there is one that says less.                                *)
(***************************************************************************)
EXTENDS CallerRows, OpenItems

CONSTANTS
  Readings,     \* invocations of the endpoint
  MaxInvoices,  \* MAX_INVOICES: how many are read out
  InCrm         \* the contacts whose record has a hubspot_contact_id

ASSUME AccountContextAssumption == MaxInvoices \in Nat \ {0}

VARIABLE reading   \* per invocation: where it is, whom it is for, what it has gathered

ReadingPcs == {"idle", "gate", "ledger", "crm", "summary", "done"}

ReadingReplies == {"OK", "NOT_AUTHORIZED", "SERVICE_UNAVAILABLE", "none"}

NewReading ==
  [pc |-> "idle", call |-> "none", customer |-> Nobody, contact |-> Nobody, open |-> <<>>,
   count |-> 0, total |-> 0, recent |-> <<>>, crm |-> FALSE, reply |-> "none"]

ReadingTypeOK ==
  \A x \in Readings :
    /\ reading[x].pc \in ReadingPcs
    /\ reading[x].call \in Calls \cup {"none"}
    /\ reading[x].customer \in Accounts \cup {Nobody}
    /\ reading[x].contact \in Contacts \cup {Nobody}
    /\ reading[x].open \in Seq(Invoices) /\ reading[x].recent \in Seq(Invoices)
    /\ reading[x].count \in Nat /\ reading[x].total \in Nat
    /\ reading[x].crm \in BOOLEAN
    /\ reading[x].reply \in ReadingReplies

ReadingInit == reading = [x \in Readings |-> NewReading]

Gather(x, pc, fields) == reading' = [reading EXCEPT ![x] = [fields EXCEPT !.pc = pc]]

AnswerReading(x, reply) == Gather(x, "done", [reading[x] EXCEPT !.reply = reply])

-----------------------------------------------------------------------------

\* What is read aloud is short; the rest is counted and summed.
ReadOut(invoices) == SubSeq(invoices, 1, Min({MaxInvoices, Len(invoices)}))

\* What shares a date comes in the order of the index, which is any.
OldestDueFirst(S) ==
  CHOOSE s \in SetToSeqs(S) : IsSorted(s, LAMBDA i, j : Invoice[i].due <= Invoice[j].due)

NewestFirst(S) ==
  CHOOSE s \in SetToSeqs(S) : IsSorted(s, LAMBDA i, j : Invoice[i].issued >= Invoice[j].issued)

Total(invoices) == MapThenSumSet(LAMBDA i : Invoice[i].amount, ToSet(invoices))

BeginReading(x, c) ==
  /\ reading[x].pc = "idle" /\ Arrived(c)
  /\ Gather(x, "gate", [NewReading EXCEPT !.call = c])
  /\ UNCHANGED <<rowVars, itemVars>>

\* verified_context, with the contact it displays.
PassReadingGate(x) ==
  /\ reading[x].pc = "gate"
  /\ LET g == gate[reading[x].call]
     IN  IF Verified(reading[x].call)
           THEN Gather(x, "ledger", [reading[x] EXCEPT !.customer = g.customer, !.contact = g.contact])
           ELSE AnswerReading(x, "NOT_AUTHORIZED")
  /\ UNCHANGED <<rowVars, itemVars>>

\* Mutant: the total is of the invoices that are read out.
ReadInvoicesShown(x) ==
  /\ reading[x].pc = "ledger"
  /\ LET mine == InvoicesOf(reading[x].customer)
         open == OldestDueFirst(mine \cap owed)
     IN  Gather(x, "crm", [reading[x] EXCEPT
           !.open = ReadOut(open), !.count = Len(open), !.total = Total(ReadOut(open)),
           !.recent = ReadOut(NewestFirst(mine \ owed))])
  /\ UNCHANGED <<rowVars, itemVars>>

\* Mutant: whose invoices are read is the agent's to say.
ReadAllInvoices(x) ==
  /\ reading[x].pc = "ledger"
  /\ LET open == OldestDueFirst(owed)
     IN  Gather(x, "crm", [reading[x] EXCEPT
           !.open = ReadOut(open), !.count = Len(open), !.total = Total(open),
           !.recent = ReadOut(NewestFirst(Invoices \ owed))])
  /\ UNCHANGED <<rowVars, itemVars>>

\* _invoices: one query, split into what is owed and what is not.
ReadInvoices(x) ==
  /\ reading[x].pc = "ledger"
  /\ LET mine == InvoicesOf(reading[x].customer)
         open == OldestDueFirst(mine \cap owed)
     IN  Gather(x, "crm", [reading[x] EXCEPT
           !.open = ReadOut(open), !.count = Len(open), !.total = Total(open),
           !.recent = ReadOut(NewestFirst(mine \ owed))])
  /\ UNCHANGED <<rowVars, itemVars>>

\* _crm_context: somebody the CRM does not have, or a CRM that does not answer,
\* is an empty answer.
ReadCrm(x) ==
  /\ reading[x].pc = "crm"
  /\ \/ Gather(x, "summary", [reading[x] EXCEPT !.crm = reading[x].contact \in InCrm])
        /\ UNCHANGED faults
     \/ reading[x].contact \in InCrm /\ Fault /\ Gather(x, "summary", reading[x])
  /\ UNCHANGED <<offered, wrong, resolved, signals, gate, candidate, account, clock, lost, itemVars>>

\* _summary, and the response.
ReadSummaryText(x) ==
  /\ reading[x].pc = "summary"
  /\ AnswerReading(x, "OK")
  /\ UNCHANGED <<rowVars, itemVars>>

\* The table does not answer: no empty list stands for "could not tell".
FailReading(x) ==
  /\ reading[x].pc \in {"gate", "ledger", "summary"}
  /\ Fault
  /\ Gather(x, "done", [NewReading EXCEPT !.call = reading[x].call, !.reply = "SERVICE_UNAVAILABLE"])
  /\ UNCHANGED <<offered, wrong, resolved, signals, gate, candidate, account, clock, lost, itemVars>>

ReadingStep(x) ==
  PassReadingGate(x) \/ ReadInvoices(x) \/ ReadCrm(x) \/ ReadSummaryText(x) \/ FailReading(x)
=============================================================================
