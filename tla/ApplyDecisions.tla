--------------------------- MODULE ApplyDecisions ---------------------------
(***************************************************************************)
(* handlers/apply_decisions.py, the credit half: the scheduled applier,    *)
(* the only writer of the ledger.  A run searches for accepted tickets and *)
(* takes them one at a time: re-runs the credit rules against the ledger,  *)
(* writes the credit note if its key is free, audits it and notes it on    *)
(* the ticket, or notes the refusal.                                       *)
(*                                                                         *)
(* EventBridge starts a run every minute and retries a failed one, nothing *)
(* reserves the function to one instance, and a run is killed after four   *)
(* seconds: runs may overlap (Appliers) and may stop between any two calls *)
(* (CrashRun).                                                             *)
(***************************************************************************)
EXTENDS Crm, Ledger

CONSTANT Appliers   \* runs that can be under way at the same time

VARIABLE applier    \* per run: where it is, the tickets left, the current one

NoTicketId == "no ticket"

ASSUME ApplierAssumption == NoTicketId \notin Tickets

ApplierPcs == {"idle", "loop", "put", "audit", "note", "refuse"}

IdleRun == [pc |-> "idle", queue |-> {}, current |-> NoTicketId]

ApplierTypeOK ==
  applier \in [Appliers -> [pc : ApplierPcs, queue : SUBSET Tickets,
                            current : Tickets \cup {NoTicketId}]]

ApplierInit == applier = [a \in Appliers |-> IdleRun]

\* On to the next ticket, or the end of the run.
NextTicket(a, queue) ==
  applier' = [applier EXCEPT ![a] =
                IF queue = {} THEN IdleRun
                ELSE [pc |-> "loop", queue |-> queue, current |-> NoTicketId]]

Goto(a, pc) == applier' = [applier EXCEPT ![a].pc = pc]

\* Mutant: the credits on the ledger are left out of the check.
RevalidatedAlone(t, seen) ==
  LET p == ticket[t].payload
  IN  EvaluateCredit(p.amount, ChargeFor(p.entry, 0), "ACTIVE", 0, "NONE")

\* _revalidate: the account is taken to be active and the caller's risk is
\* not evaluated again; the rest is measured against the ledger as read.
Revalidated(t, seen) ==
  LET p == ticket[t].payload
  IN  EvaluateCredit(p.amount, ChargeFor(p.entry, AlreadyCredited(seen, p.entry)),
                     "ACTIVE", RollingCreditTotal(seen, today), "NONE")

-----------------------------------------------------------------------------

Fetch(a) ==
  /\ applier[a].pc = "idle"
  /\ AcceptedRequests # {}
  /\ \E page \in Pages(AcceptedRequests) : NextTicket(a, page)
  /\ UNCHANGED <<crmVars, ledgerVars>>

Revalidate(a, t) ==
  /\ applier[a].pc = "loop"
  /\ t \in applier[a].queue
  /\ \E seen \in LedgerReads :
       applier' = [applier EXCEPT ![a] =
         [pc      |-> IF Revalidated(t, seen) = "GRANTED" THEN "put" ELSE "refuse",
          queue   |-> applier[a].queue \ {t},
          current |-> t]]
  /\ UNCHANGED <<crmVars, ledgerVars>>

\* put_if_absent: the key cn_<ticket> is free.
PutCredit(a) ==
  LET t == applier[a].current
  IN  /\ applier[a].pc = "put"
      /\ Put(CreditNote(t, ticket[t].payload.entry, ticket[t].payload.amount,
                        "APPROVED", today))
      /\ Goto(a, "audit")
      /\ UNCHANGED <<crmVars, disputed, auditLog>>

\* It is taken: "already_applied".
AlreadyApplied(a) ==
  /\ applier[a].pc = "put"
  /\ OnLedger(applier[a].current)
  /\ NextTicket(a, applier[a].queue)
  /\ UNCHANGED <<crmVars, ledgerVars>>

\* The note is written and the answer lost: the ticket counts as failed, or
\* as already applied when the client's own retry finds the first attempt.
PutUnanswered(a) ==
  LET t == applier[a].current
  IN  /\ applier[a].pc = "put"
      /\ Fault
      /\ Put(CreditNote(t, ticket[t].payload.entry, ticket[t].payload.amount,
                        "APPROVED", today))
      /\ NextTicket(a, applier[a].queue)
      /\ UNCHANGED <<today, ticket, index, accepted, notes, disputed, auditLog>>

\* Mutant: the event is written for the request, as when the ticket was raised.
AuditAsRequested(a) ==
  /\ applier[a].pc = "audit"
  /\ Audit("request_credit", applier[a].current)
  /\ Goto(a, "note")
  /\ UNCHANGED <<crmVars, credits, replicated, disputed>>

AuditCredit(a) ==
  /\ applier[a].pc = "audit"
  /\ Audit("apply_credit", applier[a].current)
  /\ Goto(a, "note")
  /\ UNCHANGED <<crmVars, credits, replicated, disputed>>

\* audit.write swallows its own failure: the run goes on without the event.
LoseAudit(a) ==
  /\ applier[a].pc = "audit"
  /\ Fault
  /\ Goto(a, "note")
  /\ UNCHANGED <<today, ticket, index, accepted, notes, ledgerVars>>

NoteApplied(a) ==
  /\ applier[a].pc = "note"
  /\ AppendNote(applier[a].current, "Applied")
  /\ NextTicket(a, applier[a].queue)
  /\ UNCHANGED <<today, faults, ticket, index, accepted, ledgerVars>>

\* Mutant: a refusal is logged and not written where a person reads it.
RefusedSilently(a) ==
  /\ applier[a].pc = "refuse"
  /\ NextTicket(a, applier[a].queue)
  /\ UNCHANGED <<crmVars, ledgerVars>>

NoteRefused(a) ==
  /\ applier[a].pc = "refuse"
  /\ AppendNote(applier[a].current, "NotApplied")
  /\ NextTicket(a, applier[a].queue)
  /\ UNCHANGED <<today, faults, ticket, index, accepted, ledgerVars>>

\* A call on the current ticket raises: it is counted and the run goes on.
FailTicket(a) ==
  /\ applier[a].pc \in {"put", "note", "refuse"}
  /\ Fault
  /\ NextTicket(a, applier[a].queue)
  /\ UNCHANGED <<today, ticket, index, accepted, notes, ledgerVars>>

\* The ledger cannot be read for the next ticket.
FailRevalidate(a, t) ==
  /\ applier[a].pc = "loop"
  /\ t \in applier[a].queue
  /\ Fault
  /\ NextTicket(a, applier[a].queue \ {t})
  /\ UNCHANGED <<today, ticket, index, accepted, notes, ledgerVars>>

\* The run is killed between two calls.
CrashRun(a) ==
  /\ applier[a].pc # "idle"
  /\ Fault
  /\ applier' = [applier EXCEPT ![a] = IdleRun]
  /\ UNCHANGED <<today, ticket, index, accepted, notes, ledgerVars>>

ApplierStep(a) ==
  \/ \E t \in Tickets : Revalidate(a, t)
  \/ PutCredit(a) \/ AlreadyApplied(a) \/ AuditCredit(a)
  \/ NoteApplied(a) \/ NoteRefused(a)

ApplierFault(a) ==
  \/ PutUnanswered(a) \/ LoseAudit(a) \/ FailTicket(a) \/ CrashRun(a)
  \/ \E t \in Tickets : FailRevalidate(a, t)

ApplierNext == \E a \in Appliers : Fetch(a) \/ ApplierStep(a) \/ ApplierFault(a)
=============================================================================
