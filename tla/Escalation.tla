----------------------------- MODULE Escalation -----------------------------
(***************************************************************************)
(* handlers/create_escalation.py: the endpoint that hands a call to a      *)
(* person.  It establishes who is calling if it can, raises a ticket or    *)
(* appends to one, records the callback before any transfer is attempted,  *)
(* and audits.  A CRM failure or a failure to record the callback does not *)
(* stop it; nothing keeps it from being called twice.                      *)
(***************************************************************************)
EXTENDS CallRecord

CONSTANTS
  Escalations,  \* invocations of the endpoint
  Reasons       \* the reasons agents give

ASSUME EscalationAssumption == Reasons \subseteq ValidReasons

VARIABLE escalation   \* per invocation: where it is, what it knows, what it answered

EscalationPcs == {"idle", "ticket", "callback", "audit", "done"}

EscalationReplies ==
  {"CREATED", "APPENDED", "CRM_UNAVAILABLE_PERSISTED", "NOT_AUTHORIZED",
   "SERVICE_UNAVAILABLE", "none"}

NewEscalation ==
  [pc |-> "idle", call |-> "none", reason |-> "none", identified |-> FALSE,
   ticket |-> NoTicket, status |-> "none", promised |-> FALSE]

EscalationTypeOK ==
  escalation \in
    [Escalations -> [pc : EscalationPcs, call : Calls \cup {"none"},
                     reason : Reasons \cup {"none"}, identified : BOOLEAN,
                     ticket : Tickets \cup {NoTicket}, status : EscalationReplies,
                     promised : BOOLEAN]]

EscalationInit == escalation = [x \in Escalations |-> NewEscalation]

\* One step of an invocation: its fields change, and nothing else of it.
Step(x, pc, fields) == escalation' = [escalation EXCEPT ![x] = [fields EXCEPT !.pc = pc]]

Fail(x, reply) == Step(x, "done", [escalation[x] EXCEPT !.status = reply])

-----------------------------------------------------------------------------

\* Mutant: any reason will do.
AuthorizeAny(identified, reason) == TRUE

Authorized(identified, reason) == identified \/ reason \in ReasonsValidWhenUnverified

\* _identity, and the gate on the reason.  The row cannot be read is the same
\* answer as not verified, and then it counts as a fault.
Begin(x, c, reason, identified) ==
  /\ escalation[x].pc = "idle"
  /\ \/ identified = (c \in verified) /\ UNCHANGED faults
     \/ ~identified /\ c \in verified /\ Fault
  /\ escalation' = [escalation EXCEPT ![x] =
       [NewEscalation EXCEPT
          !.pc = IF Authorized(identified, reason) THEN "ticket" ELSE "done",
          !.status = IF Authorized(identified, reason) THEN "none" ELSE "NOT_AUTHORIZED",
          !.call = c, !.reason = reason, !.identified = identified]]
  /\ UNCHANGED <<verified, callback, claimed, raised>>

\* risk_signals cannot be read for the handoff: the whole call fails.
FailSignals(x) ==
  /\ escalation[x].pc = "ticket"
  /\ Fault
  /\ Fail(x, "SERVICE_UNAVAILABLE")
  /\ UNCHANGED <<verified, callback, claimed, raised>>

CreateTicket(x, t) ==
  /\ escalation[x].pc = "ticket"
  /\ RaiseTicket(t, escalation[x].call, escalation[x].identified)
  /\ Step(x, "callback", [escalation[x] EXCEPT !.ticket = t, !.status = "CREATED"])
  /\ UNCHANGED <<verified, callback, claimed, faults>>

\* The agent names a ticket of this call: the handoff is appended to it.
AppendToTicket(x, t) ==
  /\ escalation[x].pc = "ticket"
  /\ raised[t].exists /\ raised[t].call = escalation[x].call
  /\ \/ /\ Step(x, "callback", [escalation[x] EXCEPT !.ticket = t, !.status = "APPENDED"])
        /\ UNCHANGED faults
     \/ /\ Fault
        /\ Step(x, "callback", [escalation[x] EXCEPT !.ticket = t,
                                  !.status = "CRM_UNAVAILABLE_PERSISTED"])
  /\ UNCHANGED <<verified, callback, claimed, raised>>

\* The CRM does not answer: the escalation goes on without a ticket id, and a
\* ticket may have been raised all the same.
TicketUnanswered(x) ==
  /\ escalation[x].pc = "ticket"
  /\ Fault
  /\ \/ UNCHANGED raised
     \/ \E t \in Tickets : RaiseTicket(t, escalation[x].call, escalation[x].identified)
  /\ Step(x, "callback", [escalation[x] EXCEPT !.status = "CRM_UNAVAILABLE_PERSISTED"])
  /\ UNCHANGED <<verified, callback, claimed>>

\* The callback is recorded, and the caller can be promised it.
Promise(x) ==
  /\ escalation[x].pc = "callback"
  /\ RecordCallback(escalation[x].call, escalation[x].reason, escalation[x].ticket)
  /\ Step(x, "audit", [escalation[x] EXCEPT !.promised = TRUE])
  /\ UNCHANGED <<verified, claimed, raised, faults>>

\* Mutant: the promise does not depend on the write.
PromiseAnyway(x) ==
  /\ escalation[x].pc = "callback"
  /\ Fault
  /\ Step(x, "audit", [escalation[x] EXCEPT !.promised = TRUE])
  /\ UNCHANGED <<verified, callback, claimed, raised>>

\* It could not be, or the answer was lost: logged, and callback_created is false.
PromiseFails(x) ==
  /\ escalation[x].pc = "callback"
  /\ Fault
  /\ \/ UNCHANGED callback
     \/ RecordCallback(escalation[x].call, escalation[x].reason, escalation[x].ticket)
  /\ Step(x, "audit", escalation[x])
  /\ UNCHANGED <<verified, claimed, raised>>

\* audit.write, which swallows its own failure, and the response.
Respond(x) ==
  /\ escalation[x].pc = "audit"
  /\ Step(x, "done", escalation[x])
  /\ UNCHANGED recordVars

EscalationStep(x) ==
  \/ \E t \in Tickets : CreateTicket(x, t) \/ AppendToTicket(x, t)
  \/ FailSignals(x) \/ TicketUnanswered(x)
  \/ Promise(x) \/ PromiseFails(x) \/ Respond(x)

EscalationNext ==
  \E x \in Escalations :
    \/ \E c \in Calls, reason \in Reasons, identified \in BOOLEAN :
         Begin(x, c, reason, identified)
    \/ EscalationStep(x)
=============================================================================
