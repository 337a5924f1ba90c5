-------------------------------- MODULE Crm --------------------------------
(***************************************************************************)
(* HubSpot as adapters/hubspot.py uses it: tickets that ask a person for a *)
(* financial decision, the person who answers them, the notes written back *)
(* on them, and the search index every read goes through.  The index lags  *)
(* the tickets (docs/decisions.md 12.56 measured about 1.5 seconds), so a  *)
(* search may miss a ticket just raised or an answer just given.           *)
(***************************************************************************)
EXTENDS Integers, FiniteSets

CONSTANTS
  Tickets,        \* ticket ids
  Payloads,       \* what a ticket can ask for
  NoPayload,
  MaxDay,         \* bound: the last day of the model
  LookbackDays,   \* LOOKBACK_DAYS of the applier
  SearchLimit,    \* "limit" of a ticket search; there is no paging
  MaxFaults       \* bound: failed calls and killed invocations

ASSUME CrmAssumption ==
  /\ MaxDay \in Nat
  /\ LookbackDays \in Nat
  /\ SearchLimit \in Nat \ {0}
  /\ MaxFaults \in Nat
  /\ NoPayload \notin Payloads

VARIABLES
  today,     \* the calendar day
  faults,    \* how many faults have happened
  ticket,    \* the tickets as stored
  index,     \* the outcome of each ticket as the search index knows it
  accepted,  \* history: tickets a person has accepted at some time
  notes      \* the notes written on each ticket

crmVars == <<today, faults, ticket, index, accepted, notes>>

Days == 0..MaxDay
TicketOutcomes == {"Absent", "Undecided", "Accepted", "Rejected"}
NoteKinds == {"Applied", "NotApplied"}

AbsentTicket == [payload |-> NoPayload, outcome |-> "Absent", modified |-> 0]

CrmTypeOK ==
  /\ today \in Days
  /\ faults \in 0..MaxFaults
  /\ ticket \in [Tickets -> [payload : Payloads \cup {NoPayload},
                             outcome : TicketOutcomes,
                             modified : Days]]
  /\ \A t \in Tickets : ticket[t].outcome # "Absent" => ticket[t].payload \in Payloads
  /\ index \in [Tickets -> TicketOutcomes]
  /\ accepted \in SUBSET Tickets
  /\ notes \in [Tickets -> SUBSET NoteKinds]

CrmInit ==
  /\ today = 0
  /\ faults = 0
  /\ ticket = [t \in Tickets |-> AbsentTicket]
  /\ index = [t \in Tickets |-> "Absent"]
  /\ accepted = {}
  /\ notes = [t \in Tickets |-> {}]

-----------------------------------------------------------------------------
(* What the handlers do to the CRM.                                        *)

\* Something fails: a call errors, an answer is lost, an invocation is killed.
Fault == faults < MaxFaults /\ faults' = faults + 1

\* create_ticket: request_outcome is unset, and the index does not know yet.
CreateTicket(t, p) ==
  /\ ticket[t].outcome = "Absent"
  /\ ticket' = [ticket EXCEPT ![t] =
                  [payload |-> p, outcome |-> "Undecided", modified |-> today]]

\* append_note.
AppendNote(t, kind) == notes' = [notes EXCEPT ![t] = @ \cup {kind}]

\* One page of a search: at most SearchLimit of the matches, in no known order.
Pages(matches) ==
  {page \in SUBSET matches :
     IF Cardinality(matches) <= SearchLimit THEN page = matches
                                            ELSE Cardinality(page) = SearchLimit}

\* get_pending_requests: request_outcome unset, for the whole company.
PendingRequests == {t \in Tickets : index[t] = "Undecided"}

\* Mutant: the outcome is not part of the search.
AnsweredOrNot == {t \in Tickets : index[t] # "Absent"}

\* get_accepted_requests: Accepted, and modified within the lookback.
AcceptedRequests ==
  {t \in Tickets : index[t] = "Accepted" /\ ticket[t].modified >= today - LookbackDays}

-----------------------------------------------------------------------------
(* What happens in the CRM by itself.                                      *)

\* The search index catches up with one ticket.
Reindex(t) ==
  /\ index[t] # ticket[t].outcome
  /\ index' = [index EXCEPT ![t] = ticket[t].outcome]
  /\ UNCHANGED <<today, faults, ticket, accepted, notes>>

\* A person sets request_outcome, possibly reversing an earlier answer.
Decide(t, outcome) ==
  /\ ticket[t].outcome \notin {"Absent", outcome}
  /\ ticket' = [ticket EXCEPT ![t].outcome = outcome, ![t].modified = today]
  /\ accepted' = accepted \cup IF outcome = "Accepted" THEN {t} ELSE {}
  /\ UNCHANGED <<today, faults, index, notes>>

\* A ticket nobody's rules have seen: raised by hand, or by an agent that
\* does not go through the tool endpoint.
RaiseByHand(t, p) ==
  /\ CreateTicket(t, p)
  /\ UNCHANGED <<today, faults, index, accepted, notes>>

NextDay ==
  /\ today < MaxDay
  /\ today' = today + 1
  /\ UNCHANGED <<faults, ticket, index, accepted, notes>>

CrmNext ==
  \/ NextDay
  \/ \E t \in Tickets : Reindex(t)
  \/ \E t \in Tickets, outcome \in {"Accepted", "Rejected"} : Decide(t, outcome)
=============================================================================
