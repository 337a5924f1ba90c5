--------------------------- MODULE RequestCredit ---------------------------
(***************************************************************************)
(* handlers/request_credit.py: the tool endpoint by which a verified       *)
(* caller's agent asks for a goodwill credit.  An invocation reads the     *)
(* ledger, then the open tickets, records and re-reads the risk signals of *)
(* its conversation, decides, and raises a ticket if the rules permit.     *)
(* Each of those is a call over the network and a step of its own, so      *)
(* invocations interleave with each other, with the people answering       *)
(* tickets and with the applier.                                           *)
(*                                                                         *)
(* The conversation's row is read and written through                      *)
(* common/conversation_state.py: the account status copied there when the  *)
(* caller was verified, and the risk signals recorded during the call.     *)
(***************************************************************************)
EXTENDS Crm, Ledger

CONSTANTS
  Conversations,
  Requests,         \* invocations of the endpoint; a repeat is another one
  EntryIds,         \* what the agent may name; Entries are on the ledger
  Amounts,          \* what the caller may ask for, in francs
  AccountStatuses,  \* "ACTIVE" and whatever else the account may become
  HistoryPatterns,  \* sets of patterns earlier calls may show
  CallSignals,      \* signals other tools may record during a call
  None

ASSUME RequestAssumption ==
  /\ Entries \subseteq EntryIds
  /\ Amounts \subseteq Nat
  /\ Payloads = [entry : EntryIds, amount : Amounts]
  /\ HistoryPatterns \subseteq SUBSET SignalTypes
  /\ CallSignals \subseteq SignalTypes
  /\ "ACTIVE" \in AccountStatuses
  /\ None \notin AccountStatuses \cup Conversations \cup Tickets \cup EntryIds

VARIABLES
  account,   \* the account's status on the identity record
  display,   \* per conversation: that status when the caller was verified
  signals,   \* per conversation: the risk signals recorded so far
  request    \* per invocation: where it is and what it has read

requestVars == <<account, display, signals, request>>

RequestPcs == {"idle", "pending", "screen", "decide", "raise", "done"}

Replies ==
  {"none", "REQUESTED", "NOT_AUTHORIZED", "SERVICE_UNAVAILABLE"}
    \cup (Outcomes \ {"GRANTED"})

\* status:  the account status on the conversation when the invocation began
\* known:   the credits counted so far, from the ledger and then the tickets
\* charge:  the charge as it was on the ledger when it was read
\* open:    the undecided tickets the search returned
\* history: the patterns found in the customer's history
\* suspect: history variable, whether the conversation already carried a
\*          decisive signal when the invocation began
NewRequest ==
  [pc |-> "idle", conv |-> None, status |-> None, entry |-> None, amount |-> 0,
   known |-> {}, charge |-> NoCharge, open |-> {}, history |-> {},
   suspect |-> FALSE, reply |-> "none", answer |-> None]

RequestInit ==
  /\ account = "ACTIVE"
  /\ display = [c \in Conversations |-> None]
  /\ signals = [c \in Conversations |-> NoSignals]
  /\ request = [r \in Requests |-> NewRequest]

Reply(r, status, t) ==
  request' = [request EXCEPT ![r].pc = "done", ![r].reply = status, ![r].answer = t,
                             ![r].known = {}, ![r].open = {}, ![r].history = {}]

Suspect(c) == \E s \in DecisiveSignals : signals[c][s] > 0

\* Mutant: an open ticket under a status nothing counts.
AsOpenNotes(open) ==
  {CreditNote(t, ticket[t].payload.entry, ticket[t].payload.amount, "OPEN", today) : t \in open}

\* An undecided ticket counts as a credit note awaiting approval, dated today.
AsCreditNotes(open) ==
  {CreditNote(t, ticket[t].payload.entry, ticket[t].payload.amount,
              "PENDING_APPROVAL", today) : t \in open}

\* Mutant: the amount is not compared.
MatchingEntry(r) == {t \in request[r].open : ticket[t].payload.entry = request[r].entry}

\* _matching_request: an undecided ticket for the same charge and amount.
Matching(r) ==
  {t \in request[r].open : ticket[t].payload = [entry  |-> request[r].entry,
                                                amount |-> request[r].amount]}

-----------------------------------------------------------------------------
(* The invocation, call by call.                                           *)

\* verified_context raises before anything is read.
RefuseUnverified(r, c) ==
  /\ request[r].pc = "idle"
  /\ display[c] = None
  /\ Reply(r, "NOT_AUTHORIZED", None)
  /\ UNCHANGED <<crmVars, ledgerVars, account, display, signals>>

\* The conversation's row is read, then the verified customer's ledger.
ReadLedger(r, c, entry, amount) ==
  /\ request[r].pc = "idle"
  /\ display[c] # None
  /\ \E seen \in LedgerReads :
       request' = [request EXCEPT ![r] =
         [NewRequest EXCEPT !.pc = "pending", !.conv = c, !.status = display[c],
                            !.entry = entry, !.amount = amount, !.known = seen,
                            !.charge = ChargeFor(entry, 0), !.suspect = Suspect(c)]]
  /\ UNCHANGED <<crmVars, ledgerVars, account, display, signals>>

\* _pending_requests: the company's undecided tickets, as the index has them.
ReadPending(r) ==
  /\ request[r].pc = "pending"
  /\ \E page \in Pages(PendingRequests) :
       request' = [request EXCEPT ![r].pc = "screen", ![r].open = page]
  /\ UNCHANGED <<crmVars, ledgerVars, account, display, signals>>

\* The patterns in the customer's history are recorded on the conversation;
\* only then do the undecided tickets join the credits that are counted.
Screen(r) ==
  /\ request[r].pc = "screen"
  /\ \E patterns \in HistoryPatterns :
       LET found == DetectHistorySignals(request[r].known, patterns, today)
       IN  /\ signals' = [signals EXCEPT ![request[r].conv] = AddSignals(@, found)]
           /\ request' = [request EXCEPT ![r].pc = "decide", ![r].history = found,
                            ![r].known = @ \cup AsCreditNotes(request[r].open)]
  /\ UNCHANGED <<crmVars, ledgerVars, account, display>>

\* evaluate_credit, on everything read.  The signals of the conversation are
\* read back and the ones just found are added to that list again.
Decision(r) ==
  LET q == request[r]
  IN  EvaluateCredit(
        q.amount,
        [q.charge EXCEPT !.already = AlreadyCredited(q.known, q.entry)],
        q.status,
        RollingCreditTotal(q.known, today),
        EvaluateRisk(AddSignals(signals[q.conv], q.history)))

Refuse(r) ==
  /\ request[r].pc = "decide"
  /\ Decision(r) # "GRANTED"
  /\ Reply(r, Decision(r), None)
  /\ UNCHANGED <<crmVars, ledgerVars, account, display, signals>>

\* The same request is already open: its ticket is the answer.
AnswerWithOpenTicket(r) ==
  /\ request[r].pc = "decide"
  /\ Decision(r) = "GRANTED"
  /\ \E t \in Matching(r) : Reply(r, "REQUESTED", t)
  /\ UNCHANGED <<crmVars, ledgerVars, account, display, signals>>

Permit(r) ==
  /\ request[r].pc = "decide"
  /\ Decision(r) = "GRANTED"
  /\ Matching(r) = {}
  /\ request' = [request EXCEPT ![r].pc = "raise", ![r].known = {}, ![r].open = {}]
  /\ UNCHANGED <<crmVars, ledgerVars, account, display, signals>>

\* _raise_request: the ticket, the audit event unless it is lost, the answer.
RaiseRequest(r, t) ==
  /\ request[r].pc = "raise"
  /\ CreateTicket(t, [entry |-> request[r].entry, amount |-> request[r].amount])
  /\ \/ Audit("request_credit", t) /\ UNCHANGED faults
     \/ Fault /\ UNCHANGED auditLog
  /\ Reply(r, "REQUESTED", t)
  /\ UNCHANGED <<today, index, accepted, notes>>
  /\ UNCHANGED <<credits, replicated, disputed, account, display, signals>>

\* The ticket is created but its answer is lost: _request raises, and the
\* agent is told the service is unavailable and that it may retry.
RaiseUnanswered(r, t) ==
  /\ request[r].pc = "raise"
  /\ Fault
  /\ CreateTicket(t, [entry |-> request[r].entry, amount |-> request[r].amount])
  /\ Reply(r, "SERVICE_UNAVAILABLE", None)
  /\ UNCHANGED <<today, index, accepted, notes, ledgerVars, account, display, signals>>

\* A call fails, or the invocation outlives its budget, with nothing written.
FailRequest(r) ==
  /\ request[r].pc \notin {"idle", "done"}
  /\ Fault
  /\ Reply(r, "SERVICE_UNAVAILABLE", None)
  /\ UNCHANGED <<today, ticket, index, accepted, notes, ledgerVars, account, display, signals>>

-----------------------------------------------------------------------------
(* The rest of the conversation, and the account.                          *)

\* set_verification copies the account status to the conversation.
Verify(c) ==
  /\ display[c] # account
  /\ display' = [display EXCEPT ![c] = account]
  /\ UNCHANGED <<crmVars, ledgerVars, account, signals, request>>

\* Another tool records a signal; one of each type per call bounds the model.
RecordSignal(c, s) ==
  /\ signals[c][s] = 0
  /\ signals' = [signals EXCEPT ![c] = AddSignals(@, {s})]
  /\ UNCHANGED <<crmVars, ledgerVars, account, display, request>>

SetAccount(status) ==
  /\ account # status
  /\ account' = status
  /\ UNCHANGED <<crmVars, ledgerVars, display, signals, request>>

RequestNext ==
  \/ \E r \in Requests :
       \/ \E c \in Conversations :
            \/ RefuseUnverified(r, c)
            \/ \E entry \in EntryIds, amount \in Amounts : ReadLedger(r, c, entry, amount)
       \/ ReadPending(r) \/ Screen(r)
       \/ Refuse(r) \/ AnswerWithOpenTicket(r) \/ Permit(r)
       \/ \E t \in Tickets : RaiseRequest(r, t) \/ RaiseUnanswered(r, t)
       \/ FailRequest(r)
  \/ \E c \in Conversations : Verify(c)
  \/ \E c \in Conversations, s \in CallSignals : RecordSignal(c, s)
  \/ \E status \in AccountStatuses : SetAccount(status)
=============================================================================
