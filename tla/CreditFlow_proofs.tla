-------------------------- MODULE CreditFlow_proofs --------------------------
(***************************************************************************)
(* Theorems about CreditFlow for every number of tickets, runs of the      *)
(* applier, invocations, conversations and faults, checked by TLAPS.       *)
(*                                                                         *)
(* The argument rests on two lemmas that say, once, all that a step of the *)
(* workflow can do to the CRM and to the ledger (CrmStep, LedgerStep), and *)
(* on an inductive invariant, IInv: types, where acceptance comes from,    *)
(* what a run of the applier knows at each of its program points, and what *)
(* the endpoint knows when it answers.                                     *)
(*                                                                         *)
(* The theorems that count come last: how far any number of overlapping    *)
(* runs can carry a customer past the two ceilings, and how many credits   *)
(* can be missing from the audit log.  A ceiling is only checked when a    *)
(* run takes a ticket up, and the credit is written later.  The invariant  *)
(* therefore counts, next to the notes on the ledger, those that runs have *)
(* in hand and may still write; a run that decides adds one, and the       *)
(* others hold at most one each.                                           *)
(***************************************************************************)
EXTENDS CreditFlow, FiniteSums

-----------------------------------------------------------------------------
(* The inductive invariant, in parts.                                      *)

\* Acceptance is remembered, and the index invents neither it nor a ticket.
AcceptanceInv ==
  \A t \in Tickets :
    /\ ticket[t].outcome = "Absent" => ticket[t].payload = NoPayload
    /\ ticket[t].outcome = "Accepted" \/ index[t] = "Accepted" => t \in accepted
    /\ t \in accepted \/ index[t] # "Absent" => ticket[t].outcome # "Absent"

\* A run only handles accepted tickets; about to write one, it has found it
\* within the per-request limit and about a charge on the ledger.
RunOK(a) ==
  /\ applier[a].queue \subseteq accepted
  /\ applier[a].pc \in {"put", "audit", "note", "refuse"} => applier[a].current \in accepted
  /\ applier[a].pc = "put" =>
       LET p == ticket[applier[a].current].payload
       IN  p.amount \in 1..MaxPerRequest /\ p.entry \in Entries

RunInv == \A a \in Appliers : RunOK(a)

\* What an invocation of the endpoint carries: tickets the CRM has, and a
\* conversation that stays suspect once it is.
InvocationOK(r) ==
  /\ \A t \in request[r].open : ticket[t].outcome # "Absent"
  /\ request[r].suspect /\ request[r].pc \notin {"idle", "done"} => Suspect(request[r].conv)
  /\ request[r].pc # "done" => request[r].reply = "none"
  /\ request[r].reply = "REQUESTED" => ticket[request[r].answer].outcome # "Absent"

InvocationInv == \A r \in Requests : InvocationOK(r)

IInv ==
  /\ TypeOK
  /\ AcceptanceInv
  /\ RunInv
  /\ CreditsWereAccepted
  /\ InvocationInv
  /\ RequestedMeansRaised
  /\ SuspectCallsAskForNothing

-----------------------------------------------------------------------------
(* What a step can do.                                                     *)

\* Only these things ever happen to the CRM, whichever part takes the step.
CrmChange ==
  /\ today' \in {today, today + 1} /\ today' \in Days
  /\ faults' = faults \/ Fault
  /\ \/ UNCHANGED <<ticket, accepted>>
     \/ \E t \in Tickets, p \in Payloads : CreateTicket(t, p) /\ accepted' = accepted
     \/ \E t \in Tickets, o \in {"Accepted", "Rejected"} :
          Decide(t, o) /\ UNCHANGED <<ledgerVars, applier>>
  /\ index' = index \/ \E t \in Tickets : Reindex(t) /\ UNCHANGED <<ledgerVars, applier>>
  /\ notes' = notes \/ \E t \in Tickets, kind \in NoteKinds : AppendNote(t, kind)

\* A ticket already in the CRM never changes what it asks for, and accepted
\* tickets stay in the history.
TicketsKept ==
  /\ accepted \subseteq accepted'
  /\ \A t \in Tickets : ticket[t].outcome # "Absent" =>
       ticket'[t].outcome # "Absent" /\ ticket'[t].payload = ticket[t].payload

\* Every step, whichever part takes it, changes the CRM as CrmChange says.
LEMMA CrmStep ==
  ASSUME TypeOK, RunInv, [Next]_vars
  PROVE  CrmChange
<1> USE CrmAssumption DEF CrmChange, crmVars, ledgerVars, requestVars
<1>1. today \in Days /\ today + 1 \in {today, today + 1}
  BY DEF TypeOK, CrmTypeOK
<1>2. CASE UNCHANGED vars
  BY <1>1, <1>2 DEF vars
<1>3. CASE CrmNext /\ UNCHANGED <<ledgerVars, requestVars, applier>>
  <2>1. CASE NextDay
    BY <1>1, <2>1 DEF NextDay, Days
  <2>2. ASSUME NEW t \in Tickets, Reindex(t) PROVE CrmChange
    BY <1>1, <1>3, <2>2 DEF Reindex
  <2>3. ASSUME NEW t \in Tickets, NEW o \in {"Accepted", "Rejected"}, Decide(t, o)
        PROVE  CrmChange
    BY <1>1, <1>3, <2>3 DEF Decide
  <2> QED BY <1>3, <2>1, <2>2, <2>3 DEF CrmNext
<1>4. ASSUME NEW t \in Tickets, NEW p \in HandPayloads, RaiseByHand(t, p)
      PROVE  CrmChange
  BY <1>1, <1>4, SeedAssumption DEF RaiseByHand
<1>5. CASE LedgerNext /\ UNCHANGED <<crmVars, requestVars, applier>>
  BY <1>1, <1>5
<1>6. CASE RequestNext /\ UNCHANGED applier
  <2>1. ASSUME NEW r \in Requests, NEW t \in Tickets,
               RaiseRequest(r, t) \/ RaiseUnanswered(r, t)
        PROVE  CrmChange
    <3>1. [entry |-> request[r].entry, amount |-> request[r].amount] \in Payloads
      BY <2>1, RequestAssumption
      DEF RaiseRequest, RaiseUnanswered, TypeOK, RequestTypeOK, InvocationTypeOK
    <3> QED BY <1>1, <2>1, <3>1 DEF RaiseRequest, RaiseUnanswered
  <2>2. ASSUME NEW r \in Requests, FailRequest(r) PROVE CrmChange
    BY <1>1, <2>2 DEF FailRequest
  <2>3. CASE UNCHANGED crmVars
    BY <1>1, <2>3
  <2> QED
    BY <1>6, <2>1, <2>2, <2>3
    DEF RequestNext, RefuseUnverified, ReadLedger, ReadPending, Screen, Refuse,
        AnswerWithOpenTicket, Permit, Verify, RecordSignal, SetAccount
<1>7. CASE ApplierNext /\ UNCHANGED requestVars
  <2>1. ASSUME NEW a \in Appliers, NoteApplied(a) \/ NoteRefused(a) PROVE CrmChange
    <3>1. applier[a].current \in accepted /\ accepted \subseteq Tickets
      BY <2>1 DEF NoteApplied, NoteRefused, RunInv, RunOK, TypeOK, CrmTypeOK
    <3> QED BY <1>1, <2>1, <3>1 DEF NoteApplied, NoteRefused, NoteKinds
  <2>2. ASSUME NEW a \in Appliers, ApplierFault(a) PROVE CrmChange
    BY <1>1, <2>2
    DEF ApplierFault, PutUnanswered, LoseAudit, FailTicket, CrashRun, FailRevalidate
  <2>3. CASE UNCHANGED crmVars
    BY <1>1, <2>3
  <2> QED
    BY <1>7, <2>1, <2>2, <2>3
    DEF ApplierNext, ApplierStep, Fetch, Revalidate, PutCredit, AlreadyApplied, AuditCredit
<1> QED
  BY <1>2, <1>3, <1>4, <1>5, <1>6, <1>7 DEF Next

\* No step loses a ticket, alters what it asks for or forgets an acceptance.
LEMMA TicketsAreKept ==
  ASSUME TypeOK, AcceptanceInv, CrmChange
  PROVE  TicketsKept
<1> USE DEF TicketsKept, TypeOK, CrmTypeOK
<1>1. CASE UNCHANGED <<ticket, accepted>>
  BY <1>1
<1>2. ASSUME NEW t \in Tickets, NEW p \in Payloads, CreateTicket(t, p), accepted' = accepted
      PROVE  TicketsKept
  BY <1>2 DEF CreateTicket
<1>3. ASSUME NEW t \in Tickets, NEW o \in {"Accepted", "Rejected"}, Decide(t, o)
      PROVE  TicketsKept
  BY <1>3 DEF Decide
<1> QED BY <1>1, <1>2, <1>3 DEF CrmChange

\* The credit note a ticket becomes when a run writes it today.
NoteFor(t) ==
  CreditNote(t, ticket[t].payload.entry, ticket[t].payload.amount, "APPROVED", today)

\* The ledger only grows, by the note of the ticket some run has in hand.
LedgerChange ==
  /\ \/ credits' = credits
     \/ \E a \in Appliers :
          /\ applier[a].pc = "put"
          /\ Put(NoteFor(applier[a].current))
          /\ UNCHANGED <<today, ticket, accepted>>
  /\ replicated' \in {replicated, credits, credits'}
  /\ disputed' \subseteq disputed \cup Disputable
  /\ \/ auditLog' = auditLog
     \/ \E t \in Tickets, action \in {"request_credit", "apply_credit"} : Audit(action, t)

\* Every step, whichever part takes it, changes the ledger as LedgerChange says.
LEMMA LedgerStep ==
  ASSUME TypeOK, RunInv, [Next]_vars
  PROVE  LedgerChange
<1> USE DEF LedgerChange, crmVars, ledgerVars, requestVars, NoteFor
<1>1. CASE UNCHANGED ledgerVars
  BY <1>1
<1>2. CASE LedgerNext
  BY <1>2 DEF LedgerNext, Replicate, OpenDispute, ResolveDispute
<1>3. ASSUME NEW r \in Requests, NEW t \in Tickets, RaiseRequest(r, t)
      PROVE  LedgerChange
  BY <1>3 DEF RaiseRequest
<1>4. ASSUME NEW a \in Appliers, PutCredit(a) \/ PutUnanswered(a)
      PROVE  LedgerChange
  BY <1>4 DEF PutCredit, PutUnanswered, Put
<1>5. ASSUME NEW a \in Appliers, AuditCredit(a) PROVE LedgerChange
  <2>1. applier[a].current \in Tickets
    BY <1>5 DEF AuditCredit, RunInv, RunOK, TypeOK, CrmTypeOK
  <2> QED BY <1>5, <2>1 DEF AuditCredit
<1>6. CASE RequestNext
  <2>1. ASSUME NEW r \in Requests,
               \/ ReadPending(r) \/ Screen(r) \/ Refuse(r) \/ AnswerWithOpenTicket(r)
               \/ Permit(r) \/ FailRequest(r)
        PROVE  UNCHANGED ledgerVars
    BY <2>1 DEF ReadPending, Screen, Refuse, AnswerWithOpenTicket, Permit, FailRequest
  <2>2. ASSUME NEW r \in Requests, NEW t \in Tickets, RaiseUnanswered(r, t)
        PROVE  UNCHANGED ledgerVars
    BY <2>2 DEF RaiseUnanswered
  <2> QED
    BY <1>1, <1>3, <1>6, <2>1, <2>2
    DEF RequestNext, RefuseUnverified, ReadLedger, Verify, RecordSignal, SetAccount
<1>7. CASE ApplierNext
  BY <1>1, <1>4, <1>5, <1>7
  DEF ApplierNext, ApplierStep, ApplierFault, Fetch, Revalidate, AlreadyApplied,
      NoteApplied, NoteRefused, LoseAudit, FailTicket, CrashRun, FailRevalidate
<1> QED
  BY <1>1, <1>2, <1>6, <1>7 DEF Next, vars

-----------------------------------------------------------------------------
(* Types are preserved.                                                    *)

\* Such a change keeps the types of the CRM.
LEMMA CrmTypes ==
  ASSUME TypeOK, CrmChange
  PROVE  CrmTypeOK'
<1> USE DEF TypeOK, CrmTypeOK
<1>1. today' \in Days
  BY DEF CrmChange
<1>2. faults' \in 0..MaxFaults
  BY CrmAssumption DEF CrmChange, Fault
<1> DEFINE TicketTypes ==
      /\ ticket' \in [Tickets -> [payload : Payloads \cup {NoPayload},
                                  outcome : TicketOutcomes, modified : Days]]
      /\ \A t \in Tickets :
           ticket'[t].outcome # "Absent" => ticket'[t].payload \in Payloads
      /\ accepted' \in SUBSET Tickets
<1>3. TicketTypes
  <2>1. CASE UNCHANGED <<ticket, accepted>>
    BY <2>1
  <2>2. ASSUME NEW t \in Tickets, NEW p \in Payloads, CreateTicket(t, p),
               accepted' = accepted
        PROVE  TicketTypes
    BY <2>2 DEF CreateTicket, TicketOutcomes
  <2>3. ASSUME NEW t \in Tickets, NEW o \in {"Accepted", "Rejected"}, Decide(t, o)
        PROVE  TicketTypes
    BY <2>3 DEF Decide, TicketOutcomes
  <2> QED BY <2>1, <2>2, <2>3 DEF CrmChange
<1>4. index' \in [Tickets -> TicketOutcomes]
  BY DEF CrmChange, Reindex
<1>5. notes' \in [Tickets -> SUBSET NoteKinds]
  BY DEF CrmChange, AppendNote
<1> QED BY <1>1, <1>2, <1>3, <1>4, <1>5

\* Such a change keeps the types of the ledger and of the audit log.
LEMMA LedgerTypes ==
  ASSUME TypeOK, RunInv, LedgerChange
  PROVE  LedgerTypeOK'
<1> DEFINE NotesTyped ==
      credits' \ SeedCredits \subseteq CreditNotes /\ credits \subseteq credits'
<1>1. NotesTyped
  <2>1. CASE credits' = credits
    BY <2>1 DEF TypeOK, LedgerTypeOK
  <2>2. ASSUME NEW a \in Appliers, applier[a].pc = "put",
               Put(NoteFor(applier[a].current))
        PROVE  NotesTyped
    <3> DEFINE t == applier[a].current
    <3>1. t \in Tickets /\ today \in Nat
      BY <2>2, CrmAssumption DEF RunInv, RunOK, TypeOK, CrmTypeOK, Days
    <3>2. ticket[t].payload.entry \in Entries /\ ticket[t].payload.amount \in Nat
      BY <2>2, PolicyAssumption DEF RunInv, RunOK
    <3>3. NoteFor(t) \in CreditNotes
      BY <3>1, <3>2 DEF NoteFor, CreditNote, CreditNotes, CountedStatuses
    <3> QED BY <2>2, <3>3 DEF Put, TypeOK, LedgerTypeOK
  <2> QED BY <2>1, <2>2 DEF LedgerChange
<1>2. replicated' \subseteq credits'
  BY <1>1 DEF LedgerChange, TypeOK, LedgerTypeOK
<1>3. disputed' \subseteq Disputable
  BY DEF LedgerChange, TypeOK, LedgerTypeOK
<1>4. auditLog' \subseteq {"request_credit", "apply_credit"} \X Tickets
  BY DEF LedgerChange, Audit, TypeOK, LedgerTypeOK
<1> QED BY <1>1, <1>2, <1>3, <1>4 DEF LedgerTypeOK

\* The endpoint's own variables: one lemma for the answers, one for the rest.
LEMMA ReplyTypes ==
  ASSUME TypeOK, NEW r \in Requests, NEW status \in Replies,
         NEW t \in Tickets \cup {None}, Reply(r, status, t)
  PROVE  InvocationTypeOK'
<1>1. request[r] \in RequestStates
  BY DEF TypeOK, RequestTypeOK, InvocationTypeOK
<1>2. request'[r] = [request[r] EXCEPT !.pc = "done", !.reply = status, !.answer = t,
                                       !.known = {}, !.open = {}, !.history = {}]
  BY DEF Reply, TypeOK, RequestTypeOK, InvocationTypeOK
<1>3. request'[r] \in RequestStates /\ request'[r].pc = "done"
  BY <1>1, <1>2 DEF RequestStates, RequestPcs
<1>4. request' = [request EXCEPT ![r] = request'[r]]
  BY DEF Reply, TypeOK, RequestTypeOK, InvocationTypeOK
<1> QED BY <1>3, <1>4 DEF TypeOK, RequestTypeOK, InvocationTypeOK

\* Deciding a request always yields one of the outcomes of evaluate_credit.
LEMMA DecisionTypes ==
  ASSUME NEW r
  PROVE  Decision(r) \in Outcomes
BY DEF Decision, EvaluateCredit, Outcomes

\* Recording signals on a conversation keeps its counts natural numbers.
LEMMA SignalTypesKept ==
  ASSUME NEW bag \in [SignalTypes -> Nat], NEW S
  PROVE  AddSignals(bag, S) \in [SignalTypes -> Nat]
BY DEF AddSignals

\* What a lookup of an entry returns is a charge, found or not.
LEMMA ChargeTypes ==
  ASSUME NEW entry
  PROVE  ChargeFor(entry, 0) \in Charges
<1>1. CASE entry \in Entries
  BY <1>1, LedgerAssumption DEF ChargeFor, Charge, Charges
<1>2. CASE entry \notin Entries
  BY <1>2 DEF ChargeFor, NoCharge, Charges
<1> QED BY <1>1, <1>2

\* An invocation that goes on keeps its conversation, charge and amount.
LEMMA InvocationTypes ==
  ASSUME TypeOK, NEW r \in Requests, request[r].pc \notin {"idle", "done"},
         request' = [request EXCEPT ![r] = request'[r]], request'[r] \in RequestStates,
         request'[r].conv = request[r].conv, request'[r].entry = request[r].entry,
         request'[r].amount = request[r].amount
  PROVE  InvocationTypeOK'
BY DEF TypeOK, RequestTypeOK, InvocationTypeOK

\* The endpoint's read of the ledger keeps the types.
LEMMA ReadLedgerTypes ==
  ASSUME TypeOK, NEW r \in Requests, NEW c \in Conversations,
         NEW entry \in EntryIds, NEW amount \in Amounts, ReadLedger(r, c, entry, amount)
  PROVE  RequestTypeOK'
<1>1. PICK seen \in LedgerReads :
        request' = [request EXCEPT ![r] =
          [NewRequest EXCEPT !.pc = "pending", !.conv = c, !.status = display[c],
                             !.entry = entry,
                             !.amount = amount, !.known = seen,
                             !.charge = ChargeFor(entry, 0), !.suspect = Suspect(c)]]
  BY DEF ReadLedger
<1>2. seen \in SUBSET KnownCredits
  <2>1. seen \subseteq credits
    BY DEF LedgerReads
  <2>2. CreditNotes \subseteq KnownCredits
    BY RequestAssumption DEF CreditNotes, KnownCredits
  <2> QED BY <2>1, <2>2 DEF TypeOK, LedgerTypeOK, KnownCredits
<1>3. Suspect(c) \in BOOLEAN
  BY DEF Suspect
<1>4. /\ request'[r] \in RequestStates
      /\ request'[r].conv = c /\ request'[r].entry = entry /\ request'[r].amount = amount
  BY <1>1, <1>2, <1>3, ChargeTypes
  DEF NewRequest, RequestStates, RequestPcs, Replies, TypeOK, RequestTypeOK, InvocationTypeOK
<1>5. request' = [request EXCEPT ![r] = request'[r]]
  BY <1>1 DEF TypeOK, RequestTypeOK, InvocationTypeOK
<1> QED BY <1>4, <1>5 DEF ReadLedger, TypeOK, RequestTypeOK, InvocationTypeOK

\* The endpoint's risk screen keeps the types.
LEMMA ScreenTypes ==
  ASSUME TypeOK, InvocationInv, NEW r \in Requests, Screen(r)
  PROVE  RequestTypeOK'
<1>1. PICK patterns \in HistoryPatterns :
        LET found == DetectHistorySignals(request[r].known, patterns, today)
        IN  /\ signals' = [signals EXCEPT ![request[r].conv] = AddSignals(@, found)]
            /\ request' = [request EXCEPT ![r].pc = "decide", ![r].history = found,
                             ![r].known = @ \cup AsCreditNotes(request[r].open)]
  BY DEF Screen
<1> DEFINE found == DetectHistorySignals(request[r].known, patterns, today)
<1>2. found \subseteq SignalTypes
  BY RequestAssumption DEF DetectHistorySignals, SignalTypes, DecisiveSignals
<1>3. request[r] \in RequestStates /\ request[r].conv \in Conversations
  BY DEF Screen, TypeOK, RequestTypeOK, InvocationTypeOK
<1>4. signals' \in [Conversations -> [SignalTypes -> Nat]]
  <2>1. signals[request[r].conv] \in [SignalTypes -> Nat]
    BY <1>3 DEF TypeOK, RequestTypeOK, InvocationTypeOK
  <2>2. AddSignals(signals[request[r].conv], found) \in [SignalTypes -> Nat]
    BY <2>1, SignalTypesKept
  <2> HIDE DEF found
  <2> QED BY <1>1, <2>2 DEF found, TypeOK, RequestTypeOK, InvocationTypeOK
<1>5. /\ request'[r] \in RequestStates
      /\ request'[r].conv = request[r].conv /\ request'[r].entry = request[r].entry
      /\ request'[r].amount = request[r].amount
  <2>1. AsCreditNotes(request[r].open) \subseteq KnownCredits
    <3>1. ASSUME NEW t \in request[r].open
          PROVE  /\ t \in Tickets /\ today \in Nat
                 /\ ticket[t].payload.entry \in EntryIds /\ ticket[t].payload.amount \in Nat
      <4>1. t \in Tickets /\ ticket[t].payload \in Payloads
        BY <1>3 DEF InvocationInv, InvocationOK, RequestStates, TypeOK, CrmTypeOK
      <4>2. today \in Nat
        BY CrmAssumption DEF TypeOK, CrmTypeOK, Days
      <4>3. Payloads = [entry : EntryIds, amount : Amounts] /\ Amounts \subseteq Nat
        BY RequestAssumption
      <4>4. ticket[t].payload.entry \in EntryIds /\ ticket[t].payload.amount \in Amounts
        BY <4>1, <4>3
      <4> QED BY <4>1, <4>2, <4>3, <4>4
    <3> QED BY <3>1 DEF AsCreditNotes, CreditNote, KnownCredits, CountedStatuses
  <2> QED BY <1>1, <1>2, <1>3, <2>1
          DEF RequestStates, RequestPcs, TypeOK, RequestTypeOK, InvocationTypeOK
<1>6. request' = [request EXCEPT ![r] = request'[r]]
  BY <1>1 DEF TypeOK, RequestTypeOK, InvocationTypeOK
<1>7. InvocationTypeOK'
  BY <1>5, <1>6, InvocationTypes DEF Screen
<1> QED BY <1>4, <1>7 DEF Screen, TypeOK, RequestTypeOK

\* Every step of the endpoint, and every step of the others, keeps its types.
LEMMA RequestTypes ==
  ASSUME TypeOK, InvocationInv, [Next]_vars
  PROVE  RequestTypeOK'
<1> USE DEF requestVars
<1>1. CASE UNCHANGED requestVars
  BY <1>1 DEF TypeOK, RequestTypeOK, InvocationTypeOK
<1>2. CASE RequestNext
  <2>1. ASSUME NEW r \in Requests, NEW c \in Conversations, RefuseUnverified(r, c)
        PROVE  RequestTypeOK'
    BY <2>1, ReplyTypes DEF RefuseUnverified, Replies, TypeOK, RequestTypeOK
  <2>2. ASSUME NEW r \in Requests, NEW c \in Conversations, NEW entry \in EntryIds,
               NEW amount \in Amounts, ReadLedger(r, c, entry, amount)
        PROVE  RequestTypeOK'
    BY <2>2, ReadLedgerTypes
  <2>3. ASSUME NEW r \in Requests, ReadPending(r) PROVE RequestTypeOK'
    <3>1. PICK page \in Pages(PendingRequests) :
            request' = [request EXCEPT ![r].pc = "screen", ![r].open = page]
      BY <2>3 DEF ReadPending
    <3>2. page \subseteq Tickets
      BY DEF Pages, PendingRequests
    <3>3. request[r] \in RequestStates
      BY DEF TypeOK, RequestTypeOK, InvocationTypeOK
    <3>4. request'[r] = [request[r] EXCEPT !.pc = "screen", !.open = page]
          /\ request' = [request EXCEPT ![r] = request'[r]]
      BY <3>1 DEF TypeOK, RequestTypeOK, InvocationTypeOK
    <3>5. request'[r] \in RequestStates
          /\ request'[r].conv = request[r].conv /\ request'[r].entry = request[r].entry
          /\ request'[r].amount = request[r].amount
      BY <3>2, <3>3, <3>4 DEF RequestStates, RequestPcs
    <3>6. InvocationTypeOK'
      BY <2>3, <3>4, <3>5, InvocationTypes DEF ReadPending
    <3> QED BY <2>3, <3>6 DEF ReadPending, TypeOK, RequestTypeOK
  <2>4. ASSUME NEW r \in Requests, Screen(r) PROVE RequestTypeOK'
    BY <2>4, ScreenTypes
  <2>5. ASSUME NEW r \in Requests, Refuse(r) PROVE RequestTypeOK'
    BY <2>5, ReplyTypes, DecisionTypes DEF Refuse, Replies, TypeOK, RequestTypeOK
  <2>6. ASSUME NEW r \in Requests, AnswerWithOpenTicket(r) PROVE RequestTypeOK'
    <3>1. PICK t \in Matching(r) : Reply(r, "REQUESTED", t)
      BY <2>6 DEF AnswerWithOpenTicket
    <3>2. t \in Tickets
      <4>1. request[r] \in RequestStates
        BY DEF TypeOK, RequestTypeOK, InvocationTypeOK
      <4>2. t \in request[r].open
        BY <3>1 DEF Matching
      <4> QED BY <4>1, <4>2 DEF RequestStates
    <3>3. "REQUESTED" \in Replies /\ t \in Tickets \cup {None}
      BY <3>2 DEF Replies
    <3>4. InvocationTypeOK'
      BY <3>1, <3>3, ReplyTypes
    <3> QED BY <2>6, <3>4 DEF AnswerWithOpenTicket, TypeOK, RequestTypeOK
  <2>7. ASSUME NEW r \in Requests, Permit(r) PROVE RequestTypeOK'
    <3>1. request' = [request EXCEPT ![r].pc = "raise", ![r].known = {}, ![r].open = {}]
      BY <2>7 DEF Permit
    <3>2. request[r] \in RequestStates
      BY DEF TypeOK, RequestTypeOK, InvocationTypeOK
    <3>3. request'[r] = [request[r] EXCEPT !.pc = "raise", !.known = {}, !.open = {}]
          /\ request' = [request EXCEPT ![r] = request'[r]]
      BY <3>1 DEF TypeOK, RequestTypeOK, InvocationTypeOK
    <3>4. request'[r] \in RequestStates
          /\ request'[r].conv = request[r].conv /\ request'[r].entry = request[r].entry
          /\ request'[r].amount = request[r].amount
      BY <3>2, <3>3 DEF RequestStates, RequestPcs
    <3>5. InvocationTypeOK'
      BY <2>7, <3>3, <3>4, InvocationTypes DEF Permit
    <3> QED BY <2>7, <3>5 DEF Permit, TypeOK, RequestTypeOK
  <2>8. ASSUME NEW r \in Requests, NEW t \in Tickets,
               RaiseRequest(r, t) \/ RaiseUnanswered(r, t)
        PROVE  RequestTypeOK'
    <3>1. t \in Tickets \cup {None} /\ None \in Tickets \cup {None}
          /\ {"REQUESTED", "SERVICE_UNAVAILABLE"} \subseteq Replies
      BY DEF Replies
    <3>2. \/ Reply(r, "REQUESTED", t) \/ Reply(r, "SERVICE_UNAVAILABLE", None)
      BY <2>8 DEF RaiseRequest, RaiseUnanswered
    <3>3. UNCHANGED <<account, display, signals>>
      BY <2>8 DEF RaiseRequest, RaiseUnanswered
    <3>4. InvocationTypeOK'
      BY <3>1, <3>2, ReplyTypes
    <3> QED BY <3>3, <3>4 DEF TypeOK, RequestTypeOK
  <2>9. ASSUME NEW r \in Requests, FailRequest(r) PROVE RequestTypeOK'
    BY <2>9, ReplyTypes DEF FailRequest, Replies, TypeOK, RequestTypeOK
  <2>10. ASSUME NEW c \in Conversations, Verify(c) PROVE RequestTypeOK'
    BY <2>10 DEF Verify, TypeOK, RequestTypeOK, InvocationTypeOK
  <2>11. ASSUME NEW c \in Conversations, NEW s \in CallSignals, RecordSignal(c, s)
         PROVE  RequestTypeOK'
    BY <2>11, SignalTypesKept DEF RecordSignal, TypeOK, RequestTypeOK, InvocationTypeOK
  <2>12. ASSUME NEW status \in AccountStatuses, SetAccount(status) PROVE RequestTypeOK'
    BY <2>12 DEF SetAccount, TypeOK, RequestTypeOK, InvocationTypeOK
  <2> QED
    BY <1>2, <2>1, <2>2, <2>3, <2>4, <2>5, <2>6, <2>7, <2>8, <2>9, <2>10, <2>11, <2>12
    DEF RequestNext
<1> QED BY <1>1, <1>2 DEF Next, vars

\* Every step of a run, and every step of the others, keeps the types of runs.
LEMMA ApplierTypes ==
  ASSUME TypeOK, [Next]_vars
  PROVE  ApplierTypeOK'
<1> USE DEF TypeOK, ApplierTypeOK, ApplierPcs, IdleRun
<1>1. CASE UNCHANGED applier
  BY <1>1
<1>2. ASSUME NEW a \in Appliers, NEW queue \in SUBSET Tickets, NextTicket(a, queue)
      PROVE  ApplierTypeOK'
  BY <1>2 DEF NextTicket
<1>3. ASSUME NEW a \in Appliers, NEW pc \in ApplierPcs, Goto(a, pc)
      PROVE  ApplierTypeOK'
  BY <1>3 DEF Goto
<1>4. ASSUME NEW a \in Appliers, Fetch(a) PROVE ApplierTypeOK'
  BY <1>2, <1>4 DEF Fetch, Pages, AcceptedRequests
<1>5. ASSUME NEW a \in Appliers, NEW t \in Tickets, Revalidate(a, t)
      PROVE  ApplierTypeOK'
  BY <1>5 DEF Revalidate
<1>6. ASSUME NEW a \in Appliers, CrashRun(a) PROVE ApplierTypeOK'
  BY <1>6 DEF CrashRun
<1>7. ASSUME NEW a \in Appliers, NEW t \in Tickets, FailRevalidate(a, t)
      PROVE  ApplierTypeOK'
  <2>1. applier[a].queue \ {t} \subseteq Tickets
    OBVIOUS
  <2> QED BY <1>2, <1>7, <2>1 DEF FailRevalidate
<1>8. ASSUME NEW a \in Appliers,
             \/ PutCredit(a) \/ AlreadyApplied(a) \/ PutUnanswered(a) \/ AuditCredit(a)
             \/ LoseAudit(a) \/ NoteApplied(a) \/ NoteRefused(a) \/ FailTicket(a)
      PROVE  ApplierTypeOK'
  <2>1. applier[a].queue \subseteq Tickets
    OBVIOUS
  <2>2. NextTicket(a, applier[a].queue) \/ Goto(a, "audit") \/ Goto(a, "note")
    BY <1>8
    DEF PutCredit, AlreadyApplied, PutUnanswered, AuditCredit, LoseAudit, NoteApplied,
        NoteRefused, FailTicket
  <2> QED BY <1>2, <1>3, <2>1, <2>2
<1> QED
  BY <1>1, <1>4, <1>5, <1>6, <1>7, <1>8
  DEF Next, vars, ApplierNext, ApplierStep, ApplierFault
-----------------------------------------------------------------------------
(* The rules, as far as the invariants need them.                          *)

\* A granted credit satisfies every rule at once: evaluate_credit, whose grant
\* the endpoint raises a ticket on and the applier writes a note on.
THEOREM GrantedObeysTheRules ==
  ASSUME NEW requested \in Nat, NEW charge, NEW status, NEW rolling, NEW risk,
         EvaluateCredit(requested, charge, status, rolling, risk) = "GRANTED"
  PROVE  /\ requested \in 1..MaxPerRequest
         /\ status = "ACTIVE"
         /\ charge.exists
         /\ ~charge.disputed
         /\ risk # "HIGH"
         /\ ~(requested > charge.amount - charge.already)
         /\ ~(rolling + requested > MaxRolling)
<1>1. ~Ineligible(requested, charge, status)
  BY DEF EvaluateCredit
<1>2. /\ risk # "HIGH"
      /\ ~(requested > charge.amount - charge.already)
      /\ ~(requested > MaxPerRequest)
      /\ ~(rolling + requested > MaxRolling)
  BY DEF EvaluateCredit
<1>3. requested > 0 /\ status = "ACTIVE" /\ charge.exists /\ ~charge.disputed
  BY <1>1 DEF Ineligible
<1> QED BY <1>2, <1>3, PolicyAssumption

\* What the recheck of a ticket implies of it: the limit, a known charge, no dispute.
LEMMA RevalidatedObeysTheRules ==
  ASSUME NEW t, ticket[t].payload \in Payloads, NEW seen, Revalidated(t, seen) = "GRANTED"
  PROVE  LET p == ticket[t].payload
         IN  p.amount \in 1..MaxPerRequest /\ p.entry \in Entries /\ p.entry \notin disputed
<1> DEFINE p == ticket[t].payload
           charge == ChargeFor(p.entry, AlreadyCredited(seen, p.entry))
<1>1. p.amount \in Nat
  BY RequestAssumption
<1>2. EvaluateCredit(p.amount, charge, "ACTIVE", RollingCreditTotal(seen, today), "NONE")
        = "GRANTED"
  BY DEF Revalidated
<1>3. p.amount \in 1..MaxPerRequest /\ charge.exists /\ ~charge.disputed
  <2> HIDE DEF p, charge
  <2> QED BY <1>1, <1>2, GrantedObeysTheRules
<1>4. p.entry \in Entries
  BY <1>3 DEF ChargeFor, NoCharge
<1>5. p.entry \notin disputed
  BY <1>3, <1>4 DEF ChargeFor, Charge
<1> QED BY <1>3, <1>4, <1>5

-----------------------------------------------------------------------------
(* The other parts of the invariant are preserved.                         *)

\* Acceptance stays what a person gave, and is never invented by the index.
LEMMA AcceptancePreserved ==
  ASSUME TypeOK, AcceptanceInv, CrmChange
  PROVE  AcceptanceInv'
<1> USE DEF TypeOK, CrmTypeOK, AcceptanceInv
<1>1. CASE UNCHANGED <<ticket, accepted>>
  BY <1>1 DEF CrmChange, Reindex
<1>2. ASSUME NEW t \in Tickets, NEW p \in Payloads, CreateTicket(t, p), accepted' = accepted
      PROVE  AcceptanceInv'
  BY <1>2 DEF CrmChange, CreateTicket, Reindex
<1>3. ASSUME NEW t \in Tickets, NEW o \in {"Accepted", "Rejected"}, Decide(t, o)
      PROVE  AcceptanceInv'
  BY <1>3 DEF Decide
<1> QED BY <1>1, <1>2, <1>3 DEF CrmChange

\* What holds of a run that does not move still holds when the CRM changes.
LEMMA RunKept ==
  ASSUME TypeOK, RunInv, AcceptanceInv, TicketsKept, NEW a \in Appliers,
         applier'[a] = applier[a]
  PROVE  RunOK(a)'
BY DEF RunInv, RunOK, AcceptanceInv, TicketsKept, TypeOK, CrmTypeOK

\* What a run knows at its program points stays true, whoever takes the step.
LEMMA RunPreserved ==
  ASSUME TypeOK, RunInv, AcceptanceInv, TicketsKept, [Next]_vars
  PROVE  RunInv'
<1> USE DEF vars, requestVars
<1>1. SUFFICES ASSUME NEW b \in Appliers, applier'[b] # applier[b]
               PROVE  RunOK(b)'
  BY RunKept DEF RunInv
<1>2. PICK a \in Appliers : Fetch(a) \/ ApplierStep(a) \/ ApplierFault(a)
  BY <1>1 DEF Next, RequestNext, ApplierNext
<1>3. applier \in [Appliers -> [pc : ApplierPcs, queue : SUBSET Tickets,
                                current : Tickets \cup {NoTicketId}]]
  BY DEF TypeOK, ApplierTypeOK
<1>4. ASSUME NEW queue \in SUBSET accepted, NextTicket(a, queue)
      PROVE  RunOK(b)'
  BY <1>1, <1>3, <1>4 DEF NextTicket, IdleRun, RunOK, TicketsKept
<1>5. ASSUME NEW pc \in {"audit", "note"}, Goto(a, pc),
             applier[a].pc \in {"put", "audit"}
      PROVE  RunOK(b)'
  BY <1>1, <1>3, <1>5 DEF Goto, RunInv, RunOK, TicketsKept
<1>6. CASE Fetch(a)
  <2>1. PICK page \in Pages(AcceptedRequests) : NextTicket(a, page)
    BY <1>6 DEF Fetch
  <2>2. page \subseteq accepted
    BY DEF Pages, AcceptedRequests, AcceptanceInv
  <2> QED BY <1>4, <2>1, <2>2
<1>7. ASSUME NEW t \in Tickets, Revalidate(a, t) PROVE RunOK(b)'
  <2>1. PICK seen \in LedgerReads :
          applier' = [applier EXCEPT ![a] =
            [pc      |-> IF Revalidated(t, seen) = "GRANTED" THEN "put" ELSE "refuse",
             queue   |-> applier[a].queue \ {t},
             current |-> t]]
    BY <1>7 DEF Revalidate
  <2>2. t \in accepted /\ applier[a].queue \subseteq accepted
    BY <1>7 DEF Revalidate, RunInv, RunOK
  <2>3. ticket[t].payload \in Payloads /\ ticket[t].outcome # "Absent"
    BY <2>2 DEF AcceptanceInv, TypeOK, CrmTypeOK
  <2>4. ticket'[t].payload = ticket[t].payload /\ accepted \subseteq accepted'
    BY <2>3 DEF TicketsKept
  <2>5. b = a /\ applier'[a].current = t /\ applier'[a].queue = applier[a].queue \ {t}
        /\ applier'[a].pc = IF Revalidated(t, seen) = "GRANTED" THEN "put" ELSE "refuse"
    BY <1>1, <1>3, <2>1
  <2>6. applier'[a].pc = "put" =>
          ticket[t].payload.amount \in 1..MaxPerRequest /\ ticket[t].payload.entry \in Entries
    BY <2>3, <2>5, RevalidatedObeysTheRules
  <2> QED BY <2>2, <2>4, <2>5, <2>6 DEF RunOK
<1>8. CASE PutCredit(a) \/ AuditCredit(a) \/ LoseAudit(a)
  BY <1>5, <1>8 DEF PutCredit, AuditCredit, LoseAudit
<1>9. ASSUME NEW t \in Tickets, FailRevalidate(a, t) PROVE RunOK(b)'
  <2>1. applier[a].queue \ {t} \subseteq accepted
    BY DEF RunInv, RunOK
  <2> QED BY <1>4, <1>9, <2>1 DEF FailRevalidate
<1>10. CASE CrashRun(a)
  BY <1>1, <1>3, <1>10 DEF CrashRun, IdleRun, RunOK
<1>11. CASE \/ AlreadyApplied(a) \/ PutUnanswered(a) \/ NoteApplied(a)
            \/ NoteRefused(a) \/ FailTicket(a)
  <2>1. applier[a].queue \subseteq accepted
    BY DEF RunInv, RunOK
  <2>2. NextTicket(a, applier[a].queue)
    BY <1>11 DEF AlreadyApplied, PutUnanswered, NoteApplied, NoteRefused, FailTicket
  <2> QED BY <1>4, <2>1, <2>2
<1> QED
  BY <1>2, <1>6, <1>7, <1>8, <1>9, <1>10, <1>11 DEF ApplierStep, ApplierFault

\* A step writes no credit but an accepted one, as its ticket says.
LEMMA CreditsPreserved ==
  ASSUME TypeOK, RunInv, AcceptanceInv, CreditsWereAccepted, TicketsKept, LedgerChange
  PROVE  CreditsWereAccepted'
<1>1. ASSUME NEW note \in credits \ SeedCredits
      PROVE  /\ note.ticket \in accepted'
             /\ note.amount = ticket'[note.ticket].payload.amount
             /\ note.entry = ticket'[note.ticket].payload.entry
  BY <1>1 DEF CreditsWereAccepted, TicketsKept, AcceptanceInv, TypeOK, CrmTypeOK
<1>2. CASE credits' = credits
  BY <1>1, <1>2 DEF CreditsWereAccepted
<1>3. ASSUME NEW a \in Appliers, applier[a].pc = "put",
             Put(NoteFor(applier[a].current)), UNCHANGED <<today, ticket, accepted>>
      PROVE  CreditsWereAccepted'
  <2>1. applier[a].current \in accepted
    BY <1>3 DEF RunInv, RunOK
  <2> QED
    BY <1>1, <1>3, <2>1 DEF CreditsWereAccepted, Put, NoteFor, CreditNote
<1> QED BY <1>2, <1>3 DEF LedgerChange

\* The part of RequestedMeansRaised and SuspectCallsAskForNothing about r.
AnswerOK(r) ==
  /\ request[r].reply = "REQUESTED" =>
       /\ request[r].answer \in Tickets
       /\ ticket[request[r].answer].payload =
            [entry |-> request[r].entry, amount |-> request[r].amount]
  /\ request[r].suspect => request[r].pc # "raise" /\ request[r].reply # "REQUESTED"

AnswerInv == \A r \in Requests : AnswerOK(r)

\* The two properties of the answers, put request by request.
LEMMA AnswerInvIsBoth ==
  AnswerInv <=> RequestedMeansRaised /\ SuspectCallsAskForNothing
BY DEF AnswerInv, AnswerOK, RequestedMeansRaised, SuspectCallsAskForNothing

\* Signals are only ever added to a conversation.
LEMMA SuspicionIsKept ==
  ASSUME TypeOK, [Next]_vars, NEW c \in Conversations, Suspect(c)
  PROVE  Suspect(c)'
<1> USE DEF requestVars
<1>1. PICK s \in DecisiveSignals : signals[c][s] > 0
  BY DEF Suspect
<1>2. signals \in [Conversations -> [SignalTypes -> Nat]] /\ s \in SignalTypes
  BY DEF TypeOK, RequestTypeOK, SignalTypes
<1>3. ASSUME NEW d \in Conversations, NEW S,
             signals' = [signals EXCEPT ![d] = AddSignals(@, S)]
      PROVE  Suspect(c)'
  <2>1. signals'[c] = signals[c] \/ signals'[c] = AddSignals(signals[c], S)
    BY <1>2, <1>3
  <2>2. AddSignals(signals[c], S)[s] > 0
    BY <1>1, <1>2 DEF AddSignals
  <2> QED BY <1>1, <2>1, <2>2 DEF Suspect
<1>4. CASE UNCHANGED signals
  BY <1>1, <1>4 DEF Suspect
<1>5. ASSUME NEW r \in Requests, Screen(r) PROVE Suspect(c)'
  BY <1>3, <1>5 DEF Screen, TypeOK, RequestTypeOK, InvocationTypeOK
<1>6. ASSUME NEW d \in Conversations, NEW x \in CallSignals, RecordSignal(d, x)
      PROVE  Suspect(c)'
  BY <1>3, <1>6 DEF RecordSignal
<1>7. ASSUME NEW r \in Requests, NEW t \in Tickets, RaiseRequest(r, t) \/ RaiseUnanswered(r, t)
      PROVE  UNCHANGED signals
  BY <1>7 DEF RaiseRequest, RaiseUnanswered
<1>8. ASSUME NEW r \in Requests,
             \/ ReadPending(r) \/ Refuse(r) \/ AnswerWithOpenTicket(r) \/ Permit(r)
             \/ FailRequest(r)
      PROVE  UNCHANGED signals
  BY <1>8 DEF ReadPending, Refuse, AnswerWithOpenTicket, Permit, FailRequest
<1>9. CASE RequestNext
  BY <1>4, <1>5, <1>6, <1>7, <1>8, <1>9
  DEF RequestNext, RefuseUnverified, ReadLedger, Verify, SetAccount
<1> QED BY <1>4, <1>9 DEF Next, vars

\* A suspect conversation is refused, as ineligible if not for its risk.
LEMMA SuspectIsNotGranted ==
  ASSUME TypeOK, NEW r \in Requests, request[r].amount \in Nat,
         request[r].conv \in Conversations, Suspect(request[r].conv)
  PROVE  Decision(r) # "GRANTED"
<1> DEFINE bag == AddSignals(signals[request[r].conv], request[r].history)
<1>1. PICK s \in DecisiveSignals : signals[request[r].conv][s] > 0
  BY DEF Suspect
<1>2. signals[request[r].conv] \in [SignalTypes -> Nat] /\ s \in SignalTypes
  BY DEF TypeOK, RequestTypeOK, SignalTypes
<1>3. bag[s] > 0
  BY <1>1, <1>2 DEF AddSignals
<1>4. EvaluateRisk(bag) = "HIGH"
  BY <1>1, <1>3 DEF EvaluateRisk
<1> HIDE DEF bag
<1> QED BY <1>4, GrantedObeysTheRules DEF Decision, bag

\* What holds of an invocation that does not move still holds.
LEMMA InvocationKept ==
  ASSUME TypeOK, TicketsKept, [Next]_vars, NEW r \in Requests,
         InvocationOK(r), AnswerOK(r), request'[r] = request[r]
  PROVE  InvocationOK(r)' /\ AnswerOK(r)'
<1>1. request[r] \in RequestStates
  BY DEF TypeOK, RequestTypeOK, InvocationTypeOK
<1>2. ASSUME request[r].suspect, request[r].pc \notin {"idle", "done"}
      PROVE  Suspect(request[r].conv)'
  <2>1. PICK c \in Conversations : c = request[r].conv /\ Suspect(c)
    BY <1>2 DEF InvocationOK, TypeOK, RequestTypeOK, InvocationTypeOK
  <2>2. Suspect(c)'
    BY <2>1, SuspicionIsKept
  <2> QED BY <2>1, <2>2 DEF Suspect
<1>3. \A t \in request[r].open : ticket'[t].outcome # "Absent"
  BY <1>1 DEF InvocationOK, TicketsKept, RequestStates
<1>4. request[r].reply = "REQUESTED" =>
        /\ ticket'[request[r].answer].outcome # "Absent"
        /\ ticket'[request[r].answer].payload = ticket[request[r].answer].payload
  BY DEF InvocationOK, AnswerOK, TicketsKept
<1>5. InvocationOK(r)'
  BY <1>2, <1>3, <1>4 DEF InvocationOK
<1>6. AnswerOK(r)'
  BY <1>4 DEF AnswerOK
<1> QED BY <1>5, <1>6

\* An answer other than REQUESTED breaks nothing.
LEMMA OtherReplies ==
  ASSUME TypeOK, NEW r \in Requests, NEW status, status # "REQUESTED", NEW t,
         Reply(r, status, t)
  PROVE  InvocationOK(r)' /\ AnswerOK(r)'
<1>1. request'[r].pc = "done" /\ request'[r].reply = status /\ request'[r].open = {}
  BY DEF Reply, TypeOK, RequestTypeOK, InvocationTypeOK, RequestStates
<1> QED BY <1>1 DEF InvocationOK, AnswerOK

\* REQUESTED comes with a ticket, and not to a suspect.
LEMMA RequestedReply ==
  ASSUME TypeOK, NEW r \in Requests, NEW t \in Tickets, Reply(r, "REQUESTED", t),
         ~request[r].suspect, ticket'[t].outcome # "Absent",
         ticket'[t].payload = [entry |-> request[r].entry, amount |-> request[r].amount]
  PROVE  InvocationOK(r)' /\ AnswerOK(r)'
<1>1. /\ request'[r].pc = "done" /\ request'[r].reply = "REQUESTED"
      /\ request'[r].open = {} /\ request'[r].answer = t
      /\ request'[r].suspect = request[r].suspect
      /\ request'[r].entry = request[r].entry /\ request'[r].amount = request[r].amount
  BY DEF Reply, TypeOK, RequestTypeOK, InvocationTypeOK, RequestStates
<1> QED BY <1>1 DEF InvocationOK, AnswerOK

\* An invocation that goes on: nothing is answered, and it may reach "raise"
\* only if it is no suspect.
LEMMA InvocationGoesOn ==
  ASSUME TypeOK, TicketsKept, [Next]_vars, NEW r \in Requests, InvocationOK(r),
         request[r].pc \notin {"idle", "done"},
         request'[r].conv = request[r].conv, request'[r].suspect = request[r].suspect,
         request'[r].reply = request[r].reply,
         \A t \in request'[r].open : ticket'[t].outcome # "Absent",
         request'[r].pc = "raise" => ~request[r].suspect
  PROVE  InvocationOK(r)' /\ AnswerOK(r)'
<1>1. request'[r].reply = "none"
  BY DEF InvocationOK
<1>2. ASSUME request[r].suspect PROVE Suspect(request[r].conv)'
  <2>1. PICK c \in Conversations : c = request[r].conv /\ Suspect(c)
    BY <1>2 DEF InvocationOK, TypeOK, RequestTypeOK, InvocationTypeOK
  <2>2. Suspect(c)'
    BY <2>1, SuspicionIsKept
  <2> QED BY <2>1, <2>2 DEF Suspect
<1>3. InvocationOK(r)'
  BY <1>1, <1>2 DEF InvocationOK
<1>4. AnswerOK(r)'
  BY <1>1 DEF AnswerOK
<1> QED BY <1>3, <1>4

\* What an invocation carries and what it answers stay true at every step.
LEMMA EndpointPreserved ==
  ASSUME TypeOK, AcceptanceInv, InvocationInv, AnswerInv, TicketsKept, [Next]_vars
  PROVE  InvocationInv' /\ AnswerInv'
<1> USE DEF vars, requestVars
<1>1. SUFFICES ASSUME NEW r \in Requests, request'[r] # request[r]
               PROVE  InvocationOK(r)' /\ AnswerOK(r)'
  BY InvocationKept DEF InvocationInv, AnswerInv
<1>2. InvocationOK(r) /\ AnswerOK(r) /\ request[r] \in RequestStates
  BY DEF InvocationInv, AnswerInv, TypeOK, RequestTypeOK, InvocationTypeOK
<1>3. RequestNext
  BY <1>1 DEF Next
<1>4. request \in [Requests -> RequestStates]
  BY DEF TypeOK, RequestTypeOK, InvocationTypeOK
<1>5. ASSUME NEW q \in Requests, NEW e, request' = [request EXCEPT ![q] = e]
      PROVE  q = r /\ request'[r] = e
  BY <1>1, <1>4, <1>5
<1>6. ASSUME NEW q \in Requests, NEW status, NEW t, Reply(q, status, t)
      PROVE  q = r
  BY <1>1, <1>4, <1>6 DEF Reply
<1>7. ASSUME NEW q \in Requests, NEW c \in Conversations, RefuseUnverified(q, c)
      PROVE  InvocationOK(r)' /\ AnswerOK(r)'
  BY <1>6, <1>7, OtherReplies DEF RefuseUnverified
<1>8. ASSUME NEW q \in Requests, NEW c \in Conversations, NEW entry \in EntryIds,
             NEW amount \in Amounts, ReadLedger(q, c, entry, amount)
      PROVE  InvocationOK(r)' /\ AnswerOK(r)'
  <2>1. PICK seen \in LedgerReads :
          request' = [request EXCEPT ![q] =
            [NewRequest EXCEPT !.pc = "pending", !.conv = c, !.status = display[c],
                             !.entry = entry,
                               !.amount = amount, !.known = seen,
                               !.charge = ChargeFor(entry, 0), !.suspect = Suspect(c)]]
    BY <1>8 DEF ReadLedger
  <2>2. /\ request'[r].pc = "pending" /\ request'[r].reply = "none" /\ request'[r].open = {}
        /\ request'[r].conv = c /\ request'[r].suspect = Suspect(c)
    <3>1. request'[r] =
            [NewRequest EXCEPT !.pc = "pending", !.conv = c, !.status = display[c],
                             !.entry = entry,
                               !.amount = amount, !.known = seen,
                               !.charge = ChargeFor(entry, 0), !.suspect = Suspect(c)]
      BY <1>5, <2>1
    <3> QED BY <3>1 DEF NewRequest
  <2>3. Suspect(c) => Suspect(c)'
    BY SuspicionIsKept
  <2>4. InvocationOK(r)'
    BY <2>2, <2>3 DEF InvocationOK, Suspect
  <2>5. AnswerOK(r)'
    BY <2>2 DEF AnswerOK
  <2> QED BY <2>4, <2>5
<1>9. ASSUME NEW q \in Requests, ReadPending(q)
      PROVE  InvocationOK(r)' /\ AnswerOK(r)'
  <2>1. PICK page \in Pages(PendingRequests) :
          request' = [request EXCEPT ![q] = [request[q] EXCEPT !.pc = "screen", !.open = page]]
    BY <1>4, <1>9 DEF ReadPending
  <2>2. /\ q = r /\ request'[r].pc = "screen" /\ request'[r].open = page
        /\ request'[r].conv = request[r].conv /\ request'[r].reply = request[r].reply
        /\ request'[r].suspect = request[r].suspect
    <3>1. q = r /\ request'[r] = [request[r] EXCEPT !.pc = "screen", !.open = page]
      BY <1>5, <2>1
    <3> QED BY <1>2, <3>1 DEF RequestStates
  <2>3. \A t \in page : ticket[t].outcome # "Absent" /\ ticket'[t].outcome # "Absent"
    BY DEF Pages, PendingRequests, AcceptanceInv, TicketsKept
  <2>4. request[r].pc = "pending"
    BY <1>9, <2>2 DEF ReadPending
  <2> QED BY <1>2, <2>2, <2>3, <2>4, InvocationGoesOn
<1>10. ASSUME NEW q \in Requests, Screen(q)
       PROVE  InvocationOK(r)' /\ AnswerOK(r)'
  <2>1. PICK patterns \in HistoryPatterns :
          LET found == DetectHistorySignals(request[q].known, patterns, today)
          IN  request' = [request EXCEPT ![q] =
                [request[q] EXCEPT !.pc = "decide", !.history = found,
                                   !.known = @ \cup AsCreditNotes(request[q].open)]]
    BY <1>4, <1>10 DEF Screen
  <2>2. /\ q = r /\ request'[r].pc = "decide" /\ request'[r].open = request[r].open
        /\ request'[r].conv = request[r].conv /\ request'[r].reply = request[r].reply
        /\ request'[r].suspect = request[r].suspect
    <3> DEFINE found == DetectHistorySignals(request[r].known, patterns, today)
               known == request[r].known \cup AsCreditNotes(request[r].open)
    <3>1. q = r /\ request'[r] = [request[r] EXCEPT !.pc = "decide", !.history = found,
                                                   !.known = known]
      BY <1>5, <2>1
    <3> HIDE DEF found, known
    <3> QED BY <1>2, <3>1 DEF RequestStates
  <2>3. \A t \in request[r].open : ticket'[t].outcome # "Absent"
    BY <1>2 DEF InvocationOK, TicketsKept, RequestStates
  <2>4. request[r].pc = "screen"
    BY <1>10, <2>2 DEF Screen
  <2> QED BY <1>2, <2>2, <2>3, <2>4, InvocationGoesOn
<1>11. ASSUME NEW q \in Requests, Refuse(q)
       PROVE  InvocationOK(r)' /\ AnswerOK(r)'
  <2>1. Decision(q) # "REQUESTED"
    BY DecisionTypes DEF Outcomes
  <2> QED BY <1>6, <1>11, <2>1, OtherReplies DEF Refuse
<1>12. ASSUME NEW q \in Requests, request[q].pc = "decide", q = r, Decision(q) = "GRANTED"
       PROVE  ~request[r].suspect
  <2>1. request[r].amount \in Nat /\ request[r].conv \in Conversations
    BY <1>12, RequestAssumption DEF TypeOK, RequestTypeOK, InvocationTypeOK
  <2> QED BY <1>2, <1>12, <2>1, SuspectIsNotGranted DEF InvocationOK
<1>13. ASSUME NEW q \in Requests, AnswerWithOpenTicket(q)
       PROVE  InvocationOK(r)' /\ AnswerOK(r)'
  <2>1. PICK t \in Matching(q) : Reply(q, "REQUESTED", t)
    BY <1>13 DEF AnswerWithOpenTicket
  <2>2. q = r /\ ~request[r].suspect
    BY <1>6, <1>12, <1>13, <2>1 DEF AnswerWithOpenTicket
  <2>3. /\ t \in Tickets /\ ticket[t].outcome # "Absent"
        /\ ticket[t].payload = [entry |-> request[r].entry, amount |-> request[r].amount]
    BY <1>2, <2>2 DEF Matching, InvocationOK, RequestStates
  <2>4. ticket'[t].outcome # "Absent" /\ ticket'[t].payload = ticket[t].payload
    BY <2>3 DEF TicketsKept
  <2> QED BY <2>1, <2>2, <2>3, <2>4, RequestedReply
<1>14. ASSUME NEW q \in Requests, Permit(q)
       PROVE  InvocationOK(r)' /\ AnswerOK(r)'
  <2>1. request' = [request EXCEPT ![q] =
                      [request[q] EXCEPT !.pc = "raise", !.known = {}, !.open = {}]]
    BY <1>4, <1>14 DEF Permit
  <2>2. /\ q = r /\ request'[r].open = {}
        /\ request'[r].conv = request[r].conv /\ request'[r].reply = request[r].reply
        /\ request'[r].suspect = request[r].suspect
    <3>1. q = r
          /\ request'[r] = [request[r] EXCEPT !.pc = "raise", !.known = {}, !.open = {}]
      BY <1>5, <2>1
    <3> QED BY <1>2, <3>1 DEF RequestStates
  <2>3. request[r].pc = "decide" /\ ~request[r].suspect
    BY <1>12, <1>14, <2>2 DEF Permit
  <2> QED BY <1>2, <2>2, <2>3, InvocationGoesOn
<1>15. ASSUME NEW q \in Requests, NEW t \in Tickets, RaiseRequest(q, t)
       PROVE  InvocationOK(r)' /\ AnswerOK(r)'
  <2>1. q = r /\ Reply(r, "REQUESTED", t) /\ ~request[r].suspect
    BY <1>2, <1>6, <1>15 DEF RaiseRequest, AnswerOK
  <2>2. ticket' = [ticket EXCEPT ![t] =
                     [payload  |-> [entry |-> request[r].entry, amount |-> request[r].amount],
                      outcome  |-> "Undecided",
                      modified |-> today]]
    BY <1>15, <2>1 DEF RaiseRequest, CreateTicket
  <2>3. ticket'[t].outcome # "Absent"
        /\ ticket'[t].payload = [entry |-> request[r].entry, amount |-> request[r].amount]
    BY <2>2 DEF TypeOK, CrmTypeOK
  <2> QED BY <2>1, <2>3, RequestedReply
<1>16. ASSUME NEW q \in Requests, NEW t \in Tickets, RaiseUnanswered(q, t)
       PROVE  InvocationOK(r)' /\ AnswerOK(r)'
  BY <1>6, <1>16, OtherReplies DEF RaiseUnanswered
<1>17. ASSUME NEW q \in Requests, FailRequest(q)
       PROVE  InvocationOK(r)' /\ AnswerOK(r)'
  BY <1>6, <1>17, OtherReplies DEF FailRequest
<1> QED
  BY <1>1, <1>3, <1>7, <1>8, <1>9, <1>10, <1>11, <1>13, <1>14, <1>15, <1>16, <1>17
  DEF RequestNext, Verify, RecordSignal, SetAccount
-----------------------------------------------------------------------------
(* The theorems.                                                           *)

\* The invariant holds when the workflow starts.
LEMMA InvariantHoldsAtFirst == Init => IInv
<1> SUFFICES ASSUME Init PROVE IInv
  OBVIOUS
<1> USE DEF Init, CrmInit, LedgerInit, RequestInit, ApplierInit
<1>1. CrmTypeOK
  BY CrmAssumption DEF CrmTypeOK, Days, AbsentTicket, TicketOutcomes
<1>2. LedgerTypeOK
  BY DEF LedgerTypeOK
<1>3. RequestTypeOK
  <2>1. NewRequest \in RequestStates
    BY DEF NewRequest, RequestStates, RequestPcs, NoCharge, Charges, Replies
  <2>2. NoSignals \in [SignalTypes -> Nat]
    BY DEF NoSignals
  <2> QED BY <2>1, <2>2, RequestAssumption DEF RequestTypeOK, InvocationTypeOK, NewRequest
<1>4. ApplierTypeOK
  BY DEF ApplierTypeOK, IdleRun, ApplierPcs
<1>5. AcceptanceInv
  BY DEF AcceptanceInv, AbsentTicket
<1>6. RunInv
  BY DEF RunInv, RunOK, IdleRun
<1>7. CreditsWereAccepted
  BY DEF CreditsWereAccepted
<1>8. InvocationInv /\ AnswerInv
  BY DEF InvocationInv, InvocationOK, AnswerInv, AnswerOK, NewRequest
<1> QED
  BY <1>1, <1>2, <1>3, <1>4, <1>5, <1>6, <1>7, <1>8, AnswerInvIsBoth DEF IInv, TypeOK

\* The invariant is inductive: every step keeps every part of it.
LEMMA InvariantIsKept == IInv /\ [Next]_vars => IInv'
<1> SUFFICES ASSUME IInv, [Next]_vars PROVE IInv'
  OBVIOUS
<1>1. AnswerInv
  BY AnswerInvIsBoth DEF IInv
<1>2. CrmChange /\ LedgerChange
  BY CrmStep, LedgerStep DEF IInv
<1>3. TicketsKept
  BY <1>2, TicketsAreKept DEF IInv
<1>4. TypeOK'
  BY <1>2, CrmTypes, LedgerTypes, RequestTypes, ApplierTypes DEF IInv, TypeOK
<1>5. AcceptanceInv'
  BY <1>2, AcceptancePreserved DEF IInv
<1>6. RunInv'
  BY <1>3, RunPreserved DEF IInv
<1>7. CreditsWereAccepted'
  BY <1>2, <1>3, CreditsPreserved DEF IInv
<1>8. InvocationInv' /\ AnswerInv'
  BY <1>1, <1>3, EndpointPreserved DEF IInv
<1>9. RequestedMeansRaised' /\ SuspectCallsAskForNothing'
  BY <1>8 DEF AnswerInv, AnswerOK, RequestedMeansRaised, SuspectCallsAskForNothing
<1> QED
  BY <1>4, <1>5, <1>6, <1>7, <1>8, <1>9 DEF IInv

\* The invariant holds in every reachable state of the credit workflow
\* (request_credit.py and apply_decisions.py over one CRM and one ledger).
THEOREM InvariantIsInvariant == Spec => []IInv
<1>1. Init => IInv
  BY InvariantHoldsAtFirst
<1>2. IInv /\ [Next]_vars => IInv'
  BY InvariantIsKept
<1> QED BY <1>1, <1>2, PTL DEF Spec

\* Every variable of the workflow keeps the type the code gives it.
THEOREM TypesAreKept == Spec => []TypeOK
<1>1. IInv => TypeOK
  BY DEF IInv
<1> QED BY <1>1, InvariantIsInvariant, PTL

\* The applier writes no credit that a person has not accepted, and writes it
\* as the ticket says, for any number of overlapping runs and crashes.
THEOREM OnlyAcceptedCredits == Spec => []CreditsWereAccepted
<1>1. IInv => CreditsWereAccepted
  BY DEF IInv
<1> QED BY <1>1, InvariantIsInvariant, PTL

\* The endpoint says REQUESTED only about a ticket that exists and asks for
\* what the caller asked.
THEOREM NoEmptyPromise == Spec => []RequestedMeansRaised
<1>1. IInv => RequestedMeansRaised
  BY DEF IInv
<1> QED BY <1>1, InvariantIsInvariant, PTL

\* A conversation with a decisive signal never raises a request after it.
THEOREM SuspectsAreRefused == Spec => []SuspectCallsAskForNothing
<1>1. IInv => SuspectCallsAskForNothing
  BY DEF IInv
<1> QED BY <1>1, InvariantIsInvariant, PTL

\* A run decides to write only about a charge that is undisputed at that time.
THEOREM DisputeIsRespected == Spec => DisputeStopsTheCredit
<1> DEFINE Respects ==
      \A a \in Appliers :
        applier[a].pc = "loop" /\ applier'[a].pc = "put" =>
          ticket[applier'[a].current].payload.entry \notin disputed
<1>1. IInv /\ [Next]_vars => [Respects]_vars
  <2> SUFFICES ASSUME IInv, Next, NEW a \in Appliers, applier[a].pc = "loop",
                      applier'[a].pc = "put"
               PROVE  ticket[applier'[a].current].payload.entry \notin disputed
    BY DEF vars
  <2>1. PICK b \in Appliers : Fetch(b) \/ ApplierStep(b) \/ ApplierFault(b)
    BY DEF Next, RequestNext, ApplierNext, requestVars
  <2>2. applier \in [Appliers -> [pc : ApplierPcs, queue : SUBSET Tickets,
                                  current : Tickets \cup {NoTicketId}]]
    BY DEF IInv, TypeOK, ApplierTypeOK
  <2>3. PICK t \in Tickets : Revalidate(b, t)
    BY <2>1, <2>2
    DEF ApplierStep, ApplierFault, Fetch, PutCredit, AlreadyApplied, AuditCredit,
        NoteApplied, NoteRefused, PutUnanswered, LoseAudit, FailTicket, CrashRun,
        FailRevalidate, NextTicket, Goto, IdleRun
  <2>4. PICK seen \in LedgerReads :
          applier' = [applier EXCEPT ![b] =
            [pc      |-> IF Revalidated(t, seen) = "GRANTED" THEN "put" ELSE "refuse",
             queue   |-> applier[b].queue \ {t},
             current |-> t]]
    BY <2>3 DEF Revalidate
  <2>5. a = b /\ applier'[a].current = t /\ Revalidated(t, seen) = "GRANTED"
    BY <2>2, <2>4
  <2>6. t \in accepted
    BY <2>3 DEF Revalidate, IInv, RunInv, RunOK
  <2>7. ticket[t].payload \in Payloads
    BY <2>6 DEF IInv, AcceptanceInv, TypeOK, CrmTypeOK
  <2> QED BY <2>5, <2>7, RevalidatedObeysTheRules
<1> QED BY <1>1, InvariantIsInvariant, PTL DEF Spec, DisputeStopsTheCredit

-----------------------------------------------------------------------------
(* Refinement: the workflow implements CreditPromise.                      *)

\* The workflow starts in a state the promise allows.
LEMMA PromiseHoldsAtFirst == Init => Promise!Init
BY DEF Init, CrmInit, LedgerInit, AbsentTicket, Promise!Init

\* Every step of the workflow is a step of the promise or leaves it alone.
LEMMA StepKeepsPromise ==
  IInv /\ [Next]_vars => [Promise!Next]_Promise!promiseVars
<1> SUFFICES ASSUME IInv, [Next]_vars PROVE [Promise!Next]_Promise!promiseVars
  OBVIOUS
<1> USE DEF Promise!promiseVars
<1>1. CrmChange /\ LedgerChange
  BY CrmStep, LedgerStep DEF IInv
<1>2. ticket \in [Tickets -> [payload : Payloads \cup {NoPayload},
                              outcome : TicketOutcomes, modified : Days]]
  BY DEF IInv, TypeOK, CrmTypeOK
<1>3. CASE UNCHANGED <<ticket, accepted, credits>>
  BY <1>3
<1>4. ASSUME NEW a \in Appliers, applier[a].pc = "put", credits' # credits,
             Put(NoteFor(applier[a].current)), UNCHANGED <<today, ticket, accepted>>
      PROVE  Promise!Next
  <2> DEFINE t == applier[a].current
  <2>1. t \in accepted /\ t \in Tickets
    BY <1>4 DEF IInv, RunInv, RunOK, TypeOK, CrmTypeOK
  <2>2. ticket[t].payload.amount \in 1..MaxPerRequest
    BY <1>4 DEF IInv, RunInv, RunOK
  <2>3. today \in Days
    BY DEF IInv, TypeOK, CrmTypeOK
  <2>4. ~OnLedger(t) /\ credits' = credits \cup {NoteFor(t)}
    BY <1>4 DEF Put, NoteFor, CreditNote
  <2>5. Promise!Grant(t, today)
    BY <1>4, <2>1, <2>2, <2>4 DEF Promise!Grant, OnLedger, NoteFor, CreditNote
  <2> QED BY <2>1, <2>3, <2>5 DEF Promise!Next
<1>5. ASSUME NEW t \in Tickets, NEW p \in Payloads, CreateTicket(t, p),
             accepted' = accepted, credits' = credits
      PROVE  Promise!Next
  <2>1. ticket[t].payload = NoPayload
    BY <1>5 DEF CreateTicket, IInv, AcceptanceInv
  <2>2. \A x \in Tickets : ticket'[x].payload = IF x = t THEN p ELSE ticket[x].payload
    BY <1>2, <1>5 DEF CreateTicket
  <2>3. Promise!Ask(t, p)
    BY <1>5, <2>1, <2>2 DEF Promise!Ask
  <2> QED BY <2>3 DEF Promise!Next
<1>6. ASSUME NEW t \in Tickets, NEW o \in {"Accepted", "Rejected"}, Decide(t, o),
             credits' = credits
      PROVE  [Promise!Next]_Promise!promiseVars
  <2>1. \A x \in Tickets : ticket'[x].payload = ticket[x].payload
    BY <1>2, <1>6 DEF Decide
  <2>2. ticket[t].payload # NoPayload
    BY <1>6, CrmAssumption DEF Decide, IInv, TypeOK, CrmTypeOK
  <2>3. CASE o = "Accepted"
    BY <1>6, <2>1, <2>2, <2>3 DEF Decide, Promise!Approve, Promise!Next
  <2>4. CASE o # "Accepted"
    BY <1>6, <2>1, <2>4 DEF Decide
  <2> QED BY <2>3, <2>4
<1> QED
  BY <1>1, <1>3, <1>4, <1>5, <1>6 DEF CrmChange, LedgerChange, ledgerVars, CreateTicket

\* The workflow implements CreditPromise: whatever runs, crashes and searches
\* do, the ledger sees at most one credit per ticket, after its acceptance,
\* for what was asked, within the per-request limit.
THEOREM WorkflowKeepsThePromise == Spec => ImplementsPromise
<1>1. Init => Promise!Init
  BY PromiseHoldsAtFirst
<1>2. IInv /\ [Next]_vars => [Promise!Next]_Promise!promiseVars
  BY StepKeepsPromise
<1> QED
  BY <1>1, <1>2, InvariantIsInvariant, PTL DEF Spec, ImplementsPromise, Promise!Spec

-----------------------------------------------------------------------------
(* Totals of credit notes (CreditRules) are sums of their amounts.         *)

\* Whatever the weights are called, and whatever they are of other notes.
LEMMA TotalIsSum ==
  ASSUME NEW S, NEW w, \A note \in S : w[note] = note.amount
  PROVE  Total(S) = SumOf(w, S)
<1> DEFINE IsTotal(f) ==
      f = [s \in SUBSET S |-> IF s = {} THEN 0 ELSE SomeOf(s).amount + f[s \ {SomeOf(s)}]]
<1>1. Total(S) = (CHOOSE f : IsTotal(f))[S]
  BY DEF Total, MapThenSumSet, MapThenFoldSet, SomeOf
<1>2. \A s \in SUBSET S : s # {} => w[SomeOf(s)] = SomeOf(s).amount
  BY DEF SomeOf
<1>3. ASSUME NEW f PROVE IsTotal(f) <=> IsSum(f, w, S)
  <2>1. [s \in SUBSET S |-> IF s = {} THEN 0 ELSE SomeOf(s).amount + f[s \ {SomeOf(s)}]]
        = [s \in SUBSET S |-> IF s = {} THEN 0 ELSE w[SomeOf(s)] + f[s \ {SomeOf(s)}]]
    BY <1>2
  <2> QED BY <2>1 DEF IsSum
<1>4. (CHOOSE f : IsTotal(f)) = CHOOSE f : IsSum(f, w, S)
  <2> HIDE DEF IsTotal
  <2> QED BY <1>3
<1> QED BY <1>1, <1>4 DEF SumOf, Sums

\* Notes that carry an amount.
Priced(S) == \A note \in S : note.amount \in Nat

Worth(S) == [note \in S |-> note.amount]

\* The totals of such notes, and of some of them, are sums of the same weights.
LEMMA TotalsAreSums ==
  ASSUME NEW S, Priced(S)
  PROVE  \A T \in SUBSET S : Weighted(Worth(S), T) /\ Total(T) = SumOf(Worth(S), T)
<1> SUFFICES ASSUME NEW T \in SUBSET S
             PROVE  Weighted(Worth(S), T) /\ Total(T) = SumOf(Worth(S), T)
  OBVIOUS
<1>1. \A note \in T : Worth(S)[note] = note.amount /\ note.amount \in Nat
  BY DEF Worth, Priced
<1>2. Weighted(Worth(S), T)
  BY <1>1 DEF Weighted
<1>3. \A w : (\A note \in T : w[note] = note.amount) => Total(T) = SumOf(w, T)
  BY TotalIsSum
<1> QED BY <1>1, <1>2, <1>3

\* No notes are worth nothing.
LEMMA TotalOfNone == Total({}) = 0
<1>1. Total({}) = SumOf(Worth({}), {})
  BY TotalsAreSums DEF Priced
<1> QED BY <1>1, SumOfNone

\* The total of such notes is a natural number.
LEMMA TotalIsNat ==
  ASSUME NEW S, IsFiniteSet(S), Priced(S)
  PROVE  Total(S) \in Nat
BY TotalsAreSums, SumIsNat

\* Any note may be taken out.
LEMMA TotalWithout ==
  ASSUME NEW S, IsFiniteSet(S), Priced(S), NEW x \in S
  PROVE  Total(S) = x.amount + Total(S \ {x})
<1>1. Total(S) = SumOf(Worth(S), S) /\ Total(S \ {x}) = SumOf(Worth(S), S \ {x})
  BY TotalsAreSums
<1>2. AnyOrder(Worth(S), S)
  BY TotalsAreSums, SumWithout
<1>3. Worth(S)[x] = x.amount
  BY DEF Worth
<1> QED BY <1>1, <1>2, <1>3 DEF AnyOrder

\* A note added adds its amount.
LEMMA TotalWith ==
  ASSUME NEW S, IsFiniteSet(S), Priced(S), NEW x, x \notin S, x.amount \in Nat
  PROVE  Total(S \cup {x}) = Total(S) + x.amount
<1>1. IsFiniteSet(S \cup {x}) /\ Priced(S \cup {x})
  BY FS_AddElement DEF Priced
<1>2. Total(S \cup {x}) = x.amount + Total((S \cup {x}) \ {x})
  BY <1>1, TotalWithout
<1>3. (S \cup {x}) \ {x} = S
  OBVIOUS
<1>4. Total(S) \in Nat
  BY TotalIsNat
<1>5. Total(S \cup {x}) = x.amount + Total(S)
  BY <1>2, <1>3
<1> QED BY <1>4, <1>5

\* Fewer notes never sum to more.
LEMMA TotalIsMonotone ==
  ASSUME NEW S, IsFiniteSet(S), Priced(S), NEW T \in SUBSET S
  PROVE  Total(T) <= Total(S)
<1>1. Total(S) = SumOf(Worth(S), S) /\ Total(T) = SumOf(Worth(S), T)
  BY TotalsAreSums
<1>2. Weighted(Worth(S), S)
  BY TotalsAreSums
<1>3. SumOf(Worth(S), T) <= SumOf(Worth(S), S)
  BY <1>2, SumIsMonotone
<1> QED BY <1>1, <1>3

\* Notes of at most m each sum to at most m times their number.
LEMMA TotalIsBounded ==
  ASSUME NEW S, IsFiniteSet(S), NEW m \in Nat, \A note \in S : note.amount \in 0..m
  PROVE  Total(S) <= Cardinality(S) * m
<1>1. Priced(S)
  BY DEF Priced
<1>2. Total(S) = SumOf(Worth(S), S)
  BY <1>1, TotalsAreSums
<1>3. \A x \in S : Worth(S)[x] \in 0..m
  BY DEF Worth
<1>4. SumOf(Worth(S), S) <= Cardinality(S) * m
  BY <1>3, SumIsBounded
<1> QED BY <1>2, <1>4

-----------------------------------------------------------------------------
(* The ceilings: what is on the ledger and what is on its way there.       *)

\* What the ceilings need of the start: reads that see every write, as
\* many runs as there are at a time, and a customer who is not past them yet.
WithinAtFirst ==
  /\ StrongReads
  /\ IsFiniteSet(Appliers) /\ Appliers # {}
  /\ IsFiniteSet(SeedCredits)
  /\ \A note \in SeedCredits : note.amount \in Nat /\ note.date \in Int
  /\ RollingCreditTotal(SeedCredits, 0) <= MaxRolling + Overshoot
  /\ \A e \in Entries : AlreadyCredited(SeedCredits, e) <= Billed[e] + Overshoot

\* The tickets some run is about to write for the first time.
Promised ==
  {t \in Tickets : /\ ~OnLedger(t)
                   /\ \E a \in Appliers : applier[a].pc = "put" /\ applier[a].current = t}

\* What such a ticket will add, whatever the day.
Due(t) ==
  [ticket |-> t, entry |-> ticket[t].payload.entry, amount |-> ticket[t].payload.amount]

InHand == {Due(t) : t \in Promised}

InHandFor(e) == {due \in InHand : due.entry = e}

CeilingInv ==
  /\ IsFiniteSet(credits)
  /\ RollingCreditTotal(credits, today) + Total(InHand) <= MaxRolling + Overshoot
  /\ \A e \in Entries :
       AlreadyCredited(credits, e) + Total(InHandFor(e)) <= Billed[e] + Overshoot

\* With a run at all, the margin is a natural number.
LEMMA OvershootIsNat ==
  ASSUME WithinAtFirst
  PROVE  Overshoot \in Nat
<1>1. Cardinality(Appliers) \in Nat \ {0}
  BY FS_CardinalityType, FS_EmptySet DEF WithinAtFirst
<1>2. Cardinality(Appliers) - 1 \in Nat /\ MaxPerRequest \in Nat
  BY <1>1, PolicyAssumption
<1>3. \A m, n \in Nat : m * n \in Nat
  OBVIOUS
<1> QED BY <1>2, <1>3 DEF Overshoot

\* The notes of the ledger carry amounts and days.
LEMMA NotesArePriced ==
  ASSUME WithinAtFirst, TypeOK
  PROVE  \A note \in credits : note.amount \in Nat /\ note.date \in Int
<1>1. \A note \in CreditNotes : note.amount \in Nat /\ note.date \in Int
  BY DEF CreditNotes
<1>2. \A note \in credits : note \in SeedCredits \/ note \in CreditNotes
  BY DEF TypeOK, LedgerTypeOK
<1> QED BY <1>1, <1>2 DEF WithinAtFirst

\* The runs of A that are about to write hold at most one credit each.
Held(A) == {Due(applier[a].current) : a \in {b \in A : applier[b].pc = "put"}}

\* There are no more of these credits than runs.
LEMMA OneEach ==
  ASSUME NEW A, IsFiniteSet(A)
  PROVE  IsFiniteSet(Held(A)) /\ Cardinality(Held(A)) <= Cardinality(A)
<1> DEFINE P == {b \in A : applier[b].pc = "put"}
           f == [a \in P |-> Due(applier[a].current)]
<1>1. P \in SUBSET A
  OBVIOUS
<1>2. IsFiniteSet(P) /\ Cardinality(P) <= Cardinality(A)
  BY <1>1, FS_Subset
<1>3. f \in Surjection(P, Held(A))
  BY DEF Surjection, Held
<1>4. IsFiniteSet(Held(A)) /\ Cardinality(Held(A)) <= Cardinality(P)
  <2> HIDE DEF P, f
  <2> QED BY <1>2, <1>3, FS_Surjection
<1>5. Cardinality(Held(A)) \in Nat /\ Cardinality(P) \in Nat /\ Cardinality(A) \in Nat
  BY <1>2, <1>4, FS_CardinalityType
<1> QED BY <1>2, <1>4, <1>5

\* Each is within the per-request limit.
LEMMA HeldIsSmall ==
  ASSUME IInv, NEW A \in SUBSET Appliers
  PROVE  \A due \in Held(A) : due.amount \in 0..MaxPerRequest
<1> SUFFICES ASSUME NEW a \in A, applier[a].pc = "put"
             PROVE  Due(applier[a].current).amount \in 0..MaxPerRequest
  BY DEF Held
<1>1. ticket[applier[a].current].payload.amount \in 1..MaxPerRequest
  BY DEF IInv, RunInv, RunOK
<1> QED BY <1>1, PolicyAssumption DEF Due

\* What is in hand is finitely many credits, each with an amount.
LEMMA InHandIsFinite ==
  ASSUME WithinAtFirst, IInv
  PROVE  /\ IsFiniteSet(InHand) /\ Priced(InHand) /\ Total(InHand) \in Nat
         /\ \A e : IsFiniteSet(InHandFor(e)) /\ Priced(InHandFor(e)) /\ Total(InHandFor(e)) \in Nat
<1>1. InHand \subseteq Held(Appliers)
  BY DEF InHand, Promised, Held
<1>2. IsFiniteSet(InHand)
  BY <1>1, OneEach, FS_Subset DEF WithinAtFirst
<1>3. Priced(InHand)
  BY <1>1, HeldIsSmall, PolicyAssumption DEF Priced
<1>4. ASSUME NEW e
      PROVE  IsFiniteSet(InHandFor(e)) /\ Priced(InHandFor(e))
  <2>1. InHandFor(e) \in SUBSET InHand
    BY DEF InHandFor
  <2> QED BY <1>2, <1>3, <2>1, FS_Subset DEF Priced
<1> QED BY <1>2, <1>3, <1>4, TotalIsNat

\* And so are the sums the rules take over a finite ledger.
InWindow(day) == {note \in Counted(credits) : note.date >= day - WindowDays}

Against(e) == {note \in Counted(credits) : note.entry = e}

\* The totals the two ceilings are held against are the sums of these notes.
LEMMA LedgerSums ==
  ASSUME WithinAtFirst, TypeOK, IsFiniteSet(credits)
  PROVE  /\ \A day : /\ IsFiniteSet(InWindow(day)) /\ Priced(InWindow(day))
                     /\ RollingCreditTotal(credits, day) = Total(InWindow(day))
                     /\ RollingCreditTotal(credits, day) \in Nat
         /\ \A e : /\ IsFiniteSet(Against(e)) /\ Priced(Against(e))
                   /\ AlreadyCredited(credits, e) = Total(Against(e))
                   /\ AlreadyCredited(credits, e) \in Nat
<1>1. ASSUME NEW S \in SUBSET credits
      PROVE  IsFiniteSet(S) /\ Priced(S) /\ Total(S) \in Nat
  <2>1. IsFiniteSet(S) /\ Priced(S)
    BY NotesArePriced, FS_Subset DEF Priced
  <2> QED BY <2>1, TotalIsNat
<1>2. \A day : InWindow(day) \in SUBSET credits
  BY DEF InWindow, Counted
<1>3. \A e : Against(e) \in SUBSET credits
  BY DEF Against, Counted
<1>4. \A day : RollingCreditTotal(credits, day) = Total(InWindow(day))
  BY DEF RollingCreditTotal, InWindow
<1>5. \A e : AlreadyCredited(credits, e) = Total(Against(e))
  BY DEF AlreadyCredited, Against
<1> QED BY <1>1, <1>2, <1>3, <1>4, <1>5

-----------------------------------------------------------------------------
(* What a step does to the credits in hand.                                *)

\* A run takes up a ticket and finds it within the rules; it now holds it.
TakenUp(a, t) ==
  /\ t \in accepted
  /\ applier[a].pc # "put"
  /\ \E seen \in LedgerReads : Revalidated(t, seen) = "GRANTED"
  /\ applier'[a].pc = "put" /\ applier'[a].current = t

\* Only these things happen to what runs hold.
HandChange ==
  /\ \A a \in Appliers :
       applier'[a].pc = "put" =>
         \/ applier[a].pc = "put" /\ applier'[a].current = applier[a].current
         \/ /\ \E t \in Tickets : TakenUp(a, t)
            /\ \A b \in Appliers \ {a} : applier'[b] = applier[b]
            /\ UNCHANGED <<today, ticket, credits>>
  /\ \/ credits' = credits
     \/ \E a \in Appliers : /\ applier[a].pc = "put"
                            /\ Put(NoteFor(applier[a].current))
                            /\ UNCHANGED <<today, ticket, accepted>>

\* No step changes the ledger, the tickets and the runs in any other way.
LEMMA HandStep ==
  ASSUME IInv, [Next]_vars
  PROVE  HandChange
<1>1. \/ credits' = credits
      \/ \E a \in Appliers : /\ applier[a].pc = "put"
                             /\ Put(NoteFor(applier[a].current))
                             /\ UNCHANGED <<today, ticket, accepted>>
  BY LedgerStep DEF IInv, LedgerChange
<1>2. ASSUME NEW a \in Appliers, applier'[a].pc = "put",
             ~ (applier[a].pc = "put" /\ applier'[a].current = applier[a].current)
      PROVE  /\ \E t \in Tickets : TakenUp(a, t)
             /\ \A b \in Appliers \ {a} : applier'[b] = applier[b]
             /\ UNCHANGED <<today, ticket, credits>>
  <2>1. PICK b \in Appliers : Fetch(b) \/ ApplierStep(b) \/ ApplierFault(b)
    BY <1>2 DEF Next, RequestNext, ApplierNext, requestVars, vars
  <2>2. applier \in [Appliers -> [pc : ApplierPcs, queue : SUBSET Tickets,
                                  current : Tickets \cup {NoTicketId}]]
    BY DEF IInv, TypeOK, ApplierTypeOK
  <2>3. PICK t \in Tickets : Revalidate(b, t)
    BY <1>2, <2>1, <2>2
    DEF ApplierStep, ApplierFault, Fetch, PutCredit, AlreadyApplied, AuditCredit,
        NoteApplied, NoteRefused, PutUnanswered, LoseAudit, FailTicket, CrashRun,
        FailRevalidate, NextTicket, Goto, IdleRun
  <2>4. PICK seen \in LedgerReads :
          applier' = [applier EXCEPT ![b] =
            [pc      |-> IF Revalidated(t, seen) = "GRANTED" THEN "put" ELSE "refuse",
             queue   |-> applier[b].queue \ {t},
             current |-> t]]
    BY <2>3 DEF Revalidate
  <2>5. a = b /\ applier'[a].current = t /\ Revalidated(t, seen) = "GRANTED"
    BY <1>2, <2>2, <2>4
  <2>6. t \in accepted /\ applier[a].pc # "put" /\ UNCHANGED <<today, ticket, credits>>
    BY <2>3, <2>5 DEF Revalidate, IInv, RunInv, RunOK, crmVars, ledgerVars
  <2>7. \A c \in Appliers \ {a} : applier'[c] = applier[c]
    BY <2>2, <2>4, <2>5
  <2> QED BY <1>2, <2>5, <2>6, <2>7 DEF TakenUp
<1> QED BY <1>1, <1>2 DEF HandChange

\* An accepted ticket asks for the same after any step.
LEMMA DueIsKept ==
  ASSUME IInv, [Next]_vars, NEW t \in accepted
  PROVE  Due(t)' = Due(t) /\ t \in Tickets
<1>1. TicketsKept
  BY CrmStep, TicketsAreKept DEF IInv
<1>2. t \in Tickets /\ ticket[t].outcome # "Absent"
  BY DEF IInv, AcceptanceInv, TypeOK, CrmTypeOK
<1> QED BY <1>1, <1>2 DEF TicketsKept, Due

\* What was in hand and is still in hand is the same credit.
LEMMA HandsKeep ==
  ASSUME IInv, [Next]_vars, NEW due \in InHand'
  PROVE  \E a \in Appliers, t \in Tickets :
           /\ applier'[a].pc = "put" /\ applier'[a].current = t
           /\ ~OnLedger(t)' /\ due = Due(t)'
           /\ applier[a].pc = "put" /\ applier[a].current = t =>
                due = Due(t) /\ (OnLedger(t) \/ due \in InHand)
<1>1. PICK t \in Promised' : due = Due(t)'
  BY DEF InHand
<1>2. PICK a \in Appliers : applier'[a].pc = "put" /\ applier'[a].current = t
  BY <1>1 DEF Promised
<1>3. t \in Tickets /\ ~OnLedger(t)'
  BY <1>1 DEF Promised
<1>4. ASSUME applier[a].pc = "put", applier[a].current = t
      PROVE  due = Due(t) /\ (OnLedger(t) \/ due \in InHand)
  <2>1. t \in accepted
    BY <1>2, <1>4 DEF IInv, RunInv, RunOK
  <2>2. due = Due(t)
    BY <1>1, <2>1, DueIsKept
  <2> QED BY <1>2, <1>3, <1>4, <2>2 DEF InHand, Promised
<1> QED BY <1>1, <1>2, <1>3, <1>4

\* A ticket taken up is within both ceilings of the ledger as it stands.
LEMMA TakenUpIsWithin ==
  ASSUME WithinAtFirst, IInv, IsFiniteSet(credits),
         NEW a \in Appliers, NEW t \in Tickets, TakenUp(a, t)
  PROVE  /\ Due(t).amount \in 1..MaxPerRequest
         /\ RollingCreditTotal(credits, today) + Due(t).amount <= MaxRolling
         /\ Due(t).entry \in Entries
         /\ AlreadyCredited(credits, Due(t).entry) + Due(t).amount <= Billed[Due(t).entry]
<1> DEFINE p == ticket[t].payload
           already == AlreadyCredited(credits, p.entry)
           rolling == RollingCreditTotal(credits, today)
           charge == ChargeFor(p.entry, already)
<1>1. ticket[t].payload \in Payloads /\ p.amount \in Nat
  BY RequestAssumption DEF TakenUp, IInv, AcceptanceInv, TypeOK, CrmTypeOK
<1>2. Revalidated(t, credits) = "GRANTED"
  BY DEF TakenUp, LedgerReads, WithinAtFirst
<1>3. EvaluateCredit(p.amount, charge, "ACTIVE", rolling, "NONE") = "GRANTED"
  BY <1>2 DEF Revalidated
<1>4. ~(p.amount > charge.amount - charge.already) /\ ~(rolling + p.amount > MaxRolling)
  <2> HIDE DEF p, charge, rolling
  <2> QED BY <1>1, <1>3, GrantedObeysTheRules
<1>5. p.amount \in 1..MaxPerRequest /\ p.entry \in Entries
  BY <1>1, <1>2, RevalidatedObeysTheRules
<1>6. charge.amount = Billed[p.entry] /\ charge.already = already /\ Billed[p.entry] \in Nat
  BY <1>5, LedgerAssumption DEF ChargeFor, Charge
<1>7. rolling \in Nat /\ already \in Nat /\ MaxRolling \in Nat
  BY LedgerSums, PolicyAssumption DEF IInv
<1> HIDE DEF already, rolling, charge
<1>8. rolling + p.amount <= MaxRolling /\ already + p.amount <= Billed[p.entry]
  BY <1>1, <1>4, <1>6, <1>7
<1>9. Due(t).entry = p.entry /\ Due(t).amount = p.amount
  BY DEF Due
<1> QED BY <1>5, <1>8, <1>9 DEF already, rolling

\* Fewer notes: a smaller sum, still a number.
LEMMA FewerNotes ==
  ASSUME NEW S, IsFiniteSet(S), Priced(S), NEW T, T \subseteq S
  PROVE  /\ IsFiniteSet(T) /\ Priced(T)
         /\ Total(T) \in Nat /\ Total(S) \in Nat /\ Total(T) <= Total(S)
<1>1. T \in SUBSET S
  OBVIOUS
<1>2. IsFiniteSet(T) /\ Priced(T)
  BY <1>1, FS_Subset DEF Priced
<1> QED BY <1>1, <1>2, TotalIsNat, TotalIsMonotone

\* The window only moves on: what has left it does not come back.
LEMMA WindowMovesOn ==
  ASSUME WithinAtFirst, IInv, IsFiniteSet(credits), today' \in {today, today + 1}
  PROVE  RollingCreditTotal(credits, today') <= RollingCreditTotal(credits, today)
<1>1. today \in Int /\ WindowDays \in Int
  BY PolicyAssumption, CrmAssumption DEF IInv, TypeOK, CrmTypeOK, Days
<1>2. \A note \in credits : note.date \in Int
  BY NotesArePriced DEF IInv
<1>3. InWindow(today') \subseteq InWindow(today)
  BY <1>1, <1>2 DEF InWindow, Counted
<1> QED BY <1>3, LedgerSums, FewerNotes DEF IInv

\* A step on which no run takes up a ticket and nothing is written.
LEMMA CeilingsWait ==
  ASSUME WithinAtFirst, IInv, CeilingInv, today' \in {today, today + 1},
         credits' = credits, InHand' \subseteq InHand
  PROVE  CeilingInv'
<1>1. IsFiniteSet(credits) /\ MaxRolling + Overshoot \in Nat
  BY PolicyAssumption, OvershootIsNat DEF CeilingInv
<1>2. Total(InHand') <= Total(InHand) /\ Total(InHand') \in Nat /\ Total(InHand) \in Nat
  BY InHandIsFinite, FewerNotes
<1>3. RollingCreditTotal(credits, today') <= RollingCreditTotal(credits, today)
  BY <1>1, WindowMovesOn
<1>4. /\ RollingCreditTotal(credits, today) \in Nat
      /\ RollingCreditTotal(credits, today') \in Nat
  BY <1>1, LedgerSums DEF IInv
<1>5. RollingCreditTotal(credits, today) + Total(InHand) <= MaxRolling + Overshoot
  BY DEF CeilingInv
<1>6. RollingCreditTotal(credits, today') + Total(InHand') <= MaxRolling + Overshoot
  BY <1>1, <1>2, <1>3, <1>4, <1>5
<1>7. ASSUME NEW e \in Entries
      PROVE  AlreadyCredited(credits, e) + Total(InHandFor(e)') <= Billed[e] + Overshoot
  <2>1. InHandFor(e)' \subseteq InHandFor(e)
    BY DEF InHandFor
  <2>2. /\ Total(InHandFor(e)') <= Total(InHandFor(e))
        /\ Total(InHandFor(e)') \in Nat /\ Total(InHandFor(e)) \in Nat
    BY <2>1, InHandIsFinite, FewerNotes
  <2>3. AlreadyCredited(credits, e) \in Nat /\ Billed[e] + Overshoot \in Nat
    BY <1>1, LedgerSums, OvershootIsNat, LedgerAssumption DEF IInv
  <2>4. AlreadyCredited(credits, e) + Total(InHandFor(e)) <= Billed[e] + Overshoot
    BY DEF CeilingInv
  <2> QED BY <2>2, <2>3, <2>4
<1> QED BY <1>1, <1>6, <1>7 DEF CeilingInv

\* With the ticket a run takes up, the hands hold that credit and at most one
\* for each other run; against another charge, no more than before.
LEMMA HandsTakeUp ==
  ASSUME WithinAtFirst, IInv, [Next]_vars, NEW a \in Appliers, NEW t \in Tickets,
         TakenUp(a, t), \A b \in Appliers \ {a} : applier'[b] = applier[b],
         UNCHANGED <<today, ticket, credits>>
  PROVE  /\ InHand' \subseteq {Due(t)} \cup Held(Appliers \ {a})
         /\ \A e : e # Due(t).entry => InHandFor(e)' \subseteq InHandFor(e)
<1>1. ASSUME NEW due \in InHand'
      PROVE  due = Due(t) \/ (due \in Held(Appliers \ {a}) /\ due \in InHand)
  <2>1. PICK b \in Appliers, u \in Tickets :
          /\ applier'[b].pc = "put" /\ applier'[b].current = u
          /\ ~OnLedger(u)' /\ due = Due(u)'
          /\ applier[b].pc = "put" /\ applier[b].current = u =>
               due = Due(u) /\ (OnLedger(u) \/ due \in InHand)
    BY <1>1, HandsKeep
  <2>2. CASE b = a
    <3>1. u = t /\ t \in accepted
      BY <2>1, <2>2 DEF TakenUp
    <3> QED BY <2>1, <3>1, DueIsKept
  <2>3. CASE b # a
    <3>1. applier[b].pc = "put" /\ applier[b].current = u
      BY <2>1, <2>3
    <3>2. ~OnLedger(u)
      BY <2>1 DEF OnLedger
    <3>3. due = Due(u) /\ due \in InHand
      BY <2>1, <3>1, <3>2
    <3> QED BY <2>3, <3>1, <3>3 DEF Held
  <2> QED BY <2>2, <2>3
<1>2. \A e : e # Due(t).entry => InHandFor(e)' \subseteq InHandFor(e)
  BY <1>1 DEF InHandFor
<1> QED BY <1>1, <1>2

\* So what is in hand then sums to that credit and the overshoot.
LEMMA HandsStayBounded ==
  ASSUME WithinAtFirst, IInv, NEW a \in Appliers, NEW new, new.amount \in 1..MaxPerRequest,
         NEW S, S \subseteq {new} \cup Held(Appliers \ {a})
  PROVE  /\ IsFiniteSet(S) /\ Priced(S) /\ Total(S) \in Nat
         /\ Total(S) <= new.amount + Overshoot
<1> DEFINE others == Held(Appliers \ {a})
           n == Cardinality(Appliers) - 1
<1>1. IsFiniteSet(Appliers \ {a}) /\ Cardinality(Appliers \ {a}) = n /\ n \in Nat
  <2>1. IsFiniteSet(Appliers) /\ a \in Appliers
    BY DEF WithinAtFirst
  <2>2. IsFiniteSet(Appliers \ {a}) /\ Cardinality(Appliers \ {a}) = n
    BY <2>1, FS_RemoveElement
  <2>3. Cardinality(Appliers \ {a}) \in Nat
    BY <2>2, FS_CardinalityType
  <2> QED BY <2>2, <2>3
<1>2. /\ IsFiniteSet(others) /\ Cardinality(others) <= n
      /\ \A due \in others : due.amount \in 0..MaxPerRequest
  BY <1>1, OneEach, HeldIsSmall
<1>3. Priced(others) /\ Cardinality(others) \in Nat /\ MaxPerRequest \in Nat
  <2>1. MaxPerRequest \in Nat
    BY PolicyAssumption
  <2>2. Cardinality(others) \in Nat
    BY <1>2, FS_CardinalityType
  <2> HIDE DEF others
  <2> QED BY <1>2, <2>1, <2>2 DEF Priced
<1>4. Total(others) \in Nat /\ Total(others) <= Cardinality(others) * MaxPerRequest
  BY <1>2, <1>3, TotalIsNat, TotalIsBounded
<1>5. \A i, j, m \in Nat : i <= j => i * m <= j * m /\ i * m \in Nat /\ j * m \in Nat
  <2> SUFFICES ASSUME NEW i \in Nat, NEW j \in Nat, NEW m \in Nat, i <= j
               PROVE  i * m <= j * m /\ i * m \in Nat /\ j * m \in Nat
    OBVIOUS
  <2>1. (j - i) * m \in Nat /\ j * m = (j - i) * m + i * m /\ i * m \in Nat /\ j * m \in Nat
    OBVIOUS
  <2> QED BY <2>1
<1> HIDE DEF others
<1>6. Total(others) <= Overshoot /\ Overshoot \in Nat
  BY <1>1, <1>2, <1>3, <1>4, <1>5, OvershootIsNat DEF Overshoot
<1>7. /\ IsFiniteSet(others \cup {new}) /\ Priced(others \cup {new})
      /\ Total(others \cup {new}) <= new.amount + Overshoot
  <2>1. CASE new \in others
    <3>1. others \cup {new} = others
      BY <2>1
    <3>2. Total(others) <= new.amount + Overshoot
      BY <1>4, <1>6
    <3>3. /\ IsFiniteSet(others \cup {new}) /\ Priced(others \cup {new})
          /\ Total(others \cup {new}) = Total(others)
      BY <1>2, <1>3, <3>1
    <3> QED BY <3>2, <3>3
  <2>2. CASE new \notin others
    <3>1. Total(others \cup {new}) = Total(others) + new.amount
      <4>1. new.amount \in Nat
        OBVIOUS
      <4> QED BY <1>2, <1>3, <2>2, <4>1, TotalWith
    <3>2. IsFiniteSet(others \cup {new})
      BY <1>2, FS_AddElement
    <3>3. Priced(others \cup {new})
      BY <1>3 DEF Priced
    <3>4. new.amount \in Nat
      OBVIOUS
    <3>5. Total(others \cup {new}) <= new.amount + Overshoot
      BY <1>4, <1>6, <3>1, <3>4
    <3> QED BY <3>2, <3>3, <3>5
  <2> QED BY <2>1, <2>2
<1>8. S \subseteq others \cup {new}
  BY DEF others
<1>9. /\ IsFiniteSet(S) /\ Priced(S) /\ Total(S) \in Nat
      /\ Total(S) <= Total(others \cup {new}) /\ Total(others \cup {new}) \in Nat
  BY <1>7, <1>8, FewerNotes
<1> QED BY <1>6, <1>7, <1>9

\* A step on which a run takes up a ticket.
LEMMA CeilingsTakeUp ==
  ASSUME WithinAtFirst, IInv, CeilingInv, [Next]_vars,
         NEW a \in Appliers, NEW t \in Tickets,
         TakenUp(a, t), \A b \in Appliers \ {a} : applier'[b] = applier[b],
         UNCHANGED <<today, ticket, credits>>
  PROVE  CeilingInv'
<1> DEFINE new == Due(t)
<1>1. /\ IsFiniteSet(credits) /\ Overshoot \in Nat /\ MaxRolling \in Nat
      /\ RollingCreditTotal(credits, today) \in Nat
      /\ \A e : AlreadyCredited(credits, e) \in Nat
  BY OvershootIsNat, PolicyAssumption, LedgerSums DEF CeilingInv, IInv
<1>2. /\ new.amount \in 1..MaxPerRequest
      /\ RollingCreditTotal(credits, today) + new.amount <= MaxRolling
      /\ new.entry \in Entries
      /\ AlreadyCredited(credits, new.entry) + new.amount <= Billed[new.entry]
  BY <1>1, TakenUpIsWithin
<1>3. /\ InHand' \subseteq {new} \cup Held(Appliers \ {a})
      /\ \A e : e # new.entry => InHandFor(e)' \subseteq InHandFor(e)
  BY HandsTakeUp
<1> HIDE DEF new
<1>4. Total(InHand') \in Nat /\ Total(InHand') <= new.amount + Overshoot
  BY <1>2, <1>3, HandsStayBounded
<1>5. RollingCreditTotal(credits, today) + Total(InHand') <= MaxRolling + Overshoot
  BY <1>1, <1>2, <1>4
<1>6. ASSUME NEW e \in Entries
      PROVE  AlreadyCredited(credits, e) + Total(InHandFor(e)') <= Billed[e] + Overshoot
  <2>1. Billed[e] \in Nat
    BY LedgerAssumption
  <2>2. CASE e = new.entry
    <3>1. InHandFor(e)' \subseteq {new} \cup Held(Appliers \ {a})
      BY <1>3 DEF InHandFor
    <3>2. Total(InHandFor(e)') \in Nat /\ Total(InHandFor(e)') <= new.amount + Overshoot
      BY <1>2, <3>1, HandsStayBounded
    <3> QED BY <1>1, <1>2, <2>1, <2>2, <3>2
  <2>3. CASE e # new.entry
    <3>1. InHandFor(e)' \subseteq InHandFor(e)
      BY <1>3, <2>3
    <3>2. /\ Total(InHandFor(e)') <= Total(InHandFor(e))
          /\ Total(InHandFor(e)') \in Nat /\ Total(InHandFor(e)) \in Nat
      BY <3>1, InHandIsFinite, FewerNotes
    <3>3. AlreadyCredited(credits, e) + Total(InHandFor(e)) <= Billed[e] + Overshoot
      BY DEF CeilingInv
    <3> QED BY <1>1, <2>1, <3>2, <3>3
  <2> QED BY <2>2, <2>3
<1> QED BY <1>1, <1>5, <1>6 DEF CeilingInv

\* Writing a credit takes it out of hand and leaves the rest there.
LEMMA HandsWrite ==
  ASSUME IInv, [Next]_vars, HandChange, NEW a \in Appliers, applier[a].pc = "put",
         Put(NoteFor(applier[a].current))
  PROVE  /\ Due(applier[a].current) \in InHand
         /\ InHand' \subseteq InHand \ {Due(applier[a].current)}
<1> DEFINE t == applier[a].current
<1>1. t \in Tickets /\ ~OnLedger(t) /\ credits' = credits \cup {NoteFor(t)}
  BY DEF IInv, RunInv, RunOK, TypeOK, CrmTypeOK, Put, NoteFor, CreditNote
<1>2. Due(t) \in InHand
  BY <1>1 DEF InHand, Promised
<1>3. NoteFor(t) \in credits' /\ NoteFor(t).ticket = t /\ NoteFor(t) \notin credits
  BY <1>1 DEF NoteFor, CreditNote, OnLedger
<1>4. ASSUME NEW due \in InHand'
      PROVE  due \in InHand /\ due # Due(t)
  <2>1. PICK b \in Appliers, u \in Tickets :
          /\ applier'[b].pc = "put" /\ applier'[b].current = u
          /\ ~OnLedger(u)' /\ due = Due(u)'
          /\ applier[b].pc = "put" /\ applier[b].current = u =>
               due = Due(u) /\ (OnLedger(u) \/ due \in InHand)
    BY <1>4, HandsKeep
  <2>2. applier[b].pc = "put" /\ applier[b].current = u
    BY <1>3, <2>1 DEF HandChange
  <2>3. ~OnLedger(u) /\ u # t
    BY <1>1, <1>3, <2>1 DEF OnLedger
  <2> QED BY <2>1, <2>2, <2>3 DEF Due
<1> QED BY <1>2, <1>4

\* A note written today against its charge is counted in full.
LEMMA WrittenIsCounted ==
  ASSUME WithinAtFirst, IInv, IsFiniteSet(credits), NEW a \in Appliers,
         applier[a].pc = "put", Put(NoteFor(applier[a].current))
  PROVE  LET due == Due(applier[a].current)
         IN  /\ due.amount \in Nat
             /\ IsFiniteSet(credits')
             /\ RollingCreditTotal(credits', today)
                  = RollingCreditTotal(credits, today) + due.amount
             /\ \A e : AlreadyCredited(credits', e)
                  = AlreadyCredited(credits, e) + IF e = due.entry THEN due.amount ELSE 0
<1> DEFINE t == applier[a].current
           note == NoteFor(t)
           due == Due(t)
<1>1. /\ note \notin credits /\ credits' = credits \cup {note}
      /\ note.amount = due.amount /\ note.entry = due.entry
      /\ note.status \in CountedStatuses /\ note.date = today
  BY DEF Put, NoteFor, CreditNote, OnLedger, Due, CountedStatuses
<1>2. note.amount \in Nat
  BY <1>1, PolicyAssumption DEF Due, IInv, RunInv, RunOK
<1>3. today \in Int /\ today >= today - WindowDays
  BY PolicyAssumption, CrmAssumption DEF IInv, TypeOK, CrmTypeOK, Days
<1> HIDE DEF note, due
<1>4. IsFiniteSet(credits')
  BY <1>1, FS_AddElement
<1>5. RollingCreditTotal(credits', today) = RollingCreditTotal(credits, today) + due.amount
  <2> DEFINE S == InWindow(today)
  <2>1. {n \in Counted(credits') : n.date >= today - WindowDays} = S \cup {note}
    BY <1>1, <1>3 DEF InWindow, Counted
  <2>2. IsFiniteSet(S) /\ Priced(S) /\ note \notin S
        /\ RollingCreditTotal(credits, today) = Total(S)
    BY <1>1, LedgerSums DEF InWindow, Counted, IInv
  <2> HIDE DEF S
  <2>3. Total(S \cup {note}) = Total(S) + note.amount
    BY <1>2, <2>2, TotalWith
  <2>4. RollingCreditTotal(credits', today) = Total(S \cup {note})
    BY <2>1 DEF RollingCreditTotal
  <2> QED BY <1>1, <2>2, <2>3, <2>4
<1>6. ASSUME NEW e
      PROVE  AlreadyCredited(credits', e)
               = AlreadyCredited(credits, e) + IF e = due.entry THEN due.amount ELSE 0
  <2> DEFINE S == Against(e)
  <2>1. IsFiniteSet(S) /\ Priced(S) /\ note \notin S
        /\ AlreadyCredited(credits, e) = Total(S) /\ AlreadyCredited(credits, e) \in Nat
    BY <1>1, LedgerSums DEF Against, Counted, IInv
  <2>2. CASE e = due.entry
    <3>1. {n \in Counted(credits') : n.entry = e} = S \cup {note}
      BY <1>1, <2>2 DEF Against, Counted
    <3> HIDE DEF S
    <3>2. Total(S \cup {note}) = Total(S) + note.amount
      BY <1>2, <2>1, TotalWith
    <3>3. AlreadyCredited(credits', e) = Total(S \cup {note})
      BY <3>1 DEF AlreadyCredited
    <3> QED BY <1>1, <2>1, <2>2, <3>2, <3>3
  <2>3. CASE e # due.entry
    <3>1. {n \in Counted(credits') : n.entry = e} = S
      BY <1>1, <2>3 DEF Against, Counted
    <3> HIDE DEF S
    <3>2. AlreadyCredited(credits', e) = Total(S)
      BY <3>1 DEF AlreadyCredited
    <3> QED BY <2>1, <2>3, <3>2
  <2> QED BY <2>2, <2>3
<1> QED BY <1>1, <1>2, <1>4, <1>5, <1>6 DEF due

\* What is in hand without a credit in it sums to that much less.
LEMMA OneLessInHand ==
  ASSUME WithinAtFirst, IInv, NEW due \in InHand, InHand' \subseteq InHand \ {due}
  PROVE  /\ Total(InHand') \in Nat /\ Total(InHand) \in Nat /\ due.amount \in Nat
         /\ Total(InHand') + due.amount <= Total(InHand)
         /\ \A e : /\ Total(InHandFor(e)') \in Nat /\ Total(InHandFor(e)) \in Nat
                   /\ Total(InHandFor(e)') + (IF e = due.entry THEN due.amount ELSE 0)
                        <= Total(InHandFor(e))
<1>1. ASSUME NEW S, IsFiniteSet(S), Priced(S), due \in S, NEW T, T \subseteq S \ {due}
      PROVE  /\ Total(T) \in Nat /\ Total(S) \in Nat /\ due.amount \in Nat
             /\ Total(T) + due.amount <= Total(S)
  <2>1. Total(S) = due.amount + Total(S \ {due})
    BY <1>1, TotalWithout
  <2>2. IsFiniteSet(S \ {due}) /\ Priced(S \ {due}) /\ Total(S \ {due}) \in Nat /\ Total(S) \in Nat
    BY <1>1, FewerNotes
  <2>3. Total(T) \in Nat /\ Total(T) <= Total(S \ {due})
    BY <1>1, <2>2, FewerNotes
  <2>4. due.amount \in Nat
    BY <1>1 DEF Priced
  <2> QED BY <2>1, <2>2, <2>3, <2>4
<1>2. /\ Total(InHand') \in Nat /\ Total(InHand) \in Nat /\ due.amount \in Nat
      /\ Total(InHand') + due.amount <= Total(InHand)
  BY <1>1, InHandIsFinite
<1>3. ASSUME NEW e
      PROVE  /\ Total(InHandFor(e)') \in Nat /\ Total(InHandFor(e)) \in Nat
             /\ Total(InHandFor(e)') + (IF e = due.entry THEN due.amount ELSE 0)
                  <= Total(InHandFor(e))
  <2>1. IsFiniteSet(InHandFor(e)) /\ Priced(InHandFor(e))
    BY InHandIsFinite
  <2>2. CASE e = due.entry
    <3>1. due \in InHandFor(e) /\ InHandFor(e)' \subseteq InHandFor(e) \ {due}
      BY <2>2 DEF InHandFor
    <3> QED BY <1>1, <2>1, <2>2, <3>1
  <2>3. CASE e # due.entry
    <3>1. InHandFor(e)' \subseteq InHandFor(e)
      BY DEF InHandFor
    <3>2. /\ Total(InHandFor(e)') \in Nat /\ Total(InHandFor(e)) \in Nat
          /\ Total(InHandFor(e)') <= Total(InHandFor(e))
      BY <2>1, <3>1, FewerNotes
    <3> QED BY <2>3, <3>2
  <2> QED BY <2>2, <2>3
<1> QED BY <1>2, <1>3

\* A step on which a run writes a credit: it moves from the hand to the ledger.
LEMMA CeilingsWrite ==
  ASSUME WithinAtFirst, IInv, CeilingInv, [Next]_vars, HandChange,
         NEW a \in Appliers, applier[a].pc = "put", Put(NoteFor(applier[a].current)),
         UNCHANGED <<today, ticket, accepted>>
  PROVE  CeilingInv'
<1> DEFINE due == Due(applier[a].current)
<1>1. /\ IsFiniteSet(credits) /\ MaxRolling + Overshoot \in Nat
      /\ \A e \in Entries : Billed[e] + Overshoot \in Nat
      /\ RollingCreditTotal(credits, today) \in Nat
      /\ \A e : AlreadyCredited(credits, e) \in Nat
  BY OvershootIsNat, PolicyAssumption, LedgerAssumption, LedgerSums DEF CeilingInv, IInv
<1>2. due \in InHand /\ InHand' \subseteq InHand \ {due}
  BY HandsWrite
<1>3. /\ due.amount \in Nat /\ IsFiniteSet(credits')
      /\ RollingCreditTotal(credits', today) = RollingCreditTotal(credits, today) + due.amount
      /\ \A e : AlreadyCredited(credits', e)
                  = AlreadyCredited(credits, e) + IF e = due.entry THEN due.amount ELSE 0
  BY <1>1, WrittenIsCounted
<1> HIDE DEF due
<1>4. /\ Total(InHand') \in Nat /\ Total(InHand) \in Nat
      /\ Total(InHand') + due.amount <= Total(InHand)
      /\ \A e : /\ Total(InHandFor(e)') \in Nat /\ Total(InHandFor(e)) \in Nat
                /\ Total(InHandFor(e)') + (IF e = due.entry THEN due.amount ELSE 0)
                     <= Total(InHandFor(e))
  BY <1>2, OneLessInHand
<1>5. RollingCreditTotal(credits', today) + Total(InHand') <= MaxRolling + Overshoot
  <2>1. RollingCreditTotal(credits, today) + Total(InHand) <= MaxRolling + Overshoot
    BY DEF CeilingInv
  <2> QED BY <1>1, <1>3, <1>4, <2>1
<1>6. ASSUME NEW e \in Entries
      PROVE  AlreadyCredited(credits', e) + Total(InHandFor(e)') <= Billed[e] + Overshoot
  <2>1. AlreadyCredited(credits, e) + Total(InHandFor(e)) <= Billed[e] + Overshoot
    BY DEF CeilingInv
  <2> QED BY <1>1, <1>3, <1>4, <2>1
<1> QED BY <1>3, <1>5, <1>6 DEF CeilingInv

\* The count of what is on the ledger and in hand holds at first,
LEMMA CeilingsHoldAtFirst ==
  ASSUME WithinAtFirst, Init
  PROVE  CeilingInv
<1>1. InHand = {} /\ \A e : InHandFor(e) = {}
  BY DEF Init, ApplierInit, IdleRun, InHand, InHandFor, Promised
<1>2. credits = SeedCredits /\ today = 0
  BY DEF Init, LedgerInit, CrmInit
<1>3. TypeOK
  BY InvariantHoldsAtFirst DEF IInv
<1>4. /\ RollingCreditTotal(credits, today) \in Nat
      /\ \A e : AlreadyCredited(credits, e) \in Nat
  BY <1>2, <1>3, LedgerSums DEF WithinAtFirst
<1>5. RollingCreditTotal(credits, today) <= MaxRolling + Overshoot
  BY <1>2 DEF WithinAtFirst
<1>6. \A e \in Entries : AlreadyCredited(credits, e) <= Billed[e] + Overshoot
  BY <1>2 DEF WithinAtFirst
<1> QED
  BY <1>1, <1>2, <1>4, <1>5, <1>6, TotalOfNone DEF WithinAtFirst, CeilingInv

\* and every step keeps it.
LEMMA CeilingsAreKept ==
  ASSUME WithinAtFirst, IInv, CeilingInv, [Next]_vars
  PROVE  CeilingInv'
<1>1. HandChange
  BY HandStep
<1>2. today' \in {today, today + 1}
  BY CrmStep DEF CrmChange, IInv
<1>3. ASSUME NEW a \in Appliers, applier[a].pc = "put",
             Put(NoteFor(applier[a].current)), UNCHANGED <<today, ticket, accepted>>
      PROVE  CeilingInv'
  BY <1>1, <1>3, CeilingsWrite
<1>4. CASE credits' = credits
  <2>1. ASSUME NEW a \in Appliers, NEW t \in Tickets, TakenUp(a, t),
               \A b \in Appliers \ {a} : applier'[b] = applier[b],
               UNCHANGED <<today, ticket, credits>>
        PROVE  CeilingInv'
    BY <2>1, CeilingsTakeUp
  <2>2. CASE \A a \in Appliers : applier'[a].pc = "put" =>
               applier[a].pc = "put" /\ applier'[a].current = applier[a].current
    <3>1. ASSUME NEW due \in InHand' PROVE due \in InHand
      <4>1. PICK b \in Appliers, u \in Tickets :
              /\ applier'[b].pc = "put" /\ applier'[b].current = u
              /\ ~OnLedger(u)' /\ due = Due(u)'
              /\ applier[b].pc = "put" /\ applier[b].current = u =>
                   due = Due(u) /\ (OnLedger(u) \/ due \in InHand)
        BY <3>1, HandsKeep
      <4> QED BY <1>4, <2>2, <4>1 DEF OnLedger
    <3>2. InHand' \subseteq InHand
      BY <3>1
    <3> QED BY <1>2, <1>4, <3>2, CeilingsWait
  <2> QED BY <1>1, <2>1, <2>2 DEF HandChange
<1> QED BY <1>1, <1>3, <1>4 DEF HandChange

\* What is on the ledger and in hand stays within both ceilings and the margin.
LEMMA CeilingsAreInvariant ==
  ASSUME WithinAtFirst
  PROVE  Spec => []CeilingInv
<1>1. Init => CeilingInv
  BY CeilingsHoldAtFirst
<1>2. IInv /\ CeilingInv /\ [Next]_vars => CeilingInv'
  BY CeilingsAreKept
<1> QED BY <1>1, <1>2, InvariantIsInvariant, PTL DEF Spec

\* However many runs overlap, crash and repeat, in whatever order they read and
\* write, they carry a customer past the rolling ceiling (FR-013b, credit.py
\* 7) by at most one per-request credit for every run but one; a single run
\* at a time never does.
THEOREM RollingCeilingGivesWayByTheOverlap ==
  ASSUME WithinAtFirst
  PROVE  Spec => []RollingCeiling
<1>1. IInv /\ CeilingInv => RollingCeiling
  <2> SUFFICES ASSUME IInv, CeilingInv PROVE RollingCeiling
    OBVIOUS
  <2>1. /\ RollingCreditTotal(credits, today) \in Nat /\ Total(InHand) \in Nat
        /\ MaxRolling + Overshoot \in Nat
    BY LedgerSums, InHandIsFinite, OvershootIsNat, PolicyAssumption DEF CeilingInv, IInv
  <2> QED BY <2>1 DEF CeilingInv, RollingCeiling
<1> QED BY <1>1, InvariantIsInvariant, CeilingsAreInvariant, PTL

\* Nor past what a charge was billed (FR-013d, credit.py 8) by more than that.
THEOREM EntryCeilingGivesWayByTheOverlap ==
  ASSUME WithinAtFirst
  PROVE  Spec => []EntryCeiling
<1>1. IInv /\ CeilingInv => EntryCeiling
  <2> SUFFICES ASSUME IInv, CeilingInv, NEW e \in Entries
               PROVE  AlreadyCredited(credits, e) <= Billed[e] + Overshoot
    BY DEF EntryCeiling
  <2>1. /\ AlreadyCredited(credits, e) \in Nat /\ Total(InHandFor(e)) \in Nat
        /\ Billed[e] + Overshoot \in Nat
    BY LedgerSums, InHandIsFinite, OvershootIsNat, LedgerAssumption DEF CeilingInv, IInv
  <2>2. AlreadyCredited(credits, e) + Total(InHandFor(e)) <= Billed[e] + Overshoot
    BY DEF CeilingInv
  <2> QED BY <2>1, <2>2
<1> QED BY <1>1, InvariantIsInvariant, CeilingsAreInvariant, PTL

-----------------------------------------------------------------------------
(* The audit log.                                                          *)

\* Credits nobody has audited and no run is about to.
Unaudited ==
  {t \in Tickets :
    /\ OnLedger(t)
    /\ <<"apply_credit", t>> \notin auditLog
    /\ \A a \in Appliers : ~(applier[a].pc = "audit" /\ applier[a].current = t)}

AuditInv == IsFiniteSet(Unaudited) /\ Cardinality(Unaudited) <= faults

\* A step moves one run, and writes no credit but the one that run has in hand.
LEMMA OneRunMoves ==
  ASSUME IInv, [Next]_vars
  PROVE  \/ UNCHANGED <<applier, credits>>
         \/ \E a \in Appliers :
              /\ Fetch(a) \/ ApplierStep(a) \/ ApplierFault(a)
              /\ \A b \in Appliers \ {a} : applier'[b] = applier[b]
<1>1. CASE UNCHANGED <<applier, credits>>
  BY <1>1
<1>2. ASSUME NEW a \in Appliers, Fetch(a) \/ ApplierStep(a) \/ ApplierFault(a)
      PROVE  \A b \in Appliers \ {a} : applier'[b] = applier[b]
  <2>1. applier \in [Appliers -> [pc : ApplierPcs, queue : SUBSET Tickets,
                                  current : Tickets \cup {NoTicketId}]]
    BY DEF IInv, TypeOK, ApplierTypeOK
  <2> QED
    BY <1>2, <2>1
    DEF ApplierStep, ApplierFault, Fetch, Revalidate, PutCredit, AlreadyApplied, AuditCredit,
        NoteApplied, NoteRefused, PutUnanswered, LoseAudit, FailTicket, CrashRun,
        FailRevalidate, NextTicket, Goto, IdleRun
<1>3. CASE RequestNext /\ UNCHANGED applier
  <2>1. ASSUME NEW r \in Requests, NEW t \in Tickets, RaiseRequest(r, t)
        PROVE  UNCHANGED credits
    BY <2>1 DEF RaiseRequest
  <2>2. ASSUME NEW r \in Requests,
               \/ ReadPending(r) \/ Screen(r) \/ Refuse(r) \/ AnswerWithOpenTicket(r)
               \/ Permit(r) \/ FailRequest(r) \/ \E t \in Tickets : RaiseUnanswered(r, t)
        PROVE  UNCHANGED credits
    BY <2>2
    DEF ReadPending, Screen, Refuse, AnswerWithOpenTicket, Permit, FailRequest,
        RaiseUnanswered, ledgerVars
  <2> QED
    BY <1>1, <1>3, <2>1, <2>2
    DEF RequestNext, RefuseUnverified, ReadLedger, Verify, RecordSignal, SetAccount, ledgerVars
<1> QED
  BY <1>1, <1>2, <1>3
  DEF Next, vars, ledgerVars, ApplierNext, LedgerNext, Replicate, OpenDispute, ResolveDispute

\* A credit is only left unaudited by a fault of the run that has it in hand.
LEMMA UnauditedStep ==
  ASSUME IInv, [Next]_vars, NEW t \in Unaudited', t \notin Unaudited
  PROVE  /\ Fault
         /\ \E a \in Appliers :
              /\ applier[a].current = t
              /\ \A b \in Appliers \ {a} : applier'[b] = applier[b]
              /\ applier'[a] # applier[a]
<1>1. /\ t \in Tickets /\ OnLedger(t)' /\ <<"apply_credit", t>> \notin auditLog'
      /\ \A a \in Appliers : ~(applier'[a].pc = "audit" /\ applier'[a].current = t)
  BY DEF Unaudited
<1>2. LedgerChange
  BY LedgerStep DEF IInv
<1>3. <<"apply_credit", t>> \notin auditLog
  BY <1>1, <1>2 DEF LedgerChange, Audit
<1>4. applier \in [Appliers -> [pc : ApplierPcs, queue : SUBSET Tickets,
                                current : Tickets \cup {NoTicketId}]]
  BY DEF IInv, TypeOK, ApplierTypeOK
<1>5. ~UNCHANGED <<applier, credits>>
  BY <1>1, <1>3 DEF Unaudited, OnLedger
<1>6. PICK a \in Appliers :
        /\ Fetch(a) \/ ApplierStep(a) \/ ApplierFault(a)
        /\ \A b \in Appliers \ {a} : applier'[b] = applier[b]
  BY <1>5, OneRunMoves
<1>7. CASE OnLedger(t)
  <2>1. applier[a].pc = "audit" /\ applier[a].current = t
    BY <1>1, <1>3, <1>6, <1>7 DEF Unaudited
  <2>2. ~AuditCredit(a)
    BY <1>1, <2>1 DEF AuditCredit, Audit
  <2>3. LoseAudit(a) \/ CrashRun(a)
    BY <1>6, <2>1, <2>2
    DEF ApplierStep, ApplierFault, Fetch, Revalidate, PutCredit, AlreadyApplied,
        NoteApplied, NoteRefused, PutUnanswered, FailTicket, FailRevalidate
  <2>4. Fault
    BY <2>3 DEF LoseAudit, CrashRun
  <2>5. applier'[a] # applier[a]
    BY <1>1, <2>1
  <2> QED BY <1>6, <2>1, <2>4, <2>5
<1>8. CASE ~OnLedger(t)
  <2>1. credits' # credits
    BY <1>1, <1>8 DEF OnLedger
  <2>2. PutCredit(a) \/ PutUnanswered(a)
    BY <1>6, <2>1
    DEF ApplierStep, ApplierFault, Fetch, Revalidate, AlreadyApplied, AuditCredit,
        NoteApplied, NoteRefused, LoseAudit, FailTicket, CrashRun, FailRevalidate, ledgerVars
  <2>3. applier[a].pc = "put" /\ Put(NoteFor(applier[a].current))
    BY <2>2 DEF PutCredit, PutUnanswered, NoteFor
  <2>4. applier[a].current = t
    BY <1>1, <1>8, <2>3 DEF Put, NoteFor, CreditNote, OnLedger
  <2>5. ~PutCredit(a)
    BY <1>1, <1>4, <2>4 DEF PutCredit, Goto
  <2>6. Fault /\ NextTicket(a, applier[a].queue)
    BY <2>2, <2>5 DEF PutUnanswered
  <2>7. applier'[a] # applier[a]
    BY <1>4, <2>3, <2>6 DEF NextTicket, IdleRun
  <2> QED BY <1>6, <2>4, <2>6, <2>7
<1> QED BY <1>7, <1>8

\* So each fault leaves at most one more credit unaudited.
LEMMA AuditKept ==
  ASSUME IInv, AuditInv, [Next]_vars
  PROVE  AuditInv'
<1>1. /\ IsFiniteSet(Unaudited) /\ Cardinality(Unaudited) <= faults
      /\ Cardinality(Unaudited) \in Nat /\ faults \in Nat
  BY FS_CardinalityType, CrmAssumption DEF AuditInv, IInv, TypeOK, CrmTypeOK
<1>2. faults' \in {faults, faults + 1}
  BY CrmStep DEF CrmChange, Fault, IInv
<1>3. CASE Unaudited' \subseteq Unaudited
  <2>1. IsFiniteSet(Unaudited') /\ Cardinality(Unaudited') <= Cardinality(Unaudited)
    BY <1>1, <1>3, FS_Subset
  <2>2. Cardinality(Unaudited') \in Nat
    BY <2>1, FS_CardinalityType
  <2> QED BY <1>1, <1>2, <2>1, <2>2 DEF AuditInv
<1>4. ASSUME NEW t \in Unaudited', t \notin Unaudited
      PROVE  AuditInv'
  <2>1. PICK a \in Appliers :
          /\ applier[a].current = t
          /\ \A b \in Appliers \ {a} : applier'[b] = applier[b]
    BY <1>4, UnauditedStep
  <2>2. ASSUME NEW u \in Unaudited', u \notin Unaudited PROVE u = t
    BY <2>1, <2>2, UnauditedStep
  <2>3. Fault
    BY <1>4, UnauditedStep
  <2>4. Unaudited' \subseteq Unaudited \cup {t}
    BY <2>2
  <2>5. /\ IsFiniteSet(Unaudited \cup {t})
        /\ Cardinality(Unaudited \cup {t}) = Cardinality(Unaudited) + 1
    BY <1>1, <1>4, FS_AddElement
  <2>6. IsFiniteSet(Unaudited') /\ Cardinality(Unaudited') <= Cardinality(Unaudited \cup {t})
    BY <2>4, <2>5, FS_Subset
  <2>7. Cardinality(Unaudited') \in Nat
    BY <2>6, FS_CardinalityType
  <2> QED BY <1>1, <2>3, <2>5, <2>6, <2>7 DEF Fault, AuditInv
<1> QED BY <1>3, <1>4

\* Every credit on the ledger is in the audit log (FR-041), but for those a run
\* is about to audit and at most one for each failure or crash; runs that
\* overlap cost none.
THEOREM AuditsAreLostToFaultsOnly == Spec => []CreditsAreAudited
<1>1. Init => AuditInv
  <2>1. ASSUME Init PROVE Unaudited = {} /\ faults = 0
    BY <2>1, SeedAssumption DEF Init, CrmInit, LedgerInit, Unaudited, OnLedger
  <2> QED BY <2>1, FS_EmptySet DEF AuditInv
<1>2. IInv /\ AuditInv /\ [Next]_vars => AuditInv'
  BY AuditKept
<1>3. AuditInv => CreditsAreAudited
  BY DEF AuditInv, Unaudited, CreditsAreAudited
<1> QED BY <1>1, <1>2, <1>3, InvariantIsInvariant, PTL DEF Spec

=============================================================================
