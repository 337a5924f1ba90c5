----------------------------- MODULE CreditFlow -----------------------------
(***************************************************************************)
(* The credit workflow end to end: callers' agents ask (RequestCredit), a  *)
(* person answers in the CRM (Crm), scheduled runs apply (ApplyDecisions)  *)
(* to the ledger (Ledger).  The parts share the tickets, the search index  *)
(* and the ledger and nothing else; every step of one may fall between any *)
(* two steps of another.                                                   *)
(***************************************************************************)
EXTENDS RequestCredit, ApplyDecisions

CONSTANT HandPayloads   \* what tickets raised outside the endpoint ask for

vars == <<crmVars, ledgerVars, requestVars, applier>>

ASSUME SeedAssumption ==
  /\ HandPayloads \subseteq Payloads
  /\ \A note \in SeedCredits : note.ticket \notin Tickets

Init == CrmInit /\ LedgerInit /\ RequestInit /\ ApplierInit

Next ==
  \/ CrmNext /\ UNCHANGED <<ledgerVars, requestVars, applier>>
  \/ \E t \in Tickets, p \in HandPayloads :
       RaiseByHand(t, p) /\ UNCHANGED <<ledgerVars, requestVars, applier>>
  \/ LedgerNext /\ UNCHANGED <<crmVars, requestVars, applier>>
  \/ RequestNext /\ UNCHANGED applier
  \/ ApplierNext /\ UNCHANGED requestVars

Spec == Init /\ [][Next]_vars

\* The schedule keeps starting runs and a run that is not killed goes on; the
\* index always catches up.  Callers and reviewers owe nothing.
Fairness ==
  /\ \A t \in Tickets : WF_vars(Reindex(t) /\ UNCHANGED <<ledgerVars, requestVars, applier>>)
  /\ \A a \in Appliers : WF_vars((Fetch(a) \/ ApplierStep(a)) /\ UNCHANGED requestVars)

FairSpec == Spec /\ Fairness

-----------------------------------------------------------------------------
(* Types.                                                                  *)

CreditNotes ==
  [ticket : Tickets, entry : Entries, amount : Nat, status : CountedStatuses, date : Nat]

\* A charge as a request holds it: an invoice of the ledger, or none.
Charges == [amount : Nat, already : {0}, disputed : BOOLEAN, exists : BOOLEAN]

\* Credits as an invocation counts them: read from the ledger, or awaiting
\* approval for whatever entry a ticket names.
KnownCredits ==
  SeedCredits \cup
    [ticket : Tickets, entry : EntryIds, amount : Nat, status : CountedStatuses, date : Nat]

RequestStates ==
  [pc : RequestPcs, conv : Conversations \cup {None}, status : AccountStatuses \cup {None},
   entry : EntryIds \cup {None}, amount : Amounts \cup {0},
   known : SUBSET KnownCredits, charge : Charges,
   open : SUBSET Tickets, history : SUBSET SignalTypes, suspect : BOOLEAN,
   reply : Replies, answer : Tickets \cup {None}]

InvocationTypeOK ==
  /\ request \in [Requests -> RequestStates]
  /\ \A r \in Requests :
       request[r].pc \notin {"idle", "done"} =>
         /\ request[r].conv \in Conversations
         /\ request[r].entry \in EntryIds
         /\ request[r].amount \in Amounts

RequestTypeOK ==
  /\ account \in AccountStatuses
  /\ display \in [Conversations -> AccountStatuses \cup {None}]
  /\ signals \in [Conversations -> [SignalTypes -> Nat]]
  /\ InvocationTypeOK

LedgerTypeOK ==
  /\ credits \ SeedCredits \subseteq CreditNotes
  /\ replicated \subseteq credits
  /\ disputed \subseteq Disputable
  /\ auditLog \subseteq {"request_credit", "apply_credit"} \X Tickets

\* Every variable holds what the code can put in it.
TypeOK == CrmTypeOK /\ LedgerTypeOK /\ RequestTypeOK /\ ApplierTypeOK

-----------------------------------------------------------------------------
(* Safety.                                                                 *)

\* Nothing reaches the ledger but what a person accepted, as the ticket said
\* it: whoever raised the ticket, however runs overlap, crash or repeat
\* (apply_decisions.py 6-9, FR-013g).
CreditsWereAccepted ==
  \A note \in credits \ SeedCredits :
    /\ note.ticket \in accepted
    /\ note.amount = ticket[note.ticket].payload.amount
    /\ note.entry = ticket[note.ticket].payload.entry

\* The ledger half of the workflow implements the promise: at most one note
\* per ticket, after acceptance, within the limit, never altered.
Promise ==
  INSTANCE CreditPromise
    WITH asked <- [t \in Tickets |-> ticket[t].payload],
         approved <- accepted,
         granted <- credits

ImplementsPromise == Promise!Spec

\* How far k overlapping runs can carry a customer past the two ceilings of
\* FR-013b and FR-013d: each run but one may hold one credit decided on a
\* ledger that no longer is.  With one run at a time both hold exactly.
Overshoot == (Cardinality(Appliers) - 1) * MaxPerRequest

RollingCeiling == RollingCreditTotal(credits, today) <= MaxRolling + Overshoot

EntryCeiling ==
  \A e \in Entries : AlreadyCredited(credits, e) <= Billed[e] + Overshoot

\* An agent told REQUESTED is given a ticket that exists and asks for what
\* the caller asked; a failed or lost create is never reported as one (FR-025).
RequestedMeansRaised ==
  \A r \in Requests :
    request[r].reply = "REQUESTED" =>
      /\ request[r].answer \in Tickets
      /\ ticket[request[r].answer].payload =
           [entry |-> request[r].entry, amount |-> request[r].amount]

\* A call that already carries a decisive signal never gets as far as asking,
\* whatever the ledger, the tickets and the history say (FR-015).
SuspectCallsAskForNothing ==
  \A r \in Requests :
    request[r].suspect => request[r].pc # "raise" /\ request[r].reply # "REQUESTED"

\* A run that goes on to write a credit found its charge undisputed then, not
\* when the caller rang (credit.py 23-25).
DisputeStopsTheCredit ==
  [][\A a \in Appliers :
       applier[a].pc = "loop" /\ applier'[a].pc = "put" =>
         ticket[applier'[a].current].payload.entry \notin disputed]_vars

\* Every credit on the ledger is in the audit log (FR-041), but for those a run
\* is about to audit: each failure or crash costs at most one event, and no
\* interleaving of runs costs any.
CreditsAreAudited ==
  Cardinality({t \in Tickets :
    /\ OnLedger(t)
    /\ <<"apply_credit", t>> \notin auditLog
    /\ \A a \in Appliers : ~(applier[a].pc = "audit" /\ applier[a].current = t)}) <= faults

-----------------------------------------------------------------------------
(* Liveness.                                                               *)

\* A ticket that stays accepted is answered: its credit is on the ledger or
\* its refusal is noted, in spite of finitely many failures and crashes.
AcceptedIsAnswered ==
  \A t \in Tickets :
    <>[](ticket[t].outcome = "Accepted") => <>(OnLedger(t) \/ "NotApplied" \in notes[t])

-----------------------------------------------------------------------------
(* What the documentation says and the code does not do.                   *)

\* A refusal note is only written about a ticket that was not credited.  The
\* note ends "Nothing has been credited." (apply_decisions.py 84-88), and a
\* second run over an applied ticket is documented to be a no-op (34-36).
RefusalNotesAreTrue ==
  [][\A t \in Tickets :
       "NotApplied" \in notes'[t] \ notes[t] => ~OnLedger(t)]_vars
=============================================================================
