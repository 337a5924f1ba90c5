----------------------------- MODULE CallRecord -----------------------------
(***************************************************************************)
(* The conversation rows as the end of a call uses them                    *)
(* (common/conversation_state.py), and the tickets an escalation raises.   *)
(* A row has no owner: whichever handler runs first creates it, and each   *)
(* write replaces the fields it names whatever they held.                  *)
(*                                                                         *)
(* All the calls of the model are from one customer, since only calls of   *)
(* the same customer share anything (its summary).                         *)
(***************************************************************************)
EXTENDS Integers, FiniteSets, Sequences

CONSTANTS
  Calls,        \* conversation ids
  Tickets,      \* ids of the tickets escalations raise
  NoTicket,     \* a ticket id that is None, or stored as ""
  MaxFaults     \* bound: failed calls and killed invocations

ASSUME CallRecordAssumption ==
  /\ NoTicket \notin Tickets
  /\ MaxFaults \in Nat

VARIABLES
  verified,   \* calls whose row says VERIFIED
  callback,   \* per call: callback_required, callback_reason, callback_ticket_id
  claimed,    \* calls whose row has post_call_processed_at
  raised,     \* the tickets, per id: the call, whether a contact is linked
  faults      \* how many faults have happened

recordVars == <<verified, callback, claimed, raised, faults>>

\* REASONS_VALID_WHEN_UNVERIFIED and the rest of VALID_REASONS.
ReasonsValidWhenUnverified ==
  {"IDENTITY_NOT_ESTABLISHED", "VERIFICATION_LOCKED", "SUSPECTED_GUESSING",
   "CUSTOMER_REQUESTED_HUMAN"}

ValidReasons ==
  ReasonsValidWhenUnverified \cup
  {"INVOICE_DISPUTED", "PAYMENT_UNVERIFIABLE", "CREDIT_ABOVE_AUTHORITY", "ABUSE_DETECTED",
   "OUT_OF_AUTHORITY", "BACKEND_ERROR", "ADDRESS_DISCREPANCY"}

NoCallback == [required |-> FALSE, reason |-> "none", ticket |-> NoTicket]

NotRaised == [exists |-> FALSE, call |-> "none", linked |-> FALSE]

RecordTypeOK ==
  /\ verified \subseteq Calls
  /\ claimed \subseteq Calls
  /\ callback \in [Calls -> [required : BOOLEAN,
                             reason : ValidReasons \cup {"TRANSFER_FAILED", "none"},
                             ticket : Tickets \cup {NoTicket}]]
  /\ raised \in [Tickets -> [exists : BOOLEAN, call : Calls \cup {"none"}, linked : BOOLEAN]]
  /\ faults \in 0..MaxFaults

RecordInit ==
  /\ verified = {}
  /\ callback = [c \in Calls |-> NoCallback]
  /\ claimed = {}
  /\ raised = [t \in Tickets |-> NotRaised]
  /\ faults = 0

-----------------------------------------------------------------------------

Fault == faults < MaxFaults /\ faults' = faults + 1

\* record_callback.
RecordCallback(c, reason, t) ==
  callback' = [callback EXCEPT ![c] = [required |-> TRUE, reason |-> reason, ticket |-> t]]

\* create_ticket for a verified caller, create_unassociated_ticket otherwise.
RaiseTicket(t, c, linked) ==
  /\ ~raised[t].exists
  /\ raised' = [raised EXCEPT ![t] = [exists |-> TRUE, call |-> c, linked |-> linked]]

\* set_verification, as verify_identity calls it.
Verify(c) ==
  /\ c \notin verified
  /\ verified' = verified \cup {c}
  /\ UNCHANGED <<callback, claimed, raised, faults>>
=============================================================================
