------------------------------ MODULE PostCall ------------------------------
(***************************************************************************)
(* handlers/post_call.py: the webhook ElevenLabs calls when a conversation *)
(* has ended, and calls again when it likes.  A delivery claims the        *)
(* conversation with a conditional write and then runs six steps in a      *)
(* fixed order, each of which may fail without stopping the rest.  The     *)
(* claim comes first, so a delivery killed after it is never made good.    *)
(*                                                                         *)
(* Signatures, other event types and payloads without a conversation id    *)
(* are answered before anything is read or written and are left out.       *)
(***************************************************************************)
EXTENDS CallRecord, SequencesExt

CONSTANTS
  Deliveries,   \* webhook invocations
  Payloads,     \* what the platform can say about a call
  Languages,    \* languages a call can happen in
  SourcesKept   \* how many source_conversation_ids a summary keeps

ASSUME PostCallAssumption ==
  /\ Payloads \subseteq [transfer : {"none", "failed", "worked"}, escalated : BOOLEAN,
                         cutOff : BOOLEAN, known : BOOLEAN, language : Languages]
  /\ SourcesKept \in Nat \ {0}

VARIABLES
  ended,        \* per call: the payload, once it is over
  performance,  \* per call: the permanent row, written once
  history,      \* per call: the row the risk rules read, by customer
  metrics,      \* per call: the outcome on the conversation row
  summary,      \* of the customer: version and source_conversation_ids
  preferred,    \* preferred_language of the contact
  delivery      \* per invocation: where it is, the summary it read, its answer

postCallVars == <<ended, performance, history, metrics, summary, preferred, delivery>>

Outcomes == {"RESOLVED_AUTONOMOUS", "ESCALATED", "TRANSFERRED", "ABANDONED"}

Nothing == [over |-> FALSE]
Unwritten == [outcome |-> "none", customer |-> FALSE]
NoOutcome == "none"

Steps == {"performance", "history", "metrics", "summary", "preferences", "transfer"}

DeliveryPcs == Steps \cup {"idle", "fold", "done"}

NewDelivery ==
  [pc |-> "idle", call |-> "none", version |-> 0, sources |-> <<>>,
   reply |-> "none"]

PostCallTypeOK ==
  /\ ended \in [Calls -> {Nothing} \cup [over : {TRUE}, payload : Payloads]]
  /\ performance \in [Calls -> {Unwritten} \cup [outcome : Outcomes, customer : BOOLEAN]]
  /\ history \in [Calls -> Outcomes \cup {NoOutcome}]
  /\ metrics \in [Calls -> Outcomes \cup {NoOutcome}]
  /\ summary.version \in Nat
  /\ summary.sources \in Seq(Calls) /\ Len(summary.sources) <= SourcesKept
  /\ preferred \in Languages
  /\ \A d \in Deliveries :
       /\ delivery[d].pc \in DeliveryPcs
       /\ delivery[d].reply \in {"none", "OK", "DUPLICATE", "ERROR"}

PostCallInit ==
  /\ ended = [c \in Calls |-> Nothing]
  /\ performance = [c \in Calls |-> Unwritten]
  /\ history = [c \in Calls |-> NoOutcome]
  /\ metrics = [c \in Calls |-> NoOutcome]
  /\ summary = [version |-> 0, sources |-> <<>>]
  /\ preferred \in Languages
  /\ delivery = [d \in Deliveries |-> NewDelivery]

-----------------------------------------------------------------------------

\* Mutant: a failed transfer is an outcome of its own, which no report knows.
OutcomeOfFailure(payload) ==
  IF payload.transfer = "failed" THEN "TRANSFER_FAILED"
  ELSE IF payload.transfer = "worked" THEN "TRANSFERRED"
  ELSE IF payload.escalated THEN "ESCALATED"
  ELSE IF payload.cutOff THEN "ABANDONED" ELSE "RESOLVED_AUTONOMOUS"

\* performance.outcome: a transfer outranks an escalation, which outranks how
\* the call was cut off.
Outcome(payload) ==
  IF payload.transfer # "none" THEN "TRANSFERRED"
  ELSE IF payload.escalated THEN "ESCALATED"
  ELSE IF payload.cutOff THEN "ABANDONED" ELSE "RESOLVED_AUTONOMOUS"

Payload(d) == ended[delivery[d].call].payload

Complete(d, next) == delivery' = [delivery EXCEPT ![d].pc = next]

Following(step) ==
  CASE step = "performance" -> "history"
    [] step = "history"     -> "metrics"
    [] step = "metrics"     -> "summary"
    [] step = "summary"     -> "preferences"
    [] step = "fold"        -> "preferences"
    [] step = "preferences" -> "transfer"
    [] step = "transfer"    -> "done"

-----------------------------------------------------------------------------

\* Mutant: a row needs a customer.
StoreVerified(d) ==
  LET c == delivery[d].call
  IN  /\ delivery[d].pc = "performance"
      /\ performance' = IF c \notin verified THEN performance
                        ELSE [performance EXCEPT ![c] =
                                [outcome |-> Outcome(Payload(d)), customer |-> TRUE]]
      /\ Complete(d, "history")
      /\ UNCHANGED <<recordVars, ended, history, metrics, summary, preferred>>

\* Mutant: the claim is read and not conditional.
ClaimAlways(d, c) ==
  /\ delivery[d].pc = "idle"
  /\ ended[c].over
  /\ claimed' = claimed \cup {c}
  /\ delivery' = [delivery EXCEPT ![d].pc = "performance", ![d].call = c]
  /\ UNCHANGED <<verified, callback, raised, faults>>
  /\ UNCHANGED <<ended, performance, history, metrics, summary, preferred>>

\* claim_post_call: the first delivery takes the call.
Claim(d, c) ==
  /\ delivery[d].pc = "idle"
  /\ ended[c].over
  /\ c \notin claimed
  /\ claimed' = claimed \cup {c}
  /\ delivery' = [delivery EXCEPT ![d].pc = "performance", ![d].call = c]
  /\ UNCHANGED <<verified, callback, raised, faults>>
  /\ UNCHANGED <<ended, performance, history, metrics, summary, preferred>>

AnswerDuplicate(d, c) ==
  /\ delivery[d].pc = "idle"
  /\ c \in claimed
  /\ delivery' = [delivery EXCEPT ![d].pc = "done", ![d].call = c, ![d].reply = "DUPLICATE"]
  /\ UNCHANGED <<recordVars, ended, performance, history, metrics, summary, preferred>>

\* The claim raises: nothing catches it, and the platform may deliver again.
\* The conversation may have been claimed all the same.
ClaimFails(d, c) ==
  /\ delivery[d].pc = "idle"
  /\ ended[c].over
  /\ Fault
  /\ claimed' \in {claimed, claimed \cup {c}}
  /\ delivery' = [delivery EXCEPT ![d].pc = "done", ![d].call = c, ![d].reply = "ERROR"]
  /\ UNCHANGED <<verified, callback, raised>>
  /\ UNCHANGED <<ended, performance, history, metrics, summary, preferred>>

\* _store_performance: put_if_absent, with the customer the row names.
StorePerformance(d) ==
  LET c == delivery[d].call
  IN  /\ delivery[d].pc = "performance"
      /\ performance' = IF performance[c] # Unwritten THEN performance
                        ELSE [performance EXCEPT ![c] =
                                [outcome |-> Outcome(Payload(d)), customer |-> c \in verified]]
      /\ Complete(d, "history")
      /\ UNCHANGED <<recordVars, ended, history, metrics, summary, preferred>>

\* _record_history: a call nobody verified belongs to no customer.
RecordHistory(d) ==
  LET c == delivery[d].call
  IN  /\ delivery[d].pc = "history"
      /\ history' = IF c \notin verified THEN history
                    ELSE [history EXCEPT ![c] = Outcome(Payload(d))]
      /\ Complete(d, "metrics")
      /\ UNCHANGED <<recordVars, ended, performance, metrics, summary, preferred>>

StoreMetrics(d) ==
  /\ delivery[d].pc = "metrics"
  /\ metrics' = [metrics EXCEPT ![delivery[d].call] = Outcome(Payload(d))]
  /\ Complete(d, "summary")
  /\ UNCHANGED <<recordVars, ended, performance, history, summary, preferred>>

\* _regenerate_summary, first half: the summary is read.  A payload without
\* a customer has none.
ReadSummary(d) ==
  /\ delivery[d].pc = "summary"
  /\ delivery' = [delivery EXCEPT ![d] =
       IF Payload(d).known
       THEN [@ EXCEPT !.pc = "fold", !.version = summary.version, !.sources = summary.sources]
       ELSE [@ EXCEPT !.pc = "preferences"]]
  /\ UNCHANGED <<recordVars, ended, performance, history, metrics, summary, preferred>>

Folded(d) ==
  LET sources == <<delivery[d].call>> \o delivery[d].sources
  IN  [version |-> delivery[d].version + 1,
       sources |-> SubSeq(sources, 1, IF Len(sources) < SourcesKept THEN Len(sources)
                                                                    ELSE SourcesKept)]

FoldDone(d) ==
  delivery' = [delivery EXCEPT ![d].pc = "preferences",
                               ![d].version = 0, ![d].sources = <<>>]

\* Mutant: whoever writes last wins.
FoldLast(d) ==
  /\ delivery[d].pc = "fold"
  /\ summary' = Folded(d)
  /\ FoldDone(d)
  /\ UNCHANGED <<recordVars, ended, performance, history, metrics, preferred>>

\* Second half: the summary is written if its version is still the one read.
\* If it is not, update_if answers None, nobody looks, and the step is done.
Fold(d) ==
  /\ delivery[d].pc = "fold"
  /\ summary' = IF summary.version = delivery[d].version THEN Folded(d) ELSE summary
  /\ FoldDone(d)
  /\ UNCHANGED <<recordVars, ended, performance, history, metrics, preferred>>

\* _persist_preferences: the language of whichever call is processed last.
PersistPreferences(d) ==
  /\ delivery[d].pc = "preferences"
  /\ preferred' = IF Payload(d).known THEN Payload(d).language ELSE preferred
  /\ Complete(d, "transfer")
  /\ UNCHANGED <<recordVars, ended, performance, history, metrics, summary>>

\* Mutant: a transfer that was attempted is taken to have worked.
TransferFailedNever(payload) == FALSE

TransferFailed(payload) == payload.transfer = "failed"

\* _reconcile_transfer.  It looks for a "callback" and an "escalation" on the
\* row, which no code writes, so it always records one, and without a ticket.
ReconcileTransfer(d) ==
  /\ delivery[d].pc = "transfer"
  /\ IF TransferFailed(Payload(d))
     THEN RecordCallback(delivery[d].call, "TRANSFER_FAILED", NoTicket)
     ELSE UNCHANGED callback
  /\ delivery' = [delivery EXCEPT ![d].pc = "done", ![d].reply = "OK"]
  /\ UNCHANGED <<verified, claimed, raised, faults>>
  /\ UNCHANGED <<ended, performance, history, metrics, summary, preferred>>

\* A step raises with nothing written: logged, and the delivery carries on.
\* (One that raises after its write differs in what is logged, and no more.)
FailStep(d) ==
  /\ delivery[d].pc \in Steps \cup {"fold"}
  /\ Fault
  /\ delivery' = [delivery EXCEPT
       ![d].pc = Following(@),
       ![d].reply = IF delivery[d].pc = "transfer" THEN "OK" ELSE @]
  /\ UNCHANGED <<verified, callback, claimed, raised>>
  /\ UNCHANGED <<ended, performance, history, metrics, summary, preferred>>

\* The delivery is killed between two steps.
CrashDelivery(d) ==
  /\ delivery[d].pc \notin {"idle", "done"}
  /\ Fault
  /\ delivery' = [delivery EXCEPT ![d].pc = "done", ![d].reply = "ERROR"]
  /\ UNCHANGED <<verified, callback, claimed, raised>>
  /\ UNCHANGED <<ended, performance, history, metrics, summary, preferred>>

\* The conversation ends, and the platform decides what it was.
EndCall(c, payload) ==
  /\ ended[c] = Nothing
  /\ ended' = [ended EXCEPT ![c] = [over |-> TRUE, payload |-> payload]]
  /\ UNCHANGED <<recordVars, performance, history, metrics, summary, preferred, delivery>>

DeliveryStep(d) ==
  \/ StorePerformance(d) \/ RecordHistory(d) \/ StoreMetrics(d)
  \/ ReadSummary(d) \/ Fold(d) \/ PersistPreferences(d) \/ ReconcileTransfer(d)

PostCallNext ==
  \/ \E d \in Deliveries :
       \/ \E c \in Calls : Claim(d, c) \/ AnswerDuplicate(d, c) \/ ClaimFails(d, c)
       \/ DeliveryStep(d)
       \/ FailStep(d) \/ CrashDelivery(d)
  \/ \E c \in Calls, payload \in Payloads : EndCall(c, payload)
=============================================================================
