------------------------------ MODULE CallEnd ------------------------------
(***************************************************************************)
(* How calls end: escalations during the call (Escalation) and webhook     *)
(* deliveries after it (PostCall) over the same conversation rows          *)
(* (CallRecord).  An escalation under way when the caller is cut off goes  *)
(* on, so its steps interleave with the deliveries'.                       *)
(***************************************************************************)
EXTENDS Escalation, PostCall

vars == <<recordVars, escalation, postCallVars>>

Init == RecordInit /\ EscalationInit /\ PostCallInit

\* Tools are called while the call lasts.
ToolCalls ==
  \E c \in Calls :
    /\ ~ended[c].over
    /\ \/ Verify(c) /\ UNCHANGED escalation
       \/ \E x \in Escalations, reason \in Reasons, identified \in BOOLEAN :
            Begin(x, c, reason, identified)

Next ==
  \/ ToolCalls /\ UNCHANGED postCallVars
  \/ \E x \in Escalations : EscalationStep(x) /\ UNCHANGED postCallVars
  \/ PostCallNext /\ UNCHANGED escalation

Spec == Init /\ [][Next]_vars

-----------------------------------------------------------------------------

\* Every variable holds what the code can put in it.
TypeOK == RecordTypeOK /\ EscalationTypeOK /\ PostCallTypeOK

\* A caller whose escalation said callback_created is owed one on the row,
\* whatever else is written there before and after (FR-020).
PromisedIsOwed ==
  \A x \in Escalations : escalation[x].promised => callback[escalation[x].call].required

\* Nothing of an account reaches a person unless the call was verified: no
\* ticket is linked to a contact, and no reason about an account is accepted
\* (FR-019d).
NothingForTheUnverified ==
  /\ \A t \in Tickets : raised[t].linked => raised[t].call \in verified
  /\ \A x \in Escalations :
       escalation[x].pc \in {"ticket", "callback", "audit"} =>
         \/ escalation[x].reason \in ReasonsValidWhenUnverified
         \/ escalation[x].call \in verified

\* Each call is folded into the summary at most once, however often it is
\* delivered (FR-024), and the version counts the folds.
FoldedOnce ==
  /\ Cardinality(Range(summary.sources)) = Len(summary.sources)
  /\ summary.version >= Len(summary.sources)
  /\ Len(summary.sources) < SourcesKept => summary.version = Len(summary.sources)

\* A fold is made on the newest summary: no call remembered is forgotten by
\* another that ended at the same time, while there is room for both.
NoCallIsForgotten ==
  [][Len(summary.sources) < SourcesKept =>
       Range(summary.sources) \subseteq Range(summary'.sources)]_summary

\* What a delivery that answers OK has left behind, nothing having failed: the
\* callback of a transfer that did (FR-020), and the call on record, for the
\* reports and, when it was verified, for the rules that decide about money
\* (FR-040).
Completed(d) == delivery[d].reply = "OK" /\ faults = 0

FailedTransferIsCalledBack ==
  \A d \in Deliveries :
    Completed(d) /\ Payload(d).transfer = "failed" => callback[delivery[d].call].required

CallsAreOnRecord ==
  \A d \in Deliveries :
    LET c == delivery[d].call
    IN  Completed(d) =>
          /\ performance[c] # Unwritten
          /\ c \in verified => history[c] = performance[c].outcome /\ performance[c].customer
=============================================================================
