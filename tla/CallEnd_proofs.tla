--------------------------- MODULE CallEnd_proofs ---------------------------
(***************************************************************************)
(* Theorems about CallEnd for every number of calls, escalations and       *)
(* webhook deliveries, any number of faults and any number of sources a    *)
(* summary keeps, checked by TLAPS.                                        *)
(*                                                                         *)
(* The inductive invariant, IInv, adds to the types what an escalation     *)
(* knows of its call, that the delivery at work on a call is the only one, *)
(* that its call is not in the summary before it folds it there, that what *)
(* it read of the summary is the summary of that version, and what each of *)
(* its steps leaves on record.                                             *)
(***************************************************************************)
EXTENDS CallEnd, FiniteSetTheorems, SequenceTheorems, TLAPS

-----------------------------------------------------------------------------
(* The inductive invariant, in parts.                                      *)

\* All that TypeOK leaves out: the fields of a delivery, and that the summary
\* is a record.
DeliveryType ==
  [pc : DeliveryPcs, call : Calls \cup {"none"}, version : Nat, sources : Seq(Calls),
   reply : {"none", "OK", "DUPLICATE", "ERROR"}]

TypeInv ==
  /\ TypeOK
  /\ summary \in [version : Nat, sources : Seq(Calls)]
  /\ delivery \in [Deliveries -> DeliveryType]

\* What an escalation knows of its call, and what it promised, stays so; a
\* ticket is linked only for a verified call.
EscalationOK(x) ==
  LET s == escalation[x]
  IN  /\ s.pc # "idle" => s.call \in Calls
      /\ s.promised => s.pc # "idle" /\ callback[s.call].required
      /\ s.pc # "idle" /\ s.identified => s.call \in verified
      /\ s.pc \in {"ticket", "callback", "audit"} => Authorized(s.identified, s.reason)

EscalationInv ==
  /\ \A x \in Escalations : EscalationOK(x)
  /\ \A t \in Tickets : raised[t].linked => raised[t].call \in verified

\* A delivery that has claimed its call and has not answered.
Working(d) == delivery[d].pc \in Steps \cup {"fold"}

\* One that has claimed its call and was not killed.
Claims(d) == Working(d) \/ delivery[d].reply = "OK"

\* A call is claimed when it is over, and one delivery works on it.
ClaimInv ==
  /\ \A c \in claimed : ended[c].over
  /\ \A d \in Deliveries :
       /\ delivery[d].pc # "done" => delivery[d].reply = "none"
       /\ Claims(d) => delivery[d].call \in claimed
  /\ \A d, e \in Deliveries :
       Working(d) /\ Working(e) /\ delivery[d].call = delivery[e].call => d = e

\* A delivery that has yet to fold its call.
Unfolded(d) == delivery[d].pc \in {"performance", "history", "metrics", "summary", "fold"}

\* A sequence that repeats nothing.
NoRepeat(s) == \A i, j \in 1..Len(s) : s[i] = s[j] => i = j

\* The calls in the summary are claimed, once each; what a delivery has read
\* of it is the summary as it is, or an older one.
SummaryInv ==
  /\ NoRepeat(summary.sources)
  /\ Range(summary.sources) \subseteq claimed
  /\ summary.version >= Len(summary.sources)
  /\ Len(summary.sources) < SourcesKept => summary.version = Len(summary.sources)
  /\ \A d \in Deliveries :
       /\ Unfolded(d) => delivery[d].call \notin Range(summary.sources)
       /\ delivery[d].pc = "fold" =>
            /\ delivery[d].version <= summary.version
            /\ delivery[d].version = summary.version => delivery[d].sources = summary.sources

\* What is on record of a call is what the call was, and for the customer it
\* was verified for.
RecordInv ==
  \A c \in Calls :
    performance[c] # Unwritten =>
      /\ ended[c].over
      /\ performance[c].outcome = Outcome(ended[c].payload)
      /\ performance[c].customer = (c \in verified)

\* What a delivery has left behind by each of its steps, nothing having failed.
PastPerformance(d) ==
  \/ delivery[d].pc \in {"history", "metrics", "summary", "fold", "preferences", "transfer"}
  \/ delivery[d].reply = "OK"

PastHistory(d) == PastPerformance(d) /\ delivery[d].pc # "history"

DeliveryOK(d) ==
  LET c == delivery[d].call
  IN  /\ PastPerformance(d) => performance[c] # Unwritten
      /\ PastHistory(d) /\ c \in verified => history[c] = Outcome(ended[c].payload)
      /\ delivery[d].reply = "OK" /\ Payload(d).transfer = "failed" => callback[c].required

CompletionInv == faults = 0 => \A d \in Deliveries : DeliveryOK(d)

IInv ==
  /\ TypeInv
  /\ EscalationInv
  /\ ClaimInv
  /\ SummaryInv
  /\ RecordInv
  /\ CompletionInv

-----------------------------------------------------------------------------
(* Sequences of sources.                                                   *)

\* A sequence that repeats nothing has as many elements as it is long.
LEMMA NoRepeatCounts ==
  ASSUME NEW S, NEW s \in Seq(S), NoRepeat(s)
  PROVE  Cardinality(Range(s)) = Len(s)
<1>1. Len(s) \in Nat /\ s \in [1..Len(s) -> S] /\ DOMAIN s = 1..Len(s)
  BY LenProperties
<1>2. s \in Surjection(1..Len(s), Range(s))
  BY <1>1 DEF Surjection, Range
<1>3. s \in Injection(1..Len(s), Range(s))
  BY <1>1, <1>2 DEF Injection, Surjection, NoRepeat, IsInjective
<1>4. IsFiniteSet(1..Len(s)) /\ Cardinality(1..Len(s)) = Len(s)
  BY <1>1, FS_Interval
<1> QED
  BY <1>2, <1>3, <1>4, FS_Surjection

\* What is folded in comes first; what no longer fits is the oldest.
KeptLen(s, k) == IF Len(s) < k THEN Len(s) + 1 ELSE k

Kept(c, s, k) == SubSeq(<<c>> \o s, 1, KeptLen(s, k))

\* Folding in a call keeps the list without repeats, within its length and, while there is
\* room, with everything that was on it.
LEMMA FoldingIn ==
  ASSUME NEW S, NEW s \in Seq(S), NEW c \in S, NEW k \in Nat \ {0},
         NoRepeat(s), c \notin Range(s), Len(s) <= k
  PROVE  /\ Kept(c, s, k) \in Seq(S) /\ Len(Kept(c, s, k)) = KeptLen(s, k)
         /\ NoRepeat(Kept(c, s, k))
         /\ Range(Kept(c, s, k)) \subseteq {c} \cup Range(s)
         /\ Len(s) < k => Range(s) \subseteq Range(Kept(c, s, k))
<1>0. PICK n, r : n = KeptLen(s, k) /\ r = Kept(c, s, k)
  OBVIOUS
<1>1. Len(s) \in Nat /\ DOMAIN s = 1..Len(s) /\ n \in 1..(Len(s) + 1)
  BY <1>0, LenProperties DEF KeptLen
<1>2. <<c>> \in Seq(S) /\ Len(<<c>>) = 1 /\ <<c>>[1] = c
  OBVIOUS
<1> DEFINE t == <<c>> \o s
<1>3. /\ t \in Seq(S) /\ Len(t) = Len(s) + 1
      /\ \A i \in 1..(Len(s) + 1) : t[i] = IF i = 1 THEN c ELSE s[i - 1]
  <2>1. \A i \in 1..(1 + Len(s)) : t[i] = IF i <= 1 THEN <<c>>[i] ELSE s[i - 1]
    BY <1>2, ConcatProperties
  <2> QED BY <1>1, <1>2, <2>1, ConcatProperties
<1>4. \A i \in 1..n : t[i] \in S
  BY <1>1, <1>3, ElementOfSeq
<1>5. r \in Seq(S) /\ Len(r) = n /\ \A i \in 1..n : r[i] = t[i]
  <2>1. /\ SubSeq(t, 1, n) \in Seq(S)
        /\ Len(SubSeq(t, 1, n)) = IF 1 <= n THEN n - 1 + 1 ELSE 0
        /\ \A i \in 1..(n - 1 + 1) : SubSeq(t, 1, n)[i] = t[1 + i - 1]
    <3> HIDE DEF t
    <3> QED BY <1>1, <1>4, SubSeqProperties
  <2>2. r = SubSeq(t, 1, n)
    BY <1>0 DEF t, Kept
  <2> QED BY <1>1, <2>1, <2>2
<1> HIDE DEF t
<1>6. DOMAIN r = 1..n
  BY <1>5, LenProperties
<1>7. \A i \in 1..n : r[i] = IF i = 1 THEN c ELSE s[i - 1]
  BY <1>1, <1>3, <1>5
<1>8. \A i \in 1..Len(s) : s[i] \in Range(s)
  BY <1>1 DEF Range
<1>9. NoRepeat(r)
  <2> SUFFICES ASSUME NEW i \in 1..n, NEW j \in 1..n, r[i] = r[j] PROVE i = j
    BY <1>5 DEF NoRepeat
  <2>1. CASE i = 1 /\ j # 1
    BY <1>1, <1>7, <1>8, <2>1
  <2>2. CASE i # 1 /\ j = 1
    BY <1>1, <1>7, <1>8, <2>2
  <2>3. CASE i # 1 /\ j # 1
    <3>1. i - 1 \in 1..Len(s) /\ j - 1 \in 1..Len(s) /\ s[i - 1] = s[j - 1]
      BY <1>1, <1>7, <2>3
    <3> QED BY <1>1, <3>1 DEF NoRepeat
  <2> QED BY <2>1, <2>2, <2>3
<1>10. Range(r) \subseteq {c} \cup Range(s)
  <2> SUFFICES ASSUME NEW i \in 1..n PROVE r[i] \in {c} \cup Range(s)
    BY <1>6 DEF Range
  <2>1. CASE i = 1
    BY <1>7, <2>1
  <2>2. CASE i # 1
    BY <1>1, <1>7, <1>8, <2>2
  <2> QED BY <2>1, <2>2
<1>11. ASSUME Len(s) < k PROVE Range(s) \subseteq Range(r)
  <2> SUFFICES ASSUME NEW i \in 1..Len(s) PROVE s[i] \in Range(r)
    BY <1>1 DEF Range
  <2>1. i + 1 \in 1..n /\ r[i + 1] = s[i]
    BY <1>0, <1>1, <1>7, <1>11 DEF KeptLen
  <2> QED BY <1>6, <2>1 DEF Range
<1> QED BY <1>0, <1>5, <1>9, <1>10, <1>11

-----------------------------------------------------------------------------
(* What a step can do.                                                     *)

\* The steps of the parts, named one by one.
CallStep(c) == ~ended[c].over /\ Verify(c) /\ UNCHANGED <<escalation, postCallVars>>

EscalationMove(x) ==
  /\ UNCHANGED postCallVars
  /\ \/ \E c \in Calls, reason \in Reasons, identified \in BOOLEAN :
          ~ended[c].over /\ Begin(x, c, reason, identified)
     \/ EscalationStep(x)

DeliveryMove(d) ==
  /\ UNCHANGED escalation
  /\ \/ \E c \in Calls : Claim(d, c) \/ AnswerDuplicate(d, c) \/ ClaimFails(d, c)
     \/ DeliveryStep(d) \/ FailStep(d) \/ CrashDelivery(d)

\* Every step is one of a call, of an escalation, of a delivery, or the end of a call.
LEMMA StepsAreThese ==
  ASSUME [Next]_vars
  PROVE  \/ UNCHANGED vars
         \/ \E c \in Calls : CallStep(c)
         \/ \E x \in Escalations : EscalationMove(x)
         \/ \E d \in Deliveries : DeliveryMove(d)
         \/ \E c \in Calls, payload \in Payloads : EndCall(c, payload) /\ UNCHANGED escalation
BY DEF Next, ToolCalls, PostCallNext, CallStep, EscalationMove, DeliveryMove

\* An outcome is always one of the four.
LEMMA OutcomeIsKnown == \A payload : Outcome(payload) \in Outcomes
BY DEF Outcome, Outcomes

\* What an escalation changes: its own record, a ticket it raises for its call,
\* linked if the call was verified, and a callback that is required from then on.
EscalationChange(x) ==
  /\ UNCHANGED <<verified, claimed, postCallVars>>
  /\ faults' \in 0..MaxFaults /\ faults <= faults'
  /\ callback' = callback \/
       \E r \in ValidReasons \cup {"none"}, t \in Tickets \cup {NoTicket} :
         RecordCallback(escalation[x].call, r, t) /\ escalation[x].pc # "idle"
  /\ raised' = raised \/
       \E t \in Tickets :
         /\ RaiseTicket(t, escalation[x].call, escalation[x].identified)
         /\ escalation[x].pc # "idle"
  /\ \A y \in Escalations : y # x => escalation'[y] = escalation[y]

\* A step of an escalation changes that escalation, and raises its ticket at most.
LEMMA EscalationChanges ==
  ASSUME TypeInv, NEW x \in Escalations, EscalationMove(x)
  PROVE  EscalationChange(x)
<1> USE DEF TypeInv, TypeOK, RecordTypeOK, EscalationTypeOK
<1>0. /\ faults \in 0..MaxFaults /\ MaxFaults \in Nat
      /\ Fault => faults' \in 0..MaxFaults /\ faults <= faults'
      /\ faults <= faults
  BY CallRecordAssumption DEF Fault
<1>1. escalation[x].reason \in ValidReasons \cup {"none"}
      /\ escalation[x].ticket \in Tickets \cup {NoTicket}
  BY EscalationAssumption
<1>2. ASSUME NEW c \in Calls, NEW reason \in Reasons, NEW identified \in BOOLEAN,
             Begin(x, c, reason, identified)
      PROVE  /\ UNCHANGED <<verified, claimed, callback, raised>>
             /\ faults' = faults \/ Fault
             /\ \A y \in Escalations : y # x => escalation'[y] = escalation[y]
  BY <1>2 DEF Begin
<1>3. ASSUME NEW t \in Tickets, CreateTicket(x, t)
      PROVE  /\ UNCHANGED <<verified, claimed, callback, faults>>
             /\ RaiseTicket(t, escalation[x].call, escalation[x].identified)
             /\ escalation[x].pc # "idle"
             /\ \A y \in Escalations : y # x => escalation'[y] = escalation[y]
  BY <1>3 DEF CreateTicket, Step
<1>4. ASSUME NEW t \in Tickets, AppendToTicket(x, t)
      PROVE  /\ UNCHANGED <<verified, claimed, callback, raised>>
             /\ faults' = faults \/ Fault
             /\ \A y \in Escalations : y # x => escalation'[y] = escalation[y]
  BY <1>4 DEF AppendToTicket, Step
<1>5. ASSUME FailSignals(x) \/ TicketUnanswered(x)
      PROVE  /\ UNCHANGED <<verified, claimed, callback>>
             /\ Fault
             /\ raised' = raised \/ \E t \in Tickets :
                  RaiseTicket(t, escalation[x].call, escalation[x].identified)
             /\ escalation[x].pc # "idle"
             /\ \A y \in Escalations : y # x => escalation'[y] = escalation[y]
  BY <1>5 DEF FailSignals, TicketUnanswered, Fail, Step
<1>6. ASSUME Promise(x) \/ PromiseFails(x) \/ Respond(x)
      PROVE  /\ UNCHANGED <<verified, claimed, raised>>
             /\ faults' = faults \/ Fault
             /\ callback' = callback \/
                  RecordCallback(escalation[x].call, escalation[x].reason, escalation[x].ticket)
             /\ escalation[x].pc # "idle"
             /\ \A y \in Escalations : y # x => escalation'[y] = escalation[y]
  BY <1>6 DEF Promise, PromiseFails, Respond, Step, recordVars
<1>7. UNCHANGED postCallVars
  BY DEF EscalationMove
<1> HIDE DEF TypeInv, TypeOK, RecordTypeOK, EscalationTypeOK
<1>8. ASSUME NEW c \in Calls, NEW reason \in Reasons, NEW identified \in BOOLEAN,
             Begin(x, c, reason, identified)
      PROVE  EscalationChange(x)
  BY <1>0, <1>2, <1>7, <1>8 DEF EscalationChange
<1>9. ASSUME NEW t \in Tickets, CreateTicket(x, t) \/ AppendToTicket(x, t)
      PROVE  EscalationChange(x)
  BY <1>0, <1>3, <1>4, <1>7, <1>9 DEF EscalationChange
<1>10. CASE FailSignals(x) \/ TicketUnanswered(x)
  BY <1>0, <1>5, <1>7, <1>10 DEF EscalationChange
<1>11. CASE Promise(x) \/ PromiseFails(x) \/ Respond(x)
  BY <1>0, <1>1, <1>6, <1>7, <1>11 DEF EscalationChange
<1> QED
  BY <1>8, <1>9, <1>10, <1>11 DEF EscalationMove, EscalationStep

-----------------------------------------------------------------------------
(* Types are preserved.                                                    *)

\* An escalation's record keeps its type, and what it owes its call.
LEMMA EscalationsKept ==
  ASSUME TypeInv, EscalationInv, NEW x \in Escalations, EscalationMove(x)
  PROVE  EscalationTypeOK' /\ EscalationInv'
<1> DEFINE S == [pc : EscalationPcs, call : Calls \cup {"none"},
                 reason : Reasons \cup {"none"}, identified : BOOLEAN,
                 ticket : Tickets \cup {NoTicket}, status : EscalationReplies,
                 promised : BOOLEAN]
<1>1. /\ escalation \in [Escalations -> S]
      /\ callback \in [Calls -> [required : BOOLEAN,
                                 reason : ValidReasons \cup {"TRANSFER_FAILED", "none"},
                                 ticket : Tickets \cup {NoTicket}]]
      /\ raised \in [Tickets -> [exists : BOOLEAN, call : Calls \cup {"none"}, linked : BOOLEAN]]
      /\ EscalationOK(x)
  BY DEF TypeInv, TypeOK, EscalationTypeOK, RecordTypeOK, EscalationInv
<1>2. EscalationChange(x)
  BY EscalationChanges
<1>3. \A c \in Calls : callback[c].required => callback'[c].required
  <2>1. CASE callback' = callback
    BY <2>1
  <2>2. ASSUME NEW r, NEW t, RecordCallback(escalation[x].call, r, t)
        PROVE  \A c \in Calls : callback[c].required => callback'[c].required
    BY <1>1, <2>2 DEF RecordCallback
  <2> QED BY <1>2, <2>1, <2>2 DEF EscalationChange
<1>4. escalation' \in [Escalations -> S]
  <2>1. ASSUME NEW r \in S, NEW pc \in EscalationPcs, NEW status \in EscalationReplies,
               NEW t \in Tickets \cup {NoTicket}, NEW b \in BOOLEAN
        PROVE  [pc |-> pc, call |-> r.call, reason |-> r.reason, identified |-> r.identified,
                ticket |-> t, status |-> status, promised |-> b] \in S
    OBVIOUS
  <2>2. ASSUME NEW r \in S, escalation' = [escalation EXCEPT ![x] = r]
        PROVE  escalation' \in [Escalations -> S]
    <3> HIDE DEF S
    <3> QED BY <1>1, <2>2
  <2>3. ASSUME NEW r \in S, NEW pc \in EscalationPcs PROVE [r EXCEPT !.pc = pc] \in S
    OBVIOUS
  <2>4. ASSUME NEW r \in S, NEW status \in EscalationReplies, NEW t \in Tickets
        PROVE  [r EXCEPT !.ticket = t, !.status = status] \in S
    OBVIOUS
  <2>5. /\ escalation[x] \in S
        /\ [escalation[x] EXCEPT !.promised = TRUE] \in S
        /\ \A status \in EscalationReplies : [escalation[x] EXCEPT !.status = status] \in S
    <3>1. escalation[x] \in S
      <4> HIDE DEF S
      <4> QED BY <1>1
    <3>2. ASSUME NEW r \in S, NEW status \in EscalationReplies
          PROVE  [r EXCEPT !.status = status] \in S
      OBVIOUS
    <3>3. ASSUME NEW r \in S PROVE [r EXCEPT !.promised = TRUE] \in S
      OBVIOUS
    <3> HIDE DEF S
    <3> QED BY <3>1, <3>2, <3>3
  <2> USE DEF EscalationPcs, EscalationReplies
  <2>6. ASSUME NEW c \in Calls, NEW reason \in Reasons, NEW identified \in BOOLEAN,
               Begin(x, c, reason, identified)
        PROVE  escalation' \in [Escalations -> S]
    BY <1>1, <2>6 DEF Begin, NewEscalation
  <2> HIDE DEF S
  <2>7. ASSUME NEW pc \in EscalationPcs, NEW r \in S, Step(x, pc, r)
        PROVE  escalation' \in [Escalations -> S]
    BY <2>2, <2>3, <2>7 DEF Step
  <2>8. ASSUME NEW t \in Tickets, CreateTicket(x, t) \/ AppendToTicket(x, t)
        PROVE  escalation' \in [Escalations -> S]
    <3>1. PICK status \in EscalationReplies :
            Step(x, "callback", [escalation[x] EXCEPT !.ticket = t, !.status = status])
      BY <2>8, Zenon DEF CreateTicket, AppendToTicket
    <3> QED BY <2>4, <2>5, <2>7, <3>1
  <2>9. CASE FailSignals(x) \/ TicketUnanswered(x)
    <3>1. PICK pc \in EscalationPcs, status \in EscalationReplies :
            Step(x, pc, [escalation[x] EXCEPT !.status = status])
      BY <2>9, Zenon DEF FailSignals, TicketUnanswered, Fail
    <3> QED BY <2>4, <2>5, <2>7, <3>1
  <2>10. CASE Promise(x) \/ PromiseFails(x) \/ Respond(x)
    BY <2>4, <2>5, <2>7, <2>10 DEF Promise, PromiseFails, Respond
  <2> QED BY <2>6, <2>8, <2>9, <2>10 DEF EscalationMove, EscalationStep
<1>5. EscalationOK(x)'
  <2> DEFINE s == escalation[x]
             u == escalation'[x]
  <2>1. CASE \E c \in Calls, reason \in Reasons, identified \in BOOLEAN :
               Begin(x, c, reason, identified)
    <3>1. PICK c \in Calls, reason \in Reasons, identified \in BOOLEAN :
            Begin(x, c, reason, identified)
      BY <2>1
    <3>2. /\ u.call = c /\ u.reason = reason /\ u.identified = identified /\ ~u.promised
          /\ u.pc = IF Authorized(identified, reason) THEN "ticket" ELSE "done"
      BY <1>1, <3>1 DEF Begin, NewEscalation
    <3>3. identified => c \in verified'
      BY <3>1 DEF Begin
    <3> HIDE DEF u
    <3> QED BY <3>2, <3>3 DEF EscalationOK, u
  <2>2. ASSUME u.call = s.call, u.reason = s.reason, u.identified = s.identified,
               s.pc \in {"ticket", "callback", "audit"},
               u.pc \in {"ticket", "callback", "audit", "done"},
               u.promised => s.promised \/ callback'[s.call].required
        PROVE  EscalationOK(x)'
    <3>1. verified' = verified
      BY <1>2 DEF EscalationChange
    <3> QED BY <1>1, <1>3, <2>2, <3>1 DEF EscalationOK
  <2>3. ASSUME NEW t \in Tickets, CreateTicket(x, t) \/ AppendToTicket(x, t)
        PROVE  EscalationOK(x)'
    <3>1. PICK status :
            escalation' = [escalation EXCEPT ![x] =
              [[s EXCEPT !.ticket = t, !.status = status] EXCEPT !.pc = "callback"]]
      BY <2>3, Zenon DEF CreateTicket, AppendToTicket, Step
    <3>2. s.pc = "ticket"
      BY <2>3 DEF CreateTicket, AppendToTicket
    <3> QED BY <1>1, <2>2, <3>1, <3>2
  <2>4. CASE FailSignals(x)
    <3>1. <2>2!1 /\ <2>2!2 /\ <2>2!3 /\ <2>2!4 /\ <2>2!5 /\ <2>2!6
      BY <1>1, <2>4 DEF FailSignals, Fail, Step
    <3> QED BY <2>2, <3>1
  <2>5. CASE TicketUnanswered(x)
    <3>1. <2>2!1 /\ <2>2!2 /\ <2>2!3 /\ <2>2!4 /\ <2>2!5 /\ <2>2!6
      BY <1>1, <2>5 DEF TicketUnanswered, Step
    <3> QED BY <2>2, <3>1
  <2>6. CASE Promise(x)
    <3>1. <2>2!1 /\ <2>2!2 /\ <2>2!3 /\ <2>2!4 /\ <2>2!5
      BY <1>1, <2>6 DEF Promise, Step
    <3>2. callback'[s.call].required
      BY <1>1, <2>6 DEF Promise, RecordCallback, EscalationOK
    <3> QED BY <2>2, <3>1, <3>2
  <2>7. CASE PromiseFails(x) \/ Respond(x)
    <3>1. <2>2!1 /\ <2>2!2 /\ <2>2!3 /\ <2>2!4 /\ <2>2!5 /\ <2>2!6
      BY <1>1, <2>7 DEF PromiseFails, Respond, Step
    <3> QED BY <2>2, <3>1
  <2> QED BY <2>1, <2>3, <2>4, <2>5, <2>6, <2>7 DEF EscalationMove, EscalationStep
<1>6. ASSUME NEW y \in Escalations PROVE EscalationOK(y)'
  <2>1. CASE y # x
    BY <1>1, <1>2, <1>3, <2>1 DEF EscalationOK, EscalationInv, EscalationChange
  <2> QED BY <1>5, <2>1
<1>7. ASSUME NEW t \in Tickets, raised'[t].linked PROVE raised'[t].call \in verified'
  BY <1>1, <1>2, <1>7 DEF EscalationInv, EscalationOK, EscalationChange, RaiseTicket
<1> QED BY <1>4, <1>6, <1>7 DEF EscalationInv, EscalationTypeOK

-----------------------------------------------------------------------------
(* What a delivery does.                                                   *)

\* A delivery changes its own record and no other; it takes a call nobody had
\* claimed, or answers at once, or works on, or is done; and the only callback
\* it records is the one for a transfer that failed.
DeliveryChange(d) ==
  LET old == delivery[d]
      new == delivery'[d]
  IN  /\ new \in DeliveryType /\ delivery' = [delivery EXCEPT ![d] = new]
      /\ UNCHANGED <<verified, raised, ended, escalation>>
      /\ faults' \in 0..MaxFaults /\ faults <= faults'
      /\ \/ claimed' = claimed
         \/ claimed' = claimed \cup {new.call} /\ new.call \in Calls /\ ended[new.call].over
      /\ callback' = callback \/ RecordCallback(old.call, "TRANSFER_FAILED", NoTicket)
      /\ \/ /\ old.pc = "idle" /\ new.call \notin claimed /\ new.call \in claimed'
            /\ new.pc = "performance" /\ new.reply = "none"
         \/ /\ old.pc = "idle"
            /\ new.pc = "done" /\ new.reply \in {"DUPLICATE", "ERROR"}
         \/ /\ Working(d) /\ new.call = old.call
            /\ new.pc \in (Steps \cup {"fold"}) \ {"performance"} /\ new.reply = old.reply
         \/ /\ Working(d) /\ new.call = old.call
            /\ new.pc = "done" /\ new.reply \in {"OK", "ERROR"}

\* The call of a delivery at work is over, and what the platform says of it is
\* one of the payloads.
LEMMA CallAtWork ==
  ASSUME TypeInv, ClaimInv, NEW d \in Deliveries, Working(d)
  PROVE  /\ delivery[d].call \in Calls /\ delivery[d].call \in claimed
         /\ ended[delivery[d].call].over /\ Payload(d) \in Payloads
<1>1. delivery[d].call \in claimed /\ claimed \subseteq Calls
  BY DEF ClaimInv, Claims, TypeInv, TypeOK, RecordTypeOK
<1>2. ended[delivery[d].call].over
  BY <1>1 DEF ClaimInv
<1>3. ended[delivery[d].call] \in {Nothing} \cup [over : {TRUE}, payload : Payloads]
  BY <1>1 DEF TypeInv, TypeOK, PostCallTypeOK
<1>4. ended[delivery[d].call] \in [over : {TRUE}, payload : Payloads]
  <2>1. Nothing.over = FALSE
    BY DEF Nothing
  <2>2. ended[delivery[d].call] # Nothing
    BY <1>2, <2>1
  <2> QED BY <1>3, <2>2
<1> QED BY <1>1, <1>2, <1>4 DEF Payload

\* Where a step leaves a delivery, and what it does to the record fields.
LEMMA DeliveryChanges ==
  ASSUME TypeInv, ClaimInv, NEW d \in Deliveries, DeliveryMove(d)
  PROVE  DeliveryChange(d)
<1> DEFINE old == delivery[d]
           new == delivery'[d]
<1>1. /\ delivery \in [Deliveries -> DeliveryType] /\ old \in DeliveryType
      /\ summary \in [version : Nat, sources : Seq(Calls)]
      /\ faults \in 0..MaxFaults /\ MaxFaults \in Nat /\ faults <= faults
      /\ Fault => faults' \in 0..MaxFaults /\ faults <= faults'
  BY CallRecordAssumption DEF TypeInv, TypeOK, RecordTypeOK, Fault
<1>2. UNCHANGED escalation
  BY DEF DeliveryMove
<1> USE DEF DeliveryType, DeliveryPcs, Steps, Working
<1>3. ASSUME NEW r \in DeliveryType, delivery' = [delivery EXCEPT ![d] = r]
      PROVE  new = r /\ delivery' = [delivery EXCEPT ![d] = new]
  <2> HIDE DEF DeliveryType
  <2> QED BY <1>1, <1>3
<1>4. ASSUME NEW c \in Calls, Claim(d, c) PROVE DeliveryChange(d)
  <2> DEFINE r == [old EXCEPT !.pc = "performance", !.call = c]
  <2>1. r \in DeliveryType /\ r.pc = "performance" /\ r.call = c /\ r.reply = old.reply
    BY <1>1
  <2>2. delivery' = [delivery EXCEPT ![d] = r]
    BY <1>1, <1>4 DEF Claim
  <2>3. old.reply = "none"
    BY <1>4 DEF Claim, ClaimInv
  <2>4. new = r /\ delivery' = [delivery EXCEPT ![d] = new]
    BY <1>3, <2>1, <2>2
  <2> HIDE DEF r, DeliveryType, DeliveryPcs, Steps, Working
  <2>5. old.pc = "idle" /\ UNCHANGED <<verified, raised, ended>>
        /\ UNCHANGED callback /\ faults' \in 0..MaxFaults /\ faults <= faults'
    BY <1>1, <1>4 DEF Claim
  <2>6. new.call \notin claimed /\ claimed' = claimed \cup {new.call} /\ ended[new.call].over
    BY <1>4, <2>1, <2>4 DEF Claim
  <2> QED
    BY <1>2, <2>1, <2>3, <2>4, <2>5, <2>6 DEF DeliveryChange
\* Each other step works on a call, from r's fields to others.
<1>5. ASSUME Working(d), NEW r \in DeliveryType, delivery' = [delivery EXCEPT ![d] = r],
             r.call = old.call,
             \/ r.pc \in (Steps \cup {"fold"}) \ {"performance"} /\ r.reply = old.reply
             \/ r.pc = "done" /\ r.reply \in {"OK", "ERROR"},
             UNCHANGED <<verified, raised, ended, claimed>>,
             faults' = faults \/ Fault,
             callback' = callback \/ RecordCallback(old.call, "TRANSFER_FAILED", NoTicket)
      PROVE  DeliveryChange(d)
  <2> HIDE DEF DeliveryType, DeliveryPcs, Working
  <2>1. new = r /\ delivery' = [delivery EXCEPT ![d] = new]
    BY <1>3, <1>5
  <2>2. faults' \in 0..MaxFaults /\ faults <= faults'
    BY <1>1, <1>5
  <2> QED BY <1>2, <1>5, <2>1, <2>2 DEF DeliveryChange
<1>6. ASSUME NEW c \in Calls, AnswerDuplicate(d, c) PROVE DeliveryChange(d)
  <2> DEFINE r == [old EXCEPT !.pc = "done", !.call = c, !.reply = "DUPLICATE"]
  <2>1. r \in DeliveryType /\ r.pc = "done" /\ r.reply = "DUPLICATE"
    BY <1>1
  <2>2. delivery' = [delivery EXCEPT ![d] = r]
    BY <1>1, <1>6 DEF AnswerDuplicate
  <2>3. new = r /\ delivery' = [delivery EXCEPT ![d] = new]
    BY <1>3, <2>1, <2>2
  <2> HIDE DEF r, DeliveryType, DeliveryPcs, Steps, Working
  <2>4. old.pc = "idle" /\ UNCHANGED <<verified, raised, ended>>
        /\ UNCHANGED callback /\ faults' \in 0..MaxFaults /\ faults <= faults'
    BY <1>1, <1>6 DEF AnswerDuplicate, recordVars
  <2>5. UNCHANGED claimed
    BY <1>6 DEF AnswerDuplicate, recordVars
  <2> QED
    BY <1>2, <2>1, <2>3, <2>4, <2>5 DEF DeliveryChange
<1>7. ASSUME NEW c \in Calls, ClaimFails(d, c) PROVE DeliveryChange(d)
  <2> DEFINE r == [old EXCEPT !.pc = "done", !.call = c, !.reply = "ERROR"]
  <2>1. r \in DeliveryType /\ r.pc = "done" /\ r.reply = "ERROR" /\ r.call = c
    BY <1>1
  <2>2. delivery' = [delivery EXCEPT ![d] = r]
    BY <1>1, <1>7 DEF ClaimFails
  <2>3. new = r /\ delivery' = [delivery EXCEPT ![d] = new]
    BY <1>3, <2>1, <2>2
  <2> HIDE DEF r, DeliveryType, DeliveryPcs, Steps, Working
  <2>4. old.pc = "idle" /\ UNCHANGED <<verified, raised, ended>>
        /\ UNCHANGED callback /\ faults' \in 0..MaxFaults /\ faults <= faults'
    BY <1>1, <1>7 DEF ClaimFails
  <2>5. \/ claimed' = claimed
        \/ claimed' = claimed \cup {new.call} /\ new.call \in Calls /\ ended[new.call].over
    BY <1>7, <2>1, <2>3 DEF ClaimFails
  <2> QED
    BY <1>2, <2>1, <2>3, <2>4, <2>5 DEF DeliveryChange
<1>8. ASSUME NEW pc \in DeliveryPcs
      PROVE  /\ [old EXCEPT !.pc = pc] \in DeliveryType
             /\ [old EXCEPT !.pc = pc].pc = pc
             /\ [old EXCEPT !.pc = pc].call = old.call
             /\ [old EXCEPT !.pc = pc].reply = old.reply
  BY <1>1
<1>9. ASSUME NEW pc, delivery' = [delivery EXCEPT ![d].pc = pc]
      PROVE  delivery' = [delivery EXCEPT ![d] = [old EXCEPT !.pc = pc]]
  BY <1>1, <1>9
<1>10. CASE StorePerformance(d) \/ RecordHistory(d) \/ StoreMetrics(d) \/ PersistPreferences(d)
  <2>1. PICK pc \in {"history", "metrics", "summary", "transfer"} :
          delivery' = [delivery EXCEPT ![d].pc = pc]
    BY <1>10 DEF StorePerformance, RecordHistory, StoreMetrics, PersistPreferences, Complete
  <2>2. Working(d) /\ UNCHANGED recordVars /\ UNCHANGED ended
    BY <1>10 DEF StorePerformance, RecordHistory, StoreMetrics, PersistPreferences
  <2> QED BY <1>5, <1>8, <1>9, <2>1, <2>2 DEF recordVars
<1>11. CASE ReadSummary(d)
  <2> DEFINE r == IF Payload(d).known
                  THEN [old EXCEPT !.pc = "fold", !.version = summary.version,
                                   !.sources = summary.sources]
                  ELSE [old EXCEPT !.pc = "preferences"]
  <2>1. r \in DeliveryType /\ r.pc \in {"fold", "preferences"}
        /\ r.call = old.call /\ r.reply = old.reply
    BY <1>1
  <2>2. delivery' = [delivery EXCEPT ![d] = r]
    BY <1>1, <1>11 DEF ReadSummary
  <2>3. Working(d) /\ UNCHANGED recordVars /\ UNCHANGED ended
    BY <1>11 DEF ReadSummary
  <2> HIDE DEF r
  <2> QED BY <1>5, <2>1, <2>2, <2>3 DEF recordVars
<1>12. CASE Fold(d)
  <2> DEFINE r == [old EXCEPT !.pc = "preferences", !.version = 0, !.sources = <<>>]
  <2>1. r \in DeliveryType /\ r.pc = "preferences" /\ r.call = old.call /\ r.reply = old.reply
    <3>1. <<>> \in Seq(Calls) /\ 0 \in Nat
      OBVIOUS
    <3> HIDE DEF DeliveryPcs
    <3>2. "preferences" \in DeliveryPcs
      BY DEF DeliveryPcs
    <3>3. ASSUME NEW s \in Seq(Calls) 
          PROVE  [old EXCEPT !.pc = "preferences", !.version = 0, !.sources = s] \in DeliveryType
      BY <1>1, <3>1, <3>2
    <3> QED BY <1>1, <3>1, <3>3
  <2>2. delivery' = [delivery EXCEPT ![d] = r]
    BY <1>1, <1>12 DEF Fold, FoldDone
  <2>3. Working(d) /\ UNCHANGED recordVars /\ UNCHANGED ended
    BY <1>12 DEF Fold
  <2> QED BY <1>5, <2>1, <2>2, <2>3 DEF recordVars
<1>13. CASE ReconcileTransfer(d) \/ CrashDelivery(d)
  <2>1. PICK reply \in {"OK", "ERROR"} :
          delivery' = [delivery EXCEPT ![d].pc = "done", ![d].reply = reply]
    BY <1>13 DEF ReconcileTransfer, CrashDelivery
  <2> DEFINE r == [old EXCEPT !.pc = "done", !.reply = reply]
  <2>2. r \in DeliveryType /\ r.pc = "done" /\ r.call = old.call /\ r.reply = reply
    BY <1>1
  <2>3. delivery' = [delivery EXCEPT ![d] = r]
    BY <1>1, <2>1
  <2>4. Working(d) /\ UNCHANGED <<verified, raised, ended, claimed>>
        /\ (faults' = faults \/ Fault)
    BY <1>1, <1>13 DEF ReconcileTransfer, CrashDelivery
  <2>5. callback' = callback \/ RecordCallback(old.call, "TRANSFER_FAILED", NoTicket)
    BY <1>13 DEF ReconcileTransfer, CrashDelivery
  <2> QED BY <1>5, <2>2, <2>3, <2>4, <2>5
<1>14. CASE FailStep(d)
  <2> DEFINE reply == IF old.pc = "transfer" THEN "OK" ELSE old.reply
             r == [old EXCEPT !.pc = Following(old.pc), !.reply = reply]
  <2>1. /\ Following(old.pc) \in
             {"history", "metrics", "summary", "preferences", "transfer", "done"}
        /\ (Following(old.pc) = "done") = (old.pc = "transfer")
    BY <1>14 DEF FailStep, Following
  <2>2. r \in DeliveryType /\ r.pc = Following(old.pc) /\ r.call = old.call /\ r.reply = reply
    BY <1>1, <2>1
  <2>3. delivery' = [delivery EXCEPT ![d] = r]
    BY <1>1, <1>14 DEF FailStep
  <2>4. Working(d) /\ UNCHANGED <<verified, raised, ended, claimed, callback>> /\ Fault
    BY <1>14 DEF FailStep
  <2>5. \/ r.pc \in (Steps \cup {"fold"}) \ {"performance"} /\ r.reply = old.reply
        \/ r.pc = "done" /\ r.reply \in {"OK", "ERROR"}
    BY <2>1, <2>2
  <2> HIDE DEF r
  <2> QED BY <1>5, <2>2, <2>3, <2>4, <2>5
<1> QED
  BY <1>4, <1>6, <1>7, <1>10, <1>11, <1>12, <1>13, <1>14 DEF DeliveryMove, DeliveryStep

-----------------------------------------------------------------------------
(* The parts of the invariant are kept.                                    *)

\* What the folded summary is.
LEMMA FoldIsSummary ==
  ASSUME TypeInv, ClaimInv, SummaryInv, NEW d \in Deliveries,
         delivery[d].pc = "fold", delivery[d].version = summary.version
  PROVE  LET c == delivery[d].call
             s == summary.sources
             r == Folded(d).sources
         IN  /\ Folded(d) \in [version : Nat, sources : Seq(Calls)]
             /\ Folded(d).version = summary.version + 1
             /\ Len(r) = IF Len(s) < SourcesKept THEN Len(s) + 1 ELSE SourcesKept
             /\ NoRepeat(r)
             /\ Range(r) \subseteq {c} \cup Range(s)
             /\ Len(s) < SourcesKept => Range(s) \subseteq Range(r)
<1> DEFINE c == delivery[d].call
           s == summary.sources
           n == IF Len(s) < SourcesKept THEN Len(s) + 1 ELSE SourcesKept
<1>1. /\ delivery[d].sources = s
      /\ s \in Seq(Calls) /\ NoRepeat(s) /\ c \notin Range(s)
      /\ Len(s) \in Nat /\ Len(s) <= SourcesKept /\ SourcesKept \in Nat \ {0}
      /\ summary.version \in Nat
  <2>1. delivery[d].sources = s /\ NoRepeat(s) /\ c \notin Range(s)
    BY DEF SummaryInv, Unfolded
  <2>2. s \in Seq(Calls) /\ summary.version \in Nat /\ Len(s) <= SourcesKept
    BY DEF TypeInv, TypeOK, PostCallTypeOK
  <2> QED BY <2>1, <2>2, LenProperties, PostCallAssumption
<1>2. c \in Calls
  BY CallAtWork DEF Working
<1>3. Len(<<c>> \o s) = Len(s) + 1
  <2>1. <<c>> \in Seq(Calls) /\ Len(<<c>>) = 1
    BY <1>2
  <2> HIDE DEF c, s
  <2> QED BY <1>1, <2>1, ConcatProperties
<1>4. Folded(d) = [version |-> summary.version + 1, sources |-> Kept(c, s, SourcesKept)]
  <2>1. (IF Len(<<c>> \o s) < SourcesKept THEN Len(<<c>> \o s) ELSE SourcesKept)
          = KeptLen(s, SourcesKept)
    BY <1>1, <1>3 DEF KeptLen
  <2> QED BY <1>1, <2>1 DEF Folded, Kept
<1>5. PICK q, e : q = s /\ e = c
  OBVIOUS
<1> HIDE DEF c, s
<1>6. /\ Kept(e, q, SourcesKept) \in Seq(Calls)
      /\ Len(Kept(e, q, SourcesKept)) = KeptLen(q, SourcesKept)
      /\ NoRepeat(Kept(e, q, SourcesKept))
      /\ Range(Kept(e, q, SourcesKept)) \subseteq {e} \cup Range(q)
      /\ Len(q) < SourcesKept => Range(q) \subseteq Range(Kept(e, q, SourcesKept))
  BY <1>1, <1>2, <1>5, FoldingIn
<1> QED
  BY <1>1, <1>4, <1>5, <1>6 DEF c, s, KeptLen

\* Each table is written by one of a delivery's steps.
LEMMA DeliveryWrites ==
  ASSUME NEW d, DeliveryMove(d)
  PROVE  /\ performance' = performance \/ StorePerformance(d)
         /\ history' = history \/ RecordHistory(d)
         /\ metrics' = metrics \/ StoreMetrics(d)
         /\ summary' = summary \/ Fold(d)
         /\ preferred' = preferred \/ PersistPreferences(d)
         /\ callback' = callback \/ ReconcileTransfer(d)
BY DEF DeliveryMove, DeliveryStep, Claim, AnswerDuplicate, ClaimFails, StorePerformance,
       RecordHistory, StoreMetrics, ReadSummary, Fold, PersistPreferences, ReconcileTransfer,
       FailStep, CrashDelivery, recordVars

\* What is written where callbacks and tickets are kept has their type.
LEMMA CallbackTyped ==
  ASSUME TypeInv, NEW c, NEW r \in ValidReasons \cup {"TRANSFER_FAILED", "none"},
         NEW t \in Tickets \cup {NoTicket}, RecordCallback(c, r, t)
  PROVE  callback' \in [Calls -> [required : BOOLEAN,
                                  reason : ValidReasons \cup {"TRANSFER_FAILED", "none"},
                                  ticket : Tickets \cup {NoTicket}]]
<1> DEFINE R == ValidReasons \cup {"TRANSFER_FAILED", "none"}
           C == [required : BOOLEAN, reason : R, ticket : Tickets \cup {NoTicket}]
<1>1. [required |-> TRUE, reason |-> r, ticket |-> t] \in C
  <2> HIDE DEF R
  <2> QED BY DEF R
<1>2. callback \in [Calls -> C]
  BY DEF TypeInv, TypeOK, RecordTypeOK
<1> HIDE DEF C
<1>3. callback' \in [Calls -> C]
  BY <1>1, <1>2 DEF RecordCallback
<1> QED BY <1>3 DEF C

\* Raising a ticket keeps the tickets well formed.
LEMMA RaisedTyped ==
  ASSUME TypeInv, NEW c \in Calls \cup {"none"}, NEW linked \in BOOLEAN, NEW t \in Tickets,
         RaiseTicket(t, c, linked)
  PROVE  raised' \in [Tickets -> [exists : BOOLEAN, call : Calls \cup {"none"}, linked : BOOLEAN]]
BY DEF TypeInv, TypeOK, RecordTypeOK, RaiseTicket

\* Every step keeps the types.
LEMMA TypesKept ==
  ASSUME IInv, [Next]_vars
  PROVE  TypeInv'
<1> USE DEF IInv
<1>1. CASE UNCHANGED vars
  BY <1>1 DEF vars, recordVars, postCallVars, TypeInv, TypeOK, RecordTypeOK, EscalationTypeOK,
              PostCallTypeOK
<1>2. ASSUME NEW c \in Calls, CallStep(c) PROVE TypeInv'
  BY <1>2 DEF CallStep, Verify, postCallVars, TypeInv, TypeOK, RecordTypeOK, EscalationTypeOK,
              PostCallTypeOK
<1>3. ASSUME NEW x \in Escalations, EscalationMove(x) PROVE TypeInv'
  <2>1. EscalationChange(x) /\ EscalationTypeOK'
    BY <1>3, EscalationChanges, EscalationsKept
  <2>2. RecordTypeOK'
    <3>1. /\ escalation[x].call \in Calls \cup {"none"} /\ escalation[x].identified \in BOOLEAN
          /\ RecordTypeOK
      BY DEF TypeInv, TypeOK, EscalationTypeOK
    <3>2. callback' \in [Calls -> [required : BOOLEAN,
                                   reason : ValidReasons \cup {"TRANSFER_FAILED", "none"},
                                   ticket : Tickets \cup {NoTicket}]]
      <4>1. CASE callback' = callback
        BY <3>1, <4>1 DEF RecordTypeOK
      <4>2. ASSUME NEW r \in ValidReasons \cup {"none"}, NEW t \in Tickets \cup {NoTicket},
                   RecordCallback(escalation[x].call, r, t)
            PROVE  <3>2
        BY <4>2, CallbackTyped
      <4> QED BY <2>1, <4>1, <4>2 DEF EscalationChange
    <3>3. raised' \in [Tickets -> [exists : BOOLEAN, call : Calls \cup {"none"}, linked : BOOLEAN]]
      BY <2>1, <3>1, RaisedTyped DEF EscalationChange, RecordTypeOK
    <3> QED BY <2>1, <3>1, <3>2, <3>3 DEF EscalationChange, RecordTypeOK
  <2>3. PostCallTypeOK' /\ summary' = summary /\ delivery' = delivery
    BY <2>1 DEF EscalationChange, postCallVars, PostCallTypeOK, TypeInv, TypeOK
  <2> QED BY <2>1, <2>2, <2>3 DEF TypeInv, TypeOK
<1>4. ASSUME NEW d \in Deliveries, DeliveryMove(d) PROVE TypeInv'
  <2>1. DeliveryChange(d)
    BY <1>4, DeliveryChanges
  <2>2. RecordTypeOK'
    <3>1. RecordTypeOK
      BY DEF TypeInv, TypeOK
    <3>2. callback' \in [Calls -> [required : BOOLEAN,
                                   reason : ValidReasons \cup {"TRANSFER_FAILED", "none"},
                                   ticket : Tickets \cup {NoTicket}]]
      BY <2>1, <3>1, CallbackTyped DEF DeliveryChange, RecordTypeOK
    <3>3. claimed' \subseteq Calls
      BY <2>1, <3>1 DEF DeliveryChange, RecordTypeOK
    <3> QED BY <2>1, <3>1, <3>2, <3>3 DEF DeliveryChange, RecordTypeOK
  <2>3. EscalationTypeOK'
    BY <2>1 DEF DeliveryChange, EscalationTypeOK, TypeInv, TypeOK
  <2>4. delivery' \in [Deliveries -> DeliveryType]
    BY <2>1 DEF DeliveryChange, TypeInv
  <2>5. ended' \in [Calls -> {Nothing} \cup [over : {TRUE}, payload : Payloads]]
    BY <2>1 DEF DeliveryChange, TypeInv, TypeOK, PostCallTypeOK
  <2>6. /\ performance' \in [Calls -> {Unwritten} \cup [outcome : Outcomes, customer : BOOLEAN]]
        /\ history' \in [Calls -> Outcomes \cup {NoOutcome}]
        /\ metrics' \in [Calls -> Outcomes \cup {NoOutcome}]
    <3>1. PICK o \in Outcomes : o = Outcome(Payload(d))
      BY OutcomeIsKnown
    <3> HIDE DEF Outcomes
    <3>2. performance' \in [Calls -> {Unwritten} \cup [outcome : Outcomes, customer : BOOLEAN]]
      <4> DEFINE P == {Unwritten} \cup [outcome : Outcomes, customer : BOOLEAN]
      <4>1. performance \in [Calls -> P]
        BY DEF TypeInv, TypeOK, PostCallTypeOK
      <4>2. PICK r \in P : r = [outcome |-> o, customer |-> delivery[d].call \in verified]
        <5>1. PICK b \in BOOLEAN : b = (delivery[d].call \in verified)
          <6>1. CASE delivery[d].call \in verified
            BY <6>1, (delivery[d].call \in verified) = TRUE
          <6>2. CASE delivery[d].call \notin verified
            BY <6>2, (delivery[d].call \in verified) = FALSE
          <6> QED BY <6>1, <6>2
        <5>2. [outcome |-> o, customer |-> b] \in P
          OBVIOUS
        <5> HIDE DEF P
        <5> QED BY <5>1, <5>2
      <4> HIDE DEF P
      <4>3. \/ performance' = performance
            \/ performance' = [performance EXCEPT ![delivery[d].call] = r]
        BY <1>4, <3>1, <4>2, DeliveryWrites DEF StorePerformance
      <4>4. performance' \in [Calls -> P]
        BY <4>1, <4>3
      <4> QED BY <4>4 DEF P
    <3>3. history' \in [Calls -> Outcomes \cup {NoOutcome}]
      BY <1>4, <3>1, DeliveryWrites DEF RecordHistory, TypeInv, TypeOK, PostCallTypeOK
    <3>4. metrics' \in [Calls -> Outcomes \cup {NoOutcome}]
      BY <1>4, <3>1, DeliveryWrites DEF StoreMetrics, TypeInv, TypeOK, PostCallTypeOK
    <3> QED BY <3>2, <3>3, <3>4
  <2>7. preferred' \in Languages
    <3>1. CASE PersistPreferences(d)
      <4>1. Payload(d) \in Payloads
        BY <3>1, CallAtWork DEF PersistPreferences, Working, Steps
      <4> QED BY <3>1, <4>1, PostCallAssumption
                 DEF PersistPreferences, TypeInv, TypeOK, PostCallTypeOK
    <3>2. CASE preferred' = preferred
      BY <3>2 DEF TypeInv, TypeOK, PostCallTypeOK
    <3> QED BY <1>4, <3>1, <3>2, DeliveryWrites
  <2>8. summary' \in [version : Nat, sources : Seq(Calls)] /\ Len(summary'.sources) <= SourcesKept
    <3>1. CASE summary' = summary
      BY <3>1 DEF TypeInv, TypeOK, PostCallTypeOK
    <3>2. CASE Fold(d) /\ summary' # summary
      <4>1. delivery[d].pc = "fold" /\ delivery[d].version = summary.version
            /\ summary' = Folded(d)
        BY <3>2 DEF Fold
      <4>2. /\ Folded(d) \in [version : Nat, sources : Seq(Calls)]
            /\ Len(Folded(d).sources) = IF Len(summary.sources) < SourcesKept
                                        THEN Len(summary.sources) + 1 ELSE SourcesKept
        BY <4>1, FoldIsSummary
      <4>3. Len(summary.sources) \in Nat /\ SourcesKept \in Nat
        BY LenProperties, PostCallAssumption DEF TypeInv, TypeOK, PostCallTypeOK
      <4> QED BY <4>1, <4>2, <4>3
    <3> QED BY <1>4, <3>1, <3>2, DeliveryWrites DEF Fold
  <2>9. PostCallTypeOK'
    BY <2>4, <2>5, <2>6, <2>7, <2>8 DEF PostCallTypeOK, DeliveryType
  <2> QED BY <2>2, <2>3, <2>4, <2>8, <2>9 DEF TypeInv, TypeOK
<1>5. ASSUME NEW c \in Calls, NEW payload \in Payloads, EndCall(c, payload), UNCHANGED escalation
      PROVE  TypeInv'
  <2>1. ended' \in [Calls -> {Nothing} \cup [over : {TRUE}, payload : Payloads]]
    BY <1>5 DEF EndCall, TypeInv, TypeOK, PostCallTypeOK
  <2> QED BY <1>5, <2>1 DEF EndCall, recordVars, TypeInv, TypeOK, RecordTypeOK, EscalationTypeOK,
                            PostCallTypeOK
<1> QED
  BY <1>1, <1>2, <1>3, <1>4, <1>5, StepsAreThese

\* Nothing but an escalation touches what an escalation knows; callbacks stay
\* required and verified calls verified.
LEMMA EscalationsStay ==
  ASSUME IInv, [Next]_vars
  PROVE  EscalationInv'
<1> USE DEF IInv
<1>1. ASSUME NEW x \in Escalations, EscalationMove(x) PROVE EscalationInv'
  BY <1>1, EscalationsKept
<1>2. ASSUME UNCHANGED <<escalation, raised>>, verified \subseteq verified',
             \A c \in Calls : callback[c].required => callback'[c].required
      PROVE  EscalationInv'
  BY <1>2 DEF EscalationInv, EscalationOK, Authorized
<1>3. ASSUME NEW d \in Deliveries, DeliveryMove(d) PROVE EscalationInv'
  <2>1. DeliveryChange(d)
    BY <1>3, DeliveryChanges
  <2>2. \A c \in Calls : callback[c].required => callback'[c].required
    BY <2>1 DEF DeliveryChange, RecordCallback, TypeInv, TypeOK, RecordTypeOK
  <2> QED BY <1>2, <2>1, <2>2 DEF DeliveryChange
<1>4. CASE UNCHANGED vars
  BY <1>2, <1>4 DEF vars, recordVars
<1>5. ASSUME NEW c \in Calls, CallStep(c) PROVE EscalationInv'
  BY <1>2, <1>5 DEF CallStep, Verify
<1>6. ASSUME NEW c \in Calls, NEW payload \in Payloads, EndCall(c, payload), UNCHANGED escalation
      PROVE  EscalationInv'
  BY <1>2, <1>6 DEF EndCall, recordVars
<1> QED BY <1>1, <1>3, <1>4, <1>5, <1>6, StepsAreThese

\* Calls that are over stay so, claimed ones claimed.
LEMMA OverIsForGood ==
  ASSUME TypeInv, [Next]_vars
  PROVE  \A c \in Calls : ended[c].over => ended'[c] = ended[c]
<1>1. ASSUME NEW c \in Calls, NEW payload \in Payloads, EndCall(c, payload)
      PROVE  \A e \in Calls : ended[e].over => ended'[e] = ended[e]
  <2>1. ended' = [ended EXCEPT ![c] = [over |-> TRUE, payload |-> payload]]
        /\ ended[c] = Nothing /\ Nothing.over = FALSE
    BY <1>1 DEF EndCall, Nothing
  <2>2. ended \in [Calls -> {Nothing} \cup [over : {TRUE}, payload : Payloads]]
    BY DEF TypeInv, TypeOK, PostCallTypeOK
  <2> QED BY <2>1, <2>2
<1>2. UNCHANGED ended \/ \E c \in Calls, payload \in Payloads : EndCall(c, payload)
  BY DEF Next, vars, ToolCalls, postCallVars, PostCallNext, DeliveryStep, Claim, AnswerDuplicate,
         ClaimFails, StorePerformance, RecordHistory, StoreMetrics, ReadSummary, Fold,
         PersistPreferences, ReconcileTransfer, FailStep, CrashDelivery
<1> QED BY <1>1, <1>2

\* One delivery works on a call, and has claimed it.
LEMMA ClaimsKept ==
  ASSUME IInv, [Next]_vars
  PROVE  ClaimInv'
<1> USE DEF IInv
<1>1. \A c \in Calls : ended[c].over => ended'[c].over
  BY OverIsForGood
<1>2. claimed \subseteq Calls
  BY DEF TypeInv, TypeOK, RecordTypeOK
<1>3. ASSUME UNCHANGED <<claimed, delivery>> PROVE ClaimInv'
  BY <1>1, <1>2, <1>3 DEF ClaimInv, Claims, Working
<1>4. ASSUME NEW d \in Deliveries, DeliveryMove(d) PROVE ClaimInv'
  <2> DEFINE old == delivery[d]
             new == delivery'[d]
  <2>1. DeliveryChange(d)
    BY <1>4, DeliveryChanges
  <2>2. /\ ended' = ended /\ claimed \subseteq claimed'
        /\ \A e \in Deliveries : e # d => delivery'[e] = delivery[e]
    BY <2>1 DEF DeliveryChange, TypeInv
  <2>3. \A c \in claimed' : ended'[c].over
    BY <2>1, <2>2 DEF DeliveryChange, ClaimInv
  <2>4. ASSUME NEW e \in Deliveries, e # d
        PROVE  /\ Working(e)' = Working(e) /\ Claims(e)' = Claims(e)
               /\ delivery'[e] = delivery[e]
    BY <2>2, <2>4 DEF Working, Claims
  <2>5. /\ new.pc # "done" => new.reply = "none"
        /\ Claims(d)' => new.call \in claimed'
        /\ Working(d)' => (Working(d) /\ new.call = old.call) \/ new.call \notin claimed
    <3>1. CASE old.pc = "idle" /\ new.call \notin claimed /\ new.call \in claimed'
               /\ new.pc = "performance" /\ new.reply = "none"
      BY <3>1
    <3>2. CASE old.pc = "idle" /\ new.pc = "done" /\ new.reply \in {"DUPLICATE", "ERROR"}
      BY <3>2 DEF Claims, Working, Steps
    <3>3. CASE Working(d) /\ new.call = old.call
               /\ new.pc \in (Steps \cup {"fold"}) \ {"performance"} /\ new.reply = old.reply
      BY <2>2, <3>3 DEF ClaimInv, Claims, Working, Steps
    <3>4. CASE Working(d) /\ new.call = old.call /\ new.pc = "done" /\ new.reply \in {"OK", "ERROR"}
      BY <2>2, <3>4 DEF ClaimInv, Claims, Working, Steps
    <3> QED BY <2>1, <3>1, <3>2, <3>3, <3>4 DEF DeliveryChange
  <2>6. \A e \in Deliveries :
          /\ delivery'[e].pc # "done" => delivery'[e].reply = "none"
          /\ Claims(e)' => delivery'[e].call \in claimed'
    <3> SUFFICES ASSUME NEW e \in Deliveries
                 PROVE  /\ delivery'[e].pc # "done" => delivery'[e].reply = "none"
                        /\ Claims(e)' => delivery'[e].call \in claimed'
      OBVIOUS
    <3>1. CASE e = d
      BY <2>5, <3>1
    <3>2. CASE e # d
      BY <2>2, <2>4, <3>2 DEF ClaimInv
    <3> QED BY <3>1, <3>2
  <2>7. ASSUME NEW e \in Deliveries, NEW f \in Deliveries,
               Working(e)', Working(f)', delivery'[e].call = delivery'[f].call
        PROVE  e = f
    <3>1. ASSUME NEW g \in Deliveries, g # d, Working(g)', Working(d)'
          PROVE  delivery'[g].call # new.call
      <4>1. Working(g) /\ delivery'[g].call = delivery[g].call /\ delivery[g].call \in claimed
        BY <2>4, <3>1 DEF ClaimInv, Claims
      <4>2. CASE new.call \notin claimed
        BY <4>1, <4>2
      <4>3. CASE Working(d) /\ new.call = old.call
        BY <3>1, <4>1, <4>3 DEF ClaimInv
      <4> QED BY <2>5, <3>1, <4>2, <4>3
    <3>2. CASE e # d /\ f # d
      BY <2>4, <2>7, <3>2 DEF ClaimInv
    <3> QED BY <2>7, <3>1, <3>2
  <2> QED BY <2>3, <2>6, <2>7 DEF ClaimInv
<1>5. CASE UNCHANGED vars
  BY <1>3, <1>5 DEF vars, recordVars, postCallVars
<1>6. ASSUME NEW c \in Calls, CallStep(c) PROVE ClaimInv'
  BY <1>3, <1>6 DEF CallStep, Verify, postCallVars
<1>7. ASSUME NEW x \in Escalations, EscalationMove(x) PROVE ClaimInv'
  BY <1>3, <1>7, EscalationChanges DEF EscalationChange, postCallVars
<1>8. ASSUME NEW c \in Calls, NEW payload \in Payloads, EndCall(c, payload) PROVE ClaimInv'
  BY <1>3, <1>8 DEF EndCall, recordVars
<1> QED BY <1>4, <1>5, <1>6, <1>7, <1>8, StepsAreThese

\* How far a step brings a delivery: it has its call still to fold only if it
\* had, or has just claimed it; and what it has read, it read in that step.
LEMMA FoldingPcs ==
  ASSUME TypeInv, ClaimInv, NEW d \in Deliveries, DeliveryMove(d)
  PROVE  /\ Unfolded(d)' =>
              \/ Unfolded(d) /\ delivery'[d].call = delivery[d].call /\ delivery[d].pc # "fold"
              \/ delivery'[d].call \notin claimed
         /\ delivery'[d].pc = "fold" =>
              ReadSummary(d) /\ delivery'[d].version = summary.version
                             /\ delivery'[d].sources = summary.sources
<1> DEFINE old == delivery[d]
           new == delivery'[d]
<1>1. delivery \in [Deliveries -> DeliveryType]
  BY DEF TypeInv
<1>2. ASSUME NEW c \in Calls, Claim(d, c) PROVE new.call \notin claimed /\ new.pc = "performance"
  BY <1>1, <1>2 DEF Claim, DeliveryType
<1>3. ASSUME NEW c \in Calls, AnswerDuplicate(d, c) \/ ClaimFails(d, c) PROVE new.pc = "done"
  BY <1>1, <1>3 DEF AnswerDuplicate, ClaimFails, DeliveryType
<1>4. CASE StorePerformance(d) \/ RecordHistory(d) \/ StoreMetrics(d)
  <2>1. /\ old.pc \in {"performance", "history", "metrics"}
        /\ new.pc \in {"history", "metrics", "summary"} /\ new.call = old.call
    BY <1>1, <1>4 DEF StorePerformance, RecordHistory, StoreMetrics, Complete, DeliveryType
  <2> QED BY <2>1 DEF Unfolded
<1>5. CASE ReadSummary(d)
  <2>1. CASE Payload(d).known
    <3>1. new = [old EXCEPT !.pc = "fold", !.version = summary.version, !.sources = summary.sources]
      BY <1>1, <1>5, <2>1 DEF ReadSummary
    <3>2. new.call = old.call /\ new.version = summary.version /\ new.sources = summary.sources
      BY <1>1, <3>1 DEF DeliveryType
    <3> QED BY <1>5, <3>2 DEF ReadSummary, Unfolded
  <2>2. CASE ~Payload(d).known
    BY <1>1, <1>5, <2>2 DEF ReadSummary, DeliveryType, Unfolded
  <2> QED BY <2>1, <2>2
<1>6. CASE Fold(d) \/ PersistPreferences(d) \/ ReconcileTransfer(d) \/ CrashDelivery(d)
  <2>1. new.pc \in {"preferences", "transfer", "done"}
    BY <1>1, <1>6 DEF Fold, FoldDone, PersistPreferences, Complete, ReconcileTransfer,
                      CrashDelivery, DeliveryType
  <2> QED BY <2>1 DEF Unfolded
<1>7. CASE FailStep(d)
  <2>1. new.pc = Following(old.pc) /\ new.call = old.call
    BY <1>1, <1>7 DEF FailStep, DeliveryType
  <2>2. Following(old.pc) \in {"history", "metrics", "summary", "preferences", "transfer", "done"}
        /\ (Following(old.pc) \in {"history", "metrics", "summary"} =>
              old.pc \in {"performance", "history", "metrics"})
    BY <1>7 DEF FailStep, Following, Steps
  <2> QED BY <2>1, <2>2 DEF Unfolded
<1> QED BY <1>2, <1>3, <1>4, <1>5, <1>6, <1>7 DEF DeliveryMove, DeliveryStep, Unfolded

\* The summary holds claimed calls, once each, and a delivery that read it as it
\* is has read what is in it.
LEMMA SummaryKept ==
  ASSUME IInv, [Next]_vars
  PROVE  SummaryInv'
<1> USE DEF IInv
<1>1. ASSUME UNCHANGED <<summary, delivery, claimed>> PROVE SummaryInv'
  BY <1>1 DEF SummaryInv, Unfolded, NoRepeat
<1>2. ASSUME NEW d \in Deliveries, DeliveryMove(d) PROVE SummaryInv'
  <2>1. DeliveryChange(d) /\ delivery \in [Deliveries -> DeliveryType]
    BY <1>2, DeliveryChanges DEF TypeInv
  <2>2. claimed \subseteq claimed' /\ \A e \in Deliveries : e # d => delivery'[e] = delivery[e]
    BY <2>1 DEF DeliveryChange
  <2>3. summary.version \in Nat /\ Len(summary.sources) \in Nat /\ SourcesKept \in Nat
    BY LenProperties, PostCallAssumption DEF TypeInv
  <2>4. CASE summary' = summary
    <3>1. ASSUME NEW e \in Deliveries, Unfolded(e)'
          PROVE  delivery'[e].call \notin Range(summary.sources)
      <4>1. CASE e # d
        BY <2>2, <3>1, <4>1 DEF SummaryInv, Unfolded
      <4>2. CASE e = d
        BY <1>2, <3>1, <4>2, FoldingPcs DEF SummaryInv
      <4> QED BY <4>1, <4>2
    <3>2. ASSUME NEW e \in Deliveries, delivery'[e].pc = "fold"
          PROVE  /\ delivery'[e].version <= summary.version
                 /\ delivery'[e].version = summary.version => delivery'[e].sources = summary.sources
      <4>1. CASE e # d
        BY <2>2, <3>2, <4>1 DEF SummaryInv
      <4>2. CASE e = d
        BY <1>2, <2>3, <3>2, <4>2, FoldingPcs
      <4> QED BY <4>1, <4>2
    <3>3. Range(summary.sources) \subseteq claimed'
      BY <2>2 DEF SummaryInv
    <3> HIDE DEF IInv
    <3> QED BY <2>4, <3>1, <3>2, <3>3 DEF SummaryInv, IInv, NoRepeat
  <2>5. CASE summary' # summary
    <3>1. Fold(d)
      BY <1>2, <2>5, DeliveryWrites
    <3>2. delivery[d].pc = "fold" /\ delivery[d].version = summary.version /\ summary' = Folded(d)
      BY <2>5, <3>1 DEF Fold
    <3> DEFINE c == delivery[d].call
               s == summary.sources
               r == summary'.sources
    <3>3. /\ summary'.version = summary.version + 1
          /\ Len(r) = IF Len(s) < SourcesKept THEN Len(s) + 1 ELSE SourcesKept
          /\ NoRepeat(r)
          /\ Range(r) \subseteq {c} \cup Range(s)
      BY <3>2, FoldIsSummary
    <3>4. /\ summary'.version >= Len(r)
          /\ Len(r) < SourcesKept => summary'.version = Len(r)
      BY <2>3, <3>3 DEF SummaryInv, TypeInv, TypeOK, PostCallTypeOK
    <3>5. Range(r) \subseteq claimed'
      <4>1. c \in claimed
        BY <3>2 DEF ClaimInv, Claims, Working
      <4> QED BY <2>2, <3>3, <4>1 DEF SummaryInv
    <3>6. delivery'[d].pc = "preferences"
      BY <2>1, <3>1 DEF Fold, FoldDone, DeliveryType
    <3>7. ASSUME NEW e \in Deliveries, Unfolded(e)' PROVE delivery'[e].call \notin Range(r)
      <4>1. e # d
        BY <3>6, <3>7 DEF Unfolded
      <4>2. delivery'[e] = delivery[e] /\ Unfolded(e)
        BY <2>2, <3>7, <4>1 DEF Unfolded
      <4>3. delivery[e].call # c
        BY <3>2, <4>1, <4>2 DEF ClaimInv, Working, Unfolded, Steps
      <4> QED BY <3>3, <4>2, <4>3 DEF SummaryInv
    <3>8. ASSUME NEW e \in Deliveries, delivery'[e].pc = "fold"
          PROVE  /\ delivery'[e].version <= summary'.version
                 /\ delivery'[e].version # summary'.version
      <4>1. e # d
        BY <3>6, <3>8
      <4>2. delivery'[e] = delivery[e] /\ delivery[e].version <= summary.version
            /\ delivery[e].version \in Nat
        BY <2>1, <2>2, <3>8, <4>1 DEF SummaryInv, DeliveryType
      <4> QED BY <2>3, <3>3, <4>2
    <3> HIDE DEF IInv
    <3>9. NoRepeat(summary.sources)'
      BY <3>3 DEF NoRepeat
    <3> QED BY <3>4, <3>5, <3>7, <3>8, <3>9 DEF SummaryInv
  <2> QED BY <2>4, <2>5
<1>3. CASE UNCHANGED vars
  BY <1>1, <1>3 DEF vars, recordVars, postCallVars
<1>4. ASSUME NEW c \in Calls, CallStep(c) PROVE SummaryInv'
  BY <1>1, <1>4 DEF CallStep, Verify, postCallVars
<1>5. ASSUME NEW x \in Escalations, EscalationMove(x) PROVE SummaryInv'
  BY <1>1, <1>5, EscalationChanges DEF EscalationChange, postCallVars
<1>6. ASSUME NEW c \in Calls, NEW payload \in Payloads, EndCall(c, payload) PROVE SummaryInv'
  BY <1>1, <1>6 DEF EndCall, recordVars
<1> QED BY <1>2, <1>3, <1>4, <1>5, <1>6, StepsAreThese

\* Whether a call was verified is settled when it is over.
LEMMA VerifiedIsSettled ==
  ASSUME IInv, [Next]_vars
  PROVE  \A c \in Calls : ended[c].over => (c \in verified' <=> c \in verified)
<1>1. ASSUME NEW c \in Calls, CallStep(c) PROVE verified' = verified \cup {c} /\ ~ended[c].over
  BY <1>1 DEF CallStep, Verify
<1>2. ASSUME NEW d \in Deliveries, DeliveryMove(d) PROVE verified' = verified
  BY <1>2, DeliveryChanges DEF IInv, DeliveryChange
<1>3. ASSUME NEW x \in Escalations, EscalationMove(x) PROVE verified' = verified
  BY <1>3, EscalationChanges DEF IInv, EscalationChange
<1> QED BY <1>1, <1>2, <1>3, StepsAreThese DEF vars, recordVars, EndCall

\* What is on record of a call stays, and was written once it was over.
LEMMA RecordsKept ==
  ASSUME IInv, [Next]_vars
  PROVE  RecordInv'
<1> USE DEF IInv
<1>0. \A c \in Calls : ended[c].over =>
        ended'[c] = ended[c] /\ (c \in verified') = (c \in verified)
  BY OverIsForGood, VerifiedIsSettled
<1>1. ASSUME NEW c \in Calls, performance'[c] = performance[c], performance'[c] # Unwritten
      PROVE  /\ ended'[c].over
             /\ performance'[c].outcome = Outcome(ended'[c].payload)
             /\ performance'[c].customer = (c \in verified')
  BY <1>0, <1>1 DEF RecordInv
<1>2. CASE performance' = performance
  BY <1>1, <1>2 DEF RecordInv
<1>3. ASSUME NEW d \in Deliveries, DeliveryMove(d), performance' # performance PROVE RecordInv'
  <2> DEFINE c == delivery[d].call
  <2>1. StorePerformance(d)
    BY <1>3, DeliveryWrites
  <2>2. performance' = [performance EXCEPT ![c] = [outcome |-> Outcome(Payload(d)),
                                                   customer |-> c \in verified]]
        /\ UNCHANGED <<verified, ended>>
    BY <1>3, <2>1 DEF StorePerformance, recordVars
  <2>3. c \in Calls /\ ended[c].over
    BY <2>1, CallAtWork DEF StorePerformance, Working, Steps
  <2>4. performance \in [Calls -> {Unwritten} \cup [outcome : Outcomes, customer : BOOLEAN]]
    BY DEF TypeInv, TypeOK, PostCallTypeOK
  <2>5. /\ performance'[c] = [outcome |-> Outcome(Payload(d)), customer |-> c \in verified]
        /\ \A e \in Calls : e # c => performance'[e] = performance[e]
    BY <2>2, <2>3, <2>4
  <2>6. performance'[c].outcome = Outcome(ended[c].payload)
        /\ performance'[c].customer = (c \in verified)
    BY <2>5 DEF Payload
  <2> SUFFICES ASSUME NEW e \in Calls, performance'[e] # Unwritten
               PROVE  /\ ended'[e].over
                      /\ performance'[e].outcome = Outcome(ended'[e].payload)
                      /\ performance'[e].customer = (e \in verified')
    BY DEF RecordInv
  <2>7. CASE e = c
    BY <2>2, <2>3, <2>6, <2>7
  <2>8. CASE e # c
    BY <1>1, <2>5, <2>8
  <2> QED BY <2>7, <2>8
<1>4. CASE UNCHANGED vars
  BY <1>2, <1>4 DEF vars, postCallVars
<1>5. ASSUME NEW c \in Calls, CallStep(c) PROVE RecordInv'
  BY <1>2, <1>5 DEF CallStep, postCallVars
<1>6. ASSUME NEW x \in Escalations, EscalationMove(x) PROVE RecordInv'
  BY <1>2, <1>6 DEF EscalationMove, postCallVars
<1>7. ASSUME NEW c \in Calls, NEW payload \in Payloads, EndCall(c, payload) PROVE RecordInv'
  BY <1>2, <1>7 DEF EndCall
<1> QED BY <1>2, <1>3, <1>4, <1>5, <1>6, <1>7, StepsAreThese

\* What is on record is not taken off it, and the history of a call is only
\* written with what the call was.
LEMMA OnRecordForGood ==
  ASSUME IInv, [Next]_vars
  PROVE  \A c \in Calls :
           /\ performance[c] # Unwritten => performance'[c] # Unwritten
           /\ history'[c] = history[c] \/ history'[c] = Outcome(ended[c].payload)
           /\ callback[c].required => callback'[c].required
<1> USE DEF IInv
<1> DEFINE Good == \A c \in Calls :
             /\ performance[c] # Unwritten => performance'[c] # Unwritten
             /\ history'[c] = history[c] \/ history'[c] = Outcome(ended[c].payload)
             /\ callback[c].required => callback'[c].required
<1>1. /\ performance \in [Calls -> {Unwritten} \cup [outcome : Outcomes, customer : BOOLEAN]]
      /\ history \in [Calls -> Outcomes \cup {NoOutcome}]
      /\ callback \in [Calls -> [required : BOOLEAN,
                                 reason : ValidReasons \cup {"TRANSFER_FAILED", "none"},
                                 ticket : Tickets \cup {NoTicket}]]
  BY DEF TypeInv, TypeOK, PostCallTypeOK, RecordTypeOK
<1>2. ASSUME NEW d \in Deliveries, DeliveryMove(d) PROVE Good
  <2>1. \A c \in Calls : performance[c] # Unwritten => performance'[c] # Unwritten
    <3>1. CASE performance' = performance
      BY <3>1
    <3>2. CASE StorePerformance(d)
      BY <1>1, <3>2 DEF StorePerformance
    <3> QED BY <1>2, <3>1, <3>2, DeliveryWrites
  <2>2. \A c \in Calls : history'[c] = history[c] \/ history'[c] = Outcome(ended[c].payload)
    <3>1. CASE history' = history
      BY <3>1
    <3>2. CASE RecordHistory(d) /\ history' # history
      <4>1. history' = [history EXCEPT ![delivery[d].call] =
                          Outcome(ended[delivery[d].call].payload)]
        BY <3>2 DEF RecordHistory, Payload
      <4> QED BY <1>1, <4>1
    <3> QED BY <1>2, <3>1, <3>2, DeliveryWrites
  <2>3. \A c \in Calls : callback[c].required => callback'[c].required
    BY <1>1, <1>2, DeliveryChanges DEF DeliveryChange, RecordCallback
  <2> QED BY <2>1, <2>2, <2>3
<1>3. ASSUME NEW x \in Escalations, EscalationMove(x) PROVE Good
  <2>1. UNCHANGED <<performance, history>>
    BY <1>3 DEF EscalationMove, postCallVars
  <2>2. CASE callback' = callback
    BY <2>1, <2>2
  <2>3. ASSUME NEW r, NEW t, RecordCallback(escalation[x].call, r, t) PROVE Good
    BY <1>1, <2>1, <2>3 DEF RecordCallback
  <2> QED BY <1>3, <2>2, <2>3, EscalationChanges DEF EscalationChange
<1>4. ASSUME UNCHANGED <<performance, history, callback>> PROVE Good
  BY <1>4
<1> HIDE DEF Good
<1>5. ASSUME NEW c \in Calls, CallStep(c) PROVE Good
  BY <1>4, <1>5 DEF CallStep, Verify, postCallVars
<1>6. ASSUME NEW c \in Calls, NEW payload \in Payloads, EndCall(c, payload) PROVE Good
  BY <1>4, <1>6 DEF EndCall, recordVars
<1>7. ASSUME UNCHANGED vars PROVE Good
  BY <1>4, <1>7 DEF vars, recordVars, postCallVars
<1>8. Good
  BY <1>2, <1>3, <1>5, <1>6, <1>7, StepsAreThese
<1> QED BY <1>8 DEF Good

\* Each step of a delivery leaves behind what it is for, nothing having failed.
LEMMA CompletionKept ==
  ASSUME IInv, [Next]_vars
  PROVE  CompletionInv'
<1> SUFFICES ASSUME faults' = 0, NEW e \in Deliveries PROVE DeliveryOK(e)'
  BY DEF CompletionInv
<1> USE DEF IInv
<1>0. /\ \A c \in Calls : ended[c].over =>
           ended'[c] = ended[c] /\ (c \in verified') = (c \in verified)
      /\ delivery \in [Deliveries -> DeliveryType]
      /\ faults \in Nat
  BY OverIsForGood, VerifiedIsSettled DEF TypeInv, TypeOK, RecordTypeOK
<1>1. ASSUME faults = 0, delivery'[e] = delivery[e] PROVE DeliveryOK(e)'
  <2>1. CASE PastPerformance(e)
    <3>1. delivery[e].call \in Calls /\ ended[delivery[e].call].over
      BY <2>1 DEF PastPerformance, ClaimInv, Claims, Working, Steps, TypeInv, TypeOK, RecordTypeOK
    <3>2. DeliveryOK(e)
      BY <1>1 DEF CompletionInv
    <3>3. ended'[delivery[e].call] = ended[delivery[e].call]
          /\ (delivery[e].call \in verified') = (delivery[e].call \in verified)
      BY <1>0, <3>1
    <3> QED BY <1>1, <3>1, <3>2, <3>3, OnRecordForGood
            DEF DeliveryOK, PastPerformance, PastHistory, Payload
  <2>2. CASE ~PastPerformance(e)
    BY <1>1, <2>2 DEF DeliveryOK, PastPerformance, PastHistory
  <2> QED BY <2>1, <2>2
<1>2. ASSUME NEW d \in Deliveries, DeliveryMove(d) PROVE DeliveryOK(e)'
  <2>1. DeliveryChange(d) /\ faults = 0
    <3>1. DeliveryChange(d)
      BY <1>2, DeliveryChanges
    <3> QED BY <1>0, <3>1 DEF DeliveryChange
  <2>2. CASE e # d
    BY <1>0, <1>1, <2>1, <2>2 DEF DeliveryChange
  <2>3. CASE e = d
    <3> SUFFICES DeliveryOK(d)'
      BY <2>3
    <3> DEFINE c == delivery[d].call
               new == delivery'[d]
    <3>1. ~Fault
      BY <1>0 DEF Fault
    <3>2. ASSUME NEW b \in Calls, Claim(d, b) \/ AnswerDuplicate(d, b) PROVE DeliveryOK(d)'
      <4>1. new.pc \in {"performance", "done"} /\ new.reply # "OK"
        BY <1>0, <3>2 DEF Claim, AnswerDuplicate, DeliveryType, ClaimInv
      <4> QED BY <4>1 DEF DeliveryOK, PastPerformance, PastHistory
    <3>3. ASSUME Working(d), new.call = c, UNCHANGED <<verified, ended>>,
                 PastPerformance(d)' => PastPerformance(d) \/ performance'[c] # Unwritten,
                 PastHistory(d)' /\ c \in verified =>
                   PastHistory(d) \/ history'[c] = Outcome(ended[c].payload),
                 new.reply = "OK" /\ ended[c].payload.transfer = "failed" => callback'[c].required
          PROVE  DeliveryOK(d)'
      <4>1. DeliveryOK(d)
        BY <2>1 DEF CompletionInv
      <4>2. c \in Calls
        BY <3>3, CallAtWork
      <4>3. PastPerformance(d)' => performance'[c] # Unwritten
        BY <3>3, <4>1, <4>2, OnRecordForGood DEF DeliveryOK
      <4>4. PastHistory(d)' /\ c \in verified => history'[c] = Outcome(ended[c].payload)
        BY <3>3, <4>1, <4>2, OnRecordForGood DEF DeliveryOK
      <4> HIDE DEF IInv
      <4> QED BY <3>3, <4>3, <4>4 DEF DeliveryOK, Payload
    <3>4. ASSUME Working(d) PROVE delivery[d].reply = "none" /\ c \in Calls
      BY <3>4, CallAtWork DEF ClaimInv, Working, Steps
    <3>5. CASE StorePerformance(d)
      <4>1. new.pc = "history" /\ new.call = c /\ new.reply = "none" /\ Working(d) /\ c \in Calls
            /\ UNCHANGED <<verified, ended>>
        BY <1>0, <3>4, <3>5
        DEF StorePerformance, Complete, DeliveryType, recordVars, Working, Steps
      <4>2. performance'[c] # Unwritten
        <5>1. Outcome(Payload(d)) # "none"
          BY OutcomeIsKnown DEF Outcomes
        <5>2. performance \in [Calls -> {Unwritten} \cup [outcome : Outcomes, customer : BOOLEAN]]
          BY DEF TypeInv, TypeOK, PostCallTypeOK
        <5> QED BY <3>5, <4>1, <5>1, <5>2 DEF StorePerformance, Unwritten
      <4> QED BY <3>3, <4>1, <4>2 DEF PastHistory
    <3>6. CASE RecordHistory(d)
      <4>1. new.pc = "metrics" /\ new.call = c /\ new.reply = "none" /\ Working(d) /\ c \in Calls
            /\ UNCHANGED <<verified, ended>> /\ PastPerformance(d)
        BY <1>0, <3>4, <3>6
        DEF RecordHistory, Complete, DeliveryType, recordVars, Working, Steps, PastPerformance
      <4>2. c \in verified => history'[c] = Outcome(ended[c].payload)
        BY <3>6, <4>1 DEF RecordHistory, Payload, TypeInv, TypeOK, PostCallTypeOK
      <4> QED BY <3>3, <4>1, <4>2
    <3>7. CASE StoreMetrics(d) \/ ReadSummary(d) \/ Fold(d) \/ PersistPreferences(d)
      <4>1. Working(d) /\ UNCHANGED <<verified, ended>> /\ PastHistory(d) /\ PastPerformance(d)
        BY <3>7 DEF StoreMetrics, ReadSummary, Fold, PersistPreferences, recordVars, Working,
                    Steps, PastPerformance, PastHistory
      <4>2. new.call = c /\ new.reply = "none"
        <5>1. delivery[d].pc # "idle" /\ new.pc # "done"
          <6>1. CASE StoreMetrics(d) \/ PersistPreferences(d)
            BY <1>0, <6>1 DEF StoreMetrics, PersistPreferences, Complete, DeliveryType
          <6>2. CASE Fold(d)
            BY <1>0, <6>2 DEF Fold, FoldDone, DeliveryType
          <6>3. CASE ReadSummary(d)
            BY <1>0, <6>3 DEF ReadSummary, DeliveryType
          <6> QED BY <3>7, <6>1, <6>2, <6>3
        <5> QED BY <2>1, <3>4, <4>1, <5>1 DEF DeliveryChange
      <4> QED BY <3>3, <4>1, <4>2
    <3>8. CASE ReconcileTransfer(d)
      <4>1. Working(d) /\ UNCHANGED <<verified, ended>> /\ PastHistory(d) /\ PastPerformance(d)
        BY <3>8 DEF ReconcileTransfer, Working, Steps, PastPerformance, PastHistory
      <4>2. new.call = c /\ c \in Calls
        BY <1>0, <3>4, <3>8, <4>1 DEF ReconcileTransfer, DeliveryType
      <4>3. ended[c].payload.transfer = "failed" => callback'[c].required
        BY <3>8, <4>2 DEF ReconcileTransfer, TransferFailed, Payload, RecordCallback,
                          TypeInv, TypeOK, RecordTypeOK
      <4> QED BY <3>3, <4>1, <4>2, <4>3
    <3> QED
      BY <1>2, <2>3, <3>1, <3>2, <3>5, <3>6, <3>7, <3>8
      DEF DeliveryMove, DeliveryStep, ClaimFails, FailStep, CrashDelivery
  <2> QED BY <2>2, <2>3
<1>3. ASSUME delivery' = delivery, faults <= faults' PROVE DeliveryOK(e)'
  BY <1>0, <1>1, <1>3
<1>4. CASE UNCHANGED vars
  BY <1>0, <1>3, <1>4 DEF vars, recordVars, postCallVars
<1>5. ASSUME NEW c \in Calls, CallStep(c) PROVE DeliveryOK(e)'
  BY <1>0, <1>3, <1>5 DEF CallStep, Verify, postCallVars
<1>6. ASSUME NEW x \in Escalations, EscalationMove(x) PROVE DeliveryOK(e)'
  BY <1>3, <1>6, EscalationChanges DEF EscalationChange, postCallVars
<1>7. ASSUME NEW c \in Calls, NEW payload \in Payloads, EndCall(c, payload) PROVE DeliveryOK(e)'
  BY <1>0, <1>3, <1>7 DEF EndCall, recordVars
<1> QED BY <1>2, <1>4, <1>5, <1>6, <1>7, StepsAreThese

-----------------------------------------------------------------------------
(* The theorems.                                                           *)

\* Every behaviour starts where the invariant holds.
LEMMA InvariantHoldsAtFirst == Init => IInv
<1> SUFFICES ASSUME Init PROVE IInv
  OBVIOUS
<1> USE DEF Init, RecordInit, EscalationInit, PostCallInit
<1>1. <<>> \in Seq(Calls) /\ Len(<<>>) = 0 /\ Range(<<>>) = {}
  BY EmptySeq DEF Range
<1>2. RecordTypeOK
  BY CallRecordAssumption DEF RecordTypeOK, NoCallback, NotRaised
<1>3. EscalationTypeOK
  BY DEF EscalationTypeOK, NewEscalation, EscalationPcs, EscalationReplies
<1>4. delivery \in [Deliveries -> DeliveryType]
  BY <1>1 DEF DeliveryType, NewDelivery, DeliveryPcs
<1>5. PostCallTypeOK /\ summary \in [version : Nat, sources : Seq(Calls)]
  BY <1>1, <1>4, PostCallAssumption DEF PostCallTypeOK, DeliveryType
<1>6. TypeInv
  BY <1>2, <1>3, <1>4, <1>5 DEF TypeInv, TypeOK
<1>7. EscalationInv
  BY DEF EscalationInv, EscalationOK, NewEscalation, NotRaised
<1>8. ClaimInv
  BY DEF ClaimInv, Claims, Working, NewDelivery, Steps
<1>9. SummaryInv
  BY <1>1, PostCallAssumption DEF SummaryInv, NoRepeat, Unfolded, NewDelivery
<1>10. RecordInv
  BY DEF RecordInv
<1>11. CompletionInv
  BY DEF CompletionInv, DeliveryOK, PastPerformance, PastHistory, NewDelivery
<1> QED BY <1>6, <1>7, <1>8, <1>9, <1>10, <1>11 DEF IInv

\* Every step keeps the inductive invariant.
LEMMA InvariantIsKept == IInv /\ [Next]_vars => IInv'
BY TypesKept, EscalationsStay, ClaimsKept, SummaryKept, RecordsKept, CompletionKept DEF IInv

\* The inductive invariant holds, whatever escalations, deliveries and failures
\* interleave.
THEOREM InvariantIsInvariant == Spec => []IInv
BY InvariantHoldsAtFirst, InvariantIsKept, PTL DEF Spec

\* Every variable keeps its type (CallRecord, Escalation, PostCall).
THEOREM TypesAreKept == Spec => []TypeOK
<1>1. IInv => TypeOK
  BY DEF IInv, TypeInv
<1> QED BY <1>1, InvariantIsInvariant, PTL

\* Whoever was told callback_created is owed a callback from then on, whatever
\* the webhook writes on the row afterwards (FR-020).
THEOREM PromisesAreKept == Spec => []PromisedIsOwed
<1>1. IInv => PromisedIsOwed
  BY DEF IInv, EscalationInv, EscalationOK, PromisedIsOwed
<1> QED BY <1>1, InvariantIsInvariant, PTL

\* Only tickets of verified calls are linked to a contact, and only they are
\* escalated for a reason about the account (FR-019d).
THEOREM UnverifiedGetNothing == Spec => []NothingForTheUnverified
<1>1. IInv => NothingForTheUnverified
  BY DEF IInv, EscalationInv, EscalationOK, Authorized, NothingForTheUnverified
<1> QED BY <1>1, InvariantIsInvariant, PTL

\* A call is folded into the summary at most once, and the version counts the
\* folds, whatever deliveries repeat and overlap (FR-024).
THEOREM CallsAreFoldedOnce == Spec => []FoldedOnce
<1>1. ASSUME IInv PROVE FoldedOnce
  <2>1. summary.sources \in Seq(Calls) /\ NoRepeat(summary.sources)
    BY <1>1 DEF IInv, TypeInv, SummaryInv
  <2>2. Cardinality(Range(summary.sources)) = Len(summary.sources)
    BY <2>1, NoRepeatCounts
  <2> QED BY <1>1, <2>2 DEF IInv, SummaryInv, FoldedOnce
<1> QED BY <1>1, InvariantIsInvariant, PTL

\* A fold forgets no call while there is room: it is made on the summary as it
\* is, or not at all (regenerate_summary, update_if).
THEOREM CallsAreRemembered == Spec => NoCallIsForgotten
<1>1. IInv /\ [Next]_vars =>
        [Len(summary.sources) < SourcesKept =>
           Range(summary.sources) \subseteq Range(summary'.sources)]_summary
  <2> SUFFICES ASSUME IInv, [Next]_vars, summary' # summary, Len(summary.sources) < SourcesKept
               PROVE  Range(summary.sources) \subseteq Range(summary'.sources)
    OBVIOUS
  <2>1. ASSUME NEW d \in Deliveries, DeliveryMove(d)
        PROVE  Range(summary.sources) \subseteq Range(summary'.sources)
    <3>1. delivery[d].pc = "fold" /\ delivery[d].version = summary.version /\ summary' = Folded(d)
      BY <2>1, DeliveryWrites DEF Fold
    <3> QED BY <3>1, FoldIsSummary DEF IInv
  <2>2. ASSUME NEW x \in Escalations, EscalationMove(x) PROVE FALSE
    BY <2>2 DEF EscalationMove, postCallVars
  <2> QED
    BY <2>1, <2>2, StepsAreThese DEF vars, postCallVars, CallStep, EndCall
<1> QED BY <1>1, InvariantIsInvariant, PTL DEF Spec, NoCallIsForgotten

\* A delivery that answers OK and suffered no failure has recorded the callback
\* of a transfer that failed (FR-020).
THEOREM FailedTransfersAreCalledBack == Spec => []FailedTransferIsCalledBack
<1>1. IInv => FailedTransferIsCalledBack
  BY DEF IInv, CompletionInv, DeliveryOK, Completed, FailedTransferIsCalledBack
<1> QED BY <1>1, InvariantIsInvariant, PTL

\* And it has left the call on record: for the reports, and in the history the
\* rules read when it was verified (FR-040).
THEOREM CallsAreRecorded == Spec => []CallsAreOnRecord
<1>1. ASSUME IInv, NEW d \in Deliveries, Completed(d)
      PROVE  LET c == delivery[d].call
             IN  /\ performance[c] # Unwritten
                 /\ c \in verified => history[c] = performance[c].outcome /\ performance[c].customer
  <2> DEFINE c == delivery[d].call
  <2>1. DeliveryOK(d) /\ PastPerformance(d) /\ PastHistory(d)
    BY <1>1 DEF IInv, CompletionInv, ClaimInv, Completed, PastPerformance, PastHistory
  <2>2. c \in Calls
    BY <1>1 DEF IInv, ClaimInv, Claims, Completed, TypeInv, TypeOK, RecordTypeOK
  <2>3. performance[c] # Unwritten
    BY <2>1 DEF DeliveryOK
  <2>4. performance[c].outcome = Outcome(ended[c].payload)
        /\ performance[c].customer = (c \in verified)
    BY <1>1, <2>2, <2>3 DEF IInv, RecordInv
  <2> QED BY <2>1, <2>3, <2>4 DEF DeliveryOK
<1>2. IInv => CallsAreOnRecord
  BY <1>1 DEF CallsAreOnRecord
<1> QED BY <1>2, InvariantIsInvariant, PTL
=============================================================================
