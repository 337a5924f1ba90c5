----------------------------- MODULE MCCallEnd -----------------------------
(***************************************************************************)
(* Small instances of CallEnd for TLC: payloads chosen so that each rule   *)
(* of performance.outcome decides one of them.                             *)
(***************************************************************************)
EXTENDS CallEnd, TLC

MCPayload(transfer, escalated, cutOff) ==
  [transfer |-> transfer, escalated |-> escalated, cutOff |-> cutOff,
   known |-> TRUE, language |-> "en"]

MCPayloads ==
  {MCPayload("failed", TRUE, TRUE),
   [MCPayload("none", FALSE, TRUE) EXCEPT !.known = FALSE]}

CallSymmetry ==
  Permutations(Calls) \cup Permutations(Deliveries) \cup Permutations(Escalations)
=============================================================================
