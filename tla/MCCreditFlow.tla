---------------------------- MODULE MCCreditFlow ----------------------------
(***************************************************************************)
(* Small instances of CreditFlow for TLC.  Two invoices, one entry id the  *)
(* customer does not have, amounts on both sides of the limits.            *)
(***************************************************************************)
EXTENDS CreditFlow, TLC

CONSTANTS e1, e2, foreign

MCEntries == {e1, e2}
MCEntryIds == {e1, e2, foreign}
MCBilled == e1 :> 3 @@ e2 :> 2
MCPayloads == [entry : MCEntryIds, amount : Amounts]
MCOneEntryIds == {e1}
MCOneBilled == e1 :> 3
MCOnePayloads == [entry : {e1}, amount : Amounts]

\* Tickets raised outside the endpoint: two that together pass the rolling
\* ceiling, one small enough to be granted twice, one above the per-request
\* limit, one about an unknown charge.
MCHandPayloads ==
  {[entry |-> e1, amount |-> 2], [entry |-> e2, amount |-> 2], [entry |-> e1, amount |-> 1],
   [entry |-> e1, amount |-> 3], [entry |-> foreign, amount |-> 1]}

MCOnePayload == {[entry |-> e1, amount |-> 2]}

\* A credit already on the ledger when the model starts.
MCSeed ==
  {[ticket |-> "seed1", entry |-> e1, amount |-> 1, status |-> "APPROVED", date |-> 0]}

\* Near the ceilings: one small ticket is within them, two are not, a large one
\* never is.
MCSeedNearCeiling ==
  {[ticket |-> "seed1", entry |-> e1, amount |-> 2, status |-> "APPROVED", date |-> 0]}
MCTwoPayloads == {[entry |-> e1, amount |-> 1], [entry |-> e1, amount |-> 2]}

MCNoPatterns == {{}}
MCPatterns == {{}, {"HIGH_CONTACT_FREQUENCY"}}

TicketSymmetry == Permutations(Tickets)
AskSymmetry == Permutations(Tickets) \cup Permutations(Requests)
=============================================================================
