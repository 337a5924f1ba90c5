-------------------------- MODULE MCAllocationFlow --------------------------
(***************************************************************************)
(* Small instances of AllocationFlow for TLC: two payments, one of which   *)
(* does not cover the larger invoice, and two invoices.                    *)
(***************************************************************************)
EXTENDS AllocationFlow, TLC

CONSTANTS p1, p2, i1, i2, foreign

MCAmount == p1 :> 3 @@ p2 :> 2 @@ i1 :> 2 @@ i2 :> 1
MCStatus ==
  p1 :> "UNALLOCATED" @@ p2 :> "PENDING" @@ i1 :> "OPEN" @@ i2 :> "OPEN"

MCPayloads ==
  [payment : {p1, p2, NoRow}, invoices : {{}, {i1}, {i1, i2}, {i1, foreign}, {p2}}]

\* Tickets raised outside the endpoint: a payment for both invoices it covers,
\* one that names an unknown row, one that names no invoice, a blank one.
MCHand ==
  {[payment |-> p1, invoices |-> {i1, i2}], [payment |-> p1, invoices |-> {i1, foreign}],
   [payment |-> p1, invoices |-> {}], [payment |-> NoRow, invoices |-> {}]}
MCOneAmount == p1 :> 3 @@ i1 :> 2 @@ i2 :> 1
MCOneStatus == p1 :> "UNALLOCATED" @@ i1 :> "OPEN" @@ i2 :> "OPEN"

\* Beside what the endpoint asks: a ticket that gives the same invoice another
\* payment, of another customer, and one that names the payment itself where
\* its invoice belongs.
MCHandOdd == {[payment |-> p1, invoices |-> {i1}], [payment |-> p2, invoices |-> {p2}]}
MCPendingAmount == p2 :> 2 @@ i1 :> 2
MCPendingStatus == p2 :> "PENDING" @@ i1 :> "OPEN"

RunSymmetry == Permutations(Tickets) \cup Permutations(Appliers)
=============================================================================
