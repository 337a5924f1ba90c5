\* Two calls of a customer end at once, one cut off while an escalation is under way.
SPECIFICATION Spec
CONSTANTS
  NoTicket = NoTicket
  Calls = {c1, c2}
  Tickets = {t1}
  Escalations = {x1, x2}
  Deliveries = {d1, d2}
  Reasons = {"CUSTOMER_REQUESTED_HUMAN", "INVOICE_DISPUTED"}
  Payloads <- MCPayloads
  Languages = {"en"}
  SourcesKept = 20
  MaxFaults = 1
INVARIANTS
  TypeOK
  
  
  FoldedOnce
  
  
PROPERTIES
  NoCallIsForgotten
SYMMETRY CallSymmetry
CHECK_DEADLOCK FALSE
