\* A proposal and overlapping runs on one payment wanted twice, with stale reads and a lagging index.
SPECIFICATION Spec
CONSTANTS
  p1 = p1
  p2 = p2
  i1 = i1
  i2 = i2
  foreign = foreign
  NoPayload = NoPayload
  NoTicket = NoTicket
  NoRow = NoRow
  Tickets = {t1, t2}
  Appliers = {a1, a2}
  Proposals = {r1}
  AuthorityMax = 0
  HandPayloads <- MCHandOdd
  MaxFaults = 0
  StrongReads = FALSE
  Payments = {p2}
  Invoices = {i1}
  EntryIds = {p2, i1, foreign}
  RowAmount <- MCPendingAmount
  SeedStatus <- MCPendingStatus
  Payloads <- MCPayloads
  MaxDay = 0
  LookbackDays = 1
  SearchLimit = 100
  PaidElsewhere = {i1}
INVARIANTS
  TypeOK
  
  MovedIsSettled
PROPERTIES
  ImplementsPromise
SYMMETRY RunSymmetry
CHECK_DEADLOCK FALSE
