\* A run stops between the payment and its invoice.
SPECIFICATION FairSpec
CONSTANTS
  p1 = p1
  p2 = p2
  i1 = i1
  i2 = i2
  foreign = foreign
  NoPayload = NoPayload
  NoTicket = NoTicket
  NoRow = NoRow
  Tickets = {t1}
  Appliers = {a1}
  Proposals = {r1}
  AuthorityMax = 0
  HandPayloads = {}
  MaxFaults = 1
  StrongReads = TRUE
  Payments = {p1, p2}
  Invoices = {i1, i2}
  EntryIds = {p1, i1}
  RowAmount <- MCAmount
  SeedStatus <- MCStatus
  Payloads <- MCPayloads
  MaxDay = 0
  LookbackDays = 1
  SearchLimit = 100
  PaidElsewhere = {}
PROPERTIES
  AllocatedIsSettled
CHECK_DEADLOCK FALSE
