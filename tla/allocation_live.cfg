\* A fair run, a fault and every kind of ticket: what is accepted is acted on.
SPECIFICATION FairSpec
CONSTANTS
  p1 = p1
  p2 = p2
  i1 = i1
  i2 = i2
  foreign = foreign
  NoPayload = NoPayload
  NoTicket = NoTicket
  NoRow = NoRow
  Tickets = {t1, t2}
  Appliers = {a1}
  Proposals = {r1}
  AuthorityMax = 0
  HandPayloads <- MCHand
  MaxFaults = 1
  StrongReads = TRUE
  Payments = {p1}
  Invoices = {i1, i2}
  EntryIds = {p1, i1}
  RowAmount <- MCOneAmount
  SeedStatus <- MCOneStatus
  Payloads <- MCPayloads
  MaxDay = 0
  LookbackDays = 1
  SearchLimit = 100
  PaidElsewhere = {}

  
PROPERTIES
  AcceptedIsActedOn
CHECK_DEADLOCK FALSE
