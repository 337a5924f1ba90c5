\* One run of the applier at a time and reads that see every write:
\* both ceilings hold exactly, over days, faults, disputes and every kind of ticket.
SPECIFICATION Spec
CONSTANTS
  e1 = e1
  e2 = e2
  foreign = foreign
  None = None
  NoPayload = NoPayload
  Tickets = {t1, t2}
  Appliers = {a1}
  Conversations = {}
  Requests = {}
  Amounts = {1, 2, 3}
  HandPayloads <- MCHandPayloads
  MaxDay = 1
  MaxFaults = 1
  StrongReads = TRUE
  Entries <- MCEntries
  EntryIds <- MCEntryIds
  Billed <- MCBilled
  Payloads <- MCPayloads
  Disputable <- MCOneEntryIds
  SeedCredits <- MCSeed
  HistoryPatterns <- MCNoPatterns
  CallSignals = {}
  AccountStatuses = {"ACTIVE"}
  MaxPerRequest = 2
  MaxRolling = 3
  WindowDays = 0
  HistoryDays = 1
  LookbackDays = 1
  SearchLimit = 100
INVARIANTS
  RollingCeiling
  EntryCeiling
PROPERTIES
  ImplementsPromise
  
SYMMETRY TicketSymmetry
