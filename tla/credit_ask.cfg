\* Two invocations on one call: what a caller is told and who may ask.
SPECIFICATION Spec
CONSTANTS
  e1 = e1
  e2 = e2
  foreign = foreign
  None = None
  NoPayload = NoPayload
  Tickets = {t1, t2}
  Appliers = {a1}
  Conversations = {c1}
  Requests = {r1, r2}
  Amounts = {1, 2}
  HandPayloads = {}
  MaxDay = 0
  MaxFaults = 1
  StrongReads = FALSE
  Entries <- MCOneEntryIds
  EntryIds <- MCOneEntryIds
  Billed <- MCOneBilled
  Payloads <- MCOnePayloads
  Disputable = {}
  SeedCredits = {}
  HistoryPatterns <- MCPatterns
  CallSignals = {"SUSPECTED_GUESSING"}
  AccountStatuses = {"ACTIVE", "SUSPENDED"}
  MaxPerRequest = 2
  MaxRolling = 3
  WindowDays = 1
  HistoryDays = 1
  LookbackDays = 1
  SearchLimit = 100
INVARIANTS
  TypeOK
  CreditsWereAccepted
  RequestedMeansRaised
  SuspectCallsAskForNothing
SYMMETRY AskSymmetry
CHECK_DEADLOCK FALSE
