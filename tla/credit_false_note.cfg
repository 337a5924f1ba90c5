\* A second run over an applied ticket notes that nothing was credited.
SPECIFICATION Spec
CONSTANTS
  e1 = e1
  e2 = e2
  foreign = foreign
  None = None
  NoPayload = NoPayload
  Tickets = {t1}
  Appliers = {a1}
  Conversations = {}
  Requests = {}
  Amounts = {2}
  HandPayloads <- MCOnePayload
  MaxDay = 0
  MaxFaults = 0
  StrongReads = TRUE
  Entries <- MCOneEntryIds
  EntryIds <- MCOneEntryIds
  Billed <- MCOneBilled
  Payloads <- MCOnePayloads
  Disputable = {}
  SeedCredits = {}
  HistoryPatterns <- MCNoPatterns
  CallSignals = {}
  AccountStatuses = {"ACTIVE"}
  MaxPerRequest = 2
  MaxRolling = 3
  WindowDays = 1
  HistoryDays = 1
  LookbackDays = 1
  SearchLimit = 100
PROPERTIES
  RefusalNotesAreTrue
