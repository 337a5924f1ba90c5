\* Overlapping runs and a fault: how far the ceilings give way, what reaches the
\* ledger, and that every acceptance is answered.
SPECIFICATION FairSpec
CONSTANTS
  e1 = e1
  e2 = e2
  foreign = foreign
  None = None
  NoPayload = NoPayload
  Tickets = {t1, t2}
  Appliers = {a1, a2}
  Conversations = {}
  Requests = {}
  Amounts = {1, 2}
  HandPayloads <- MCTwoPayloads
  MaxDay = 0
  MaxFaults = 1
  StrongReads = TRUE
  Entries <- MCOneEntryIds
  EntryIds <- MCOneEntryIds
  Billed <- MCOneBilled
  Payloads <- MCOnePayloads
  Disputable = {}
  SeedCredits <- MCSeedNearCeiling
  HistoryPatterns <- MCNoPatterns
  CallSignals = {}
  AccountStatuses = {"ACTIVE"}
  MaxPerRequest = 2
  MaxRolling = 3
  WindowDays = 1
  HistoryDays = 1
  LookbackDays = 1
  SearchLimit = 100
INVARIANTS
  RollingCeiling
  EntryCeiling
  CreditsAreAudited
PROPERTIES
  ImplementsPromise
  AcceptedIsAnswered
