\* Three calls to the two identity endpoints, answered at once or in turn.
SPECIFICATION Spec
CONSTANTS
  anna = anna
  beat = beat
  acme = acme
  birch = birch
  i1 = i1
  i2 = i2
  i3 = i3
  b1 = b1
  p1 = p1
  p2 = p2
  p3 = p3
  p4 = p4
  p5 = p5
  Nobody = Nobody
  Blank = Blank
  NotSaid = NotSaid
  NoPayment = NoPayment
  Garbled = Garbled
  RequiredFactorCount = 2
  MaxDistinctValues = 2
  MaxAttempts = 2
  PhoneSignificantDigits = 2
  Today <- MCToday
  Calls = {c1}
  Attempts = {v1, v2, v3}
  Checks = {k1, k2}
  Questions = {}
  Readings = {}
  Contacts <- MCContacts
  Stored <- MCStored
  Language <- MCLanguage
  Said <- MCSaid
  Offers <- MCOffers
  Numbers <- MCUnknown
  LockWindow = 1
  MaxInvocations = 3
  MaxClock = 1
  MaxFaults = 0
  Invoices = {}
  Payments = {}
  Invoice <- MCNoItems
  Payment <- MCNoItems
  Moving = {}
  Claims = {}
  ToleranceDays = 1
  TypoDistance = 1
  MaxInvoices = 2
  InCrm = {}
INVARIANTS
  VerifiedIsProved
  AllowanceHolds
  
  LockIsEarned
  OneRecordPerCall
  GuessingIsEarned
PROPERTIES
  UnlockNeedsTimeOrProof
SYMMETRY DeskSymmetry
CHECK_DEADLOCK FALSE
