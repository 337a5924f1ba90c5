\* A question about a payment and a look at the account, while people are verified.
SPECIFICATION Spec
CONSTANTS
  anna = anna
  beat = beat
  acme = acme
  birch = birch
  i1 = i1
  i2 = i2
  i3 = i3
  b1 = b1
  p1 = p1
  p2 = p2
  p3 = p3
  p4 = p4
  p5 = p5
  Nobody = Nobody
  Blank = Blank
  NotSaid = NotSaid
  NoPayment = NoPayment
  Garbled = Garbled
  RequiredFactorCount = 2
  MaxDistinctValues = 2
  MaxAttempts = 2
  PhoneSignificantDigits = 2
  Today <- MCToday
  Calls = {c1}
  Attempts = {v1, v2}
  Checks = {k1}
  Questions = {m1}
  Readings = {x1}
  Contacts <- MCContacts
  Stored <- MCStored
  Language <- MCLanguage
  Said <- MCHeard
  Offers <- MCVisitors
  Numbers <- MCNumbers
  LockWindow = 1
  MaxInvocations = 3
  MaxClock = 0
  MaxFaults = 1
  Invoices = {i1, i2, i3, b1}
  Payments = {p1, p2, p3, p4, p5}
  Invoice <- MCInvoice
  Payment <- MCPayment
  Moving = {i1, p1}
  Claims <- MCClaims
  ToleranceDays = 1
  TypoDistance = 1
  MaxInvoices = 2
  InCrm <- MCInCrm
INVARIANTS
  TypeOK
  MatchesAreForTheVerified
  ContextIsForTheVerified
  MatchIsTheOnlyFit
  TypoIsANearMiss
  OutstandingIsComplete
SYMMETRY DeskSymmetry
CHECK_DEADLOCK FALSE
