\* Two requests at once, a deletion, a crash.
SPECIFICATION Spec
CONSTANTS
  a1 = a1  a2 = a2  w1 = w1  w2 = w2  None = None
  Accounts = {a1, a2}
  Linked = {a2}
  Imports <- SomeImports
  Ranges <- SomeRanges
  Today = 10
  MonthLength = 4  PayDay = 3  PurchaseDays = 3
  MaxPurchases = 1
  Income = 3  Spend = 1
  Workers = {w1, w2}
  MaxRequests = 2
  MaxCrashes = 1
INVARIANTS ImportsArePrefixes AnswersCount NewestLast
SYMMETRY Symmetry
CHECK_DEADLOCK FALSE
