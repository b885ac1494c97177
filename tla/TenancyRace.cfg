\* Requests one at a time and two at once.
SPECIFICATION Spec
CONSTANTS
  acme = acme  ACME = ACME  other = other  blank = blank
  EUR = EUR  PLN = PLN  pln = pln  de = de  fr = fr  w1 = w1  w2 = w2  None = None
  BankIds = {1, 2, 3, 4, 5}
  Names = {acme, ACME, other, blank}
  Fold <- Folded
  Blank = blank
  Currencies = {EUR, PLN, pln}
  Upper <- UpperCase
  Settings = {de, fr}
  Creations <- SomeCreations
  Updates <- SomeUpdates
  BatchSizes = {2}
  Workers = {w1, w2}
  MaxRequests = 5
INVARIANTS NamesDistinct DeletedLeaveNothing AccountsSupported
PROPERTIES OnlySuppliedChange
SYMMETRY Symmetry
