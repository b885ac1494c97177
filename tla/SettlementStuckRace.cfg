\* A cycle sweeps a payment whose status is not yet recorded.
SPECIFICATION FairSpec
CONSTANTS
  b1 = b1  c1 = c1  eur = eur
  None = None  w1 = w1  w2 = w2
  Banks = {b1}
  CustomerIds = {c1}
  AccountIds = {1, 3, 4, 9}
  Currencies = {eur}
  Workers = {w1, w2}
  Refs = {1}
  Seed <- NettingOpened
  Amounts = {1}
  MaxAuthorisations = 1
  MaxReconfigurations = 0
  MaxDisruptions = 0
PROPERTIES AwaitingIsCompleted
