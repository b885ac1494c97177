\* One request at a time, every engine: SCA completed again, a restart or a purge; cycles keep being run.
SPECIFICATION FairSpec
CONSTANTS
  b1 = b1  c1 = c1  eur = eur
  None = None  w1 = w1  w2 = w2
  Banks = {b1}
  CustomerIds = {c1}
  AccountIds = {1, 2, 3, 4, 9}
  Currencies = {eur}
  Workers = {w1}
  Refs = {1, 2}
  Seed <- AnyEngine
  Amounts = {1, 2}
  MaxAuthorisations = 2
  MaxReconfigurations = 1
  MaxDisruptions = 1
INVARIANTS SuspenseReconciled SettledOnce
PROPERTIES AwaitingIsCompleted
