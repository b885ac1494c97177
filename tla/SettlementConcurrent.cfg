\* Two workers, every engine: authorisations and cycles interleave.
SPECIFICATION Spec
CONSTANTS
  b1 = b1  c1 = c1  eur = eur
  None = None  w1 = w1  w2 = w2
  Banks = {b1}
  CustomerIds = {c1}
  AccountIds = {1, 2, 3, 4, 5, 9}
  Currencies = {eur}
  Workers = {w1, w2}
  Refs = {1, 2}
  Seed <- Poor
  Amounts = {1, 2}
  MaxAuthorisations = 1
  MaxReconfigurations = 1
  MaxDisruptions = 0
INVARIANTS SuspenseReconciled StatusTellsMoney OverdraftBounded
PROPERTIES KeepsPromise
SYMMETRY WorkerSymmetry
