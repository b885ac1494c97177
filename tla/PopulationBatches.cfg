\* Batches, customers created by hand, a deletion and a restart.
SPECIFICATION Spec
CONSTANTS
  w1 = w1  w2 = w2  None = None
  Personas <- SomePersonas
  Supported <- SomeSupported
  Names = {"jane", "joe"}
  Batches <- SomeBatches
  ManualEmails <- AtExample
  GivenUsernames <- JaneOfBatch
  Workers = {w1, w2}
  MaxRequests = 2
  MaxRestarts = 1
INVARIANTS BatchIsWhole SelectionsFit LoginsWork
SYMMETRY Symmetry
CHECK_DEADLOCK FALSE
