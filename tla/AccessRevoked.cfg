\* A consent is authorised again after its revocation.
SPECIFICATION Spec
CONSTANTS
  b1 = b1  b2 = b2  a1 = a1  a2 = a2  a3 = a3
  u1 = u1  u2 = u2  w1 = w1  w2 = w2  None = None
  Banks = {b1}
  CustomerIds = {1, 2, 3, 4, 5, 6, 7}
  AccountIds = {a1, a3}
  Users = {u1, u2}
  Tokens = {11, 12, 13, 14, 15}
  ConsentIds = {21, 22, 23, 24, 25}
  Codes = {31, 32, 33, 34}
  Workers = {w1}
  Seed <- OneBank
  Scopes <- AllAccounts
  ServedOps = {"login", "create_consent", "start_sca", "finish_sca", "revoke"}
  MaxRequests = 5
  MaxRestarts = 0
INVARIANTS RevokedStaysRevoked
SYMMETRY WorkerSymmetry
