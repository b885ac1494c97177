\* Two workers, two banks: every request of Access next to every other, and a restart.
SPECIFICATION Spec
CONSTANTS
  b1 = b1  b2 = b2  a1 = a1  a2 = a2  a3 = a3
  u1 = u1  u2 = u2  w1 = w1  w2 = w2  None = None
  Banks = {b1, b2}
  CustomerIds = {1, 2, 3, 4, 5, 6, 7}
  AccountIds = {a1, a3}
  Users = {u1, u2}
  Tokens = {11, 12, 13, 14, 15}
  ConsentIds = {21, 22, 23, 24, 25}
  Codes = {31, 32, 33, 34}
  Workers = {w1, w2}
  Seed <- TwoBanks
  Scopes <- AllAccounts
  ServedOps = {"create_customer", "register", "login", "logout", "create_consent", "start_sca", "finish_sca", "revoke", "accounts", "authorize", "token", "payment", "delete_bank"}
  MaxRequests = 4
  MaxRestarts = 1
INVARIANTS CodeRedeemedOnce CodesAreGranted PsuBound ShownWasGranted DeletedBankForgotten
PROPERTIES ConsentsKept
SYMMETRY WorkerSymmetry
