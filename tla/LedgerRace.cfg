\* Two workers, two tenants: every request, plugins' transfers and entries included.
SPECIFICATION Spec
CONSTANTS
  b1 = b1  b2 = b2  b3 = b3
  c1 = c1  c2 = c2  c3 = c3  c4 = c4
  eur = eur  usd = usd
  None = None  w1 = w1  w2 = w2
  Banks = {b1, b2, b3}
  CustomerIds = {c1, c2, c3, c4}
  AccountIds = {1, 2, 3, 4, 5}
  Currencies = {eur, usd}
  Workers = {w1, w2}
  Refs = {}
  Seed <- TwoBanks
  Amounts = {1}
  Entries <- PluginEntries
  OpenKinds = {"external_world"}
  BatchKinds = {"customer"}
  Asked = {None, usd}
  BatchSizes <- OneEach
  Overdrafts = {FALSE}
  ServedOps = {"create_bank", "delete_bank", "create_customer", "open_account", "batch",
               "external", "transfer", "post_entry"}
  MaxRequests = 3
INVARIANTS TypeOK LedgerIntegrity Conservation InternalAccountsBounded 
PROPERTIES OpenBanksKeepRows
SYMMETRY Symmetry
