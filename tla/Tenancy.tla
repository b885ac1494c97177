------------------------------- MODULE Tenancy -------------------------------
(***************************************************************************)
(* The tenants: banks are created, changed and deleted by concurrent       *)
(* requests, and accounts are opened in the currencies a bank supports.    *)
(*                                                                         *)
(* A request reads a bank as an object of its own, changes the object and  *)
(* writes all of it back with Session.merge, which inserts the row if it   *)
(* is not there.  An action is one repository call.                        *)
(***************************************************************************)
EXTENDS Naturals, FiniteSets

CONSTANTS
  BankIds,      \* what new_id("bank_") returns; naturals, handed out in order
  Names,        \* display names
  Fold,         \* Fold[n]: n without case and surrounding blanks
  Blank,        \* the fold of a name that is all blanks
  Currencies,   \* currency codes as requests spell them
  Upper,        \* Upper[c]: c in upper case
  Settings,
  Creations,    \* requests to create a bank: what the body may say
  Updates,      \* requests to update one; None where the body leaves a field out
  BatchSizes,   \* how many accounts one batch may open
  Workers, None,
  MaxRequests   \* bound: requests begun

(* A bank: its name, currencies and enabled protocols; "settings" stands   *)
(* for country, locale, branding and capabilities, fields that are only    *)
(* stored.  Protocols are one or none.                                     *)
Bank == [name : Names, base : Currencies, supported : SUBSET Currencies,
         protocols : BOOLEAN, openBanking : BOOLEAN, settings : Settings]
Creation == [name : Names, base : Currencies, supported : SUBSET Currencies,
             protocols : BOOLEAN, openBanking : BOOLEAN \union {None}, settings : Settings]
Update == [name : Names \union {None}, base : Currencies \union {None},
           protocols : BOOLEAN \union {None}, settings : Settings \union {None}]

ASSUME TenancyAssumption ==
  /\ BankIds \subseteq Nat \ {0}
  /\ None \notin BankIds \union Names \union Currencies \union Settings
  /\ Upper \in [Currencies -> Currencies]
  /\ \A c \in Currencies : Upper[Upper[c]] = Upper[c]
  /\ Creations \subseteq Creation
  /\ Updates \subseteq Update
  /\ BatchSizes \subseteq Nat
  /\ MaxRequests \in Nat

VARIABLES
  rows,      \* id -> row of the banks table
  accounts,  \* rows of customers' accounts: the bank's id, the currency, and the
             \* request that inserted them, with a number among its own
  issued,    \* bank ids handed out
  frame,     \* frame[w]: the request worker w serves
  served,    \* requests begun so far: they are numbered, and bounded
  deleted,   \* history: the banks whose deletion was acknowledged
  respelt,   \* history: the banks whose base currency an update gave in lower case
  overlapped \* history: a request was accepted while another was in flight

vars == <<rows, accounts, issued, frame, served, deleted, respelt, overlapped>>

TenancyLabels == {"idle", "names", "insert", "load", "merge", "find", "remove",
                  "purge", "currency", "base", "add_account"}

IdleFrame == [pc |-> "idle", op |-> "none", by |-> 0, id |-> 0, body |-> None,
              bank |-> None, ccy |-> None]

(* A request that begins, by its number. *)
Request == [IdleFrame EXCEPT !.by = served + 1]

Init ==
  /\ rows = <<>> /\ accounts = {} /\ issued = {}
  /\ frame = [w \in Workers |-> IdleFrame]
  /\ served = 0 /\ deleted = {} /\ respelt = {} /\ overlapped = FALSE

-----------------------------------------------------------------------------
(* Banks and rows *)

(* _row_to_bank adds the base currency to the supported ones, and takes a  *)
(* bank with protocols for an open banking one whatever the row says.      *)
RowToBank(r) ==
  [r EXCEPT !.supported = @ \union {r.base}, !.openBanking = @ \/ r.protocols]

Taken(name, others) == \E id \in others : Fold[rows[id].name] = Fold[name]

(* Mutant: the currencies of a new bank are stored as they are spelt. *)
NewBankAsSpelt(c) ==
  [name |-> c.name, base |-> c.base, supported |-> c.supported \union {c.base},
   protocols |-> c.protocols,
   openBanking |-> c.protocols /\ c.openBanking \in {TRUE, None},
   settings |-> c.settings]

(* create_bank, the entity: currencies in upper case. *)
NewBank(c) ==
  [name |-> c.name, base |-> Upper[c.base],
   supported |-> {Upper[x] : x \in c.supported \union {c.base}},
   protocols |-> c.protocols,
   openBanking |-> c.protocols /\ c.openBanking \in {TRUE, None},
   settings |-> c.settings]

(* Mutant: protocols that are left out are taken for none. *)
ChangedNoProtocols(b, u) ==
  [b EXCEPT !.name = IF u.name = None THEN @ ELSE u.name,
            !.base = IF u.base = None THEN @ ELSE u.base,
            !.protocols = u.protocols = TRUE,
            !.settings = IF u.settings = None THEN @ ELSE u.settings]

(* update_bank: the supplied fields, a base currency as it is spelt. *)
Changed(b, u) ==
  [b EXCEPT !.name = IF u.name = None THEN @ ELSE u.name,
            !.base = IF u.base = None THEN @ ELSE u.base,
            !.protocols = IF u.protocols = None THEN @ ELSE u.protocols,
            !.settings = IF u.settings = None THEN @ ELSE u.settings]

Put(id, bank) == rows' = [x \in DOMAIN rows \union {id} |-> IF x = id THEN bank ELSE rows[x]]

-----------------------------------------------------------------------------
(* Requests *)

Begin(w, f) ==
  /\ frame[w].pc = "idle"
  /\ served < MaxRequests
  /\ served' = served + 1
  /\ overlapped' = (overlapped \/ \E x \in Workers \ {w} : frame[x].pc # "idle")
  /\ frame' = [frame EXCEPT ![w] = f]
  /\ UNCHANGED <<rows, accounts, issued, deleted, respelt>>

BeginCreate(w) ==
  \E c \in Creations :
    Begin(w, [Request EXCEPT !.op = "create", !.pc = "names", !.body = c])

(* A client knows the ids of banks that have been created. *)
BeginUpdate(w) ==
  \E id \in issued, u \in Updates :
    Begin(w, [Request EXCEPT !.op = "update", !.pc = "load", !.id = id, !.body = u])

BeginDelete(w) ==
  \E id \in issued :
    Begin(w, [Request EXCEPT !.op = "delete", !.pc = "find", !.id = id])

(* The bank is resolved for the request and again for its currencies; the  *)
(* guard is the first of the two.                                          *)
BeginOpenAccount(w) ==
  \E id \in DOMAIN rows, c \in Currencies :
    Begin(w, [Request EXCEPT !.op = "open_account", !.pc = "currency", !.id = id, !.ccy = Upper[c]])

BeginBatch(w) ==
  \E id \in DOMAIN rows :
    Begin(w, [Request EXCEPT !.op = "batch", !.pc = "base", !.id = id])

End(w) == frame' = [frame EXCEPT ![w] = IdleFrame]

Goto(w, label) == frame' = [frame EXCEPT ![w].pc = label]

Load(w) ==
  LET f == frame[w] IN
  /\ f.pc = "load"
  /\ \/ f.id \notin DOMAIN rows /\ End(w)
     \/ /\ f.id \in DOMAIN rows
        /\ frame' = [frame EXCEPT ![w].bank = RowToBank(rows[f.id]),
                       ![w].pc = IF f.body.name = None THEN "merge" ELSE "names"]
  /\ UNCHANGED <<rows, accounts, issued, served, deleted, respelt, overlapped>>

(* Mutant: the other banks' names are not looked at. *)
CheckNamesSkipped(w) ==
  LET f == frame[w] IN
  /\ f.pc = "names"
  /\ Goto(w, IF f.op = "create" THEN "insert" ELSE "merge")
  /\ UNCHANGED <<rows, accounts, issued, served, deleted, respelt, overlapped>>

(* A name that is blank or that another bank has ends the request. *)
CheckNames(w) ==
  LET f == frame[w]
      free == Fold[f.body.name] # Blank /\ ~Taken(f.body.name, DOMAIN rows \ {f.id}) IN
  /\ f.pc = "names"
  /\ \/ ~free /\ End(w)
     \/ free /\ Goto(w, IF f.op = "create" THEN "insert" ELSE "merge")
  /\ UNCHANGED <<rows, accounts, issued, served, deleted, respelt, overlapped>>

Insert(w) ==
  /\ frame[w].pc = "insert"
  /\ \E id \in BankIds \ issued :
       /\ \A x \in BankIds \ issued : id <= x
       /\ issued' = issued \union {id}
       /\ Put(id, NewBank(frame[w].body))
  /\ End(w)
  /\ UNCHANGED <<accounts, served, deleted, respelt, overlapped>>

(* The repository's add: the whole object, whatever the row is by now. *)
Merge(w) ==
  LET f == frame[w] IN
  /\ f.pc = "merge"
  /\ Put(f.id, Changed(f.bank, f.body))
  /\ respelt' = IF f.body.base # None /\ Upper[f.body.base] # f.body.base
                THEN respelt \union {f.id} ELSE respelt
  /\ End(w)
  /\ UNCHANGED <<accounts, issued, served, deleted, overlapped>>

(* delete_bank: find the bank, remove the row, purge what it has. *)
Find(w) ==
  /\ frame[w].pc = "find"
  /\ \/ frame[w].id \notin DOMAIN rows /\ End(w)
     \/ frame[w].id \in DOMAIN rows /\ Goto(w, "remove")
  /\ UNCHANGED <<rows, accounts, issued, served, deleted, respelt, overlapped>>

Remove(w) ==
  /\ frame[w].pc = "remove"
  /\ rows' = [x \in DOMAIN rows \ {frame[w].id} |-> rows[x]]
  /\ Goto(w, "purge")
  /\ UNCHANGED <<accounts, issued, served, deleted, respelt, overlapped>>

(* Mutant: the accounts stay. *)
PurgeNothing(w) ==
  /\ frame[w].pc = "purge"
  /\ deleted' = deleted \union {frame[w].id}
  /\ End(w)
  /\ UNCHANGED <<rows, accounts, issued, served, respelt, overlapped>>

Purge(w) ==
  /\ frame[w].pc = "purge"
  /\ accounts' = {a \in accounts : a.bank # frame[w].id}
  /\ deleted' = deleted \union {frame[w].id}
  /\ End(w)
  /\ UNCHANGED <<rows, issued, served, respelt, overlapped>>

(* open_account of the banking router. *)
CheckCurrency(w) ==
  LET f == frame[w]
      enabled == f.id \in DOMAIN rows /\ f.ccy \in RowToBank(rows[f.id]).supported IN
  /\ f.pc = "currency"
  /\ \/ enabled /\ Goto(w, "add_account")
     \/ ~enabled /\ End(w)
  /\ UNCHANGED <<rows, accounts, issued, served, deleted, respelt, overlapped>>

(* batch_create_customers: accounts in the base currency. *)
ReadBase(w) ==
  LET f == frame[w] IN
  /\ f.pc = "base"
  /\ \/ f.id \notin DOMAIN rows /\ End(w)
     \/ /\ f.id \in DOMAIN rows
        /\ frame' = [frame EXCEPT ![w].pc = "add_account", ![w].ccy = rows[f.id].base]
  /\ UNCHANGED <<rows, accounts, issued, served, deleted, respelt, overlapped>>

(* One row, or all the rows of a batch in one transaction. *)
AddAccount(w) ==
  LET f == frame[w] IN
  /\ f.pc = "add_account"
  /\ \E n \in (IF f.op = "batch" THEN BatchSizes ELSE {1}) :
       accounts' = accounts \union
         {[bank |-> f.id, ccy |-> f.ccy, by |-> f.by, nr |-> k] : k \in 1..n}
  /\ End(w)
  /\ UNCHANGED <<rows, issued, served, deleted, respelt, overlapped>>

(* The requests are used up: the only place where this specification stops. *)
AllServed ==
  /\ served = MaxRequests
  /\ \A w \in Workers : frame[w].pc = "idle"
  /\ UNCHANGED vars

Accepts(w) ==
  BeginCreate(w) \/ BeginUpdate(w) \/ BeginDelete(w) \/ BeginOpenAccount(w) \/ BeginBatch(w)

Works(w) ==
  \/ Load(w) \/ CheckNames(w) \/ Insert(w) \/ Merge(w)
  \/ Find(w) \/ Remove(w) \/ Purge(w)
  \/ CheckCurrency(w) \/ ReadBase(w) \/ AddAccount(w)

Next == AllServed \/ \E w \in Workers : Accepts(w) \/ Works(w)

Spec == Init /\ [][Next]_vars

-----------------------------------------------------------------------------
(* Properties *)

Frame ==
  [pc : TenancyLabels, op : {"none", "create", "update", "delete", "open_account", "batch"},
   by : 0..MaxRequests, id : BankIds \union {0}, body : Creations \union Updates \union {None},
   bank : Bank \union {None}, ccy : Currencies \union {None}]

(* Rows, accounts and frames are of their types. *)
TypeOK ==
  /\ DOMAIN rows \subseteq issued
  /\ \A id \in DOMAIN rows : rows[id] \in Bank
  /\ accounts \subseteq [bank : issued, ccy : Currencies, by : 0..MaxRequests, nr : Nat]
  /\ issued \subseteq BankIds
  /\ frame \in [Workers -> Frame]
  /\ served \in 0..MaxRequests
  /\ deleted \subseteq issued /\ respelt \subseteq issued /\ overlapped \in BOOLEAN

(* No two banks have the same display name, up to case and blanks, as long  *)
(* as requests come one at a time.  Requests at once may find a name free   *)
(* together, but never more of them than there are workers: once one bank   *)
(* has the name, no later request gets it, deletions in between included.   *)
NamesDistinct ==
  \A n \in Names :
    Cardinality({id \in DOMAIN rows : Fold[rows[id].name] = Fold[n]})
      <= IF overlapped THEN Cardinality(Workers) ELSE 1

AtRest == \A w \in Workers : frame[w].pc = "idle"

(* One request at a time, a bank whose deletion was acknowledged does not   *)
(* come back and leaves no accounts.  At once, an update that has read the  *)
(* bank brings its row back; but with the row gone and no request in flight *)
(* its accounts are only those that were being opened during the deletion:  *)
(* however many rows a batch inserts, they are the work of fewer requests   *)
(* than there are workers.                                                  *)
DeletedLeaveNothing ==
  /\ ~overlapped => deleted \intersect DOMAIN rows = {}
  /\ ~overlapped => \A a \in accounts : a.bank \notin deleted
  /\ AtRest => \A id \in deleted \ DOMAIN rows :
       Cardinality({a.by : a \in {x \in accounts : x.bank = id}}) < Cardinality(Workers)

(* The fields an update leaves out are afterwards what they were before,   *)
(* as any other request would have read them, unless another request was   *)
(* in flight next to it.                                                   *)
OnlySuppliedChange ==
  [][\A w \in Workers :
       LET f == frame[w]
           before == RowToBank(rows[f.id])
           after == RowToBank(rows'[f.id]) IN
       ~overlapped /\ f.pc = "merge" /\ frame'[w].pc = "idle" =>
         /\ f.body.name = None => after.name = before.name
         /\ f.body.base = None => after.base = before.base
         /\ f.body.protocols = None => after.protocols = before.protocols
         /\ f.body.settings = None => after.settings = before.settings
         /\ before.supported \subseteq after.supported]_vars

(* One request at a time, every account of a bank is in a currency the bank *)
(* supports, whatever updates have changed since and whether the account   *)
(* was opened by hand or in a batch; and it takes transactions, which are  *)
(* booked in upper-case currencies only, unless an update has ever given   *)
(* the bank a base currency in lower case.                                 *)
AccountsSupported ==
  \A a \in accounts :
    /\ ~overlapped /\ a.bank \in DOMAIN rows => a.ccy \in RowToBank(rows[a.bank]).supported
    /\ Upper[a.ccy] = a.ccy \/ a.bank \in respelt

=============================================================================
