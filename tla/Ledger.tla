------------------------------- MODULE Ledger -------------------------------
(***************************************************************************)
(* The core ledger under concurrent requests: bank creation and deletion,  *)
(* customers, accounts, batches of them, transactions against the          *)
(* "External world", and the transfers and entries a plugin makes through  *)
(* CoreBankingService.                                                     *)
(*                                                                         *)
(* Every HTTP request first resolves its bank (api/deps.py), which is the  *)
(* guard b \in banks of the actions that begin one.  A handler that reads  *)
(* the bank again (delete_bank, open_account for its currencies) does so   *)
(* before anything else, and that read is the guard; nothing looks at the  *)
(* banks table afterwards.                                                 *)
(***************************************************************************)
EXTENDS CoreBanking

CONSTANTS
  Amounts,      \* amounts callers ask for, in minor units
  Entries,      \* the lists of postings plugins build entries from
  OpenKinds,    \* the kinds of account clients open: the schema takes any
  BatchKinds,   \* the kinds of account a batch draws
  BatchSizes,   \* the sizes of batches: <<customers, accounts>>
  Asked,        \* the currencies callers say an account has; None where they say none
  Overdrafts,   \* the values of allow_overdraft plugins pass
  ServedOps,    \* the requests of this instance
  MaxRequests   \* bound: requests begun

(* The requests in which a client opens accounts itself; the others only   *)
(* ever open one through ensure_internal_account.                          *)
OpeningOps == {"open_account", "batch"}

LedgerOps == OpeningOps \union
  {"create_bank", "delete_bank", "create_customer", "external", "transfer", "post_entry"}

LedgerLabels == CoreLabels \union
  {"remove_bank", "purge", "add_customer", "check_customer", "add_account",
   "add_batch", "account_ccy", "book_external"}

ASSUME LedgerAssumption ==
  /\ Amounts \subseteq Int
  /\ Entries \subseteq Seq(Posting)
  /\ OpenKinds \subseteq Kinds /\ BatchKinds \subseteq Kinds
  /\ Asked \subseteq Currencies \union {None}
  /\ Overdrafts \subseteq BOOLEAN
  /\ MaxRequests \in Nat

VARIABLES
  served,  \* requests begun so far, for the bound
  made     \* history: for each transaction that added rows, those rows [client, rows]

vars == <<banks, customers, accounts, journal, seq, issued, frame, served, made>>

Rows == customers \union accounts \union journal

-----------------------------------------------------------------------------
Init ==
  /\ CoreInit
  /\ served = 0
  /\ made = {[client |-> FALSE, rows |-> Rows]}

-----------------------------------------------------------------------------
(* The head of a request. *)

Accept(w, op) ==
  /\ frame[w].pc = "idle"
  /\ op \in ServedOps
  /\ served < MaxRequests
  /\ served' = served + 1

(* The bank exists when the request resolves it. *)
AcceptFor(w, op, b) == Accept(w, op) /\ b \in banks

BeginCreateBank(w) ==
  /\ Accept(w, "create_bank")
  /\ \E b \in Banks \ issued :
       /\ banks' = banks \union {b}
       /\ issued' = issued \union {b}
  /\ UNCHANGED <<customers, accounts, journal, seq, frame>>

BeginDeleteBank(w) ==
  /\ \E b \in Banks :
       /\ AcceptFor(w, "delete_bank", b)
       /\ Begin(w, [IdleFrame EXCEPT !.op = "delete_bank", !.pc = "remove_bank", !.bank = b])
  /\ UNCHANGED tables

BeginCreateCustomer(w) ==
  /\ \E b \in Banks :
       /\ AcceptFor(w, "create_customer", b)
       /\ Begin(w, [IdleFrame EXCEPT !.op = "create_customer", !.pc = "add_customer",
                                     !.bank = b])
  /\ UNCHANGED tables

(* A client may name any customer it has heard of, of this bank or         *)
(* another, or none.                                                       *)
BeginOpenAccount(w) ==
  /\ \E b \in Banks, c \in Currencies, k \in OpenKinds, cu \in CustomerIds \union {None} :
       /\ cu = None \/ cu \in issued
       /\ AcceptFor(w, "open_account", b)
       /\ Begin(w, [IdleFrame EXCEPT !.op = "open_account", !.pc = "check_customer",
                                     !.bank = b, !.customer = cu, !.ccy = c, !.kind = k])
  /\ UNCHANGED tables

(* The batch is made up in the base currency of its bank. *)
BeginBatch(w) ==
  /\ \E b \in Banks, c \in Currencies :
       /\ AcceptFor(w, "batch", b)
       /\ Begin(w, [IdleFrame EXCEPT !.op = "batch", !.pc = "add_batch", !.bank = b,
                                     !.ccy = c])
  /\ UNCHANGED tables

(* The caller may say which currency it takes the account to have. *)
BeginExternal(w) ==
  /\ \E b \in Banks, id \in AccountIds \intersect issued, c \in Asked, m \in Amounts,
        sd \in Sides :
       /\ AcceptFor(w, "external", b)
       /\ Begin(w, [IdleFrame EXCEPT !.op = "external", !.pc = "account_ccy", !.bank = b,
                      !.payer = id, !.ccy = c, !.amount = m, !.side = sd,
                      !.kind = "external_world", !.then = "book_external"])
  /\ UNCHANGED tables

BeginTransfer(w) ==
  /\ \E b \in Banks, from, to \in AccountIds \intersect issued,
        m \in Amounts, c \in Currencies, free \in Overdrafts :
       /\ AcceptFor(w, "transfer", b)
       /\ Begin(w, [IdleFrame EXCEPT !.op = "transfer", !.pc = "transfer", !.bank = b,
                      !.payer = from, !.payee = to, !.ccy = c, !.amount = m,
                      !.overdraft = free])
  /\ UNCHANGED tables

BeginPostEntry(w) ==
  /\ \E b \in Banks, ps \in Entries :
       /\ AcceptFor(w, "post_entry", b)
       /\ \/ /\ Balanced(ps)
             /\ Begin(w, [IdleFrame EXCEPT !.op = "post_entry", !.pc = "post", !.bank = b,
                                           !.postings = ps])
          \/ /\ ~Balanced(ps)
             /\ Begin(w, [IdleFrame EXCEPT !.op = "post_entry", !.pc = "return", !.bank = b,
                                           !.result = "unbalanced"])
  /\ UNCHANGED tables

-----------------------------------------------------------------------------
(* The bodies. *)

(* BankService.delete_bank, then the core repository's remove_bank: one    *)
(* transaction over the three tables.                                      *)
RemoveBankRow(w) ==
  /\ frame[w].pc = "remove_bank"
  /\ banks' = banks \ {frame[w].bank}
  /\ Goto(w, "purge")
  /\ UNCHANGED <<customers, accounts, journal, seq, issued, served>>

(* Mutants: the delete of the accounts has no WHERE; the journal is        *)
(* forgotten.                                                              *)
RemoveBankRowsUnscoped(w) ==
  LET b == frame[w].bank IN
  /\ frame[w].pc = "purge"
  /\ customers' = {c \in customers : c.bank # b}
  /\ accounts' = {}
  /\ journal' = {e \in journal : e.bank # b}
  /\ Reply(w, "ok")
  /\ UNCHANGED <<banks, seq, issued, served>>

RemoveBankRowsKeepJournal(w) ==
  LET b == frame[w].bank IN
  /\ frame[w].pc = "purge"
  /\ customers' = {c \in customers : c.bank # b}
  /\ accounts' = {a \in accounts : a.bank # b}
  /\ Reply(w, "ok")
  /\ UNCHANGED <<banks, journal, seq, issued, served>>

RemoveBankRows(w) ==
  LET b == frame[w].bank IN
  /\ frame[w].pc = "purge"
  /\ customers' = {c \in customers : c.bank # b}
  /\ accounts' = {a \in accounts : a.bank # b}
  /\ journal' = {e \in journal : e.bank # b}
  /\ Reply(w, "ok")
  /\ UNCHANGED <<banks, seq, issued, served>>

AddCustomer(w) ==
  /\ frame[w].pc = "add_customer"
  /\ \E id \in CustomerIds \ issued :
       /\ customers' = customers \union {[id |-> id, bank |-> frame[w].bank]}
       /\ issued' = issued \union {id}
  /\ Reply(w, "ok")
  /\ UNCHANGED <<banks, accounts, journal, seq, served>>

CheckCustomer(w) ==
  LET f == frame[w]
      known == f.customer = None \/ GetCustomer(f.bank, f.customer) # {} IN
  /\ f.pc = "check_customer"
  /\ \/ known /\ Goto(w, "add_account")
     \/ ~known /\ Reply(w, "not_found")
  /\ UNCHANGED <<tables, served>>

AddAccount(w) ==
  LET f == frame[w] IN
  /\ f.pc = "add_account"
  /\ \E id \in AccountIds \ issued :
       /\ accounts' = accounts \union {[id |-> id, bank |-> f.bank, ccy |-> f.ccy,
                                        kind |-> f.kind, customer |-> f.customer]}
       /\ issued' = issued \union {id}
  /\ Reply(w, "ok")
  /\ UNCHANGED <<banks, customers, journal, seq, served>>

(* All the customers and accounts of a batch are added in one transaction. *)
AddBatch(w) ==
  LET f == frame[w] IN
  /\ f.pc = "add_batch"
  /\ \E cs \in SUBSET (CustomerIds \ issued), as \in SUBSET (AccountIds \ issued) :
       /\ IsFiniteSet(cs) /\ IsFiniteSet(as)
       /\ <<Cardinality(cs), Cardinality(as)>> \in BatchSizes
       /\ customers' = customers \union {[id |-> id, bank |-> f.bank] : id \in cs}
       /\ \E kind \in [as -> BatchKinds], owner \in [as -> cs] :
            accounts' = accounts \union
              {[id |-> id, bank |-> f.bank, ccy |-> f.ccy, kind |-> kind[id],
                customer |-> owner[id]] : id \in as}
       /\ issued' = issued \union cs \union as
  /\ Reply(w, "ok")
  /\ UNCHANGED <<banks, journal, seq, served>>

(* post_external_transaction books in the currency of the account, and     *)
(* refuses another.                                                        *)
(* Mutant: goes on without the account's currency. *)
ExternalAccountNoCurrency(w) ==
  LET rows == GetAccount(frame[w].bank, frame[w].payer) IN
  /\ frame[w].pc = "account_ccy"
  /\ \/ rows = {} /\ Reply(w, "not_found")
     \/ rows # {} /\ Goto(w, "ensure")
  /\ UNCHANGED <<tables, served>>

ExternalAccount(w) ==
  LET f == frame[w]
      rows == GetAccount(f.bank, f.payer) IN
  /\ f.pc = "account_ccy"
  /\ \/ rows = {} /\ Reply(w, "not_found")
     \/ \E a \in rows : f.ccy \notin {None, a.ccy} /\ Reply(w, "mismatch")
     \/ \E a \in rows : /\ f.ccy \in {None, a.ccy}
                        /\ frame' = [frame EXCEPT ![w].ccy = a.ccy, ![w].pc = "ensure"]
  /\ UNCHANGED <<tables, served>>

ExternalBook(w) ==
  LET f == frame[w] IN
  /\ f.pc = "book_external"
  /\ IF f.side = "credit" THEN Book(w, TwoLegs(f.payee, f.payer, f.ccy, f.amount))
                          ELSE Book(w, TwoLegs(f.payer, f.payee, f.ccy, f.amount))
  /\ UNCHANGED <<tables, served>>

Finish(w) ==
  /\ frame[w].pc = "return"
  /\ Begin(w, IdleFrame)
  /\ UNCHANGED <<tables, served>>

-----------------------------------------------------------------------------

(* The guard of Accept stands first so that TLC tries no choices for a     *)
(* worker that is busy.                                                    *)
Accepts(w) ==
  /\ frame[w].pc = "idle" /\ served < MaxRequests
  /\ \/ BeginCreateBank(w) \/ BeginDeleteBank(w) \/ BeginCreateCustomer(w)
     \/ BeginOpenAccount(w) \/ BeginBatch(w)
     \/ BeginExternal(w) \/ BeginTransfer(w) \/ BeginPostEntry(w)

Works(w) ==
  \/ CoreStep(w) /\ UNCHANGED served
  \/ RemoveBankRow(w) \/ RemoveBankRows(w)
  \/ AddCustomer(w) \/ CheckCustomer(w) \/ AddAccount(w) \/ AddBatch(w)
  \/ ExternalAccount(w) \/ ExternalBook(w) \/ Finish(w)

(* The instance's requests are used up and every worker is idle: the only  *)
(* place where this specification may stop.                                *)
AllServed ==
  /\ served = MaxRequests
  /\ \A w \in Workers : frame[w].pc = "idle"
  /\ UNCHANGED vars

(* The history of a step of worker w: the rows it adds are one element,    *)
(* which says whether a client asked for them; what is deleted is          *)
(* forgotten.                                                              *)
Added == (customers' \ customers) \union (accounts' \ accounts) \union (journal' \ journal)

Remembers(w) ==
  LET left == {m \in made : m.rows \intersect Rows' # {}} IN
  \/ Added = {} /\ made' = left
  \/ /\ Added # {}
     /\ made' = left \union {[client |-> frame[w].op \in OpeningOps, rows |-> Added]}

Next == AllServed \/ \E w \in Workers : (Accepts(w) \/ Works(w)) /\ Remembers(w)

Spec == Init /\ [][Next]_vars

-----------------------------------------------------------------------------
(* Properties *)

(* Every row and every frame is of its type, and keys are unique. *)
TypeOK ==
  /\ banks \subseteq Banks
  /\ customers \subseteq Customer
  /\ accounts \subseteq Account
  /\ journal \subseteq JournalEntry
  /\ seq \in Nat
  /\ issued \subseteq Banks \union CustomerIds \union AccountIds
  /\ frame \in [Workers -> Frame(LedgerOps \union {"none"}, LedgerLabels)]
  /\ served \in Nat
  /\ \A a1, a2 \in accounts : a1.id = a2.id => a1 = a2
  /\ \A e1, e2 \in journal : e1.seq = e2.seq => e1 = e2

(* No money is made or lost: in an open bank the balances of the accounts  *)
(* in one currency add up to zero.                                         *)
Conservation ==
  \A b \in banks, c \in Currencies :
    MapThenSumSet(LAMBDA a : Balance(b, a.id), {a \in ListAccounts(b) : a.ccy = c}) = 0

(* A bank that is still open after a step has lost no row in it and had no *)
(* row rewritten: in particular deleting one tenant never touches another. *)
RowsOf(b) ==
  {c \in customers : c.bank = b} \union ListAccounts(b) \union ListJournal(b)

OpenBanksKeepRows == [][\A b \in banks \intersect banks' : RowsOf(b) \subseteq RowsOf(b)']_vars

(* ensure_internal_account looks for the account and opens it in two       *)
(* transactions, so requests at once may open several of the same purpose  *)
(* and currency; but once one of them is there everybody finds it, however *)
(* many requests follow: besides the ones clients open under that purpose  *)
(* themselves, there are never more than workers that can look for it at   *)
(* the same time.                                                          *)
Ensured(b, c, k) ==
  {a \in ListAccounts(b) : /\ a.kind = k /\ a.ccy = c
                           /\ \A m \in made : m.client => a \notin m.rows}

InternalAccountsBounded ==
  \A b \in Banks, c \in Currencies, k \in InternalKinds :
    Cardinality(Ensured(b, c, k)) <= Cardinality(Workers)

(* What is left of a deleted bank once no request is in flight was added   *)
(* in fewer transactions than there are workers: in at most one by each    *)
(* request that was in flight when the bank was deleted.  Nothing from     *)
(* before the deletion is left, and no request that came after it got in.  *)
(* One transaction may leave any number of rows, for a batch has but one.  *)
Leftovers(b) == {m \in made : m.rows \intersect RowsOf(b) # {}}

LeftoversBounded ==
  (\A w \in Workers : frame[w].pc = "idle") =>
    \A b \in Banks \ banks : Cardinality(Leftovers(b)) < Cardinality(Workers)

=============================================================================
