---------------------------- MODULE CoreBanking ----------------------------
(***************************************************************************)
(* The tenant-aware core: the rows CoreBankingRepository keeps, and the    *)
(* methods of CoreBankingService as they run inside a request.             *)
(*                                                                         *)
(* FastAPI serves its plain "def" endpoints from a thread pool, and every  *)
(* repository method opens and commits a session of its own.  A request is *)
(* therefore a worker whose frame moves from one repository call to the    *)
(* next, and other workers run in between.  One action is one repository   *)
(* call and the local computation that follows it; the two get_account     *)
(* calls at the head of transfer, and get_account with the read of the     *)
(* journal in balance, are one action each: an account row never changes,  *)
(* and post_journal_entry looks both accounts up again.                    *)
(***************************************************************************)
EXTENDS Integers, Sequences, FiniteSets, FiniteSetsExt

CONSTANTS
  Banks,        \* bank ids, new_id("bank_")
  CustomerIds,  \* customer ids
  AccountIds,   \* account ids; naturals, for list_accounts orders by id
  Currencies,
  Workers,      \* threads of the pool
  Refs,         \* the references journal entries carry
  None,         \* Python's None
  Seed          \* the rows found in the database at start-up

(* AccountType and the name, which only ever identify an account together: *)
(* customer accounts, the internal ones the capabilities look up, and any  *)
(* other internal one.                                                     *)
InternalKinds ==
  {"external_world", "rtgs", "suspense", "net_settlement", "nostro", "other_internal"}
Kinds == InternalKinds \union {"customer"}

Sides == {"credit", "debit"}

Results == {"none", "ok", "not_found", "insufficient", "mismatch", "unbalanced", "invalid"}

CoreLabels == {"idle", "ensure", "open_internal", "transfer", "funds", "post", "return"}

VARIABLES
  banks,      \* ids of the rows of the banks table
  customers,  \* rows [id, bank]
  accounts,   \* rows [id, bank, ccy, kind, customer]
  journal,    \* rows [seq, bank, postings, ref]
  seq,        \* the last autoincremented journal key
  issued,     \* every id new_id has returned: none is returned twice
  frame       \* frame[w]: the request worker w is serving

tables == <<banks, customers, accounts, journal, seq, issued>>
coreVars == <<banks, customers, accounts, journal, seq, issued, frame>>

-----------------------------------------------------------------------------
(* Rows *)

Account == [id : AccountIds, bank : Banks, ccy : Currencies, kind : Kinds,
            customer : CustomerIds \union {None}]
Customer == [id : CustomerIds, bank : Banks]
Posting == [account : AccountIds, ccy : Currencies, amount : Int]
JournalEntry == [seq : Nat, bank : Banks, postings : Seq(Posting), ref : Refs \union {None}]

IsInternal(a) == a.kind \in InternalKinds

(* JournalEntry.validate: two legs or more, and every currency nets to zero. *)
NetOf(postings, c) ==
  MapThenSumSet(LAMBDA n : postings[n].amount,
                {n \in DOMAIN postings : postings[n].ccy = c})

Balanced(postings) ==
  /\ Len(postings) >= 2
  /\ \A n \in DOMAIN postings : NetOf(postings, postings[n].ccy) = 0

-----------------------------------------------------------------------------
(* What a consistent database looks like.                                  *)

PostingResolves(p, b, as) ==
  \E a \in as : a.id = p.account /\ a.bank = b /\ a.ccy = p.ccy

EntryResolves(e, as) ==
  \A n \in DOMAIN e.postings : PostingResolves(e.postings[n], e.bank, as)

Consistent(bs, cs, as, js) ==
  /\ \A e \in js : Balanced(e.postings)
  /\ \A e \in js : e.bank \in bs => EntryResolves(e, as)
  /\ \A a \in as : a.bank \in bs /\ a.customer # None =>
       [id |-> a.customer, bank |-> a.bank] \in cs

ASSUME SeedAssumption ==
  /\ AccountIds \subseteq Nat
  /\ None \notin Banks \union CustomerIds \union AccountIds \union Currencies \union Refs
  /\ Seed.banks \subseteq Banks
  /\ Seed.customers \subseteq Customer
  /\ Seed.accounts \subseteq Account
  /\ Seed.journal \subseteq JournalEntry
  /\ IsFiniteSet(Seed.customers) /\ IsFiniteSet(Seed.accounts) /\ IsFiniteSet(Seed.journal)
  /\ Seed.seq \in Nat
  /\ \A e \in Seed.journal : e.seq <= Seed.seq
  /\ \A e1, e2 \in Seed.journal : e1.seq = e2.seq => e1 = e2
  /\ \A a1, a2 \in Seed.accounts : a1.id = a2.id => a1 = a2
  /\ Consistent(Seed.banks, Seed.customers, Seed.accounts, Seed.journal)

IssuedBySeed ==
  LET rows == Seed.customers \union Seed.accounts IN
  Seed.banks \union {r.id : r \in rows} \union {r.bank : r \in rows \union Seed.journal}

-----------------------------------------------------------------------------
(* Repository reads *)

(* Mutants: the reads forget to compare the row's bank. *)
GetCustomerAnyBank(b, id) == {c \in customers : c.id = id}
GetAccountAnyBank(b, id) == {a \in accounts : a.id = id}

GetCustomer(b, id) == {c \in customers : c.id = id /\ c.bank = b}
GetAccount(b, id) == {a \in accounts : a.id = id /\ a.bank = b}
ListAccounts(b) == {a \in accounts : a.bank = b}
ListJournal(b) == {e \in journal : e.bank = b}

First(rows) == {a \in rows : \A x \in rows : a.id <= x.id}

(* CoreBankingService.balance: the postings to the account, added up. *)
MovedBy(e, id) ==
  MapThenSumSet(LAMBDA n : e.postings[n].amount,
                {n \in DOMAIN e.postings : e.postings[n].account = id})

Balance(b, id) == MapThenSumSet(LAMBDA e : MovedBy(e, id), ListJournal(b))

-----------------------------------------------------------------------------
(* Frames *)

IdleFrame ==
  [op |-> "none", pc |-> "idle", bank |-> None, customer |-> None, ccy |-> None,
   payer |-> None, payee |-> None, amount |-> 0, side |-> "debit",
   overdraft |-> FALSE, kind |-> "customer", then |-> "return",
   ref |-> None, postings |-> <<>>, next |-> 1, result |-> "none", entry |-> 0]

Frame(ops, labels) ==
  [op : ops, pc : labels, bank : Banks \union {None},
   customer : CustomerIds \union {None}, ccy : Currencies \union {None},
   payer : AccountIds \union {None}, payee : AccountIds \union {None},
   amount : Int, side : Sides, overdraft : BOOLEAN, kind : Kinds, then : labels,
   ref : Refs \union {None}, postings : Seq(Posting), next : Nat,
   result : Results, entry : Nat]

CoreInit ==
  /\ banks = Seed.banks
  /\ customers = Seed.customers
  /\ accounts = Seed.accounts
  /\ journal = Seed.journal
  /\ seq = Seed.seq
  /\ issued = IssuedBySeed
  /\ frame = [w \in Workers |-> IdleFrame]

Begin(w, f) == frame' = [frame EXCEPT ![w] = f]

Goto(w, label) == frame' = [frame EXCEPT ![w].pc = label]

Reply(w, result) == frame' = [frame EXCEPT ![w].pc = "return", ![w].result = result]

(* The constructor of JournalEntry validates; the entry then goes to       *)
(* post_journal_entry.                                                     *)
Book(w, postings) ==
  \/ /\ Balanced(postings)
     /\ frame' = [frame EXCEPT ![w].pc = "post", ![w].postings = postings, ![w].next = 1]
  \/ /\ ~Balanced(postings)
     /\ Reply(w, "unbalanced")

Leg(id, c, amount) == [account |-> id, ccy |-> c, amount |-> amount]

TwoLegs(from, to, c, amount) == <<Leg(from, c, -amount), Leg(to, c, amount)>>

-----------------------------------------------------------------------------
(* ensure_internal_account: find by (type, currency, name), else open.     *)

(* Mutant: looks among the customers' accounts. *)
MatchingOwned(f) ==
  {a \in ListAccounts(f.bank) : a.customer # None /\ a.kind = f.kind /\ a.ccy = f.ccy}

Matching(f) == {a \in ListAccounts(f.bank) : a.kind = f.kind /\ a.ccy = f.ccy}

EnsureFind(w) ==
  LET f == frame[w] IN
  /\ f.pc = "ensure"
  /\ \/ \E a \in First(Matching(f)) :
          frame' = [frame EXCEPT ![w].payee = a.id, ![w].pc = f.then]
     \/ /\ Matching(f) = {}
        /\ Goto(w, "open_internal")
  /\ UNCHANGED tables

EnsureOpen(w) ==
  LET f == frame[w] IN
  /\ f.pc = "open_internal"
  /\ \E id \in AccountIds \ issued :
       /\ accounts' = accounts \union
            {[id |-> id, bank |-> f.bank, ccy |-> f.ccy, kind |-> f.kind, customer |-> None]}
       /\ issued' = issued \union {id}
       /\ frame' = [frame EXCEPT ![w].payee = id, ![w].pc = f.then]
  /\ UNCHANGED <<banks, customers, journal, seq>>

-----------------------------------------------------------------------------
(* transfer *)

(* Mutant: the test on the payer is inverted. *)
MayOverdrawCustomer(f) ==
  f.overdraft \/ \E a \in GetAccount(f.bank, f.payer) : ~IsInternal(a)

MayOverdraw(f) == f.overdraft \/ \E a \in GetAccount(f.bank, f.payer) : IsInternal(a)

TransferLookup(w) ==
  LET f == frame[w]
      known == GetAccount(f.bank, f.payer) # {} /\ GetAccount(f.bank, f.payee) # {} IN
  /\ f.pc = "transfer"
  /\ \/ f.amount <= 0 /\ Reply(w, "invalid")
     \/ f.amount > 0 /\ ~known /\ Reply(w, "not_found")
     \/ f.amount > 0 /\ known /\ ~MayOverdraw(f) /\ Goto(w, "funds")
     \/ /\ f.amount > 0 /\ known /\ MayOverdraw(f)
        /\ Book(w, TwoLegs(f.payer, f.payee, f.ccy, f.amount))
  /\ UNCHANGED tables

(* The balance is read here; the entry it justifies is added in a later    *)
(* step, by post_journal_entry.                                            *)
TransferFunds(w) ==
  LET f == frame[w]
      payer == GetAccount(f.bank, f.payer)
      sameCcy == \A a \in payer : a.ccy = f.ccy
      enough == Balance(f.bank, f.payer) >= f.amount IN
  /\ f.pc = "funds"
  /\ \/ payer = {} /\ Reply(w, "not_found")
     \/ payer # {} /\ ~sameCcy /\ Reply(w, "mismatch")
     \/ payer # {} /\ sameCcy /\ ~enough /\ Reply(w, "insufficient")
     \/ /\ payer # {} /\ sameCcy /\ enough
        /\ Book(w, TwoLegs(f.payer, f.payee, f.ccy, f.amount))
  /\ UNCHANGED tables

-----------------------------------------------------------------------------
(* post_journal_entry: every posting's account must exist in the bank and  *)
(* have the posting's currency (else InsufficientFundsError, as the code   *)
(* has it); then the entry is added.                                       *)

PostCheck(w) ==
  LET f == frame[w]
      rows == GetAccount(f.bank, f.postings[f.next].account) IN
  /\ f.pc = "post"
  /\ f.next <= Len(f.postings)
  /\ \/ rows = {} /\ Reply(w, "not_found")
     \/ /\ \E a \in rows : a.ccy # f.postings[f.next].ccy
        /\ Reply(w, "insufficient")
     \/ /\ \E a \in rows : a.ccy = f.postings[f.next].ccy
        /\ frame' = [frame EXCEPT ![w].next = @ + 1]
  /\ UNCHANGED tables

(* Mutant: a call that did commit is tried once more. *)
PostAddRetried(w) ==
  LET f == frame[w] IN
  /\ f.pc = "post"
  /\ f.next > Len(f.postings)
  /\ seq' = seq + 1
  /\ journal' = journal \union
       {[seq |-> seq + 1, bank |-> f.bank, postings |-> f.postings, ref |-> f.ref]}
  /\ frame' = [frame EXCEPT ![w].entry = seq + 1,
                            ![w].pc = IF f.entry = 0 THEN "post" ELSE "return",
                            ![w].result = "ok"]
  /\ UNCHANGED <<banks, customers, accounts, issued>>

PostAdd(w) ==
  LET f == frame[w] IN
  /\ f.pc = "post"
  /\ f.next > Len(f.postings)
  /\ seq' = seq + 1
  /\ journal' = journal \union
       {[seq |-> seq + 1, bank |-> f.bank, postings |-> f.postings, ref |-> f.ref]}
  /\ frame' = [frame EXCEPT ![w].pc = "return", ![w].result = "ok", ![w].entry = seq + 1]
  /\ UNCHANGED <<banks, customers, accounts, issued>>

CoreStep(w) ==
  \/ EnsureFind(w) \/ EnsureOpen(w)
  \/ TransferLookup(w) \/ TransferFunds(w)
  \/ PostCheck(w) \/ PostAdd(w)

-----------------------------------------------------------------------------
(* The ledger stays sound whatever requests run at once: every entry ever  *)
(* added balances, and while a bank is open every posting of its entries   *)
(* is to an account of that same bank in the posting's currency, and every *)
(* account's customer is a customer of that same bank.                     *)
LedgerIntegrity == Consistent(banks, customers, accounts, journal)

=============================================================================
