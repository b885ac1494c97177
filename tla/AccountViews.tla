---------------------------- MODULE AccountViews ----------------------------
(***************************************************************************)
(* What the four API surfaces answer about the same core bank: FDX, Open   *)
(* Finance, Berlin Group and the bank's own pages ("management").          *)
(*                                                                         *)
(* A request reads the database several times, each time in a transaction  *)
(* of its own, while others book entries, create batches and delete banks. *)
(* Requests that only read do not affect each other: one, at any point of  *)
(* its way, next to the writers is the general case.  An action of the     *)
(* request is one repository call; a writer's action is one commit.  What  *)
(* a posting reads before it commits is Ledger's, and whether a consent    *)
(* allows a Berlin Group request is Access's.                              *)
(***************************************************************************)
EXTENDS Money, FiniteSets, FiniteSetsExt

CONSTANTS
  Accounts,    \* ids of account rows: numbers, in the order of a listing
  Row,         \* Row[a]: the bank, customer or None, type and currency of account a
  Home,        \* Home[c]: the bank of customer c
  None,
  Seed,        \* the banks, customers and accounts there are at first
  Batch,       \* the customers and accounts of one batch
  External,    \* the accounts called "External world"
  Sent,        \* the amounts clients post, in ten-thousandths
  FloatExact,  \* amounts up to here are the same when written as a double
  Spacings,    \* the distances between neighbouring doubles
  Precision,   \* an amount is at least so many times the distance it has
  Times,       \* the instants entries are booked at
  DayLength,   \* instants in a day
  Windows,     \* the ranges of time asked for
  Closing,     \* bound: the banks that may be deleted
  MaxEntries,  \* bound: entries booked
  MaxReads     \* bound: requests answered or refused

Customers == DOMAIN Home
Banks == {Home[c] : c \in Customers}

InternalTypes == {"internal", "nostro", "vostro", "settlement"}
AccountType == {"current", "savings", "credit_card", "loan"} \union InternalTypes

(* The accounts of customers come and go with their customers.             *)
Whole(s) ==
  /\ s.customers \subseteq Customers /\ s.accounts \subseteq Accounts
  /\ \A a \in Accounts : Row[a].customer # None =>
       (a \in s.accounts <=> Row[a].customer \in s.customers)

(* A double has 15 decimal digits for sure, 10^12 of the major unit of any *)
(* currency, and 53 binary ones.                                           *)
ASSUME FloatAssumption ==
  /\ Precision \in Nat \ {0} /\ FloatExact \in Nat /\ Precision <= FloatExact
  /\ Spacings \subseteq Nat \ {0} /\ 1 \in Spacings

ASSUME AccountViewsAssumption ==
  /\ Accounts \subseteq Nat
  /\ Row \in [Accounts -> [bank : Banks, customer : Customers \union {None},
                           type : AccountType, currency : STRING]]
  /\ \A a \in Accounts : Row[a].customer # None => Home[Row[a].customer] = Row[a].bank
  /\ External \subseteq {a \in Accounts : Row[a].type = "internal"}
  /\ None \notin Banks \union Customers \union Accounts
  /\ Seed.banks \subseteq Banks /\ Whole(Seed) /\ Whole(Batch)
  /\ Sent \subseteq Nat \ {0}
  /\ Times \subseteq Nat /\ DayLength \in Nat \ {0}
  /\ Windows \subseteq {None} \union [from : Nat, to : Nat, naive : BOOLEAN]
  /\ MaxEntries \in Nat /\ MaxReads \in Nat

Views ==
  ({"fdx", "management"} \X {"accounts", "account", "transactions", "customers"})
  \union ({"openfinance"} \X {"accounts", "account", "transactions", "customers"})
  \union ({"berlin"} \X {"accounts", "account", "balances", "transactions"})
  \union ({"management"} \X {"stats", "participants"})

VARIABLES
  banks,       \* ids of the rows of the banks table
  customers,   \* ids of the rows of the customers table
  accounts,    \* ids of the rows of the accounts table
  journal,     \* the postings of the rows of the journal_entries table
  booked,      \* entries booked so far, for the bound and the ids
  request,     \* the request being answered
  reads,       \* requests so far, for the bound
  answers,     \* history: what was answered
  past         \* history: the journals there have been since the request began

tables == <<banks, customers, accounts, journal, booked>>
vars == <<banks, customers, accounts, journal, booked, request, reads, answers, past>>

NoRequest ==
  [pc |-> "idle", by |-> "none", of |-> "none", bank |-> None, holder |-> None,
   account |-> None, window |-> None, branches |-> {}, people |-> {}, todo |-> {},
   rows |-> {}, ledger |-> {}, began |-> {}]

Init ==
  /\ banks = Seed.banks /\ customers = Seed.customers /\ accounts = Seed.accounts
  /\ journal = {} /\ booked = 0
  /\ request = NoRequest /\ reads = 0
  /\ answers = {} /\ past = {}

-----------------------------------------------------------------------------
(* The core service *)

is_internal(a) == Row[a].type \in InternalTypes

Total(P) == MapThenSumSet(LAMBDA p : p.minor, P)

PostingsOf(j, a) == {p \in j : p.bank = Row[a].bank /\ p.account = a}

(* transaction_history sorts by time; entries of one time keep their order,  *)
(* and the two postings of an entry, which may be to one account, theirs.   *)
NotAfter(p, r) ==
  \/ p.at < r.at
  \/ p.at = r.at /\ (p.id < r.id \/ (p.id = r.id /\ p.leg <= r.leg))

(* Mutant: the balance follows the order of booking. *)
RunningAsBooked(P, p) == Total({r \in P : r.id < p.id \/ (r.id = p.id /\ r.leg <= p.leg)})

RunningBalance(P, p) == Total({r \in P : NotAfter(r, p)})

-----------------------------------------------------------------------------
(* The writers: one commit each. *)

(* post_external_transaction, against any account of a bank, the external *)
(* world itself included: the leg that loses comes first.                  *)
Book ==
  /\ booked < MaxEntries
  /\ \E a \in accounts, amount \in Sent, side \in {"credit", "debit"}, at \in Times :
       \E external \in {x \in accounts \cap External : Row[x].bank = Row[a].bank
                                                      /\ Row[x].currency = Row[a].currency} :
         LET money == from_decimal(amount, Row[a].currency)
             legs == IF side = "credit" THEN <<external, a>> ELSE <<a, external>>
             posting(n, sign) ==
               [id |-> booked + 1, leg |-> n, bank |-> Row[a].bank, account |-> legs[n],
                minor |-> sign * money, sent |-> sign * amount, at |-> at] IN
         journal' = journal \union {posting(1, -1), posting(2, 1)}
  /\ booked' = booked + 1
  /\ past' = past \union {journal'}
  /\ UNCHANGED <<banks, customers, accounts, request, reads, answers>>

(* Mutant: the accounts are left to another transaction. *)
AddCustomersOnly ==
  /\ customers' = customers \union Batch.customers
  /\ UNCHANGED <<banks, accounts, journal, booked, request, reads, answers, past>>

(* Customers and accounts in one transaction.  The bank was looked up when *)
(* the request began and may be gone by now.                               *)
AddBatch ==
  /\ customers' = customers \union Batch.customers
  /\ accounts' = accounts \union Batch.accounts
  /\ UNCHANGED <<banks, journal, booked, request, reads, answers, past>>

(* Mutant: the rows go before the bank does. *)
RemoveRowsFirst ==
  /\ \E b \in Banks :
       /\ customers' = {c \in customers : Home[c] # b}
       /\ accounts' = {a \in accounts : Row[a].bank # b}
       /\ journal' = {e \in journal : e.bank # b}
  /\ past' = past \union {journal'}
  /\ UNCHANGED <<banks, booked, request, reads, answers>>

(* delete_bank removes the row of the bank, and then all else it has.      *)
RemoveBank ==
  /\ \E b \in banks \intersect Closing : banks' = banks \ {b}
  /\ UNCHANGED <<customers, accounts, journal, booked, request, reads, answers, past>>

(* Two deletions at once both remove the rows, a late batch's included.    *)
RemoveRows ==
  /\ \E b \in Banks \ banks :
       /\ customers' = {c \in customers : Home[c] # b}
       /\ accounts' = {a \in accounts : Row[a].bank # b}
       /\ journal' = {e \in journal : e.bank # b}
  /\ past' = past \union {journal'}
  /\ UNCHANGED <<banks, booked, request, reads, answers>>

-----------------------------------------------------------------------------
(* Requests: the first step of each view, and what may be asked for.       *)

FirstStep(by, of) ==
  IF of \in {"customers", "stats"} THEN "list_customers"
  ELSE IF of = "accounts" \/ by = "berlin" THEN "list_accounts"
  ELSE IF by = "management" /\ of = "transactions" THEN "read_account"
  ELSE IF of = "participants" THEN "next_bank"
  ELSE "find_account"

(* The customer: Open Finance lists those of one, FDX and the management   *)
(* pages of one or all, a Berlin Group consent is of one.                  *)
Holders(by, of) ==
  IF by = "berlin" \/ <<by, of>> = <<"openfinance", "accounts">> THEN Customers
  ELSE IF <<by, of>> \in {"fdx", "management"} \X {"accounts"} \union {<<"fdx", "customers">>}
  THEN Customers \union {None} ELSE {None}

Named(of) == IF of \in {"account", "balances", "transactions"} THEN Accounts ELSE {None}

Ranges(by, of) ==
  IF of = "transactions" /\ by \in {"fdx", "openfinance"} THEN Windows ELSE {None}

Asked(by, of, b, c, a, range) ==
  LET first == FirstStep(by, of) IN
  [NoRequest EXCEPT !.pc = first, !.by = by, !.of = of, !.bank = b, !.holder = c, !.account = a,
     !.window = range, !.todo = IF first = "read_account" THEN {a} ELSE {},
     !.branches = IF of = "participants" THEN banks ELSE {}, !.began = journal]

(* Every request but participants resolves its bank first; whoever asks    *)
(* for a bank that is gone is told so and nothing else.                    *)
Ask ==
  /\ request.pc = "idle" /\ reads < MaxReads
  /\ reads' = reads + 1
  /\ \E v \in Views :
       \E b \in IF v[2] = "participants" THEN {None} ELSE banks,
          c \in Holders(v[1], v[2]), a \in Named(v[2]), range \in Ranges(v[1], v[2]) :
         request' = Asked(v[1], v[2], b, c, a, range)
  /\ past' = {journal}
  /\ UNCHANGED <<tables, answers>>

At(label) == request.pc = label /\ UNCHANGED <<tables, reads, past>>

Goto(q, label) == request' = [q EXCEPT !.pc = label] /\ UNCHANGED answers

(* Any failure, 404 or 500: the client learns nothing.                     *)
Refuse == request' = NoRequest /\ UNCHANGED answers

Answer(q) ==
  /\ request' = NoRequest
  /\ answers' = answers \union
       {[by |-> q.by, of |-> q.of, bank |-> q.bank, holder |-> q.holder, account |-> q.account,
         window |-> q.window, rows |-> q.rows, ledger |-> q.ledger, began |-> q.began,
         open |-> q.bank \in banks]}

-----------------------------------------------------------------------------
(* Customers, statistics *)

CustomersOf(b) == {c \in customers : Home[c] = b}

(* FDX answers with one customer, and refuses when there is none.          *)
ListCustomers ==
  LET q == request
      found == {c \in CustomersOf(q.bank) : q.holder # None => c = q.holder} IN
  /\ At("list_customers")
  /\ IF q.of = "stats"
     THEN Goto([q EXCEPT !.people = found], "list_accounts")
     ELSE IF q.by = "fdx"
     THEN \/ found = {} /\ Refuse
          \/ \E c \in found : Answer([q EXCEPT !.rows = {[customer |-> c]}])
     ELSE Answer([q EXCEPT !.rows = {[customer |-> c] : c \in found}])

(* The accounts of the bank, of one customer if one is named.  Only the    *)
(* management pages also list the internal ones; statistics count those of *)
(* nobody, too.                                                            *)
Listed(q) ==
  {a \in accounts : /\ Row[a].bank = q.bank
                    /\ q.holder # None => Row[a].customer = q.holder
                    /\ <<q.by, q.of>> # <<"management", "accounts">> => ~is_internal(a)
                    /\ q.by \in {"fdx", "berlin"} \/ q.of = "participants" => Row[a].customer # None}

(* Open Finance refuses an empty list; a Berlin Group list has no balances *)
(* but looks the bank up for each account; a Berlin Group account must be  *)
(* among those the consent allows.                                         *)
ListAccounts ==
  LET q == request
      found == Listed(q) IN
  /\ At("list_accounts")
  /\ \/ q.of = "stats" /\ Goto([q EXCEPT !.todo = found], "count")
     \/ q.of = "participants" /\ Goto([q EXCEPT !.todo = found], "next_row")
     \/ /\ q.of = "accounts"
        /\ IF found = {}
           THEN IF q.by = "openfinance" THEN Refuse ELSE Answer(q)
           ELSE Goto([q EXCEPT !.todo = found], IF q.by = "berlin" THEN "country" ELSE "read_account")
     \/ /\ q.of \in {"account", "balances", "transactions"}
        /\ IF q.account \notin found
           THEN Refuse
           ELSE Goto([q EXCEPT !.todo = {q.account}],
                     IF q.of = "balances" THEN "read_account" ELSE "country")

(* count_journal_entries *)
Count ==
  /\ At("count")
  /\ Answer([request EXCEPT !.rows =
       {[customers |-> request.people, accounts |-> request.todo,
         entries |-> Cardinality({p.id : p \in {r \in journal : r.bank = request.bank}})]}])

(* participants goes through the banks and looks up each account's owner;  *)
(* an owner who is gone is shown by the id.                                *)
NextBank ==
  LET q == request IN
  /\ At("next_bank")
  /\ \/ q.branches = {} /\ Answer(q)
     \/ \E b \in q.branches :
          Goto([q EXCEPT !.bank = b, !.branches = @ \ {b}], "list_accounts")

NextRow ==
  LET q == request
      known(a) == Row[a].customer \in CustomersOf(q.bank) IN
  /\ At("next_row")
  /\ \/ q.todo = {} /\ Goto(q, "next_bank")
     \/ \E a \in q.todo :
          /\ \A x \in q.todo : a <= x
          /\ Goto([q EXCEPT !.todo = @ \ {a},
                            !.rows = @ \union {[account |-> a, known |-> known(a),
                                                open |-> q.bank \in banks]}], "next_row")

-----------------------------------------------------------------------------
(* Accounts, balances, transactions *)

(* FDX hides internal accounts, Open Finance and the bank's own pages do   *)
(* not when they are asked for by id.                                      *)
FindAccount ==
  LET q == request IN
  /\ At("find_account")
  /\ IF q.account \in accounts /\ Row[q.account].bank = q.bank
          /\ (q.by = "fdx" => ~is_internal(q.account))
     THEN Goto([q EXCEPT !.todo = {q.account}], "read_account")
     ELSE Refuse

(* The bank is looked up for its country.  An account's details need no    *)
(* more, a list of them one lookup each.                                   *)
Country ==
  LET q == request
      a == Min(q.todo)
      listed == [q EXCEPT !.todo = @ \ {a}, !.rows = @ \union {[account |-> a]}] IN
  /\ At("country")
  /\ IF q.bank \notin banks THEN Refuse
     ELSE IF q.of = "balances" THEN Answer(q)
     ELSE IF q.of = "transactions" THEN Goto(q, "read_account")
     ELSE IF listed.todo = {} THEN Answer(listed) ELSE Goto(listed, "country")

(* balance and transaction_history read the account themselves.            *)
ReadAccount ==
  /\ At("read_account")
  /\ IF Min(request.todo) \in accounts /\ Row[Min(request.todo)].bank = request.bank
     THEN Goto(request, "read_entries")
     ELSE Refuse

Decimal(minor, a) == to_decimal(minor, Row[a].currency)

is_card(a) == Row[a].type = "credit_card"

Size(n) == IF n < 0 THEN -n ELSE n

(* float() of a decimal, as it is written: of the largest distance that    *)
(* fits the size of the amount, the nearest multiple.                      *)
Spacing(size) ==
  CHOOSE g \in Spacings : /\ g * Precision <= size
                          /\ \A h \in Spacings : h * Precision <= size => h <= g

Float(n) ==
  LET g == Spacing(Size(n))
      near == g * Quantize(Size(n), g) IN
  IF Size(n) <= FloatExact THEN n ELSE IF n < 0 THEN -near ELSE near

(* FDX answers with numbers, the others with decimals.                     *)
Written(by, n) == IF by = "fdx" THEN Float(n) ELSE n

(* FDX and Open Finance show what is owed on a card as a positive number.  *)
BalanceRow(by, a, balance) ==
  [account |-> a,
   balance |-> Written(by, IF by \in {"fdx", "openfinance"} /\ is_card(a) THEN -balance
                           ELSE balance),
   kind |-> CASE by = "fdx" /\ is_card(a) -> "loc"
              [] by = "openfinance" /\ is_card(a) -> "creditCard"
              [] OTHER -> "deposit"]

(* FDX tells direction and magnitude apart; the bank's own pages tell the  *)
(* direction and keep the sign.                                            *)
TransactionRow(by, a, P, p) ==
  LET signed == Decimal(p.minor, a) IN
  [account |-> a, entry |-> p.id, leg |-> p.leg,
   side |-> IF by \notin {"fdx", "management"} THEN "none"
            ELSE IF signed > 0 THEN "credit" ELSE "debit",
   amount |-> Written(by, IF by = "fdx" /\ signed < 0 THEN -signed ELSE signed),
   after |-> IF by \in {"fdx", "berlin"} THEN None ELSE Decimal(RunningBalance(P, p), a)]

(* FDX compares instants, Open Finance days; both ends are included.       *)
InWindow(by, window, at) ==
  LET day(t) == t \div DayLength IN
  window # None =>
    IF by = "fdx" THEN window.from <= at /\ at <= window.to
    ELSE day(window.from) <= day(at) /\ day(at) <= day(window.to)

(* An FDX window without a time zone cannot be compared with an entry.     *)
Incomparable(q, P) == q.by = "fdx" /\ q.window # None /\ q.window.naive /\ P # {}

ReadEntries ==
  LET q == request
      a == Min(q.todo)
      P == PostingsOf(journal, a)
      read == [q EXCEPT !.todo = @ \ {a}, !.ledger = @ \union P,
                !.rows = @ \union
                  IF q.of = "transactions"
                  THEN {TransactionRow(q.by, a, P, p) : p \in {r \in P : InWindow(q.by, q.window, r.at)}}
                  ELSE {BalanceRow(q.by, a, Decimal(Total(P), a))}] IN
  /\ At("read_entries")
  /\ IF q.of = "transactions" /\ Incomparable(q, P) THEN Refuse
     ELSE IF q.of = "balances" THEN Goto(read, "country")
     ELSE IF read.todo # {} THEN Goto(read, "read_account") ELSE Answer(read)

-----------------------------------------------------------------------------
(* All requests are answered: the only place where this may stop.  What is  *)
(* written after the last answer is of no interest.                        *)
AllAnswered == reads = MaxReads /\ request.pc = "idle"

Done == AllAnswered /\ UNCHANGED vars

Writes == ~AllAnswered /\ (Book \/ AddBatch \/ RemoveBank \/ RemoveRows)

Reads ==
  \/ Ask \/ ListCustomers \/ ListAccounts \/ Count \/ NextBank \/ NextRow
  \/ FindAccount \/ Country \/ ReadAccount \/ ReadEntries

Next == Done \/ Writes \/ Reads

Spec == Init /\ [][Next]_vars

-----------------------------------------------------------------------------
(* Properties: what a client makes of the answers it has. *)

HasBalances(x) == x.of = "balances" \/ (x.by # "berlin" /\ x.of \in {"account", "accounts"})

BalancesIn(x) == IF HasBalances(x) THEN x.rows ELSE {}
TransactionsIn(x) == IF x.of = "transactions" THEN x.rows ELSE {}

(* What the account holds, by a row of a list of accounts; what a posting *)
(* did to it, by a row of its transactions.                                *)
Held(r) == IF r.kind \in {"loc", "creditCard"} THEN -r.balance ELSE r.balance
Moved(by, r) == IF by = "fdx" /\ r.side = "debit" THEN -r.amount ELSE r.amount

(* Within half a minor unit; a number FDX cannot tell from its neighbours  *)
(* is off by what its digits leave open.                                   *)
CloseTo(by, shown, sent, unit) ==
  LET off == Size(shown - sent) IN
  \/ 2 * off <= unit
  \/ /\ by = "fdx" /\ 2 * Size(sent) + unit > 2 * FloatExact
     /\ Precision * (2 * off - unit) <= 2 * Size(sent) + unit

(* A client that posts a transaction and then looks for it finds its       *)
(* amount to the nearest minor unit from every protocol and on both sides  *)
(* of the entry, be they one account.  It is never shown in the other      *)
(* direction, in its own if it is more than half a unit, and where the     *)
(* side has a name nothing is called a debit.                              *)
WhatWasSentIsShown ==
  \A x \in answers : \A r \in TransactionsIn(x) : \E p \in x.ledger :
    LET shown == Moved(x.by, r)
        unit == Quantum(Row[r.account].currency) IN
    /\ p.id = r.entry /\ p.leg = r.leg /\ p.account = r.account
    /\ CloseTo(x.by, shown, p.sent, unit)
    /\ (p.sent > 0 => shown >= 0) /\ (2 * p.sent > unit => shown > 0)
    /\ (p.sent < 0 => shown <= 0) /\ (2 * p.sent < -unit => shown < 0)
    /\ r.side # "none" => (r.side = "credit" <=> shown > 0)

(* The balances after each transaction of a statement start from one       *)
(* opening balance and follow the amounts, also when the statement is of   *)
(* some days and when entries were booked with times in the past; without  *)
(* a range of days the opening balance is zero.                            *)
StatementsAddUp ==
  \A x \in answers :
    LET posting(r) == CHOOSE p \in x.ledger : p.id = r.entry /\ p.leg = r.leg
        upto(r) == {s \in x.rows : NotAfter(posting(s), posting(r))}
        opening(r) == r.after - MapThenSumSet(LAMBDA s : s.amount, upto(r)) IN
    x.of = "transactions" /\ x.by \in {"openfinance", "management"} =>
      \A r, s \in x.rows : /\ opening(r) = opening(s)
                           /\ x.window = None => opening(r) = 0

(* What the bank's tables may have been when an answer was put together:   *)
(* as long as the bank is open, they leave out nothing that was booked     *)
(* before the request.                                                     *)
OfAMoment(x) ==
  LET moments == {j \in past : x.open => \A p \in x.began : p.bank = x.bank => p \in j} IN
  /\ \A r \in BalancesIn(x) : \E j \in moments :
       Held(r) = Written(x.by, Decimal(Total(PostingsOf(j, r.account)), r.account))
  /\ x.of = "transactions" => \E j \in moments :
       {<<r.entry, r.leg, Moved(x.by, r)>> : r \in x.rows} =
       {<<p.id, p.leg, Written(x.by, Decimal(p.minor, x.account))>> :
          p \in {s \in PostingsOf(j, x.account) : InWindow(x.by, x.window, s.at)}}

(* An answer is what the account was at one moment between the request and *)
(* the answer, as the protocol writes it, for each account of a list.      *)
AnswersAreOfAMoment == [][\A x \in answers' \ answers : OfAMoment(x)]_vars

(* A batch is seen whole: whoever counts a customer in the statistics of   *)
(* an open bank counts the accounts created with it, but for those of an   *)
(* internal type, and every participant of an open bank has a name.        *)
ReadersSeeWholeBatches ==
  \A x \in answers : \A r \in x.rows :
    /\ x.of = "stats" /\ x.open =>
         \A a \in Accounts :
           Row[a].customer \in r.customers /\ ~is_internal(a) => a \in r.accounts
    /\ x.of = "participants" /\ r.open => r.known

=============================================================================
