------------------------------- MODULE History -------------------------------
(***************************************************************************)
(* How an account comes by its transaction history: transactions posted    *)
(* one by one, imported in bulk with dates of their own, or generated for  *)
(* a range of dates; and how the history is read back.                     *)
(*                                                                         *)
(* An action is one repository call of a request with the computation      *)
(* before it.  There is one bank; its internal accounts and what else goes *)
(* on in the ledger are in CoreBanking and Ledger.                         *)
(***************************************************************************)
EXTENDS Integers, FiniteSets, SequencesExt

CONSTANTS
  Accounts,      \* the bank's customer accounts
  Linked,        \* those with a customer
  Imports,       \* the bodies of imports: sequences of items
  Ranges,        \* the ranges history is generated for, in days
  Today,         \* the first reading of the clock
  MonthLength, PayDay, PurchaseDays,  \* the calendar: 30 or so, 25 and 28 days
  MaxPurchases,  \* purchases of a month: 28 at most
  Income, Spend, \* the amount of a salary and of a purchase
  Workers, None,
  MaxRequests, MaxCrashes   \* bounds: requests begun, crashes

(* A date as a client writes it: the instant, and its distance from UTC.   *)
Dates == [instant : Nat, offset : Int]

(* An item of an import; "matches" says whether its currency is missing or *)
(* that of its account.  The account None is one the bank does not have.   *)
Item == [account : Accounts \union {None}, amount : Int, matches : BOOLEAN,
         date : Dates \union {None}]

ASSUME HistoryAssumption ==
  /\ None \notin Accounts \union Dates
  /\ Linked \subseteq Accounts /\ IsFiniteSet(Linked)
  /\ Imports \subseteq Seq(Item)
  /\ Ranges \subseteq [start : Nat \ {0}, end : Nat]
  /\ Today \in Nat
  /\ MonthLength \in Nat \ {0}
  /\ PayDay \in 1..MonthLength /\ PurchaseDays \in 1..MonthLength
  /\ MaxPurchases \in Nat \ {0}
  /\ Income \in Nat \ {0} /\ Spend \in Nat \ {0}
  /\ MaxRequests \in Nat /\ MaxCrashes \in Nat

VARIABLES
  exists,    \* the bank does
  journal,   \* the rows of the journal in the order of seq
  clock,     \* what datetime.now(UTC) returns next
  frame,     \* frame[w]: what worker w is doing
  requests,  \* history: the requests begun, and their answers
  crashes

vars == <<exists, journal, clock, frame, requests, crashes>>

HistoryLabels == {"idle", "load", "bank", "list", "line", "post", "look", "balance"}

IdleFrame == [pc |-> "idle", request |-> 0, lines |-> <<>>, todo |-> <<>>, month |-> 0,
              row |-> None, booked |-> 0, total |-> 0]

Init ==
  /\ exists = TRUE /\ journal = <<>> /\ clock = Today
  /\ frame = [w \in Workers |-> IdleFrame]
  /\ requests = <<>> /\ crashes = 0

-----------------------------------------------------------------------------
(* Reading an account's history *)

(* list_journal_entries, by seq: their places in the journal *)
EntriesOf(a) == {i \in DOMAIN journal : journal[i].account = a}

Sum(s) == FoldLeft(LAMBDA x, e : x + e.amount, 0, s)

(* Mutant: in the order of insertion. *)
BeforeAsInserted(rows, i, j) == i < j

(* sorted() on booked_at, which is stable: the indices S of rows so that    *)
(* each is preceded by those before it.                                    *)
Before(rows, i, j) ==
  rows[i].booked < rows[j].booked \/ (rows[i].booked = rows[j].booked /\ i < j)

Sorted(rows, S) ==
  [n \in 1..Cardinality(S) |->
     CHOOSE i \in S : Cardinality({j \in S : Before(rows, j, i)}) = n - 1]

(* transaction_history: a stable sort by the date stored, and the running  *)
(* balance.                                                                *)
TransactionHistory(a) ==
  LET order == Sorted(journal, EntriesOf(a)) IN
  [n \in 1..Len(order) |->
     [entry |-> journal[order[n]], balance |-> Sum([k \in 1..n |-> journal[order[k]]])]]

-----------------------------------------------------------------------------
(* Beginning and ending a request *)

Idle(w) == frame' = [frame EXCEPT ![w] = IdleFrame]

Goto(w, label) == frame' = [frame EXCEPT ![w].pc = label]

Begin(w, label, op, items, accounts, range) ==
  /\ exists
  /\ frame[w].pc = "idle"
  /\ Len(requests) < MaxRequests
  /\ requests' = Append(requests, [op |-> op, items |-> items, range |-> range,
                                   answer |-> "none", count |-> 0])
  /\ frame' = [frame EXCEPT ![w].pc = label, ![w].request = Len(requests) + 1,
                            ![w].lines = items, ![w].todo = accounts]
  /\ UNCHANGED <<exists, journal, clock, crashes>>

Answer(w, answer, count) ==
  /\ requests' = [requests EXCEPT ![frame[w].request].answer = answer,
                                  ![frame[w].request].count = count]
  /\ Idle(w)

(* A transaction posted by itself is an import of one item. *)
BeginImport(w) ==
  \E items \in Imports : Begin(w, "line", "import", items, <<>>, None)

BeginGenerate(w) ==
  \E a \in Accounts, range \in Ranges :
    Begin(w, "load", "generate", <<>>, <<a>>, range)

BeginGenerateBank(w) ==
  \E range \in Ranges : Begin(w, "bank", "generate_bank", <<>>, <<>>, range)

Request(w) == requests[frame[w].request]

FirstMonth(range) == (range.start - 1) \div MonthLength

(* generate_history: the account, its customer and the bank *)
Load(w) ==
  /\ frame[w].pc = "load"
  /\ \/ ~exists /\ Answer(w, "failed", 0)
     \/ /\ exists
        /\ frame' = [frame EXCEPT ![w].pc = "line", ![w].month = FirstMonth(Request(w).range)]
        /\ UNCHANGED requests
  /\ UNCHANGED <<exists, journal, clock, crashes>>

(* generate_bank_history reads the bank ... *)
Bank(w) ==
  /\ frame[w].pc = "bank"
  /\ \/ ~exists /\ Answer(w, "failed", 0)
     \/ exists /\ Goto(w, "list") /\ UNCHANGED requests
  /\ UNCHANGED <<exists, journal, clock, crashes>>

(* ... and then lists the accounts that have a customer, by id *)
List(w) ==
  /\ frame[w].pc = "list"
  /\ frame' = [frame EXCEPT ![w].pc = "line",
                            ![w].todo = IF exists THEN SetToSeq(Linked) ELSE <<>>,
                            ![w].month = FirstMonth(Request(w).range)]
  /\ UNCHANGED <<exists, journal, clock, requests, crashes>>

-----------------------------------------------------------------------------
(* The months of the generator *)

Line(a, amount) == [account |-> a, amount |-> amount, matches |-> TRUE, date |-> None]

(* What a month may bring account a: the salary if its day is in the       *)
(* range, and the purchases whose days are.                                *)
MonthLines(a, month, range) ==
  LET first == month * MonthLength + 1
      payDay == IF first + PayDay - 1 < range.end THEN first + PayDay - 1 ELSE range.end
      days == first..(first + PurchaseDays - 1)
      inside == days \intersect (range.start..range.end)
      purchases == (IF inside = days THEN 1 ELSE 0)..(IF inside = {} THEN 0 ELSE MaxPurchases)
      income == IF payDay >= range.start THEN <<Line(a, Income)>> ELSE <<>> IN
  {income \o [i \in 1..n |-> Line(a, -Spend)] : n \in purchases}

Over(w) == frame[w].month * MonthLength + 1 > Request(w).range.end

NextMonth(w) ==
  /\ frame[w].pc = "line" /\ frame[w].lines = <<>> /\ frame[w].todo # <<>>
  /\ ~Over(w)
  /\ \E lines \in MonthLines(Head(frame[w].todo), frame[w].month, Request(w).range) :
       frame' = [frame EXCEPT ![w].lines = lines, ![w].month = @ + 1]
  /\ UNCHANGED <<exists, journal, clock, requests, crashes>>

(* The next account of the bank.  "counted" is what the last one adds.     *)
NextAccount(w, counted) ==
  /\ frame' = [frame EXCEPT ![w].pc = "line", ![w].todo = Tail(@), ![w].lines = <<>>,
                            ![w].month = FirstMonth(Request(w).range), ![w].row = None,
                            ![w].booked = 0, ![w].total = @ + counted]
  /\ UNCHANGED requests

AccountDone(w) ==
  /\ frame[w].pc = "line" /\ frame[w].lines = <<>> /\ frame[w].todo # <<>>
  /\ Over(w)
  /\ NextAccount(w, frame[w].booked)
  /\ UNCHANGED <<exists, journal, clock, crashes>>

(* The accounts, or the items of an import, are through.  An import is     *)
(* answered with the number of the items it was sent.                      *)
Done(w) ==
  /\ frame[w].pc = "line" /\ frame[w].lines = <<>> /\ frame[w].todo = <<>>
  /\ \/ Request(w).op = "import" /\ Answer(w, "ok", Len(Request(w).items))
     \/ Request(w).op = "generate" /\ Goto(w, "balance") /\ UNCHANGED requests
     \/ Request(w).op = "generate_bank" /\ Answer(w, "ok", frame[w].total + frame[w].booked)
  /\ UNCHANGED <<exists, journal, clock, crashes>>

(* generate_history answers with the balance, too, which it reads last.    *)
Balance(w) ==
  /\ frame[w].pc = "balance"
  /\ \/ ~exists /\ Answer(w, "failed", 0)
     \/ exists /\ Answer(w, "ok", frame[w].total + frame[w].booked)
  /\ UNCHANGED <<exists, journal, clock, crashes>>

-----------------------------------------------------------------------------
(* One line: an item of an import or an entry of the generator *)

Importing(w) == Request(w).op = "import"

(* Mutant: an item that is refused is passed over. *)
FailSkips(w) ==
  IF Importing(w)
  THEN /\ frame' = [frame EXCEPT ![w].pc = "line", ![w].lines = Tail(@)]
       /\ UNCHANGED requests
  ELSE Answer(w, "failed", 0)

(* An error ends the request, but for the generation for the whole bank it *)
(* only ends the account.                                                  *)
Fail(w) ==
  IF Request(w).op = "generate_bank" THEN NextAccount(w, 0) ELSE Answer(w, "failed", 0)

(* The entry is built, and dated by the clock unless the item has a date.  *)
(* The database keeps the date without its offset.                         *)
Build(w) ==
  LET line == Head(frame[w].lines)
      instant == IF line.date = None THEN clock ELSE line.date.instant
      offset == IF line.date = None THEN 0 ELSE line.date.offset IN
  /\ frame' = [frame EXCEPT ![w].pc = "post",
       ![w].row = [account |-> line.account, amount |-> line.amount, instant |-> instant,
                   booked |-> instant + offset, by |-> frame[w].request]]
  /\ clock' = IF line.date = None THEN clock + 1 ELSE clock
  /\ UNCHANGED requests

(* Mutant: an item that is refused is passed over, as accounts are.        *)
ConstructPassesOver(w) ==
  LET line == Head(frame[w].lines)
      fit == exists /\ line.account # None /\ line.matches IN
  /\ frame[w].pc = "line" /\ frame[w].lines # <<>>
  /\ \/ /\ Importing(w) /\ ~fit
        /\ frame' = [frame EXCEPT ![w].lines = Tail(@)]
        /\ UNCHANGED <<clock, requests>>
     \/ (Importing(w) => fit) /\ Build(w)
  /\ UNCHANGED <<exists, journal, crashes>>

(* post_external_transaction looks the account up and compares currencies; *)
(* the generator does neither.                                             *)
Construct(w) ==
  LET line == Head(frame[w].lines)
      fit == exists /\ line.account # None /\ line.matches IN
  /\ frame[w].pc = "line" /\ frame[w].lines # <<>>
  /\ \/ Importing(w) /\ ~fit /\ Fail(w) /\ UNCHANGED clock
     \/ (Importing(w) => fit) /\ Build(w)
  /\ UNCHANGED <<exists, journal, crashes>>

(* post_journal_entry *)
Post(w) ==
  /\ frame[w].pc = "post"
  /\ \/ ~exists /\ Fail(w) /\ UNCHANGED journal
     \/ /\ exists
        /\ journal' = Append(journal, frame[w].row)
        /\ frame' = [frame EXCEPT ![w].pc = IF Importing(w) THEN "look" ELSE "line",
                                  ![w].lines = Tail(@), ![w].row = None, ![w].booked = @ + 1]
        /\ UNCHANGED requests
  /\ UNCHANGED <<exists, clock, crashes>>

(* The record of the entry is read off the account's history. *)
Look(w) ==
  /\ frame[w].pc = "look"
  /\ \/ ~exists /\ Fail(w)
     \/ exists /\ Goto(w, "line") /\ UNCHANGED requests
  /\ UNCHANGED <<exists, journal, clock, crashes>>

-----------------------------------------------------------------------------
(* The bank is deleted with all it has. *)
DeleteBank ==
  /\ exists
  /\ exists' = FALSE /\ journal' = <<>>
  /\ UNCHANGED <<clock, frame, requests, crashes>>

(* The process dies and is started again: requests under way are lost.     *)
Crash ==
  /\ crashes < MaxCrashes
  /\ crashes' = crashes + 1
  /\ frame' = [w \in Workers |-> IdleFrame]
  /\ UNCHANGED <<exists, journal, clock, requests>>

Handles(w) ==
  \/ BeginImport(w) \/ BeginGenerate(w) \/ BeginGenerateBank(w)
  \/ Load(w) \/ Bank(w) \/ List(w) \/ NextMonth(w) \/ AccountDone(w) \/ Done(w) \/ Balance(w)
  \/ Construct(w) \/ Post(w) \/ Look(w)

Next == DeleteBank \/ Crash \/ \E w \in Workers : Handles(w)

Spec == Init /\ [][Next]_vars

-----------------------------------------------------------------------------
(* Properties *)

Rows == [account : Accounts, amount : Int, instant : Nat, booked : Int, by : 1..MaxRequests]

(* Variables are of their types.                                           *)
TypeOK ==
  /\ exists \in BOOLEAN
  /\ journal \in Seq(Rows)
  /\ clock \in Nat
  /\ \A w \in Workers :
       /\ frame[w].pc \in HistoryLabels
       /\ frame[w].request \in 0..Len(requests)
       /\ frame[w].lines \in Seq(Item) /\ frame[w].todo \in Seq(Accounts)
       /\ frame[w].month \in Nat /\ frame[w].booked \in Nat /\ frame[w].total \in Nat
       /\ frame[w].row \in Rows \union {None}
       /\ frame[w].row # None <=> frame[w].pc = "post"
  /\ \A r \in DOMAIN requests : requests[r].answer \in {"none", "ok", "failed"}
  /\ crashes \in 0..MaxCrashes

(* The places of what a request has booked, and the number a row has among *)
(* the rows of its request.                                                *)
RowsBy(r) == {i \in DOMAIN journal : journal[i].by = r}
Nr(i) == Cardinality({j \in 1..i : journal[j].by = journal[i].by})

Refused(item) == item.account = None \/ ~item.matches

(* As long as the bank exists, what an import has left in the journal, be  *)
(* it under way, answered, refused in the middle or cut off by a crash, is *)
(* an initial part of its items in their order, next to whatever other     *)
(* requests book.  All of them if it was acknowledged; all before the      *)
(* first one refused if it failed.                                         *)
ImportsArePrefixes ==
  exists => \A r \in DOMAIN requests :
    LET items == requests[r].items
        made == Cardinality(RowsBy(r)) IN
    requests[r].op = "import" =>
      /\ made <= Len(items)
      /\ \A i \in RowsBy(r) : /\ journal[i].account = items[Nr(i)].account
                             /\ journal[i].amount = items[Nr(i)].amount
                             /\ ~Refused(items[Nr(i)])
      /\ requests[r].answer = "ok" => made = Len(items)
      /\ requests[r].answer = "failed" => made < Len(items) /\ Refused(items[made + 1])

(* The number in an acknowledgement is that of the entries that were made  *)
(* for it: of an import, which is answered with the number of its items,   *)
(* that there was one for each of them; of a generation, which adds up     *)
(* what it made month by month and account by account, that none of it is  *)
(* left out or counted twice.                                              *)
AnswersCount ==
  exists => \A r \in DOMAIN requests :
    requests[r].answer = "ok" => requests[r].count = Cardinality(RowsBy(r))

(* Of two entries in an account's history whose dates were written at the   *)
(* same distance from UTC, the later comes last, however imports of the     *)
(* past and entries of the present follow each other.  (Not so at different *)
(* distances: the database keeps the wall clock.)                           *)
NewestLast ==
  \A a \in Accounts :
    LET h == TransactionHistory(a)
        offset(i) == h[i].entry.booked - h[i].entry.instant IN
    \A i, j \in DOMAIN h :
      i < j /\ offset(i) = offset(j) => h[i].entry.instant <= h[j].entry.instant

=============================================================================
