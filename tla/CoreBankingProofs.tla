------------------------- MODULE CoreBankingProofs -------------------------
(***************************************************************************)
(* What the core's repository calls preserve, for any set of requests that *)
(* uses them: lemmas for the modules that compose the core with requests.  *)
(***************************************************************************)
EXTENDS CoreBanking, WellFoundedInduction, FiniteSetTheorems, TLAPS

(* The database: typed, keyed, sound, and with no row whose id, or whose   *)
(* bank's id, new_id could return again.                                   *)
DbTypeOK ==
  /\ banks \subseteq Banks
  /\ customers \subseteq Customer
  /\ accounts \subseteq Account
  /\ journal \subseteq JournalEntry
  /\ seq \in Nat
  /\ issued \subseteq Banks \union CustomerIds \union AccountIds

DbKeys ==
  /\ banks \subseteq issued
  /\ \A a \in accounts : a.id \in issued /\ a.bank \in issued
  /\ \A a1, a2 \in accounts : a1.id = a2.id => a1 = a2
  /\ \A e \in journal : e.bank \in issued /\ e.seq <= seq
  /\ \A e1, e2 \in journal : e1.seq = e2.seq => e1 = e2

DbInv == DbTypeOK /\ DbKeys /\ LedgerIntegrity

(* There are finitely many rows. *)
FiniteDb == IsFiniteSet(customers) /\ IsFiniteSet(accounts) /\ IsFiniteSet(journal)

(* What any step does to the tables, seen from a request in flight: no     *)
(* bank comes back, and an open bank keeps its rows.                       *)
DbStep ==
  /\ issued \subseteq issued'
  /\ banks' \intersect issued \subseteq banks
  /\ \A a \in accounts : a.bank \in banks' => a \in accounts'
  /\ \A c \in customers : c.bank \in banks' => c \in customers'
  /\ \A e \in journal : e.bank \in banks' => e \in journal'

(* What a frame has established at each label of the core, given the       *)
(* tables bs, is and as.                                                   *)
Continuations == {"transfer", "book_external"}

CoreFrameOK(f, bs, is, as) ==
  /\ f.pc # "idle" => f.bank \in Banks /\ f.bank \in is
  /\ f.pc \in {"ensure", "open_internal"} =>
       f.ccy \in Currencies /\ f.payer \in AccountIds /\ f.then \in Continuations
  /\ f.pc \in {"transfer", "funds", "book_external"} =>
       f.ccy \in Currencies /\ f.payer \in AccountIds /\ f.payee \in AccountIds
  /\ f.pc = "post" =>
       /\ Balanced(f.postings)
       /\ f.bank \in bs =>
            \A n \in DOMAIN f.postings :
              n < f.next => PostingResolves(f.postings[n], f.bank, as)

(* The rows at start-up satisfy the database's invariant.                  *)
LEMMA SeedIsSound == ASSUME CoreInit PROVE DbInv
<1> USE SeedAssumption
<1>1. DbTypeOK
  <2>1. issued \subseteq Banks \union CustomerIds \union AccountIds
    <3>1. \A r \in Seed.customers : r.id \in CustomerIds /\ r.bank \in Banks
      BY DEF Customer
    <3>2. \A r \in Seed.accounts : r.id \in AccountIds /\ r.bank \in Banks
      BY DEF Account
    <3>3. \A r \in Seed.journal : r.bank \in Banks
      BY DEF JournalEntry
    <3> QED BY <3>1, <3>2, <3>3 DEF CoreInit, IssuedBySeed
  <2> QED BY <2>1 DEF CoreInit, DbTypeOK
<1>2. DbKeys
  BY DEF CoreInit, DbKeys, IssuedBySeed
<1>3. LedgerIntegrity
  BY DEF CoreInit, LedgerIntegrity
<1> QED BY <1>1, <1>2, <1>3 DEF DbInv

(* A step of another worker never undoes what a frame has established.     *)
LEMMA DbStepKeepsFrame ==
  ASSUME DbStep, NEW f, CoreFrameOK(f, banks, issued, accounts)
  PROVE  CoreFrameOK(f, banks', issued', accounts')
<1>1. ASSUME f.pc = "post", f.bank \in banks',
             NEW n \in DOMAIN f.postings, n < f.next
      PROVE  PostingResolves(f.postings[n], f.bank, accounts')
  <2>1. f.bank \in banks
    BY <1>1 DEF DbStep, CoreFrameOK
  <2>2. PostingResolves(f.postings[n], f.bank, accounts)
    BY <1>1, <2>1 DEF CoreFrameOK
  <2> QED BY <1>1, <2>2 DEF DbStep, PostingResolves
<1>2. f.pc # "idle" => f.bank \in issued'
  BY DEF DbStep, CoreFrameOK
<1> QED BY <1>1, <1>2 DEF CoreFrameOK

(* The two legs of a transfer are postings. *)
LEMMA TwoLegsType ==
  ASSUME NEW from \in AccountIds, NEW to \in AccountIds, NEW c \in Currencies,
         NEW m \in Int
  PROVE  TwoLegs(from, to, c, m) \in Seq(Posting)
<1>1. Leg(from, c, -m) \in Posting /\ Leg(to, c, m) \in Posting
  BY DEF Leg, Posting
<1> QED BY <1>1 DEF TwoLegs

(* Unchanged tables keep the database's invariant. *)
LEMMA TablesUnchanged ==
  ASSUME DbInv, UNCHANGED tables
  PROVE  DbInv' /\ DbStep
BY DEF DbInv, DbTypeOK, DbKeys, LedgerIntegrity, DbStep, tables

-----------------------------------------------------------------------------
(* The outcome of a core step for the worker that takes it.                *)
Advances(w, ops, labels) ==
  \E f \in Frame(ops, labels) :
    /\ frame' = [frame EXCEPT ![w] = f]
    /\ CoreFrameOK(f, banks', issued', accounts')
    /\ f.pc \in CoreLabels \union {"book_external"}

(* Moving a frame to "return" establishes all it has to.                   *)
LEMMA ReplyAdvances ==
  ASSUME NEW ops, NEW labels, CoreLabels \subseteq labels,
         frame \in [Workers -> Frame(ops, labels)], NEW w \in Workers,
         DbStep, CoreFrameOK(frame[w], banks, issued, accounts), frame[w].pc # "idle",
         NEW r \in Results, Reply(w, r)
  PROVE  Advances(w, ops, labels)
<1> DEFINE g == [frame[w] EXCEPT !.pc = "return", !.result = r]
<1>1. frame[w] \in Frame(ops, labels)
  OBVIOUS
<1>2. g \in Frame(ops, labels) /\ g.pc = "return" /\ g.bank = frame[w].bank
  BY <1>1 DEF Frame, CoreLabels
<1>3. frame' = [frame EXCEPT ![w] = g]
  BY DEF Reply
<1>4. CoreFrameOK(g, banks', issued', accounts')
  BY <1>2 DEF CoreFrameOK, DbStep
<1> QED BY <1>2, <1>3, <1>4 DEF Advances, CoreLabels

(* JournalEntry's constructor validates, so only balanced postings ever    *)
(* wait to be posted.                                                      *)
LEMMA BookAdvances ==
  ASSUME NEW ops, NEW labels, CoreLabels \subseteq labels,
         frame \in [Workers -> Frame(ops, labels)], NEW w \in Workers,
         DbStep, CoreFrameOK(frame[w], banks, issued, accounts), frame[w].pc # "idle",
         NEW ps \in Seq(Posting), Book(w, ps)
  PROVE  Advances(w, ops, labels)
<1> DEFINE g == [frame[w] EXCEPT !.pc = "post", !.postings = ps, !.next = 1]
<1>1. CASE ~Balanced(ps)
  <2>1. Reply(w, "unbalanced")
    BY <1>1 DEF Book
  <2> QED BY <2>1, ReplyAdvances DEF Results
<1>2. CASE Balanced(ps)
  <2>1. frame[w] \in Frame(ops, labels)
    OBVIOUS
  <2>2. /\ g \in Frame(ops, labels)
        /\ g.pc = "post" /\ g.bank = frame[w].bank /\ g.postings = ps /\ g.next = 1
    BY <2>1 DEF Frame, CoreLabels
  <2>3. frame' = [frame EXCEPT ![w] = g]
    BY <1>2 DEF Book
  <2>4. \A n \in DOMAIN ps : ~(n < 1)
    OBVIOUS
  <2>5. CoreFrameOK(g, banks', issued', accounts')
    BY <1>2, <2>2, <2>4 DEF CoreFrameOK, DbStep
  <2> QED BY <2>2, <2>3, <2>5 DEF Advances, CoreLabels
<1> QED BY <1>1, <1>2

LEMMA EnsureFindAdvances ==
  ASSUME NEW ops, NEW labels, CoreLabels \subseteq labels, DbInv,
         frame \in [Workers -> Frame(ops, labels)], NEW w \in Workers,
         CoreFrameOK(frame[w], banks, issued, accounts), EnsureFind(w)
  PROVE  Advances(w, ops, labels) /\ DbInv' /\ DbStep
<1>1. DbInv' /\ DbStep
  BY TablesUnchanged DEF EnsureFind
<1>2. frame[w] \in Frame(ops, labels) /\ frame[w].pc = "ensure"
  BY DEF EnsureFind
<1>3. CASE Goto(w, "open_internal")
  <2> DEFINE g == [frame[w] EXCEPT !.pc = "open_internal"]
  <2>1. /\ g \in Frame(ops, labels) /\ g.pc = "open_internal" /\ g.bank = frame[w].bank
        /\ g.ccy = frame[w].ccy /\ g.payer = frame[w].payer /\ g.then = frame[w].then
    BY <1>2 DEF Frame, CoreLabels
  <2>2. CoreFrameOK(g, banks', issued', accounts')
    BY <1>1, <1>2, <2>1 DEF CoreFrameOK, DbStep
  <2>3. frame' = [frame EXCEPT ![w] = g]
    BY <1>3 DEF Goto
  <2> QED BY <1>1, <2>1, <2>2, <2>3 DEF Advances, CoreLabels
<1>4. CASE \E a \in First(Matching(frame[w])) :
             frame' = [frame EXCEPT ![w].payee = a.id, ![w].pc = frame[w].then]
  <2>1. PICK a \in First(Matching(frame[w])) :
          frame' = [frame EXCEPT ![w].payee = a.id, ![w].pc = frame[w].then]
    BY <1>4
  <2>2. a.id \in AccountIds
    BY <2>1 DEF First, Matching, ListAccounts, DbInv, DbTypeOK, Account
  <2> DEFINE g == [frame[w] EXCEPT !.payee = a.id, !.pc = frame[w].then]
  <2>3. frame[w].then \in labels /\ frame[w].then \in Continuations
    BY <1>2 DEF Frame, CoreFrameOK
  <2>4. /\ g \in Frame(ops, labels) /\ g.pc = frame[w].then /\ g.bank = frame[w].bank
        /\ g.ccy = frame[w].ccy /\ g.payer = frame[w].payer /\ g.payee = a.id
    BY <1>2, <2>2, <2>3 DEF Frame
  <2>5. CoreFrameOK(g, banks', issued', accounts')
    BY <1>1, <1>2, <2>2, <2>3, <2>4 DEF CoreFrameOK, DbStep, Continuations
  <2>6. frame' = [frame EXCEPT ![w] = g]
    BY <2>1
  <2> QED BY <1>1, <2>3, <2>4, <2>5, <2>6 DEF Advances, CoreLabels, Continuations
<1> QED BY <1>3, <1>4 DEF EnsureFind

(* A new account's id is fresh, so keys stay unique; it belongs to nobody. *)
LEMMA AddAccountKeepsDb ==
  ASSUME DbInv, NEW a \in Account, a.id \notin issued, a.bank \in issued,
         a.bank \in banks /\ a.customer # None =>
           [id |-> a.customer, bank |-> a.bank] \in customers,
         accounts' = accounts \union {a}, issued' = issued \union {a.id},
         UNCHANGED <<banks, customers, journal, seq>>
  PROVE  DbInv' /\ DbStep
<1>1. DbTypeOK'
  <2>1. a.id \in AccountIds
    BY DEF Account
  <2> QED BY <2>1 DEF DbInv, DbTypeOK
<1>2. DbKeys'
  BY DEF DbInv, DbKeys
<1>3. LedgerIntegrity'
  <2>1. \A e \in journal : e.bank \in banks => EntryResolves(e, accounts')
    BY DEF DbInv, LedgerIntegrity, Consistent, EntryResolves, PostingResolves
  <2>2. \A x \in accounts' : x.bank \in banks /\ x.customer # None =>
          [id |-> x.customer, bank |-> x.bank] \in customers
    BY DEF DbInv, LedgerIntegrity, Consistent
  <2> QED BY <2>1, <2>2 DEF DbInv, LedgerIntegrity, Consistent
<1>4. DbStep
  BY DEF DbStep
<1> QED BY <1>1, <1>2, <1>3, <1>4 DEF DbInv

LEMMA EnsureOpenAdvances ==
  ASSUME NEW ops, NEW labels, CoreLabels \subseteq labels, DbInv,
         frame \in [Workers -> Frame(ops, labels)], NEW w \in Workers,
         CoreFrameOK(frame[w], banks, issued, accounts), EnsureOpen(w)
  PROVE  Advances(w, ops, labels) /\ DbInv' /\ DbStep
<1>1. PICK id \in AccountIds \ issued :
        /\ accounts' = accounts \union {[id |-> id, bank |-> frame[w].bank,
              ccy |-> frame[w].ccy, kind |-> frame[w].kind, customer |-> None]}
        /\ issued' = issued \union {id}
        /\ frame' = [frame EXCEPT ![w].payee = id, ![w].pc = frame[w].then]
  BY DEF EnsureOpen
<1>2. frame[w] \in Frame(ops, labels) /\ frame[w].pc = "open_internal"
  BY DEF EnsureOpen
<1> DEFINE a == [id |-> id, bank |-> frame[w].bank, ccy |-> frame[w].ccy,
                 kind |-> frame[w].kind, customer |-> None]
<1>3. frame[w].bank \in Banks /\ frame[w].bank \in issued /\ frame[w].ccy \in Currencies
  BY <1>2 DEF CoreFrameOK
<1>4. frame[w].kind \in Kinds
  BY <1>2 DEF Frame
<1>5. a \in Account /\ a.id = id /\ a.bank = frame[w].bank /\ a.customer = None
  BY <1>1, <1>3, <1>4 DEF Account
<1>6. DbInv' /\ DbStep
  <2>1. accounts' = accounts \union {a} /\ issued' = issued \union {a.id}
    BY <1>1
  <2>2. UNCHANGED <<banks, customers, journal, seq>>
    BY DEF EnsureOpen
  <2> HIDE DEF a
  <2> QED BY <2>1, <2>2, <1>1, <1>3, <1>5, AddAccountKeepsDb
<1> DEFINE g == [frame[w] EXCEPT !.payee = id, !.pc = frame[w].then]
<1>7. frame[w].then \in labels /\ frame[w].then \in Continuations
  BY <1>2 DEF Frame, CoreFrameOK
<1>8. /\ g \in Frame(ops, labels) /\ g.pc = frame[w].then /\ g.bank = frame[w].bank
      /\ g.ccy = frame[w].ccy /\ g.payer = frame[w].payer /\ g.payee = id
  BY <1>1, <1>2, <1>7 DEF Frame
<1>9. CoreFrameOK(g, banks', issued', accounts')
  BY <1>1, <1>2, <1>6, <1>7, <1>8 DEF CoreFrameOK, DbStep, Continuations
<1>10. frame' = [frame EXCEPT ![w] = g]
  BY <1>1
<1> QED BY <1>6, <1>7, <1>8, <1>9, <1>10 DEF Advances, CoreLabels, Continuations

LEMMA TransferLookupAdvances ==
  ASSUME NEW ops, NEW labels, CoreLabels \subseteq labels, DbInv,
         frame \in [Workers -> Frame(ops, labels)], NEW w \in Workers,
         CoreFrameOK(frame[w], banks, issued, accounts), TransferLookup(w)
  PROVE  Advances(w, ops, labels) /\ DbInv' /\ DbStep
<1>1. DbInv' /\ DbStep
  BY TablesUnchanged DEF TransferLookup
<1>2. frame[w] \in Frame(ops, labels) /\ frame[w].pc = "transfer"
  BY DEF TransferLookup
<1>3. CASE Reply(w, "invalid") \/ Reply(w, "not_found")
  BY <1>1, <1>2, <1>3, ReplyAdvances DEF Results
<1>4. CASE Book(w, TwoLegs(frame[w].payer, frame[w].payee, frame[w].ccy, frame[w].amount))
  <2>1. TwoLegs(frame[w].payer, frame[w].payee, frame[w].ccy, frame[w].amount) \in Seq(Posting)
    BY <1>2, TwoLegsType DEF CoreFrameOK, Frame
  <2> QED BY <1>1, <1>2, <1>4, <2>1, BookAdvances
<1>5. CASE Goto(w, "funds")
  <2> DEFINE g == [frame[w] EXCEPT !.pc = "funds"]
  <2>1. /\ g \in Frame(ops, labels) /\ g.pc = "funds" /\ g.bank = frame[w].bank
        /\ g.ccy = frame[w].ccy /\ g.payer = frame[w].payer /\ g.payee = frame[w].payee
    BY <1>2 DEF Frame, CoreLabels
  <2>2. CoreFrameOK(g, banks', issued', accounts')
    BY <1>1, <1>2, <2>1 DEF CoreFrameOK, DbStep
  <2>3. frame' = [frame EXCEPT ![w] = g]
    BY <1>5 DEF Goto
  <2> QED BY <1>1, <2>1, <2>2, <2>3 DEF Advances, CoreLabels
<1> QED BY <1>3, <1>4, <1>5 DEF TransferLookup

LEMMA TransferFundsAdvances ==
  ASSUME NEW ops, NEW labels, CoreLabels \subseteq labels, DbInv,
         frame \in [Workers -> Frame(ops, labels)], NEW w \in Workers,
         CoreFrameOK(frame[w], banks, issued, accounts), TransferFunds(w)
  PROVE  Advances(w, ops, labels) /\ DbInv' /\ DbStep
<1>1. DbInv' /\ DbStep
  BY TablesUnchanged DEF TransferFunds
<1>2. frame[w] \in Frame(ops, labels) /\ frame[w].pc = "funds"
  BY DEF TransferFunds
<1>3. CASE Reply(w, "not_found") \/ Reply(w, "mismatch") \/ Reply(w, "insufficient")
  BY <1>1, <1>2, <1>3, ReplyAdvances DEF Results
<1>4. CASE Book(w, TwoLegs(frame[w].payer, frame[w].payee, frame[w].ccy, frame[w].amount))
  <2>1. TwoLegs(frame[w].payer, frame[w].payee, frame[w].ccy, frame[w].amount) \in Seq(Posting)
    BY <1>2, TwoLegsType DEF CoreFrameOK, Frame
  <2> QED BY <1>1, <1>2, <1>4, <2>1, BookAdvances
<1> QED BY <1>3, <1>4 DEF TransferFunds

(* One more posting is known to resolve, as long as the bank is open.      *)
LEMMA PostCheckAdvances ==
  ASSUME NEW ops, NEW labels, CoreLabels \subseteq labels, DbInv,
         frame \in [Workers -> Frame(ops, labels)], NEW w \in Workers,
         CoreFrameOK(frame[w], banks, issued, accounts), PostCheck(w)
  PROVE  Advances(w, ops, labels) /\ DbInv' /\ DbStep
<1> DEFINE f == frame[w]
           rows == GetAccount(f.bank, f.postings[f.next].account)
<1>1. DbInv' /\ DbStep
  BY TablesUnchanged DEF PostCheck
<1>2. f \in Frame(ops, labels) /\ f.pc = "post"
  BY DEF PostCheck
<1>3. CASE Reply(w, "not_found") \/ Reply(w, "insufficient")
  BY <1>1, <1>2, <1>3, ReplyAdvances DEF Results
<1>4. CASE /\ \E a \in rows : a.ccy = f.postings[f.next].ccy
           /\ frame' = [frame EXCEPT ![w].next = @ + 1]
  <2>0. f.next \in Nat
    BY <1>2 DEF Frame
  <2>1. PICK m \in Nat : m = f.next + 1
    BY <2>0
  <2> DEFINE g == [frame[w] EXCEPT !.next = m]
  <2>2. /\ g \in Frame(ops, labels) /\ g.pc = "post" /\ g.bank = f.bank
        /\ g.postings = f.postings /\ g.next = m
    BY <1>2 DEF Frame
  <2>3. PostingResolves(f.postings[f.next], f.bank, accounts)
    BY <1>4 DEF GetAccount, PostingResolves
  <2>4. f.postings \in Seq(Posting)
    BY <1>2 DEF Frame
  <2>5. ASSUME f.bank \in banks, NEW n \in DOMAIN f.postings, n < f.next + 1
        PROVE  PostingResolves(f.postings[n], f.bank, accounts)
    <3>1. n \in Nat
      BY <2>4
    <3>2. n < f.next \/ n = f.next
      BY <2>0, <2>5, <3>1
    <3> QED BY <1>2, <2>3, <2>5, <3>2 DEF CoreFrameOK
  <2>6. UNCHANGED <<banks, issued, accounts>>
    BY DEF PostCheck, tables
  <2>7. CoreFrameOK(g, banks', issued', accounts')
    BY <1>2, <2>1, <2>2, <2>5, <2>6 DEF CoreFrameOK
  <2>8. frame' = [frame EXCEPT ![w] = g]
    BY <1>4, <2>1
  <2> QED BY <1>1, <2>2, <2>7, <2>8 DEF Advances, CoreLabels
<1> QED BY <1>3, <1>4 DEF PostCheck

(* The entry added has the next key, balances, and resolves.               *)
LEMMA PostAddAdvances ==
  ASSUME NEW ops, NEW labels, CoreLabels \subseteq labels, DbInv,
         frame \in [Workers -> Frame(ops, labels)], NEW w \in Workers,
         CoreFrameOK(frame[w], banks, issued, accounts), PostAdd(w)
  PROVE  Advances(w, ops, labels) /\ DbInv' /\ DbStep
<1> DEFINE f == frame[w]
           e == [seq |-> seq + 1, bank |-> f.bank, postings |-> f.postings, ref |-> f.ref]
<1>1. f \in Frame(ops, labels) /\ f.pc = "post" /\ f.next > Len(f.postings)
  BY DEF PostAdd
<1>2. /\ journal' = journal \union {e} /\ seq' = seq + 1
      /\ UNCHANGED <<banks, customers, accounts, issued>>
      /\ frame' = [frame EXCEPT ![w].pc = "return", ![w].result = "ok", ![w].entry = seq + 1]
  BY DEF PostAdd
<1>3. f.bank \in Banks /\ f.bank \in issued /\ Balanced(f.postings)
  BY <1>1 DEF CoreFrameOK
<1>4. f.postings \in Seq(Posting) /\ f.ref \in Refs \union {None} /\ f.next \in Nat
  BY <1>1 DEF Frame
<1>5. seq \in Nat /\ \A x \in journal : x.seq \in Nat /\ x.seq <= seq
  BY DEF DbInv, DbTypeOK, DbKeys, JournalEntry
<1>6. e \in JournalEntry /\ e.seq = seq + 1 /\ e.bank = f.bank /\ e.postings = f.postings
  BY <1>3, <1>4, <1>5 DEF JournalEntry
<1>7. f.bank \in banks => EntryResolves(e, accounts)
  <2>1. \A n \in DOMAIN f.postings : n < f.next
    BY <1>1, <1>4
  <2> QED BY <1>1, <1>6, <2>1 DEF EntryResolves, CoreFrameOK
<1> HIDE DEF e
<1>8. DbTypeOK'
  BY <1>2, <1>5, <1>6 DEF DbInv, DbTypeOK
<1>9. DbKeys'
  <2>1. \A x \in journal' : x.bank \in issued /\ x.seq <= seq + 1
    BY <1>2, <1>3, <1>5, <1>6 DEF DbInv, DbKeys
  <2>2. \A e1, e2 \in journal' : e1.seq = e2.seq => e1 = e2
    BY <1>2, <1>5, <1>6 DEF DbInv, DbKeys
  <2> QED BY <1>2, <2>1, <2>2 DEF DbInv, DbKeys
<1>10. LedgerIntegrity'
  BY <1>2, <1>3, <1>6, <1>7 DEF DbInv, LedgerIntegrity, Consistent
<1>11. DbStep
  BY <1>2 DEF DbStep
<1>12. Advances(w, ops, labels)
  <2>0. PICK m \in Nat : m = seq + 1
    BY <1>5
  <2> DEFINE g == [frame[w] EXCEPT !.pc = "return", !.result = "ok", !.entry = m]
  <2>1. g \in Frame(ops, labels) /\ g.pc = "return" /\ g.bank = f.bank
    BY <1>1 DEF Frame, CoreLabels, Results
  <2>2. CoreFrameOK(g, banks', issued', accounts')
    BY <1>2, <1>3, <2>1 DEF CoreFrameOK
  <2>3. frame' = [frame EXCEPT ![w] = g]
    BY <1>2, <2>0
  <2> QED BY <2>1, <2>2, <2>3 DEF Advances, CoreLabels
<1> QED BY <1>8, <1>9, <1>10, <1>11, <1>12 DEF DbInv

(* Whatever the requests are, a call into the core leaves the database     *)
(* sound, takes nothing from an open bank, and brings its own frame to a   *)
(* label with everything that label needs.                                 *)
THEOREM CoreStepAdvances ==
  ASSUME NEW ops, NEW labels, CoreLabels \subseteq labels, DbInv,
         frame \in [Workers -> Frame(ops, labels)], NEW w \in Workers,
         CoreFrameOK(frame[w], banks, issued, accounts), CoreStep(w)
  PROVE  Advances(w, ops, labels) /\ DbInv' /\ DbStep
BY EnsureFindAdvances, EnsureOpenAdvances, TransferLookupAdvances,
   TransferFundsAdvances, PostCheckAdvances, PostAddAdvances DEF CoreStep

(* A call into the core adds one row at most. *)
LEMMA CoreStepKeepsFinite ==
  ASSUME FiniteDb, NEW w, CoreStep(w)
  PROVE  FiniteDb'
<1>1. CASE UNCHANGED tables
  BY <1>1 DEF FiniteDb, tables
<1>2. CASE EnsureOpen(w)
  <2>1. PICK a : accounts' = accounts \union {a}
    BY <1>2 DEF EnsureOpen
  <2>2. UNCHANGED <<customers, journal>>
    BY <1>2 DEF EnsureOpen
  <2> QED BY <2>1, <2>2, FS_AddElement DEF FiniteDb
<1>3. CASE PostAdd(w)
  BY <1>3, FS_AddElement DEF PostAdd, FiniteDb
<1> QED BY <1>1, <1>2, <1>3 DEF CoreStep, EnsureFind, TransferLookup, TransferFunds, PostCheck

-----------------------------------------------------------------------------
(* Where a call into the core takes its frame. *)

(* The fields no call writes: they say what the request asked for.         *)
SameRequest(f, g) ==
  /\ g.op = f.op /\ g.bank = f.bank /\ g.customer = f.customer /\ g.ccy = f.ccy
  /\ g.payer = f.payer /\ g.amount = f.amount /\ g.overdraft = f.overdraft
  /\ g.kind = f.kind /\ g.then = f.then /\ g.ref = f.ref

(* ensure_internal_account has an account of the purpose and currency ...  *)
EnsureLeads(f, g) ==
  /\ f.pc \in {"ensure", "open_internal"} /\ g.pc = f.then /\ g.entry = f.entry
  /\ \E a \in accounts' :
       a.id = g.payee /\ a.bank = f.bank /\ a.kind = f.kind /\ a.ccy = f.ccy
  /\ journal' = journal

(* ... or will open one ... *)
OpenLeads(f, g) ==
  f.pc = "ensure" /\ g.pc = "open_internal" /\ g.entry = f.entry /\ UNCHANGED tables

(* ... the call fails ... *)
FailLeads(f, g) ==
  /\ f.pc \in {"transfer", "funds", "post"} /\ g.pc = "return"
  /\ g.result \in Results \ {"ok"} /\ g.entry = f.entry /\ UNCHANGED tables

(* ... the funds have to be looked at ... *)
FundsLeads(f, g) ==
  /\ f.pc = "transfer" /\ g.pc = "funds" /\ g.payee = f.payee /\ g.entry = f.entry
  /\ UNCHANGED tables

(* ... the two legs of the transfer are to be posted ... *)
BookLeads(f, g) ==
  /\ f.pc \in {"transfer", "funds"} /\ g.pc = "post" /\ g.payee = f.payee
  /\ g.entry = f.entry /\ g.next = 1
  /\ g.postings = TwoLegs(f.payer, f.payee, f.ccy, f.amount)
  /\ UNCHANGED tables

(* ... one posting more has been looked at ... *)
CheckLeads(f, g) ==
  /\ f.pc = "post" /\ g.pc = "post" /\ g.payee = f.payee /\ g.entry = f.entry
  /\ g.postings = f.postings /\ g.next = f.next + 1
  /\ UNCHANGED tables

(* ... or the entry has been added. *)
AddLeads(f, g) ==
  /\ f.pc = "post" /\ g.pc = "return" /\ g.result = "ok" /\ g.entry = seq + 1
  /\ g.payee = f.payee /\ g.postings = f.postings
  /\ accounts' = accounts
  /\ journal' = journal \union
       {[seq |-> seq + 1, bank |-> f.bank, postings |-> f.postings, ref |-> f.ref]}

Leads(f, g) ==
  \/ EnsureLeads(f, g) \/ OpenLeads(f, g) \/ FailLeads(f, g) \/ FundsLeads(f, g)
  \/ BookLeads(f, g) \/ CheckLeads(f, g) \/ AddLeads(f, g)

LEMMA ReplyLeads ==
  ASSUME NEW ops, NEW labels, frame \in [Workers -> Frame(ops, labels)], NEW w \in Workers,
         frame[w].pc \in {"transfer", "funds", "post"}, UNCHANGED tables,
         NEW r \in Results \ {"ok"}, Reply(w, r)
  PROVE  SameRequest(frame[w], frame'[w]) /\ Leads(frame[w], frame'[w])
<1> DEFINE f == frame[w]
           g == [f EXCEPT !.pc = "return", !.result = r]
<1>1. frame' = [frame EXCEPT ![w] = g] /\ f \in Frame(ops, labels)
  BY DEF Reply
<1>2. SameRequest(f, g) /\ g.pc = "return" /\ g.result = r /\ g.entry = f.entry
  BY <1>1 DEF Frame, SameRequest
<1> HIDE DEF g
<1>3. frame'[w] = g
  BY <1>1
<1> QED BY <1>2, <1>3 DEF Leads, FailLeads

LEMMA BookingLeads ==
  ASSUME NEW ops, NEW labels, frame \in [Workers -> Frame(ops, labels)], NEW w \in Workers,
         frame[w].pc \in {"transfer", "funds"}, UNCHANGED tables,
         Book(w, TwoLegs(frame[w].payer, frame[w].payee, frame[w].ccy, frame[w].amount))
  PROVE  SameRequest(frame[w], frame'[w]) /\ Leads(frame[w], frame'[w])
<1> DEFINE f == frame[w]
           ps == TwoLegs(f.payer, f.payee, f.ccy, f.amount)
           g == [f EXCEPT !.pc = "post", !.postings = ps, !.next = 1]
<1>1. CASE Reply(w, "unbalanced")
  BY <1>1, ReplyLeads DEF Results
<1>2. CASE frame' = [frame EXCEPT ![w] = g]
  <2>1. f \in Frame(ops, labels)
    OBVIOUS
  <2> HIDE DEF ps
  <2>2. /\ SameRequest(f, g) /\ g.pc = "post" /\ g.postings = ps /\ g.next = 1
        /\ g.payee = f.payee /\ g.entry = f.entry
    BY <2>1 DEF Frame, SameRequest
  <2> HIDE DEF g
  <2>3. frame'[w] = g
    BY <1>2
  <2> QED BY <2>2, <2>3 DEF Leads, BookLeads, ps
<1> QED BY <1>1, <1>2 DEF Book

(* Every call of the core does one of these things, and leaves what the    *)
(* request asked for alone.                                                *)
THEOREM CoreStepLeads ==
  ASSUME NEW ops, NEW labels, frame \in [Workers -> Frame(ops, labels)], NEW w \in Workers,
         CoreStep(w)
  PROVE  SameRequest(frame[w], frame'[w]) /\ Leads(frame[w], frame'[w])
<1> DEFINE f == frame[w]
<1>0. f \in Frame(ops, labels)
  OBVIOUS
<1>1. CASE EnsureFind(w) /\ Goto(w, "open_internal")
  <2> DEFINE g == [f EXCEPT !.pc = "open_internal"]
  <2>1. SameRequest(f, g) /\ g.pc = "open_internal" /\ g.entry = f.entry
    BY <1>0 DEF Frame, SameRequest
  <2>2. frame' = [frame EXCEPT ![w] = g]
    BY <1>1 DEF Goto
  <2> HIDE DEF g
  <2>3. frame'[w] = g
    BY <2>2
  <2> QED BY <1>1, <2>1, <2>3 DEF EnsureFind, Leads, OpenLeads
<1>2. ASSUME NEW id, frame' = [frame EXCEPT ![w].payee = id, ![w].pc = frame[w].then],
             frame[w].pc \in {"ensure", "open_internal"}, journal' = journal,
             \E a \in accounts' :
               a.id = id /\ a.bank = f.bank /\ a.kind = f.kind /\ a.ccy = f.ccy
      PROVE  SameRequest(frame[w], frame'[w]) /\ Leads(frame[w], frame'[w])
  <2> DEFINE g == [f EXCEPT !.payee = id, !.pc = f.then]
  <2>1. SameRequest(f, g) /\ g.pc = f.then /\ g.entry = f.entry /\ g.payee = id
    BY <1>0 DEF Frame, SameRequest
  <2>2. frame' = [frame EXCEPT ![w] = g]
    BY <1>2
  <2> HIDE DEF g
  <2>3. frame'[w] = g
    BY <2>2
  <2> QED BY <1>2, <2>1, <2>3 DEF Leads, EnsureLeads
<1>3. ASSUME EnsureFind(w), NEW a \in First(Matching(f)),
             frame' = [frame EXCEPT ![w].payee = a.id, ![w].pc = f.then]
      PROVE  SameRequest(frame[w], frame'[w]) /\ Leads(frame[w], frame'[w])
  <2>1. /\ a \in accounts /\ a.bank = f.bank /\ a.kind = f.kind /\ a.ccy = f.ccy
        /\ frame[w].pc = "ensure" /\ UNCHANGED <<accounts, journal>>
    BY <1>3 DEF First, Matching, ListAccounts, EnsureFind, tables
  <2> DEFINE id == a.id
  <2>2. \E x \in accounts' : x.id = id /\ x.bank = f.bank /\ x.kind = f.kind /\ x.ccy = f.ccy
    BY <2>1
  <2>3. frame' = [frame EXCEPT ![w].payee = id, ![w].pc = frame[w].then]
    BY <1>3
  <2> HIDE DEF id
  <2> QED BY <1>2, <2>1, <2>2, <2>3
<1>4. CASE EnsureOpen(w)
  <2>1. PICK id \in AccountIds \ issued :
          /\ accounts' = accounts \union {[id |-> id, bank |-> f.bank, ccy |-> f.ccy,
                                            kind |-> f.kind, customer |-> None]}
          /\ frame' = [frame EXCEPT ![w].payee = id, ![w].pc = f.then]
    BY <1>4 DEF EnsureOpen
  <2> DEFINE a == [id |-> id, bank |-> f.bank, ccy |-> f.ccy, kind |-> f.kind, customer |-> None]
  <2>2. a \in accounts' /\ a.id = id /\ a.bank = f.bank /\ a.kind = f.kind /\ a.ccy = f.ccy
    BY <2>1
  <2> HIDE DEF a
  <2>3. frame[w].pc = "open_internal" /\ journal' = journal
    BY <1>4 DEF EnsureOpen
  <2> QED BY <1>2, <2>1, <2>2, <2>3
<1>5. CASE TransferLookup(w) /\ Goto(w, "funds")
  <2> DEFINE g == [f EXCEPT !.pc = "funds"]
  <2>1. SameRequest(f, g) /\ g.pc = "funds" /\ g.entry = f.entry /\ g.payee = f.payee
    BY <1>0 DEF Frame, SameRequest
  <2>2. frame' = [frame EXCEPT ![w] = g]
    BY <1>5 DEF Goto
  <2> HIDE DEF g
  <2>3. frame'[w] = g
    BY <2>2
  <2> QED BY <1>5, <2>1, <2>3 DEF TransferLookup, Leads, FundsLeads
<1>6. CASE TransferLookup(w) \/ TransferFunds(w)
  BY <1>5, <1>6, ReplyLeads, BookingLeads DEF TransferLookup, TransferFunds, Results
<1>7. CASE PostCheck(w) /\ frame' = [frame EXCEPT ![w].next = @ + 1]
  <2> DEFINE g == [f EXCEPT !.next = f.next + 1]
  <2>1. /\ SameRequest(f, g) /\ g.pc = f.pc /\ g.entry = f.entry /\ g.payee = f.payee
        /\ g.postings = f.postings /\ g.next = f.next + 1
    BY <1>0 DEF Frame, SameRequest
  <2>2. frame' = [frame EXCEPT ![w] = g]
    BY <1>7
  <2> HIDE DEF g
  <2>3. frame'[w] = g
    BY <2>2
  <2> QED BY <1>7, <2>1, <2>3 DEF PostCheck, Leads, CheckLeads
<1>8. CASE PostCheck(w)
  BY <1>7, <1>8, ReplyLeads DEF PostCheck, Results
<1>9. CASE PostAdd(w)
  <2> DEFINE g == [f EXCEPT !.pc = "return", !.result = "ok", !.entry = seq + 1]
  <2>1. /\ SameRequest(f, g) /\ g.pc = "return" /\ g.result = "ok" /\ g.entry = seq + 1
        /\ g.payee = f.payee /\ g.postings = f.postings
    BY <1>0 DEF Frame, SameRequest
  <2>2. frame' = [frame EXCEPT ![w] = g]
    BY <1>9 DEF PostAdd
  <2> HIDE DEF g
  <2>3. frame'[w] = g
    BY <2>2
  <2> QED BY <1>9, <2>1, <2>3 DEF PostAdd, Leads, AddLeads
<1> QED BY <1>1, <1>3, <1>4, <1>6, <1>8, <1>9 DEF CoreStep, EnsureFind

-----------------------------------------------------------------------------
(* Sums over finite sets.  Balances, an entry's net amount and the totals  *)
(* of the properties are MapThenSumSet of the community modules: a         *)
(* recursive function over the subsets of a set.  Sum is the same for the  *)
(* values of a function, which a lemma can take as a parameter.  Induction *)
(* is by a least counterexample, which needs no operator parameter.        *)
Chosen(s) == CHOOSE y \in s : TRUE

(* One unfolding of the recursion. *)
Adding(i, g, S) ==
  [s \in SUBSET S |-> IF s = {} THEN 0 ELSE g[Chosen(s)] + i[s \ {Chosen(s)}]]

Sum(g, S) == (CHOOSE i : i = Adding(i, g, S))[S]

(* Every set of natural numbers that is not empty has a least element.     *)
LEMMA LeastNatural ==
  ASSUME NEW T \in SUBSET Nat, T # {}
  PROVE  \E n \in T : \A m \in T : n <= m
<1> DEFINE Less == {p \in Nat \X Nat : p[1] < p[2]}
<1>1. IsWellFoundedOn(Less, Nat)
  BY NatLessThanWellFounded DEF OpToRel
<1>2. PICK n \in T : \A m \in T : ~(<<m, n>> \in Less)
  BY <1>1, WFMin
<1>3. ASSUME NEW m \in T PROVE n <= m
  <2>1. ~(<<m, n>>[1] < <<m, n>>[2]) /\ m \in Nat /\ n \in Nat
    BY <1>2
  <2> QED BY <2>1
<1> QED BY <1>3

(* The element the recursion takes next is one of the set. *)
LEMMA ChosenIsMember ==
  ASSUME NEW s, s # {}
  PROVE  Chosen(s) \in s
BY DEF Chosen

(* What is left without it is smaller. *)
LEMMA Smaller ==
  ASSUME NEW s, IsFiniteSet(s), s # {}
  PROVE  /\ Cardinality(s) \in Nat \ {0}
         /\ IsFiniteSet(s \ {Chosen(s)})
         /\ Cardinality(s \ {Chosen(s)}) = Cardinality(s) - 1
BY ChosenIsMember, FS_RemoveElement, FS_CardinalityType, FS_EmptySet

(* The recursion has a solution: CHOOSE has something to choose. *)
LEMMA AddingExists ==
  ASSUME NEW S, IsFiniteSet(S), NEW g, \A x \in S : g[x] \in Int
  PROVE  \E i \in [SUBSET S -> Int] : i = Adding(i, g, S)
<1> DEFINE P(n) == \E i \in [SUBSET S -> Int] : \A s \in SUBSET S :
                     Cardinality(s) <= n => i[s] = Adding(i, g, S)[s]
           Bad == {n \in Nat : ~P(n)}
<1>0. \A s \in SUBSET S : IsFiniteSet(s) /\ Cardinality(s) \in Nat
  BY FS_Subset, FS_CardinalityType
<1>1. Bad = {}
  <2> SUFFICES ASSUME Bad # {} PROVE FALSE
    OBVIOUS
  <2>1. PICK n \in Bad : \A m \in Bad : n <= m
    BY LeastNatural
  <2>2. CASE n = 0
    <3> DEFINE i == [s \in SUBSET S |-> 0]
    <3>1. i \in [SUBSET S -> Int]
      OBVIOUS
    <3>2. ASSUME NEW s \in SUBSET S, Cardinality(s) <= 0
          PROVE  i[s] = Adding(i, g, S)[s]
      <4>1. s = {}
        BY <1>0, <3>2, FS_EmptySet
      <4> QED BY <4>1 DEF Adding
    <3> HIDE DEF i
    <3> QED BY <2>1, <2>2, <3>1, <3>2
  <2>3. CASE n # 0
    <3>0. Bad \subseteq Nat
      OBVIOUS
    <3>1. n - 1 \in Nat /\ n \in Nat /\ ~(n <= n - 1) /\ 0 <= n - 1
      <4> HIDE DEF Bad
      <4> QED BY <2>1, <2>3, <3>0
    <3>9. n - 1 \notin Bad
      <4> HIDE DEF Bad
      <4> QED BY <2>1, <3>1
    <3>2. PICK i \in [SUBSET S -> Int] : \A s \in SUBSET S :
                     Cardinality(s) <= n - 1 => i[s] = Adding(i, g, S)[s]
      BY <3>1, <3>9
    <3> DEFINE j == [s \in SUBSET S |-> IF Cardinality(s) <= n - 1 THEN i[s]
                                        ELSE g[Chosen(s)] + i[s \ {Chosen(s)}]]
    <3>3. \A s \in SUBSET S : s # {} =>
            /\ Chosen(s) \in S /\ s \ {Chosen(s)} \in SUBSET S
            /\ Cardinality(s) \in Nat \ {0} /\ Cardinality(s \ {Chosen(s)}) = Cardinality(s) - 1
      BY <1>0, ChosenIsMember, Smaller
    <3>4. Cardinality({}) = 0
      BY FS_EmptySet
    <3>5. j \in [SUBSET S -> Int]
      <4>1. ASSUME NEW s \in SUBSET S PROVE j[s] \in Int
        <5>1. CASE Cardinality(s) <= n - 1
          BY <5>1
        <5>2. CASE ~(Cardinality(s) <= n - 1)
          <6>1. s # {}
            BY <5>2, <3>4, <3>1
          <6> QED BY <6>1, <3>3, <5>2
        <5> QED BY <5>1, <5>2
      <4> QED BY <4>1
    <3>6. ASSUME NEW s \in SUBSET S, Cardinality(s) <= n
          PROVE  j[s] = Adding(j, g, S)[s]
      <4>1. CASE s = {}
        <5>1. i[s] = 0
          BY <3>1, <3>2, <3>4, <4>1 DEF Adding
        <5> QED BY <5>1, <3>1, <3>4, <4>1 DEF Adding
      <4>2. CASE s # {}
        <5> DEFINE r == s \ {Chosen(s)}
        <5>1. r \in SUBSET S /\ Cardinality(r) <= n - 1 /\ Cardinality(s) \in Nat
          BY <1>0, <3>3, <3>1, <3>6, <4>2
        <5>2. j[r] = i[r]
          BY <5>1
        <5>3. j[s] = g[Chosen(s)] + i[r]
          <6>1. CASE Cardinality(s) <= n - 1
            <7>1. i[s] = Adding(i, g, S)[s]
              BY <6>1, <3>2
            <7> QED BY <6>1, <7>1, <4>2 DEF Adding
          <6>2. CASE ~(Cardinality(s) <= n - 1)
            BY <6>2
          <6> QED BY <6>1, <6>2
        <5>4. Adding(j, g, S)[s] = g[Chosen(s)] + j[r]
          BY <4>2 DEF Adding
        <5> QED BY <5>2, <5>3, <5>4
      <4> QED BY <4>1, <4>2
    <3> HIDE DEF j
    <3> QED BY <3>1, <3>5, <3>6, <2>1
  <2> QED BY <2>2, <2>3
<1>2. PICK i \in [SUBSET S -> Int] : \A s \in SUBSET S :
         Cardinality(s) <= Cardinality(S) => i[s] = Adding(i, g, S)[s]
  BY <1>1, <1>0
<1>3. \A s \in SUBSET S : i[s] = Adding(i, g, S)[s]
  BY <1>2, <1>0, FS_Subset
<1>4. i = Adding(i, g, S)
  BY <1>3 DEF Adding
<1> QED BY <1>4

(* Solutions for two sets and functions agree where these do. *)
LEMMA AddingUnique ==
  ASSUME NEW S1, NEW S2, NEW g1, NEW g2, NEW i1, NEW i2,
         i1 = Adding(i1, g1, S1), i2 = Adding(i2, g2, S2),
         NEW s, IsFiniteSet(s), s \subseteq S1, s \subseteq S2,
         \A x \in s : g1[x] = g2[x]
  PROVE  i1[s] = i2[s]
<1> DEFINE Bad == {n \in Nat : \E r \in SUBSET s : Cardinality(r) = n /\ i1[r] # i2[r]}
<1>1. \A r \in SUBSET s : IsFiniteSet(r) /\ Cardinality(r) \in Nat
  BY FS_Subset, FS_CardinalityType
<1>2. Bad = {}
  <2> SUFFICES ASSUME Bad # {} PROVE FALSE
    OBVIOUS
  <2>1. PICK n \in Bad : \A m \in Bad : n <= m
    BY LeastNatural
  <2>2. PICK r \in SUBSET s : Cardinality(r) = n /\ i1[r] # i2[r]
    BY <2>1
  <2>3. CASE r = {}
    BY <2>2, <2>3 DEF Adding
  <2>4. CASE r # {}
    <3> DEFINE c == Chosen(r)
    <3>1. /\ c \in r /\ r \ {c} \in SUBSET s
          /\ n \in Nat \ {0} /\ Cardinality(r \ {c}) = n - 1
      BY <1>1, <2>2, <2>4, ChosenIsMember, Smaller
    <3>2. n - 1 \in Nat /\ ~(n <= n - 1)
      BY <3>1
    <3>3. n - 1 \notin Bad
      <4> HIDE DEF Bad
      <4> QED BY <2>1, <3>2
    <3>4. i1[r \ {c}] = i2[r \ {c}]
      BY <3>1, <3>2, <3>3
    <3>5. i1[r] = g1[c] + i1[r \ {c}]
      BY <2>4 DEF Adding
    <3>6. i2[r] = g2[c] + i2[r \ {c}]
      BY <2>4 DEF Adding
    <3> QED BY <2>2, <3>1, <3>4, <3>5, <3>6
  <2> QED BY <2>3, <2>4
<1> QED BY <1>1, <1>2

(* A sum is the value of any solution over a larger set. *)
LEMMA SumIsAdding ==
  ASSUME NEW S, IsFiniteSet(S), NEW g, \A x \in S : g[x] \in Int,
         NEW i, NEW T, i = Adding(i, g, T), S \subseteq T
  PROVE  Sum(g, S) = i[S]
<1> DEFINE it == CHOOSE j : j = Adding(j, g, S)
<1>1. it = Adding(it, g, S)
  BY AddingExists
<1>2. Sum(g, S) = it[S]
  BY DEF Sum
<1> HIDE DEF it
<1> QED BY <1>1, <1>2, AddingUnique

(* A sum is a number, and adds the chosen element to the rest. *)
LEMMA SumUnfolds ==
  ASSUME NEW S, IsFiniteSet(S), NEW g, \A x \in S : g[x] \in Int
  PROVE  /\ Sum(g, S) \in Int
         /\ S = {} => Sum(g, S) = 0
         /\ S # {} => Sum(g, S) = g[Chosen(S)] + Sum(g, S \ {Chosen(S)})
<1>1. PICK i \in [SUBSET S -> Int] : i = Adding(i, g, S)
  BY AddingExists
<1>2. Sum(g, S) = i[S]
  BY <1>1, SumIsAdding
<1>3. S = {} => i[S] = 0
  BY <1>1 DEF Adding
<1>4. ASSUME S # {} PROVE i[S] = g[Chosen(S)] + Sum(g, S \ {Chosen(S)})
  <2>1. IsFiniteSet(S \ {Chosen(S)})
    BY FS_RemoveElement
  <2>2. Sum(g, S \ {Chosen(S)}) = i[S \ {Chosen(S)}]
    BY <1>1, <2>1, SumIsAdding
  <2>3. i[S] = g[Chosen(S)] + i[S \ {Chosen(S)}]
    BY <1>1, <1>4 DEF Adding
  <2> QED BY <2>2, <2>3
<1> QED BY <1>1, <1>2, <1>3, <1>4

(* A sum depends on the values at the elements only. *)
LEMMA SumSame ==
  ASSUME NEW S, IsFiniteSet(S), NEW g, \A x \in S : g[x] \in Int,
         NEW h, \A x \in S : h[x] = g[x]
  PROVE  Sum(h, S) = Sum(g, S)
<1>1. PICK i \in [SUBSET S -> Int] : i = Adding(i, g, S)
  BY AddingExists
<1>2. PICK j \in [SUBSET S -> Int] : j = Adding(j, h, S)
  BY AddingExists
<1>3. i[S] = j[S]
  BY <1>1, <1>2, AddingUnique
<1> QED BY <1>1, <1>2, <1>3, SumIsAdding

(* A new element adds its value: the order of the recursion is of no       *)
(* consequence.                                                            *)
LEMMA SumAdd ==
  ASSUME NEW S, IsFiniteSet(S), NEW x, x \notin S,
         NEW g, \A y \in S \union {x} : g[y] \in Int
  PROVE  Sum(g, S \union {x}) = g[x] + Sum(g, S)
<1> DEFINE U == S \union {x}
           Fails(r, y) == y \notin r /\ Sum(g, r \union {y}) # g[y] + Sum(g, r)
           Bad == {n \in Nat : \E r \in SUBSET U, y \in U : Cardinality(r) = n /\ Fails(r, y)}
<1>1. \A r \in SUBSET U : IsFiniteSet(r) /\ Cardinality(r) \in Nat
  BY FS_Subset, FS_CardinalityType, FS_AddElement
<1>2. Bad = {}
  <2> SUFFICES ASSUME Bad # {} PROVE FALSE
    OBVIOUS
  <2>1. PICK n \in Bad : \A m \in Bad : n <= m
    BY LeastNatural
  <2>2. PICK r \in SUBSET U, y \in U : Cardinality(r) = n /\ Fails(r, y)
    BY <2>1
  <2> DEFINE R == r \union {y}
             c == Chosen(R)
  <2>3. /\ IsFiniteSet(r) /\ IsFiniteSet(R) /\ R # {} /\ n \in Nat
        /\ \A z \in R : g[z] \in Int
    BY <1>1, <2>2
  <2>4. c \in R
    BY <2>3, ChosenIsMember
  <2>5. Sum(g, R) = g[c] + Sum(g, R \ {c})
    BY <2>3, SumUnfolds
  <2>6. CASE c = y
    <3>1. R \ {c} = r
      BY <2>2, <2>6
    <3> QED BY <2>2, <2>5, <2>6, <3>1
  <2>7. CASE c # y
    <3> DEFINE q == r \ {c}
    <3>1. c \in r /\ q \in SUBSET U /\ R \ {c} = q \union {y} /\ r = q \union {c} /\ y \notin q
      BY <2>2, <2>4, <2>7
    <3>2. Cardinality(q) = n - 1 /\ IsFiniteSet(q)
      <4> HIDE DEF c
      <4> QED BY <2>2, <2>3, <3>1, FS_RemoveElement
    <3>3. n - 1 \in Nat /\ ~(n <= n - 1)
      BY <1>1, <2>3, <3>1, <3>2
    <3>4. n - 1 \notin Bad
      <4> HIDE DEF Bad
      <4> QED BY <2>1, <3>3
    <3>5. \A z \in U : ~Fails(q, z)
      BY <3>1, <3>2, <3>3, <3>4
    <3>6. Sum(g, q \union {y}) = g[y] + Sum(g, q)
      BY <3>1, <3>5
    <3>7. Sum(g, q \union {c}) = g[c] + Sum(g, q)
      BY <3>1, <3>5
    <3>8. Sum(g, q) \in Int
      BY <2>3, <3>1, <3>2, SumUnfolds
    <3>9. g[c] \in Int /\ g[y] \in Int
      BY <2>2, <2>4
    <3>10. Sum(g, R) = g[y] + Sum(g, r)
      <4>1. Sum(g, R) = g[c] + Sum(g, q \union {y}) /\ Sum(g, r) = Sum(g, q \union {c})
        BY <2>5, <3>1
      <4> HIDE DEF c, q, R
      <4> QED BY <4>1, <3>6, <3>7, <3>8, <3>9
    <3> QED BY <2>2, <3>10
  <2> QED BY <2>6, <2>7
<1>3. ~Fails(S, x)
  <2> HIDE DEF Fails
  <2> QED BY <1>1, <1>2
<1> QED BY <1>3

(* Induction over a finite set, for the family F of the sets that have the *)
(* property.                                                               *)
LEMMA FiniteInduction ==
  ASSUME NEW U, IsFiniteSet(U), NEW F, {} \in F,
         \A r \in SUBSET U : \A x \in U : r \in F /\ x \notin r => r \union {x} \in F
  PROVE  U \in F
<1> DEFINE Bad == {n \in Nat : \E r \in SUBSET U : Cardinality(r) = n /\ r \notin F}
<1>1. \A r \in SUBSET U : IsFiniteSet(r) /\ Cardinality(r) \in Nat
  BY FS_Subset, FS_CardinalityType
<1>2. Bad = {}
  <2> SUFFICES ASSUME Bad # {} PROVE FALSE
    OBVIOUS
  <2>1. PICK n \in Bad : \A m \in Bad : n <= m
    BY LeastNatural
  <2>2. PICK r \in SUBSET U : Cardinality(r) = n /\ r \notin F
    BY <2>1
  <2>3. PICK x \in r : TRUE
    BY <2>2
  <2> DEFINE q == r \ {x}
  <2>4. q \in SUBSET U /\ x \in U /\ x \notin q /\ r = q \union {x}
    BY <2>3
  <2>5. Cardinality(q) = n - 1 /\ n \in Nat /\ Cardinality(q) \in Nat
    BY <1>1, <2>2, <2>3, <2>4, FS_RemoveElement
  <2>6. n - 1 \notin Bad
    <3>1. ~(n <= n - 1)
      BY <2>5
    <3> HIDE DEF Bad
    <3> QED BY <2>1, <3>1
  <2>7. q \in F
    BY <2>4, <2>5, <2>6
  <2> HIDE DEF q
  <2> QED BY <2>2, <2>4, <2>7
<1> QED BY <1>1, <1>2

(* Sums of integers are integers. *)
LEMMA SumInt ==
  ASSUME NEW S, IsFiniteSet(S), NEW g, \A x \in S : g[x] \in Int
  PROVE  Sum(g, S) \in Int
BY SumUnfolds

(* Nothing adds up to zero. *)
LEMMA SumEmpty == ASSUME NEW g PROVE Sum(g, {}) = 0
BY SumUnfolds, FS_EmptySet

(* An element can be taken out of a sum. *)
LEMMA SumRemove ==
  ASSUME NEW S, IsFiniteSet(S), NEW x \in S, NEW g, \A y \in S : g[y] \in Int
  PROVE  Sum(g, S) = g[x] + Sum(g, S \ {x})
<1> DEFINE T == S \ {x}
<1>1. IsFiniteSet(T) /\ x \notin T /\ S = T \union {x}
  BY FS_RemoveElement
<1> HIDE DEF T
<1> QED BY <1>1, SumAdd DEF T

(* Zeros add up to zero. *)
LEMMA SumZero ==
  ASSUME NEW S, IsFiniteSet(S), NEW g, \A x \in S : g[x] = 0
  PROVE  Sum(g, S) = 0
<1> DEFINE F == {r \in SUBSET S : Sum(g, r) = 0}
<1>1. {} \in F
  BY SumEmpty
<1>2. ASSUME NEW r \in SUBSET S, NEW x \in S, r \in F, x \notin r
      PROVE  r \union {x} \in F
  <2>1. IsFiniteSet(r)
    BY FS_Subset
  <2>2. \A y \in r \union {x} : g[y] \in Int
    OBVIOUS
  <2>3. Sum(g, r \union {x}) = g[x] + Sum(g, r)
    BY <1>2, <2>1, <2>2, SumAdd
  <2> QED BY <1>2, <2>3
<1>3. S \in F
  <2> HIDE DEF F
  <2> QED BY <1>1, <1>2, FiniteInduction
<1> QED BY <1>3

(* The sum of sums. *)
LEMMA SumPlus ==
  ASSUME NEW S, IsFiniteSet(S), NEW f, NEW g, NEW h,
         \A x \in S : f[x] \in Int /\ g[x] \in Int /\ h[x] = f[x] + g[x]
  PROVE  Sum(h, S) = Sum(f, S) + Sum(g, S)
<1> DEFINE F == {r \in SUBSET S : Sum(h, r) = Sum(f, r) + Sum(g, r)}
<1>1. {} \in F
  BY SumEmpty
<1>2. ASSUME NEW r \in SUBSET S, NEW x \in S, r \in F, x \notin r
      PROVE  r \union {x} \in F
  <2>1. IsFiniteSet(r)
    BY FS_Subset
  <2>2. /\ Sum(f, r) \in Int /\ Sum(f, r \union {x}) = f[x] + Sum(f, r)
        /\ Sum(g, r) \in Int /\ Sum(g, r \union {x}) = g[x] + Sum(g, r)
        /\ f[x] \in Int /\ g[x] \in Int
    BY <1>2, <2>1, SumAdd, SumInt
  <2>3. \A y \in r \union {x} : h[y] \in Int
    OBVIOUS
  <2>4. Sum(h, r \union {x}) = h[x] + Sum(h, r)
    BY <1>2, <2>1, <2>3, SumAdd
  <2> QED BY <1>2, <2>2, <2>4
<1>3. S \in F
  <2> HIDE DEF F
  <2> QED BY <1>1, <1>2, FiniteInduction
<1> QED BY <1>3

(* Sums are ordered as their values are. *)
LEMMA SumAtMost ==
  ASSUME NEW S, IsFiniteSet(S), NEW f, NEW g,
         \A x \in S : f[x] \in Int /\ g[x] \in Int /\ f[x] <= g[x]
  PROVE  Sum(f, S) <= Sum(g, S)
<1> DEFINE F == {r \in SUBSET S : Sum(f, r) <= Sum(g, r)}
<1>1. {} \in F
  BY SumEmpty
<1>2. ASSUME NEW r \in SUBSET S, NEW x \in S, r \in F, x \notin r
      PROVE  r \union {x} \in F
  <2>1. IsFiniteSet(r)
    BY FS_Subset
  <2>2. /\ Sum(f, r) \in Int /\ Sum(f, r \union {x}) = f[x] + Sum(f, r)
        /\ Sum(g, r) \in Int /\ Sum(g, r \union {x}) = g[x] + Sum(g, r)
    BY <1>2, <2>1, SumAdd, SumInt
  <2> QED BY <1>2, <2>2
<1>3. S \in F
  <2> HIDE DEF F
  <2> QED BY <1>1, <1>2, FiniteInduction
<1> QED BY <1>3

(* A sum of values up to m is at most as many times m. *)
LEMMA SumBound ==
  ASSUME NEW S, IsFiniteSet(S), NEW m \in Int, NEW g, \A x \in S : g[x] \in Int /\ g[x] <= m
  PROVE  Sum(g, S) <= Cardinality(S) * m
<1> DEFINE F == {r \in SUBSET S : Sum(g, r) <= Cardinality(r) * m}
<1>1. {} \in F
  <2>1. Cardinality({}) = 0 /\ Sum(g, {}) = 0
    BY FS_EmptySet, SumEmpty
  <2> QED BY <2>1
<1>2. ASSUME NEW r \in SUBSET S, NEW x \in S, r \in F, x \notin r
      PROVE  r \union {x} \in F
  <2>1. IsFiniteSet(r)
    BY FS_Subset
  <2>2. Cardinality(r) \in Nat
    BY <2>1, FS_CardinalityType
  <2>3. Cardinality(r \union {x}) = Cardinality(r) + 1
    <3>1. Cardinality(r \union {x}) = IF x \in r THEN Cardinality(r) ELSE Cardinality(r) + 1
      BY <2>1, FS_AddElement
    <3> QED BY <1>2, <3>1
  <2>4. Sum(g, r) \in Int /\ Sum(g, r \union {x}) = g[x] + Sum(g, r)
    BY <1>2, <2>1, SumAdd, SumInt
  <2>5. (Cardinality(r) + 1) * m = Cardinality(r) * m + m
    BY <2>2
  <2>6. Sum(g, r) <= Cardinality(r) * m /\ g[x] \in Int /\ g[x] <= m
    BY <1>2
  <2>7. Cardinality(r) * m \in Int
    BY <2>2
  <2>8. Sum(g, r \union {x}) <= Cardinality(r \union {x}) * m
    <3> DEFINE k == Cardinality(r) * m
    <3>1. Cardinality(r \union {x}) * m = k + m
      BY <2>3, <2>5
    <3> HIDE DEF k
    <3>2. k \in Int /\ Sum(g, r) <= k
      BY <2>6, <2>7 DEF k
    <3> QED BY <2>4, <2>6, <3>1, <3>2
  <2> QED BY <2>8
<1>3. S \in F
  <2> HIDE DEF F
  <2> QED BY <1>1, <1>2, FiniteInduction
<1> QED BY <1>3

(* A finite set of natural numbers that is not empty has a greatest one.   *)
LEMMA Greatest ==
  ASSUME NEW S \in SUBSET Nat, IsFiniteSet(S), S # {}
  PROVE  Max(S) \in S /\ \A x \in S : x <= Max(S)
<1> DEFINE Tops(r) == {x \in r : \A y \in r : x >= y}
           F == {r \in SUBSET S : r = {} \/ Tops(r) # {}}
<1>1. {} \in F
  OBVIOUS
<1>2. ASSUME NEW r \in SUBSET S, NEW x \in S, r \in F, x \notin r
      PROVE  r \union {x} \in F
  <2>1. CASE r = {}
    <3>1. x \in Tops(r \union {x})
      BY <2>1
    <3> QED BY <3>1
  <2>2. CASE r # {}
    <3>1. PICK t \in r : \A y \in r : t >= y
      BY <1>2, <2>2
    <3>2. x \in Tops(r \union {x}) \/ t \in Tops(r \union {x})
      BY <3>1
    <3> QED BY <3>2
  <2> QED BY <2>1, <2>2
<1>3. S \in F
  <2> HIDE DEF F
  <2> QED BY <1>1, <1>2, FiniteInduction
<1>4. \E x \in S : \A y \in S : x >= y
  BY <1>3
<1>5. Max(S) \in S /\ \A y \in S : Max(S) >= y
  BY <1>4 DEF Max
<1> QED BY <1>5

(* Changing one value changes the sum by as much. *)
LEMMA SumUpdate ==
  ASSUME NEW S, IsFiniteSet(S), NEW f, NEW h, NEW x \in S, NEW d \in Int,
         \A y \in S : f[y] \in Int, h[x] = f[x] + d,
         \A y \in S : y # x => h[y] = f[y]
  PROVE  Sum(h, S) = Sum(f, S) + d
<1>1. \A y \in S : h[y] \in Int
  OBVIOUS
<1>2. IsFiniteSet(S \ {x})
  BY FS_RemoveElement
<1>3. Sum(h, S) = h[x] + Sum(h, S \ {x}) /\ Sum(f, S) = f[x] + Sum(f, S \ {x})
  BY <1>1, SumRemove
<1>4. Sum(h, S \ {x}) = Sum(f, S \ {x}) /\ Sum(f, S \ {x}) \in Int
  BY <1>2, SumSame, SumInt
<1> QED BY <1>3, <1>4

(* Rows and columns of a table add up to the same. *)
LEMMA SumSwap ==
  ASSUME NEW A, IsFiniteSet(A), NEW B, IsFiniteSet(B), NEW m \in [A -> [B -> Int]]
  PROVE  Sum([a \in A |-> Sum([b \in B |-> m[a][b]], B)], A) =
           Sum([b \in B |-> Sum([a \in A |-> m[a][b]], A)], B)
<1> DEFINE Row(a) == [b \in B |-> m[a][b]]
           Column(b) == [a \in A |-> m[a][b]]
           Left(s) == [a \in A |-> Sum(Row(a), s)]
           right == [b \in B |-> Sum(Column(b), A)]
           F == {s \in SUBSET B : Sum(Left(s), A) = Sum(right, s)}
<1>0. \A a \in A, b \in B : m[a][b] \in Int
  OBVIOUS
<1>1. \A s \in SUBSET B : IsFiniteSet(s) /\ \A a \in A : Sum(Row(a), s) \in Int
  <2> TAKE s \in SUBSET B
  <2>1. IsFiniteSet(s)
    BY FS_Subset
  <2>2. ASSUME NEW a \in A PROVE \A b \in s : Row(a)[b] \in Int
    BY <1>0
  <2> QED BY <2>1, <2>2, SumInt
<1>2. \A b \in B : Sum(Column(b), A) \in Int
  <2> TAKE b \in B
  <2>1. \A a \in A : Column(b)[a] \in Int
    BY <1>0
  <2> QED BY <2>1, SumInt
<1>3. {} \in F
  <2>1. \A a \in A : Left({})[a] = 0
    BY SumEmpty
  <2>2. Sum(Left({}), A) = 0
    <3> HIDE DEF Left
    <3> QED BY <2>1, SumZero
  <2>3. Sum(right, {}) = 0
    BY SumEmpty
  <2> QED BY <2>2, <2>3
<1>4. ASSUME NEW s \in SUBSET B, NEW x \in B, s \in F, x \notin s
      PROVE  s \union {x} \in F
  <2>1. ASSUME NEW a \in A
        PROVE  Left(s \union {x})[a] = Left(s)[a] + Column(x)[a] /\ Left(s)[a] \in Int
                 /\ Column(x)[a] \in Int
    <3>1. \A b \in s \union {x} : Row(a)[b] \in Int
      BY <1>0
    <3>2. Sum(Row(a), s \union {x}) = Row(a)[x] + Sum(Row(a), s)
      BY <1>1, <1>4, <3>1, SumAdd
    <3>3. Row(a)[x] = Column(x)[a] /\ Column(x)[a] \in Int /\ Sum(Row(a), s) \in Int
      BY <1>0, <1>1
    <3> QED BY <3>2, <3>3
  <2>2. Sum(Left(s \union {x}), A) = Sum(Left(s), A) + Sum(Column(x), A)
    <3> DEFINE new == Left(s \union {x})
               old == Left(s)
               column == Column(x)
    <3>1. \A a \in A : old[a] \in Int /\ column[a] \in Int /\ new[a] = old[a] + column[a]
      BY <2>1
    <3> HIDE DEF new, old, column
    <3>2. Sum(new, A) = Sum(old, A) + Sum(column, A)
      BY <3>1, SumPlus
    <3> QED BY <3>2 DEF new, old, column
  <2>3. \A b \in s \union {x} : right[b] \in Int
    BY <1>2
  <2>4. Sum(right, s \union {x}) = right[x] + Sum(right, s) /\ Sum(right, s) \in Int
    BY <1>1, <1>4, <2>3, SumAdd, SumInt
  <2>5. right[x] = Sum(Column(x), A) /\ Sum(Column(x), A) \in Int
    BY <1>2
  <2> HIDE DEF Left, Column, right
  <2> QED BY <1>4, <2>2, <2>4, <2>5
<1>5. B \in F
  <2> HIDE DEF F
  <2> QED BY <1>3, <1>4, FiniteInduction
<1> QED BY <1>5

(* The parts of a sum add up to it. *)
LEMMA SumParts ==
  ASSUME NEW S, IsFiniteSet(S), NEW A, IsFiniteSet(A), NEW h \in [S -> A],
         NEW g, \A n \in S : g[n] \in Int
  PROVE  Sum([a \in A |-> Sum(g, {n \in S : h[n] = a})], A) = Sum(g, S)
<1> DEFINE Part(r, a) == {n \in r : h[n] = a}
           Parts(r) == [a \in A |-> Sum(g, Part(r, a))]
           F == {r \in SUBSET S : Sum(Parts(r), A) = Sum(g, r)}
<1>1. \A r \in SUBSET S, a \in A : IsFiniteSet(Part(r, a)) /\ Sum(g, Part(r, a)) \in Int
  <2> TAKE r \in SUBSET S, a \in A
  <2>1. Part(r, a) \in SUBSET S
    OBVIOUS
  <2> HIDE DEF Part
  <2> QED BY <2>1, FS_Subset, SumInt
<1>2. {} \in F
  <2>1. \A a \in A : Parts({})[a] = 0
    BY SumEmpty
  <2>2. Sum(Parts({}), A) = 0
    <3> HIDE DEF Parts
    <3> QED BY <2>1, SumZero
  <2> QED BY <2>2, SumEmpty
<1>3. ASSUME NEW r \in SUBSET S, NEW x \in S, r \in F, x \notin r
      PROVE  r \union {x} \in F
  <2>0. IsFiniteSet(r) /\ h[x] \in A /\ g[x] \in Int
    BY FS_Subset
  <2>1. \A a \in A : Parts(r)[a] \in Int
    BY <1>1
  <2>2. \A a \in A : a # h[x] => Parts(r \union {x})[a] = Parts(r)[a]
    <3>1. \A a \in A : a # h[x] => Part(r \union {x}, a) = Part(r, a)
      OBVIOUS
    <3> QED BY <3>1
  <2>3. Parts(r \union {x})[h[x]] = Parts(r)[h[x]] + g[x]
    <3> DEFINE p == Part(r, h[x])
    <3>1. Part(r \union {x}, h[x]) = p \union {x} /\ x \notin p /\ IsFiniteSet(p)
            /\ p \in SUBSET S
      BY <1>1, <1>3, <2>0
    <3>2. Sum(g, p \union {x}) = g[x] + Sum(g, p) /\ Sum(g, p) \in Int
      <4> HIDE DEF p
      <4> QED BY <3>1, SumAdd, SumInt
    <3>3. Parts(r)[h[x]] = Sum(g, p) /\ Parts(r \union {x})[h[x]] = Sum(g, p \union {x})
      BY <2>0, <3>1
    <3> HIDE DEF p, Parts
    <3> QED BY <2>0, <3>2, <3>3
  <2>4. Sum(Parts(r \union {x}), A) = Sum(Parts(r), A) + g[x]
    <3> DEFINE new == Parts(r \union {x})
               old == Parts(r)
               k == h[x]
    <3>1. /\ k \in A /\ g[x] \in Int /\ \A a \in A : old[a] \in Int
          /\ \A a \in A : a # k => new[a] = old[a]
          /\ new[k] = old[k] + g[x]
      BY <2>0, <2>1, <2>2, <2>3
    <3> HIDE DEF new, old, k
    <3>2. Sum(new, A) = Sum(old, A) + g[x]
      BY <3>1, SumUpdate
    <3> QED BY <3>2 DEF new, old
  <2>5. Sum(g, r \union {x}) = g[x] + Sum(g, r) /\ Sum(g, r) \in Int
    BY <1>3, <2>0, SumAdd, SumInt
  <2> HIDE DEF Parts
  <2> QED BY <1>3, <2>0, <2>4, <2>5
<1>4. S \in F
  <2> HIDE DEF F
  <2> QED BY <1>2, <1>3, FiniteInduction
<1> QED BY <1>4

-----------------------------------------------------------------------------
(* Balances are sums. *)

(* An entry has finitely many postings, of integral amounts. *)
LEMMA PostingsAreFinite ==
  ASSUME NEW ps \in Seq(Posting)
  PROVE  IsFiniteSet(DOMAIN ps) /\ \A n \in DOMAIN ps : ps[n] \in Posting /\ ps[n].amount \in Int
<1>1. DOMAIN ps = 1..Len(ps) /\ Len(ps) \in Nat
  OBVIOUS
<1>2. IsFiniteSet(DOMAIN ps)
  BY <1>1, FS_Interval
<1>3. \A n \in DOMAIN ps : ps[n] \in Posting
  OBVIOUS
<1> QED BY <1>2, <1>3 DEF Posting

(* What an entry moves on an account, as a sum over its postings. *)
LEMMA MovedByIsSum ==
  ASSUME NEW e \in JournalEntry, NEW id
  PROVE  /\ MovedBy(e, id) = Sum([n \in DOMAIN e.postings |-> e.postings[n].amount],
                                 {n \in DOMAIN e.postings : e.postings[n].account = id})
         /\ MovedBy(e, id) \in Int
<1> DEFINE N == DOMAIN e.postings
           S == {n \in N : e.postings[n].account = id}
           g == [n \in N |-> e.postings[n].amount]
           F(i) == [s \in SUBSET S |-> IF s = {} THEN 0
                      ELSE LET x == CHOOSE y \in s : TRUE IN e.postings[x].amount + i[s \ {x}]]
           it == CHOOSE i : i = F(i)
<1>1. MovedBy(e, id) = it[S]
  BY DEF MovedBy, MapThenSumSet, MapThenFoldSet
<1>2. IsFiniteSet(N) /\ IsFiniteSet(S) /\ \A n \in N : e.postings[n].amount \in Int
  <2>1. e.postings \in Seq(Posting)
    BY DEF JournalEntry
  <2> QED BY <2>1, PostingsAreFinite, FS_Subset
<1>3. ASSUME NEW i PROVE F(i) = Adding(i, g, S)
  <2>1. ASSUME NEW s \in SUBSET S, s # {}
        PROVE  e.postings[Chosen(s)].amount = g[Chosen(s)]
    BY <2>1, ChosenIsMember
  <2> QED BY <2>1 DEF Adding, Chosen
<1>4. PICK j : j = Adding(j, g, S)
  BY <1>2, AddingExists
<1>5. it = Adding(it, g, S)
  BY <1>3, <1>4
<1> HIDE DEF it
<1> QED BY <1>1, <1>2, <1>5, SumIsAdding, SumInt

(* An entry moves nothing on an account it does not name. *)
LEMMA MovedByNone ==
  ASSUME NEW e \in JournalEntry, NEW id, \A n \in DOMAIN e.postings : e.postings[n].account # id
  PROVE  MovedBy(e, id) = 0
<1>1. {n \in DOMAIN e.postings : e.postings[n].account = id} = {}
  OBVIOUS
<1> QED BY <1>1, MovedByIsSum, SumEmpty

(* One posting to an account moves its amount. *)
LEMMA MovedByOne ==
  ASSUME NEW e, NEW id, NEW k, {n \in DOMAIN e.postings : e.postings[n].account = id} = {k},
         e.postings[k].amount \in Int
  PROVE  MovedBy(e, id) = e.postings[k].amount
<1> DEFINE F(i) == [s \in SUBSET {k} |->
                      IF s = {} THEN 0
                      ELSE LET x == CHOOSE y \in s : TRUE IN e.postings[x].amount + i[s \ {x}]]
           it == CHOOSE i : i = F(i)
           h == [s \in SUBSET {k} |-> IF s = {} THEN 0 ELSE e.postings[k].amount]
<1>1. MovedBy(e, id) = it[{k}]
  BY DEF MovedBy, MapThenSumSet, MapThenFoldSet
<1>2. (CHOOSE y \in {k} : TRUE) = k
  OBVIOUS
<1>3. ASSUME NEW s \in SUBSET {k} PROVE h[s] = F(h)[s]
  <2>1. CASE s = {}
    BY <2>1
  <2>2. CASE s = {k}
    <3>1. s \ {k} = {} /\ s # {}
      BY <2>2
    <3>2. h[{}] = 0 /\ h[s] = e.postings[k].amount
      BY <2>2, <3>1
    <3> QED BY <2>2, <3>1, <3>2, <1>2
  <2>3. s = {} \/ s = {k}
    OBVIOUS
  <2> QED BY <2>1, <2>2, <2>3
<1>4. h = F(h)
  BY <1>3
<1>5. it = F(it)
  BY <1>4
<1>6. {k} \ {k} = {} /\ {k} # {}
  OBVIOUS
<1>7. it[{}] = 0
  BY <1>5
<1>8. it[{k}] = e.postings[k].amount + it[{k} \ {k}]
  BY <1>2, <1>5, <1>6
<1> HIDE DEF it
<1> QED BY <1>1, <1>6, <1>7, <1>8

(* The payer of a transfer is debited by its amount. *)
LEMMA PayerIsDebited ==
  ASSUME NEW e, NEW from, NEW to, from # to, NEW c, NEW m \in Int,
         e.postings = TwoLegs(from, to, c, m)
  PROVE  MovedBy(e, from) = -m
<1>1. /\ DOMAIN e.postings = {1, 2}
      /\ e.postings[1] = Leg(from, c, -m) /\ e.postings[2] = Leg(to, c, m)
  BY DEF TwoLegs
<1>2. /\ e.postings[1].account = from /\ e.postings[1].amount = -m
      /\ e.postings[2].account = to
  BY <1>1 DEF Leg
<1>3. {n \in DOMAIN e.postings : e.postings[n].account = from} = {1}
  BY <1>1, <1>2
<1> QED BY <1>2, <1>3, MovedByOne

(* What an entry nets to in a currency, as a sum over its postings. *)
LEMMA NetOfIsSum ==
  ASSUME NEW ps \in Seq(Posting), NEW c
  PROVE  NetOf(ps, c) = Sum([n \in DOMAIN ps |-> ps[n].amount],
                            {n \in DOMAIN ps : ps[n].ccy = c})
<1> DEFINE N == DOMAIN ps
           S == {n \in N : ps[n].ccy = c}
           g == [n \in N |-> ps[n].amount]
           F(i) == [s \in SUBSET S |-> IF s = {} THEN 0
                      ELSE LET x == CHOOSE y \in s : TRUE IN ps[x].amount + i[s \ {x}]]
           it == CHOOSE i : i = F(i)
<1>1. NetOf(ps, c) = it[S]
  BY DEF NetOf, MapThenSumSet, MapThenFoldSet
<1>2. IsFiniteSet(N) /\ IsFiniteSet(S) /\ \A n \in N : ps[n].amount \in Int
  BY PostingsAreFinite, FS_Subset
<1>3. ASSUME NEW i PROVE F(i) = Adding(i, g, S)
  <2>1. ASSUME NEW s \in SUBSET S, s # {}
        PROVE  ps[Chosen(s)].amount = g[Chosen(s)]
    BY <2>1, ChosenIsMember
  <2> QED BY <2>1 DEF Adding, Chosen
<1>4. PICK j : j = Adding(j, g, S)
  BY <1>2, AddingExists
<1>5. it = Adding(it, g, S)
  BY <1>3, <1>4
<1> HIDE DEF it
<1> QED BY <1>1, <1>2, <1>5, SumIsAdding

(* A balance, as a sum over the bank's journal. *)
LEMMA BalanceIsSum ==
  ASSUME journal \subseteq JournalEntry, IsFiniteSet(journal), NEW b, NEW id
  PROVE  /\ Balance(b, id) = Sum([e \in journal |-> MovedBy(e, id)], ListJournal(b))
         /\ Balance(b, id) \in Int
         /\ IsFiniteSet(ListJournal(b))
<1> DEFINE S == ListJournal(b)
           g == [e \in journal |-> MovedBy(e, id)]
           F(i) == [s \in SUBSET S |-> IF s = {} THEN 0
                      ELSE LET x == CHOOSE y \in s : TRUE IN MovedBy(x, id) + i[s \ {x}]]
           it == CHOOSE i : i = F(i)
<1>1. Balance(b, id) = it[S]
  BY DEF Balance, MapThenSumSet, MapThenFoldSet
<1>2. S \in SUBSET journal /\ IsFiniteSet(S) /\ \A e \in journal : g[e] \in Int
  BY FS_Subset, MovedByIsSum DEF ListJournal
<1>3. ASSUME NEW i PROVE F(i) = Adding(i, g, S)
  <2>1. ASSUME NEW s \in SUBSET S, s # {}
        PROVE  MovedBy(Chosen(s), id) = g[Chosen(s)]
    BY <1>2, <2>1, ChosenIsMember
  <2> QED BY <2>1 DEF Adding, Chosen
<1>4. PICK j : j = Adding(j, g, S)
  BY <1>2, AddingExists
<1>5. it = Adding(it, g, S)
  BY <1>3, <1>4
<1>6. \A e \in S : g[e] \in Int
  BY <1>2
<1> HIDE DEF it, g
<1>7. Balance(b, id) = Sum(g, S) /\ Balance(b, id) \in Int /\ IsFiniteSet(S)
  BY <1>1, <1>2, <1>5, <1>6, SumIsAdding, SumInt
<1> QED BY <1>7 DEF g

(* A balanced entry moves nothing in all, taken over the accounts in one   *)
(* currency: each of its postings in it is to exactly one of them.         *)
LEMMA EntryNetsToZero ==
  ASSUME NEW e \in JournalEntry, Balanced(e.postings), EntryResolves(e, accounts),
         IsFiniteSet(accounts), \A a1, a2 \in accounts : a1.id = a2.id => a1 = a2,
         NEW c, NEW A, A = {a \in ListAccounts(e.bank) : a.ccy = c}
  PROVE  Sum([a \in A |-> MovedBy(e, a.id)], A) = 0
<1> DEFINE ps == e.postings
           N == DOMAIN ps
           g == [n \in N |-> ps[n].amount]
           S == {n \in N : ps[n].ccy = c}
           h == [n \in S |-> CHOOSE a \in A : a.id = ps[n].account]
<1>1. ps \in Seq(Posting)
  BY DEF JournalEntry
<1>2. IsFiniteSet(S) /\ \A n \in N : g[n] \in Int
  BY <1>1, PostingsAreFinite, FS_Subset
<1>3. A \subseteq accounts /\ IsFiniteSet(A)
  BY FS_Subset DEF ListAccounts
<1>4. ASSUME NEW n \in S PROVE h[n] \in A /\ h[n].id = ps[n].account
  <2>1. \E a \in A : a.id = ps[n].account
    BY DEF EntryResolves, PostingResolves, ListAccounts
  <2> QED BY <2>1
<1>5. ASSUME NEW a \in A
      PROVE  {n \in S : h[n] = a} = {n \in N : ps[n].account = a.id}
  <2>1. ASSUME NEW n \in N, ps[n].account = a.id PROVE n \in S /\ h[n] = a
    <3>1. PICK x \in accounts : x.id = ps[n].account /\ x.ccy = ps[n].ccy
      BY DEF EntryResolves, PostingResolves
    <3>2. x = a
      BY <1>3, <2>1, <3>1
    <3>3. n \in S
      BY <3>1, <3>2
    <3>4. h[n] \in accounts /\ h[n].id = a.id
      BY <1>3, <1>4, <2>1, <3>3
    <3> QED BY <1>3, <3>3, <3>4
  <2> HIDE DEF h
  <2> QED BY <1>4, <2>1
<1>6. ASSUME NEW a \in A PROVE MovedBy(e, a.id) = Sum(g, {n \in S : h[n] = a})
  <2>1. MovedBy(e, a.id) = Sum(g, {n \in N : ps[n].account = a.id})
    BY MovedByIsSum
  <2>2. {n \in S : h[n] = a} = {n \in N : ps[n].account = a.id}
    BY <1>5
  <2> HIDE DEF g, S, h, N, ps
  <2> QED BY <2>1, <2>2
<1>7. Sum([a \in A |-> Sum(g, {n \in S : h[n] = a})], A) = Sum(g, S)
  <2>1. h \in [S -> A]
    <3> HIDE DEF S
    <3> QED BY <1>4
  <2> HIDE DEF h, g, S
  <2>2. \A n \in S : g[n] \in Int
    BY <1>2 DEF S
  <2> QED BY <1>2, <1>3, <2>1, <2>2, SumParts
<1>8. Sum(g, S) = 0
  <2>1. CASE S = {}
    <3> HIDE DEF g, S
    <3> QED BY <2>1, SumEmpty
  <2>2. CASE S # {}
    <3>1. PICK n \in N : ps[n].ccy = c
      BY <2>2
    <3>2. NetOf(ps, c) = 0
      BY <3>1 DEF Balanced
    <3> QED BY <1>1, <3>2, NetOfIsSum
  <2> QED BY <2>1, <2>2
<1>9. [a \in A |-> MovedBy(e, a.id)] = [a \in A |-> Sum(g, {n \in S : h[n] = a})]
  <2> HIDE DEF g, S, h
  <2> QED BY <1>6
<1> HIDE DEF g, S, h
<1> QED BY <1>7, <1>8, <1>9

(* While the database is sound, the balances of an open bank's accounts in *)
(* one currency add up to zero: the sum over the accounts of sums over the *)
(* journal is the sum over the journal of what each entry nets to.         *)
LEMMA MoneyIsConserved ==
  ASSUME DbInv, IsFiniteSet(accounts), IsFiniteSet(journal), NEW b \in banks, NEW c
  PROVE  MapThenSumSet(LAMBDA a : Balance(b, a.id), {a \in ListAccounts(b) : a.ccy = c}) = 0
<1> DEFINE A == {a \in ListAccounts(b) : a.ccy = c}
           J == ListJournal(b)
           g == [a \in A |-> Balance(b, a.id)]
           m == [a \in A |-> [e \in J |-> MovedBy(e, a.id)]]
           F(i) == [s \in SUBSET A |-> IF s = {} THEN 0
                      ELSE LET x == CHOOSE y \in s : TRUE IN Balance(b, x.id) + i[s \ {x}]]
           it == CHOOSE i : i = F(i)
<1>1. MapThenSumSet(LAMBDA a : Balance(b, a.id), A) = it[A]
  BY DEF MapThenSumSet, MapThenFoldSet
<1>2. journal \subseteq JournalEntry
  BY DEF DbInv, DbTypeOK
<1>3. /\ IsFiniteSet(A) /\ IsFiniteSet(J) /\ J \subseteq journal
      /\ \A a \in A : g[a] \in Int
  BY <1>2, FS_Subset, BalanceIsSum DEF ListAccounts, ListJournal
<1>4. it[A] = Sum(g, A)
  <2>1. ASSUME NEW i PROVE F(i) = Adding(i, g, A)
    <3>1. ASSUME NEW s \in SUBSET A, s # {}
          PROVE  Balance(b, Chosen(s).id) = g[Chosen(s)]
      BY <3>1, ChosenIsMember
    <3> QED BY <3>1 DEF Adding, Chosen
  <2>2. PICK j : j = Adding(j, g, A)
    BY <1>3, AddingExists
  <2>3. it = Adding(it, g, A)
    BY <2>1, <2>2
  <2> HIDE DEF it, g
  <2> QED BY <1>3, <2>3, SumIsAdding
<1>5. m \in [A -> [J -> Int]]
  <2>1. \A a \in A, e \in J : MovedBy(e, a.id) \in Int
    BY <1>2, <1>3, MovedByIsSum
  <2> HIDE DEF A, J
  <2> QED BY <2>1
<1>6. ASSUME NEW a \in A PROVE g[a] = Sum([e \in J |-> m[a][e]], J)
  <2>1. Balance(b, a.id) = Sum([e \in journal |-> MovedBy(e, a.id)], J)
    BY <1>2, BalanceIsSum
  <2>2. /\ \A e \in J : [x \in journal |-> MovedBy(x, a.id)][e] \in Int
        /\ \A e \in J : [x \in J |-> m[a][x]][e] = [x \in journal |-> MovedBy(x, a.id)][e]
    BY <1>2, <1>3, MovedByIsSum
  <2> DEFINE g1 == [x \in journal |-> MovedBy(x, a.id)]
             g2 == [x \in J |-> m[a][x]]
  <2>3. Sum(g2, J) = Sum(g1, J)
    <3>1. \A e \in J : g1[e] \in Int /\ g2[e] = g1[e]
      BY <2>2
    <3> HIDE DEF g1, g2, J
    <3> QED BY <1>3, <3>1, SumSame
  <2> QED BY <2>1, <2>3
<1>7. Sum(g, A) = Sum([a \in A |-> Sum([e \in J |-> m[a][e]], J)], A)
  <2>1. g = [a \in A |-> Sum([e \in J |-> m[a][e]], J)]
    <3> HIDE DEF m, A, J
    <3> QED BY <1>6
  <2> QED BY <2>1
<1>8. Sum([a \in A |-> Sum([e \in J |-> m[a][e]], J)], A)
        = Sum([e \in J |-> Sum([a \in A |-> m[a][e]], A)], J)
  <2> HIDE DEF m, A, J
  <2> QED BY <1>3, <1>5, SumSwap
<1>9. ASSUME NEW e \in J PROVE Sum([a \in A |-> m[a][e]], A) = 0
  <2>1. /\ e \in JournalEntry /\ e.bank = b /\ e \in journal
        /\ Balanced(e.postings) /\ EntryResolves(e, accounts)
        /\ \A a1, a2 \in accounts : a1.id = a2.id => a1 = a2
    BY <1>2 DEF ListJournal, DbInv, DbKeys, LedgerIntegrity, Consistent
  <2>2. Sum([a \in A |-> MovedBy(e, a.id)], A) = 0
    BY <2>1, EntryNetsToZero
  <2>3. [a \in A |-> m[a][e]] = [a \in A |-> MovedBy(e, a.id)]
    OBVIOUS
  <2> QED BY <2>2, <2>3
<1>10. Sum([e \in J |-> Sum([a \in A |-> m[a][e]], A)], J) = 0
  <2> DEFINE z == [e \in J |-> Sum([a \in A |-> m[a][e]], A)]
  <2>1. \A e \in J : z[e] = 0
    BY <1>9
  <2> HIDE DEF z, J
  <2>2. Sum(z, J) = 0
    BY <1>3, <2>1, SumZero
  <2> QED BY <2>2 DEF z
<1> HIDE DEF it, g, m, A, J
<1> QED BY <1>1, <1>4, <1>7, <1>8, <1>10 DEF A

=============================================================================
