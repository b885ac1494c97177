---------------------------- MODULE LedgerProofs ----------------------------
(***************************************************************************)
(* Type correctness, soundness of the ledger and tenant isolation, for any *)
(* number of banks, accounts, workers and requests.                        *)
(***************************************************************************)
EXTENDS Ledger, CoreBankingProofs

Ops == LedgerOps \union {"none"}

(* What a frame has established at each label of a request.                *)
LedgerFrameOK(f, bs, cs, is, as) ==
  /\ CoreFrameOK(f, bs, is, as)
  /\ f.pc = "purge" => f.bank \notin bs
  /\ f.pc \in {"check_customer", "add_account", "add_batch"} => f.ccy \in Currencies
  /\ f.pc = "add_account" /\ f.bank \in bs /\ f.customer # None =>
       [id |-> f.customer, bank |-> f.bank] \in cs
  /\ f.pc = "account_ccy" => f.payer \in AccountIds /\ f.then \in Continuations

(* The inductive invariant: LedgerIntegrity alone is not one, for a step   *)
(* relies on what its request checked in earlier steps.                    *)
IInv ==
  /\ DbInv
  /\ frame \in [Workers -> Frame(Ops, LedgerLabels)]
  /\ served \in Nat
  /\ \A w \in Workers : LedgerFrameOK(frame[w], banks, customers, issued, accounts)

(* A request moves on, and its frame keeps its promise. *)
Moves(w) ==
  \E f \in Frame(Ops, LedgerLabels) :
    /\ frame' = [frame EXCEPT ![w] = f]
    /\ LedgerFrameOK(f, banks', customers', issued', accounts')

(* A step of one worker: the database stays sound, and so does the frame.  *)
Good(w) == DbInv' /\ DbStep /\ served' \in Nat /\ Moves(w)

-----------------------------------------------------------------------------

LEMMA LabelsAndOps ==
  /\ CoreLabels \subseteq LedgerLabels
  /\ \A w \in Workers : IInv => frame[w] \in Frame(Ops, LedgerLabels)
BY DEF LedgerLabels, IInv

LEMMA IdleFrameType == IdleFrame \in Frame(Ops, LedgerLabels)
BY DEF IdleFrame, Frame, Ops, LedgerLabels, CoreLabels, Sides, Kinds, Results

(* The values an idle frame's fields start from. *)
LEMMA FrameValues ==
  /\ "debit" \in Sides /\ "credit" \in Sides
  /\ "customer" \in Kinds /\ "external_world" \in Kinds
  /\ "none" \in Results /\ "unbalanced" \in Results
  /\ "return" \in LedgerLabels /\ <<>> \in Seq(Posting) /\ 1 \in Nat /\ 0 \in Nat /\ 0 \in Int
BY DEF Sides, Kinds, InternalKinds, Results, LedgerLabels, CoreLabels

(* What one worker establishes no other worker's step takes away.          *)
LEMMA GoodKeepsInv == ASSUME IInv, NEW w \in Workers, Good(w) PROVE IInv'
<1>1. PICK f \in Frame(Ops, LedgerLabels) :
        /\ frame' = [frame EXCEPT ![w] = f]
        /\ LedgerFrameOK(f, banks', customers', issued', accounts')
  BY DEF Good, Moves
<1>2. frame' \in [Workers -> Frame(Ops, LedgerLabels)]
  BY <1>1 DEF IInv
<1>3. ASSUME NEW v \in Workers
      PROVE  LedgerFrameOK(frame'[v], banks', customers', issued', accounts')
  <2>1. CASE v = w
    BY <1>1, <2>1 DEF IInv
  <2>2. CASE v # w
    <3>1. frame'[v] = frame[v]
      BY <1>1, <2>2 DEF IInv
    <3>2. LedgerFrameOK(frame[v], banks, customers, issued, accounts)
      BY DEF IInv
    <3>3. CoreFrameOK(frame[v], banks', issued', accounts')
      BY <3>2, DbStepKeepsFrame DEF Good, LedgerFrameOK
    <3>4. frame[v].pc # "idle" =>
            frame[v].bank \in issued /\ (frame[v].bank \in banks' => frame[v].bank \in banks)
      BY <3>2 DEF LedgerFrameOK, CoreFrameOK, Good, DbStep
    <3>5. frame[v].pc = "add_account" /\ frame[v].bank \in banks' /\ frame[v].customer # None =>
            [id |-> frame[v].customer, bank |-> frame[v].bank] \in customers'
      BY <3>2, <3>4 DEF LedgerFrameOK, Good, DbStep
    <3> QED BY <3>1, <3>2, <3>3, <3>4, <3>5 DEF LedgerFrameOK
  <2> QED BY <2>1, <2>2
<1> QED BY <1>2, <1>3 DEF IInv, Good

LEMMA ReplyGood ==
  ASSUME IInv, NEW w \in Workers, DbInv', DbStep, served' \in Nat,
         frame[w].pc # "idle", NEW r \in Results, Reply(w, r)
  PROVE  Good(w)
<1>1. CoreFrameOK(frame[w], banks, issued, accounts)
  BY DEF IInv, LedgerFrameOK
<1> DEFINE g == [frame[w] EXCEPT !.pc = "return", !.result = r]
<1>2. frame[w] \in Frame(Ops, LedgerLabels)
  BY LabelsAndOps
<1>3. g \in Frame(Ops, LedgerLabels) /\ g.pc = "return" /\ g.bank = frame[w].bank
  BY <1>2 DEF Frame, LedgerLabels, CoreLabels
<1>4. frame' = [frame EXCEPT ![w] = g]
  BY DEF Reply
<1>5. LedgerFrameOK(g, banks', customers', issued', accounts')
  BY <1>1, <1>3 DEF LedgerFrameOK, CoreFrameOK, DbStep
<1> QED BY <1>3, <1>4, <1>5 DEF Good, Moves

(* A request begins, with what the head of its handler has read.           *)
LEMMA BeginGood ==
  ASSUME IInv, NEW w \in Workers, UNCHANGED tables, served' = served + 1,
         NEW f \in Frame(Ops, LedgerLabels), Begin(w, f),
         LedgerFrameOK(f, banks, customers, issued, accounts)
  PROVE  Good(w)
<1>1. DbInv' /\ DbStep
  BY TablesUnchanged DEF IInv
<1>2. LedgerFrameOK(f, banks', customers', issued', accounts')
  BY DEF tables
<1>3. served' \in Nat
  BY DEF IInv
<1> QED BY <1>1, <1>2, <1>3 DEF Good, Moves, Begin

LEMMA OpenBankIssued ==
  ASSUME IInv, NEW b \in banks PROVE b \in Banks /\ b \in issued
BY DEF IInv, DbInv, DbTypeOK, DbKeys

-----------------------------------------------------------------------------
(* The heads of the requests. *)

LEMMA BeginCreateBankGood ==
  ASSUME IInv, NEW w \in Workers, BeginCreateBank(w) PROVE Good(w)
<1>1. PICK b \in Banks \ issued : banks' = banks \union {b} /\ issued' = issued \union {b}
  BY DEF BeginCreateBank
<1>2. UNCHANGED <<customers, accounts, journal, seq, frame>> /\ frame[w].pc = "idle"
  BY DEF BeginCreateBank, Accept
<1>3. DbTypeOK' /\ DbKeys' /\ DbStep
  BY <1>1, <1>2 DEF IInv, DbInv, DbTypeOK, DbKeys, DbStep
<1>4. LedgerIntegrity'
  <2>1. \A e \in journal : e.bank # b
    BY <1>1 DEF IInv, DbInv, DbKeys
  <2>2. \A a \in accounts : a.bank # b
    BY <1>1 DEF IInv, DbInv, DbKeys
  <2> QED BY <1>1, <1>2, <2>1, <2>2 DEF IInv, DbInv, LedgerIntegrity, Consistent
<1>5. served' \in Nat
  BY DEF BeginCreateBank, Accept, IInv
<1>6. Moves(w)
  <2>1. frame[w] \in Frame(Ops, LedgerLabels) /\ frame' = [frame EXCEPT ![w] = frame[w]]
    BY <1>2 DEF IInv
  <2>2. LedgerFrameOK(frame[w], banks', customers', issued', accounts')
    BY <1>2 DEF LedgerFrameOK, CoreFrameOK
  <2> QED BY <2>1, <2>2 DEF Moves
<1> QED BY <1>3, <1>4, <1>5, <1>6 DEF Good, DbInv

LEMMA BeginDeleteBankGood ==
  ASSUME IInv, NEW w \in Workers, BeginDeleteBank(w) PROVE Good(w)
<1>1. PICK b \in Banks :
        /\ AcceptFor(w, "delete_bank", b)
        /\ Begin(w, [IdleFrame EXCEPT !.op = "delete_bank", !.pc = "remove_bank", !.bank = b])
  BY DEF BeginDeleteBank
<1> DEFINE g == [IdleFrame EXCEPT !.op = "delete_bank", !.pc = "remove_bank", !.bank = b]
<1>2. g \in Frame(Ops, LedgerLabels) /\ g.pc = "remove_bank" /\ g.bank = b
  BY FrameValues DEF IdleFrame, Frame, Ops, LedgerOps, LedgerLabels
<1>3. LedgerFrameOK(g, banks, customers, issued, accounts)
  BY <1>1, <1>2, OpenBankIssued DEF AcceptFor, LedgerFrameOK, CoreFrameOK
<1>4. UNCHANGED tables /\ served' = served + 1
  BY <1>1 DEF BeginDeleteBank, AcceptFor, Accept
<1> QED BY <1>1, <1>2, <1>3, <1>4, BeginGood

LEMMA BeginCreateCustomerGood ==
  ASSUME IInv, NEW w \in Workers, BeginCreateCustomer(w) PROVE Good(w)
<1>1. PICK b \in Banks :
        /\ AcceptFor(w, "create_customer", b)
        /\ Begin(w, [IdleFrame EXCEPT !.op = "create_customer", !.pc = "add_customer",
                                      !.bank = b])
  BY DEF BeginCreateCustomer
<1> DEFINE g == [IdleFrame EXCEPT !.op = "create_customer", !.pc = "add_customer", !.bank = b]
<1>2. g \in Frame(Ops, LedgerLabels) /\ g.pc = "add_customer" /\ g.bank = b
  BY FrameValues DEF IdleFrame, Frame, Ops, LedgerOps, LedgerLabels
<1>3. LedgerFrameOK(g, banks, customers, issued, accounts)
  BY <1>1, <1>2, OpenBankIssued DEF AcceptFor, LedgerFrameOK, CoreFrameOK
<1>4. UNCHANGED tables /\ served' = served + 1
  BY <1>1 DEF BeginCreateCustomer, AcceptFor, Accept
<1> QED BY <1>1, <1>2, <1>3, <1>4, BeginGood

LEMMA BeginOpenAccountGood ==
  ASSUME IInv, NEW w \in Workers, BeginOpenAccount(w) PROVE Good(w)
<1>1. PICK b \in Banks, c \in Currencies, k \in OpenKinds, cu \in CustomerIds \union {None} :
        /\ AcceptFor(w, "open_account", b)
        /\ Begin(w, [IdleFrame EXCEPT !.op = "open_account", !.pc = "check_customer",
                                      !.bank = b, !.customer = cu, !.ccy = c, !.kind = k])
  BY DEF BeginOpenAccount
<1> DEFINE g == [IdleFrame EXCEPT !.op = "open_account", !.pc = "check_customer",
                                  !.bank = b, !.customer = cu, !.ccy = c, !.kind = k]
<1>2. k \in Kinds
  BY LedgerAssumption
<1>3. g \in Frame(Ops, LedgerLabels) /\ g.pc = "check_customer" /\ g.bank = b /\ g.ccy = c
  BY <1>2, FrameValues DEF IdleFrame, Frame, Ops, LedgerOps, OpeningOps, LedgerLabels
<1>4. LedgerFrameOK(g, banks, customers, issued, accounts)
  BY <1>1, <1>3, OpenBankIssued DEF AcceptFor, LedgerFrameOK, CoreFrameOK
<1>5. UNCHANGED tables /\ served' = served + 1
  BY <1>1 DEF BeginOpenAccount, AcceptFor, Accept
<1> QED BY <1>1, <1>3, <1>4, <1>5, BeginGood

LEMMA BeginBatchGood ==
  ASSUME IInv, NEW w \in Workers, BeginBatch(w) PROVE Good(w)
<1>1. PICK b \in Banks, c \in Currencies :
        /\ AcceptFor(w, "batch", b)
        /\ Begin(w, [IdleFrame EXCEPT !.op = "batch", !.pc = "add_batch", !.bank = b,
                                      !.ccy = c])
  BY DEF BeginBatch
<1> DEFINE g == [IdleFrame EXCEPT !.op = "batch", !.pc = "add_batch", !.bank = b, !.ccy = c]
<1>2. g \in Frame(Ops, LedgerLabels) /\ g.pc = "add_batch" /\ g.bank = b /\ g.ccy = c
  BY FrameValues DEF IdleFrame, Frame, Ops, LedgerOps, OpeningOps, LedgerLabels
<1>3. LedgerFrameOK(g, banks, customers, issued, accounts)
  BY <1>1, <1>2, OpenBankIssued DEF AcceptFor, LedgerFrameOK, CoreFrameOK
<1>4. UNCHANGED tables /\ served' = served + 1
  BY <1>1 DEF BeginBatch, AcceptFor, Accept
<1> QED BY <1>1, <1>2, <1>3, <1>4, BeginGood

LEMMA BeginExternalGood ==
  ASSUME IInv, NEW w \in Workers, BeginExternal(w) PROVE Good(w)
<1>1. PICK b \in Banks, id \in AccountIds \intersect issued, c \in Asked, m \in Amounts,
           sd \in Sides :
        /\ AcceptFor(w, "external", b)
        /\ Begin(w, [IdleFrame EXCEPT !.op = "external", !.pc = "account_ccy", !.bank = b,
                       !.payer = id, !.ccy = c, !.amount = m, !.side = sd,
                       !.kind = "external_world", !.then = "book_external"])
  BY DEF BeginExternal
<1> DEFINE g == [IdleFrame EXCEPT !.op = "external", !.pc = "account_ccy", !.bank = b,
                   !.payer = id, !.ccy = c, !.amount = m, !.side = sd,
                   !.kind = "external_world", !.then = "book_external"]
<1>2. m \in Int /\ c \in Currencies \union {None}
  BY LedgerAssumption
<1>3. /\ g \in Frame(Ops, LedgerLabels) /\ g.pc = "account_ccy" /\ g.bank = b
      /\ g.payer = id /\ g.then = "book_external"
  BY <1>2, FrameValues DEF IdleFrame, Frame, Ops, LedgerOps, LedgerLabels, Kinds, InternalKinds
<1>4. LedgerFrameOK(g, banks, customers, issued, accounts)
  BY <1>1, <1>3, OpenBankIssued DEF AcceptFor, LedgerFrameOK, CoreFrameOK, Continuations
<1>5. UNCHANGED tables /\ served' = served + 1
  BY <1>1 DEF BeginExternal, AcceptFor, Accept
<1> QED BY <1>1, <1>3, <1>4, <1>5, BeginGood

LEMMA BeginTransferGood ==
  ASSUME IInv, NEW w \in Workers, BeginTransfer(w) PROVE Good(w)
<1>1. PICK b \in Banks, from \in AccountIds, to \in AccountIds,
           m \in Amounts, c \in Currencies, free \in Overdrafts :
        /\ AcceptFor(w, "transfer", b)
        /\ Begin(w, [IdleFrame EXCEPT !.op = "transfer", !.pc = "transfer", !.bank = b,
                       !.payer = from, !.payee = to, !.ccy = c, !.amount = m,
                       !.overdraft = free])
  BY DEF BeginTransfer
<1> DEFINE g == [IdleFrame EXCEPT !.op = "transfer", !.pc = "transfer", !.bank = b,
                   !.payer = from, !.payee = to, !.ccy = c, !.amount = m,
                   !.overdraft = free]
<1>2. m \in Int /\ free \in BOOLEAN
  BY LedgerAssumption
<1>3. /\ g \in Frame(Ops, LedgerLabels) /\ g.pc = "transfer" /\ g.bank = b
      /\ g.payer = from /\ g.payee = to /\ g.ccy = c
  BY <1>2, FrameValues DEF IdleFrame, Frame, Ops, LedgerOps, LedgerLabels, CoreLabels
<1>4. LedgerFrameOK(g, banks, customers, issued, accounts)
  BY <1>1, <1>3, OpenBankIssued DEF AcceptFor, LedgerFrameOK, CoreFrameOK
<1>5. UNCHANGED tables /\ served' = served + 1
  BY <1>1 DEF BeginTransfer, AcceptFor, Accept
<1> QED BY <1>1, <1>3, <1>4, <1>5, BeginGood

LEMMA BeginPostEntryGood ==
  ASSUME IInv, NEW w \in Workers, BeginPostEntry(w) PROVE Good(w)
<1>1. PICK b \in Banks, ps \in Entries :
        /\ AcceptFor(w, "post_entry", b)
        /\ \/ /\ Balanced(ps)
              /\ Begin(w, [IdleFrame EXCEPT !.op = "post_entry", !.pc = "post", !.bank = b,
                                            !.postings = ps])
           \/ /\ ~Balanced(ps)
              /\ Begin(w, [IdleFrame EXCEPT !.op = "post_entry", !.pc = "return", !.bank = b,
                                            !.result = "unbalanced"])
  BY DEF BeginPostEntry
<1>2. b \in Banks /\ b \in issued
  BY <1>1, OpenBankIssued DEF AcceptFor
<1>3. UNCHANGED tables /\ served' = served + 1
  BY <1>1 DEF BeginPostEntry, AcceptFor, Accept
<1>4. ps \in Seq(Posting)
  BY LedgerAssumption
<1> DEFINE f == [IdleFrame EXCEPT !.op = "post_entry", !.pc = "post", !.bank = b,
                                  !.postings = ps]
           g == [IdleFrame EXCEPT !.op = "post_entry", !.pc = "return", !.bank = b,
                                  !.result = "unbalanced"]
<1>5. CASE Balanced(ps) /\ Begin(w, f)
  <2>1. /\ f \in Frame(Ops, LedgerLabels)
        /\ f.pc = "post" /\ f.bank = b /\ f.postings = ps
    BY <1>4, FrameValues DEF IdleFrame, Frame, Ops, LedgerOps, LedgerLabels, CoreLabels
  <2>2. f.next = 1
    BY DEF IdleFrame
  <2>3. \A n \in DOMAIN ps : ~(n < 1)
    BY <1>4
  <2>4. LedgerFrameOK(f, banks, customers, issued, accounts)
    BY <1>2, <1>5, <2>1, <2>2, <2>3 DEF LedgerFrameOK, CoreFrameOK
  <2> QED BY <1>3, <1>5, <2>1, <2>4, BeginGood
<1>6. CASE Begin(w, g)
  <2>1. g \in Frame(Ops, LedgerLabels) /\ g.pc = "return" /\ g.bank = b
    BY FrameValues DEF IdleFrame, Frame, Ops, LedgerOps, LedgerLabels, CoreLabels, Results
  <2>2. LedgerFrameOK(g, banks, customers, issued, accounts)
    BY <1>2, <2>1 DEF LedgerFrameOK, CoreFrameOK
  <2> QED BY <1>3, <1>6, <2>1, <2>2, BeginGood
<1> QED BY <1>1, <1>5, <1>6

-----------------------------------------------------------------------------
(* The bodies. *)

LEMMA FrameHolds ==
  ASSUME IInv, NEW w \in Workers
  PROVE  /\ frame[w] \in Frame(Ops, LedgerLabels)
         /\ LedgerFrameOK(frame[w], banks, customers, issued, accounts)
         /\ CoreFrameOK(frame[w], banks, issued, accounts)
BY DEF IInv, LedgerFrameOK

(* A step of the core, whichever request makes it.                         *)
LEMMA CoreStepGood ==
  ASSUME IInv, NEW w \in Workers, CoreStep(w), UNCHANGED served PROVE Good(w)
<1>1. Advances(w, Ops, LedgerLabels) /\ DbInv' /\ DbStep
  BY FrameHolds, LabelsAndOps, CoreStepAdvances DEF IInv
<1>2. PICK f \in Frame(Ops, LedgerLabels) :
        /\ frame' = [frame EXCEPT ![w] = f]
        /\ CoreFrameOK(f, banks', issued', accounts')
        /\ f.pc \in CoreLabels \union {"book_external"}
  BY <1>1 DEF Advances
<1>3. LedgerFrameOK(f, banks', customers', issued', accounts')
  BY <1>2 DEF LedgerFrameOK, CoreLabels
<1> QED BY <1>1, <1>2, <1>3 DEF Good, Moves, IInv

(* From here on the bank is not in the table, and no id comes back.        *)
LEMMA RemoveBankRowGood ==
  ASSUME IInv, NEW w \in Workers, RemoveBankRow(w) PROVE Good(w)
<1> DEFINE g == [frame[w] EXCEPT !.pc = "purge"]
<1>1. /\ banks' = banks \ {frame[w].bank} /\ frame[w].pc = "remove_bank"
      /\ UNCHANGED <<customers, accounts, journal, seq, issued, served>>
      /\ frame' = [frame EXCEPT ![w] = g]
  BY DEF RemoveBankRow, Goto
<1>2. DbInv' /\ DbStep
  BY <1>1 DEF IInv, DbInv, DbTypeOK, DbKeys, LedgerIntegrity, Consistent, DbStep
<1>3. g \in Frame(Ops, LedgerLabels) /\ g.pc = "purge" /\ g.bank = frame[w].bank
  BY FrameHolds DEF Frame, LedgerLabels
<1>4. LedgerFrameOK(g, banks', customers', issued', accounts')
  <2>1. g.bank \in Banks /\ g.bank \in issued' /\ g.bank \notin banks'
    BY <1>1, <1>3, FrameHolds DEF CoreFrameOK
  <2> HIDE DEF g
  <2> QED BY <1>3, <2>1 DEF LedgerFrameOK, CoreFrameOK
<1> QED BY <1>1, <1>2, <1>3, <1>4 DEF Good, Moves, IInv

(* Only rows of a bank that is no longer open go.                          *)
LEMMA RemoveBankRowsGood ==
  ASSUME IInv, NEW w \in Workers, RemoveBankRows(w) PROVE Good(w)
<1> DEFINE b == frame[w].bank
<1>1. /\ frame[w].pc = "purge" /\ Reply(w, "ok")
      /\ customers' = {c \in customers : c.bank # b}
      /\ accounts' = {a \in accounts : a.bank # b}
      /\ journal' = {e \in journal : e.bank # b}
      /\ UNCHANGED <<banks, seq, issued, served>>
  BY DEF RemoveBankRows
<1>2. b \notin banks
  BY <1>1, FrameHolds DEF LedgerFrameOK
<1>3. DbStep
  BY <1>1, <1>2 DEF DbStep
<1>4. DbTypeOK' /\ DbKeys'
  BY <1>1 DEF IInv, DbInv, DbTypeOK, DbKeys
<1>5. LedgerIntegrity'
  <2>1. \A e \in journal' : Balanced(e.postings)
    BY <1>1 DEF IInv, DbInv, LedgerIntegrity, Consistent
  <2>2. ASSUME NEW e \in journal', e.bank \in banks', NEW n \in DOMAIN e.postings
        PROVE  PostingResolves(e.postings[n], e.bank, accounts')
    <3>1. e \in journal /\ e.bank \in banks
      BY <1>1, <2>2
    <3>2. PostingResolves(e.postings[n], e.bank, accounts)
      BY <2>2, <3>1 DEF IInv, DbInv, LedgerIntegrity, Consistent, EntryResolves
    <3> QED BY <1>1, <1>2, <3>1, <3>2 DEF PostingResolves
  <2>3. ASSUME NEW a \in accounts', a.bank \in banks', a.customer # None
        PROVE  [id |-> a.customer, bank |-> a.bank] \in customers'
    <3>1. [id |-> a.customer, bank |-> a.bank] \in customers /\ a.bank # b
      BY <1>1, <1>2, <2>3 DEF IInv, DbInv, LedgerIntegrity, Consistent
    <3> QED BY <1>1, <3>1
  <2> QED BY <2>1, <2>2, <2>3 DEF LedgerIntegrity, Consistent, EntryResolves
<1> QED BY <1>1, <1>3, <1>4, <1>5, ReplyGood DEF IInv, DbInv, Results

LEMMA AddCustomerGood ==
  ASSUME IInv, NEW w \in Workers, AddCustomer(w) PROVE Good(w)
<1>1. PICK id \in CustomerIds \ issued :
        /\ customers' = customers \union {[id |-> id, bank |-> frame[w].bank]}
        /\ issued' = issued \union {id}
  BY DEF AddCustomer
<1>2. /\ frame[w].pc = "add_customer" /\ Reply(w, "ok")
      /\ UNCHANGED <<banks, accounts, journal, seq, served>>
  BY DEF AddCustomer
<1>3. frame[w].bank \in Banks /\ frame[w].bank \in issued
  BY <1>2, FrameHolds DEF CoreFrameOK
<1>4. [id |-> id, bank |-> frame[w].bank] \in Customer
  BY <1>1, <1>3 DEF Customer
<1>5. DbTypeOK'
  BY <1>1, <1>2, <1>4 DEF IInv, DbInv, DbTypeOK
<1>6. DbKeys' /\ LedgerIntegrity'
  BY <1>1, <1>2 DEF IInv, DbInv, DbKeys, LedgerIntegrity, Consistent
<1>7. banks' \intersect issued \subseteq banks /\ DbStep
  BY <1>1, <1>2 DEF DbStep
<1> QED BY <1>2, <1>5, <1>6, <1>7, ReplyGood DEF IInv, DbInv, Results

(* The customer is of the bank when it is looked up, and stays so while    *)
(* the bank is open.                                                       *)
LEMMA CheckCustomerGood ==
  ASSUME IInv, NEW w \in Workers, CheckCustomer(w) PROVE Good(w)
<1> DEFINE f == frame[w]
           g == [frame[w] EXCEPT !.pc = "add_account"]
<1>1. f.pc = "check_customer" /\ UNCHANGED <<tables, served>>
  BY DEF CheckCustomer
<1>2. DbInv' /\ DbStep /\ served' \in Nat
  BY <1>1, TablesUnchanged DEF IInv
<1>3. CASE Reply(w, "not_found")
  BY <1>1, <1>2, <1>3, ReplyGood DEF Results
<1>4. CASE /\ f.customer = None \/ GetCustomer(f.bank, f.customer) # {}
           /\ Goto(w, "add_account")
  <2>1. /\ g \in Frame(Ops, LedgerLabels) /\ g.pc = "add_account" /\ g.bank = f.bank
        /\ g.customer = f.customer /\ g.ccy = f.ccy
    BY FrameHolds DEF Frame, LedgerLabels
  <2>2. f.customer # None => [id |-> f.customer, bank |-> f.bank] \in customers
    <3>1. ASSUME NEW c \in customers, c.id = f.customer, c.bank = f.bank
          PROVE  c = [id |-> f.customer, bank |-> f.bank]
      <4>1. c \in Customer
        BY DEF IInv, DbInv, DbTypeOK
      <4> QED BY <3>1, <4>1 DEF Customer
    <3> QED BY <1>4, <3>1 DEF GetCustomer
  <2>3. LedgerFrameOK(g, banks', customers', issued', accounts')
    BY <1>1, <2>1, <2>2, FrameHolds DEF LedgerFrameOK, CoreFrameOK, tables
  <2>4. frame' = [frame EXCEPT ![w] = g]
    BY <1>4 DEF Goto
  <2> QED BY <1>2, <2>1, <2>3, <2>4 DEF Good, Moves
<1> QED BY <1>3, <1>4 DEF CheckCustomer

LEMMA AddAccountGood ==
  ASSUME IInv, NEW w \in Workers, AddAccount(w) PROVE Good(w)
<1> DEFINE f == frame[w]
<1>1. PICK id \in AccountIds \ issued :
        /\ accounts' = accounts \union {[id |-> id, bank |-> f.bank, ccy |-> f.ccy,
                                         kind |-> f.kind, customer |-> f.customer]}
        /\ issued' = issued \union {id}
  BY DEF AddAccount
<1>2. /\ f.pc = "add_account" /\ Reply(w, "ok")
      /\ UNCHANGED <<banks, customers, journal, seq>> /\ UNCHANGED served
  BY DEF AddAccount
<1> DEFINE a == [id |-> id, bank |-> f.bank, ccy |-> f.ccy, kind |-> f.kind,
                 customer |-> f.customer]
<1>3. f.bank \in Banks /\ f.bank \in issued /\ f.ccy \in Currencies
  BY <1>2, FrameHolds DEF CoreFrameOK, LedgerFrameOK
<1>4. f.kind \in Kinds /\ f.customer \in CustomerIds \union {None}
  BY FrameHolds DEF Frame
<1>5. /\ a \in Account /\ a.id = id /\ a.bank = f.bank /\ a.customer = f.customer
      /\ accounts' = accounts \union {a} /\ issued' = issued \union {a.id}
  BY <1>1, <1>3, <1>4 DEF Account
<1>6. f.bank \in banks /\ f.customer # None =>
        [id |-> f.customer, bank |-> f.bank] \in customers
  BY <1>2, FrameHolds DEF LedgerFrameOK
<1> HIDE DEF a
<1>7. DbInv' /\ DbStep
  BY <1>1, <1>2, <1>3, <1>5, <1>6, AddAccountKeepsDb DEF IInv
<1> QED BY <1>2, <1>7, ReplyGood DEF IInv, Results

(* The rows of a batch are of one bank, with ids nobody had, and the       *)
(* accounts belong to the customers that come with them.                   *)
BatchRows(w, cs, as, kind, owner) ==
  /\ customers' = customers \union {[id |-> id, bank |-> frame[w].bank] : id \in cs}
  /\ accounts' = accounts \union
       {[id |-> id, bank |-> frame[w].bank, ccy |-> frame[w].ccy, kind |-> kind[id],
         customer |-> owner[id]] : id \in as}

LEMMA BatchAdds ==
  ASSUME NEW w, AddBatch(w)
  PROVE  \E cs \in SUBSET (CustomerIds \ issued), as \in SUBSET (AccountIds \ issued) :
           /\ IsFiniteSet(cs) /\ IsFiniteSet(as) /\ issued' = issued \union cs \union as
           /\ \E kind \in [as -> BatchKinds], owner \in [as -> cs] :
                BatchRows(w, cs, as, kind, owner)
<1> DEFINE A(as, kind, owner) ==
             {[id |-> id, bank |-> frame[w].bank, ccy |-> frame[w].ccy, kind |-> kind[id],
               customer |-> owner[id]] : id \in as}
<1>1. PICK cs \in SUBSET (CustomerIds \ issued), as \in SUBSET (AccountIds \ issued) :
        /\ IsFiniteSet(cs) /\ IsFiniteSet(as) /\ issued' = issued \union cs \union as
        /\ customers' = customers \union {[id |-> id, bank |-> frame[w].bank] : id \in cs}
        /\ \E kind \in [as -> BatchKinds], owner \in [as -> cs] :
             accounts' = accounts \union A(as, kind, owner)
  BY DEF AddBatch
<1>2. PICK kind \in [as -> BatchKinds], owner \in [as -> cs] :
        accounts' = accounts \union A(as, kind, owner)
  BY <1>1
<1>3. BatchRows(w, cs, as, kind, owner)
  BY <1>1, <1>2 DEF BatchRows
<1> QED BY <1>1, <1>3

LEMMA AddBatchGood ==
  ASSUME IInv, NEW w \in Workers, AddBatch(w) PROVE Good(w)
<1> DEFINE f == frame[w]
<1>0. PICK cs \in SUBSET (CustomerIds \ issued), as \in SUBSET (AccountIds \ issued) :
        /\ issued' = issued \union cs \union as
        /\ \E kind \in [as -> BatchKinds], owner \in [as -> cs] :
             BatchRows(w, cs, as, kind, owner)
  BY BatchAdds
<1>1. PICK kind \in [as -> BatchKinds], owner \in [as -> cs] :
        BatchRows(w, cs, as, kind, owner) /\ issued' = issued \union cs \union as
  BY <1>0
<1>2. /\ f.pc = "add_batch" /\ Reply(w, "ok")
      /\ UNCHANGED <<banks, journal, seq, served>>
  BY DEF AddBatch
<1>3. f.bank \in Banks /\ f.bank \in issued /\ f.ccy \in Currencies
  BY <1>2, FrameHolds DEF CoreFrameOK, LedgerFrameOK
<1> DEFINE C(id) == [id |-> id, bank |-> f.bank]
           A(id) == [id |-> id, bank |-> f.bank, ccy |-> f.ccy, kind |-> kind[id],
                     customer |-> owner[id]]
<1>4. ASSUME NEW id \in cs PROVE C(id) \in Customer /\ C(id).id = id /\ C(id).bank = f.bank
  BY <1>3, <1>4 DEF Customer
<1>5. ASSUME NEW id \in as
      PROVE  /\ A(id) \in Account /\ A(id).id = id /\ A(id).bank = f.bank
             /\ C(A(id).customer) \in customers'
  <2>1. id \in AccountIds /\ kind[id] \in Kinds /\ owner[id] \in cs
    BY <1>5, LedgerAssumption
  <2>2. owner[id] \in CustomerIds
    BY <2>1
  <2>3. C(owner[id]) \in customers'
    BY <1>1, <2>1 DEF BatchRows
  <2> QED BY <1>3, <2>1, <2>2, <2>3 DEF Account
<1>6. /\ \A x \in customers' : x \in customers \/ \E id \in cs : x = C(id)
      /\ \A x \in accounts' : x \in accounts \/ \E id \in as : x = A(id)
      /\ customers \subseteq customers' /\ accounts \subseteq accounts'
  BY <1>1 DEF BatchRows
<1> HIDE DEF C, A
<1>7. DbTypeOK'
  BY <1>1, <1>2, <1>4, <1>5, <1>6 DEF IInv, DbInv, DbTypeOK
<1>8. DbKeys'
  <2>0. DbKeys /\ issued \subseteq issued' /\ as \subseteq issued' /\ as \intersect issued = {}
    BY <1>1 DEF IInv, DbInv
  <2>1. ASSUME NEW x \in accounts' PROVE x.id \in issued' /\ x.bank \in issued'
    <3>1. CASE x \in accounts
      BY <2>0, <3>1 DEF DbKeys
    <3>2. ASSUME NEW id \in as, x = A(id) PROVE x.id \in issued' /\ x.bank \in issued'
      BY <1>3, <1>5, <2>0, <3>2
    <3> QED BY <1>6, <3>1, <3>2
  <2>2. ASSUME NEW x \in accounts', NEW y \in accounts', x.id = y.id PROVE x = y
    <3>1. \A z \in accounts : z.id \in issued
      BY <2>0 DEF DbKeys
    <3>2. \A z \in accounts' : z \in accounts \/ (z.id \in as /\ z = A(z.id))
      BY <1>5, <1>6
    <3>3. x \in accounts <=> y \in accounts
      BY <2>0, <2>2, <3>1, <3>2
    <3>4. CASE x \in accounts
      BY <2>0, <2>2, <3>3, <3>4 DEF DbKeys
    <3>5. CASE x \notin accounts
      BY <2>2, <3>2, <3>3, <3>5
    <3> QED BY <3>4, <3>5
  <2> QED BY <1>2, <2>0, <2>1, <2>2 DEF DbKeys, IInv, DbInv, DbTypeOK
<1>9. LedgerIntegrity'
  <2>1. \A e \in journal : e.bank \in banks => EntryResolves(e, accounts')
    BY <1>6 DEF IInv, DbInv, LedgerIntegrity, Consistent, EntryResolves, PostingResolves
  <2>2. ASSUME NEW x \in accounts', x.bank \in banks, x.customer # None
        PROVE  [id |-> x.customer, bank |-> x.bank] \in customers'
    <3>1. CASE x \in accounts
      BY <1>6, <2>2, <3>1 DEF IInv, DbInv, LedgerIntegrity, Consistent
    <3>2. CASE x \notin accounts
      <4>1. C(x.customer) \in customers' /\ x.bank = f.bank
        BY <1>5, <1>6, <3>2
      <4> QED BY <4>1 DEF C
    <3> QED BY <3>1, <3>2
  <2> QED BY <1>2, <2>1, <2>2 DEF IInv, DbInv, LedgerIntegrity, Consistent
<1>10. DbStep
  BY <1>1, <1>2, <1>6 DEF DbStep
<1> QED BY <1>2, <1>7, <1>8, <1>9, <1>10, ReplyGood DEF IInv, DbInv, Results

LEMMA ExternalAccountGood ==
  ASSUME IInv, NEW w \in Workers, ExternalAccount(w) PROVE Good(w)
<1> DEFINE f == frame[w]
<1>1. f.pc = "account_ccy" /\ UNCHANGED <<tables, served>>
  BY DEF ExternalAccount
<1>2. DbInv' /\ DbStep /\ served' \in Nat
  BY <1>1, TablesUnchanged DEF IInv
<1>3. CASE Reply(w, "not_found") \/ Reply(w, "mismatch")
  BY <1>1, <1>2, <1>3, ReplyGood DEF Results
<1>4. CASE \E a \in GetAccount(f.bank, f.payer) :
             frame' = [frame EXCEPT ![w].ccy = a.ccy, ![w].pc = "ensure"]
  <2>1. PICK a \in GetAccount(f.bank, f.payer) :
          frame' = [frame EXCEPT ![w].ccy = a.ccy, ![w].pc = "ensure"]
    BY <1>4
  <2>2. PICK c \in Currencies : c = a.ccy
    BY <2>1 DEF GetAccount, IInv, DbInv, DbTypeOK, Account
  <2> DEFINE g == [frame[w] EXCEPT !.ccy = c, !.pc = "ensure"]
  <2>3. /\ g \in Frame(Ops, LedgerLabels) /\ g.pc = "ensure" /\ g.bank = f.bank
        /\ g.ccy = c /\ g.payer = f.payer /\ g.then = f.then
    <3>1. frame[w] \in Frame(Ops, LedgerLabels) /\ "ensure" \in LedgerLabels
      BY FrameHolds DEF LedgerLabels, CoreLabels
    <3> QED BY <3>1 DEF Frame
  <2>4. LedgerFrameOK(g, banks', customers', issued', accounts')
    <3>1. f.bank \in Banks /\ f.bank \in issued'
      BY <1>1, FrameHolds DEF CoreFrameOK, tables
    <3>2. f.payer \in AccountIds /\ f.then \in Continuations
      BY <1>1, FrameHolds DEF LedgerFrameOK
    <3> HIDE DEF g
    <3> QED BY <2>3, <3>1, <3>2 DEF LedgerFrameOK, CoreFrameOK
  <2>5. frame' = [frame EXCEPT ![w] = g]
    BY <2>1, <2>2
  <2> QED BY <1>2, <2>3, <2>4, <2>5 DEF Good, Moves
<1> QED BY <1>3, <1>4 DEF ExternalAccount

LEMMA ExternalBookGood ==
  ASSUME IInv, NEW w \in Workers, ExternalBook(w) PROVE Good(w)
<1> DEFINE f == frame[w]
<1>1. f.pc = "book_external" /\ UNCHANGED <<tables, served>>
  BY DEF ExternalBook
<1>2. DbInv' /\ DbStep /\ served' \in Nat
  BY <1>1, TablesUnchanged DEF IInv
<1>3. /\ f.payer \in AccountIds /\ f.payee \in AccountIds /\ f.ccy \in Currencies
      /\ f.amount \in Int
  BY <1>1, FrameHolds DEF CoreFrameOK, Frame
<1>4. /\ TwoLegs(f.payee, f.payer, f.ccy, f.amount) \in Seq(Posting)
      /\ TwoLegs(f.payer, f.payee, f.ccy, f.amount) \in Seq(Posting)
  BY <1>3, TwoLegsType
<1>5. \/ Book(w, TwoLegs(f.payee, f.payer, f.ccy, f.amount))
      \/ Book(w, TwoLegs(f.payer, f.payee, f.ccy, f.amount))
  BY DEF ExternalBook
<1>6. Advances(w, Ops, LedgerLabels)
  BY <1>1, <1>2, <1>4, <1>5, FrameHolds, LabelsAndOps, BookAdvances DEF IInv
<1>7. PICK g \in Frame(Ops, LedgerLabels) :
        /\ frame' = [frame EXCEPT ![w] = g]
        /\ CoreFrameOK(g, banks', issued', accounts')
        /\ g.pc \in CoreLabels \union {"book_external"}
  BY <1>6 DEF Advances
<1>8. LedgerFrameOK(g, banks', customers', issued', accounts')
  BY <1>7 DEF LedgerFrameOK, CoreLabels
<1> QED BY <1>2, <1>7, <1>8 DEF Good, Moves

LEMMA FinishGood ==
  ASSUME IInv, NEW w \in Workers, Finish(w) PROVE Good(w)
<1>1. UNCHANGED <<tables, served>> /\ frame' = [frame EXCEPT ![w] = IdleFrame]
  BY DEF Finish, Begin
<1>2. DbInv' /\ DbStep /\ served' \in Nat
  BY <1>1, TablesUnchanged DEF IInv
<1>3. LedgerFrameOK(IdleFrame, banks', customers', issued', accounts')
  BY DEF LedgerFrameOK, CoreFrameOK, IdleFrame
<1> QED BY <1>1, <1>2, <1>3, IdleFrameType DEF Good, Moves

-----------------------------------------------------------------------------
(* The invariant. *)

LEMMA InitIInv == Init => IInv
<1> SUFFICES ASSUME Init PROVE IInv
  OBVIOUS
<1>1. DbInv
  BY SeedIsSound DEF Init
<1>2. frame = [w \in Workers |-> IdleFrame] /\ served = 0
  BY DEF Init, CoreInit
<1>3. LedgerFrameOK(IdleFrame, banks, customers, issued, accounts)
  BY DEF LedgerFrameOK, CoreFrameOK, IdleFrame
<1> QED BY <1>1, <1>2, <1>3, IdleFrameType DEF IInv

(* One step per action. *)
LEMMA WorkerGood ==
  ASSUME IInv, NEW w \in Workers, Accepts(w) \/ Works(w) PROVE Good(w)
BY BeginCreateBankGood, BeginDeleteBankGood, BeginCreateCustomerGood,
   BeginOpenAccountGood, BeginBatchGood, BeginExternalGood, BeginTransferGood,
   BeginPostEntryGood, CoreStepGood, RemoveBankRowGood, RemoveBankRowsGood, AddCustomerGood,
   CheckCustomerGood, AddAccountGood, AddBatchGood, ExternalAccountGood, ExternalBookGood,
   FinishGood DEF Accepts, Works

LEMMA NextIInv == IInv /\ [Next]_vars => IInv' /\ DbStep
<1> SUFFICES ASSUME IInv, [Next]_vars PROVE IInv' /\ DbStep
  OBVIOUS
<1>1. CASE UNCHANGED vars
  <2>1. UNCHANGED tables /\ UNCHANGED <<frame, served>>
    BY <1>1 DEF vars, tables
  <2>2. DbInv' /\ DbStep
    BY <2>1, TablesUnchanged DEF IInv
  <2> QED BY <2>1, <2>2 DEF IInv, LedgerFrameOK, CoreFrameOK, tables
<1>2. ASSUME NEW w \in Workers, Accepts(w) \/ Works(w) PROVE IInv' /\ DbStep
  BY <1>2, WorkerGood, GoodKeepsInv DEF Good
<1> QED BY <1>1, <1>2 DEF Next, AllServed

THEOREM Invariance == Spec => []IInv
<1>1. IInv /\ [Next]_vars => IInv'
  BY NextIInv
<1> QED BY InitIInv, <1>1, PTL DEF Spec

(* Rows and frames stay of their types, and ids stay unique, whatever      *)
(* requests run at once.                                                   *)
THEOREM TypeCorrect == Spec => []TypeOK
<1>1. IInv => TypeOK
  BY DEF IInv, DbInv, DbTypeOK, DbKeys, TypeOK, Ops
<1> QED BY <1>1, Invariance, PTL

(* Every entry balances; while its bank is open each posting is to an      *)
(* account of that bank and currency, and each account's customer is one   *)
(* of that bank: for any number of concurrent requests, deletions of banks *)
(* included.                                                               *)
THEOREM LedgerIsSound == Spec => []LedgerIntegrity
<1>1. IInv => LedgerIntegrity
  BY DEF IInv, DbInv
<1> QED BY <1>1, Invariance, PTL

(* No step takes a row from a bank that is still open: deleting one tenant *)
(* never touches another, and nothing is rewritten.                        *)
THEOREM TenantsAreIsolated == Spec => OpenBanksKeepRows
<1>1. IInv /\ [Next]_vars =>
        [\A b \in banks \intersect banks' : RowsOf(b) \subseteq RowsOf(b)']_vars
  <2> SUFFICES ASSUME IInv, [Next]_vars, NEW b \in banks \intersect banks'
               PROVE  RowsOf(b) \subseteq RowsOf(b)'
    OBVIOUS
  <2>1. DbStep
    BY NextIInv
  <2> QED BY <2>1 DEF DbStep, RowsOf, ListAccounts, ListJournal
<1> QED BY <1>1, Invariance, PTL DEF Spec, OpenBanksKeepRows

-----------------------------------------------------------------------------
(* Conservation of money. *)

(* The values of a function on a finite set are finitely many. *)
LEMMA FiniteRange ==
  ASSUME NEW S, IsFiniteSet(S), NEW f, f = [x \in S |-> f[x]]
  PROVE  IsFiniteSet({f[x] : x \in S})
<1> DEFINE T == {f[x] : x \in S}
<1>1. f \in Surjection(S, T)
  BY DEF Surjection
<1> QED BY <1>1, FS_Surjection

LEMMA FiniteKept == FiniteDb /\ [Next]_vars => FiniteDb'
<1> SUFFICES ASSUME FiniteDb, [Next]_vars PROVE FiniteDb'
  OBVIOUS
<1>1. CASE UNCHANGED <<customers, accounts, journal>>
  BY <1>1 DEF FiniteDb
<1>2. ASSUME NEW w \in Workers, RemoveBankRows(w) PROVE FiniteDb'
  <2>1. /\ customers' \in SUBSET customers /\ accounts' \in SUBSET accounts
        /\ journal' \in SUBSET journal
    BY <1>2 DEF RemoveBankRows
  <2> QED BY <2>1, FS_Subset DEF FiniteDb
<1>3. ASSUME NEW w \in Workers, AddCustomer(w) PROVE FiniteDb'
  <2>1. PICK c : customers' = customers \union {c}
    BY <1>3 DEF AddCustomer
  <2>2. UNCHANGED <<accounts, journal>>
    BY <1>3 DEF AddCustomer
  <2> QED BY <2>1, <2>2, FS_AddElement DEF FiniteDb
<1>4. ASSUME NEW w \in Workers, AddAccount(w) PROVE FiniteDb'
  <2>1. PICK a : accounts' = accounts \union {a}
    BY <1>4 DEF AddAccount
  <2>2. UNCHANGED <<customers, journal>>
    BY <1>4 DEF AddAccount
  <2> QED BY <2>1, <2>2, FS_AddElement DEF FiniteDb
<1>5. ASSUME NEW w \in Workers, Accepts(w) PROVE UNCHANGED <<customers, accounts, journal>>
  BY <1>5 DEF Accepts, BeginCreateBank, BeginDeleteBank, BeginCreateCustomer, BeginBatch,
              BeginOpenAccount, BeginExternal, BeginTransfer, BeginPostEntry, tables
<1>7. ASSUME NEW w \in Workers, AddBatch(w) PROVE FiniteDb'
  <2>0. PICK cs \in SUBSET (CustomerIds \ issued), as \in SUBSET (AccountIds \ issued) :
          /\ IsFiniteSet(cs) /\ IsFiniteSet(as)
          /\ \E kind \in [as -> BatchKinds], owner \in [as -> cs] :
               BatchRows(w, cs, as, kind, owner)
    BY <1>7, BatchAdds
  <2>1. PICK kind \in [as -> BatchKinds], owner \in [as -> cs] :
          IsFiniteSet(cs) /\ IsFiniteSet(as) /\ BatchRows(w, cs, as, kind, owner)
    BY <2>0
  <2> DEFINE C == {[id |-> id, bank |-> frame[w].bank] : id \in cs}
             A == {[id |-> id, bank |-> frame[w].bank, ccy |-> frame[w].ccy,
                    kind |-> kind[id], customer |-> owner[id]] : id \in as}
  <2>2. IsFiniteSet(C) /\ IsFiniteSet(A)
    <3> DEFINE g == [id \in cs |-> [id |-> id, bank |-> frame[w].bank]]
               h == [id \in as |-> [id |-> id, bank |-> frame[w].bank, ccy |-> frame[w].ccy,
                                    kind |-> kind[id], customer |-> owner[id]]]
    <3>1. C = {g[id] : id \in cs} /\ A = {h[id] : id \in as}
      OBVIOUS
    <3>2. g = [id \in cs |-> g[id]] /\ h = [id \in as |-> h[id]]
      OBVIOUS
    <3> HIDE DEF C, A, g, h
    <3>3. IsFiniteSet({g[id] : id \in cs})
      BY <2>1, <3>2, FiniteRange
    <3>4. IsFiniteSet({h[id] : id \in as})
      <4>1. IsFiniteSet(as) /\ h = [id \in as |-> h[id]]
        BY <2>1, <3>2
      <4> QED BY <4>1, FiniteRange
    <3> QED BY <3>1, <3>3, <3>4
  <2>3. customers' = customers \union C /\ accounts' = accounts \union A /\ journal' = journal
    BY <1>7, <2>1 DEF BatchRows, AddBatch
  <2> HIDE DEF C, A
  <2> QED BY <2>2, <2>3, FS_Union DEF FiniteDb
<1>6. ASSUME NEW w \in Workers, Works(w) PROVE FiniteDb'
  BY <1>1, <1>2, <1>3, <1>4, <1>6, <1>7, CoreStepKeepsFinite
     DEF Works, RemoveBankRow, CheckCustomer, ExternalAccount, ExternalBook, Finish, tables
<1> QED BY <1>1, <1>5, <1>6 DEF Next, AllServed, vars

(* The database stays finite. *)
THEOREM FinitelyManyRows == Spec => []FiniteDb
<1>1. Init => FiniteDb
  BY SeedAssumption DEF Init, CoreInit, FiniteDb
<1> QED BY <1>1, FiniteKept, PTL DEF Spec

(* No money is made or lost: in every open bank the balances of the        *)
(* accounts in one currency add up to zero, with any number of accounts,   *)
(* entries and requests in flight.  It follows from the soundness of the   *)
(* ledger alone.                                                           *)
THEOREM MoneyStays == Spec => []Conservation
<1>1. IInv /\ FiniteDb => Conservation
  BY MoneyIsConserved DEF IInv, FiniteDb, Conservation
<1> QED BY <1>1, Invariance, FinitelyManyRows, PTL

-----------------------------------------------------------------------------
(* Internal accounts. *)

(* The requests that found no such account, and are about to open one.     *)
Looking(b, c, k) ==
  {w \in Workers : /\ frame[w].pc = "open_internal" /\ frame[w].bank = b
                   /\ frame[w].ccy = c /\ frame[w].kind = k}

(* Nobody starts to look for what is there, and who found nothing opens    *)
(* one account: the accounts and the requests about to open one are no     *)
(* more than the workers.  The bound on the accounts alone is not          *)
(* inductive: it says nothing of who may be opening another.               *)
Few(b, c, k) ==
  Cardinality(Ensured(b, c, k)) + Cardinality(Looking(b, c, k)) <= Cardinality(Workers)

(* The frames of the requests in which clients open accounts say so. *)
ClientAsks(w) == frame[w].pc \in {"check_customer", "add_account", "add_batch"} =>
                   frame[w].op \in OpeningOps

FewInv ==
  /\ \A w \in Workers : ClientAsks(w)
  /\ \A b \in Banks, c \in Currencies, k \in InternalKinds : Few(b, c, k)

(* A worker's step is its own. *)
LEMMA OwnStep ==
  ASSUME IInv, NEW w \in Workers, Accepts(w) \/ Works(w)
  PROVE  /\ \A v \in Workers : v # w => frame'[v] = frame[v]
         /\ frame'[w] \in Frame(Ops, LedgerLabels)
BY WorkerGood DEF Good, Moves, IInv

(* Where a request's head, and each step of its body, takes it.            *)
LEMMA AcceptsLeads ==
  ASSUME IInv, NEW w \in Workers, Accepts(w)
  PROVE  /\ UNCHANGED <<customers, accounts, journal>>
         /\ frame'[w].pc \notin {"open_internal", "add_account"}
         /\ frame'[w].pc \in {"check_customer", "add_batch"} => frame'[w].op \in OpeningOps
<1>0. frame \in [Workers -> Frame(Ops, LedgerLabels)]
  BY DEF IInv
<1>1. CASE BeginCreateBank(w)
  BY <1>0, <1>1 DEF BeginCreateBank, Accept
<1>2. CASE BeginDeleteBank(w)
  BY <1>0, <1>2 DEF BeginDeleteBank, Begin, tables, IdleFrame
<1>3. CASE BeginCreateCustomer(w)
  BY <1>0, <1>3 DEF BeginCreateCustomer, Begin, tables, IdleFrame
<1>4. CASE BeginOpenAccount(w)
  BY <1>0, <1>4 DEF BeginOpenAccount, Begin, tables, IdleFrame, OpeningOps
<1>8. CASE BeginBatch(w)
  BY <1>0, <1>8 DEF BeginBatch, Begin, tables, IdleFrame, OpeningOps
<1>5. CASE BeginExternal(w)
  BY <1>0, <1>5 DEF BeginExternal, Begin, tables, IdleFrame
<1>6. CASE BeginTransfer(w)
  BY <1>0, <1>6 DEF BeginTransfer, Begin, tables, IdleFrame
<1>7. CASE BeginPostEntry(w)
  BY <1>0, <1>7 DEF BeginPostEntry, Begin, tables, IdleFrame
<1> QED BY <1>1, <1>2, <1>3, <1>4, <1>5, <1>6, <1>7, <1>8 DEF Accepts

(* The labels a core step, or a step of a body, leads to.                  *)
LEMMA WorksLeads ==
  ASSUME IInv, NEW w \in Workers, Works(w)
  PROVE  /\ frame'[w].pc = "open_internal" =>
              EnsureFind(w) /\ Goto(w, "open_internal") /\ Matching(frame[w]) = {}
         /\ frame'[w].pc = "add_account" => CheckCustomer(w) /\ Goto(w, "add_account")
         /\ frame'[w].pc \notin {"check_customer", "add_batch"}
<1>0. frame \in [Workers -> Frame(Ops, LedgerLabels)]
  BY DEF IInv
<1>1. frame[w].pc \in {"ensure", "open_internal"} => frame[w].then \in Continuations
  BY FrameHolds DEF CoreFrameOK
<1> DEFINE Watched == {"open_internal", "add_account", "check_customer", "add_batch"}
<1>2. CASE EnsureFind(w)
  <2>1. CASE Goto(w, "open_internal") /\ Matching(frame[w]) = {}
    <3>1. frame'[w].pc = "open_internal"
      BY <1>0, <2>1 DEF Goto
    <3> QED BY <1>2, <2>1, <3>1
  <2>2. ASSUME NEW a, frame' = [frame EXCEPT ![w].payee = a.id, ![w].pc = frame[w].then]
        PROVE  frame'[w].pc \notin Watched
    <3>1. frame'[w].pc = frame[w].then
      BY <1>0, <2>2
    <3> QED BY <1>1, <1>2, <3>1 DEF EnsureFind, Continuations
  <2> QED BY <1>2, <2>1, <2>2 DEF EnsureFind
<1>3. CASE EnsureOpen(w)
  <2>1. frame'[w].pc = frame[w].then
    BY <1>0, <1>3 DEF EnsureOpen
  <2> QED BY <1>1, <1>3, <2>1 DEF EnsureOpen, Continuations
<1>4. ASSUME NEW r, Reply(w, r) PROVE frame'[w].pc \notin Watched
  BY <1>0, <1>4 DEF Reply
<1>5. ASSUME NEW ps, Book(w, ps) PROVE frame'[w].pc \notin Watched
  <2>1. CASE Reply(w, "unbalanced")
    BY <1>4, <2>1
  <2>2. CASE frame' = [frame EXCEPT ![w].pc = "post", ![w].postings = ps, ![w].next = 1]
    <3>1. frame'[w].pc = "post"
      BY <1>0, <2>2
    <3> QED BY <3>1
  <2> QED BY <1>5, <2>1, <2>2 DEF Book
<1>6. ASSUME NEW l, Goto(w, l), l \notin Watched PROVE frame'[w].pc \notin Watched
  <2>1. frame'[w].pc = l
    BY <1>0, <1>6 DEF Goto
  <2> QED BY <1>6, <2>1
<1>7. CASE TransferLookup(w) \/ TransferFunds(w)
  <2>1. frame'[w].pc \notin Watched
    BY <1>4, <1>5, <1>6, <1>7 DEF TransferLookup, TransferFunds
  <2> QED BY <2>1
<1>8. CASE PostCheck(w)
  <2>1. ASSUME frame' = [frame EXCEPT ![w].next = @ + 1] PROVE frame'[w].pc = "post"
    BY <1>0, <1>8, <2>1 DEF PostCheck
  <2>2. frame'[w].pc \notin Watched
    BY <1>4, <1>8, <2>1 DEF PostCheck
  <2> QED BY <2>2
<1>9. CASE PostAdd(w)
  <2>1. frame'[w].pc = "return"
    BY <1>0, <1>9 DEF PostAdd
  <2> QED BY <2>1
<1>10. CASE RemoveBankRow(w) \/ RemoveBankRows(w) \/ AddCustomer(w) \/ AddAccount(w)
              \/ AddBatch(w)
  <2>1. frame'[w].pc \notin Watched
    BY <1>4, <1>6, <1>10 DEF RemoveBankRow, RemoveBankRows, AddCustomer, AddAccount, AddBatch
  <2> QED BY <2>1
<1>11. CASE CheckCustomer(w)
  <2>1. Goto(w, "add_account") => frame'[w].pc = "add_account"
    BY <1>0 DEF Goto
  <2>2. Reply(w, "not_found") => frame'[w].pc \notin Watched
    BY <1>4
  <2> QED BY <1>11, <2>1, <2>2 DEF CheckCustomer
<1>12. CASE ExternalAccount(w)
  <2>1. ASSUME NEW a, frame' = [frame EXCEPT ![w].ccy = a.ccy, ![w].pc = "ensure"]
        PROVE  frame'[w].pc = "ensure"
    BY <1>0, <2>1
  <2>2. frame'[w].pc \notin Watched
    BY <1>4, <1>12, <2>1 DEF ExternalAccount
  <2> QED BY <2>2
<1>13. CASE ExternalBook(w)
  <2>1. frame'[w].pc \notin Watched
    BY <1>5, <1>13 DEF ExternalBook
  <2> QED BY <2>1
<1>14. CASE Finish(w)
  <2>1. frame'[w].pc = "idle"
    BY <1>0, <1>14 DEF Finish, Begin, IdleFrame
  <2> QED BY <2>1
<1> QED BY <1>2, <1>3, <1>7, <1>8, <1>9, <1>10, <1>11, <1>12, <1>13, <1>14 DEF Works, CoreStep

(* Which steps add rows. *)
LEMMA WorksAdds ==
  ASSUME NEW w \in Workers, Works(w)
  PROVE  /\ EnsureOpen(w) \/ AddAccount(w) \/ AddBatch(w) \/ accounts' \in SUBSET accounts
         /\ PostAdd(w) \/ journal' \in SUBSET journal
         /\ AddCustomer(w) \/ AddBatch(w) \/ customers' \in SUBSET customers
BY DEF Works, CoreStep, EnsureFind, EnsureOpen, TransferLookup, TransferFunds, PostCheck,
       PostAdd, RemoveBankRow, RemoveBankRows, AddCustomer, AddAccount, AddBatch, CheckCustomer,
       ExternalAccount, ExternalBook, Finish, tables

LEMMA AsksKept ==
  ASSUME IInv, \A v \in Workers : ClientAsks(v), [Next]_vars
  PROVE  \A v \in Workers : ClientAsks(v)'
<1>1. CASE UNCHANGED frame
  BY <1>1 DEF ClientAsks
<1>2. ASSUME NEW w \in Workers, Accepts(w) \/ Works(w), NEW v \in Workers
      PROVE  ClientAsks(v)'
  <2>1. CASE v # w
    BY <1>2, <2>1, OwnStep DEF ClientAsks
  <2>2. CASE v = w /\ Accepts(w)
    BY <2>2, AcceptsLeads DEF ClientAsks
  <2>3. CASE v = w /\ Works(w)
    <3>1. ASSUME frame'[w].pc = "add_account"
          PROVE  frame[w].pc = "check_customer" /\ frame'[w].op = frame[w].op
      <4>1. CheckCustomer(w) /\ Goto(w, "add_account")
        BY <2>3, <3>1, WorksLeads
      <4> QED BY <4>1 DEF CheckCustomer, Goto, IInv
    <3> QED BY <2>3, <3>1, WorksLeads DEF ClientAsks
  <2> QED BY <1>2, <2>1, <2>2, <2>3
<1> QED BY <1>1, <1>2 DEF Next, AllServed, vars

(* An account that was not among the ensured ones is among them only if a  *)
(* step of ensure_internal_account has just added it.                      *)
LEMMA EnsuredAdds ==
  ASSUME NEW w \in Workers, Accepts(w) \/ Works(w), Remembers(w), ClientAsks(w),
         IInv, NEW b, NEW c, NEW k, NEW a \in Ensured(b, c, k)', a \notin Ensured(b, c, k)
  PROVE  EnsureOpen(w) /\ a \notin accounts
<1>0. a \in accounts' /\ a.bank = b /\ a.kind = k /\ a.ccy = c
        /\ \A m \in made' : m.client => a \notin m.rows
  BY DEF Ensured, ListAccounts
<1>1. a \notin accounts
  <2> SUFFICES ASSUME a \in accounts PROVE FALSE
    OBVIOUS
  <2>1. PICK m \in made : m.client /\ a \in m.rows
    BY <1>0 DEF Ensured, ListAccounts
  <2>2. a \in Rows'
    BY <1>0 DEF Rows
  <2>3. m.rows \intersect Rows' # {}
    BY <2>1, <2>2
  <2>4. m \in made'
    BY <2>3 DEF Remembers
  <2> QED BY <1>0, <2>1, <2>4
<1>2. a \in Added /\ Added # {}
  BY <1>0, <1>1 DEF Added
<1>3. frame[w].op \notin OpeningOps
  <2> SUFFICES ASSUME frame[w].op \in OpeningOps PROVE FALSE
    OBVIOUS
  <2> DEFINE m == [client |-> frame[w].op \in OpeningOps, rows |-> Added]
  <2>1. m \in made'
    BY <1>2 DEF Remembers
  <2>2. m.client /\ a \in m.rows
    BY <1>2
  <2> QED BY <1>0, <2>1, <2>2
<1>4. Works(w)
  BY <1>0, <1>1, AcceptsLeads
<1>5. ~AddAccount(w) /\ ~AddBatch(w)
  BY <1>3 DEF AddAccount, AddBatch, ClientAsks
<1> QED BY <1>0, <1>1, <1>4, <1>5, WorksAdds

LEMMA FewKept ==
  ASSUME IsFiniteSet(Workers),
         IInv, FiniteDb, \A v \in Workers : ClientAsks(v), [Next]_vars,
         NEW b \in Banks, NEW c \in Currencies, NEW k \in InternalKinds, Few(b, c, k)
  PROVE  Few(b, c, k)'
<1> DEFINE M == Ensured(b, c, k)
           L == Looking(b, c, k)
<1>1. /\ IsFiniteSet(M) /\ IsFiniteSet(L) /\ L \subseteq Workers
      /\ Cardinality(M) \in Nat /\ Cardinality(L) \in Nat /\ Cardinality(Workers) \in Nat
  BY FS_Subset, FS_CardinalityType DEF Ensured, Looking, ListAccounts, FiniteDb
<1>2. CASE M' \in SUBSET M /\ L' \in SUBSET L
  <2>1. Cardinality(M') <= Cardinality(M) /\ Cardinality(L') <= Cardinality(L)
    BY <1>1, <1>2, FS_Subset
  <2>2. Cardinality(M') \in Nat /\ Cardinality(L') \in Nat
    BY <1>1, <1>2, FS_Subset, FS_CardinalityType
  <2> HIDE DEF M, L
  <2>3. Cardinality(M') + Cardinality(L') <= Cardinality(Workers)
    BY <1>1, <2>1, <2>2 DEF Few, M, L
  <2> QED BY <2>3 DEF Few, M, L
<1>3. CASE UNCHANGED vars
  <2>1. M' = M /\ L' = L
    BY <1>3 DEF vars, Ensured, Looking, ListAccounts
  <2> QED BY <1>2, <2>1
<1>4. ASSUME NEW w \in Workers, Accepts(w), Remembers(w) PROVE Few(b, c, k)'
  <2>1. L' \in SUBSET L
    BY <1>4, OwnStep, AcceptsLeads DEF Looking
  <2>2. accounts' = accounts
    BY <1>4, AcceptsLeads
  <2>3. \A a \in M' : a \in accounts'
    BY DEF Ensured, ListAccounts
  <2>4. M' \in SUBSET M
    BY <1>4, <2>2, <2>3, EnsuredAdds
  <2> QED BY <1>2, <2>1, <2>4
<1>5. ASSUME NEW w \in Workers, Works(w), Remembers(w) PROVE Few(b, c, k)'
  <2>0. \A v \in Workers : v # w => frame'[v] = frame[v]
    BY <1>5, OwnStep
  <2>1. CASE frame'[w].pc = "open_internal"
    <3>1. EnsureFind(w) /\ Goto(w, "open_internal") /\ Matching(frame[w]) = {}
      BY <1>5, <2>1, WorksLeads
    <3>2. /\ accounts' = accounts
          /\ frame'[w].bank = frame[w].bank /\ frame'[w].ccy = frame[w].ccy
          /\ frame'[w].kind = frame[w].kind
      BY <3>1 DEF EnsureFind, Goto, tables, IInv
    <3>3. M' \in SUBSET M
      <4>1. \A a \in M' : a \in accounts'
        BY DEF Ensured, ListAccounts
      <4> QED BY <1>5, <3>2, <4>1, EnsuredAdds
    <3>4. CASE w \in L'
      <4>1. M = {}
        BY <3>1, <3>2, <3>4 DEF Looking, Ensured, Matching, ListAccounts
      <4>2. L' \in SUBSET Workers /\ M' = {}
        BY <3>3, <4>1 DEF Looking
      <4>3. Cardinality(M') = 0 /\ Cardinality(L') <= Cardinality(Workers)
              /\ Cardinality(L') \in Nat
        BY <4>2, FS_Subset, FS_EmptySet, FS_CardinalityType
      <4> HIDE DEF M, L
      <4>4. Cardinality(M') + Cardinality(L') <= Cardinality(Workers)
        BY <1>1, <4>3
      <4> QED BY <4>4 DEF Few, M, L
    <3>5. CASE w \notin L'
      <4>1. L' \in SUBSET L
        BY <2>0, <3>5 DEF Looking
      <4> QED BY <1>2, <3>3, <4>1
    <3> QED BY <3>4, <3>5
  <2>2. CASE frame'[w].pc # "open_internal"
    <3>1. L' \in SUBSET L \ {w}
      BY <2>0, <2>2 DEF Looking
    <3>2. CASE M' \in SUBSET M
      BY <1>2, <3>1, <3>2
    <3>3. ASSUME NEW y \in M', y \notin M PROVE Few(b, c, k)'
      <4>1. EnsureOpen(w) /\ y \notin accounts /\ y \in accounts'
              /\ y.bank = b /\ y.kind = k /\ y.ccy = c
        BY <1>5, <3>3, EnsuredAdds DEF Ensured, ListAccounts
      <4>2. PICK id : accounts' = accounts \union
               {[id |-> id, bank |-> frame[w].bank, ccy |-> frame[w].ccy,
                 kind |-> frame[w].kind, customer |-> None]}
        BY <4>1 DEF EnsureOpen
      <4> DEFINE x == [id |-> id, bank |-> frame[w].bank, ccy |-> frame[w].ccy,
                       kind |-> frame[w].kind, customer |-> None]
      <4>3. /\ accounts' = accounts \union {x}
            /\ x.kind = frame[w].kind /\ x.bank = frame[w].bank /\ x.ccy = frame[w].ccy
        BY <4>2
      <4> HIDE DEF x
      <4>4. y = x
        BY <4>1, <4>3
      <4>5. w \in L
        BY <4>1, <4>3, <4>4 DEF Looking, EnsureOpen
      <4>6. M' \in SUBSET (M \union {x})
        <5>1. ASSUME NEW a \in M', a \notin M PROVE a = x
          <6>1. a \in accounts' /\ a \notin accounts
            BY <1>5, <5>1, EnsuredAdds DEF Ensured, ListAccounts
          <6> QED BY <4>3, <6>1
        <5> QED BY <5>1
      <4>7. /\ Cardinality(L \ {w}) = Cardinality(L) - 1 /\ IsFiniteSet(L \ {w})
            /\ IsFiniteSet(M \union {x}) /\ Cardinality(M \union {x}) <= Cardinality(M) + 1
        <5> HIDE DEF M, L
        <5>1. Cardinality(L \ {w}) = Cardinality(L) - 1 /\ IsFiniteSet(L \ {w})
          BY <1>1, <4>5, FS_RemoveElement
        <5>2. /\ IsFiniteSet(M \union {x})
              /\ Cardinality(M \union {x}) =
                   IF x \in M THEN Cardinality(M) ELSE Cardinality(M) + 1
          BY <1>1, FS_AddElement
        <5> QED BY <1>1, <5>1, <5>2
      <4>8. Cardinality(L') <= Cardinality(L) - 1 /\ Cardinality(L') \in Nat
        <5> HIDE DEF L
        <5> QED BY <3>1, <4>7, FS_Subset, FS_CardinalityType
      <4>9. Cardinality(M') <= Cardinality(M \union {x}) /\ Cardinality(M') \in Nat
              /\ Cardinality(M \union {x}) \in Nat
        <5> HIDE DEF M
        <5> QED BY <4>6, <4>7, FS_Subset, FS_CardinalityType
      <4>10. Cardinality(M) + Cardinality(L) <= Cardinality(Workers)
        BY DEF Few
      <4> HIDE DEF M, L
      <4>11. Cardinality(M') + Cardinality(L') <= Cardinality(Workers)
        BY <1>1, <4>7, <4>8, <4>9, <4>10
      <4> QED BY <4>11 DEF Few, M, L
    <3> QED BY <3>2, <3>3
  <2> QED BY <2>1, <2>2
<1> QED BY <1>3, <1>4, <1>5 DEF Next, AllServed

(* ensure_internal_account never opens more accounts of one purpose and    *)
(* currency than there are workers, however many requests follow and       *)
(* whatever accounts clients open beside them, provided the database had   *)
(* no more at start-up.                                                    *)
THEOREM InternalAccountsStayFew ==
  ASSUME IsFiniteSet(Workers),
         \A b \in Banks, c \in Currencies, k \in InternalKinds :
           Cardinality({a \in Seed.accounts : a.bank = b /\ a.kind = k /\ a.ccy = c})
             <= Cardinality(Workers)
  PROVE  Spec => []InternalAccountsBounded
<1>1. Init => FewInv
  <2> SUFFICES ASSUME Init PROVE FewInv
    OBVIOUS
  <2>1. accounts = Seed.accounts /\ frame = [w \in Workers |-> IdleFrame]
    BY DEF Init, CoreInit
  <2>2. \A w \in Workers : frame[w].pc = "idle"
    BY <2>1 DEF IdleFrame
  <2>3. ASSUME NEW b \in Banks, NEW c \in Currencies, NEW k \in InternalKinds
        PROVE  Few(b, c, k)
    <3>1. Looking(b, c, k) = {}
      BY <2>2 DEF Looking
    <3> DEFINE S == {a \in Seed.accounts : a.bank = b /\ a.kind = k /\ a.ccy = c}
    <3>2. Ensured(b, c, k) \in SUBSET S /\ IsFiniteSet(S)
      BY <2>1, SeedAssumption, FS_Subset DEF Ensured, ListAccounts
    <3>3. /\ Cardinality(Looking(b, c, k)) = 0 /\ Cardinality(Ensured(b, c, k)) \in Nat
          /\ Cardinality(Ensured(b, c, k)) <= Cardinality(S)
          /\ Cardinality(S) \in Nat /\ Cardinality(Workers) \in Nat
      <4> HIDE DEF S
      <4> QED BY <3>1, <3>2, FS_EmptySet, FS_Subset, FS_CardinalityType
    <3>4. Cardinality(Ensured(b, c, k)) <= Cardinality(Workers)
      BY <3>3
    <3> QED BY <3>3, <3>4 DEF Few
  <2> QED BY <2>2, <2>3 DEF FewInv, ClientAsks
<1>2. IInv /\ FiniteDb /\ FewInv /\ [Next]_vars => FewInv'
  BY AsksKept, FewKept DEF FewInv
<1>3. FiniteDb /\ FewInv => InternalAccountsBounded
  <2> SUFFICES ASSUME FiniteDb, FewInv,
                      NEW b \in Banks, NEW c \in Currencies, NEW k \in InternalKinds
               PROVE  Cardinality(Ensured(b, c, k)) <= Cardinality(Workers)
    BY DEF InternalAccountsBounded
  <2>1. Cardinality(Ensured(b, c, k)) \in Nat /\ Cardinality(Looking(b, c, k)) \in Nat
    BY FS_Subset, FS_CardinalityType DEF Ensured, Looking, ListAccounts, FiniteDb
  <2>2. Few(b, c, k) /\ Cardinality(Workers) \in Nat
    BY FS_CardinalityType DEF FewInv
  <2> QED BY <2>1, <2>2 DEF Few
<1> QED BY <1>1, <1>2, <1>3, Invariance, FinitelyManyRows, PTL DEF Spec

-----------------------------------------------------------------------------
(* What a deleted bank leaves behind. *)

PayerLabels ==
  {"account_ccy", "ensure", "open_internal", "transfer", "funds", "book_external"}

(* ... those of them that have not asked for the payer again.              *)
Searching == {"account_ccy", "ensure", "open_internal"}

Gone(b, id) == GetAccount(b, id) = {}

(* A request that will not add a row any more: it has ended, it deletes,   *)
(* or it is going to find that an account it needs has gone.               *)
Stuck(w) ==
  LET f == frame[w] IN
  \/ f.pc \in {"idle", "return", "remove_bank", "purge"}
  \/ f.pc \in {"transfer", "funds", "book_external"} /\ Gone(f.bank, f.payer)
  \/ f.pc = "post" /\ \E n \in DOMAIN f.postings :
       /\ n >= f.next /\ f.postings[n].account \in issued
       /\ Gone(f.bank, f.postings[n].account)

Adders(b) == {w \in Workers : frame[w].bank = b /\ ~Stuck(w)}

Deleting(b) == \E w \in Workers : frame[w].pc = "purge" /\ frame[w].bank = b

(* The payers of the requests on their way to an internal account have     *)
(* gone with the bank.                                                     *)
Lost(b) ==
  \A w \in Workers :
    frame[w].bank = b /\ frame[w].pc \in Searching => Gone(b, frame[w].payer)

(* An account a request was told of exists or has existed: no account      *)
(* opened later takes its id.                                              *)
PayerKnown(w) == frame[w].pc \in PayerLabels => frame[w].payer \in issued

(* Between the deletion of the bank's row and of its rows, anything may be *)
(* left; afterwards each transaction that leaves rows takes one of the     *)
(* requests that were in flight out of those that can still add some, and  *)
(* the request that deleted the rows is none of them.                      *)
FewLeft(b) ==
  b \notin banks =>
    Deleting(b) \/ (Lost(b) /\ Cardinality(Leftovers(b)) + Cardinality(Adders(b))
                                 < Cardinality(Workers))

(* A row was added at some time, and its key is not given again.           *)
Old(r) ==
  \/ r \in Customer \union Account /\ r.id \in issued
  \/ r \in JournalEntry /\ r.seq <= seq

(* The history remembers finitely many transactions of the past.           *)
MadeInv == IsFiniteSet(made) /\ \A m \in made : \A r \in m.rows : Old(r)

(* A row of the journal is no customer's and no account's. *)
LEMMA RowsDiffer == \A r \in Customer \union Account : r \notin JournalEntry
<1>1. \A r \in Customer : "id" \in DOMAIN r
  BY DEF Customer
<1>2. \A r \in Account : "id" \in DOMAIN r
  BY DEF Account
<1>3. \A r \in JournalEntry : "id" \notin DOMAIN r
  BY DEF JournalEntry
<1> QED BY <1>1, <1>2, <1>3

LEMMA ReplyShape ==
  ASSUME IInv, NEW w \in Workers, NEW r, Reply(w, r)
  PROVE  /\ frame'[w].pc = "return" /\ frame'[w].bank = frame[w].bank
         /\ frame'[w].payer = frame[w].payer
BY DEF Reply, IInv, Frame

LEMMA GotoShape ==
  ASSUME IInv, NEW w \in Workers, NEW l, Goto(w, l)
  PROVE  /\ frame'[w].pc = l /\ frame'[w].bank = frame[w].bank
         /\ frame'[w].payer = frame[w].payer
BY DEF Goto, IInv, Frame

LEMMA BookShape ==
  ASSUME IInv, NEW w \in Workers, NEW ps, Book(w, ps)
  PROVE  /\ frame'[w].bank = frame[w].bank /\ frame'[w].payer = frame[w].payer
         /\ \/ frame'[w].pc = "return"
            \/ frame'[w].pc = "post" /\ frame'[w].postings = ps /\ frame'[w].next = 1
<1>1. CASE Reply(w, "unbalanced")
  BY <1>1, ReplyShape
<1>2. CASE frame' = [frame EXCEPT ![w].pc = "post", ![w].postings = ps, ![w].next = 1]
  <2> DEFINE g == [frame[w] EXCEPT !.pc = "post", !.postings = ps, !.next = 1]
  <2>1. frame' = [frame EXCEPT ![w] = g]
    BY <1>2
  <2>2. /\ g.pc = "post" /\ g.bank = frame[w].bank /\ g.payer = frame[w].payer
        /\ g.postings = ps /\ g.next = 1
    BY FrameHolds DEF Frame
  <2> HIDE DEF g
  <2>3. frame'[w] = g
    BY <2>1 DEF IInv
  <2> QED BY <2>2, <2>3
<1> QED BY <1>1, <1>2 DEF Book

(* ensure_internal_account leaves the payer alone and goes on.             *)
LEMMA EnsureShape ==
  ASSUME IInv, NEW w \in Workers, EnsureFind(w) \/ EnsureOpen(w)
  PROVE  /\ frame'[w].bank = frame[w].bank /\ frame'[w].payer = frame[w].payer
         /\ \/ frame'[w].pc \in {"transfer", "book_external"}
            \/ frame'[w].pc = "open_internal" /\ EnsureFind(w)
<1>1. frame[w].then \in {"transfer", "book_external"} /\ frame[w] \in Frame(Ops, LedgerLabels)
  BY FrameHolds DEF EnsureFind, EnsureOpen, CoreFrameOK, Continuations
<1>2. CASE EnsureFind(w) /\ Goto(w, "open_internal")
  BY <1>2, GotoShape
<1>3. ASSUME NEW p, frame' = [frame EXCEPT ![w].payee = p, ![w].pc = frame[w].then]
      PROVE  /\ frame'[w].bank = frame[w].bank /\ frame'[w].payer = frame[w].payer
             /\ frame'[w].pc = frame[w].then
  <2> DEFINE g == [frame[w] EXCEPT !.payee = p, !.pc = frame[w].then]
  <2>1. frame' = [frame EXCEPT ![w] = g]
    BY <1>3
  <2>2. g.pc = frame[w].then /\ g.bank = frame[w].bank /\ g.payer = frame[w].payer
    BY <1>1 DEF Frame
  <2> HIDE DEF g
  <2>3. frame'[w] = g
    BY <2>1 DEF IInv
  <2> QED BY <2>2, <2>3
<1>4. CASE EnsureFind(w)
  BY <1>1, <1>2, <1>3, <1>4 DEF EnsureFind
<1>5. CASE EnsureOpen(w)
  BY <1>1, <1>3, <1>5 DEF EnsureOpen
<1> QED BY <1>4, <1>5

LEMMA PostCheckShape ==
  ASSUME IInv, NEW w \in Workers, PostCheck(w)
  PROVE  /\ frame'[w].bank = frame[w].bank /\ frame'[w].payer = frame[w].payer
         /\ \/ frame'[w].pc = "return"
            \/ /\ frame'[w].pc = "post" /\ frame'[w].postings = frame[w].postings
               /\ frame'[w].next = frame[w].next + 1
               /\ ~Gone(frame[w].bank, frame[w].postings[frame[w].next].account)
<1>1. CASE Reply(w, "not_found") \/ Reply(w, "insufficient")
  BY <1>1, ReplyShape
<1>2. CASE /\ frame' = [frame EXCEPT ![w].next = @ + 1]
           /\ ~Gone(frame[w].bank, frame[w].postings[frame[w].next].account)
  <2> DEFINE g == [frame[w] EXCEPT !.next = frame[w].next + 1]
  <2>1. frame' = [frame EXCEPT ![w] = g] /\ frame[w].pc = "post"
    BY <1>2 DEF PostCheck
  <2>2. /\ g.pc = frame[w].pc /\ g.bank = frame[w].bank /\ g.payer = frame[w].payer
        /\ g.postings = frame[w].postings /\ g.next = frame[w].next + 1
    BY FrameHolds DEF Frame
  <2> HIDE DEF g
  <2>3. frame'[w] = g
    BY <2>1 DEF IInv
  <2> QED BY <1>2, <2>1, <2>2, <2>3
<1> QED BY <1>1, <1>2 DEF PostCheck, Gone

LEMMA PostAddShape ==
  ASSUME IInv, NEW w \in Workers, PostAdd(w)
  PROVE  /\ frame'[w].bank = frame[w].bank /\ frame'[w].payer = frame[w].payer
         /\ frame'[w].pc = "return"
<1> DEFINE g == [frame[w] EXCEPT !.pc = "return", !.result = "ok", !.entry = seq + 1]
<1>1. frame' = [frame EXCEPT ![w] = g]
  BY DEF PostAdd
<1>2. g.pc = "return" /\ g.bank = frame[w].bank /\ g.payer = frame[w].payer
  BY FrameHolds DEF Frame
<1> HIDE DEF g
<1>3. frame'[w] = g
  BY <1>1 DEF IInv
<1> QED BY <1>2, <1>3

LEMMA ExternalAccountShape ==
  ASSUME IInv, NEW w \in Workers, ExternalAccount(w)
  PROVE  /\ frame'[w].bank = frame[w].bank /\ frame'[w].payer = frame[w].payer
         /\ \/ frame'[w].pc = "return"
            \/ frame'[w].pc = "ensure" /\ ~Gone(frame[w].bank, frame[w].payer)
<1>1. CASE Reply(w, "not_found") \/ Reply(w, "mismatch")
  BY <1>1, ReplyShape
<1>2. ASSUME NEW a \in GetAccount(frame[w].bank, frame[w].payer),
             frame' = [frame EXCEPT ![w].ccy = a.ccy, ![w].pc = "ensure"]
      PROVE  /\ frame'[w].bank = frame[w].bank /\ frame'[w].payer = frame[w].payer
             /\ frame'[w].pc = "ensure" /\ ~Gone(frame[w].bank, frame[w].payer)
  <2> DEFINE g == [frame[w] EXCEPT !.ccy = a.ccy, !.pc = "ensure"]
  <2>1. frame' = [frame EXCEPT ![w] = g]
    BY <1>2
  <2>2. g.pc = "ensure" /\ g.bank = frame[w].bank /\ g.payer = frame[w].payer
    BY FrameHolds DEF Frame
  <2> HIDE DEF g
  <2>3. frame'[w] = g
    BY <2>1 DEF IInv
  <2> QED BY <2>2, <2>3 DEF Gone
<1> QED BY <1>1, <1>2 DEF ExternalAccount

(* A body keeps the bank and the payer of its request to its end.          *)
LEMMA WorksKeeps ==
  ASSUME IInv, NEW w \in Workers, Works(w)
  PROVE  \/ Finish(w) /\ frame'[w] = IdleFrame
         \/ /\ frame'[w].bank = frame[w].bank /\ frame'[w].payer = frame[w].payer
            /\ frame'[w].pc \in PayerLabels => frame[w].pc \in PayerLabels
            /\ frame'[w].pc \in Searching => frame[w].pc \in Searching
<1>1. CASE EnsureFind(w) \/ EnsureOpen(w)
  BY <1>1, EnsureShape DEF EnsureFind, EnsureOpen, PayerLabels, Searching
<1>2. CASE TransferLookup(w) \/ TransferFunds(w)
  BY <1>2, ReplyShape, GotoShape, BookShape DEF TransferLookup, TransferFunds, PayerLabels, Searching
<1>3. CASE PostCheck(w) \/ PostAdd(w)
  BY <1>3, PostCheckShape, PostAddShape DEF PayerLabels, Searching
<1>4. CASE RemoveBankRow(w) \/ RemoveBankRows(w) \/ AddCustomer(w) \/ AddAccount(w)
             \/ AddBatch(w)
  BY <1>4, ReplyShape, GotoShape
     DEF RemoveBankRow, RemoveBankRows, AddCustomer, AddAccount, AddBatch, PayerLabels,
         Searching
<1>5. CASE CheckCustomer(w) \/ ExternalBook(w)
  BY <1>5, ReplyShape, GotoShape, BookShape
     DEF CheckCustomer, ExternalBook, PayerLabels, Searching
<1>6. CASE ExternalAccount(w)
  <2>1. frame[w].pc \in PayerLabels /\ frame[w].pc \in Searching
    BY <1>6 DEF ExternalAccount, PayerLabels, Searching
  <2> QED BY <1>6, <2>1, ExternalAccountShape
<1>7. CASE Finish(w)
  BY <1>7 DEF Finish, Begin, IInv
<1> QED BY <1>1, <1>2, <1>3, <1>4, <1>5, <1>6, <1>7 DEF Works, CoreStep

(* The head of a request finds its bank open, and names accounts that are  *)
(* or were there.                                                          *)
LEMMA AcceptsNames ==
  ASSUME IInv, NEW w \in Workers, Accepts(w)
  PROVE  /\ frame[w].pc = "idle" /\ issued \subseteq issued'
         /\ \/ UNCHANGED frame /\ \E b \in Banks \ issued : banks' = banks \union {b}
            \/ frame'[w].bank \in banks /\ banks' = banks
         /\ frame'[w].pc \in PayerLabels => frame'[w].payer \in issued
<1>0. frame \in [Workers -> Frame(Ops, LedgerLabels)]
  BY DEF IInv
<1>1. CASE BeginCreateBank(w)
  BY <1>0, <1>1 DEF BeginCreateBank, Accept, PayerLabels
<1>2. CASE BeginDeleteBank(w)
  BY <1>0, <1>2 DEF BeginDeleteBank, AcceptFor, Accept, Begin, tables, IdleFrame, PayerLabels
<1>3. CASE BeginCreateCustomer(w)
  BY <1>0, <1>3 DEF BeginCreateCustomer, AcceptFor, Accept, Begin, tables, IdleFrame, PayerLabels
<1>4. CASE BeginOpenAccount(w)
  BY <1>0, <1>4 DEF BeginOpenAccount, AcceptFor, Accept, Begin, tables, IdleFrame, PayerLabels
<1>8. CASE BeginBatch(w)
  BY <1>0, <1>8 DEF BeginBatch, AcceptFor, Accept, Begin, tables, IdleFrame, PayerLabels
<1>5. CASE BeginExternal(w)
  BY <1>0, <1>5 DEF BeginExternal, AcceptFor, Accept, Begin, tables, IdleFrame, PayerLabels
<1>6. CASE BeginTransfer(w)
  BY <1>0, <1>6 DEF BeginTransfer, AcceptFor, Accept, Begin, tables, IdleFrame, PayerLabels
<1>7. CASE BeginPostEntry(w)
  <2>1. PICK b \in Banks, ps \in Entries :
          /\ AcceptFor(w, "post_entry", b)
          /\ \/ Begin(w, [IdleFrame EXCEPT !.op = "post_entry", !.pc = "post", !.bank = b,
                                           !.postings = ps])
             \/ Begin(w, [IdleFrame EXCEPT !.op = "post_entry", !.pc = "return", !.bank = b,
                                           !.result = "unbalanced"])
    BY <1>7 DEF BeginPostEntry
  <2>2. UNCHANGED tables /\ b \in banks /\ frame[w].pc = "idle"
    BY <1>7, <2>1 DEF BeginPostEntry, AcceptFor, Accept
  <2>3. frame'[w].bank = b /\ frame'[w].pc \in {"post", "return"}
    <3>1. CASE Begin(w, [IdleFrame EXCEPT !.op = "post_entry", !.pc = "post", !.bank = b,
                                         !.postings = ps])
      BY <1>0, <3>1 DEF Begin, IdleFrame
    <3>2. CASE Begin(w, [IdleFrame EXCEPT !.op = "post_entry", !.pc = "return", !.bank = b,
                                         !.result = "unbalanced"])
      BY <1>0, <3>2 DEF Begin, IdleFrame
    <3> QED BY <2>1, <3>1, <3>2
  <2> QED BY <2>2, <2>3 DEF tables, PayerLabels
<1> QED BY <1>1, <1>2, <1>3, <1>4, <1>5, <1>6, <1>7, <1>8 DEF Accepts

LEMMA IssuedGrows ==
  ASSUME IInv, [Next]_vars PROVE issued \subseteq issued'
BY NextIInv DEF DbStep

LEMMA PayerKept ==
  ASSUME IInv, \A v \in Workers : PayerKnown(v), [Next]_vars
  PROVE  \A v \in Workers : PayerKnown(v)'
<1>0. issued \subseteq issued'
  BY IssuedGrows
<1>1. CASE UNCHANGED frame
  BY <1>0, <1>1 DEF PayerKnown
<1>2. ASSUME NEW w \in Workers, Accepts(w) \/ Works(w), NEW v \in Workers
      PROVE  PayerKnown(v)'
  <2>1. CASE v # w
    BY <1>0, <1>2, <2>1, OwnStep DEF PayerKnown
  <2>2. CASE v = w /\ Accepts(w)
    BY <1>0, <2>2, AcceptsNames DEF PayerKnown
  <2>3. CASE v = w /\ Works(w)
    BY <1>0, <2>3, WorksKeeps DEF PayerKnown, IdleFrame, PayerLabels
  <2> QED BY <1>2, <2>1, <2>2, <2>3
<1> QED BY <1>1, <1>2 DEF Next, AllServed, vars

(* An account that has gone stays away: ids are not given twice.           *)
LEMMA GoneKept ==
  ASSUME IInv, NEW w \in Workers, Accepts(w) \/ Works(w), NEW b, NEW id \in issued, Gone(b, id)
  PROVE  Gone(b, id)'
<1>1. CASE accounts' \in SUBSET accounts
  BY <1>1 DEF Gone, GetAccount
<1>2. ASSUME NEW i \in AccountIds \ issued, NEW x, x.id = i, accounts' = accounts \union {x}
      PROVE  Gone(b, id)'
  BY <1>2 DEF Gone, GetAccount
<1>3. CASE EnsureOpen(w)
  <2>1. PICK i \in AccountIds \ issued : accounts' = accounts \union
            {[id |-> i, bank |-> frame[w].bank, ccy |-> frame[w].ccy,
              kind |-> frame[w].kind, customer |-> None]}
    BY <1>3 DEF EnsureOpen
  <2> DEFINE x == [id |-> i, bank |-> frame[w].bank, ccy |-> frame[w].ccy,
                   kind |-> frame[w].kind, customer |-> None]
  <2>2. x.id = i /\ accounts' = accounts \union {x}
    BY <2>1
  <2> HIDE DEF x
  <2> QED BY <1>2, <2>2
<1>4. CASE AddAccount(w)
  <2>1. PICK i \in AccountIds \ issued : accounts' = accounts \union
            {[id |-> i, bank |-> frame[w].bank, ccy |-> frame[w].ccy,
              kind |-> frame[w].kind, customer |-> frame[w].customer]}
    BY <1>4 DEF AddAccount
  <2> DEFINE x == [id |-> i, bank |-> frame[w].bank, ccy |-> frame[w].ccy,
                   kind |-> frame[w].kind, customer |-> frame[w].customer]
  <2>2. x.id = i /\ accounts' = accounts \union {x}
    BY <2>1
  <2> HIDE DEF x
  <2> QED BY <1>2, <2>2
<1>6. CASE AddBatch(w)
  <2>0. PICK cs \in SUBSET (CustomerIds \ issued), as \in SUBSET (AccountIds \ issued) :
          \E kind \in [as -> BatchKinds], owner \in [as -> cs] :
            BatchRows(w, cs, as, kind, owner)
    BY <1>6, BatchAdds
  <2>1. PICK kind \in [as -> BatchKinds], owner \in [as -> cs] :
          BatchRows(w, cs, as, kind, owner)
    BY <2>0
  <2> DEFINE A(i) == [id |-> i, bank |-> frame[w].bank, ccy |-> frame[w].ccy,
                      kind |-> kind[i], customer |-> owner[i]]
  <2>2. \A x \in accounts' : x \in accounts \/ \E i \in as : x = A(i)
    BY <2>1 DEF BatchRows
  <2>3. \A i \in as : A(i).id = i /\ i \notin issued
    OBVIOUS
  <2> HIDE DEF A
  <2>4. \A x \in accounts' : x \in accounts \/ x.id # id
    BY <2>2, <2>3
  <2> QED BY <2>4 DEF Gone, GetAccount
<1>5. CASE Accepts(w)
  BY <1>1, <1>5, AcceptsLeads
<1> QED BY <1>1, <1>3, <1>4, <1>5, <1>6, WorksAdds

(* Who is stuck stays stuck, whatever the others do.                       *)
LEMMA OthersStuck ==
  ASSUME IInv, NEW w \in Workers, Accepts(w) \/ Works(w),
         NEW v \in Workers, v # w, PayerKnown(v), Stuck(v)
  PROVE  Stuck(v)'
<1>1. frame'[v] = frame[v]
  BY OwnStep
<1>2. issued \subseteq issued'
  BY WorkerGood DEF Good, DbStep
<1>3. CASE frame[v].pc \in {"idle", "return", "remove_bank", "purge"}
  BY <1>1, <1>3 DEF Stuck
<1>4. CASE frame[v].pc \in {"transfer", "funds", "book_external"}
             /\ Gone(frame[v].bank, frame[v].payer)
  <2>1. frame[v].payer \in issued
    BY <1>4 DEF PayerKnown, PayerLabels
  <2>2. GetAccount(frame[v].bank, frame[v].payer)' = {}
    BY <1>1, <1>4, <2>1, GoneKept DEF Gone, GetAccount
  <2> QED BY <1>1, <1>4, <2>2 DEF Stuck, Gone
<1>5. ASSUME frame[v].pc = "post", NEW n \in DOMAIN frame[v].postings,
             n >= frame[v].next, frame[v].postings[n].account \in issued,
             Gone(frame[v].bank, frame[v].postings[n].account)
      PROVE  Stuck(v)'
  <2> DEFINE i == frame[v].postings[n].account
  <2>1. ~\E a \in accounts' : a.id = i /\ a.bank = frame[v].bank
    <3> DEFINE b == frame[v].bank
    <3>1. i \in issued /\ Gone(b, i)
      BY <1>5
    <3> HIDE DEF i, b
    <3>2. ~\E a \in accounts' : a.id = i /\ a.bank = b
      BY <3>1, GoneKept DEF Gone, GetAccount
    <3> QED BY <3>2 DEF b
  <2>2. GetAccount(frame[v].bank, i)' = {}
    BY <1>1, <2>1 DEF GetAccount
  <2> QED BY <1>1, <1>2, <1>5, <2>2 DEF Stuck, Gone
<1> QED BY <1>3, <1>4, <1>5 DEF Stuck

(* ... and its own steps do not free it. *)
LEMMA OwnStuck ==
  ASSUME IInv, NEW w \in Workers, Works(w), PayerKnown(w), Stuck(w)
  PROVE  Stuck(w)'
<1>1. CASE RemoveBankRow(w) \/ RemoveBankRows(w) \/ AddCustomer(w) \/ AddAccount(w)
             \/ AddBatch(w)
  BY <1>1, ReplyShape, GotoShape
     DEF RemoveBankRow, RemoveBankRows, AddCustomer, AddAccount, AddBatch, Stuck
<1>2. CASE Finish(w)
  BY <1>2 DEF Finish, Begin, IInv, IdleFrame, Stuck
<1>3. CASE EnsureFind(w) \/ EnsureOpen(w) \/ CheckCustomer(w) \/ ExternalAccount(w)
  BY <1>3 DEF EnsureFind, EnsureOpen, CheckCustomer, ExternalAccount, Stuck
<1>4. CASE TransferLookup(w)
  <2>1. Gone(frame[w].bank, frame[w].payer)
    BY <1>4 DEF TransferLookup, Stuck
  <2>2. \E r \in Results : Reply(w, r)
    BY <1>4, <2>1 DEF TransferLookup, Gone, Results
  <2> QED BY <2>2, ReplyShape DEF Stuck
<1>5. CASE TransferFunds(w)
  <2>1. Gone(frame[w].bank, frame[w].payer)
    BY <1>5 DEF TransferFunds, Stuck
  <2>2. \E r \in Results : Reply(w, r)
    BY <1>5, <2>1 DEF TransferFunds, Gone, Results
  <2> QED BY <2>2, ReplyShape DEF Stuck
<1>6. CASE PostAdd(w)
  BY <1>6, PostAddShape DEF Stuck
<1>7. CASE PostCheck(w)
  <2>1. CASE frame'[w].pc = "return"
    BY <2>1 DEF Stuck
  <2>2. CASE frame'[w].pc # "return"
    <3>1. /\ frame'[w].bank = frame[w].bank
          /\ frame'[w].pc = "post" /\ frame'[w].postings = frame[w].postings
          /\ frame'[w].next = frame[w].next + 1
          /\ ~Gone(frame[w].bank, frame[w].postings[frame[w].next].account)
      BY <1>7, <2>2, PostCheckShape
    <3>2. PICK n \in DOMAIN frame[w].postings :
            /\ n >= frame[w].next /\ frame[w].postings[n].account \in issued
            /\ Gone(frame[w].bank, frame[w].postings[n].account)
      BY <1>7 DEF PostCheck, Stuck
    <3>3. n # frame[w].next
      BY <3>1, <3>2
    <3>4. n \in Nat /\ frame[w].next \in Nat
      <4>1. frame[w].postings \in Seq(Posting) /\ frame[w].next \in Nat
        BY FrameHolds DEF Frame
      <4> QED BY <4>1
    <3>5. n >= frame[w].next + 1
      BY <3>2, <3>3, <3>4
    <3>6. UNCHANGED <<accounts, issued>>
      BY <1>7 DEF PostCheck, tables
    <3>7. GetAccount(frame[w].bank, frame[w].postings[n].account)' = {}
      BY <3>1, <3>2, <3>6 DEF Gone, GetAccount
    <3> QED BY <3>1, <3>2, <3>5, <3>6, <3>7 DEF Stuck, Gone
  <2> QED BY <2>1, <2>2
<1>8. CASE ExternalBook(w)
  <2>1. /\ Gone(frame[w].bank, frame[w].payer) /\ frame[w].payer \in issued
        /\ UNCHANGED tables
    BY <1>8 DEF ExternalBook, Stuck, PayerKnown, PayerLabels
  <2>2. PICK ps : \E n \in {1, 2} :
          Book(w, ps) /\ n \in DOMAIN ps /\ ps[n].account = frame[w].payer
    <3> DEFINE f == frame[w]
               in == TwoLegs(f.payee, f.payer, f.ccy, f.amount)
               out == TwoLegs(f.payer, f.payee, f.ccy, f.amount)
    <3>1. /\ 2 \in DOMAIN in /\ in[2].account = f.payer
          /\ 1 \in DOMAIN out /\ out[1].account = f.payer
      BY DEF TwoLegs, Leg
    <3>2. Book(w, in) \/ Book(w, out)
      BY <1>8 DEF ExternalBook
    <3> HIDE DEF in, out, f
    <3>3. \E ps : \E n \in {1, 2} :
             Book(w, ps) /\ n \in DOMAIN ps /\ ps[n].account = f.payer
      BY <3>1, <3>2
    <3> QED BY <3>3 DEF f
  <2>5. PICK n \in {1, 2} :
          Book(w, ps) /\ n \in DOMAIN ps /\ ps[n].account = frame[w].payer
    BY <2>2
  <2>3. CASE frame'[w].pc = "return"
    BY <2>3 DEF Stuck
  <2>4. CASE frame'[w].pc # "return"
    <3>1. /\ frame'[w].bank = frame[w].bank /\ frame'[w].pc = "post"
          /\ frame'[w].postings = ps /\ frame'[w].next = 1
      BY <2>5, <2>4, BookShape
    <3>2. n \in DOMAIN frame'[w].postings /\ n >= frame'[w].next
            /\ frame'[w].postings[n].account \in issued'
      BY <2>1, <2>5, <3>1 DEF tables
    <3>3. GetAccount(frame[w].bank, ps[n].account)' = {}
      BY <2>1, <2>5, <3>1 DEF Gone, GetAccount, tables
    <3> QED BY <3>1, <3>2, <3>3 DEF Stuck, Gone
  <2> QED BY <2>3, <2>4
<1> QED BY <1>1, <1>2, <1>3, <1>4, <1>5, <1>6, <1>7, <1>8 DEF Works, CoreStep

(* Nobody joins those who can still add a row to a deleted bank, and the   *)
(* payers that had gone stay away.                                         *)
LEMMA FewerAdders ==
  ASSUME IInv, \A v \in Workers : PayerKnown(v), NEW w \in Workers, Accepts(w) \/ Works(w),
         NEW b \in Banks \ banks
  PROVE  /\ Adders(b)' \in SUBSET Adders(b)
         /\ Lost(b) => Lost(b)'
<1>1. frame'[w].bank = b =>
        \/ frame'[w].pc = "idle"
        \/ /\ Works(w) /\ frame[w].bank = b /\ frame'[w].payer = frame[w].payer
           /\ frame'[w].pc \in Searching => frame[w].pc \in Searching
  <2>1. CASE Accepts(w)
    BY <2>1, AcceptsNames
  <2>2. CASE Works(w)
    BY <2>2, WorksKeeps DEF IdleFrame
  <2> QED BY <2>1, <2>2
<1>2. ASSUME NEW v \in Workers, frame'[v].bank = b, ~Stuck(v)'
      PROVE  frame[v].bank = b /\ ~Stuck(v)
  <2>1. CASE v # w
    BY <1>2, <2>1, OwnStep, OthersStuck
  <2>2. CASE v = w
    <3>1. frame'[w].pc # "idle"
      BY <1>2, <2>2 DEF Stuck
    <3> QED BY <1>1, <1>2, <2>2, <3>1, OwnStuck
  <2> QED BY <2>1, <2>2
<1>3. ASSUME Lost(b), NEW v \in Workers, frame'[v].bank = b, frame'[v].pc \in Searching
      PROVE  Gone(b, frame[v].payer)' /\ frame'[v].payer = frame[v].payer
  <2>1. /\ frame[v].bank = b /\ frame[v].pc \in Searching
        /\ frame'[v].payer = frame[v].payer
    BY <1>1, <1>3, OwnStep DEF Searching
  <2> DEFINE id == frame[v].payer
  <2>2. id \in issued /\ Gone(b, id)
    BY <1>3, <2>1 DEF PayerKnown, Searching, PayerLabels, Lost
  <2> HIDE DEF id
  <2>3. ~\E a \in accounts' : a.id = id /\ a.bank = b
    BY <2>2, GoneKept DEF Gone, GetAccount
  <2> QED BY <2>1, <2>3 DEF Gone, GetAccount, id
<1> QED BY <1>2, <1>3 DEF Adders, Lost, Gone, GetAccount

(* The rows a step adds are of its request's bank, and of no earlier step. *)
LEMMA AddedRows ==
  ASSUME IInv, NEW w \in Workers, Accepts(w) \/ Works(w), NEW r \in Added
  PROVE  Works(w) /\ r.bank = frame[w].bank /\ Old(r)' /\ ~Old(r)
<1>1. Works(w)
  BY AcceptsLeads DEF Added
<1>2. /\ customers' \subseteq Customer /\ accounts' \subseteq Account
      /\ journal' \subseteq JournalEntry
  BY WorkerGood DEF Good, DbInv, DbTypeOK
<1>3. CASE r \in customers' \ customers
  <2>1. r.bank = frame[w].bank /\ r.id \notin issued /\ r.id \in issued'
    <3>1. CASE AddCustomer(w)
      <4>1. PICK id \in CustomerIds \ issued :
              /\ customers' = customers \union {[id |-> id, bank |-> frame[w].bank]}
              /\ issued' = issued \union {id}
        BY <3>1 DEF AddCustomer
      <4>2. r = [id |-> id, bank |-> frame[w].bank]
        BY <1>3, <4>1
      <4> QED BY <4>1, <4>2
    <3>2. CASE AddBatch(w)
      <4>1. PICK cs \in SUBSET (CustomerIds \ issued) :
              /\ customers' = customers \union {[id |-> id, bank |-> frame[w].bank] : id \in cs}
              /\ cs \subseteq issued'
        BY <3>2 DEF AddBatch
      <4>2. PICK id \in cs : r = [id |-> id, bank |-> frame[w].bank]
        BY <1>3, <4>1
      <4> QED BY <4>1, <4>2
    <3> QED BY <1>1, <1>3, <3>1, <3>2, WorksAdds
  <2>2. r \in Customer
    BY <1>2, <1>3
  <2> QED BY <1>1, <2>1, <2>2, RowsDiffer DEF Old
<1>4. CASE r \in accounts' \ accounts
  <2>1. r.bank = frame[w].bank /\ r.id \notin issued /\ r.id \in issued'
    <3>1. CASE EnsureOpen(w) \/ AddAccount(w)
      <4>1. PICK id \in AccountIds \ issued, cu \in {None, frame[w].customer} :
              /\ accounts' = accounts \union
                   {[id |-> id, bank |-> frame[w].bank, ccy |-> frame[w].ccy,
                     kind |-> frame[w].kind, customer |-> cu]}
              /\ issued' = issued \union {id}
        BY <3>1 DEF EnsureOpen, AddAccount
      <4>2. r = [id |-> id, bank |-> frame[w].bank, ccy |-> frame[w].ccy,
                 kind |-> frame[w].kind, customer |-> cu]
        BY <1>4, <4>1
      <4> QED BY <4>1, <4>2
    <3>2. CASE AddBatch(w)
      <4>0. PICK cs \in SUBSET (CustomerIds \ issued), as \in SUBSET (AccountIds \ issued) :
              /\ issued' = issued \union cs \union as
              /\ \E kind \in [as -> BatchKinds], owner \in [as -> cs] :
                   BatchRows(w, cs, as, kind, owner)
        BY <3>2, BatchAdds
      <4>1. PICK kind \in [as -> BatchKinds], owner \in [as -> cs] :
              BatchRows(w, cs, as, kind, owner) /\ issued' = issued \union cs \union as
        BY <4>0
      <4>2. PICK id \in as : r = [id |-> id, bank |-> frame[w].bank, ccy |-> frame[w].ccy,
                                  kind |-> kind[id], customer |-> owner[id]]
        BY <1>4, <4>1 DEF BatchRows
      <4> QED BY <4>1, <4>2
    <3> QED BY <1>1, <1>4, <3>1, <3>2, WorksAdds
  <2>2. r \in Account
    BY <1>2, <1>4
  <2> QED BY <1>1, <2>1, <2>2, RowsDiffer DEF Old
<1>5. CASE r \in journal' \ journal
  <2> DEFINE x == [seq |-> seq + 1, bank |-> frame[w].bank,
                   postings |-> frame[w].postings, ref |-> frame[w].ref]
  <2>1. journal' = journal \union {x} /\ seq' = seq + 1
    BY <1>1, <1>5, WorksAdds DEF PostAdd
  <2>2. x.seq = seq + 1 /\ x.bank = frame[w].bank /\ r = x
    BY <1>5, <2>1
  <2> HIDE DEF x
  <2>3. r \in JournalEntry /\ seq \in Nat
    BY <1>2, <1>5 DEF IInv, DbInv, DbTypeOK
  <2>4. ~(r.seq <= seq) /\ r.seq <= seq'
    BY <2>1, <2>2, <2>3
  <2> QED BY <1>1, <2>2, <2>3, <2>4, RowsDiffer DEF Old
<1> QED BY <1>3, <1>4, <1>5 DEF Added

LEMMA MadeKept == IInv /\ MadeInv /\ [Next]_vars => MadeInv'
<1> SUFFICES ASSUME IInv, MadeInv, [Next]_vars PROVE MadeInv'
  OBVIOUS
<1>1. CASE UNCHANGED vars
  BY <1>1 DEF vars, MadeInv, Old
<1>2. ASSUME NEW w \in Workers, Accepts(w) \/ Works(w), Remembers(w) PROVE MadeInv'
  <2> DEFINE left == {m \in made : m.rows \intersect Rows' # {}}
             new == [client |-> frame[w].op \in OpeningOps, rows |-> Added]
  <2>1. made' \in SUBSET (made \union {new})
    BY <1>2 DEF Remembers
  <2>2. IsFiniteSet(made')
    <3>1. IsFiniteSet(made \union {new})
      BY FS_AddElement DEF MadeInv
    <3> QED BY <2>1, <3>1, FS_Subset
  <2>3. ASSUME NEW r, Old(r) PROVE Old(r)'
    <3>1. issued \subseteq issued' /\ seq' \in {seq, seq + 1} /\ seq \in Nat
      <4>1. seq' \in {seq, seq + 1}
        BY <1>2 DEF Accepts, BeginCreateBank, BeginDeleteBank, BeginCreateCustomer, BeginBatch,
                    BeginOpenAccount, BeginExternal, BeginTransfer, BeginPostEntry, Works,
                    CoreStep, EnsureFind, EnsureOpen, TransferLookup, TransferFunds, PostCheck,
                    PostAdd, RemoveBankRow, RemoveBankRows, AddCustomer, AddAccount, AddBatch,
                    CheckCustomer, ExternalAccount, ExternalBook, Finish, tables
      <4> QED BY <4>1, IssuedGrows DEF IInv, DbInv, DbTypeOK
    <3>2. r \in JournalEntry => r.seq \in Nat
      BY DEF JournalEntry
    <3> QED BY <2>3, <3>1, <3>2 DEF Old
  <2>4. ASSUME NEW m \in made', NEW r \in m.rows PROVE Old(r)'
    <3>1. CASE m \in made
      BY <2>3, <2>4, <3>1 DEF MadeInv
    <3>2. CASE m = new
      <4>1. r \in Added
        BY <2>4, <3>2
      <4> HIDE DEF new
      <4> QED BY <1>2, <4>1, AddedRows
    <3> QED BY <2>1, <2>4, <3>1, <3>2
  <2> QED BY <2>2, <2>4 DEF MadeInv
<1> QED BY <1>1, <1>2 DEF Next, AllServed

(* What a step leaves of a bank is what was left before and at most what   *)
(* this step adds, when it adds rows of this bank.                         *)
LEMMA LeftoversStep ==
  ASSUME IInv, MadeInv, NEW w \in Workers, Accepts(w) \/ Works(w), Remembers(w), NEW b
  PROVE  /\ \E x : Leftovers(b)' \in SUBSET (Leftovers(b) \union {x})
         /\ (\A r \in Added : r.bank # b) => Leftovers(b)' \in SUBSET Leftovers(b)
<1> DEFINE new == [client |-> frame[w].op \in OpeningOps, rows |-> Added]
<1>1. ASSUME NEW m \in made, NEW r \in m.rows, r \in RowsOf(b)' PROVE r \in RowsOf(b)
  <2>1. r \notin Added
    BY <1>1, AddedRows DEF MadeInv
  <2>2. r \in customers' \union accounts' \union journal' /\ r.bank = b
    BY <1>1 DEF RowsOf, ListAccounts, ListJournal
  <2>3. r \in customers \union accounts \union journal
    BY <2>1, <2>2 DEF Added
  <2> QED BY <2>2, <2>3 DEF RowsOf, ListAccounts, ListJournal
<1>2. \A m \in made' : m \in made \/ (Added # {} /\ m = new)
  BY DEF Remembers
<1>3. ASSUME NEW m \in Leftovers(b)', m \in made PROVE m \in Leftovers(b)
  BY <1>1, <1>3 DEF Leftovers
<1>4. ASSUME NEW m \in Leftovers(b)', m \notin made
      PROVE  m = new /\ \E r \in Added : r.bank = b
  <2>1. m \in made' /\ m.rows \intersect RowsOf(b)' # {}
    BY <1>4 DEF Leftovers
  <2>2. m = new
    BY <1>2, <1>4, <2>1
  <2>3. PICK r \in Added : r \in RowsOf(b)'
    BY <2>1, <2>2
  <2>4. r.bank = b
    BY <2>3 DEF RowsOf, ListAccounts, ListJournal
  <2> QED BY <2>2, <2>3, <2>4
<1> HIDE DEF new
<1>5. Leftovers(b)' \in SUBSET (Leftovers(b) \union {new})
  BY <1>3, <1>4
<1> QED BY <1>3, <1>4, <1>5

(* Whose step adds rows to a deleted bank was one who could, and now can   *)
(* no more; the other steps add none.                                      *)
LEMMA AddersAdd ==
  ASSUME IInv, \A v \in Workers : PayerKnown(v), NEW w \in Workers, Works(w),
         NEW b \in Banks \ banks, Lost(b)
  PROVE  \/ \A r \in Added : r.bank # b
         \/ w \in Adders(b) /\ w \notin Adders(b)'
<1>1. CASE Added = {} \/ frame[w].bank # b
  BY <1>1, AddedRows
<1>2. CASE frame[w].bank = b /\ (AddAccount(w) \/ AddBatch(w) \/ AddCustomer(w))
  BY <1>2, ReplyShape DEF AddAccount, AddBatch, AddCustomer, Adders, Stuck
<1>3. CASE frame[w].bank = b /\ EnsureOpen(w)
  <2>1. w \in Adders(b)
    BY <1>3 DEF Adders, Stuck, EnsureOpen
  <2>2. /\ frame'[w].bank = b /\ frame'[w].payer = frame[w].payer
        /\ frame'[w].pc \in {"transfer", "book_external"}
    BY <1>3, EnsureShape DEF EnsureOpen, EnsureFind
  <2> DEFINE id == frame[w].payer
  <2>3. id \in issued /\ Gone(b, id)
    BY <1>3 DEF EnsureOpen, PayerKnown, PayerLabels, Lost, Searching
  <2> HIDE DEF id
  <2>4. ~\E a \in accounts' : a.id = id /\ a.bank = b
    BY <2>3, GoneKept DEF Gone, GetAccount
  <2>5. GetAccount(b, frame[w].payer)' = {}
    BY <2>2, <2>4 DEF GetAccount, id
  <2> QED BY <2>1, <2>2, <2>5 DEF Adders, Stuck, Gone
<1>4. CASE frame[w].bank = b /\ PostAdd(w)
  <2>1. ~\E n \in DOMAIN frame[w].postings : n >= frame[w].next
    <3>1. frame[w].postings \in Seq(Posting) /\ frame[w].next \in Nat
      BY FrameHolds DEF Frame
    <3>2. frame[w].next > Len(frame[w].postings)
      BY <1>4 DEF PostAdd
    <3> QED BY <3>1, <3>2
  <2>2. w \in Adders(b)
    BY <1>4, <2>1 DEF Adders, Stuck, PostAdd
  <2>3. w \notin Adders(b)'
    BY <1>4, PostAddShape DEF Adders, Stuck
  <2> QED BY <2>2, <2>3
<1>5. EnsureOpen(w) \/ AddAccount(w) \/ AddBatch(w) \/ PostAdd(w) \/ AddCustomer(w)
        \/ Added = {}
  BY WorksAdds DEF Added
<1> QED BY <1>1, <1>2, <1>3, <1>4, <1>5

LEMMA LeftFinite ==
  ASSUME IsFiniteSet(Workers), MadeInv, NEW b
  PROVE  /\ IsFiniteSet(Leftovers(b)) /\ IsFiniteSet(Adders(b))
         /\ Cardinality(Leftovers(b)) \in Nat /\ Cardinality(Adders(b)) \in Nat
BY FS_Subset, FS_CardinalityType DEF Leftovers, Adders, MadeInv

LEMMA FewLeftKept ==
  ASSUME IsFiniteSet(Workers), IInv, MadeInv, \A v \in Workers : PayerKnown(v),
         NEW w \in Workers, Accepts(w) \/ Works(w), Remembers(w),
         NEW b \in Banks, FewLeft(b)
  PROVE  FewLeft(b)'
<1>1. CASE b \in banks
  <2>1. CASE Accepts(w)
    BY <1>1, <2>1, AcceptsNames DEF FewLeft
  <2>2. CASE RemoveBankRow(w)
    <3>1. frame'[w].pc = "purge" /\ frame'[w].bank = frame[w].bank
      BY <2>2, GotoShape DEF RemoveBankRow
    <3>2. CASE frame[w].bank = b
      BY <3>1, <3>2 DEF FewLeft, Deleting
    <3>3. CASE frame[w].bank # b
      BY <1>1, <2>2, <3>3 DEF RemoveBankRow, FewLeft
    <3> QED BY <3>2, <3>3
  <2>3. CASE Works(w) /\ ~RemoveBankRow(w)
    <3>1. banks' = banks
      BY <2>3 DEF Works, CoreStep, EnsureFind, EnsureOpen, TransferLookup, TransferFunds,
                  PostCheck, PostAdd, RemoveBankRows, AddCustomer, AddAccount, AddBatch,
                  CheckCustomer, ExternalAccount, ExternalBook, Finish, tables
    <3> QED BY <1>1, <3>1 DEF FewLeft
  <2> QED BY <2>1, <2>2, <2>3
<1>2. ASSUME b \notin banks, NEW v \in Workers, frame[v].pc = "purge", frame[v].bank = b
      PROVE  FewLeft(b)'
  <2>1. CASE v # w
    <3>1. frame'[v] = frame[v]
      BY <2>1, OwnStep
    <3> QED BY <1>2, <3>1 DEF FewLeft, Deleting
  <2>2. CASE v = w
    <3>1. RemoveBankRows(w)
      BY <1>2, <2>2, AcceptsNames
         DEF Works, CoreStep, EnsureFind, EnsureOpen, TransferLookup, TransferFunds,
             PostCheck, PostAdd, RemoveBankRow, AddCustomer, AddAccount, AddBatch,
             CheckCustomer, ExternalAccount, ExternalBook, Finish
    <3>2. RowsOf(b)' = {} /\ Lost(b)'
      BY <1>2, <2>2, <3>1
         DEF RemoveBankRows, RowsOf, ListAccounts, ListJournal, Lost, Gone, GetAccount
    <3>3. Adders(b)' \in SUBSET (Workers \ {w})
      BY <3>1, ReplyShape DEF RemoveBankRows, Adders, Stuck
    <3>4. Cardinality(Leftovers(b)') = 0
      <4>1. Leftovers(b)' = {}
        BY <3>2 DEF Leftovers
      <4> QED BY <4>1, FS_EmptySet
    <3>5. /\ IsFiniteSet(Workers \ {w})
          /\ Cardinality(Workers \ {w}) = Cardinality(Workers) - 1
          /\ Cardinality(Workers) \in Nat
      BY FS_RemoveElement, FS_CardinalityType
    <3>6. /\ Cardinality(Adders(b)') <= Cardinality(Workers \ {w})
          /\ Cardinality(Adders(b)') \in Nat
      BY <3>3, <3>5, FS_Subset, FS_CardinalityType
    <3>7. Cardinality(Leftovers(b)') + Cardinality(Adders(b)') < Cardinality(Workers)
      BY <3>4, <3>5, <3>6
    <3> QED BY <3>2, <3>7 DEF FewLeft
  <2> QED BY <2>1, <2>2
<1>3. ASSUME b \notin banks, Lost(b),
             Cardinality(Leftovers(b)) + Cardinality(Adders(b)) < Cardinality(Workers)
      PROVE  FewLeft(b)'
  <2> DEFINE R == Leftovers(b)
             A == Adders(b)
  <2>1. Lost(b)' /\ A' \in SUBSET A
    BY <1>3, FewerAdders
  <2>2. /\ IsFiniteSet(R) /\ IsFiniteSet(A) /\ Cardinality(R) \in Nat /\ Cardinality(A) \in Nat
        /\ Cardinality(Workers) \in Nat
    BY LeftFinite, FS_CardinalityType
  <2>3. CASE R' \in SUBSET R
    <3>1. /\ Cardinality(R') <= Cardinality(R) /\ Cardinality(A') <= Cardinality(A)
          /\ Cardinality(R') \in Nat /\ Cardinality(A') \in Nat
      <4> HIDE DEF R, A
      <4> QED BY <2>1, <2>2, <2>3, FS_Subset, FS_CardinalityType
    <3> HIDE DEF R, A
    <3>2. Cardinality(R') + Cardinality(A') < Cardinality(Workers)
      BY <1>3, <2>2, <3>1 DEF R, A
    <3> QED BY <2>1, <3>2 DEF FewLeft, R, A
  <2>4. ASSUME NEW x, R' \in SUBSET (R \union {x}), w \in A, w \notin A'
        PROVE  FewLeft(b)'
    <3> HIDE DEF R, A
    <3>1. /\ IsFiniteSet(R \union {x})
          /\ Cardinality(R \union {x}) = IF x \in R THEN Cardinality(R) ELSE Cardinality(R) + 1
      BY <2>2, FS_AddElement
    <3>2. Cardinality(R') <= Cardinality(R \union {x}) /\ Cardinality(R') \in Nat
      BY <2>4, <3>1, FS_Subset, FS_CardinalityType
    <3>3. IsFiniteSet(A \ {w}) /\ Cardinality(A \ {w}) = Cardinality(A) - 1
      BY <2>2, <2>4, FS_RemoveElement
    <3>4. A' \in SUBSET (A \ {w})
      BY <2>1, <2>4
    <3>5. Cardinality(A') <= Cardinality(A \ {w}) /\ Cardinality(A') \in Nat
      BY <3>3, <3>4, FS_Subset, FS_CardinalityType
    <3>6. Cardinality(R') <= Cardinality(R) + 1
      BY <2>2, <3>1, <3>2
    <3>7. Cardinality(R) + Cardinality(A) < Cardinality(Workers)
      BY <1>3 DEF R, A
    <3>8. Cardinality(R') + Cardinality(A') < Cardinality(Workers)
      BY <2>2, <3>2, <3>3, <3>5, <3>6, <3>7
    <3> QED BY <2>1, <3>8 DEF FewLeft, R, A
  <2>5. CASE Accepts(w)
    <3>1. R' \in SUBSET R
      BY <2>5, AddedRows, AcceptsLeads, LeftoversStep DEF Added
    <3> QED BY <2>3, <3>1
  <2>6. CASE Works(w)
    <3>1. PICK x : R' \in SUBSET (R \union {x})
      BY LeftoversStep
    <3>2. (\A r \in Added : r.bank # b) => R' \in SUBSET R
      BY LeftoversStep
    <3> HIDE DEF R
    <3> QED BY <1>3, <2>3, <2>4, <2>6, <3>1, <3>2, AddersAdd
  <2> QED BY <2>5, <2>6
<1> QED BY <1>1, <1>2, <1>3 DEF FewLeft, Deleting

(* However many requests run while a bank is deleted and after, what is    *)
(* left of it once they have ended was added in fewer transactions than    *)
(* there are workers, provided the database had no such left-overs when    *)
(* the program started.                                                    *)
THEOREM LeftoversStayFew ==
  ASSUME IsFiniteSet(Workers), Workers # {},
         \A r \in Seed.customers \union Seed.accounts \union Seed.journal :
           r.bank \in Seed.banks
  PROVE  Spec => []LeftoversBounded
<1> DEFINE Left == /\ MadeInv
                   /\ \A w \in Workers : PayerKnown(w)
                   /\ \A b \in Banks : FewLeft(b)
<1>1. Init => Left
  <2> SUFFICES ASSUME Init PROVE Left
    OBVIOUS
  <2>1. /\ frame = [w \in Workers |-> IdleFrame] /\ banks = Seed.banks
        /\ customers = Seed.customers /\ accounts = Seed.accounts /\ journal = Seed.journal
        /\ seq = Seed.seq /\ issued = IssuedBySeed
        /\ made = {[client |-> FALSE, rows |-> Rows]}
    BY DEF Init, CoreInit
  <2>0. MadeInv
    <3>1. IsFiniteSet(made)
      BY <2>1, FS_Singleton
    <3>2. \A r \in customers : r \in Customer /\ r.id \in issued
      BY <2>1, SeedAssumption DEF IssuedBySeed
    <3>3. \A r \in accounts : r \in Account /\ r.id \in issued
      BY <2>1, SeedAssumption DEF IssuedBySeed
    <3>4. \A r \in journal : r \in JournalEntry /\ r.seq <= seq
      BY <2>1, SeedAssumption
    <3>5. \A r \in Rows : Old(r)
      BY <3>2, <3>3, <3>4 DEF Rows, Old
    <3> QED BY <2>1, <3>1, <3>5 DEF MadeInv
  <2>2. \A w \in Workers : frame[w].pc = "idle"
    BY <2>1 DEF IdleFrame
  <2>3. ASSUME NEW b \in Banks \ banks PROVE FewLeft(b)
    <3>1. RowsOf(b) = {}
      BY <2>1, <2>3 DEF RowsOf, ListAccounts, ListJournal
    <3>2. Adders(b) = {} /\ Lost(b)
      BY <2>2 DEF Adders, Stuck, Lost, Searching
    <3>3. Cardinality(Leftovers(b)) = 0 /\ Cardinality(Adders(b)) = 0
      <4>1. Leftovers(b) = {}
        BY <3>1 DEF Leftovers
      <4> QED BY <3>2, <4>1, FS_EmptySet
    <3>4. Cardinality(Workers) > 0
      BY FS_EmptySet, FS_CardinalityType
    <3>5. Cardinality(Leftovers(b)) + Cardinality(Adders(b)) < Cardinality(Workers)
      BY <3>3, <3>4, FS_CardinalityType
    <3> QED BY <3>2, <3>5 DEF FewLeft
  <2>4. \A w \in Workers : PayerKnown(w)
    BY <2>2 DEF PayerKnown, PayerLabels
  <2> QED BY <2>0, <2>3, <2>4 DEF FewLeft
<1>2. IInv /\ Left /\ [Next]_vars => Left'
  <2> SUFFICES ASSUME IInv, Left, [Next]_vars PROVE Left'
    OBVIOUS
  <2>0. MadeInv'
    BY MadeKept
  <2>1. \A w \in Workers : PayerKnown(w)'
    BY PayerKept
  <2>2. ASSUME UNCHANGED vars, NEW b \in Banks PROVE FewLeft(b)'
    <3>1. Leftovers(b)' = Leftovers(b)
      BY <2>2 DEF vars, Leftovers, RowsOf, ListAccounts, ListJournal
    <3>2. \A w \in Workers : Stuck(w)' = Stuck(w)
      BY <2>2 DEF vars, Stuck, Gone, GetAccount
    <3>3. Adders(b)' = Adders(b)
      BY <2>2, <3>2 DEF vars, Adders
    <3>4. Deleting(b)' = Deleting(b) /\ Lost(b)' = Lost(b)
      BY <2>2 DEF vars, Deleting, Lost, Gone, GetAccount
    <3> QED BY <2>2, <3>1, <3>3, <3>4 DEF vars, FewLeft
  <2>3. ASSUME NEW w \in Workers, Accepts(w) \/ Works(w), Remembers(w), NEW b \in Banks
        PROVE  FewLeft(b)'
    BY <2>3, FewLeftKept
  <2> QED BY <2>0, <2>1, <2>2, <2>3 DEF Next, AllServed
<1>3. Left => LeftoversBounded
  <2> SUFFICES ASSUME Left, \A w \in Workers : frame[w].pc = "idle",
                      NEW b \in Banks \ banks
               PROVE  Cardinality(Leftovers(b)) < Cardinality(Workers)
    BY DEF LeftoversBounded
  <2>1. ~Deleting(b)
    BY DEF Deleting
  <2>2. Cardinality(Leftovers(b)) + Cardinality(Adders(b)) < Cardinality(Workers)
    BY <2>1 DEF FewLeft
  <2> QED BY <2>2, LeftFinite, FS_CardinalityType
<1> HIDE DEF Left
<1> QED BY <1>1, <1>2, <1>3, Invariance, PTL DEF Spec

=============================================================================
