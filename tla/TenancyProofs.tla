---------------------------- MODULE TenancyProofs ----------------------------
(***************************************************************************)
(* Theorems about Tenancy: what requests that come one at a time are       *)
(* promised of names, deletions, partial updates and currencies, and what  *)
(* is left of each promise when they come at once.                         *)
(***************************************************************************)
EXTENDS Tenancy, FiniteSetTheorems, TLAPS

(* An update that has read its bank and will write the object back. *)
HasCopy(f) == f.pc = "merge" \/ (f.pc = "names" /\ f.op = "update")

(* The labels at which a request names a bank that has been created. *)
OfABank == {"load", "merge", "find", "remove", "purge", "currency", "base", "add_account"}

(* What the locals of a request are at each label, for the ids issued and  *)
(* the banks respelt.  A currency in lower case comes from nothing but an  *)
(* update of the same bank that spelt it so, however old the copy is.      *)
FrameOK(f, is, re) ==
  /\ f.pc = "names" => f.body.name # None /\ f.op \in {"create", "update"}
  /\ f.pc = "insert" => f.op = "create"
  /\ f.op = "create" => f.body \in Creations /\ f.id = 0
  /\ f.pc = "load" \/ HasCopy(f) => f.op = "update" /\ f.body \in Updates
  /\ HasCopy(f) => f.bank \in Bank /\ (Upper[f.bank.base] = f.bank.base \/ f.id \in re)
  /\ f.pc \in OfABank \/ HasCopy(f) => f.id \in is
  /\ f.pc = "currency" => f.ccy \in Currencies /\ Upper[f.ccy] = f.ccy
  /\ f.pc = "add_account" => f.ccy \in Currencies /\ (Upper[f.ccy] = f.ccy \/ f.id \in re)

RowsOK ==
  /\ \A id \in DOMAIN rows : Upper[rows[id].base] = rows[id].base \/ id \in respelt
  /\ \A a \in accounts : Upper[a.ccy] = a.ccy \/ a.bank \in respelt

FramesOK == \A w \in Workers : FrameOK(frame[w], issued, respelt)

TInv == TypeOK /\ RowsOK /\ FramesOK

-----------------------------------------------------------------------------
(* Types *)

LEMMA RowIsABank ==
  ASSUME NEW r \in Bank
  PROVE  /\ RowToBank(r) \in Bank
         /\ RowToBank(r).base = r.base /\ RowToBank(r).name = r.name
         /\ RowToBank(r).supported = r.supported \union {r.base}
         /\ RowToBank(r).protocols = r.protocols /\ RowToBank(r).settings = r.settings
  BY DEF RowToBank, Bank

LEMMA NewIsABank ==
  ASSUME NEW c \in Creation, c.name # None
  PROVE  /\ NewBank(c) \in Bank /\ NewBank(c).name = c.name
         /\ NewBank(c).base = Upper[c.base]
<1>1. \A x \in Currencies : Upper[x] \in Currencies
  BY TenancyAssumption
<1>2. {Upper[x] : x \in c.supported \union {c.base}} \in SUBSET Currencies
  BY <1>1 DEF Creation
<1> QED BY <1>1, <1>2 DEF NewBank, Bank, Creation

LEMMA ChangedIsABank ==
  ASSUME NEW b \in Bank, NEW u \in Update
  PROVE  /\ Changed(b, u) \in Bank
         /\ Changed(b, u).name = IF u.name = None THEN b.name ELSE u.name
         /\ Changed(b, u).base = IF u.base = None THEN b.base ELSE u.base
         /\ Changed(b, u).protocols = IF u.protocols = None THEN b.protocols ELSE u.protocols
         /\ Changed(b, u).settings = IF u.settings = None THEN b.settings ELSE u.settings
         /\ Changed(b, u).supported = b.supported
  BY DEF Changed, Bank, Update

(* A step of one worker keeps what is known of all requests, if it does of *)
(* its own.                                                                *)
LEMMA OthersKeepTheirs ==
  ASSUME TInv, NEW w \in Workers, NEW g \in Frame,
         frame' = [frame EXCEPT ![w] = g],
         issued \subseteq issued', respelt \subseteq respelt',
         FrameOK(g, issued', respelt')
  PROVE  frame' \in [Workers -> Frame] /\ FramesOK'
<1>1. frame' \in [Workers -> Frame]
  BY DEF TInv, TypeOK
<1>2. ASSUME NEW x \in Workers PROVE FrameOK(frame'[x], issued', respelt')
  <2>1. CASE x = w
    BY <2>1 DEF TInv, TypeOK
  <2>2. CASE x # w
    <3>1. frame'[x] = frame[x] /\ FrameOK(frame[x], issued, respelt)
      BY <2>2 DEF TInv, TypeOK, FramesOK
    <3> QED BY <3>1 DEF FrameOK
  <2> QED BY <2>1, <2>2
<1> QED BY <1>1, <1>2 DEF FramesOK

(* Ending a request asks nothing, going on asks what its label asks. *)
LEMMA IdleIsFine == IdleFrame \in Frame /\ \A is, re : FrameOK(IdleFrame, is, re)
  BY TenancyAssumption DEF IdleFrame, Frame, FrameOK, HasCopy, OfABank, TenancyLabels

LEMMA Begun ==
  ASSUME TInv, NEW w \in Workers, NEW g \in Frame, FrameOK(g, issued, respelt), Begin(w, g)
  PROVE  TInv'
<1>1. frame' \in [Workers -> Frame] /\ FramesOK'
  BY OthersKeepTheirs DEF Begin
<1>2. served' \in 0..MaxRequests /\ overlapped' \in BOOLEAN
  BY TenancyAssumption DEF Begin, TInv, TypeOK
<1> QED BY <1>1, <1>2 DEF Begin, TInv, TypeOK, RowsOK
LEMMA AcceptsKeepsTypes == ASSUME TInv, NEW w \in Workers, Accepts(w) PROVE TInv'
<1>a. served + 1 \in 0..MaxRequests
  <2>1. served < MaxRequests
    BY DEF Accepts, BeginCreate, BeginUpdate, BeginDelete, BeginOpenAccount, BeginBatch, Begin
  <2>2. served \in 0..MaxRequests /\ MaxRequests \in Nat
    BY TenancyAssumption DEF TInv, TypeOK
  <2> QED BY <2>1, <2>2
<1> USE DEF FrameOK, HasCopy, OfABank, Frame, Request, IdleFrame, TenancyLabels
<1>0. \A u \in Update : u.name = None \/ u.name \in Names
  BY DEF Update
<1>1. CASE BeginCreate(w)
  <2>1. PICK c \in Creations :
          Begin(w, [Request EXCEPT !.op = "create", !.pc = "names", !.body = c])
    BY <1>1 DEF BeginCreate
  <2> DEFINE g == [Request EXCEPT !.op = "create", !.pc = "names", !.body = c]
  <2>2. c.name # None
    BY TenancyAssumption DEF Creation
  <2>3. g \in Frame /\ FrameOK(g, issued, respelt)
    BY <1>a, <2>2
  <2> HIDE DEF g
  <2> QED BY <2>1, <2>3, Begun DEF g
<1>2. CASE BeginUpdate(w)
  <2>1. PICK id \in issued, u \in Updates :
          Begin(w, [Request EXCEPT !.op = "update", !.pc = "load", !.id = id, !.body = u])
    BY <1>2 DEF BeginUpdate
  <2> DEFINE g == [Request EXCEPT !.op = "update", !.pc = "load", !.id = id, !.body = u]
  <2>3. g \in Frame /\ FrameOK(g, issued, respelt)
    BY <1>a DEF TInv, TypeOK
  <2> HIDE DEF g
  <2> QED BY <2>1, <2>3, Begun DEF g
<1>3. CASE BeginDelete(w)
  <2>1. PICK id \in issued :
          Begin(w, [Request EXCEPT !.op = "delete", !.pc = "find", !.id = id])
    BY <1>3 DEF BeginDelete
  <2> DEFINE g == [Request EXCEPT !.op = "delete", !.pc = "find", !.id = id]
  <2>3. g \in Frame /\ FrameOK(g, issued, respelt)
    BY <1>a DEF TInv, TypeOK
  <2> HIDE DEF g
  <2> QED BY <2>1, <2>3, Begun DEF g
<1>4. CASE BeginOpenAccount(w)
  <2>1. PICK id \in DOMAIN rows, c \in Currencies :
          Begin(w, [Request EXCEPT !.op = "open_account", !.pc = "currency", !.id = id, !.ccy = Upper[c]])
    BY <1>4 DEF BeginOpenAccount
  <2> DEFINE g == [Request EXCEPT !.op = "open_account", !.pc = "currency", !.id = id, !.ccy = Upper[c]]
  <2>3. g \in Frame /\ FrameOK(g, issued, respelt)
    BY <1>a, TenancyAssumption DEF TInv, TypeOK
  <2> HIDE DEF g
  <2> QED BY <2>1, <2>3, Begun DEF g
<1>5. CASE BeginBatch(w)
  <2>1. PICK id \in DOMAIN rows :
          Begin(w, [Request EXCEPT !.op = "batch", !.pc = "base", !.id = id])
    BY <1>5 DEF BeginBatch
  <2> DEFINE g == [Request EXCEPT !.op = "batch", !.pc = "base", !.id = id]
  <2>3. g \in Frame /\ FrameOK(g, issued, respelt)
    BY <1>a DEF TInv, TypeOK
  <2> HIDE DEF g
  <2> QED BY <2>1, <2>3, Begun DEF g
<1> QED BY <1>1, <1>2, <1>3, <1>4, <1>5 DEF Accepts

(* What each step of a request makes of its frame. *)
LEMMA Stepped ==
  ASSUME TInv, NEW w \in Workers, NEW g \in Frame,
         frame' = [frame EXCEPT ![w] = g], FrameOK(g, issued, respelt),
         UNCHANGED <<rows, accounts, issued, served, deleted, respelt, overlapped>>
  PROVE  TInv'
<1>1. frame' \in [Workers -> Frame] /\ FramesOK'
  BY OthersKeepTheirs
<1> QED BY <1>1 DEF TInv, TypeOK, RowsOK

LEMMA GoneOn ==
  ASSUME NEW w \in Workers, NEW label, frame \in [Workers -> Frame], Goto(w, label)
  PROVE  frame' = [frame EXCEPT ![w] = [frame[w] EXCEPT !.pc = label]]
  BY DEF Goto

LEMMA Ended ==
  ASSUME TInv, NEW w \in Workers, End(w),
         UNCHANGED <<rows, accounts, issued, served, deleted, respelt, overlapped>>
  PROVE  TInv'
  BY Stepped, IdleIsFine DEF End

LEMMA LoadKeepsTypes == ASSUME TInv, NEW w \in Workers, Load(w) PROVE TInv'
<1> DEFINE f == frame[w]
<1>0. f \in Frame /\ FrameOK(f, issued, respelt) /\ f.pc = "load"
  BY DEF TInv, TypeOK, FramesOK, Load
<1>1. CASE End(w)
  BY <1>1, Ended DEF Load
<1>2. CASE ~End(w)
  <2> DEFINE g == [f EXCEPT !.bank = RowToBank(rows[f.id]),
                            !.pc = IF f.body.name = None THEN "merge" ELSE "names"]
  <2>1. f.id \in DOMAIN rows /\ frame' = [frame EXCEPT ![w] = g]
    BY <1>2 DEF Load, TInv, TypeOK
  <2>2. rows[f.id] \in Bank /\ (Upper[rows[f.id].base] = rows[f.id].base \/ f.id \in respelt)
    BY <2>1 DEF TInv, TypeOK, RowsOK
  <2> DEFINE r == RowToBank(rows[f.id])
  <2>3. r \in Bank /\ (Upper[r.base] = r.base \/ f.id \in respelt)
    BY <2>2, RowIsABank
  <2> HIDE DEF r
  <2>4. g = [f EXCEPT !.bank = r, !.pc = IF f.body.name = None THEN "merge" ELSE "names"]
    BY DEF r
  <2> HIDE DEF g
  <2>5. g \in Frame /\ FrameOK(g, issued, respelt)
    BY <1>0, <2>3, <2>4 DEF Frame, FrameOK, HasCopy, OfABank, TenancyLabels
  <2> QED BY <2>1, <2>5, Stepped DEF Load
<1> QED BY <1>1, <1>2

LEMMA CheckNamesKeepsTypes == ASSUME TInv, NEW w \in Workers, CheckNames(w) PROVE TInv'
<1> DEFINE f == frame[w]
           label == IF f.op = "create" THEN "insert" ELSE "merge"
           g == [f EXCEPT !.pc = label]
<1>0. f \in Frame /\ FrameOK(f, issued, respelt) /\ f.pc = "names"
  BY DEF TInv, TypeOK, FramesOK, CheckNames
<1>1. CASE End(w)
  BY <1>1, Ended DEF CheckNames
<1>2. CASE Goto(w, label)
  <2>1. frame' = [frame EXCEPT ![w] = g]
    BY <1>2 DEF Goto, TInv, TypeOK
  <2>2. g \in Frame /\ FrameOK(g, issued, respelt)
    BY <1>0 DEF Frame, FrameOK, HasCopy, OfABank, TenancyLabels
  <2> HIDE DEF g
  <2> QED BY <2>1, <2>2, Stepped DEF CheckNames
<1> QED BY <1>1, <1>2 DEF CheckNames

LEMMA InsertKeepsTypes == ASSUME TInv, NEW w \in Workers, Insert(w) PROVE TInv'
<1>1. PICK id \in BankIds \ issued :
        issued' = issued \union {id} /\ Put(id, NewBank(frame[w].body))
  BY DEF Insert
<1> DEFINE n == NewBank(frame[w].body)
<1>2. frame[w].body \in Creations /\ frame[w].body \in Creation
  BY TenancyAssumption DEF Insert, TInv, FramesOK, FrameOK
<1>3. n \in Bank /\ Upper[n.base] = n.base
  <2>1. frame[w].body.name # None /\ frame[w].body.base \in Currencies
    BY <1>2, TenancyAssumption DEF Creation
  <2> QED BY <1>2, <2>1, NewIsABank, TenancyAssumption
<1>4. frame' \in [Workers -> Frame] /\ FramesOK'
  BY <1>1, IdleIsFine, OthersKeepTheirs DEF Insert, End
<1> HIDE DEF n
<1>5. DOMAIN rows' = DOMAIN rows \union {id}
      /\ \A x \in DOMAIN rows' : rows'[x] = IF x = id THEN n ELSE rows[x]
  BY <1>1 DEF Put, n
<1> QED BY <1>1, <1>3, <1>4, <1>5 DEF Insert, TInv, TypeOK, RowsOK

LEMMA MergeKeepsTypes == ASSUME TInv, NEW w \in Workers, Merge(w) PROVE TInv'
<1> DEFINE f == frame[w]
           n == Changed(f.bank, f.body)
<1>1. /\ f.bank \in Bank /\ f.body \in Updates /\ f.body \in Update /\ f.id \in issued
      /\ Upper[f.bank.base] = f.bank.base \/ f.id \in respelt
  BY TenancyAssumption DEF Merge, TInv, FramesOK, FrameOK, HasCopy
<1>2. n \in Bank /\ (Upper[n.base] = n.base \/ f.id \in respelt')
  BY <1>1, ChangedIsABank DEF Merge
<1>3. respelt' \in SUBSET issued /\ respelt \subseteq respelt'
  BY <1>1 DEF Merge, TInv, TypeOK
<1>4. frame' \in [Workers -> Frame] /\ FramesOK'
  BY <1>3, IdleIsFine, OthersKeepTheirs DEF Merge, End
<1>5. DOMAIN rows' = DOMAIN rows \union {f.id}
      /\ \A x \in DOMAIN rows' : rows'[x] = IF x = f.id THEN n ELSE rows[x]
  BY DEF Merge, Put
<1> HIDE DEF n
<1> QED BY <1>1, <1>2, <1>3, <1>4, <1>5 DEF Merge, TInv, TypeOK, RowsOK
LEMMA DeletionKeepsTypes ==
  ASSUME TInv, NEW w \in Workers, Find(w) \/ Remove(w) \/ Purge(w) PROVE TInv'
<1> DEFINE f == frame[w]
<1>0. f \in Frame /\ FrameOK(f, issued, respelt)
  BY DEF TInv, TypeOK, FramesOK
<1>1. CASE Find(w)
  <2>1. CASE End(w)
    BY <1>1, <2>1, Ended DEF Find
  <2>2. CASE Goto(w, "remove")
    <3> DEFINE g == [f EXCEPT !.pc = "remove"]
    <3>1. frame' = [frame EXCEPT ![w] = g]
      BY <2>2, GoneOn DEF TInv, TypeOK
    <3>2. g \in Frame /\ FrameOK(g, issued, respelt)
      BY <1>0, <1>1 DEF Find, Frame, FrameOK, HasCopy, OfABank, TenancyLabels
    <3> HIDE DEF g
    <3> QED BY <1>1, <3>1, <3>2, Stepped DEF Find
  <2> QED BY <1>1, <2>1, <2>2 DEF Find
<1>2. CASE Remove(w)
  <2> DEFINE g == [f EXCEPT !.pc = "purge"]
  <2>1. frame' = [frame EXCEPT ![w] = g]
    BY <1>2, GoneOn DEF Remove, TInv, TypeOK
  <2>2. g \in Frame /\ FrameOK(g, issued, respelt)
    BY <1>0, <1>2 DEF Remove, Frame, FrameOK, HasCopy, OfABank, TenancyLabels
  <2> HIDE DEF g
  <2>3. frame' \in [Workers -> Frame] /\ FramesOK'
    BY <1>2, <2>1, <2>2, OthersKeepTheirs DEF Remove
  <2>4. DOMAIN rows' \in SUBSET DOMAIN rows /\ \A x \in DOMAIN rows' : rows'[x] = rows[x]
    BY <1>2 DEF Remove
  <2> QED BY <1>2, <2>3, <2>4 DEF Remove, TInv, TypeOK, RowsOK
<1>3. CASE Purge(w)
  <2>1. frame' \in [Workers -> Frame] /\ FramesOK'
    BY <1>3, IdleIsFine, OthersKeepTheirs DEF Purge, End
  <2>2. accounts' \in SUBSET accounts /\ f.id \in issued
    BY <1>0, <1>3 DEF Purge, FrameOK, OfABank
  <2> QED BY <1>3, <2>1, <2>2 DEF Purge, TInv, TypeOK, RowsOK
<1> QED BY <1>1, <1>2, <1>3

LEMMA AccountKeepsTypes ==
  ASSUME TInv, NEW w \in Workers, CheckCurrency(w) \/ ReadBase(w) \/ AddAccount(w)
  PROVE  TInv'
<1> DEFINE f == frame[w]
<1>0. f \in Frame /\ FrameOK(f, issued, respelt)
  BY DEF TInv, TypeOK, FramesOK
<1>1. CASE CheckCurrency(w)
  <2>1. CASE End(w)
    BY <1>1, <2>1, Ended DEF CheckCurrency
  <2>2. CASE Goto(w, "add_account")
    <3> DEFINE g == [f EXCEPT !.pc = "add_account"]
    <3>1. frame' = [frame EXCEPT ![w] = g]
      BY <2>2, GoneOn DEF TInv, TypeOK
    <3>2. g \in Frame /\ FrameOK(g, issued, respelt)
      BY <1>0, <1>1 DEF CheckCurrency, Frame, FrameOK, HasCopy, OfABank, TenancyLabels
    <3> HIDE DEF g
    <3> QED BY <1>1, <3>1, <3>2, Stepped DEF CheckCurrency
  <2> QED BY <1>1, <2>1, <2>2 DEF CheckCurrency
<1>2. CASE ReadBase(w)
  <2>1. CASE End(w)
    BY <1>2, <2>1, Ended DEF ReadBase
  <2>2. CASE ~End(w)
    <3> DEFINE g == [f EXCEPT !.pc = "add_account", !.ccy = rows[f.id].base]
    <3>1. f.id \in DOMAIN rows /\ frame' = [frame EXCEPT ![w] = g]
      BY <1>2, <2>2 DEF ReadBase, TInv, TypeOK
    <3> DEFINE c == rows[f.id].base
    <3>2. c \in Currencies /\ (Upper[c] = c \/ f.id \in respelt)
      BY <3>1 DEF TInv, TypeOK, RowsOK, Bank
    <3>3. g = [f EXCEPT !.pc = "add_account", !.ccy = c]
      OBVIOUS
    <3> HIDE DEF c, g
    <3>4. g \in Frame /\ FrameOK(g, issued, respelt)
      BY <1>0, <1>2, <3>2, <3>3 DEF ReadBase, Frame, FrameOK, HasCopy, OfABank, TenancyLabels
    <3> QED BY <1>2, <3>1, <3>4, Stepped DEF ReadBase
  <2> QED BY <2>1, <2>2
<1>3. CASE AddAccount(w)
  <2>1. frame' \in [Workers -> Frame] /\ FramesOK'
    BY <1>3, IdleIsFine, OthersKeepTheirs DEF AddAccount, End
  <2>2. f.id \in issued /\ f.ccy \in Currencies /\ (Upper[f.ccy] = f.ccy \/ f.id \in respelt)
    BY <1>0, <1>3 DEF AddAccount, FrameOK, OfABank
  <2>3. PICK n \in (IF f.op = "batch" THEN BatchSizes ELSE {1}) :
          accounts' = accounts \union
            {[bank |-> f.id, ccy |-> f.ccy, by |-> f.by, nr |-> k] : k \in 1..n}
    BY <1>3 DEF AddAccount
  <2>4. n \in Nat /\ f.by \in 0..MaxRequests
    <3>1. n \in BatchSizes \/ n = 1
      BY <2>3
    <3>3. n \in Nat
      BY <3>1, TenancyAssumption
    <3>2. f.by \in 0..MaxRequests
      BY <1>0 DEF Frame
    <3> QED BY <3>2, <3>3
  <2>5. \A a \in accounts' \ accounts :
          a \in [bank : issued, ccy : Currencies, by : 0..MaxRequests, nr : Nat]
          /\ (Upper[a.ccy] = a.ccy \/ a.bank \in respelt)
    BY <2>2, <2>3, <2>4
  <2>6. UNCHANGED <<rows, issued, served, deleted, respelt, overlapped>>
    BY <1>3 DEF AddAccount
  <2> QED BY <2>1, <2>5, <2>6 DEF TInv, TypeOK, RowsOK
<1> QED BY <1>1, <1>2, <1>3

LEMMA InitTypes == Init => TInv
<1> SUFFICES ASSUME Init PROVE TInv
  OBVIOUS
<1>1. frame \in [Workers -> Frame] /\ FramesOK
  BY IdleIsFine DEF Init, FramesOK
<1>2. DOMAIN rows = {}
  BY DEF Init
<1>3. served = 0 /\ served \in 0..MaxRequests
  BY TenancyAssumption DEF Init
<1>4. /\ accounts = {} /\ issued = {} /\ deleted = {} /\ respelt = {}
      /\ overlapped \in BOOLEAN
  BY DEF Init
<1>5. RowsOK
  BY <1>2, <1>4 DEF RowsOK
<1>6. TypeOK
  BY <1>1, <1>2, <1>3, <1>4 DEF TypeOK
<1> QED BY <1>1, <1>5, <1>6 DEF TInv

LEMMA NextTypes == TInv /\ [Next]_vars => TInv'
<1> SUFFICES ASSUME TInv, [Next]_vars PROVE TInv'
  OBVIOUS
<1>1. CASE UNCHANGED vars
  BY <1>1 DEF vars, TInv, TypeOK, RowsOK, FramesOK
<1>2. ASSUME NEW w \in Workers, Works(w) PROVE TInv'
  BY <1>2, LoadKeepsTypes, CheckNamesKeepsTypes, InsertKeepsTypes, MergeKeepsTypes,
     DeletionKeepsTypes, AccountKeepsTypes DEF Works
<1> QED BY <1>1, <1>2, AcceptsKeepsTypes DEF Next, AllServed

LEMMA TypesKept == Spec => []TInv
  BY InitTypes, NextTypes, PTL DEF Spec

(* Rows, accounts, frames and histories are of their types. *)
THEOREM TypeCorrect == Spec => []TypeOK
<1>1. TInv => TypeOK
  BY DEF TInv
<1> QED BY <1>1, TypesKept, PTL

-----------------------------------------------------------------------------
(* One request at a time. *)

Busy == {w \in Workers : frame[w].pc # "idle"}

(* With the rows rs, a bank this request has a copy of is the one it would *)
(* find; it is gone if it is being purged; and it supports the currency an *)
(* account is about to be opened in.                                       *)
AsItWas(f, rs) ==
  /\ HasCopy(f) => f.id \in DOMAIN rs /\ f.bank = RowToBank(rs[f.id])
  /\ f.pc = "purge" => f.id \notin DOMAIN rs
  /\ f.pc = "add_account" => f.id \in DOMAIN rs /\ f.ccy \in RowToBank(rs[f.id]).supported

(* As long as no two requests were ever in flight together, what a request *)
(* has read is still so, a deleted bank has no row and no accounts, and    *)
(* accounts are in currencies of their banks.                              *)
OneByOne ==
  ~overlapped =>
    /\ \A w, x \in Busy : w = x
    /\ \A w \in Workers : AsItWas(frame[w], rows)
    /\ deleted \intersect DOMAIN rows = {}
    /\ \A a \in accounts : a.bank \notin deleted
    /\ \A a \in accounts : a.bank \in DOMAIN rows => a.ccy \in RowToBank(rows[a.bank]).supported

(* A step of the one request there is: the others are idle. *)
LEMMA TheOneRequest ==
  ASSUME TInv, NEW w \in Workers, NEW g, frame' = [frame EXCEPT ![w] = g],
         \A x \in Busy : x = w, AsItWas(g, rows')
  PROVE  (\A x, y \in Busy : x = y)' /\ (\A x \in Workers : AsItWas(frame[x], rows))'
<1>1. ASSUME NEW x \in Workers, x # w PROVE frame'[x] = frame[x] /\ frame[x].pc = "idle"
  BY <1>1 DEF TInv, TypeOK, Busy
<1>2. frame'[w] = g
  BY DEF TInv, TypeOK
<1>3. \A x \in Workers : AsItWas(frame'[x], rows')
  BY <1>1, <1>2 DEF AsItWas, HasCopy
<1> QED BY <1>1, <1>3 DEF Busy

LEMMA NothingAsked == \A rs : AsItWas(IdleFrame, rs)
  BY DEF AsItWas, HasCopy, IdleFrame

(* A request that begins has read nothing yet. *)
LEMMA BegunAlone ==
  ASSUME TInv, OneByOne, NEW w \in Workers, NEW g, Begin(w, g),
         ~HasCopy(g), g.pc \notin {"purge", "add_account"}
  PROVE  OneByOne'
<1> SUFFICES ASSUME ~overlapped' PROVE OneByOne'
  BY DEF OneByOne
<1>1. ~overlapped /\ \A x \in Busy : x = w
  BY DEF Begin, Busy
<1>2. AsItWas(g, rows')
  BY DEF AsItWas
<1>3. (\A x, y \in Busy : x = y)' /\ (\A x \in Workers : AsItWas(frame[x], rows))'
  BY <1>1, <1>2, TheOneRequest DEF Begin
<1> QED BY <1>1, <1>3 DEF OneByOne, Begin

(* The labels at which a request begins. *)
LEMMA WhereRequestsBegin ==
  ASSUME NEW w \in Workers, Accepts(w)
  PROVE  \E g : /\ Begin(w, g) /\ g.pc \in {"names", "load", "find", "currency", "base"}
                /\ ~HasCopy(g)
<1> DEFINE Starts(g) == g.pc \in {"names", "load", "find", "currency", "base"} /\ ~HasCopy(g)
           G1(c) == [Request EXCEPT !.op = "create", !.pc = "names", !.body = c]
           G2(id, u) == [Request EXCEPT !.op = "update", !.pc = "load", !.id = id, !.body = u]
           G3(id) == [Request EXCEPT !.op = "delete", !.pc = "find", !.id = id]
           G4(id, c) == [Request EXCEPT !.op = "open_account", !.pc = "currency",
                                          !.id = id, !.ccy = Upper[c]]
           G5(id) == [Request EXCEPT !.op = "batch", !.pc = "base", !.id = id]
<1>1. CASE BeginCreate(w)
  <2>1. PICK c : Begin(w, G1(c))
    BY <1>1 DEF BeginCreate
  <2>2. Starts(G1(c))
    BY DEF Request, IdleFrame, HasCopy
  <2> QED BY <2>1, <2>2
<1>2. CASE BeginUpdate(w)
  <2>1. PICK id, u : Begin(w, G2(id, u))
    BY <1>2 DEF BeginUpdate
  <2>2. Starts(G2(id, u))
    BY DEF Request, IdleFrame, HasCopy
  <2> QED BY <2>1, <2>2
<1>3. CASE BeginDelete(w)
  <2>1. PICK id : Begin(w, G3(id))
    BY <1>3 DEF BeginDelete
  <2>2. Starts(G3(id))
    BY DEF Request, IdleFrame, HasCopy
  <2> QED BY <2>1, <2>2
<1>4. CASE BeginOpenAccount(w)
  <2>1. PICK id, c : Begin(w, G4(id, c))
    BY <1>4 DEF BeginOpenAccount
  <2>2. Starts(G4(id, c))
    BY DEF Request, IdleFrame, HasCopy
  <2> QED BY <2>1, <2>2
<1>5. CASE BeginBatch(w)
  <2>1. PICK id : Begin(w, G5(id))
    BY <1>5 DEF BeginBatch
  <2>2. Starts(G5(id))
    BY DEF Request, IdleFrame, HasCopy
  <2> QED BY <2>1, <2>2
<1> QED BY <1>1, <1>2, <1>3, <1>4, <1>5 DEF Accepts

LEMMA AcceptsAlone ==
  ASSUME TInv, OneByOne, NEW w \in Workers, Accepts(w) PROVE OneByOne'
<1>1. PICK g : /\ Begin(w, g) /\ g.pc \in {"names", "load", "find", "currency", "base"}
               /\ ~HasCopy(g)
  BY WhereRequestsBegin
<1> QED BY <1>1, BegunAlone

(* A step of a request that changes no table. *)
LEMMA ReadAlone ==
  ASSUME TInv, OneByOne, NEW w \in Workers, frame[w].pc # "idle",
         NEW g, frame' = [frame EXCEPT ![w] = g],
         ~overlapped => AsItWas(g, rows),
         UNCHANGED <<rows, accounts, deleted, overlapped>>
  PROVE  OneByOne'
<1> SUFFICES ASSUME ~overlapped PROVE OneByOne'
  BY DEF OneByOne
<1>1. \A x \in Busy : x = w
  BY DEF OneByOne, Busy
<1>2. (\A x, y \in Busy : x = y)' /\ (\A x \in Workers : AsItWas(frame[x], rows))'
  BY <1>1, TheOneRequest
<1> QED BY <1>2 DEF OneByOne

LEMMA EndAlone ==
  ASSUME TInv, OneByOne, NEW w \in Workers, frame[w].pc # "idle", End(w),
         UNCHANGED <<rows, accounts, deleted, overlapped>>
  PROVE  OneByOne'
  BY ReadAlone, NothingAsked DEF End

LEMMA ReadsAlone ==
  ASSUME TInv, OneByOne, NEW w \in Workers,
         Load(w) \/ CheckNames(w) \/ Find(w) \/ CheckCurrency(w) \/ ReadBase(w)
  PROVE  OneByOne'
<1> DEFINE f == frame[w]
<1>0. ~overlapped => AsItWas(f, rows)
  BY DEF OneByOne
<1>e. CASE End(w)
  BY <1>e, EndAlone DEF Load, CheckNames, Find, CheckCurrency, ReadBase
<1>1. CASE Load(w) /\ ~End(w)
  <2> DEFINE g == [f EXCEPT !.bank = RowToBank(rows[f.id]),
                            !.pc = IF f.body.name = None THEN "merge" ELSE "names"]
  <2>1. f.id \in DOMAIN rows /\ frame' = [frame EXCEPT ![w] = g] /\ f \in Frame
    BY <1>1 DEF Load, TInv, TypeOK
  <2> DEFINE r == RowToBank(rows[f.id])
             l == IF f.body.name = None THEN "merge" ELSE "names"
  <2>2. g = [f EXCEPT !.bank = r, !.pc = l]
    OBVIOUS
  <2>3. g.id = f.id /\ g.bank = r /\ g.pc \in {"merge", "names"}
    BY <2>1 DEF Frame
  <2> HIDE DEF g
  <2>4. AsItWas(g, rows)
    BY <2>1, <2>3 DEF AsItWas
  <2> QED BY <1>1, <2>1, <2>4, ReadAlone DEF Load
<1>2. CASE CheckNames(w) /\ ~End(w)
  <2> DEFINE l == IF f.op = "create" THEN "insert" ELSE "merge"
             g == [f EXCEPT !.pc = l]
  <2>1. frame' = [frame EXCEPT ![w] = g] /\ f \in Frame /\ FrameOK(f, issued, respelt)
    BY <1>2, GoneOn DEF CheckNames, TInv, TypeOK, FramesOK
  <2>2. g.id = f.id /\ g.bank = f.bank /\ g.pc = l
    BY <2>1 DEF Frame
  <2> HIDE DEF g
  <2>3. ~overlapped => AsItWas(g, rows)
    BY <1>0, <1>2, <2>1, <2>2 DEF AsItWas, CheckNames, HasCopy, FrameOK
  <2> QED BY <1>2, <2>1, <2>3, ReadAlone DEF CheckNames
<1>3. CASE Find(w) /\ ~End(w)
  <2> DEFINE g == [f EXCEPT !.pc = "remove"]
  <2>1. frame' = [frame EXCEPT ![w] = g] /\ f \in Frame
    BY <1>3, GoneOn DEF Find, TInv, TypeOK
  <2>2. g.pc = "remove"
    BY <2>1 DEF Frame
  <2> HIDE DEF g
  <2>3. AsItWas(g, rows)
    BY <2>2 DEF AsItWas, HasCopy
  <2> QED BY <1>3, <2>1, <2>3, ReadAlone DEF Find
<1>4. CASE CheckCurrency(w) /\ ~End(w)
  <2> DEFINE g == [f EXCEPT !.pc = "add_account"]
  <2>1. frame' = [frame EXCEPT ![w] = g] /\ f \in Frame
    BY <1>4, GoneOn DEF CheckCurrency, TInv, TypeOK
  <2>2. g.pc = "add_account" /\ g.id = f.id /\ g.ccy = f.ccy
    BY <2>1 DEF Frame
  <2> HIDE DEF g
  <2>3. AsItWas(g, rows)
    BY <1>4, <2>2 DEF AsItWas, HasCopy, CheckCurrency
  <2> QED BY <1>4, <2>1, <2>3, ReadAlone DEF CheckCurrency
<1>5. CASE ReadBase(w) /\ ~End(w)
  <2> DEFINE g == [f EXCEPT !.pc = "add_account", !.ccy = rows[f.id].base]
  <2>1. frame' = [frame EXCEPT ![w] = g] /\ f \in Frame /\ f.id \in DOMAIN rows
    BY <1>5 DEF ReadBase, TInv, TypeOK
  <2>2. g.pc = "add_account" /\ g.id = f.id /\ g.ccy = rows[f.id].base
    BY <2>1 DEF Frame
  <2> HIDE DEF g
  <2>3. rows[f.id].base \in RowToBank(rows[f.id]).supported
    BY <2>1, RowIsABank DEF TInv, TypeOK
  <2>4. AsItWas(g, rows)
    BY <2>1, <2>2, <2>3 DEF AsItWas, HasCopy
  <2> QED BY <1>5, <2>1, <2>4, ReadAlone DEF ReadBase
<1> QED BY <1>e, <1>1, <1>2, <1>3, <1>4, <1>5
(* A step that writes: the same, for what it leaves in the tables. *)
LEMMA WritesAlone ==
  ASSUME TInv, OneByOne, NEW w \in Workers,
         Insert(w) \/ Merge(w) \/ Remove(w) \/ Purge(w) \/ AddAccount(w)
  PROVE  OneByOne'
<1> SUFFICES ASSUME ~overlapped PROVE OneByOne'
  BY DEF OneByOne, Insert, Merge, Remove, Purge, AddAccount
<1> DEFINE f == frame[w]
<1>0. /\ \A x \in Busy : x = w
      /\ AsItWas(f, rows) /\ f \in Frame /\ FrameOK(f, issued, respelt)
  BY DEF OneByOne, Busy, Insert, Merge, Remove, Purge, AddAccount, TInv, TypeOK, FramesOK
<1>a. /\ deleted \intersect DOMAIN rows = {}
      /\ \A a \in accounts : a.bank \notin deleted
      /\ \A a \in accounts : a.bank \in DOMAIN rows => a.ccy \in RowToBank(rows[a.bank]).supported
  BY DEF OneByOne
<1>b. /\ DOMAIN rows \subseteq issued /\ deleted \subseteq issued
      /\ \A a \in accounts : a.bank \in issued
      /\ \A id \in DOMAIN rows : rows[id] \in Bank
  BY DEF TInv, TypeOK
<1>e. CASE End(w)
  <2>1. (\A x, y \in Busy : x = y)' /\ (\A x \in Workers : AsItWas(frame[x], rows))'
    BY <1>0, <1>e, TheOneRequest, NothingAsked DEF End
  <2>2. CASE Insert(w)
    <3>1. PICK id \in BankIds \ issued : Put(id, NewBank(frame[w].body))
      BY <2>2 DEF Insert
    <3>2. /\ DOMAIN rows' = DOMAIN rows \union {id}
          /\ \A x \in DOMAIN rows : rows'[x] = rows[x]
      BY <1>b, <3>1 DEF Put
    <3>3. UNCHANGED <<accounts, deleted>>
      BY <2>2 DEF Insert
    <3> QED BY <1>a, <1>b, <2>1, <3>2, <3>3 DEF OneByOne
  <2>3. CASE Merge(w)
    <3> DEFINE n == Changed(f.bank, f.body)
    <3>1. /\ f.id \in DOMAIN rows /\ f.bank = RowToBank(rows[f.id])
          /\ f.bank \in Bank /\ f.body \in Update
      BY <1>0, <2>3, TenancyAssumption DEF Merge, AsItWas, HasCopy, FrameOK
    <3>2. /\ n \in Bank /\ n.supported = f.bank.supported
      BY <3>1, ChangedIsABank
    <3>3. RowToBank(rows[f.id]).supported \subseteq RowToBank(n).supported
      BY <3>1, <3>2, RowIsABank
    <3> HIDE DEF n
    <3>4. /\ DOMAIN rows' = DOMAIN rows
          /\ \A x \in DOMAIN rows : rows'[x] = IF x = f.id THEN n ELSE rows[x]
      BY <2>3, <3>1 DEF Merge, Put, n
    <3>5. UNCHANGED <<accounts, deleted>>
      BY <2>3 DEF Merge
    <3>6. \A a \in accounts : a.bank \in DOMAIN rows' => a.ccy \in RowToBank(rows'[a.bank]).supported
      <4> TAKE a \in accounts
      <4> HAVE a.bank \in DOMAIN rows'
      <4>1. CASE a.bank = f.id
        BY <1>a, <3>3, <3>4, <4>1
      <4>2. CASE a.bank # f.id
        BY <1>a, <3>4, <4>2
      <4> QED BY <4>1, <4>2
    <3> QED BY <1>a, <2>1, <3>4, <3>5, <3>6 DEF OneByOne
  <2>4. CASE Purge(w)
    <3>1. f.id \notin DOMAIN rows
      BY <1>0, <2>4 DEF Purge, AsItWas
    <3>2. /\ accounts' = {a \in accounts : a.bank # f.id}
          /\ deleted' = deleted \union {f.id} /\ rows' = rows
      BY <2>4 DEF Purge
    <3>3. /\ deleted' \intersect DOMAIN rows' = {}
          /\ \A a \in accounts' : a.bank \notin deleted'
          /\ \A a \in accounts' : a.bank \in DOMAIN rows' => a.ccy \in RowToBank(rows'[a.bank]).supported
      BY <1>a, <3>1, <3>2
    <3> QED BY <2>1, <3>3 DEF OneByOne
  <2>5. CASE AddAccount(w)
    <3>1. f.id \in DOMAIN rows /\ f.ccy \in RowToBank(rows[f.id]).supported
      BY <1>0, <2>5 DEF AddAccount, AsItWas
    <3>2. /\ \A a \in accounts' \ accounts : a.bank = f.id /\ a.ccy = f.ccy
          /\ UNCHANGED <<rows, deleted>>
      BY <2>5 DEF AddAccount
    <3>3. /\ \A a \in accounts' : a.bank \notin deleted
          /\ \A a \in accounts' : a.bank \in DOMAIN rows => a.ccy \in RowToBank(rows[a.bank]).supported
      BY <1>a, <3>1, <3>2
    <3> QED BY <1>a, <2>1, <3>2, <3>3 DEF OneByOne
  <2>6. CASE Remove(w)
    BY <1>e, <2>6 DEF Remove, End, Goto, IdleFrame, TInv, TypeOK
  <2> QED BY <2>2, <2>3, <2>4, <2>5, <2>6
<1>1. CASE Remove(w)
  <2> DEFINE g == [f EXCEPT !.pc = "purge"]
  <2>1. frame' = [frame EXCEPT ![w] = g]
    BY <1>1, GoneOn DEF Remove, TInv, TypeOK
  <2>2. g.pc = "purge" /\ g.id = f.id
    BY <1>0 DEF Frame
  <2> HIDE DEF g
  <2>3. /\ DOMAIN rows' = DOMAIN rows \ {f.id} /\ \A x \in DOMAIN rows' : rows'[x] = rows[x]
        /\ UNCHANGED <<accounts, deleted>>
    BY <1>1 DEF Remove
  <2>4. AsItWas(g, rows')
    BY <2>2, <2>3 DEF AsItWas, HasCopy
  <2>5. (\A x, y \in Busy : x = y)' /\ (\A x \in Workers : AsItWas(frame[x], rows))'
    BY <1>0, <2>1, <2>4, TheOneRequest
  <2> QED BY <1>a, <2>3, <2>5 DEF OneByOne
<1> QED BY <1>e, <1>1 DEF Insert, Merge, Purge, AddAccount

LEMMA NextAlone == TInv /\ OneByOne /\ [Next]_vars => OneByOne'
<1> SUFFICES ASSUME TInv, OneByOne, [Next]_vars PROVE OneByOne'
  OBVIOUS
<1>1. CASE UNCHANGED vars
  BY <1>1 DEF vars, OneByOne, Busy, AsItWas, HasCopy
<1>2. ASSUME NEW w \in Workers, Works(w) PROVE OneByOne'
  BY <1>2, ReadsAlone, WritesAlone DEF Works
<1> QED BY <1>1, <1>2, AcceptsAlone DEF Next, AllServed

(* One request at a time reads what is there.                              *)
THEOREM OneByOneHolds == Spec => [](TInv /\ OneByOne)
<1>1. Init => OneByOne
  <2> SUFFICES ASSUME Init PROVE OneByOne
    OBVIOUS
  <2>1. accounts = {} /\ deleted = {} /\ \A w \in Workers : frame[w] = IdleFrame
    BY DEF Init
  <2>2. Busy = {}
    BY <2>1 DEF Busy, IdleFrame
  <2> QED BY <2>1, <2>2, NothingAsked DEF OneByOne
<1> QED BY <1>1, NextAlone, TypesKept, PTL DEF Spec

(* One request at a time, every account of a bank is in a currency the bank *)
(* supports, and accounts are in upper-case currencies unless an update    *)
(* respelt the base currency of their bank, however requests interleave.   *)
THEOREM AccountsAreSupported == Spec => []AccountsSupported
<1>1. TInv /\ OneByOne => AccountsSupported
  BY DEF TInv, RowsOK, OneByOne, AccountsSupported
<1> QED BY <1>1, OneByOneHolds, PTL

(* An update that no other request met changes nothing it did not supply. *)
THEOREM UpdatesArePartial == Spec => OnlySuppliedChange
<1> DEFINE Kept(w) ==
      LET f == frame[w]
          before == RowToBank(rows[f.id])
          after == RowToBank(rows'[f.id]) IN
      ~overlapped /\ f.pc = "merge" /\ frame'[w].pc = "idle" =>
        /\ f.body.name = None => after.name = before.name
        /\ f.body.base = None => after.base = before.base
        /\ f.body.protocols = None => after.protocols = before.protocols
        /\ f.body.settings = None => after.settings = before.settings
        /\ before.supported \subseteq after.supported
<1>1. TInv /\ OneByOne /\ [Next]_vars => [\A w \in Workers : Kept(w)]_vars
  <2> SUFFICES ASSUME TInv, OneByOne, Next, NEW w \in Workers,
                      ~overlapped, frame[w].pc = "merge", frame'[w].pc = "idle"
               PROVE  Kept(w)
    OBVIOUS
  <2> DEFINE f == frame[w]
             n == Changed(f.bank, f.body)
  <2>1. Merge(w)
    <3>1. ASSUME NEW x \in Workers, Accepts(x) PROVE FALSE
      <4>1. PICK g : Begin(x, g)
        BY <3>1, WhereRequestsBegin
      <4> QED BY <4>1 DEF Begin, TInv, TypeOK
    <3>2. ~AllServed
      BY DEF AllServed
    <3>3. PICK x \in Workers : Works(x)
      BY <3>1, <3>2 DEF Next
    <3>4. frame[x].pc # "idle"
      BY <3>3 DEF Works, Load, CheckNames, Insert, Merge, Find, Remove, Purge,
                  CheckCurrency, ReadBase, AddAccount
    <3>5. x = w
      BY <3>4 DEF OneByOne, Busy
    <3> QED BY <3>3, <3>5 DEF Works, Load, CheckNames, Insert, Find, Remove, Purge,
                              CheckCurrency, ReadBase, AddAccount
  <2>2. f.id \in DOMAIN rows /\ f.bank = RowToBank(rows[f.id]) /\ rows[f.id] \in Bank
    BY DEF OneByOne, AsItWas, HasCopy, TInv, TypeOK
  <2>3. f.bank \in Bank /\ f.body \in Update
    BY TenancyAssumption DEF TInv, FramesOK, FrameOK, HasCopy
  <2>4. rows'[f.id] = n
    BY <2>1 DEF Merge, Put
  <2>5. /\ n \in Bank /\ n.supported = f.bank.supported
        /\ f.body.name = None => n.name = f.bank.name
        /\ f.body.base = None => n.base = f.bank.base
        /\ f.body.protocols = None => n.protocols = f.bank.protocols
        /\ f.body.settings = None => n.settings = f.bank.settings
    BY <2>3, ChangedIsABank
  <2> HIDE DEF n
  <2>6. /\ RowToBank(n).base = n.base /\ RowToBank(n).name = n.name
        /\ n.supported \subseteq RowToBank(n).supported
        /\ RowToBank(n).protocols = n.protocols /\ RowToBank(n).settings = n.settings
    BY <2>5, RowIsABank
  <2> QED BY <2>2, <2>4, <2>5, <2>6
<1> QED BY <1>1, OneByOneHolds, PTL DEF Spec, OnlySuppliedChange
-----------------------------------------------------------------------------
(* Names *)

(* The banks of a name, and the name an update under way will write: that  *)
(* of its body, or the one its copy had.                                   *)
Bearing(n) == {id \in DOMAIN rows : Fold[rows[id].name] = Fold[n]}

Final(f) == IF f.body.name = None THEN f.bank.name ELSE f.body.name

(* The requests that are past the check: those that will write the name to *)
(* a bank there is, the banks they will write it to, and those that will   *)
(* write it to a new one.                                                  *)
Renaming(n) == {w \in Workers : frame[w].pc = "merge" /\ Fold[Final(frame[w])] = Fold[n]}

Targets(n) == {frame[w].id : w \in Renaming(n)}

Creating(n) == {w \in Workers : frame[w].pc = "insert" /\ Fold[frame[w].body.name] = Fold[n]}

Allowed == IF overlapped THEN Cardinality(Workers) ELSE 1

(* The banks that have a name or are about to are no more than allowed.    *)
(* Counting banks is what makes it inductive: two updates about to write   *)
(* the name to one bank count once, and a bank that has it already counts  *)
(* once with the update that will write it again.                          *)
FewOf(n) ==
  /\ IsFiniteSet(Bearing(n))
  /\ Cardinality(Bearing(n) \union Targets(n)) + Cardinality(Creating(n)) <= Allowed

NamesFew == \A n \in Names : FewOf(n)

PastFew ==
  /\ Allowed \in Nat
  /\ \A n \in Names :
       /\ IsFiniteSet(Targets(n)) /\ IsFiniteSet(Creating(n))
       /\ Cardinality(Targets(n)) + Cardinality(Creating(n)) <= Allowed

(* A set has no more images than elements. *)
LEMMA ImagesAreFewer ==
  ASSUME NEW S, IsFiniteSet(S), NEW f
  PROVE  /\ IsFiniteSet({f[x].id : x \in S})
         /\ Cardinality({f[x].id : x \in S}) <= Cardinality(S)
<1> DEFINE T == {f[x].id : x \in S}
           g == [x \in S |-> f[x].id]
<1>1. g \in Surjection(S, T)
  BY DEF Surjection
<1> QED BY <1>1, FS_Surjection

(* The requests past the check are no more than allowed. *)
LEMMA PastTheCheckAreFew ==
  ASSUME IsFiniteSet(Workers), TInv, OneByOne
  PROVE  PastFew
<1>0. Allowed \in Nat
  BY FS_CardinalityType DEF Allowed
<1> SUFFICES ASSUME NEW n
             PROVE  /\ IsFiniteSet(Targets(n)) /\ IsFiniteSet(Creating(n))
                    /\ Cardinality(Targets(n)) + Cardinality(Creating(n)) <= Allowed
  BY <1>0 DEF PastFew
<1> DEFINE R == Renaming(n)
           C == Creating(n)
<1>1. /\ R \in SUBSET Workers /\ C \in SUBSET Workers /\ R \intersect C = {}
      /\ R \union C \in SUBSET Busy /\ Busy \in SUBSET Workers
  BY DEF Renaming, Creating, Busy
<1>2. /\ IsFiniteSet(R) /\ IsFiniteSet(C) /\ IsFiniteSet(Busy)
      /\ Cardinality(Busy) <= Cardinality(Workers)
  BY <1>1, FS_Subset
<1>3. /\ Cardinality(R) \in Nat /\ Cardinality(C) \in Nat /\ Cardinality(Busy) \in Nat
      /\ Cardinality(Workers) \in Nat
  BY <1>2, FS_CardinalityType
<1>4. Targets(n) = {frame[w].id : w \in R}
  BY DEF Targets
<1> HIDE DEF R, C
<1>5. IsFiniteSet(Targets(n)) /\ Cardinality(Targets(n)) <= Cardinality(R)
  BY <1>2, <1>4, ImagesAreFewer
<1>6. Cardinality(R \union C) = Cardinality(R) + Cardinality(C)
  <2>1. Cardinality({}) = 0
    BY FS_EmptySet
  <2>2. Cardinality(R \union C) = Cardinality(R) + Cardinality(C) - Cardinality(R \intersect C)
    BY <1>2, FS_Union
  <2>3. Cardinality(R \intersect C) = 0
    BY <1>1, <2>1
  <2> QED BY <1>3, <2>2, <2>3
<1>7. Cardinality(R \union C) <= Cardinality(Busy)
  BY <1>1, <1>2, FS_Subset
<1>8. ~overlapped => Cardinality(Busy) <= 1
  <2> SUFFICES ASSUME ~overlapped PROVE Cardinality(Busy) <= 1
    OBVIOUS
  <2>1. CASE Busy = {}
    BY <2>1, FS_EmptySet
  <2>2. CASE Busy # {}
    <3>1. PICK w : w \in Busy
      BY <2>2
    <3>2. Busy = {w}
      BY <3>1 DEF OneByOne
    <3> QED BY <3>2, FS_Singleton
  <2> QED BY <2>1, <2>2
<1>9. Cardinality(Targets(n)) \in Nat
  BY <1>5, FS_CardinalityType
<1> QED BY <1>2, <1>3, <1>5, <1>6, <1>7, <1>8, <1>9 DEF Allowed, R, C
(* What shrinks stays within a bound that does not. *)
LEMMA StillFew ==
  ASSUME NEW U, IsFiniteSet(U), NEW V \in SUBSET U, NEW C, IsFiniteSet(C), NEW D \in SUBSET C,
         NEW a \in Nat, NEW b \in Nat, a <= b, Cardinality(U) + Cardinality(C) <= a
  PROVE  IsFiniteSet(V) /\ Cardinality(V) + Cardinality(D) <= b
<1>1. /\ IsFiniteSet(V) /\ IsFiniteSet(D)
      /\ Cardinality(V) <= Cardinality(U) /\ Cardinality(D) <= Cardinality(C)
  BY FS_Subset
<1>2. /\ Cardinality(V) \in Nat /\ Cardinality(D) \in Nat
      /\ Cardinality(U) \in Nat /\ Cardinality(C) \in Nat
  BY <1>1, FS_CardinalityType
<1> QED BY <1>1, <1>2

LEMMA FewerBear ==
  ASSUME PastFew, PastFew', NEW n \in Names, FewOf(n), Allowed <= Allowed',
         (Bearing(n) \union Targets(n))' \subseteq Bearing(n) \union Targets(n),
         Creating(n)' \subseteq Creating(n)
  PROVE  FewOf(n)'
<1> DEFINE U == Bearing(n) \union Targets(n)
           C == Creating(n)
<1>1. IsFiniteSet(U) /\ IsFiniteSet(C) /\ Cardinality(U) + Cardinality(C) <= Allowed
  BY FS_Union DEF FewOf, PastFew
<1>2. Allowed \in Nat /\ Allowed' \in Nat
  BY DEF PastFew
<1>3. U' \in SUBSET U /\ C' \in SUBSET C
  OBVIOUS
<1> HIDE DEF U, C
<1>4. IsFiniteSet(U') /\ Cardinality(U') + Cardinality(C') <= Allowed'
  BY <1>1, <1>2, <1>3, StillFew
<1>5. IsFiniteSet(Bearing(n)')
  BY <1>4, FS_Subset DEF U
<1> QED BY <1>4, <1>5 DEF FewOf, U, C

(* A request that is not past the check, or no longer, writes no name. *)
LEMMA OthersWrite ==
  ASSUME TInv, NEW w \in Workers, NEW g, frame' = [frame EXCEPT ![w] = g],
         g.pc \notin {"merge", "insert"}, NEW n
  PROVE  Targets(n)' \subseteq Targets(n) /\ Creating(n)' \subseteq Creating(n)
<1>1. frame'[w] = g /\ \A x \in Workers \ {w} : frame'[x] = frame[x]
  BY DEF TInv, TypeOK
<1>2. Renaming(n)' \subseteq Renaming(n) \ {w} /\ Creating(n)' \subseteq Creating(n)
  BY <1>1 DEF Renaming, Creating, Final
<1> QED BY <1>1, <1>2 DEF Targets, Renaming

LEMMA NamesWhenBegun ==
  ASSUME IsFiniteSet(Workers), TInv, PastFew, PastFew', NEW n \in Names, FewOf(n),
         NEW w \in Workers, Accepts(w)
  PROVE  FewOf(n)'
<1>1. PICK g : Begin(w, g) /\ g.pc \in {"names", "load", "find", "currency", "base"}
  BY WhereRequestsBegin
<1>2. Targets(n)' \subseteq Targets(n) /\ Creating(n)' \subseteq Creating(n)
  BY <1>1, OthersWrite DEF Begin
<1>3. Bearing(n)' = Bearing(n)
  BY <1>1 DEF Begin, Bearing
<1>4. Cardinality(Workers) \in Nat /\ Cardinality(Workers) # 0
  BY FS_CardinalityType, FS_EmptySet
<1>5. Allowed <= Allowed'
  <2>1. CASE overlapped
    <3>1. overlapped'
      BY <1>1, <2>1 DEF Begin
    <3> QED BY <1>4, <2>1, <3>1 DEF Allowed
  <2>2. CASE ~overlapped
    BY <1>4, <2>2 DEF Allowed
  <2> QED BY <2>1, <2>2
<1> QED BY <1>2, <1>3, <1>5, FewerBear

(* The steps after which no more names are about to be written. *)
LEMMA NamesWhenNothingIsFound ==
  ASSUME TInv, PastFew, PastFew', NEW n \in Names, FewOf(n), NEW w \in Workers,
         \/ Works(w) /\ End(w) /\ rows' = rows
         \/ Find(w) \/ Remove(w) \/ Purge(w) \/ CheckCurrency(w) \/ ReadBase(w) \/ AddAccount(w)
  PROVE  FewOf(n)'
<1> DEFINE f == frame[w]
<1>1. \E g : frame' = [frame EXCEPT ![w] = g] /\ g.pc \notin {"merge", "insert"}
  <2>1. CASE End(w)
    <3>1. frame' = [frame EXCEPT ![w] = IdleFrame] /\ IdleFrame.pc \notin {"merge", "insert"}
      BY <2>1 DEF End, IdleFrame
    <3> QED BY <3>1
  <2>2. ASSUME NEW l \in {"remove", "purge", "add_account"}, Goto(w, l)
        PROVE  \E g : frame' = [frame EXCEPT ![w] = g] /\ g.pc \notin {"merge", "insert"}
    <3> DEFINE g == [f EXCEPT !.pc = l]
    <3>1. f \in Frame
      BY DEF TInv, TypeOK
    <3>2. g.pc = l
      BY <3>1 DEF Frame
    <3> QED BY <2>2, <3>2, GoneOn DEF TInv, TypeOK
  <2>3. CASE ReadBase(w) /\ ~End(w)
    <3> DEFINE g == [f EXCEPT !.pc = "add_account", !.ccy = rows[f.id].base]
    <3>1. f \in Frame
      BY DEF TInv, TypeOK
    <3>2. g.pc = "add_account"
      BY <3>1 DEF Frame
    <3> QED BY <2>3, <3>2 DEF ReadBase, TInv, TypeOK
  <2> QED BY <2>1, <2>2, <2>3 DEF Find, Remove, Purge, CheckCurrency, AddAccount
<1>2. Targets(n)' \subseteq Targets(n) /\ Creating(n)' \subseteq Creating(n)
  BY <1>1, OthersWrite
<1>3. Bearing(n)' \subseteq Bearing(n)
  BY DEF Bearing, Find, Remove, Purge, CheckCurrency, ReadBase, AddAccount
<1>4. Allowed <= Allowed'
  <2>1. overlapped' = overlapped
    BY DEF Works, Load, CheckNames, Insert, Merge, Find, Remove, Purge, CheckCurrency,
           ReadBase, AddAccount
  <2> QED BY <2>1 DEF Allowed, PastFew
<1> QED BY <1>2, <1>3, <1>4, FewerBear
(* An update that changes no name takes on the name its bank has. *)
LEMMA NamesWhenLoaded ==
  ASSUME TInv, PastFew, PastFew', NEW n \in Names, FewOf(n), NEW w \in Workers,
         Load(w), ~End(w)
  PROVE  FewOf(n)'
<1> DEFINE f == frame[w]
           r == RowToBank(rows[f.id])
           l == IF f.body.name = None THEN "merge" ELSE "names"
           g == [f EXCEPT !.bank = r, !.pc = l]
<1>1. f \in Frame /\ f.id \in DOMAIN rows /\ frame' = [frame EXCEPT ![w] = g]
  BY DEF Load, TInv, TypeOK
<1>2. g.pc = l /\ g.bank = r /\ g.body = f.body /\ g.id = f.id
  BY <1>1 DEF Frame
<1>3. r.name = rows[f.id].name
  BY <1>1, RowIsABank DEF TInv, TypeOK
<1> HIDE DEF g
<1>4. frame'[w] = g /\ \A x \in Workers \ {w} : frame'[x] = frame[x]
  BY <1>1 DEF TInv, TypeOK
<1>5. Creating(n)' \subseteq Creating(n)
  BY <1>2, <1>4 DEF Creating
<1>6. Bearing(n)' = Bearing(n)
  BY DEF Load, Bearing
<1>7. (Bearing(n) \union Targets(n))' \subseteq Bearing(n) \union Targets(n)
  <2> SUFFICES ASSUME NEW x \in Renaming(n)' PROVE frame'[x].id \in Bearing(n) \union Targets(n)
    BY <1>6 DEF Targets
  <2>1. CASE x # w
    BY <1>4, <2>1 DEF Targets, Renaming, Final
  <2>2. CASE x = w
    <3>1. Final(g) = r.name /\ Fold[Final(g)] = Fold[n]
      BY <1>2, <1>4, <2>2 DEF Renaming, Final
    <3> QED BY <1>1, <1>2, <1>3, <1>4, <2>2, <3>1 DEF Bearing
  <2> QED BY <2>1, <2>2
<1>8. Allowed <= Allowed'
  BY DEF Load, Allowed, PastFew
<1> QED BY <1>5, <1>7, <1>8, FewerBear

(* A request that finds its name free: no bank has it but its own. *)
LEMMA NamesWhenFree ==
  ASSUME TInv, PastFew, PastFew', NEW n \in Names, FewOf(n), NEW w \in Workers,
         CheckNames(w), ~End(w)
  PROVE  FewOf(n)'
<1> DEFINE f == frame[w]
           l == IF f.op = "create" THEN "insert" ELSE "merge"
           g == [f EXCEPT !.pc = l]
<1>1. f \in Frame /\ FrameOK(f, issued, respelt) /\ f.pc = "names"
  BY DEF CheckNames, TInv, TypeOK, FramesOK
<1>2. /\ ~Taken(f.body.name, DOMAIN rows \ {f.id}) /\ frame' = [frame EXCEPT ![w] = g]
      /\ UNCHANGED <<rows, overlapped>>
  BY GoneOn DEF CheckNames, TInv, TypeOK
<1>3. g.pc = l /\ g.bank = f.bank /\ g.body = f.body /\ g.id = f.id /\ g.op = f.op
  BY <1>1 DEF Frame
<1> HIDE DEF g
<1>4. frame'[w] = g /\ \A x \in Workers \ {w} : frame'[x] = frame[x]
  BY <1>2 DEF TInv, TypeOK
<1>5. f.body.name # None /\ Final(g) = f.body.name
  BY <1>1, <1>3 DEF FrameOK, Final
<1>6. Allowed <= Allowed' /\ Bearing(n)' = Bearing(n)
  BY <1>2 DEF Allowed, Bearing, PastFew
<1>7. CASE Fold[f.body.name] # Fold[n]
  <2>1. Creating(n)' \subseteq Creating(n)
    BY <1>3, <1>4, <1>7 DEF Creating
  <2>2. Renaming(n)' \subseteq Renaming(n) \ {w}
    BY <1>4, <1>5, <1>7 DEF Renaming, Final
  <2>3. Targets(n)' \subseteq Targets(n)
    BY <1>4, <2>2 DEF Targets, Renaming
  <2> QED BY <1>6, <2>1, <2>3, FewerBear
<1>8. CASE Fold[f.body.name] = Fold[n]
  <2>1. \A id \in Bearing(n) : id = f.id
    BY <1>2, <1>8 DEF Taken, Bearing
  <2>2. Bearing(n) \subseteq Targets(n)'
    <3>1. CASE f.op = "create"
      <4>1. f.id \notin DOMAIN rows
        BY <1>1, <3>1, TenancyAssumption DEF FrameOK, TInv, TypeOK
      <4> QED BY <2>1, <4>1 DEF Bearing
    <3>2. CASE f.op # "create"
      <4>1. w \in Renaming(n)'
        BY <1>3, <1>4, <1>5, <1>8, <3>2 DEF Renaming
      <4>2. f.id \in Targets(n)'
        BY <1>3, <1>4, <4>1 DEF Targets
      <4> QED BY <2>1, <4>2
    <3> QED BY <3>1, <3>2
  <2>3. (Bearing(n) \union Targets(n))' = Targets(n)'
    BY <1>6, <2>2
  <2>4. Cardinality((Bearing(n) \union Targets(n))') + Cardinality(Creating(n)') <= Allowed'
    BY <2>3 DEF PastFew
  <2> QED BY <1>6, <2>4 DEF FewOf
<1> QED BY <1>7, <1>8

LEMMA NamesWhenMerged ==
  ASSUME TInv, PastFew, PastFew', NEW n \in Names, FewOf(n), NEW w \in Workers, Merge(w)
  PROVE  FewOf(n)'
<1> DEFINE f == frame[w]
           b == Changed(f.bank, f.body)
<1>1. f.bank \in Bank /\ f.body \in Update /\ f.pc = "merge"
  BY TenancyAssumption DEF Merge, TInv, FramesOK, FrameOK, HasCopy
<1>2. b.name = Final(f)
  BY <1>1, ChangedIsABank DEF Final
<1> HIDE DEF b
<1>3. /\ DOMAIN rows' = DOMAIN rows \union {f.id}
      /\ \A x \in DOMAIN rows' : rows'[x] = IF x = f.id THEN b ELSE rows[x]
  BY DEF Merge, Put, b
<1>4. frame' = [frame EXCEPT ![w] = IdleFrame] /\ IdleFrame.pc \notin {"merge", "insert"}
  BY DEF Merge, End, IdleFrame
<1>5. Targets(n)' \subseteq Targets(n) /\ Creating(n)' \subseteq Creating(n)
  BY <1>4, OthersWrite
<1>6. Bearing(n)' \subseteq Bearing(n) \union Targets(n)
  <2> SUFFICES ASSUME NEW id \in Bearing(n)' PROVE id \in Bearing(n) \union Targets(n)
    OBVIOUS
  <2>0. id \in DOMAIN rows' /\ Fold[rows'[id].name] = Fold[n]
    BY DEF Bearing
  <2>1. CASE id # f.id
    BY <1>3, <2>0, <2>1 DEF Bearing
  <2>2. CASE id = f.id
    <3>1. Fold[Final(f)] = Fold[n]
      BY <1>2, <1>3, <2>0, <2>2
    <3> QED BY <1>1, <2>2, <3>1 DEF Targets, Renaming
  <2> QED BY <2>1, <2>2
<1>7. Allowed <= Allowed'
  BY DEF Merge, Allowed, PastFew
<1> QED BY <1>5, <1>6, <1>7, FewerBear

LEMMA NamesWhenInserted ==
  ASSUME TInv, PastFew, PastFew', NEW n \in Names, FewOf(n), NEW w \in Workers, Insert(w)
  PROVE  FewOf(n)'
<1> DEFINE f == frame[w]
           b == NewBank(f.body)
<1>1. f.body \in Creation /\ f.body.name # None /\ f.pc = "insert"
  <2>1. f.pc = "insert" /\ f.body \in Creation
    BY TenancyAssumption DEF Insert, TInv, FramesOK, FrameOK
  <2> QED BY <2>1, TenancyAssumption DEF Creation
<1>2. b.name = f.body.name
  BY <1>1, NewIsABank
<1> HIDE DEF b
<1>3. PICK id \in BankIds \ issued : Put(id, b)
  BY DEF Insert, b
<1>4. /\ DOMAIN rows' = DOMAIN rows \union {id} /\ rows'[id] = b
      /\ \A x \in DOMAIN rows : rows'[x] = rows[x]
  BY <1>3 DEF Put, TInv, TypeOK
<1>5. frame' = [frame EXCEPT ![w] = IdleFrame] /\ IdleFrame.pc \notin {"merge", "insert"}
  BY DEF Insert, End, IdleFrame
<1>6. Targets(n)' \subseteq Targets(n) /\ Creating(n)' \subseteq Creating(n)
  BY <1>5, OthersWrite
<1>7. Allowed <= Allowed' /\ Allowed \in Nat /\ Allowed' \in Nat
  BY DEF Insert, Allowed, PastFew
<1>8. CASE Fold[f.body.name] # Fold[n]
  <2>1. Bearing(n)' \subseteq Bearing(n)
    BY <1>2, <1>4, <1>8 DEF Bearing
  <2> QED BY <1>6, <1>7, <2>1, FewerBear
<1>9. CASE Fold[f.body.name] = Fold[n]
  <2> DEFINE U == Bearing(n) \union Targets(n)
             C == Creating(n)
  <2>1. Bearing(n)' = Bearing(n) \union {id}
    BY <1>2, <1>4, <1>9 DEF Bearing
  <2>2. U' \in SUBSET (U \union {id})
    BY <1>6, <2>1
  <2>3. w \in C /\ C' \in SUBSET (C \ {w})
    <3>1. w \notin Creating(n)'
      BY <1>5 DEF Creating, TInv, TypeOK
    <3> QED BY <1>1, <1>6, <1>9, <3>1 DEF Creating
  <2>4. IsFiniteSet(U) /\ IsFiniteSet(C) /\ Cardinality(U) + Cardinality(C) <= Allowed
    BY FS_Union DEF FewOf, PastFew
  <2> HIDE DEF U, C
  <2>5. /\ IsFiniteSet(U \union {id})
        /\ Cardinality(U \union {id}) <= Cardinality(U) + 1
    <3>1. IsFiniteSet(U \union {id})
          /\ Cardinality(U \union {id}) = IF id \in U THEN Cardinality(U) ELSE Cardinality(U) + 1
      BY <2>4, FS_AddElement
    <3>2. Cardinality(U) \in Nat
      BY <2>4, FS_CardinalityType
    <3> QED BY <3>1, <3>2
  <2>6. /\ IsFiniteSet(C \ {w}) /\ Cardinality(C \ {w}) = Cardinality(C) - 1
    <3>1. IsFiniteSet(C \ {w})
          /\ Cardinality(C \ {w}) = IF w \in C THEN Cardinality(C) - 1 ELSE Cardinality(C)
      BY <2>4, FS_RemoveElement
    <3> QED BY <2>3, <3>1
  <2>7. Cardinality(U \union {id}) + Cardinality(C \ {w}) <= Allowed
    <3>1. /\ Cardinality(U) \in Nat /\ Cardinality(C) \in Nat
          /\ Cardinality(U \union {id}) \in Nat /\ Cardinality(C \ {w}) \in Nat
      BY <2>4, <2>5, <2>6, FS_CardinalityType
    <3> QED BY <1>7, <2>4, <2>5, <2>6, <3>1
  <2>8. IsFiniteSet(U') /\ Cardinality(U') + Cardinality(C') <= Allowed'
    <3> DEFINE V == U'
               D == C'
               a == Allowed
               b2 == Allowed'
    <3> HIDE DEF V, D, a, b2
    <3>1. /\ V \in SUBSET (U \union {id}) /\ D \in SUBSET (C \ {w}) /\ a \in Nat /\ b2 \in Nat /\ a <= b2
          /\ Cardinality(U \union {id}) + Cardinality(C \ {w}) <= a
      BY <1>7, <2>2, <2>3, <2>7 DEF V, D, a, b2
    <3>2. IsFiniteSet(V) /\ Cardinality(V) + Cardinality(D) <= b2
      BY <2>5, <2>6, <3>1, StillFew
    <3> QED BY <3>2 DEF V, D, b2
  <2>9. IsFiniteSet(Bearing(n)')
    BY <2>8, FS_Subset DEF U
  <2> QED BY <2>8, <2>9 DEF FewOf, U, C
<1> QED BY <1>8, <1>9
LEMMA NextNames ==
  ASSUME IsFiniteSet(Workers), TInv, PastFew, PastFew', NamesFew, [Next]_vars
  PROVE  NamesFew'
<1> SUFFICES ASSUME NEW n \in Names PROVE FewOf(n)'
  BY DEF NamesFew
<1>0. FewOf(n)
  BY DEF NamesFew
<1>1. CASE UNCHANGED vars
  BY <1>0, <1>1 DEF vars, FewOf, Bearing, Targets, Renaming, Creating, Final, Allowed
<1>2. ASSUME NEW w \in Workers, Works(w) PROVE FewOf(n)'
  <2>1. CASE End(w) /\ rows' = rows
    BY <1>0, <1>2, <2>1, NamesWhenNothingIsFound
  <2>2. CASE Insert(w) \/ Merge(w)
    BY <1>0, <2>2, NamesWhenInserted, NamesWhenMerged
  <2>3. CASE Load(w) \/ CheckNames(w)
    <3>1. rows' = rows
      BY <2>3 DEF Load, CheckNames
    <3> QED BY <1>0, <2>1, <2>3, <3>1, NamesWhenLoaded, NamesWhenFree
  <2>4. CASE Find(w) \/ Remove(w) \/ Purge(w) \/ CheckCurrency(w) \/ ReadBase(w) \/ AddAccount(w)
    BY <1>0, <2>4, NamesWhenNothingIsFound
  <2> QED BY <1>2, <2>2, <2>3, <2>4 DEF Works
<1> QED BY <1>0, <1>1, <1>2, NamesWhenBegun DEF Next, AllServed

(* No two banks have one display name as long as requests come one at a    *)
(* time; and requests at once make at most one bank of a name for each     *)
(* worker there is, whatever is created, renamed and deleted meanwhile.    *)
THEOREM NamesStayDistinct ==
  ASSUME IsFiniteSet(Workers) PROVE Spec => []NamesDistinct
<1>1. Init => NamesFew
  <2> SUFFICES ASSUME Init, NEW n \in Names PROVE FewOf(n)
    BY DEF NamesFew
  <2>1. Bearing(n) = {} /\ Renaming(n) = {} /\ Creating(n) = {} /\ Allowed = 1
    BY DEF Init, Bearing, Renaming, Creating, Allowed, IdleFrame
  <2>2. Bearing(n) \union Targets(n) = {}
    BY <2>1 DEF Targets
  <2> QED BY <2>1, <2>2, FS_EmptySet DEF FewOf
<1>2. TInv /\ OneByOne => PastFew
  BY PastTheCheckAreFew
<1>3. TInv /\ PastFew /\ PastFew' /\ NamesFew /\ [Next]_vars => NamesFew'
  BY NextNames
<1>4. PastFew /\ NamesFew => NamesDistinct
  <2> SUFFICES ASSUME PastFew, NamesFew, NEW n \in Names
               PROVE  Cardinality(Bearing(n)) <= Allowed
    BY DEF NamesDistinct, Bearing, Allowed
  <2> DEFINE U == Bearing(n) \union Targets(n)
             C == Creating(n)
  <2>1. /\ IsFiniteSet(U) /\ IsFiniteSet(C) /\ Cardinality(U) + Cardinality(C) <= Allowed
        /\ Bearing(n) \in SUBSET U /\ Allowed \in Nat
    BY FS_Union DEF NamesFew, FewOf, PastFew
  <2> HIDE DEF U, C
  <2>2. Cardinality(Bearing(n)) <= Cardinality(U) /\ IsFiniteSet(Bearing(n))
    BY <2>1, FS_Subset
  <2>3. /\ Cardinality(Bearing(n)) \in Nat /\ Cardinality(U) \in Nat /\ Cardinality(C) \in Nat
    BY <2>1, <2>2, FS_CardinalityType
  <2> QED BY <2>1, <2>2, <2>3
<1> QED BY <1>1, <1>2, <1>3, <1>4, OneByOneHolds, PTL DEF Spec

-----------------------------------------------------------------------------
(* What a deletion leaves *)

(* The requests whose rows a bank has accounts of. *)
LeftOf(id) == {a.by : a \in {x \in accounts : x.bank = id}}

Adding(id) == {w \in Workers : frame[w].pc = "add_account" /\ frame[w].id = id}

(* A bank that is gone is being purged, or the requests that opened its    *)
(* accounts and those about to are fewer than the workers: nobody finds it *)
(* any more, and the worker that purged it last was opening none.          *)
LeftFew(id) ==
  id \in deleted \ DOMAIN rows =>
    \/ \E w \in Workers : frame[w].pc = "purge" /\ frame[w].id = id
    \/ /\ IsFiniteSet(LeftOf(id))
       /\ Cardinality(LeftOf(id)) + Cardinality(Adding(id)) < Cardinality(Workers)

(* A step of a request that purges nothing here and opens no account here. *)
LEMMA NoMoreLeft ==
  ASSUME IsFiniteSet(Workers), TInv, NEW id, LeftFew(id), NEW w \in Workers,
         NEW g, frame' = [frame EXCEPT ![w] = g],
         g.pc # "add_account" \/ g.id # id,
         frame[w].pc # "purge" \/ frame[w].id # id,
         id \notin DOMAIN rows' => id \notin DOMAIN rows,
         id \in deleted' => id \in deleted,
         LeftOf(id)' = LeftOf(id)
  PROVE  LeftFew(id)'
<1>1. frame'[w] = g /\ \A x \in Workers \ {w} : frame'[x] = frame[x]
  BY DEF TInv, TypeOK
<1> SUFFICES ASSUME id \in deleted', id \notin DOMAIN rows'
             PROVE  \/ \E x \in Workers : frame'[x].pc = "purge" /\ frame'[x].id = id
                    \/ /\ IsFiniteSet(LeftOf(id)')
                       /\ Cardinality(LeftOf(id)') + Cardinality(Adding(id)') < Cardinality(Workers)
  BY DEF LeftFew
<1>2. CASE \E x \in Workers : frame[x].pc = "purge" /\ frame[x].id = id
  BY <1>1, <1>2
<1>3. CASE ~\E x \in Workers : frame[x].pc = "purge" /\ frame[x].id = id
  <2> DEFINE A == Adding(id)
             B == Adding(id)'
  <2>1. A \in SUBSET Workers /\ B \in SUBSET A
    BY <1>1 DEF Adding
  <2> HIDE DEF A, B
  <2>2. IsFiniteSet(A) /\ IsFiniteSet(B) /\ Cardinality(B) <= Cardinality(A)
    BY <2>1, FS_Subset
  <2>3. IsFiniteSet(LeftOf(id)) /\ Cardinality(LeftOf(id)) + Cardinality(A) < Cardinality(Workers)
    BY <1>3 DEF LeftFew, A
  <2>4. /\ Cardinality(A) \in Nat /\ Cardinality(B) \in Nat /\ Cardinality(LeftOf(id)) \in Nat
        /\ Cardinality(Workers) \in Nat
    BY <2>2, <2>3, FS_CardinalityType
  <2>5. Cardinality(LeftOf(id)) + Cardinality(B) < Cardinality(Workers)
    BY <2>2, <2>3, <2>4
  <2> QED BY <2>3, <2>5 DEF B
<1> QED BY <1>2, <1>3

LEMMA LeftWhenPurged ==
  ASSUME IsFiniteSet(Workers), TInv, NEW id, NEW w \in Workers, Purge(w), frame[w].id = id
  PROVE  LeftFew(id)'
<1>1. LeftOf(id)' = {}
  BY DEF Purge, LeftOf
<1> DEFINE A == Adding(id)'
<1>2. A \in SUBSET (Workers \ {w})
  BY DEF Adding, Purge, End, IdleFrame, TInv, TypeOK
<1> HIDE DEF A
<1>3. /\ IsFiniteSet(Workers \ {w}) /\ Cardinality(Workers \ {w}) = Cardinality(Workers) - 1
  <2>1. /\ IsFiniteSet(Workers \ {w})
        /\ Cardinality(Workers \ {w}) = IF w \in Workers THEN Cardinality(Workers) - 1
                                        ELSE Cardinality(Workers)
    BY FS_RemoveElement
  <2> QED BY <2>1
<1>4. IsFiniteSet(A) /\ Cardinality(A) <= Cardinality(Workers \ {w})
  BY <1>2, <1>3, FS_Subset
<1>5. Cardinality(A) \in Nat /\ Cardinality(Workers) \in Nat
  BY <1>4, FS_CardinalityType
<1>6. IsFiniteSet(LeftOf(id)') /\ Cardinality(LeftOf(id)') = 0
  BY <1>1, FS_EmptySet
<1>7. Cardinality(LeftOf(id)') + Cardinality(A) < Cardinality(Workers)
  BY <1>3, <1>4, <1>5, <1>6
<1> QED BY <1>6, <1>7 DEF LeftFew, A

LEMMA LeftWhenAdded ==
  ASSUME IsFiniteSet(Workers), TInv, NEW id, LeftFew(id),
         NEW w \in Workers, AddAccount(w), frame[w].id = id
  PROVE  LeftFew(id)'
<1> DEFINE a == frame[w].by
           L == LeftOf(id)
           A == Adding(id)
           M == LeftOf(id)'
<1>1. M \in SUBSET (L \union {a})
  <2>1. \A x \in accounts' \ accounts : x.by = a
    BY DEF AddAccount
  <2> QED BY <2>1 DEF LeftOf
<1>2. w \in A /\ Adding(id)' = A \ {w}
  BY DEF AddAccount, End, IdleFrame, Adding, TInv, TypeOK
<1>3. A \in SUBSET Workers
  BY DEF Adding
<1> SUFFICES ASSUME id \in deleted', id \notin DOMAIN rows',
                    ~\E x \in Workers : frame'[x].pc = "purge" /\ frame'[x].id = id
             PROVE  /\ IsFiniteSet(LeftOf(id)')
                    /\ Cardinality(LeftOf(id)') + Cardinality(Adding(id)') < Cardinality(Workers)
  BY DEF LeftFew
<1>4. UNCHANGED <<rows, deleted>> /\ frame[w].pc = "add_account"
      /\ \A x \in Workers \ {w} : frame'[x] = frame[x]
  BY DEF AddAccount, End, TInv, TypeOK
<1>5. IsFiniteSet(L) /\ Cardinality(L) + Cardinality(A) < Cardinality(Workers)
  BY <1>4 DEF LeftFew
<1> HIDE DEF L, A, M, a
<1>6. IsFiniteSet(A) /\ Cardinality(A \ {w}) = Cardinality(A) - 1 /\ IsFiniteSet(A \ {w})
  <2>1. IsFiniteSet(A)
    BY <1>3, FS_Subset
  <2>2. /\ IsFiniteSet(A \ {w})
        /\ Cardinality(A \ {w}) = IF w \in A THEN Cardinality(A) - 1 ELSE Cardinality(A)
    BY <2>1, FS_RemoveElement
  <2> QED BY <1>2, <2>1, <2>2
<1>7. /\ IsFiniteSet(L \union {a})
      /\ Cardinality(L \union {a}) = IF a \in L THEN Cardinality(L) ELSE Cardinality(L) + 1
  BY <1>5, FS_AddElement
<1>b. IsFiniteSet(M) /\ Cardinality(M) <= Cardinality(L \union {a})
  BY <1>1, <1>7, FS_Subset
<1>8. /\ Cardinality(L) \in Nat /\ Cardinality(A) \in Nat /\ Cardinality(Workers) \in Nat
      /\ Cardinality(M) \in Nat
  BY <1>5, <1>6, <1>b, FS_CardinalityType
<1>9. Cardinality(M) + Cardinality(A \ {w}) < Cardinality(Workers)
  BY <1>5, <1>6, <1>7, <1>b, <1>8
<1> QED BY <1>2, <1>b, <1>9 DEF M
(* Where a step of a request leads: to the opening of an account only from *)
(* a bank that is there.                                                   *)
LEMMA WhereRequestsGo ==
  ASSUME TInv, NEW w \in Workers, Works(w)
  PROVE  \E g : /\ frame' = [frame EXCEPT ![w] = g]
                /\ g.pc = "add_account" =>
                     g.id = frame[w].id /\ g.id \in DOMAIN rows /\ rows' = rows
                /\ Remove(w) => g.pc = "purge" /\ g.id = frame[w].id
<1> DEFINE f == frame[w]
           Led(g) == /\ frame' = [frame EXCEPT ![w] = g]
                     /\ g.pc = "add_account" =>
                          g.id = f.id /\ g.id \in DOMAIN rows /\ rows' = rows
                     /\ Remove(w) => g.pc = "purge" /\ g.id = f.id
<1>0. f \in Frame /\ frame \in [Workers -> Frame]
  BY DEF TInv, TypeOK
<1>1. CASE ~Remove(w) /\ End(w)
  <2>1. Led(IdleFrame)
    BY <1>1 DEF End, IdleFrame
  <2> QED BY <2>1
<1>2. CASE Load(w) /\ ~End(w)
  <2> DEFINE g == [f EXCEPT !.bank = RowToBank(rows[f.id]),
                            !.pc = IF f.body.name = None THEN "merge" ELSE "names"]
  <2>1. frame' = [frame EXCEPT ![w] = g] /\ ~Remove(w)
    BY <1>2 DEF Load, Remove
  <2>2. g.pc # "add_account"
    BY <1>0 DEF Frame
  <2>3. Led(g)
    BY <2>1, <2>2
  <2> QED BY <2>3
<1>3. CASE (CheckNames(w) \/ Find(w)) /\ ~End(w)
  <2>1. PICK l \in {"insert", "merge", "remove"} : Goto(w, l)
    BY <1>3 DEF CheckNames, Find
  <2> DEFINE g == [f EXCEPT !.pc = l]
  <2>2. g.pc = l
    BY <1>0 DEF Frame
  <2>3. Led(g)
    BY <1>0, <1>3, <2>1, <2>2, GoneOn DEF Remove, CheckNames, Find
  <2> QED BY <2>3
<1>4. CASE Remove(w)
  <2> DEFINE g == [f EXCEPT !.pc = "purge"]
  <2>1. g.pc = "purge" /\ g.id = f.id
    BY <1>0 DEF Frame
  <2>2. Led(g)
    BY <1>0, <1>4, <2>1, GoneOn DEF Remove
  <2> QED BY <2>2
<1>5. CASE CheckCurrency(w) /\ ~End(w)
  <2> DEFINE g == [f EXCEPT !.pc = "add_account"]
  <2>1. g.id = f.id /\ Goto(w, "add_account") /\ f.id \in DOMAIN rows /\ rows' = rows
    BY <1>0, <1>5 DEF Frame, CheckCurrency
  <2>2. Led(g)
    BY <1>0, <1>5, <2>1, GoneOn DEF Remove, CheckCurrency
  <2> QED BY <2>2
<1>6. CASE ReadBase(w) /\ ~End(w)
  <2> DEFINE g == [f EXCEPT !.pc = "add_account", !.ccy = rows[f.id].base]
  <2>1. g.id = f.id /\ f.id \in DOMAIN rows /\ rows' = rows /\ frame' = [frame EXCEPT ![w] = g]
    BY <1>0, <1>6 DEF Frame, ReadBase
  <2>2. Led(g)
    BY <1>6, <2>1 DEF Remove, ReadBase
  <2> QED BY <2>2
<1>7. CASE Insert(w) \/ Merge(w) \/ Purge(w) \/ AddAccount(w)
  BY <1>1, <1>7 DEF Insert, Merge, Purge, AddAccount, Remove
<1> QED BY <1>1, <1>2, <1>3, <1>4, <1>5, <1>6, <1>7 DEF Works, Load, CheckNames, Find,
           CheckCurrency, ReadBase, Remove

LEMMA NextLeft ==
  ASSUME IsFiniteSet(Workers), TInv, NEW id, LeftFew(id), [Next]_vars
  PROVE  LeftFew(id)'
<1>1. CASE UNCHANGED vars
  BY <1>1 DEF vars, LeftFew, LeftOf, Adding
<1>2. ASSUME NEW w \in Workers, Accepts(w) PROVE LeftFew(id)'
  <2>1. PICK g : Begin(w, g) /\ g.pc \in {"names", "load", "find", "currency", "base"}
    BY <1>2, WhereRequestsBegin
  <2>2. LeftOf(id)' = LeftOf(id)
    BY <2>1 DEF Begin, LeftOf
  <2> QED BY <2>1, <2>2, NoMoreLeft DEF Begin
<1>3. ASSUME NEW w \in Workers, Works(w) PROVE LeftFew(id)'
  <2>1. CASE Purge(w) /\ frame[w].id = id
    BY <2>1, LeftWhenPurged
  <2>2. CASE AddAccount(w) /\ frame[w].id = id
    BY <2>2, LeftWhenAdded
  <2>3. PICK g : /\ frame' = [frame EXCEPT ![w] = g]
                 /\ g.pc = "add_account" =>
                      g.id = frame[w].id /\ g.id \in DOMAIN rows /\ rows' = rows
                 /\ Remove(w) => g.pc = "purge" /\ g.id = frame[w].id
    BY <1>3, WhereRequestsGo
  <2>4. CASE Remove(w) /\ frame[w].id = id
    <3>1. frame'[w].pc = "purge" /\ frame'[w].id = id
      BY <2>3, <2>4 DEF TInv, TypeOK
    <3> QED BY <3>1 DEF LeftFew
  <2>5. CASE g.pc = "add_account" /\ g.id = id
    BY <2>3, <2>5 DEF LeftFew
  <2>6. CASE /\ ~(frame[w].id = id /\ (Purge(w) \/ AddAccount(w) \/ Remove(w)))
             /\ ~(g.pc = "add_account" /\ g.id = id)
    <3>1. LeftOf(id)' = LeftOf(id)
      BY <1>3, <2>6 DEF LeftOf, Works, Load, CheckNames, Insert, Merge, Find, Remove, Purge,
                        CheckCurrency, ReadBase, AddAccount
    <3>2. id \in deleted' => id \in deleted
      BY <1>3, <2>6 DEF Works, Load, CheckNames, Insert, Merge, Find, Remove, Purge,
                        CheckCurrency, ReadBase, AddAccount
    <3>3. id \notin DOMAIN rows' => id \notin DOMAIN rows
      BY <1>3, <2>6 DEF Works, Load, CheckNames, Insert, Merge, Find, Remove, Purge,
                        CheckCurrency, ReadBase, AddAccount, Put
    <3>4. frame[w].pc # "purge" \/ frame[w].id # id
      BY <1>3, <2>6 DEF Works, Load, CheckNames, Insert, Merge, Find, Remove, Purge,
                        CheckCurrency, ReadBase, AddAccount
    <3> QED BY <2>3, <2>6, <3>1, <3>2, <3>3, <3>4, NoMoreLeft
  <2> QED BY <2>1, <2>2, <2>4, <2>5, <2>6
<1> QED BY <1>1, <1>2, <1>3 DEF Next, AllServed

(* One request at a time, a deleted bank does not come back and leaves no  *)
(* accounts.  At once, a bank that is gone once all requests have ended    *)
(* leaves the accounts of fewer requests than there are workers, however   *)
(* many rows a batch inserts, and however often updates have brought the   *)
(* bank back and deletions removed it again.                               *)
THEOREM DeletionsLeaveLittle ==
  ASSUME IsFiniteSet(Workers) PROVE Spec => []DeletedLeaveNothing
<1> DEFINE AllFew == \A id \in BankIds : LeftFew(id)
<1>1. Init => AllFew
  BY DEF Init, LeftFew
<1>2. TInv /\ AllFew /\ [Next]_vars => AllFew'
  BY NextLeft
<1>3. TInv /\ OneByOne /\ AllFew => DeletedLeaveNothing
  <2> SUFFICES ASSUME TInv, OneByOne, AllFew, AtRest, NEW id \in deleted \ DOMAIN rows
               PROVE  Cardinality(LeftOf(id)) < Cardinality(Workers)
    BY DEF DeletedLeaveNothing, LeftOf, OneByOne
  <2>1. /\ IsFiniteSet(LeftOf(id))
        /\ Cardinality(LeftOf(id)) + Cardinality(Adding(id)) < Cardinality(Workers)
    BY DEF LeftFew, AtRest, TInv, TypeOK
  <2>2. Adding(id) = {}
    BY DEF Adding, AtRest
  <2>3. Cardinality(Adding(id)) = 0
    BY <2>2, FS_EmptySet
  <2>4. Cardinality(LeftOf(id)) \in Nat
    BY <2>1, FS_CardinalityType
  <2> QED BY <2>1, <2>3, <2>4
<1> HIDE DEF AllFew
<1> QED BY <1>1, <1>2, <1>3, OneByOneHolds, TypesKept, PTL DEF Spec

=============================================================================
