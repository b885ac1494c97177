-------------------------- MODULE SettlementProofs --------------------------
(***************************************************************************)
(* Payments and settlement for any number of payments, workers, restarts   *)
(* and purges: types, how often a payment's money is taken, what its       *)
(* status says of the money, the promise to its debtor, by how much an     *)
(* account is overdrawn, and what the suspense accounts hold.              *)
(***************************************************************************)
EXTENDS Settlement, CoreBankingProofs

Ops == SettlementOps \union {"none"}

Frames == Frame(Ops, SettlementLabels)

(* The labels of a request that settles a payment. *)
AuthoriseLabels ==
  {"resolve_engine", "ensure", "open_internal", "transfer", "funds", "post", "return"}

(* What a frame says of its request, given the payments K there are.       *)
RequestOK(f, K) ==
  /\ f.pc = "resolve_engine" =>
       f.op = "authorise" /\ f.ccy \in Currencies /\ f.payer \in AccountIds
  /\ f.pc = "idle" <=> f.op = "none"
  /\ f.op = "authorise" => f.ref \in K /\ f.pc \in AuthoriseLabels
  /\ f.op = "cycle" => f.ref = None

StoreOK ==
  /\ Stored \subseteq PaymentIds
  /\ DOMAIN forgotten \subseteq PaymentIds \ Stored
  /\ IsFiniteSet(Known)
  /\ \A p \in Known : PaymentOf(p) \in Payment /\ PaymentOf(p).bank \in issued

Cycles == [suspense : SUBSET AccountIds, swept : BOOLEAN, size : Nat, promote : SUBSET PaymentIds]

RestOK ==
  /\ purging \subseteq SUBSET Known
  /\ overlapped \subseteq Banks
  /\ engine \in [Banks -> Engines]
  /\ cycle \in [Workers -> Cycles]
  /\ \A w \in Workers : cycle[w].promote \subseteq Known

(* The inductive invariant of the types. *)
TInv ==
  /\ DbInv /\ FiniteDb
  /\ frame \in [Workers -> Frames]
  /\ \A w \in Workers : /\ CoreFrameOK(frame[w], banks, issued, accounts)
                        /\ RequestOK(frame[w], Known)
  /\ StoreOK
  /\ RestOK

-----------------------------------------------------------------------------

LEMMA LabelsAndOps ==
  CoreLabels \subseteq SettlementLabels /\ "authorise" \in Ops /\ "cycle" \in Ops /\ "none" \in Ops
BY DEF SettlementLabels, Ops, SettlementOps

LEMMA IdleFrameOK ==
  ASSUME NEW bs, NEW is, NEW as, NEW K
  PROVE  IdleFrame \in Frames /\ CoreFrameOK(IdleFrame, bs, is, as) /\ RequestOK(IdleFrame, K)
<1>1. IdleFrame \in Frames
  BY DEF IdleFrame, Frames, Frame, Ops, SettlementLabels, CoreLabels, Sides, Kinds, Results
<1>2. IdleFrame.pc = "idle" /\ IdleFrame.op = "none"
  BY DEF IdleFrame
<1> QED BY <1>1, <1>2 DEF CoreFrameOK, RequestOK

LEMMA NoCycleType == NoCycle \in Cycles /\ NoCycle.promote = {}
BY DEF NoCycle, Cycles

LEMMA FrameHolds ==
  ASSUME TInv, NEW w \in Workers
  PROVE  /\ frame[w] \in Frames /\ frame[w] \in Frame(Ops, SettlementLabels)
         /\ CoreFrameOK(frame[w], banks, issued, accounts)
         /\ RequestOK(frame[w], Known)
BY DEF TInv, Frames

(* What one worker's frame says no other worker's step takes away.         *)
LEMMA FramesKept ==
  ASSUME TInv, DbInv', FiniteDb', DbStep, Known \subseteq Known', StoreOK', RestOK',
         NEW w \in Workers, NEW f \in Frames, frame' = [frame EXCEPT ![w] = f],
         CoreFrameOK(f, banks', issued', accounts'), RequestOK(f, Known')
  PROVE  TInv'
<1>1. frame' \in [Workers -> Frames]
  BY DEF TInv
<1>2. ASSUME NEW v \in Workers
      PROVE  CoreFrameOK(frame'[v], banks', issued', accounts') /\ RequestOK(frame'[v], Known')
  <2>1. CASE v = w
    BY <2>1 DEF TInv
  <2>2. CASE v # w
    <3>1. frame'[v] = frame[v]
      BY <2>2 DEF TInv
    <3>2. CoreFrameOK(frame[v], banks', issued', accounts')
      BY FrameHolds, DbStepKeepsFrame
    <3>3. RequestOK(frame[v], Known')
      BY FrameHolds DEF RequestOK
    <3> QED BY <3>1, <3>2, <3>3
  <2> QED BY <2>1, <2>2
<1> QED BY <1>1, <1>2 DEF TInv

(* The store as it was. *)
LEMMA StoreSame ==
  ASSUME UNCHANGED <<payments, forgotten>>
  PROVE  /\ Stored' = Stored /\ Known' = Known
         /\ \A p \in Known : PaymentOf(p)' = PaymentOf(p)
BY DEF Stored, Known, PaymentOf

(* The same payments, some of them elsewhere, or with another status.      *)
LEMMA StoreKept ==
  ASSUME StoreOK, issued \subseteq issued', Known' = Known,
         DOMAIN forgotten' \intersect Stored' = {},
         \A p \in Known : PaymentOf(p)' \in Payment /\ PaymentOf(p)'.bank = PaymentOf(p).bank
  PROVE  StoreOK'
<1>1. Stored' \subseteq Known' /\ DOMAIN forgotten' \subseteq Known'
  BY DEF Known
<1>2. Known \subseteq PaymentIds
  BY DEF StoreOK, Known
<1> QED BY <1>1, <1>2 DEF StoreOK

(* Nothing but the frame of one worker moves. *)
LEMMA FrameMoves ==
  ASSUME TInv, UNCHANGED tables, UNCHANGED <<payments, forgotten>>, RestOK',
         NEW w \in Workers, NEW f \in Frames, frame' = [frame EXCEPT ![w] = f],
         CoreFrameOK(f, banks, issued, accounts), RequestOK(f, Known)
  PROVE  TInv'
<1>1. DbInv' /\ DbStep /\ FiniteDb'
  BY TablesUnchanged DEF TInv, FiniteDb, tables
<1>2. Known' = Known /\ StoreOK'
  BY StoreSame DEF TInv, StoreOK, tables
<1>3. CoreFrameOK(f, banks', issued', accounts')
  BY DEF tables
<1> QED BY <1>1, <1>2, <1>3, FramesKept

(* Neither a row nor a frame moves. *)
LEMMA StoreMoves ==
  ASSUME TInv, UNCHANGED tables, UNCHANGED frame, Known \subseteq Known', StoreOK', RestOK'
  PROVE  TInv'
<1>1. DbInv' /\ FiniteDb'
  BY TablesUnchanged DEF TInv, FiniteDb, tables
<1>2. \A v \in Workers : CoreFrameOK(frame[v], banks', issued', accounts')
  BY FrameHolds DEF tables
<1>3. \A v \in Workers : RequestOK(frame[v], Known')
  BY FrameHolds DEF RequestOK
<1> QED BY <1>1, <1>2, <1>3 DEF TInv

-----------------------------------------------------------------------------
(* What each write does to the payments there are. *)

(* save *)
LEMMA SaveShape ==
  ASSUME NEW w, NEW p \in Known, NEW x, Save(w, p, x)
  PROVE  /\ Stored' = Stored \union {p} /\ Known' = Known
         /\ DOMAIN forgotten' \intersect Stored' \in SUBSET (DOMAIN forgotten \intersect Stored)
         /\ PaymentOf(p)' = x
         /\ \A q \in Known : q # p => PaymentOf(q)' = PaymentOf(q)
<1>1. /\ Stored' = Stored \union {p} /\ DOMAIN forgotten' = DOMAIN forgotten \ {p}
      /\ payments'[p] = x
      /\ \A q \in Stored : q # p => payments'[q] = payments[q]
      /\ \A q \in DOMAIN forgotten : q # p => forgotten'[q] = forgotten[q]
  BY DEF Save, Stored
<1> QED BY <1>1 DEF Known, PaymentOf

(* An assignment to a field of a payment the store has.                    *)
LEMMA AssignShape ==
  ASSUME NEW p \in Stored, NEW x, payments' = [payments EXCEPT ![p] = x], UNCHANGED forgotten
  PROVE  /\ Stored' = Stored /\ Known' = Known
         /\ PaymentOf(p)' = x
         /\ \A q \in Known : q # p => PaymentOf(q)' = PaymentOf(q)
<1>1. /\ Stored' = Stored /\ payments'[p] = x
      /\ \A q \in Stored : q # p => payments'[q] = payments[q]
  BY DEF Stored
<1> QED BY <1>1 DEF Known, PaymentOf

(* A restart and a purge lose payments, and change none.                   *)
LEMMA RestartShape ==
  ASSUME Restart
  PROVE  /\ Stored' = {} /\ Known' = Known
         /\ \A q \in Known : PaymentOf(q)' = PaymentOf(q)
<1>1. /\ Stored' = {} /\ DOMAIN forgotten' = Known
      /\ \A q \in Known : forgotten'[q] = PaymentOf(q)
  BY DEF Restart, Stored, Known, PaymentOf
<1> QED BY <1>1 DEF Known, PaymentOf

LEMMA PurgeShape ==
  ASSUME NEW kept \in SUBSET Known, payments' = [p \in kept |-> PaymentOf(p)],
         forgotten' = [p \in Known \ kept |-> PaymentOf(p)]
  PROVE  /\ Stored' = kept /\ Known' = Known
         /\ DOMAIN forgotten' \intersect Stored' = {}
         /\ \A q \in Known : PaymentOf(q)' = PaymentOf(q)
<1>1. /\ Stored' = kept /\ DOMAIN forgotten' = Known \ kept
      /\ \A q \in kept : payments'[q] = PaymentOf(q)
      /\ \A q \in Known \ kept : forgotten'[q] = PaymentOf(q)
  BY DEF Stored
<1> QED BY <1>1 DEF Known, PaymentOf

(* initiate_payment: the least id that was never used.                     *)
LEMMA InitiateShape ==
  ASSUME TInv, NEW w, InitiatePayment(w)
  PROVE  \E p \in PaymentIds \ Known, a \in accounts, m \in Amounts :
           /\ ~IsInternal(a)
           /\ Stored' = Stored \union {p} /\ Known' = Known \union {p}
           /\ PaymentOf(p)' = [bank |-> a.bank, debtor |-> a.id, ccy |-> a.ccy, amount |-> m,
                               status |-> "RCVD", entry |-> 0, sca |-> FALSE, completions |-> 0]
           /\ \A q \in Known : PaymentOf(q)' = PaymentOf(q)
<1> DEFINE least == Min(NewIds)
           New(a, m) == [bank |-> a.bank, debtor |-> a.id, ccy |-> a.ccy, amount |-> m,
                         status |-> "RCVD", entry |-> 0, sca |-> FALSE, completions |-> 0]
<1>1. PICK p \in PaymentIds \ Known : p = least
  <2>1. NewIds \in SUBSET Nat /\ NewIds # {}
    BY SettlementAssumption DEF NewIds, InitiatePayment
  <2>2. \E n \in NewIds : \A k \in NewIds : n <= k
    BY <2>1, LeastNatural
  <2>3. least \in NewIds
    BY <2>2 DEF Min
  <2> HIDE DEF least
  <2> QED BY <2>3 DEF NewIds, Known
<1>2. PICK a \in accounts, m \in Amounts :
        /\ ~IsInternal(a)
        /\ payments' = [q \in Stored \union {p} |-> IF q = p THEN New(a, m) ELSE payments[q]]
  BY <1>1 DEF InitiatePayment
<1> DEFINE x == New(a, m)
<1>3. /\ Stored' = Stored \union {p} /\ payments'[p] = x
      /\ \A q \in Stored : q # p => payments'[q] = payments[q]
      /\ UNCHANGED forgotten
  BY <1>2 DEF Stored, InitiatePayment, history
<1>4. Known' = Known \union {p} /\ PaymentOf(p)' = x /\ \A q \in Known : PaymentOf(q)' = PaymentOf(q)
  <2> HIDE DEF x
  <2> QED BY <1>1, <1>3 DEF Known, PaymentOf
<1> QED BY <1>1, <1>2, <1>3, <1>4

(* What the debtor instructed, which nothing changes. *)
SameInstruction(x, y) ==
  y.bank = x.bank /\ y.debtor = x.debtor /\ y.ccy = x.ccy /\ y.amount = x.amount

OthersSame(p) == \A q \in Known : q # p => PaymentOf(q)' = PaymentOf(q)

AllSame == \A q \in Known : PaymentOf(q)' = PaymentOf(q)

LEMMA StartShape ==
  ASSUME TInv, NEW w, StartAuthorisation(w)
  PROVE  \E p \in Stored :
           /\ Stored' = Stored /\ Known' = Known /\ OthersSame(p)
           /\ PaymentOf(p)' \in Payment /\ SameInstruction(PaymentOf(p), PaymentOf(p)')
           /\ PaymentOf(p)'.status = StatusOf(p) /\ PaymentOf(p)'.entry = PaymentOf(p).entry
           /\ PaymentOf(p)'.completions = PaymentOf(p).completions
<1>1. PICK p \in Stored : payments' = [payments EXCEPT ![p].sca = TRUE]
  BY DEF StartAuthorisation
<1> DEFINE x == PaymentOf(p)
           y == [x EXCEPT !.sca = TRUE]
<1>2. x \in Payment /\ x = payments[p]
  BY DEF TInv, StoreOK, Known, PaymentOf
<1>3. payments' = [payments EXCEPT ![p] = y]
  BY <1>1, <1>2
<1>4. /\ y \in Payment /\ SameInstruction(x, y) /\ y.status = x.status /\ y.entry = x.entry
      /\ y.completions = x.completions
  BY <1>2 DEF Payment, SameInstruction
<1>5. UNCHANGED forgotten
  BY DEF StartAuthorisation, history
<1> HIDE DEF y
<1>6. Stored' = Stored /\ Known' = Known /\ PaymentOf(p)' = y /\ OthersSame(p)
  BY <1>3, <1>5, AssignShape DEF OthersSame
<1> QED BY <1>4, <1>6 DEF StatusOf

LEMMA BeginAuthoriseShape ==
  ASSUME TInv, NEW w \in Workers, BeginAuthorise(w)
  PROVE  \E p \in Stored, g \in Frames :
           /\ Stored' = Stored /\ Known' = Known /\ OthersSame(p)
           /\ PaymentOf(p)' \in Payment /\ SameInstruction(PaymentOf(p), PaymentOf(p)')
           /\ PaymentOf(p)'.status = StatusOf(p) /\ PaymentOf(p)'.entry = PaymentOf(p).entry
           /\ PaymentOf(p).completions < MaxAuthorisations
           /\ PaymentOf(p)'.completions = PaymentOf(p).completions + 1
           /\ frame' = [frame EXCEPT ![w] = g]
           /\ g.op = "authorise" /\ g.pc = "resolve_engine" /\ g.ref = p /\ g.entry = 0
           /\ ~g.overdraft /\ g.bank = PaymentOf(p).bank /\ g.payer = PaymentOf(p).debtor
           /\ g.ccy = PaymentOf(p).ccy /\ g.amount = PaymentOf(p).amount
<1>1. PICK p \in Stored :
        /\ payments[p].completions < MaxAuthorisations
        /\ payments' = [payments EXCEPT ![p].completions = @ + 1]
        /\ frame' = [frame EXCEPT ![w] =
             [IdleFrame EXCEPT !.op = "authorise", !.pc = "resolve_engine",
                !.bank = payments[p].bank, !.ref = p, !.payer = payments[p].debtor,
                !.ccy = payments[p].ccy, !.amount = payments[p].amount]]
  BY DEF BeginAuthorise, Begin
<1> DEFINE x == PaymentOf(p)
           y == [x EXCEPT !.completions = x.completions + 1]
           g == [IdleFrame EXCEPT !.op = "authorise", !.pc = "resolve_engine",
                   !.bank = x.bank, !.ref = p, !.payer = x.debtor,
                   !.ccy = x.ccy, !.amount = x.amount]
<1>2. x \in Payment /\ x = payments[p] /\ p \in PaymentIds
  BY DEF TInv, StoreOK, Known, PaymentOf
<1>3. payments' = [payments EXCEPT ![p] = y] /\ frame' = [frame EXCEPT ![w] = g]
  BY <1>1, <1>2
<1>4. /\ y \in Payment /\ SameInstruction(x, y) /\ y.status = x.status /\ y.entry = x.entry
      /\ y.completions = x.completions + 1
  BY <1>2 DEF Payment, SameInstruction
<1>5. /\ g.op = "authorise" /\ g.pc = "resolve_engine" /\ g.ref = p /\ g.entry = 0
      /\ ~g.overdraft /\ g.bank = x.bank /\ g.payer = x.debtor /\ g.ccy = x.ccy /\ g.amount = x.amount
  BY DEF IdleFrame
<1>6. g \in Frames
  <2>1. x.bank \in Banks /\ x.debtor \in AccountIds /\ x.ccy \in Currencies /\ x.amount \in Int
    BY <1>2 DEF Payment
  <2>2. IdleFrame \in Frames /\ "authorise" \in Ops /\ "resolve_engine" \in SettlementLabels
    BY IdleFrameOK, LabelsAndOps DEF SettlementLabels
  <2> HIDE DEF x
  <2> QED BY <1>2, <2>1, <2>2 DEF Frames, Frame, PaymentIds
<1>7. UNCHANGED forgotten
  BY DEF BeginAuthorise
<1> HIDE DEF y, g
<1>8. Stored' = Stored /\ Known' = Known /\ PaymentOf(p)' = y /\ OthersSame(p)
  BY <1>3, <1>7, AssignShape DEF OthersSame
<1> QED BY <1>1, <1>2, <1>3, <1>4, <1>5, <1>6, <1>8 DEF StatusOf

LEMMA RecordShape ==
  ASSUME TInv, NEW w \in Workers, RecordOutcome(w)
  PROVE  \E p \in Known :
           /\ p = frame[w].ref /\ frame' = [frame EXCEPT ![w] = IdleFrame]
           /\ Known' = Known /\ DOMAIN forgotten' \intersect Stored' = {}
           /\ \/ frame[w].result \notin {"ok", "insufficient"} /\ AllSame /\ Stored' = Stored
              \/ /\ Stored' = Stored \union {p} /\ OthersSame(p)
                 /\ PaymentOf(p)' \in Payment /\ SameInstruction(PaymentOf(p), PaymentOf(p)')
                 /\ PaymentOf(p)'.completions = PaymentOf(p).completions
                 /\ \/ /\ frame[w].result = "ok" /\ PaymentOf(p)'.status \in {"ACTC", "ACSC"}
                       /\ PaymentOf(p)'.entry = frame[w].entry
                    \/ /\ frame[w].result = "insufficient" /\ PaymentOf(p)'.status = "RJCT"
                       /\ PaymentOf(p)'.entry = PaymentOf(p).entry
<1>1. PICK p \in Known : p = frame[w].ref
  BY FrameHolds DEF RecordOutcome, RequestOK
<1>2. frame' = [frame EXCEPT ![w] = IdleFrame] /\ DOMAIN forgotten \intersect Stored = {}
  BY DEF RecordOutcome, Begin, TInv, StoreOK
<1>3. CASE frame[w].result \notin {"ok", "insufficient"}
  <2>1. UNCHANGED <<payments, forgotten>>
    BY <1>3 DEF RecordOutcome, history
  <2>2. DOMAIN forgotten' \intersect Stored' = {}
    BY <1>2, <2>1, StoreSame
  <2> QED BY <1>1, <1>2, <1>3, <2>1, <2>2, StoreSame DEF AllSame
<1>4. CASE frame[w].result \in {"ok", "insufficient"}
  <2> DEFINE x == PaymentOf(p)
             st == SettleResult(frame[w])
             n == IF frame[w].result = "ok" THEN frame[w].entry ELSE x.entry
             y == [x EXCEPT !.status = st, !.entry = n]
  <2>1. Save(w, p, y)
    BY <1>1, <1>4 DEF RecordOutcome
  <2>2. x \in Payment /\ frame[w].entry \in Nat
    BY FrameHolds DEF TInv, StoreOK, Frame
  <2>3. n \in Nat /\ (frame[w].result = "ok" => n = frame[w].entry)
         /\ (frame[w].result # "ok" => n = x.entry)
    BY <2>2 DEF Payment
  <2>4. /\ st \in Statuses
        /\ frame[w].result = "ok" => st \in {"ACTC", "ACSC"}
        /\ frame[w].result = "insufficient" => st = "RJCT"
    BY DEF SettleResult, Statuses
  <2> HIDE DEF st, n
  <2>5. /\ y \in Payment /\ SameInstruction(x, y) /\ y.status = st /\ y.entry = n
        /\ y.completions = x.completions
    BY <2>2, <2>3, <2>4 DEF Payment, SameInstruction
  <2> HIDE DEF y
  <2>6. /\ Stored' = Stored \union {p} /\ Known' = Known
        /\ DOMAIN forgotten' \intersect Stored' = {}
        /\ PaymentOf(p)' = y /\ OthersSame(p)
    BY <1>2, <2>1, SaveShape DEF OthersSame
  <2> QED BY <1>1, <1>2, <1>4, <2>3, <2>4, <2>5, <2>6
<1> QED BY <1>3, <1>4

(* The payment that was found is saved as it is. *)
LEMMA ResolveSaves ==
  ASSUME TInv, NEW w \in Workers, ResolveEngine(w)
  PROVE  \E p \in Known :
           /\ p = frame[w].ref /\ frame[w].op = "authorise" /\ Save(w, p, PaymentOf(p))
           /\ Known' = Known /\ DOMAIN forgotten' \intersect Stored' = {}
           /\ Stored' = Stored \union {p} /\ AllSame
           /\ UNCHANGED tables /\ UNCHANGED <<engine, cycle, purging, disruptions>>
<1>1. PICK p \in Known : p = frame[w].ref /\ frame[w].op = "authorise"
  BY FrameHolds DEF ResolveEngine, RequestOK
<1>2. Save(w, p, PaymentOf(p)) /\ DOMAIN forgotten \intersect Stored = {}
  BY <1>1 DEF ResolveEngine, TInv, StoreOK
<1>3. /\ Stored' = Stored \union {p} /\ Known' = Known
      /\ DOMAIN forgotten' \intersect Stored' = {} /\ AllSame
  BY <1>2, SaveShape DEF AllSame
<1> QED BY <1>1, <1>2, <1>3 DEF ResolveEngine, tables, faults

LEMMA PromoteShape ==
  ASSUME TInv, NEW w \in Workers, Promote(w)
  PROVE  \E p \in Known :
           /\ cycle' = [cycle EXCEPT ![w].promote = @ \ {p}]
           /\ Known' = Known /\ DOMAIN forgotten' \intersect Stored' = {}
           /\ \/ AllSame /\ Stored' = Stored
              \/ /\ Stored' = Stored \union {p} /\ OthersSame(p)
                 /\ PaymentOf(p)' \in Payment /\ SameInstruction(PaymentOf(p), PaymentOf(p)')
                 /\ StatusOf(p) = "ACTC" /\ PaymentOf(p)'.status = "ACSC"
                 /\ PaymentOf(p)'.entry = PaymentOf(p).entry
                 /\ PaymentOf(p)'.completions = PaymentOf(p).completions
<1>1. PICK p \in cycle[w].promote :
        /\ IF StatusOf(p) = "ACTC"
           THEN Save(w, p, [PaymentOf(p) EXCEPT !.status = "ACSC"])
           ELSE UNCHANGED <<payments, forgotten>>
        /\ cycle' = [cycle EXCEPT ![w].promote = @ \ {p}]
  BY DEF Promote, history
<1>2. p \in Known /\ DOMAIN forgotten \intersect Stored = {}
  BY DEF TInv, RestOK, StoreOK
<1>3. CASE StatusOf(p) # "ACTC"
  <2>1. UNCHANGED <<payments, forgotten>>
    BY <1>1, <1>3
  <2>2. DOMAIN forgotten' \intersect Stored' = {}
    BY <1>2, <2>1, StoreSame
  <2> QED BY <1>1, <1>2, <2>1, <2>2, StoreSame DEF AllSame
<1>4. CASE StatusOf(p) = "ACTC"
  <2> DEFINE x == PaymentOf(p)
             y == [x EXCEPT !.status = "ACSC"]
  <2>1. Save(w, p, y) /\ x \in Payment
    BY <1>1, <1>2, <1>4 DEF TInv, StoreOK
  <2>2. /\ y \in Payment /\ SameInstruction(x, y) /\ y.status = "ACSC" /\ y.entry = x.entry
        /\ y.completions = x.completions
    BY <2>1 DEF Payment, SameInstruction, Statuses
  <2> HIDE DEF y
  <2>3. /\ Stored' = Stored \union {p} /\ Known' = Known
        /\ DOMAIN forgotten' \intersect Stored' = {}
        /\ PaymentOf(p)' = y /\ OthersSame(p)
    BY <1>2, <2>1, SaveShape DEF OthersSame
  <2> QED BY <1>1, <1>2, <1>4, <2>2, <2>3
<1> QED BY <1>3, <1>4

-----------------------------------------------------------------------------
(* The types are kept, action by action. *)

LEMMA RestSame ==
  ASSUME RestOK, Known \subseteq Known', UNCHANGED <<purging, engine, cycle>>,
         overlapped' \subseteq Banks
  PROVE  RestOK'
BY DEF RestOK

LEMMA RestCycle ==
  ASSUME RestOK, Known \subseteq Known', UNCHANGED <<purging, engine>>,
         overlapped' \subseteq Banks,
         NEW w \in Workers, NEW c \in Cycles, c.promote \subseteq Known',
         cycle' = [cycle EXCEPT ![w] = c]
  PROVE  RestOK'
BY DEF RestOK

LEMMA MeetsType ==
  ASSUME RestOK, NEW w, NEW ops, NEW bs \in SUBSET Banks, Meets(w, ops, bs)
  PROVE  overlapped' \subseteq Banks
BY DEF RestOK, Meets

LEMMA SaveType ==
  ASSUME RestOK, NEW w, NEW p, NEW x, Save(w, p, x)
  PROVE  overlapped' \subseteq Banks
BY MeetsType DEF RestOK, Save

(* The frame of a cycle that goes on. *)
CycleLabels == {"cycle_engine", "sweep", "list_payments", "listing", "promote"}

LEMMA CycleGoes ==
  ASSUME TInv, NEW w \in Workers,
         frame[w].pc \in CycleLabels \/ (frame[w].pc = "return" /\ frame[w].op = "cycle"),
         NEW l \in CycleLabels, Goto(w, l)
  PROVE  \E g \in Frames : /\ frame' = [frame EXCEPT ![w] = g]
                           /\ CoreFrameOK(g, banks, issued, accounts) /\ RequestOK(g, Known)
<1> DEFINE g == [frame[w] EXCEPT !.pc = l]
<1>1. frame' = [frame EXCEPT ![w] = g]
  BY DEF Goto
<1>2. frame[w].op = "cycle" /\ frame[w].pc # "idle"
  <2>1. frame[w].op \in Ops
    BY FrameHolds DEF Frame
  <2> QED BY <2>1, FrameHolds DEF RequestOK, Ops, SettlementOps, CycleLabels, AuthoriseLabels
<1>3. l \in SettlementLabels
  BY DEF CycleLabels, SettlementLabels
<1>4. /\ g \in Frames /\ g.pc = l /\ g.bank = frame[w].bank /\ g.op = frame[w].op
      /\ g.ref = frame[w].ref
  BY <1>3, FrameHolds DEF Frames, Frame
<1> HIDE DEF g
<1>5. CoreFrameOK(g, banks, issued, accounts)
  BY <1>2, <1>4, FrameHolds DEF CoreFrameOK, CycleLabels
<1>6. RequestOK(g, Known)
  BY <1>2, <1>4, FrameHolds DEF RequestOK, CycleLabels
<1> QED BY <1>1, <1>4, <1>5, <1>6

LEMMA CoreStepTyped ==
  ASSUME TInv, NEW w \in Workers, CoreStep(w), UNCHANGED payVars PROVE TInv'
<1>1. frame \in [Workers -> Frame(Ops, SettlementLabels)]
  BY DEF TInv, Frames
<1>2. Advances(w, Ops, SettlementLabels) /\ DbInv' /\ DbStep
  BY <1>1, FrameHolds, LabelsAndOps, CoreStepAdvances DEF TInv
<1>3. PICK f \in Frame(Ops, SettlementLabels) :
        /\ frame' = [frame EXCEPT ![w] = f]
        /\ CoreFrameOK(f, banks', issued', accounts')
        /\ f.pc \in CoreLabels \union {"book_external"}
  BY <1>2 DEF Advances
<1>4. SameRequest(frame[w], f) /\ Leads(frame[w], f)
  <2>1. frame'[w] = f
    BY <1>1, <1>3
  <2> QED BY <1>1, <2>1, CoreStepLeads
<1>5. f.pc # "idle" /\ frame[w].pc # "idle" /\ f.pc \in SettlementLabels
  BY <1>3, <1>4, FrameHolds
     DEF Leads, EnsureLeads, OpenLeads, FailLeads, FundsLeads, BookLeads, CheckLeads, AddLeads,
         CoreFrameOK, Continuations, Frame
<1>6. UNCHANGED <<payments, forgotten>> /\ UNCHANGED <<purging, engine, cycle, overlapped>>
  BY DEF payVars
<1>7. Known' = Known /\ StoreOK'
  BY <1>2, <1>6, StoreSame DEF TInv, StoreOK, DbStep
<1>8. RequestOK(f, Known')
  BY <1>3, <1>4, <1>5, <1>7, FrameHolds
     DEF RequestOK, SameRequest, CoreLabels, AuthoriseLabels, SettlementLabels
<1>9. RestOK' /\ FiniteDb'
  BY <1>6, <1>7, RestSame, CoreStepKeepsFinite DEF TInv, RestOK
<1> QED BY <1>2, <1>3, <1>7, <1>8, <1>9, FramesKept DEF Frames

LEMMA InitiateTyped ==
  ASSUME TInv, NEW w \in Workers, InitiatePayment(w) PROVE TInv'
<1>1. PICK p \in PaymentIds \ Known, a \in accounts, m \in Amounts :
        /\ Stored' = Stored \union {p} /\ Known' = Known \union {p}
        /\ PaymentOf(p)' = [bank |-> a.bank, debtor |-> a.id, ccy |-> a.ccy, amount |-> m,
                            status |-> "RCVD", entry |-> 0, sca |-> FALSE, completions |-> 0]
        /\ \A q \in Known : PaymentOf(q)' = PaymentOf(q)
  BY InitiateShape
<1>2. /\ UNCHANGED tables /\ UNCHANGED frame
      /\ UNCHANGED <<purging, engine, cycle, forgotten>> /\ Meets(w, {"cycle"}, Banks)
  BY DEF InitiatePayment, faults
<1>3. PaymentOf(p)' \in Payment /\ PaymentOf(p)'.bank \in issued'
  <2>1. /\ a.bank \in Banks /\ a.id \in AccountIds /\ a.ccy \in Currencies
        /\ a.bank \in issued /\ m \in Nat \ {0} /\ issued' = issued
    BY <1>2, SettlementAssumption DEF TInv, DbInv, DbTypeOK, DbKeys, Account, tables
  <2> QED BY <1>1, <2>1 DEF Payment, Statuses
<1>4. StoreOK'
  <2>1. IsFiniteSet(Known')
    BY <1>1, FS_AddElement DEF TInv, StoreOK
  <2>2. Stored' \subseteq PaymentIds /\ DOMAIN forgotten' \subseteq PaymentIds \ Stored'
    BY <1>1, <1>2 DEF TInv, StoreOK, Known
  <2>3. \A q \in Known' : PaymentOf(q)' \in Payment /\ PaymentOf(q)'.bank \in issued'
    BY <1>1, <1>2, <1>3 DEF TInv, StoreOK, tables
  <2> QED BY <2>1, <2>2, <2>3 DEF StoreOK
<1>5. RestOK'
  BY <1>1, <1>2, RestSame, MeetsType DEF TInv
<1> QED BY <1>1, <1>2, <1>4, <1>5, StoreMoves

LEMMA StartTyped ==
  ASSUME TInv, NEW w \in Workers, StartAuthorisation(w) PROVE TInv'
<1>1. PICK p \in Stored :
        /\ Stored' = Stored /\ Known' = Known /\ OthersSame(p)
        /\ PaymentOf(p)' \in Payment /\ SameInstruction(PaymentOf(p), PaymentOf(p)')
  BY StartShape
<1>2. /\ UNCHANGED tables /\ UNCHANGED frame
      /\ UNCHANGED <<purging, engine, cycle, forgotten, overlapped>>
  BY DEF StartAuthorisation, faults, history
<1>3. StoreOK'
  <2>1. DOMAIN forgotten' \intersect Stored' = {} /\ issued' = issued
    BY <1>1, <1>2 DEF TInv, StoreOK, tables
  <2>2. \A q \in Known : PaymentOf(q)' \in Payment /\ PaymentOf(q)'.bank = PaymentOf(q).bank
    BY <1>1 DEF OthersSame, SameInstruction, TInv, StoreOK
  <2> QED BY <1>1, <2>1, <2>2, StoreKept DEF TInv
<1>4. RestOK'
  BY <1>1, <1>2, RestSame DEF TInv, RestOK
<1> QED BY <1>1, <1>2, <1>3, <1>4, StoreMoves

LEMMA ReconfigureTyped ==
  ASSUME TInv, NEW w \in Workers, Reconfigure(w) PROVE TInv'
<1>1. /\ UNCHANGED tables /\ UNCHANGED frame /\ UNCHANGED <<payments, forgotten>>
      /\ UNCHANGED <<purging, cycle, overlapped>>
      /\ \E b \in banks, e \in Engines : engine' = [engine EXCEPT ![b] = e]
  BY DEF Reconfigure, faults, history
<1>2. Known' = Known /\ StoreOK'
  BY <1>1, StoreSame DEF TInv, StoreOK, tables
<1>3. engine' \in [Banks -> Engines]
  BY <1>1 DEF TInv, RestOK
<1>4. RestOK'
  BY <1>1, <1>2, <1>3 DEF TInv, RestOK
<1> QED BY <1>1, <1>2, <1>4, StoreMoves

LEMMA BeginAuthoriseTyped ==
  ASSUME TInv, NEW w \in Workers, BeginAuthorise(w) PROVE TInv'
<1>1. PICK p \in Stored, g \in Frames :
        /\ Stored' = Stored /\ Known' = Known /\ OthersSame(p)
        /\ PaymentOf(p)' \in Payment /\ SameInstruction(PaymentOf(p), PaymentOf(p)')
        /\ frame' = [frame EXCEPT ![w] = g]
        /\ g.op = "authorise" /\ g.pc = "resolve_engine" /\ g.ref = p
        /\ g.bank = PaymentOf(p).bank /\ g.payer = PaymentOf(p).debtor
        /\ g.ccy = PaymentOf(p).ccy
  BY BeginAuthoriseShape
<1>2. /\ UNCHANGED tables /\ UNCHANGED <<purging, engine, cycle, forgotten>>
      /\ \E q \in Stored : Meets(w, {"cycle"}, {payments[q].bank})
  BY DEF BeginAuthorise, faults
<1>3. StoreOK'
  <2>1. DOMAIN forgotten' \intersect Stored' = {} /\ issued' = issued
    BY <1>1, <1>2 DEF TInv, StoreOK, tables
  <2>2. \A q \in Known : PaymentOf(q)' \in Payment /\ PaymentOf(q)'.bank = PaymentOf(q).bank
    BY <1>1 DEF OthersSame, SameInstruction, TInv, StoreOK
  <2> QED BY <1>1, <2>1, <2>2, StoreKept DEF TInv
<1>4. RestOK'
  <2>1. PICK q \in Stored : Meets(w, {"cycle"}, {payments[q].bank})
    BY <1>2
  <2>2. {payments[q].bank} \in SUBSET Banks
    <3>1. PaymentOf(q) = payments[q] /\ PaymentOf(q) \in Payment
      BY DEF PaymentOf, TInv, StoreOK, Known
    <3> QED BY <3>1 DEF Payment
  <2>3. overlapped' \subseteq Banks
    BY <2>1, <2>2, MeetsType DEF TInv
  <2> QED BY <1>1, <1>2, <2>3, RestSame DEF TInv
<1>5. CoreFrameOK(g, banks', issued', accounts') /\ RequestOK(g, Known')
  <2>1. /\ PaymentOf(p) \in Payment /\ PaymentOf(p).bank \in issued /\ issued' = issued
        /\ p \in Known
    BY <1>2 DEF TInv, StoreOK, Known, tables
  <2>2. /\ g.bank \in Banks /\ g.bank \in issued' /\ g.payer \in AccountIds
        /\ g.ccy \in Currencies
    BY <1>1, <2>1 DEF Payment
  <2> QED BY <1>1, <2>1, <2>2 DEF CoreFrameOK, RequestOK, AuthoriseLabels
<1>6. DbInv' /\ DbStep /\ FiniteDb'
  BY <1>2, TablesUnchanged DEF TInv, FiniteDb, tables
<1> QED BY <1>1, <1>3, <1>4, <1>5, <1>6, FramesKept

LEMMA RecordTyped ==
  ASSUME TInv, NEW w \in Workers, RecordOutcome(w) PROVE TInv'
<1>1. PICK p \in Known :
        /\ frame' = [frame EXCEPT ![w] = IdleFrame]
        /\ Known' = Known /\ DOMAIN forgotten' \intersect Stored' = {}
        /\ \/ AllSame
           \/ /\ OthersSame(p)
              /\ PaymentOf(p)' \in Payment /\ SameInstruction(PaymentOf(p), PaymentOf(p)')
  BY RecordShape
<1>2. /\ UNCHANGED tables /\ UNCHANGED <<purging, engine, cycle>>
      /\ overlapped' \subseteq Banks
  BY SaveType DEF RecordOutcome, faults, history, TInv, RestOK
<1>3. StoreOK'
  <2>1. \A q \in Known : PaymentOf(q)' \in Payment /\ PaymentOf(q)'.bank = PaymentOf(q).bank
    BY <1>1 DEF AllSame, OthersSame, SameInstruction, TInv, StoreOK
  <2>2. issued' = issued
    BY <1>2 DEF tables
  <2> QED BY <1>1, <2>1, <2>2, StoreKept DEF TInv
<1>4. RestOK'
  BY <1>1, <1>2, RestSame DEF TInv
<1>5. DbInv' /\ DbStep /\ FiniteDb'
  BY <1>2, TablesUnchanged DEF TInv, FiniteDb, tables
<1> QED BY <1>1, <1>3, <1>4, <1>5, IdleFrameOK, FramesKept

LEMMA PromoteTyped ==
  ASSUME TInv, NEW w \in Workers, Promote(w) PROVE TInv'
<1>1. PICK p \in Known :
        /\ cycle' = [cycle EXCEPT ![w].promote = @ \ {p}]
        /\ Known' = Known /\ DOMAIN forgotten' \intersect Stored' = {}
        /\ \/ AllSame
           \/ /\ OthersSame(p)
              /\ PaymentOf(p)' \in Payment /\ SameInstruction(PaymentOf(p), PaymentOf(p)')
  BY PromoteShape
<1>2. /\ UNCHANGED tables /\ UNCHANGED frame /\ UNCHANGED <<purging, engine>>
      /\ overlapped' \subseteq Banks
  BY SaveType DEF Promote, faults, history, TInv, RestOK
<1>3. StoreOK'
  <2>1. \A q \in Known : PaymentOf(q)' \in Payment /\ PaymentOf(q)'.bank = PaymentOf(q).bank
    BY <1>1 DEF AllSame, OthersSame, SameInstruction, TInv, StoreOK
  <2>2. issued' = issued
    BY <1>2 DEF tables
  <2> QED BY <1>1, <2>1, <2>2, StoreKept DEF TInv
<1>4. RestOK'
  <2> DEFINE c == [cycle[w] EXCEPT !.promote = cycle[w].promote \ {p}]
  <2>1. cycle' = [cycle EXCEPT ![w] = c]
    BY <1>1
  <2>2. cycle[w] \in Cycles /\ cycle[w].promote \subseteq Known
    BY DEF TInv, RestOK
  <2>3. c \in Cycles /\ c.promote \subseteq Known
    BY <2>2 DEF Cycles
  <2> HIDE DEF c
  <2> QED BY <1>1, <1>2, <2>1, <2>3, RestCycle DEF TInv
<1> QED BY <1>1, <1>2, <1>3, <1>4, StoreMoves

LEMMA ResolveTyped ==
  ASSUME TInv, NEW w \in Workers, ResolveEngine(w) PROVE TInv'
<1> DEFINE k == Counterparty[engine[frame[w].bank]]
           g == [frame[w] EXCEPT !.pc = "ensure", !.then = "transfer", !.kind = k]
<1>1. /\ frame[w].pc = "resolve_engine" /\ frame' = [frame EXCEPT ![w] = g]
      /\ UNCHANGED tables /\ UNCHANGED <<purging, engine, cycle>>
      /\ Known' = Known /\ DOMAIN forgotten' \intersect Stored' = {} /\ AllSame
      /\ overlapped' \subseteq Banks
  BY ResolveSaves, SaveType DEF ResolveEngine, TInv
<1>2. k \in Kinds
  <2>1. frame[w].bank \in Banks
    BY <1>1, FrameHolds DEF CoreFrameOK
  <2>2. engine[frame[w].bank] \in Engines
    BY <2>1 DEF TInv, RestOK
  <2> QED BY <2>2 DEF Engines, Counterparty, Kinds, InternalKinds
<1> HIDE DEF k
<1>3. /\ g \in Frames /\ g.pc = "ensure" /\ g.then = "transfer" /\ g.bank = frame[w].bank
      /\ g.ccy = frame[w].ccy /\ g.payer = frame[w].payer /\ g.op = frame[w].op
      /\ g.ref = frame[w].ref
  BY <1>2, FrameHolds DEF Frames, Frame, SettlementLabels, CoreLabels
<1> HIDE DEF g
<1>4. CoreFrameOK(g, banks, issued, accounts)
  BY <1>1, <1>3, FrameHolds DEF CoreFrameOK, RequestOK, Continuations
<1>5. RequestOK(g, Known)
  BY <1>1, <1>3, FrameHolds DEF RequestOK, AuthoriseLabels
<1>6. RestOK'
  BY <1>1, RestSame DEF TInv
<1>7. StoreOK'
  <2>1. \A q \in Known : PaymentOf(q)' \in Payment /\ PaymentOf(q)'.bank = PaymentOf(q).bank
    BY <1>1 DEF AllSame, TInv, StoreOK
  <2>2. issued' = issued
    BY <1>1 DEF tables
  <2> QED BY <1>1, <2>1, <2>2, StoreKept DEF TInv
<1>8. DbInv' /\ DbStep /\ FiniteDb'
  BY <1>1, TablesUnchanged DEF TInv, FiniteDb, tables
<1>9. UNCHANGED <<banks, issued, accounts>>
  BY <1>1 DEF tables
<1> QED BY <1>1, <1>3, <1>4, <1>5, <1>6, <1>7, <1>8, <1>9, FramesKept

LEMMA BeginCycleTyped ==
  ASSUME TInv, NEW w \in Workers, BeginCycle(w) PROVE TInv'
<1>1. PICK b \in banks :
        /\ frame' = [frame EXCEPT ![w] =
             [IdleFrame EXCEPT !.op = "cycle", !.pc = "cycle_engine", !.bank = b]]
        /\ Meets(w, SettlementOps, {b})
  BY DEF BeginCycle, Begin
<1>2. UNCHANGED tables /\ UNCHANGED <<payments, forgotten, purging, engine, cycle>>
  BY DEF BeginCycle, faults
<1>3. b \in Banks /\ b \in issued
  BY DEF TInv, DbInv, DbTypeOK, DbKeys
<1> DEFINE g == [IdleFrame EXCEPT !.op = "cycle", !.pc = "cycle_engine", !.bank = b]
<1>4. g \in Frames /\ g.op = "cycle" /\ g.pc = "cycle_engine" /\ g.bank = b /\ g.ref = None
  <2>1. IdleFrame \in Frames /\ "cycle" \in Ops /\ "cycle_engine" \in SettlementLabels
    BY IdleFrameOK, LabelsAndOps DEF SettlementLabels
  <2>2. g \in Frames
    BY <1>3, <2>1 DEF Frames, Frame
  <2> QED BY <2>2 DEF IdleFrame
<1>5. RestOK'
  BY <1>1, <1>2, <1>3, MeetsType, RestSame, StoreSame DEF TInv
<1>6. frame' = [frame EXCEPT ![w] = g]
  BY <1>1
<1> HIDE DEF g
<1>7. CoreFrameOK(g, banks, issued, accounts) /\ RequestOK(g, Known)
  BY <1>3, <1>4 DEF CoreFrameOK, RequestOK
<1> QED BY <1>2, <1>4, <1>5, <1>6, <1>7, FrameMoves

(* The steps of a cycle that write its locals. *)
LEMMA CycleMoves ==
  ASSUME TInv, UNCHANGED tables, UNCHANGED <<payments, forgotten, purging, engine, overlapped>>,
         NEW w \in Workers,
         UNCHANGED cycle \/ (\E c \in Cycles : /\ c.promote \subseteq Known
                                               /\ cycle' = [cycle EXCEPT ![w] = c]),
         \/ UNCHANGED frame
         \/ Begin(w, IdleFrame)
         \/ /\ frame[w].pc \in CycleLabels \/ (frame[w].pc = "return" /\ frame[w].op = "cycle")
            /\ \E l \in CycleLabels : Goto(w, l)
  PROVE  TInv'
<1>1. Known' = Known
  BY StoreSame
<1>2. RestOK'
  <2>1. CASE UNCHANGED cycle
    BY <1>1, <2>1, RestSame DEF TInv, RestOK
  <2>2. ASSUME NEW c \in Cycles, c.promote \subseteq Known, cycle' = [cycle EXCEPT ![w] = c]
        PROVE  RestOK'
    BY <1>1, <2>2, RestCycle DEF TInv, RestOK
  <2> QED BY <2>1, <2>2
<1>3. CASE UNCHANGED frame
  <2>1. StoreOK'
    BY StoreSame DEF TInv, StoreOK, tables
  <2> QED BY <1>1, <1>2, <1>3, <2>1, StoreMoves
<1>4. CASE Begin(w, IdleFrame)
  BY <1>2, <1>4, IdleFrameOK, FrameMoves DEF Begin
<1>5. CASE /\ frame[w].pc \in CycleLabels \/ (frame[w].pc = "return" /\ frame[w].op = "cycle")
           /\ \E l \in CycleLabels : Goto(w, l)
  <2>1. PICK g \in Frames : /\ frame' = [frame EXCEPT ![w] = g]
                            /\ CoreFrameOK(g, banks, issued, accounts) /\ RequestOK(g, Known)
    BY <1>5, CycleGoes
  <2> QED BY <1>2, <2>1, FrameMoves
<1> QED BY <1>3, <1>4, <1>5

LEMMA CycleEngineTyped ==
  ASSUME TInv, NEW w \in Workers, CycleEngine(w) PROVE TInv'
<1>1. /\ UNCHANGED tables /\ UNCHANGED <<payments, forgotten, purging, engine, overlapped>>
      /\ frame[w].pc \in CycleLabels
  BY DEF CycleEngine, faults, history, CycleLabels
<1> DEFINE s == {a.id : a \in {x \in ListAccounts(frame[w].bank) : x.kind = "suspense"}}
           c == [cycle[w] EXCEPT !.suspense = s]
<1>2. c \in Cycles /\ c.promote \subseteq Known
  <2>1. cycle[w] \in Cycles /\ cycle[w].promote \subseteq Known
    BY DEF TInv, RestOK
  <2>2. s \in SUBSET AccountIds
    BY DEF ListAccounts, TInv, DbInv, DbTypeOK, Account
  <2> HIDE DEF s
  <2> QED BY <2>1, <2>2 DEF Cycles
<1>3. \/ cycle' = [cycle EXCEPT ![w] = c] /\ Goto(w, "sweep")
      \/ UNCHANGED cycle /\ Begin(w, IdleFrame)
  BY DEF CycleEngine
<1> HIDE DEF c
<1> QED BY <1>1, <1>2, <1>3, CycleMoves DEF CycleLabels

(* The account is one of the bank's, and what it holds is a number.        *)
LEMMA SweepTyped ==
  ASSUME TInv, NEW w \in Workers, Sweep(w) PROVE TInv'
<1> DEFINE f == frame[w]
           id == Min(cycle[w].suspense)
           held == Balance(f.bank, id)
<1>1. /\ UNCHANGED tables /\ UNCHANGED <<payments, forgotten, purging, engine, overlapped>>
      /\ f.pc = "sweep"
  BY DEF Sweep, faults, history
<1>2. CASE held > 0
  <2>1. PICK a \in GetAccount(f.bank, id) :
          frame' = [frame EXCEPT ![w].pc = "ensure", ![w].then = "transfer",
                      ![w].kind = "net_settlement", ![w].payer = id,
                      ![w].ccy = a.ccy, ![w].amount = held]
    BY <1>2 DEF Sweep
  <2> DEFINE g == [f EXCEPT !.pc = "ensure", !.then = "transfer",
                     !.kind = "net_settlement", !.payer = id, !.ccy = a.ccy, !.amount = held]
  <2>2. frame' = [frame EXCEPT ![w] = g]
    BY <2>1
  <2>3. held \in Int
    <3> HIDE DEF id
    <3> QED BY BalanceIsSum DEF TInv, DbInv, DbTypeOK, FiniteDb
  <2>4. id \in AccountIds /\ a.ccy \in Currencies
    BY <2>1 DEF GetAccount, TInv, DbInv, DbTypeOK, Account
  <2>5. /\ "ensure" \in SettlementLabels /\ "transfer" \in SettlementLabels
        /\ "net_settlement" \in Kinds
    BY DEF SettlementLabels, CoreLabels, Kinds, InternalKinds
  <2> HIDE DEF held, id
  <2>6. /\ g \in Frames /\ g.pc = "ensure" /\ g.then = "transfer" /\ g.bank = f.bank
        /\ g.ccy = a.ccy /\ g.payer = id /\ g.op = f.op /\ g.ref = f.ref
    BY <2>3, <2>4, <2>5, FrameHolds DEF Frames, Frame
  <2> HIDE DEF g
  <2>7. f.op = "cycle" /\ f.ref = None
    <3>1. f.op \in Ops
      BY FrameHolds DEF Frame
    <3> QED BY <1>1, <3>1, FrameHolds DEF RequestOK, Ops, SettlementOps, AuthoriseLabels
  <2>8. CoreFrameOK(g, banks, issued, accounts) /\ RequestOK(g, Known)
    BY <1>1, <2>4, <2>6, <2>7, FrameHolds DEF CoreFrameOK, RequestOK, Continuations
  <2>9. RestOK'
    <3>1. UNCHANGED cycle
      BY <1>2 DEF Sweep, held, id
    <3> QED BY <1>1, <3>1, RestSame, StoreSame DEF TInv, RestOK
  <2> QED BY <1>1, <2>2, <2>6, <2>8, <2>9, FrameMoves
<1>3. CASE ~(held > 0)
  <2> DEFINE c == [cycle[w] EXCEPT !.suspense = cycle[w].suspense \ {id}]
  <2>1. cycle' = [cycle EXCEPT ![w] = c] /\ UNCHANGED frame
    BY <1>3 DEF Sweep
  <2>2. c \in Cycles /\ c.promote \subseteq Known
    <3>1. cycle[w] \in Cycles /\ cycle[w].promote \subseteq Known
      BY DEF TInv, RestOK
    <3> HIDE DEF id
    <3> QED BY <3>1 DEF Cycles
  <2> HIDE DEF c
  <2> QED BY <1>1, <2>1, <2>2, CycleMoves
<1> QED BY <1>2, <1>3

LEMMA SweptTyped ==
  ASSUME TInv, NEW w \in Workers, Swept(w) PROVE TInv'
<1>1. /\ UNCHANGED tables /\ UNCHANGED <<payments, forgotten, purging, engine, overlapped>>
      /\ frame[w].pc = "return" /\ frame[w].op = "cycle"
  BY DEF Swept, faults, history
<1> DEFINE c == [cycle[w] EXCEPT !.suspense = cycle[w].suspense \ {frame[w].payer}, !.swept = TRUE]
<1>2. c \in Cycles /\ c.promote \subseteq Known
  <2>1. cycle[w] \in Cycles /\ cycle[w].promote \subseteq Known
    BY DEF TInv, RestOK
  <2> QED BY <2>1 DEF Cycles
<1>3. \/ cycle' = [cycle EXCEPT ![w] = c] /\ Goto(w, "sweep")
      \/ cycle' = [cycle EXCEPT ![w] = NoCycle] /\ Begin(w, IdleFrame)
  BY DEF Swept
<1> HIDE DEF c
<1> QED BY <1>1, <1>2, <1>3, NoCycleType, CycleMoves DEF CycleLabels

LEMMA CycleDoneTyped ==
  ASSUME TInv, NEW w \in Workers, CycleDone(w) PROVE TInv'
<1>1. /\ UNCHANGED tables /\ UNCHANGED <<payments, forgotten, purging, engine, overlapped>>
      /\ frame[w].pc \in CycleLabels
  BY DEF CycleDone, faults, history, CycleLabels
<1>2. \/ UNCHANGED cycle /\ Goto(w, "list_payments")
      \/ cycle' = [cycle EXCEPT ![w] = NoCycle] /\ Begin(w, IdleFrame)
  BY DEF CycleDone
<1> QED BY <1>1, <1>2, NoCycleType, CycleMoves DEF CycleLabels

LEMMA ListPaymentsTyped ==
  ASSUME TInv, NEW w \in Workers, ListPayments(w) PROVE TInv'
<1>1. /\ UNCHANGED tables /\ UNCHANGED <<payments, forgotten, purging, engine, overlapped>>
      /\ frame[w].pc \in CycleLabels /\ Goto(w, "listing")
  BY DEF ListPayments, faults, history, CycleLabels
<1> DEFINE n == Cardinality(Stored)
           c == [cycle[w] EXCEPT !.size = n]
<1>2. n \in Nat
  <2>1. IsFiniteSet(Stored)
    BY FS_Subset DEF TInv, StoreOK, Known
  <2> QED BY <2>1, FS_CardinalityType
<1>3. cycle' = [cycle EXCEPT ![w] = c]
  BY DEF ListPayments
<1>4. c \in Cycles /\ c.promote \subseteq Known
  <2>1. cycle[w] \in Cycles /\ cycle[w].promote \subseteq Known
    BY DEF TInv, RestOK
  <2> HIDE DEF n
  <2> QED BY <1>2, <2>1 DEF Cycles
<1> HIDE DEF c
<1> QED BY <1>1, <1>3, <1>4, CycleMoves DEF CycleLabels

LEMMA PaymentsListedTyped ==
  ASSUME TInv, NEW w \in Workers, PaymentsListed(w) PROVE TInv'
<1>1. /\ UNCHANGED tables /\ UNCHANGED <<payments, forgotten, purging, engine, overlapped>>
      /\ frame[w].pc \in CycleLabels
  BY DEF PaymentsListed, faults, history, CycleLabels
<1> DEFINE s == {p \in Stored : payments[p].bank = frame[w].bank}
           c == [cycle[w] EXCEPT !.promote = s]
<1>2. \/ cycle' = [cycle EXCEPT ![w] = c] /\ Goto(w, "promote")
      \/ cycle' = [cycle EXCEPT ![w] = NoCycle] /\ Begin(w, IdleFrame)
  BY DEF PaymentsListed
<1>3. c \in Cycles /\ c.promote \subseteq Known
  <2>1. cycle[w] \in Cycles
    BY DEF TInv, RestOK
  <2>2. s \in SUBSET PaymentIds /\ s \subseteq Known
    BY DEF TInv, StoreOK, Known
  <2> HIDE DEF s
  <2> QED BY <2>1, <2>2 DEF Cycles
<1> HIDE DEF c
<1> QED BY <1>1, <1>2, <1>3, NoCycleType, CycleMoves DEF CycleLabels

LEMMA EndCycleTyped ==
  ASSUME TInv, NEW w \in Workers, EndCycle(w) PROVE TInv'
BY NoCycleType, CycleMoves DEF EndCycle, faults, history

LEMMA RestartTyped == ASSUME TInv, Restart PROVE TInv'
<1>1. /\ UNCHANGED tables /\ purging' = {} /\ UNCHANGED <<engine, overlapped>>
      /\ frame' = [v \in Workers |-> IdleFrame] /\ cycle' = [v \in Workers |-> NoCycle]
  BY DEF Restart
<1>2. StoreOK'
  BY <1>1, RestartShape, StoreKept DEF TInv, StoreOK, tables
<1>3. RestOK'
  BY <1>1, NoCycleType DEF TInv, RestOK
<1>4. DbInv' /\ FiniteDb'
  BY <1>1, TablesUnchanged DEF TInv, FiniteDb, tables
<1>5. frame' \in [Workers -> Frames]
  BY <1>1, IdleFrameOK
<1>6. \A v \in Workers : /\ CoreFrameOK(frame'[v], banks', issued', accounts')
                         /\ RequestOK(frame'[v], Known')
  <2>1. \A v \in Workers : frame'[v] = IdleFrame
    BY <1>1
  <2> QED BY <2>1, IdleFrameOK
<1> QED BY <1>2, <1>3, <1>4, <1>5, <1>6 DEF TInv

LEMMA PurgeReadsTyped == ASSUME TInv, PurgeReads PROVE TInv'
<1>1. /\ UNCHANGED tables /\ UNCHANGED frame /\ purging' = purging \union {Stored}
      /\ UNCHANGED <<payments, forgotten, engine, cycle>>
      /\ overlapped' \subseteq Banks
  BY DEF PurgeReads, TInv, RestOK
<1>2. Known' = Known /\ StoreOK' /\ Stored \subseteq Known
  BY <1>1, StoreSame DEF TInv, StoreOK, tables, Known
<1>3. RestOK'
  BY <1>1, <1>2 DEF TInv, RestOK
<1> QED BY <1>1, <1>2, <1>3, StoreMoves

LEMMA PurgeAssignsTyped == ASSUME TInv, PurgeAssigns PROVE TInv'
<1>1. PICK kept \in purging :
        /\ purging' = purging \ {kept}
        /\ payments' = [p \in kept |-> PaymentOf(p)]
        /\ forgotten' = [p \in Known \ kept |-> PaymentOf(p)]
  BY DEF PurgeAssigns
<1>2. UNCHANGED tables /\ UNCHANGED frame /\ UNCHANGED <<engine, cycle, overlapped>>
  BY DEF PurgeAssigns
<1>3. kept \in SUBSET Known
  BY DEF TInv, RestOK
<1>4. Known' = Known /\ StoreOK'
  BY <1>1, <1>2, <1>3, PurgeShape, StoreKept DEF TInv, StoreOK, tables
<1>5. RestOK'
  BY <1>1, <1>2, <1>4 DEF TInv, RestOK
<1> QED BY <1>2, <1>4, <1>5, StoreMoves

LEMMA WorkerTyped ==
  ASSUME TInv, NEW w \in Workers, Accepts(w) \/ Serves(w) PROVE TInv'
BY InitiateTyped, StartTyped, ReconfigureTyped, BeginAuthoriseTyped, BeginCycleTyped,
   CoreStepTyped, ResolveTyped, RecordTyped, CycleEngineTyped, SweepTyped, SweptTyped,
   CycleDoneTyped, ListPaymentsTyped, PaymentsListedTyped, PromoteTyped, EndCycleTyped
   DEF Accepts, Serves

LEMMA InitTyped == Init => TInv
<1> SUFFICES ASSUME Init PROVE TInv
  OBVIOUS
<1>1. /\ DbInv /\ frame = [w \in Workers |-> IdleFrame]
      /\ payments = <<>> /\ forgotten = <<>> /\ purging = {} /\ overlapped = {}
      /\ engine \in [Banks -> Seed.engines] /\ cycle = [w \in Workers |-> NoCycle]
  BY SeedIsSound DEF Init, CoreInit
<1>2. FiniteDb
  BY SeedAssumption DEF Init, CoreInit, FiniteDb
<1>3. Stored = {} /\ Known = {}
  BY <1>1 DEF Stored, Known
<1>4. StoreOK
  BY <1>1, <1>3, FS_EmptySet DEF StoreOK
<1>5. RestOK
  BY <1>1, NoCycleType, SettlementAssumption DEF RestOK
<1> QED BY <1>1, <1>2, <1>4, <1>5, IdleFrameOK DEF TInv

LEMMA NextTyped == TInv /\ [Next]_vars => TInv'
<1> SUFFICES ASSUME TInv, [Next]_vars PROVE TInv'
  OBVIOUS
<1>1. CASE UNCHANGED vars
  <2>1. /\ UNCHANGED tables /\ UNCHANGED frame
        /\ UNCHANGED <<payments, forgotten, purging, engine, cycle, overlapped>>
    BY <1>1 DEF vars, tables
  <2>2. Known' = Known /\ StoreOK'
    BY <2>1, StoreSame DEF TInv, StoreOK, tables
  <2>3. RestOK'
    BY <2>1, <2>2, RestSame DEF TInv, RestOK
  <2> QED BY <2>1, <2>2, <2>3, StoreMoves
<1> QED BY <1>1, WorkerTyped, RestartTyped, PurgeReadsTyped, PurgeAssignsTyped DEF Next

(* The invariant of the types holds throughout. *)
THEOREM TypesKept == Spec => []TInv
BY InitTyped, NextTyped, PTL DEF Spec

(* Rows, frames, payments and the locals of cycles stay of their types,    *)
(* through restarts and purges.                                            *)
THEOREM TypeCorrect == Spec => []TypeOK
<1>1. TInv => TypeOK
  <2> SUFFICES ASSUME TInv PROVE TypeOK
    OBVIOUS
  <2>1. \A p \in Stored : payments[p] \in Payment
    BY DEF TInv, StoreOK, Known, PaymentOf
  <2>2. \A p \in DOMAIN forgotten : forgotten[p] \in Payment
    BY DEF TInv, StoreOK, Known, PaymentOf
  <2>3. purging \subseteq SUBSET PaymentIds
    BY DEF TInv, RestOK, StoreOK, Known
  <2> QED BY <2>1, <2>2, <2>3
          DEF TInv, DbInv, DbTypeOK, StoreOK, RestOK, Cycles, Frames, Ops, TypeOK
<1> QED BY <1>1, TypesKept, PTL

-----------------------------------------------------------------------------
(* What a step does to the requests that settle payments. *)

OwnStep(w) == \A v \in Workers : v # w => frame'[v] = frame[v]

(* A step that is none of theirs, and moves neither money nor a payment.   *)
Aside(w) ==
  /\ UNCHANGED <<accounts, journal, payments, forgotten, purging>>
  /\ OwnStep(w)
  /\ frame[w].op # "authorise" /\ frame'[w].op # "authorise"

LEMMA CycleIsAside ==
  ASSUME TInv, NEW w \in Workers,
         UNCHANGED <<accounts, journal, payments, forgotten, purging>>,
         frame[w].op # "authorise",
         NEW g \in Frames, frame' = [frame EXCEPT ![w] = g], g.op # "authorise"
  PROVE  Aside(w)
BY DEF TInv, Aside, OwnStep

LEMMA OpInCycle ==
  ASSUME TInv, NEW w \in Workers, frame[w].pc \in CycleLabels \/ frame[w].pc = "idle"
  PROVE  frame[w].op # "authorise"
BY FrameHolds DEF RequestOK, CycleLabels, AuthoriseLabels

LEMMA GotoAside ==
  ASSUME TInv, NEW w \in Workers,
         UNCHANGED <<accounts, journal, payments, forgotten, purging>>,
         frame[w].op # "authorise", (\E l : Goto(w, l)) \/ Begin(w, IdleFrame) \/ UNCHANGED frame
  PROVE  Aside(w)
<1>1. ASSUME NEW l, Goto(w, l) PROVE Aside(w)
  <2>1. frame' = [frame EXCEPT ![w].pc = l]
    BY <1>1 DEF Goto
  <2>2. frame[w] \in Frames
    BY FrameHolds
  <2>3. frame'[w].op = frame[w].op /\ OwnStep(w)
    BY <2>1, <2>2 DEF TInv, Frames, Frame, OwnStep
  <2> QED BY <2>3 DEF Aside
<1>2. CASE Begin(w, IdleFrame)
  BY <1>2, IdleFrameOK, CycleIsAside DEF Begin, IdleFrame
<1>3. CASE UNCHANGED frame
  BY <1>3 DEF Aside, OwnStep
<1> QED BY <1>1, <1>2, <1>3

LEMMA WorkerDoes ==
  ASSUME TInv, NEW w \in Workers, Accepts(w) \/ Serves(w)
  PROVE  \/ InitiatePayment(w) \/ StartAuthorisation(w) \/ BeginAuthorise(w)
         \/ ResolveEngine(w) \/ (CoreStep(w) /\ UNCHANGED payVars)
         \/ RecordOutcome(w) \/ Promote(w) \/ Aside(w)
<1>1. CASE Reconfigure(w)
  BY <1>1, OpInCycle, GotoAside DEF Reconfigure, Idle, tables, faults, history
<1>2. CASE BeginCycle(w)
  <2>1. PICK b \in banks : frame' = [frame EXCEPT ![w] =
             [IdleFrame EXCEPT !.op = "cycle", !.pc = "cycle_engine", !.bank = b]]
    BY <1>2 DEF BeginCycle, Begin
  <2>2. frame'[w].op = "cycle" /\ OwnStep(w)
    BY <2>1 DEF TInv, IdleFrame, OwnStep
  <2>3. frame[w].op # "authorise"
    BY <1>2, OpInCycle DEF BeginCycle, Idle
  <2> QED BY <1>2, <2>2, <2>3 DEF BeginCycle, Aside, tables, faults
<1>3. CASE CycleEngine(w)
  <2>1. (\E l : Goto(w, l)) \/ Begin(w, IdleFrame)
    BY <1>3 DEF CycleEngine
  <2>2. frame[w].op # "authorise"
    BY <1>3, OpInCycle DEF CycleEngine, CycleLabels
  <2> QED BY <1>3, <2>1, <2>2, GotoAside DEF CycleEngine, tables, faults, history
<1>4. CASE Sweep(w)
  <2>0. frame[w].op # "authorise"
    BY <1>4, OpInCycle DEF Sweep, CycleLabels
  <2>1. CASE UNCHANGED frame
    BY <1>4, <2>0, <2>1, GotoAside DEF Sweep, tables, faults, history
  <2>2. ASSUME NEW id, NEW c, NEW held,
               frame' = [frame EXCEPT ![w].pc = "ensure", ![w].then = "transfer",
                      ![w].kind = "net_settlement", ![w].payer = id,
                      ![w].ccy = c, ![w].amount = held]
        PROVE  Aside(w)
    <3> DEFINE g == [frame[w] EXCEPT !.pc = "ensure", !.then = "transfer",
                       !.kind = "net_settlement", !.payer = id, !.ccy = c, !.amount = held]
    <3>1. frame' = [frame EXCEPT ![w] = g]
      BY <2>2
    <3>2. g.op = frame[w].op
      BY FrameHolds DEF Frame
    <3> HIDE DEF g
    <3>3. frame'[w] = g /\ OwnStep(w)
      BY <3>1 DEF TInv, OwnStep
    <3> QED BY <1>4, <2>0, <3>2, <3>3 DEF Aside, Sweep, tables, faults, history
  <2> QED BY <1>4, <2>1, <2>2 DEF Sweep
<1>5. CASE Swept(w)
  <2>1. (\E l : Goto(w, l)) \/ Begin(w, IdleFrame)
    BY <1>5 DEF Swept
  <2> QED BY <1>5, <2>1, GotoAside DEF Swept, tables, faults, history
<1>6. CASE CycleDone(w)
  <2>1. (\E l : Goto(w, l)) \/ Begin(w, IdleFrame)
    BY <1>6 DEF CycleDone
  <2>2. frame[w].op # "authorise"
    BY <1>6, OpInCycle DEF CycleDone, CycleLabels
  <2> QED BY <1>6, <2>1, <2>2, GotoAside DEF CycleDone, tables, faults, history
<1>7. CASE ListPayments(w)
  BY <1>7, OpInCycle, GotoAside DEF ListPayments, CycleLabels, tables, faults, history
<1>8. CASE PaymentsListed(w)
  <2>1. (\E l : Goto(w, l)) \/ Begin(w, IdleFrame)
    BY <1>8 DEF PaymentsListed
  <2>2. frame[w].op # "authorise"
    BY <1>8, OpInCycle DEF PaymentsListed, CycleLabels
  <2> QED BY <1>8, <2>1, <2>2, GotoAside DEF PaymentsListed, tables, faults, history
<1>9. CASE EndCycle(w)
  BY <1>9, OpInCycle, GotoAside DEF EndCycle, CycleLabels, tables, faults, history
<1> QED BY <1>1, <1>2, <1>3, <1>4, <1>5, <1>6, <1>7, <1>8, <1>9 DEF Accepts, Serves

(* Rows and payments stay, and so does what was instructed.                *)
LEMMA InstructionsStay ==
  ASSUME TInv, [Next]_vars
  PROVE  /\ accounts \subseteq accounts' /\ journal \subseteq journal' /\ Known \subseteq Known'
         /\ \A q \in Known : SameInstruction(PaymentOf(q), PaymentOf(q)')
<1> DEFINE Goal == /\ accounts \subseteq accounts' /\ journal \subseteq journal'
                   /\ Known \subseteq Known'
                   /\ \A q \in Known : SameInstruction(PaymentOf(q), PaymentOf(q)')
<1>1. CASE UNCHANGED <<accounts, journal, payments, forgotten>>
  BY <1>1, StoreSame DEF SameInstruction
<1>2. CASE Restart
  BY <1>2, RestartShape DEF Restart, tables, SameInstruction
<1>3. CASE PurgeAssigns
  <2>1. PICK kept \in purging :
          /\ payments' = [p \in kept |-> PaymentOf(p)]
          /\ forgotten' = [p \in Known \ kept |-> PaymentOf(p)]
    BY <1>3 DEF PurgeAssigns
  <2>2. kept \in SUBSET Known
    BY DEF TInv, RestOK
  <2> QED BY <1>3, <2>1, <2>2, PurgeShape DEF PurgeAssigns, tables, SameInstruction
<1>4. ASSUME NEW w \in Workers, Accepts(w) \/ Serves(w) PROVE Goal
  <2>1. CASE InitiatePayment(w)
    BY <2>1, InitiateShape DEF InitiatePayment, tables, SameInstruction
  <2>2. CASE StartAuthorisation(w)
    <3>1. PICK p \in Stored : /\ Known' = Known /\ OthersSame(p)
                              /\ SameInstruction(PaymentOf(p), PaymentOf(p)')
      BY <2>2, StartShape
    <3> QED BY <2>2, <3>1 DEF StartAuthorisation, tables, SameInstruction, OthersSame
  <2>3. CASE BeginAuthorise(w)
    <3>1. PICK p \in Stored : /\ Known' = Known /\ OthersSame(p)
                              /\ SameInstruction(PaymentOf(p), PaymentOf(p)')
      BY <2>3, BeginAuthoriseShape
    <3> QED BY <2>3, <3>1 DEF BeginAuthorise, tables, SameInstruction, OthersSame
  <2>4. CASE RecordOutcome(w)
    <3>1. PICK p \in Known : /\ Known' = Known
                             /\ \/ AllSame
                                \/ OthersSame(p) /\ SameInstruction(PaymentOf(p), PaymentOf(p)')
      BY <2>4, RecordShape
    <3> QED BY <2>4, <3>1 DEF RecordOutcome, tables, SameInstruction, OthersSame, AllSame
  <2>5. CASE Promote(w)
    <3>1. PICK p \in Known : /\ Known' = Known
                             /\ \/ AllSame
                                \/ OthersSame(p) /\ SameInstruction(PaymentOf(p), PaymentOf(p)')
      BY <2>5, PromoteShape
    <3> QED BY <2>5, <3>1 DEF Promote, tables, SameInstruction, OthersSame, AllSame
  <2>6. CASE CoreStep(w) /\ UNCHANGED payVars
    <3>1. accounts \subseteq accounts' /\ journal \subseteq journal'
      BY <2>6 DEF CoreStep, EnsureFind, EnsureOpen, TransferLookup, TransferFunds, PostCheck,
                  PostAdd, tables
    <3> QED BY <2>6, <3>1, StoreSame DEF payVars, SameInstruction
  <2>7. CASE ResolveEngine(w)
    BY <2>7, ResolveSaves DEF tables, SameInstruction, AllSame
  <2>8. CASE Aside(w)
    BY <1>1, <2>8 DEF Aside
  <2> QED BY <1>4, <2>1, <2>2, <2>3, <2>4, <2>5, <2>6, <2>7, <2>8, WorkerDoes
<1> QED BY <1>1, <1>2, <1>3, <1>4 DEF Next, PurgeReads, tables, history, vars
-----------------------------------------------------------------------------
(* What a request that settles a payment has established at each label.    *)

Handles(w, p) == frame[w].op = "authorise" /\ frame[w].ref = p

(* The entry f names debits its payer by its amount, for its payment. *)
Evidence(e, f) == e.ref = f.ref /\ e.seq = f.entry /\ MovedBy(e, f.payer) = -f.amount

Ends(f) == f.pc = "return" /\ f.result = "ok"

(* f settles the payment x, given the accounts as and the entries js.      *)
HandleOK(f, x, as, js) ==
  /\ f.payer = x.debtor /\ f.amount = x.amount /\ ~f.overdraft
  /\ f.pc # "resolve_engine" => f.kind \in InternalKinds
  /\ f.pc \in {"ensure", "open_internal"} => f.then = "transfer"
  /\ f.pc \in {"transfer", "funds", "post"} => \E a \in as : a.id = f.payee /\ IsInternal(a)
  /\ f.pc = "post" => f.postings = TwoLegs(f.payer, f.payee, f.ccy, f.amount)
  /\ Ends(f) => f.entry # 0 /\ \E e \in js : Evidence(e, f)
  /\ ~Ends(f) => f.entry = 0

HandlesOK ==
  \A w \in Workers : \A p \in Known :
    Handles(w, p) => HandleOK(frame[w], PaymentOf(p), accounts, journal)

DebtorsOK ==
  \A p \in Known :
    /\ PaymentOf(p).amount \in Amounts
    /\ \E a \in accounts : a.id = PaymentOf(p).debtor /\ ~IsInternal(a)

RefsKnown == \A e \in journal : e.ref \in Known \union {None}

HInv == HandlesOK /\ DebtorsOK /\ RefsKnown

(* Whatever the others do to rows and payments, a handler's facts stay.    *)
LEMMA HandleStays ==
  ASSUME NEW f, NEW x, NEW y, NEW as, NEW js, NEW as2, NEW js2,
         HandleOK(f, x, as, js), SameInstruction(x, y), as \subseteq as2, js \subseteq js2
  PROVE  HandleOK(f, y, as2, js2)
BY DEF HandleOK, SameInstruction

(* One worker's step: its own facts are all there is to show. *)
LEMMA HandlesStep ==
  ASSUME TInv, HInv, [Next]_vars, NEW w, OwnStep(w),
         \A p \in Known' : w \in Workers /\ Handles(w, p)' =>
           HandleOK(frame'[w], PaymentOf(p)', accounts', journal')
  PROVE  HandlesOK'
<1> SUFFICES ASSUME NEW v \in Workers, NEW p \in Known', Handles(v, p)'
             PROVE  HandleOK(frame[v], PaymentOf(p), accounts, journal)'
  BY DEF HandlesOK
<1>1. CASE v = w
  BY <1>1
<1>2. CASE v # w
  <2>1. frame'[v] = frame[v] /\ Handles(v, p)
    BY <1>2 DEF OwnStep, Handles
  <2>2. p \in Known
    BY <2>1, FrameHolds DEF RequestOK, Handles
  <2>3. HandleOK(frame[v], PaymentOf(p), accounts, journal)
    BY <2>1, <2>2 DEF HInv, HandlesOK
  <2> QED BY <2>1, <2>2, <2>3, InstructionsStay, HandleStays
<1> QED BY <1>1, <1>2

LEMMA RefsOfWorkers ==
  ASSUME TInv, NEW w \in Workers, frame[w].pc # "idle" PROVE frame[w].ref \in Known \union {None}
BY FrameHolds DEF RequestOK, Frame, Ops, SettlementOps
(* A call of the core that settles a payment goes on with it. *)
LEMMA HandlerGoesOn ==
  ASSUME TInv, HInv, NEW w \in Workers, NEW p \in Known, Handles(w, p), CoreStep(w),
         UNCHANGED payVars
  PROVE  HandleOK(frame'[w], PaymentOf(p), accounts', journal')
<1> DEFINE f == frame[w]
           g == frame'[w]
           x == PaymentOf(p)
<1>1. f \in Frame(Ops, SettlementLabels) /\ frame \in [Workers -> Frame(Ops, SettlementLabels)]
  BY FrameHolds DEF TInv, Frames
<1>2. SameRequest(f, g) /\ Leads(f, g)
  BY <1>1, CoreStepLeads
<1>3. HandleOK(f, x, accounts, journal)
  BY DEF HInv, HandlesOK
<1>4. accounts \subseteq accounts'
  BY InstructionsStay DEF Next, Serves
<1> DEFINE Settles == /\ g.payer = x.debtor /\ g.amount = x.amount /\ ~g.overdraft
                      /\ g.pc # "resolve_engine" => g.kind \in InternalKinds
<1>5. f.pc # "resolve_engine"
  BY <1>2 DEF Leads, EnsureLeads, OpenLeads, FailLeads, FundsLeads, BookLeads, CheckLeads, AddLeads
<1>6. Settles /\ g.then = f.then /\ g.ref = f.ref
  BY <1>2, <1>3, <1>5 DEF HandleOK, SameRequest
<1>7. CASE EnsureLeads(f, g)
  <2>1. g.pc = "transfer" /\ g.entry = 0
    BY <1>3, <1>7 DEF EnsureLeads, HandleOK, Ends
  <2>2. \E a \in accounts' : a.id = g.payee /\ IsInternal(a)
    BY <1>3, <1>5, <1>7 DEF EnsureLeads, HandleOK, IsInternal
  <2> QED BY <1>6, <2>1, <2>2 DEF HandleOK, Ends
<1>8. CASE OpenLeads(f, g)
  <2>1. g.pc = "open_internal" /\ g.entry = 0 /\ f.then = "transfer"
    BY <1>3, <1>8 DEF OpenLeads, HandleOK, Ends
  <2> QED BY <1>6, <2>1 DEF HandleOK, Ends
<1>9. CASE FailLeads(f, g)
  <2>1. g.pc = "return" /\ g.entry = 0 /\ g.result # "ok"
    BY <1>3, <1>9 DEF FailLeads, HandleOK, Ends
  <2> QED BY <1>6, <2>1 DEF HandleOK, Ends
<1>10. CASE FundsLeads(f, g)
  <2>1. g.pc = "funds" /\ g.entry = 0 /\ \E a \in accounts : a.id = g.payee /\ IsInternal(a)
    BY <1>3, <1>10 DEF FundsLeads, HandleOK, Ends
  <2> QED BY <1>4, <1>6, <2>1 DEF HandleOK, Ends
<1>11. CASE BookLeads(f, g)
  <2>1. /\ g.pc = "post" /\ g.entry = 0 /\ g.postings = TwoLegs(f.payer, f.payee, f.ccy, f.amount)
        /\ g.payee = f.payee
        /\ \E a \in accounts : a.id = f.payee /\ IsInternal(a)
    BY <1>3, <1>11 DEF BookLeads, HandleOK, Ends
  <2>2. g.payer = f.payer /\ g.ccy = f.ccy /\ g.amount = f.amount
    BY <1>2 DEF SameRequest
  <2> QED BY <1>4, <1>6, <2>1, <2>2 DEF HandleOK, Ends
<1>12. CASE CheckLeads(f, g)
  <2>1. /\ g.pc = "post" /\ g.entry = 0 /\ g.postings = TwoLegs(f.payer, f.payee, f.ccy, f.amount)
        /\ g.payee = f.payee
        /\ \E a \in accounts : a.id = f.payee /\ IsInternal(a)
    BY <1>3, <1>12 DEF CheckLeads, HandleOK, Ends
  <2>2. g.payer = f.payer /\ g.ccy = f.ccy /\ g.amount = f.amount
    BY <1>2 DEF SameRequest
  <2> QED BY <1>4, <1>6, <2>1, <2>2 DEF HandleOK, Ends
<1>13. CASE AddLeads(f, g)
  <2> DEFINE e == [seq |-> seq + 1, bank |-> f.bank, postings |-> f.postings, ref |-> f.ref]
  <2>1. g.pc = "return" /\ g.result = "ok" /\ g.entry = seq + 1 /\ e \in journal'
    BY <1>13 DEF AddLeads
  <2>2. seq \in Nat /\ f.amount \in Int
    BY <1>1 DEF TInv, DbInv, DbTypeOK, Frame
  <2>3. f.payer # f.payee
    <3>1. PICK a \in accounts : a.id = f.payer /\ ~IsInternal(a)
      BY <1>3 DEF HandleOK, HInv, DebtorsOK
    <3>2. PICK i \in accounts : i.id = f.payee /\ IsInternal(i)
      BY <1>3, <1>13 DEF HandleOK, AddLeads
    <3> QED BY <3>1, <3>2 DEF TInv, DbInv, DbKeys
  <2>4. f.postings = TwoLegs(f.payer, f.payee, f.ccy, f.amount)
    BY <1>3, <1>13 DEF HandleOK, AddLeads
  <2>5. e.postings = f.postings /\ e.ref = f.ref /\ e.seq = seq + 1
    OBVIOUS
  <2>6. g.payer = f.payer /\ g.amount = f.amount
    BY <1>2 DEF SameRequest
  <2> HIDE DEF e
  <2>7. MovedBy(e, f.payer) = -f.amount
    BY <2>2, <2>3, <2>4, <2>5, PayerIsDebited
  <2>8. Evidence(e, g)
    BY <1>6, <2>1, <2>5, <2>6, <2>7 DEF Evidence
  <2>9. g.entry # 0 /\ Ends(g)
    BY <2>1, <2>2 DEF Ends
  <2> QED BY <1>6, <2>1, <2>8, <2>9 DEF HandleOK
<1> QED BY <1>2, <1>7, <1>8, <1>9, <1>10, <1>11, <1>12, <1>13 DEF Leads

(* The entries a call adds name a payment there is, or none. *)
LEMMA CoreStepRefs ==
  ASSUME TInv, HInv, NEW w \in Workers, CoreStep(w)
  PROVE  \A e \in journal' : e.ref \in Known \union {None}
<1>1. frame \in [Workers -> Frame(Ops, SettlementLabels)]
  BY DEF TInv, Frames
<1>2. Leads(frame[w], frame'[w])
  BY <1>1, CoreStepLeads
<1>3. CASE AddLeads(frame[w], frame'[w])
  <2>1. frame[w].ref \in Known \union {None}
    BY <1>3, RefsOfWorkers DEF AddLeads
  <2> QED BY <1>3, <2>1 DEF AddLeads, HInv, RefsKnown
<1>4. CASE journal' = journal
  BY <1>4 DEF HInv, RefsKnown
<1> QED BY <1>2, <1>3, <1>4
        DEF Leads, EnsureLeads, OpenLeads, FailLeads, FundsLeads, BookLeads, CheckLeads, tables
LEMMA ResolveShape ==
  ASSUME TInv, NEW w \in Workers, ResolveEngine(w)
  PROVE  /\ OwnStep(w) /\ frame'[w].op = frame[w].op /\ frame'[w].ref = frame[w].ref
         /\ frame'[w].entry = frame[w].entry /\ frame'[w].pc = "ensure"
<1> DEFINE k == Counterparty[engine[frame[w].bank]]
           g == [frame[w] EXCEPT !.pc = "ensure", !.then = "transfer", !.kind = k]
<1>1. frame' = [frame EXCEPT ![w] = g]
  BY DEF ResolveEngine
<1> HIDE DEF k
<1>2. g.op = frame[w].op /\ g.ref = frame[w].ref /\ g.entry = frame[w].entry /\ g.pc = "ensure"
  BY FrameHolds DEF Frame
<1> HIDE DEF g
<1> QED BY <1>1, <1>2 DEF TInv, OwnStep

LEMMA CoreStepOwn ==
  ASSUME TInv, NEW w \in Workers, CoreStep(w)
  PROVE  OwnStep(w) /\ SameRequest(frame[w], frame'[w]) /\ Leads(frame[w], frame'[w])
BY CoreStepLeads DEF TInv, Frames, OwnStep, CoreStep, EnsureFind, EnsureOpen,
   TransferLookup, TransferFunds, PostCheck, PostAdd, Goto, Reply, Book

LEMMA HandlerResolves ==
  ASSUME TInv, HInv, NEW w \in Workers, NEW p \in Known, Handles(w, p), ResolveEngine(w)
  PROVE  HandleOK(frame'[w], PaymentOf(p), accounts, journal)
<1> DEFINE f == frame[w]
           k == Counterparty[engine[f.bank]]
           g == [f EXCEPT !.pc = "ensure", !.then = "transfer", !.kind = k]
<1>1. f \in Frames /\ f.bank \in Banks /\ f.pc = "resolve_engine"
  BY FrameHolds DEF ResolveEngine, CoreFrameOK
<1>2. k \in InternalKinds
  BY <1>1 DEF TInv, RestOK, Engines, Counterparty, InternalKinds
<1>3. frame' = [frame EXCEPT ![w] = g]
  BY DEF ResolveEngine
<1> HIDE DEF k
<1>4. /\ g.pc = "ensure" /\ g.then = "transfer" /\ g.kind = k /\ g.payer = f.payer
      /\ g.amount = f.amount /\ g.entry = f.entry /\ g.overdraft = f.overdraft
  BY <1>1 DEF Frames, Frame
<1> HIDE DEF g
<1>5. frame'[w] = g
  BY <1>3 DEF TInv
<1>6. HandleOK(f, PaymentOf(p), accounts, journal)
  BY DEF HInv, HandlesOK
<1> QED BY <1>1, <1>2, <1>4, <1>5, <1>6 DEF HandleOK, Ends

(* update_payment_authorisation begins with what the payment says.         *)
LEMMA HandlerBegins ==
  ASSUME NEW f, NEW x, NEW as, NEW js,
         f.payer = x.debtor, f.amount = x.amount, f.pc = "resolve_engine", f.entry = 0,
         ~f.overdraft
  PROVE  HandleOK(f, x, as, js)
BY DEF HandleOK, Ends

LEMMA InitHandles == Init => HInv
<1> SUFFICES ASSUME Init PROVE HInv
  OBVIOUS
<1>1. /\ Known = {} /\ journal = Seed.journal
  BY DEF Init, CoreInit, Known, Stored
<1> QED BY <1>1, SettlementAssumption DEF HInv, HandlesOK, DebtorsOK, RefsKnown

(* Nothing but the payments moves. *)
LEMMA HandlesStill ==
  ASSUME TInv, HInv, [Next]_vars, UNCHANGED frame PROVE HandlesOK'
<1> SUFFICES ASSUME NEW v \in Workers, NEW p \in Known', Handles(v, p)'
             PROVE  HandleOK(frame[v], PaymentOf(p), accounts, journal)'
  BY DEF HandlesOK
<1>1. Handles(v, p) /\ p \in Known
  BY FrameHolds DEF RequestOK, Handles
<1>2. HandleOK(frame[v], PaymentOf(p), accounts, journal)
  BY <1>1 DEF HInv, HandlesOK
<1> QED BY <1>1, <1>2, InstructionsStay, HandleStays

(* Nothing is handled by a worker that does not settle.                    *)
LEMMA HandlesAside ==
  ASSUME TInv, HInv, [Next]_vars, NEW w \in Workers, OwnStep(w), frame'[w].op # "authorise"
  PROVE  HandlesOK'
BY HandlesStep DEF Handles

LEMMA DebtorsStay ==
  ASSUME TInv, HInv, [Next]_vars, Known' = Known PROVE DebtorsOK'
<1> SUFFICES ASSUME NEW p \in Known'
             PROVE  (/\ PaymentOf(p).amount \in Amounts
                     /\ \E a \in accounts : a.id = PaymentOf(p).debtor /\ ~IsInternal(a))'
  BY DEF DebtorsOK
<1>1. PaymentOf(p).amount \in Amounts /\ \E a \in accounts : a.id = PaymentOf(p).debtor /\ ~IsInternal(a)
  BY DEF HInv, DebtorsOK
<1>2. SameInstruction(PaymentOf(p), PaymentOf(p)') /\ accounts \subseteq accounts'
  BY InstructionsStay
<1> QED BY <1>1, <1>2 DEF SameInstruction, IsInternal

LEMMA InitiateHandles ==
  ASSUME TInv, HInv, [Next]_vars, NEW w \in Workers, InitiatePayment(w) PROVE HInv'
<1>1. UNCHANGED <<frame, accounts, journal>>
  BY DEF InitiatePayment, tables
<1>2. PICK p \in PaymentIds \ Known, a \in accounts, m \in Amounts :
        /\ ~IsInternal(a) /\ Known' = Known \union {p}
        /\ PaymentOf(p)' = [bank |-> a.bank, debtor |-> a.id, ccy |-> a.ccy, amount |-> m,
                            status |-> "RCVD", entry |-> 0, sca |-> FALSE, completions |-> 0]
        /\ \A q \in Known : PaymentOf(q)' = PaymentOf(q)
  BY InitiateShape
<1>3. DebtorsOK'
  <2> SUFFICES ASSUME NEW q \in Known'
               PROVE (/\ PaymentOf(q).amount \in Amounts
                      /\ \E i \in accounts : i.id = PaymentOf(q).debtor /\ ~IsInternal(i))'
    BY DEF DebtorsOK
  <2>1. CASE q = p
    <3>1. PaymentOf(p)'.debtor = a.id /\ PaymentOf(p)'.amount \in Amounts
      BY <1>2
    <3> QED BY <1>1, <1>2, <2>1, <3>1 DEF IsInternal
  <2>2. CASE q \in Known
    <3>1. /\ PaymentOf(q).amount \in Amounts
          /\ \E i \in accounts : i.id = PaymentOf(q).debtor /\ ~IsInternal(i)
      BY <2>2 DEF HInv, DebtorsOK
    <3> QED BY <1>1, <1>2, <2>2, <3>1 DEF IsInternal
  <2> QED BY <1>2, <2>1, <2>2
<1>4. RefsKnown'
  BY <1>1, <1>2 DEF HInv, RefsKnown
<1> QED BY <1>1, <1>3, <1>4, HandlesStill DEF HInv

LEMMA WorkerHandles ==
  ASSUME TInv, HInv, [Next]_vars, NEW w \in Workers, Accepts(w) \/ Serves(w) PROVE HInv'
<1>0. ASSUME UNCHANGED journal, Known' = Known, HandlesOK' PROVE HInv'
  BY <1>0, DebtorsStay DEF HInv, RefsKnown
<1>1. CASE InitiatePayment(w)
  BY <1>1, InitiateHandles
<1>2. CASE StartAuthorisation(w)
  <2>1. Known' = Known /\ UNCHANGED <<frame, journal>>
    BY <1>2, StartShape DEF StartAuthorisation, tables
  <2> QED BY <1>0, <2>1, HandlesStill
<1>3. CASE BeginAuthorise(w)
  <2>1. PICK p \in Stored, g \in Frames :
          /\ Known' = Known /\ SameInstruction(PaymentOf(p), PaymentOf(p)')
          /\ frame' = [frame EXCEPT ![w] = g]
          /\ g.op = "authorise" /\ g.pc = "resolve_engine" /\ g.ref = p /\ g.entry = 0
          /\ ~g.overdraft /\ g.payer = PaymentOf(p).debtor /\ g.amount = PaymentOf(p).amount
    BY <1>3, BeginAuthoriseShape
  <2>2. frame'[w] = g /\ OwnStep(w)
    BY <2>1 DEF TInv, OwnStep
  <2>3. HandleOK(frame'[w], PaymentOf(p)', accounts', journal')
    BY <2>1, <2>2, HandlerBegins DEF SameInstruction
  <2>4. HandlesOK'
    BY <2>1, <2>2, <2>3, HandlesStep DEF Handles
  <2> QED BY <1>0, <1>3, <2>1, <2>4 DEF BeginAuthorise, tables
<1>4. CASE ResolveEngine(w)
  <2>1. Known' = Known /\ UNCHANGED <<accounts, journal>> /\ \A p \in Known : PaymentOf(p)' = PaymentOf(p)
    BY <1>4, ResolveSaves DEF tables, AllSame
  <2>2. OwnStep(w) /\ frame'[w].op = frame[w].op /\ frame'[w].ref = frame[w].ref
    BY <1>4, ResolveShape
  <2>3. ASSUME NEW p \in Known, Handles(w, p)'
        PROVE  HandleOK(frame'[w], PaymentOf(p)', accounts', journal')
    BY <1>4, <2>1, <2>2, <2>3, HandlerResolves DEF Handles
  <2>4. HandlesOK'
    BY <2>1, <2>2, <2>3, HandlesStep
  <2> QED BY <1>0, <2>1, <2>4
<1>5. CASE CoreStep(w) /\ UNCHANGED payVars
  <2>1. Known' = Known /\ \A p \in Known : PaymentOf(p)' = PaymentOf(p)
    BY <1>5, StoreSame DEF payVars
  <2>2. OwnStep(w) /\ SameRequest(frame[w], frame'[w])
    BY <1>5, CoreStepOwn
  <2>3. ASSUME NEW p \in Known, Handles(w, p)'
        PROVE  HandleOK(frame'[w], PaymentOf(p)', accounts', journal')
    BY <1>5, <2>1, <2>2, <2>3, HandlerGoesOn DEF Handles, SameRequest
  <2>4. HandlesOK'
    BY <2>1, <2>2, <2>3, HandlesStep
  <2>5. RefsKnown'
    BY <1>5, <2>1, CoreStepRefs DEF RefsKnown
  <2> QED BY <2>1, <2>4, <2>5, DebtorsStay DEF HInv
<1>6. CASE RecordOutcome(w)
  <2>1. Known' = Known /\ frame' = [frame EXCEPT ![w] = IdleFrame]
    BY <1>6, RecordShape
  <2>2. OwnStep(w) /\ frame'[w].op # "authorise"
    BY <2>1 DEF TInv, OwnStep, IdleFrame
  <2> QED BY <1>0, <1>6, <2>1, <2>2, HandlesAside DEF RecordOutcome, tables
<1>7. CASE Promote(w)
  <2>1. Known' = Known
    BY <1>7, PromoteShape
  <2> QED BY <1>0, <1>7, <2>1, HandlesStill DEF Promote, tables
<1>8. CASE Aside(w)
  <2>1. Known' = Known
    BY <1>8, StoreSame DEF Aside
  <2> QED BY <1>0, <1>8, <2>1, HandlesAside DEF Aside
<1> QED BY <1>1, <1>2, <1>3, <1>4, <1>5, <1>6, <1>7, <1>8, WorkerDoes

LEMMA NextHandles == TInv /\ HInv /\ [Next]_vars => HInv'
<1> SUFFICES ASSUME TInv, HInv, [Next]_vars PROVE HInv'
  OBVIOUS
<1>0. ASSUME UNCHANGED journal, Known' = Known, HandlesOK' PROVE HInv'
  BY <1>0, DebtorsStay DEF HInv, RefsKnown
<1>1. CASE UNCHANGED <<frame, journal, payments, forgotten>>
  BY <1>0, <1>1, StoreSame, HandlesStill
<1>2. CASE Restart
  <2>1. HandlesOK'
    BY <1>2 DEF Restart, HandlesOK, Handles, IdleFrame
  <2> QED BY <1>0, <1>2, <2>1, RestartShape DEF Restart, tables
<1>3. CASE PurgeAssigns
  <2>1. PICK kept \in purging :
          /\ payments' = [p \in kept |-> PaymentOf(p)]
          /\ forgotten' = [p \in Known \ kept |-> PaymentOf(p)]
    BY <1>3 DEF PurgeAssigns
  <2>2. kept \in SUBSET Known
    BY DEF TInv, RestOK
  <2>3. Known' = Known
    BY <2>1, <2>2, PurgeShape
  <2> QED BY <1>0, <1>3, <2>3, HandlesStill DEF PurgeAssigns, tables
<1> QED BY <1>1, <1>2, <1>3, WorkerHandles DEF Next, PurgeReads, tables, history, vars

THEOREM HandlersKnowTheirPayments == Spec => [](TInv /\ HInv)
BY InitTyped, NextTyped, InitHandles, NextHandles, PTL DEF Spec
-----------------------------------------------------------------------------
(* What a step may do to a payment, its entries and the requests that      *)
(* settle it.                                                              *)

Handlers(p) == {w \in Workers : Handles(w, p)}

(* ... which have not added its entry. *)
Pending(p) == {w \in Handlers(p) : frame[w].entry = 0}

(* The payments the store has, or an assignment under way may bring back.  *)
Tracked == Stored \union UNION purging

SameEntries(p) == EntriesOf(p)' = EntriesOf(p)
SameHandlers(p) == Handlers(p)' = Handlers(p) /\ Pending(p)' = Pending(p)
SameState(p) == StatusOf(p)' = StatusOf(p) /\ PaymentOf(p)'.entry = PaymentOf(p).entry
SameSca(p) == PaymentOf(p)'.completions = PaymentOf(p).completions
SameTrack(p) == p \in Tracked' => p \in Tracked \/ Handlers(p) # {}

Calm(p) == SameEntries(p) /\ SameHandlers(p) /\ SameState(p) /\ SameSca(p) /\ SameTrack(p)

(* A restart: no request is left, and no payment tracked. *)
Lost(p) ==
  /\ SameEntries(p) /\ SameState(p) /\ SameSca(p)
  /\ Handlers(p)' = {} /\ Pending(p)' = {} /\ p \notin Tracked'

Received(p) ==
  /\ StatusOf(p)' = "RCVD" /\ PaymentOf(p)'.completions = 0
  /\ EntriesOf(p)' = {} /\ Handlers(p)' = {} /\ Pending(p)' = {}

(* Its SCA is completed, and w settles it. *)
Joined(p, w) ==
  /\ SameEntries(p) /\ SameState(p) /\ p \in Stored'
  /\ PaymentOf(p).completions < MaxAuthorisations
  /\ PaymentOf(p)'.completions = PaymentOf(p).completions + 1
  /\ w \notin Handlers(p)
  /\ Handlers(p)' = Handlers(p) \union {w} /\ Pending(p)' = Pending(p) \union {w}

(* w adds its entry. *)
Taken(p, w) ==
  /\ SameState(p) /\ SameSca(p)
  /\ w \in Pending(p) /\ Handlers(p)' = Handlers(p) /\ Pending(p)' = Pending(p) \ {w}
  /\ \E e \in journal' : EntriesOf(p)' = EntriesOf(p) \union {e}

(* w records a refusal, or nothing for another error. *)
Refused(p, w) ==
  /\ SameEntries(p) /\ SameSca(p)
  /\ w \in Pending(p) /\ Handlers(p)' = Handlers(p) \ {w} /\ Pending(p)' = Pending(p) \ {w}
  /\ StatusOf(p)' = "RJCT" \/ SameState(p)

(* w records the settlement. *)
Recorded(p, w) ==
  /\ SameEntries(p) /\ SameSca(p)
  /\ w \in Handlers(p) \ Pending(p)
  /\ Handlers(p)' = Handlers(p) \ {w} /\ Pending(p)' = Pending(p)
  /\ StatusOf(p)' \in {"ACTC", "ACSC"} /\ p \in Stored'
  /\ \E e \in EntriesOf(p) :
       /\ e.seq = PaymentOf(p)'.entry
       /\ MovedBy(e, PaymentOf(p).debtor) = -PaymentOf(p).amount

Promoted(p) ==
  /\ SameEntries(p) /\ SameHandlers(p) /\ SameSca(p)
  /\ StatusOf(p) = "ACTC" /\ StatusOf(p)' = "ACSC"
  /\ PaymentOf(p)'.entry = PaymentOf(p).entry

Happens(p) ==
  Promoted(p) \/ \E w \in Workers : Joined(p, w) \/ Taken(p, w) \/ Refused(p, w) \/ Recorded(p, w)

CalmBut(p) == \A q \in Known : q # p => Calm(q)

Effect ==
  \/ Known' = Known /\ \A p \in Known : Lost(p)
  \/ Known' = Known /\ \A p \in Known : Calm(p)
  \/ \E p \in PaymentIds \ Known : Known' = Known \union {p} /\ Received(p) /\ CalmBut(p)
  \/ \E p \in Known : Known' = Known /\ Happens(p) /\ CalmBut(p)

LEMMA HandlersStay ==
  ASSUME NEW w, OwnStep(w), NEW p, Handles(w, p)' <=> Handles(w, p),
         Handles(w, p) => frame'[w].entry = frame[w].entry
  PROVE  SameHandlers(p)
<1>1. \A v \in Workers : Handles(v, p)' <=> Handles(v, p)
  BY DEF OwnStep, Handles
<1>2. \A v \in Workers : Handles(v, p) => frame'[v].entry = frame[v].entry
  BY DEF OwnStep
<1>3. Handlers(p)' = Handlers(p)
  BY <1>1 DEF Handlers
<1>4. Pending(p)' = Pending(p)
  BY <1>2, <1>3 DEF Handlers, Pending
<1> QED BY <1>3, <1>4 DEF SameHandlers

LEMMA EntriesStay == ASSUME UNCHANGED journal, NEW p PROVE SameEntries(p)
BY DEF SameEntries, EntriesOf

(* A payment the step does not concern. *)
LEMMA CalmPayment ==
  ASSUME NEW p \in Known, PaymentOf(p)' = PaymentOf(p), SameEntries(p), SameHandlers(p),
         SameTrack(p)
  PROVE  Calm(p)
BY DEF Calm, SameState, SameSca, StatusOf

LEMMA CalmAside ==
  ASSUME UNCHANGED <<journal, payments, forgotten, purging>>,
         NEW w, OwnStep(w), NEW p \in Known, Handles(w, p)' <=> Handles(w, p),
         Handles(w, p) => frame'[w].entry = frame[w].entry
  PROVE  Calm(p)
<1>1. PaymentOf(p)' = PaymentOf(p) /\ SameTrack(p)
  BY StoreSame DEF SameTrack, Tracked
<1> QED BY <1>1, HandlersStay, EntriesStay, CalmPayment

LEMMA InitiateEffect ==
  ASSUME TInv, HInv, NEW w \in Workers, InitiatePayment(w) PROVE Effect
<1>1. UNCHANGED <<frame, journal, purging>>
  BY DEF InitiatePayment, tables, faults
<1>2. PICK p \in PaymentIds \ Known, a \in accounts, m \in Amounts :
        /\ Stored' = Stored \union {p} /\ Known' = Known \union {p}
        /\ PaymentOf(p)' = [bank |-> a.bank, debtor |-> a.id, ccy |-> a.ccy, amount |-> m,
                            status |-> "RCVD", entry |-> 0, sca |-> FALSE, completions |-> 0]
        /\ \A q \in Known : PaymentOf(q)' = PaymentOf(q)
  BY InitiateShape
<1>3. Received(p)
  <2>1. p # None
    BY SeedAssumption DEF PaymentIds
  <2>2. EntriesOf(p)' = {}
    BY <1>1, <1>2, <2>1 DEF HInv, RefsKnown, EntriesOf
  <2>3. \A v \in Workers : ~Handles(v, p)
    BY <1>2, FrameHolds DEF Handles, RequestOK
  <2>4. Handlers(p)' = {} /\ Pending(p)' = {}
    BY <1>1, <2>3 DEF Handlers, Pending, Handles
  <2>5. StatusOf(p)' = "RCVD" /\ PaymentOf(p)'.completions = 0
    BY <1>2 DEF StatusOf
  <2> QED BY <2>2, <2>4, <2>5 DEF Received
<1>4. ASSUME NEW q \in Known PROVE Calm(q)
  <2>1. SameTrack(q)
    BY <1>1, <1>2 DEF SameTrack, Tracked
  <2>2. SameHandlers(q)
    BY <1>1 DEF SameHandlers, Handlers, Pending, Handles
  <2> QED BY <1>1, <1>2, <2>1, <2>2, EntriesStay, CalmPayment
<1> QED BY <1>2, <1>3, <1>4 DEF Effect, CalmBut

LEMMA StartEffect ==
  ASSUME TInv, NEW w \in Workers, StartAuthorisation(w) PROVE Effect
<1>1. UNCHANGED <<frame, journal, purging>>
  BY DEF StartAuthorisation, tables, faults
<1>2. PICK p \in Stored :
        /\ Stored' = Stored /\ Known' = Known /\ OthersSame(p)
        /\ PaymentOf(p)'.status = StatusOf(p) /\ PaymentOf(p)'.entry = PaymentOf(p).entry
        /\ PaymentOf(p)'.completions = PaymentOf(p).completions
  BY StartShape
<1>3. ASSUME NEW q \in Known PROVE Calm(q)
  <2>1. SameTrack(q)
    BY <1>1, <1>2 DEF SameTrack, Tracked
  <2>2. SameHandlers(q)
    BY <1>1 DEF SameHandlers, Handlers, Pending, Handles
  <2>3. SameEntries(q)
    BY <1>1, EntriesStay
  <2>4. CASE q = p
    BY <1>2, <2>1, <2>2, <2>3, <2>4 DEF Calm, SameState, SameSca, StatusOf
  <2>5. CASE q # p
    BY <1>2, <2>1, <2>2, <2>3, <2>5, CalmPayment DEF OthersSame
  <2> QED BY <2>4, <2>5
<1> QED BY <1>2, <1>3 DEF Effect

LEMMA BeginEffect ==
  ASSUME TInv, NEW w \in Workers, BeginAuthorise(w) PROVE Effect
<1>1. UNCHANGED <<journal, purging>>
  BY DEF BeginAuthorise, tables, faults
<1>2. PICK p \in Stored, g \in Frames :
        /\ Stored' = Stored /\ Known' = Known /\ OthersSame(p)
        /\ PaymentOf(p)'.status = StatusOf(p) /\ PaymentOf(p)'.entry = PaymentOf(p).entry
        /\ PaymentOf(p).completions < MaxAuthorisations
        /\ PaymentOf(p)'.completions = PaymentOf(p).completions + 1
        /\ frame' = [frame EXCEPT ![w] = g]
        /\ g.op = "authorise" /\ g.ref = p /\ g.entry = 0
  BY BeginAuthoriseShape
<1>3. OwnStep(w) /\ frame'[w] = g
  BY <1>2 DEF TInv, OwnStep
<1>4. \A q : ~Handles(w, q)
  BY OpInCycle DEF BeginAuthorise, Idle, Handles
<1>5. ASSUME NEW q \in Known, q # p PROVE Calm(q)
  <2>1. SameTrack(q)
    BY <1>1, <1>2 DEF SameTrack, Tracked
  <2>2. SameHandlers(q)
    BY <1>2, <1>3, <1>4, <1>5, HandlersStay DEF Handles
  <2> QED BY <1>1, <1>2, <1>5, <2>1, <2>2, EntriesStay, CalmPayment DEF OthersSame
<1>6. Joined(p, w)
  <2>1. \A v \in Workers : Handles(v, p)' <=> Handles(v, p) \/ v = w
    BY <1>2, <1>3 DEF OwnStep, Handles
  <2>2. Handlers(p)' = Handlers(p) \union {w} /\ w \notin Handlers(p)
    BY <1>4, <2>1 DEF Handlers
  <2>3. Pending(p)' = Pending(p) \union {w}
    BY <1>2, <1>3, <2>2 DEF Pending, OwnStep, Handlers
  <2> QED BY <1>1, <1>2, <2>2, <2>3, EntriesStay DEF Joined, SameState, StatusOf
<1>7. p \in Known
  BY DEF Known
<1> QED BY <1>2, <1>5, <1>6, <1>7 DEF Effect, Happens, CalmBut

LEMMA CoreEffect ==
  ASSUME TInv, HInv, NEW w \in Workers, CoreStep(w), UNCHANGED payVars PROVE Effect
<1>1. UNCHANGED <<payments, forgotten, purging>> /\ Known' = Known
  BY StoreSame DEF payVars
<1>2. /\ OwnStep(w) /\ Leads(frame[w], frame'[w])
      /\ frame'[w].op = frame[w].op /\ frame'[w].ref = frame[w].ref
  BY CoreStepOwn DEF SameRequest
<1>3. \A p : Handles(w, p)' <=> Handles(w, p)
  BY <1>2 DEF Handles
<1>4. CASE ~AddLeads(frame[w], frame'[w])
  <2>1. UNCHANGED journal /\ frame'[w].entry = frame[w].entry
    BY <1>2, <1>4 DEF Leads, EnsureLeads, OpenLeads, FailLeads, FundsLeads, BookLeads,
                      CheckLeads, tables
  <2> QED BY <1>1, <1>2, <1>3, <2>1, CalmAside DEF Effect
<1>5. CASE AddLeads(frame[w], frame'[w])
  <2> DEFINE f == frame[w]
             e == [seq |-> seq + 1, bank |-> f.bank, postings |-> f.postings, ref |-> f.ref]
  <2>1. journal' = journal \union {e} /\ e.ref = f.ref
    BY <1>5 DEF AddLeads
  <2>2. f.pc = "post" /\ frame'[w].entry = seq + 1 /\ seq \in Nat
    BY <1>5 DEF AddLeads, TInv, DbInv, DbTypeOK
  <2> HIDE DEF e
  <2>3. ASSUME NEW q \in Known, q # f.ref PROVE SameEntries(q)
    BY <2>1, <2>3 DEF SameEntries, EntriesOf
  <2>4. ASSUME NEW q \in Known, ~Handles(w, q), q # f.ref PROVE Calm(q)
    <3>1. SameHandlers(q)
      BY <1>2, <1>3, <2>4, HandlersStay
    <3>2. PaymentOf(q)' = PaymentOf(q) /\ SameTrack(q)
      BY <1>1, StoreSame DEF SameTrack, Tracked
    <3> QED BY <2>3, <2>4, <3>1, <3>2, CalmPayment
  <2>5. CASE f.op # "authorise"
    <3>1. f.ref = None
      BY <2>2, <2>5, FrameHolds DEF RequestOK, Frame, Ops, SettlementOps
    <3>2. \A q \in Known : q # None
      BY SeedAssumption DEF TInv, StoreOK, Known, PaymentIds
    <3>3. \A q \in Known : ~Handles(w, q)
      BY <2>5 DEF Handles
    <3> QED BY <1>1, <2>4, <3>1, <3>2, <3>3 DEF Effect
  <2>6. CASE f.op = "authorise"
    <3>1. PICK p \in Known : p = f.ref /\ Handles(w, p)
      BY <2>6, FrameHolds DEF RequestOK, Handles
    <3>2. f.entry = 0
      BY <2>2, <3>1 DEF HInv, HandlesOK, HandleOK, Ends
    <3>3. \A v \in Workers : Handles(v, p)' <=> Handles(v, p)
      BY <1>2, <1>3 DEF OwnStep, Handles
    <3>4. Handlers(p)' = Handlers(p)
      BY <3>3 DEF Handlers
    <3>5. frame'[w].entry # 0
      BY <2>2
    <3>6. Pending(p)' = Pending(p) \ {w} /\ w \in Pending(p)
      BY <1>2, <3>1, <3>2, <3>4, <3>5 DEF Pending, OwnStep, Handlers
    <3>7. EntriesOf(p)' = EntriesOf(p) \union {e} /\ e \in journal'
      BY <2>1, <3>1 DEF EntriesOf
    <3>8. SameState(p) /\ SameSca(p)
      BY <1>1, StoreSame DEF SameState, SameSca, StatusOf
    <3>9. Taken(p, w)
      BY <3>4, <3>6, <3>7, <3>8 DEF Taken
    <3>10. \A q \in Known : q # p => ~Handles(w, q)
      BY <3>1 DEF Handles
    <3> QED BY <1>1, <2>4, <3>1, <3>9, <3>10 DEF Effect, Happens, CalmBut
  <2> QED BY <2>5, <2>6
<1> QED BY <1>4, <1>5

LEMMA RecordEffect ==
  ASSUME TInv, HInv, NEW w \in Workers, RecordOutcome(w) PROVE Effect
<1> DEFINE f == frame[w]
<1>1. UNCHANGED <<journal, purging>> /\ f.pc = "return" /\ f.op = "authorise"
  BY DEF RecordOutcome, tables, faults
<1>2. PICK p \in Known :
        /\ p = f.ref /\ frame' = [frame EXCEPT ![w] = IdleFrame] /\ Known' = Known
        /\ \/ f.result \notin {"ok", "insufficient"} /\ AllSame /\ Stored' = Stored
           \/ /\ Stored' = Stored \union {p} /\ OthersSame(p)
              /\ PaymentOf(p)'.completions = PaymentOf(p).completions
              /\ \/ /\ f.result = "ok" /\ PaymentOf(p)'.status \in {"ACTC", "ACSC"}
                    /\ PaymentOf(p)'.entry = f.entry
                 \/ f.result = "insufficient" /\ PaymentOf(p)'.status = "RJCT"
  BY RecordShape
<1>3. OwnStep(w) /\ frame'[w].op # "authorise"
  BY <1>2 DEF TInv, OwnStep, IdleFrame
<1>4. Handles(w, p) /\ HandleOK(f, PaymentOf(p), accounts, journal)
  BY <1>1, <1>2 DEF Handles, HInv, HandlesOK
<1>5. OthersSame(p)
  BY <1>2 DEF AllSame, OthersSame
<1>6. CalmBut(p)
  <2> SUFFICES ASSUME NEW q \in Known, q # p PROVE Calm(q)
    BY DEF CalmBut
  <2>1. SameTrack(q)
    BY <1>1, <1>2 DEF SameTrack, Tracked
  <2>2. SameHandlers(q)
    BY <1>2, <1>3, HandlersStay DEF Handles
  <2> QED BY <1>1, <1>5, <2>1, <2>2, EntriesStay, CalmPayment DEF OthersSame
<1>7. SameEntries(p)
  BY <1>1, EntriesStay
<1>8. /\ w \in Handlers(p) /\ Handlers(p)' = Handlers(p) \ {w}
      /\ Pending(p)' = Pending(p) \ {w}
  <2>1. \A v \in Workers : Handles(v, p)' <=> Handles(v, p) /\ v # w
    BY <1>3 DEF OwnStep, Handles
  <2>2. w \in Handlers(p) /\ Handlers(p)' = Handlers(p) \ {w}
    BY <1>4, <2>1 DEF Handlers
  <2> QED BY <1>3, <2>2 DEF Pending, OwnStep, Handlers
<1>9. CASE f.result = "ok"
  <2>1. f.entry # 0
    BY <1>1, <1>4, <1>9 DEF HandleOK, Ends
  <2>2. PICK e \in journal : Evidence(e, f)
    BY <1>1, <1>4, <1>9 DEF HandleOK, Ends
  <2>3. /\ StatusOf(p)' \in {"ACTC", "ACSC"} /\ PaymentOf(p)'.entry = f.entry /\ SameSca(p)
    BY <1>2, <1>9 DEF SameSca, StatusOf
  <2>4. e \in EntriesOf(p) /\ e.seq = f.entry
    BY <1>2, <2>2 DEF Evidence, EntriesOf
  <2>5. MovedBy(e, PaymentOf(p).debtor) = -PaymentOf(p).amount
    BY <1>4, <2>2 DEF Evidence, HandleOK
  <2>6. w \notin Pending(p)
    BY <2>1 DEF Pending
  <2>7. Recorded(p, w)
    BY <1>2, <1>7, <1>8, <1>9, <2>3, <2>4, <2>5, <2>6 DEF Recorded
  <2> QED BY <1>2, <1>6, <2>7 DEF Effect, Happens
<1>10. CASE f.result # "ok"
  <2>1. w \in Pending(p)
    BY <1>4, <1>8, <1>10 DEF Pending, HandleOK, Ends
  <2>2. SameSca(p) /\ (StatusOf(p)' = "RJCT" \/ SameState(p))
    BY <1>2, <1>10 DEF AllSame, SameSca, SameState, StatusOf
  <2>3. Refused(p, w)
    BY <1>7, <1>8, <2>1, <2>2 DEF Refused
  <2> QED BY <1>2, <1>6, <2>3 DEF Effect, Happens
<1> QED BY <1>9, <1>10

LEMMA PromoteEffect ==
  ASSUME TInv, NEW w \in Workers, Promote(w) PROVE Effect
<1>1. UNCHANGED <<frame, journal, purging>>
  BY DEF Promote, tables, faults
<1>2. PICK p \in Known :
        /\ Known' = Known
        /\ \/ AllSame /\ Stored' = Stored
           \/ /\ Stored' = Stored \union {p} /\ OthersSame(p)
              /\ StatusOf(p) = "ACTC" /\ PaymentOf(p)'.status = "ACSC"
              /\ PaymentOf(p)'.entry = PaymentOf(p).entry
              /\ PaymentOf(p)'.completions = PaymentOf(p).completions
  BY PromoteShape
<1>3. ASSUME NEW q \in Known PROVE SameHandlers(q) /\ SameEntries(q)
  BY <1>1, EntriesStay DEF SameHandlers, Handlers, Pending, Handles
<1>4. ASSUME NEW q \in Known, q # p \/ (AllSame /\ Stored' = Stored) PROVE Calm(q)
  <2>1. SameTrack(q) /\ PaymentOf(q)' = PaymentOf(q)
    BY <1>1, <1>2, <1>4 DEF SameTrack, Tracked, AllSame, OthersSame
  <2> QED BY <1>3, <2>1, CalmPayment
<1>5. CASE AllSame /\ Stored' = Stored
  BY <1>2, <1>4, <1>5 DEF Effect
<1>6. CASE ~(AllSame /\ Stored' = Stored)
  <2>1. Promoted(p)
    BY <1>2, <1>3, <1>6 DEF Promoted, SameSca, StatusOf
  <2> QED BY <1>2, <1>4, <2>1 DEF Effect, Happens, CalmBut
<1> QED BY <1>5, <1>6

(* What any step does to the payments.                                     *)
LEMMA StepEffect == ASSUME TInv, HInv, [Next]_vars PROVE Effect
<1>0. ASSUME UNCHANGED <<frame, journal>>, Known' = Known, Tracked' \subseteq Tracked,
             \A p \in Known : PaymentOf(p)' = PaymentOf(p)
      PROVE  Effect
  <2>1. ASSUME NEW q \in Known PROVE SameHandlers(q) /\ SameEntries(q)
    BY <1>0, EntriesStay DEF SameHandlers, Handlers, Pending, Handles
  <2> QED BY <1>0, <2>1, CalmPayment DEF Effect, SameTrack
<1>1. CASE UNCHANGED vars
  BY <1>0, <1>1, StoreSame DEF vars, Tracked
<1>2. CASE PurgeReads
  BY <1>0, <1>2, StoreSame DEF PurgeReads, tables, history, Tracked
<1>3. CASE PurgeAssigns
  <2>1. PICK kept \in purging :
          /\ purging' = purging \ {kept}
          /\ payments' = [p \in kept |-> PaymentOf(p)]
          /\ forgotten' = [p \in Known \ kept |-> PaymentOf(p)]
    BY <1>3 DEF PurgeAssigns
  <2>2. kept \in SUBSET Known
    BY DEF TInv, RestOK
  <2>3. Stored' = kept /\ Known' = Known /\ \A q \in Known : PaymentOf(q)' = PaymentOf(q)
    BY <2>1, <2>2, PurgeShape
  <2>4. Tracked' \subseteq Tracked
    BY <2>1, <2>3 DEF Tracked
  <2> QED BY <1>0, <1>3, <2>3, <2>4 DEF PurgeAssigns, tables
<1>4. CASE Restart
  <2>1. Known' = Known /\ Tracked' = {} /\ \A q \in Known : PaymentOf(q)' = PaymentOf(q)
    BY <1>4, RestartShape DEF Restart, Tracked
  <2>2. \A v \in Workers : frame'[v] = IdleFrame
    BY <1>4 DEF Restart
  <2>3. UNCHANGED journal
    BY <1>4 DEF Restart, tables
  <2>4. ASSUME NEW q \in Known PROVE Lost(q)
    <3>1. Handlers(q)' = {} /\ Pending(q)' = {}
      BY <2>2 DEF Handlers, Pending, Handles, IdleFrame
    <3> QED BY <2>1, <2>3, <3>1, EntriesStay DEF Lost, SameState, SameSca, StatusOf
  <2> QED BY <2>1, <2>4 DEF Effect
<1>5. ASSUME NEW w \in Workers, Accepts(w) \/ Serves(w) PROVE Effect
  <2>1. CASE ResolveEngine(w)
    <3>1. PICK p \in Known : /\ p = frame[w].ref /\ frame[w].op = "authorise"
                             /\ Known' = Known /\ Stored' = Stored \union {p} /\ AllSame
                             /\ UNCHANGED <<journal, purging>>
      BY <2>1, ResolveSaves DEF tables
    <3>2. Handlers(p) # {}
      BY <3>1 DEF Handlers, Handles
    <3>3. ASSUME NEW q \in Known PROVE Calm(q)
      <4>1. SameHandlers(q)
        BY <2>1, ResolveShape, HandlersStay DEF Handles
      <4>2. SameTrack(q) /\ PaymentOf(q)' = PaymentOf(q)
        BY <3>1, <3>2 DEF SameTrack, Tracked, AllSame
      <4> QED BY <3>1, <4>1, <4>2, EntriesStay, CalmPayment
    <3> QED BY <3>1, <3>3 DEF Effect
  <2>2. CASE Aside(w)
    <3>1. UNCHANGED <<journal, payments, forgotten, purging>> /\ Known' = Known
      BY <2>2, StoreSame DEF Aside
    <3> QED BY <2>2, <3>1, CalmAside DEF Effect, Handles, Aside
  <2> QED BY <1>5, <2>1, <2>2, WorkerDoes, InitiateEffect, StartEffect, BeginEffect, CoreEffect,
             RecordEffect, PromoteEffect
<1> QED BY <1>1, <1>2, <1>3, <1>4, <1>5 DEF Next
-----------------------------------------------------------------------------
(* The money of a payment: how often it is taken, and what its status says *)
(* of it.                                                                  *)

Counted(p) ==
  Cardinality(EntriesOf(p)) + Cardinality(Pending(p)) <= PaymentOf(p).completions

Handled(p) ==
  Cardinality(Handlers(p)) + (IF StatusOf(p) = "RCVD" THEN 0 ELSE 1) <= PaymentOf(p).completions

Capped(p) == PaymentOf(p).completions <= MaxAuthorisations

(* Its status names the entry that took its money. *)
Named(p) ==
  StatusOf(p) \in {"ACTC", "ACSC"} =>
    \E e \in EntriesOf(p) :
      e.seq = PaymentOf(p).entry /\ MovedBy(e, PaymentOf(p).debtor) = -PaymentOf(p).amount

(* Whether the store has the payment or a purge is about to put it back,    *)
(* unless it was settled or is being settled its money has not moved.      *)
Unmoved(p) ==
  /\ p \in Tracked /\ StatusOf(p) \in {"RCVD", "RJCT"} /\ PaymentOf(p).completions <= 1
  /\ Handlers(p) = {}
  => EntriesOf(p) = {}

MoneyOK(p) == Counted(p) /\ Handled(p) /\ Capped(p) /\ Named(p) /\ Unmoved(p)

MoneyInv == \A p \in Known : MoneyOK(p)

LEMMA Joining ==
  ASSUME NEW S, IsFiniteSet(S), NEW x, x \notin S
  PROVE  Cardinality(S) \in Nat /\ Cardinality(S \union {x}) = Cardinality(S) + 1
<1>1. Cardinality(S) \in Nat
  BY FS_CardinalityType
<1>2. Cardinality(S \union {x}) = IF x \in S THEN Cardinality(S) ELSE Cardinality(S) + 1
  BY FS_AddElement
<1> QED BY <1>1, <1>2

LEMMA Leaving ==
  ASSUME NEW S, IsFiniteSet(S), NEW x \in S
  PROVE  Cardinality(S) \in Nat \ {0} /\ Cardinality(S \ {x}) = Cardinality(S) - 1
<1>1. IsFiniteSet(S \ {x})
  BY FS_RemoveElement
<1>2. Cardinality((S \ {x}) \union {x}) = Cardinality(S \ {x}) + 1 /\ Cardinality(S \ {x}) \in Nat
  BY <1>1, Joining
<1>3. (S \ {x}) \union {x} = S
  OBVIOUS
<1> QED BY <1>2, <1>3

(* Finitely many entries and requests concern a payment. *)
LEMMA FewConcern ==
  ASSUME TInv, IsFiniteSet(Workers), NEW p
  PROVE  /\ IsFiniteSet(EntriesOf(p)) /\ IsFiniteSet(Handlers(p)) /\ IsFiniteSet(Pending(p))
         /\ Cardinality(EntriesOf(p)) \in Nat /\ Cardinality(Handlers(p)) \in Nat
         /\ Cardinality(Pending(p)) \in Nat
<1>1. /\ EntriesOf(p) \subseteq journal /\ Handlers(p) \subseteq Workers
      /\ Pending(p) \subseteq Workers
  BY DEF EntriesOf, Handlers, Pending
<1>2. IsFiniteSet(EntriesOf(p)) /\ IsFiniteSet(Handlers(p)) /\ IsFiniteSet(Pending(p))
  BY <1>1, FS_Subset DEF TInv, FiniteDb
<1> QED BY <1>2, FS_CardinalityType

LEMMA StatusIsOne ==
  ASSUME TInv, NEW p \in Known
  PROVE  StatusOf(p) \in Statuses /\ PaymentOf(p).completions \in Nat
BY DEF TInv, StoreOK, Payment, StatusOf

(* One completion leaves room for one entry: a request that has yet to add *)
(* it, and one that has to record it, is the payment's first.              *)
LEMMA FirstPending ==
  ASSUME TInv, IsFiniteSet(Workers), NEW p \in Known, Counted(p), Handled(p),
         PaymentOf(p).completions <= 1, NEW w \in Handlers(p)
  PROVE  StatusOf(p) = "RCVD" /\ (w \in Pending(p) => EntriesOf(p) = {})
<1>1. Cardinality(Handlers(p)) # 0
  BY FewConcern, Leaving
<1>2. StatusOf(p) = "RCVD"
  BY <1>1, FewConcern, StatusIsOne DEF Handled
<1>3. ASSUME w \in Pending(p) PROVE EntriesOf(p) = {}
  <2>1. Cardinality(Pending(p)) # 0
    BY <1>3, FewConcern, Leaving
  <2>2. Cardinality(EntriesOf(p)) = 0
    BY <2>1, FewConcern, StatusIsOne DEF Counted
  <2> QED BY <2>2, FewConcern, FS_EmptySet
<1> QED BY <1>2, <1>3

LEMMA CountedKept ==
  ASSUME TInv, TInv', IsFiniteSet(Workers), NEW p \in Known, Counted(p),
         Lost(p) \/ Calm(p) \/ Happens(p)
  PROVE  Counted(p)'
<1> DEFINE es == EntriesOf(p)
           ps == Pending(p)
           n == PaymentOf(p).completions
<1>1. /\ IsFiniteSet(es) /\ IsFiniteSet(ps) /\ n \in Nat
      /\ Cardinality(es) \in Nat /\ Cardinality(ps) \in Nat
  BY FewConcern, StatusIsOne
<1>2. CASE Lost(p)
  <2>1. es' = es /\ ps' = {} /\ n' = n
    BY <1>2 DEF Lost, SameEntries, SameSca
  <2> HIDE DEF es, ps, n
  <2> QED BY <1>1, <2>1, FS_EmptySet DEF Counted, es, ps, n
<1>3. CASE Calm(p) \/ Promoted(p)
  BY <1>3 DEF Calm, Promoted, SameEntries, SameHandlers, SameSca, Counted
<1>4. ASSUME NEW w \in Workers, Joined(p, w) PROVE Counted(p)'
  <2>1. es' = es /\ ps' = ps \union {w} /\ w \notin ps /\ n' = n + 1
    BY <1>4 DEF Joined, SameEntries, Pending
  <2>2. Cardinality(ps \union {w}) = Cardinality(ps) + 1
    BY <1>1, <2>1, Joining
  <2> QED BY <1>1, <2>1, <2>2 DEF Counted
<1>5. ASSUME NEW w \in Workers, Taken(p, w) PROVE Counted(p)'
  <2>1. PICK e : es' = es \union {e} /\ ps' = ps \ {w} /\ w \in ps /\ n' = n
    BY <1>5 DEF Taken, SameSca
  <2>2. Cardinality(es \union {e}) <= Cardinality(es) + 1 /\ Cardinality(es \union {e}) \in Nat
    <3>1. Cardinality(es \union {e}) = IF e \in es THEN Cardinality(es) ELSE Cardinality(es) + 1
      BY <1>1, FS_AddElement
    <3> QED BY <1>1, <3>1
  <2>3. Cardinality(ps \ {w}) = Cardinality(ps) - 1
    BY <1>1, <2>1, Leaving
  <2> QED BY <1>1, <2>1, <2>2, <2>3 DEF Counted
<1>6. ASSUME NEW w \in Workers, Refused(p, w) PROVE Counted(p)'
  <2>1. es' = es /\ ps' = ps \ {w} /\ w \in ps /\ n' = n
    BY <1>6 DEF Refused, SameEntries, SameSca
  <2>2. Cardinality(ps \ {w}) = Cardinality(ps) - 1
    BY <1>1, <2>1, Leaving
  <2> QED BY <1>1, <2>1, <2>2 DEF Counted
<1>7. ASSUME NEW w \in Workers, Recorded(p, w) PROVE Counted(p)'
  BY <1>7 DEF Recorded, SameEntries, SameSca, Counted
<1> QED BY <1>2, <1>3, <1>4, <1>5, <1>6, <1>7 DEF Happens

LEMMA HandledKept ==
  ASSUME TInv, TInv', IsFiniteSet(Workers), NEW p \in Known, p \in Known', Handled(p),
         Lost(p) \/ Calm(p) \/ Happens(p)
  PROVE  Handled(p)'
<1> DEFINE hs == Handlers(p)
           n == PaymentOf(p).completions
           st == StatusOf(p)
<1>1. /\ IsFiniteSet(hs) /\ n \in Nat /\ Cardinality(hs) \in Nat
  BY FewConcern, StatusIsOne
<1>2. CASE Lost(p)
  <2>1. hs' = {} /\ n' = n /\ st' = st
    BY <1>2 DEF Lost, SameState, SameSca
  <2>2. Cardinality(hs') = 0
    BY <2>1, FS_EmptySet
  <2> QED BY <1>1, <2>1, <2>2 DEF Handled
<1>3. CASE Calm(p) \/ Promoted(p)
  BY <1>1, <1>3 DEF Calm, Promoted, SameHandlers, SameSca, SameState, Handled
<1>4. ASSUME NEW w \in Workers, Joined(p, w) PROVE Handled(p)'
  <2>1. hs' = hs \union {w} /\ w \notin hs /\ n' = n + 1 /\ st' = st
    BY <1>4 DEF Joined, SameState
  <2>2. Cardinality(hs \union {w}) = Cardinality(hs) + 1
    BY <1>1, <2>1, Joining
  <2> QED BY <1>1, <2>1, <2>2 DEF Handled
<1>5. ASSUME NEW w \in Workers, Taken(p, w) PROVE Handled(p)'
  BY <1>5 DEF Taken, SameState, SameSca, Handled
<1>6. ASSUME NEW w \in Workers, Refused(p, w) \/ Recorded(p, w) PROVE Handled(p)'
  <2>1. hs' = hs \ {w} /\ w \in hs /\ n' = n
    BY <1>6 DEF Refused, Recorded, SameSca, Pending
  <2>2. Cardinality(hs \ {w}) = Cardinality(hs) - 1
    BY <1>1, <2>1, Leaving
  <2> QED BY <1>1, <2>1, <2>2 DEF Handled
<1> QED BY <1>2, <1>3, <1>4, <1>5, <1>6 DEF Happens

LEMMA CappedKept ==
  ASSUME TInv, NEW p \in Known, Capped(p), Lost(p) \/ Calm(p) \/ Happens(p)
  PROVE  Capped(p)'
<1>1. PaymentOf(p).completions \in Nat /\ MaxAuthorisations \in Nat
  BY StatusIsOne, SettlementAssumption
<1>2. \/ PaymentOf(p)'.completions = PaymentOf(p).completions
      \/ /\ PaymentOf(p).completions < MaxAuthorisations
         /\ PaymentOf(p)'.completions = PaymentOf(p).completions + 1
  BY DEF Lost, Calm, Happens, Promoted, Joined, Taken, Refused, Recorded, SameSca
<1> QED BY <1>1, <1>2 DEF Capped

LEMMA NamedKept ==
  ASSUME TInv, [Next]_vars, NEW p \in Known, Named(p), Lost(p) \/ Calm(p) \/ Happens(p)
  PROVE  Named(p)'
<1>1. SameInstruction(PaymentOf(p), PaymentOf(p)')
  BY InstructionsStay
<1>2. /\ EntriesOf(p) \subseteq EntriesOf(p)'
      /\ \/ SameState(p)
         \/ StatusOf(p)' = "RJCT"
         \/ StatusOf(p) = "ACTC" /\ PaymentOf(p)'.entry = PaymentOf(p).entry
         \/ \E e \in EntriesOf(p) :
              /\ e.seq = PaymentOf(p)'.entry
              /\ MovedBy(e, PaymentOf(p).debtor) = -PaymentOf(p).amount
  BY DEF Lost, Calm, Happens, Promoted, Joined, Taken, Refused, Recorded, SameEntries
<1> QED BY <1>1, <1>2 DEF Named, SameInstruction, SameState

LEMMA UnmovedKept ==
  ASSUME TInv, TInv', IsFiniteSet(Workers), NEW p \in Known,
         Counted(p), Handled(p), Unmoved(p), Lost(p) \/ Calm(p) \/ Happens(p)
  PROVE  Unmoved(p)'
<1>1. CASE Lost(p) \/ Calm(p)
  BY <1>1 DEF Lost, Calm, SameEntries, SameState, SameSca, SameHandlers, SameTrack, Unmoved
<1>2. CASE Promoted(p)
  BY <1>2 DEF Promoted, Unmoved
<1>3. ASSUME NEW w \in Workers, Joined(p, w) \/ Taken(p, w) PROVE Unmoved(p)'
  BY <1>3 DEF Joined, Taken, Pending, Unmoved
<1>4. ASSUME NEW w \in Workers, Refused(p, w) PROVE Unmoved(p)'
  <2>1. w \in Pending(p) /\ w \in Handlers(p)
    BY <1>4 DEF Refused, Pending
  <2> QED BY <1>4, <2>1, FirstPending DEF Refused, SameEntries, SameSca, Unmoved
<1>5. ASSUME NEW w \in Workers, Recorded(p, w) PROVE Unmoved(p)'
  BY <1>5 DEF Recorded, Unmoved
<1> QED BY <1>1, <1>2, <1>3, <1>4, <1>5 DEF Happens

LEMMA NewcomerOK == ASSUME NEW p, Received(p) PROVE MoneyOK(p)'
<1>1. Cardinality({}) = 0
  BY FS_EmptySet
<1>2. 0 <= MaxAuthorisations
  BY SettlementAssumption
<1> QED BY <1>1, <1>2 DEF Received, MoneyOK, Counted, Handled, Capped, Named, Unmoved

LEMMA NextMoney ==
  ASSUME TInv, HInv, TInv', IsFiniteSet(Workers), MoneyInv, [Next]_vars PROVE MoneyInv'
<1>1. ASSUME NEW p \in Known, Lost(p) \/ Calm(p) \/ Happens(p) PROVE MoneyOK(p)'
  <2>1. MoneyOK(p) /\ p \in Known'
    BY InstructionsStay DEF MoneyInv
  <2> QED BY <1>1, <2>1, CountedKept, HandledKept, CappedKept, NamedKept, UnmovedKept DEF MoneyOK
<1>2. Effect
  BY StepEffect
<1> SUFFICES ASSUME NEW q \in Known' PROVE MoneyOK(q)'
  BY DEF MoneyInv
<1>3. CASE q \in Known
  BY <1>1, <1>2, <1>3 DEF Effect, CalmBut
<1>4. CASE q \notin Known
  BY <1>2, <1>4, NewcomerOK DEF Effect
<1> QED BY <1>3, <1>4

LEMMA InitMoney == Init => MoneyInv
BY DEF Init, MoneyInv, Known, Stored

(* With finitely many threads, the payments' money is as it should be,     *)
(* through restarts, purges and any interleaving of authorisations and     *)
(* cycles.                                                                 *)
THEOREM MoneyHolds ==
  ASSUME IsFiniteSet(Workers) PROVE Spec => [](TInv /\ HInv /\ MoneyInv)
<1>1. Init => TInv /\ HInv /\ MoneyInv
  BY InitTyped, InitHandles, InitMoney
<1>2. TInv /\ HInv /\ MoneyInv /\ [Next]_vars => (TInv /\ HInv /\ MoneyInv)'
  BY NextTyped, NextHandles, NextMoney
<1> QED BY <1>1, <1>2, PTL DEF Spec

(* A payment's money leaves the debtor's account no more often than its    *)
(* SCA was completed, however authorisations, cycles, restarts and purges  *)
(* interleave.                                                             *)
THEOREM MoneyIsTakenOnce ==
  ASSUME IsFiniteSet(Workers) PROVE Spec => []SettledOnce
<1>1. TInv /\ MoneyInv => SettledOnce
  <2> SUFFICES ASSUME TInv, MoneyInv, NEW p \in Known
               PROVE  Cardinality(EntriesOf(p)) <= PaymentOf(p).completions
    BY DEF SettledOnce
  <2>1. Counted(p)
    BY DEF MoneyInv, MoneyOK
  <2> QED BY <2>1, FewConcern, StatusIsOne DEF Counted
<1> QED BY <1>1, MoneyHolds, PTL

(* The status a client reads tells where the money is: an accepted payment *)
(* has an entry that debited its debtor by its amount, and names it at the *)
(* latest when nobody works on it any more; and a received or refused one  *)
(* that nobody works on has moved nothing.                                 *)
THEOREM StatusIsTrue ==
  ASSUME IsFiniteSet(Workers) PROVE Spec => []StatusTellsMoney
<1>1. MoneyInv => StatusTellsMoney
  <2> SUFFICES ASSUME MoneyInv, NEW p \in Stored
      PROVE /\ StatusOf(p) \in {"ACTC", "ACSC"} =>
                 \E e \in EntriesOf(p) :
                   /\ MovedBy(e, payments[p].debtor) = -payments[p].amount
                   /\ e.seq = payments[p].entry \/ BeingHandled(p)
            /\ StatusOf(p) \in {"RCVD", "RJCT"} /\ payments[p].completions <= 1
                 /\ ~BeingHandled(p) => EntriesOf(p) = {}
    BY DEF StatusTellsMoney
  <2>1. p \in Known /\ p \in Tracked /\ payments[p] = PaymentOf(p)
    BY DEF Known, Tracked, PaymentOf
  <2>2. Named(p) /\ Unmoved(p)
    BY <2>1 DEF MoneyInv, MoneyOK
  <2>3. ~BeingHandled(p) => Handlers(p) = {}
    BY DEF BeingHandled, Handlers, Handles
  <2> QED BY <2>1, <2>2, <2>3 DEF Named, Unmoved
<1> QED BY <1>1, MoneyHolds, PTL

-----------------------------------------------------------------------------
(* The promise to the debtor of a payment whose SCA is completed once.     *)

Phase == [p \in PaymentIds |-> PhaseOf(p)]

LEMMA PhaseStays ==
  ASSUME NEW p, p \in Known, p \in Known', StatusOf(p)' = StatusOf(p), SameEntries(p)
  PROVE  PhaseOf(p)' = PhaseOf(p)
BY DEF PhaseOf, SameEntries

(* What happens to one payment is a move of the promise, or none.          *)
LEMMA PhaseMoves ==
  ASSUME TInv, HInv, TInv', IsFiniteSet(Workers), MaxAuthorisations <= 1, MoneyInv, [Next]_vars,
         NEW p \in Known, Happens(p)
  PROVE  \/ PhaseOf(p)' = PhaseOf(p)
         \/ PhaseOf(p) = "received" /\ PhaseOf(p)' \in {"taken", "refused"}
         \/ PhaseOf(p) = "taken" /\ PhaseOf(p)' = "completed"
<1>1. MoneyOK(p) /\ p \in Known' /\ PaymentOf(p).completions <= 1
  BY StatusIsOne, InstructionsStay, SettlementAssumption DEF MoneyInv, MoneyOK, Capped
<1>2. CASE Promoted(p)
  <2>1. EntriesOf(p) # {}
    BY <1>1, <1>2 DEF Promoted, MoneyOK, Named
  <2> QED BY <1>1, <1>2, <2>1 DEF Promoted, PhaseOf
<1>3. ASSUME NEW w \in Workers, Joined(p, w) PROVE PhaseOf(p)' = PhaseOf(p)
  BY <1>1, <1>3, PhaseStays DEF Joined, SameState
<1>4. ASSUME NEW w \in Workers, Taken(p, w)
      PROVE PhaseOf(p) = "received" /\ PhaseOf(p)' = "taken"
  <2>1. StatusOf(p) = "RCVD" /\ EntriesOf(p) = {}
    BY <1>1, <1>4, FirstPending DEF Taken, Pending, MoneyOK
  <2>2. StatusOf(p)' = "RCVD" /\ EntriesOf(p)' # {}
    BY <1>4, <2>1 DEF Taken, SameState
  <2> QED BY <1>1, <2>1, <2>2 DEF PhaseOf
<1>5. ASSUME NEW w \in Workers, Refused(p, w)
      PROVE PhaseOf(p) = "received" /\ PhaseOf(p)' \in {"received", "refused"}
  <2>1. StatusOf(p) = "RCVD" /\ EntriesOf(p) = {}
    BY <1>1, <1>5, FirstPending DEF Refused, Pending, MoneyOK
  <2>2. StatusOf(p)' \in {"RCVD", "RJCT"} /\ EntriesOf(p)' = {}
    BY <1>5, <2>1 DEF Refused, SameState, SameEntries
  <2> QED BY <1>1, <2>1, <2>2 DEF PhaseOf
<1>6. ASSUME NEW w \in Workers, Recorded(p, w)
      PROVE PhaseOf(p) = "taken" /\ PhaseOf(p)' \in {"taken", "completed"}
  <2>1. StatusOf(p) = "RCVD" /\ EntriesOf(p) # {}
    BY <1>1, <1>6, FirstPending DEF Recorded, MoneyOK
  <2>2. StatusOf(p)' \in {"ACTC", "ACSC"} /\ EntriesOf(p)' # {}
    BY <1>6, <2>1 DEF Recorded, SameEntries
  <2> QED BY <1>1, <2>1, <2>2 DEF PhaseOf
<1> QED BY <1>2, <1>3, <1>4, <1>5, <1>6 DEF Happens

LEMMA OthersPhase ==
  ASSUME [Next]_vars, TInv, NEW K, K \subseteq Known, \A q \in K : Calm(q) \/ Lost(q),
         NEW q \in PaymentIds, q \in K \/ (q \notin Known /\ q \notin Known')
  PROVE  PhaseOf(q)' = PhaseOf(q)
<1>1. CASE q \in K
  <2>1. q \in Known /\ q \in Known' /\ StatusOf(q)' = StatusOf(q) /\ SameEntries(q)
    BY <1>1, InstructionsStay DEF Calm, Lost, SameState
  <2> QED BY <2>1, PhaseStays
<1>2. CASE q \notin Known /\ q \notin Known'
  BY <1>2 DEF PhaseOf
<1> QED BY <1>1, <1>2

LEMMA OneMove ==
  ASSUME NEW p \in PaymentIds, \A q \in PaymentIds : q # p => PhaseOf(q)' = PhaseOf(q),
         \/ PhaseOf(p)' = PhaseOf(p)
         \/ PhaseOf(p) = "absent" /\ PhaseOf(p)' = "received"
         \/ PhaseOf(p) = "received" /\ PhaseOf(p)' \in {"taken", "refused"}
         \/ PhaseOf(p) = "taken" /\ PhaseOf(p)' = "completed"
  PROVE  [Promise!Next]_Phase
<1>1. CASE PhaseOf(p)' = PhaseOf(p)
  BY <1>1 DEF Phase
<1>2. ASSUME NEW a, NEW b, PhaseOf(p) = a, PhaseOf(p)' = b
      PROVE  Phase[p] = a /\ Phase' = [Phase EXCEPT ![p] = b]
  BY <1>2 DEF Phase
<1>3. CASE ~(PhaseOf(p)' = PhaseOf(p))
  <2>1. \/ Phase[p] = "absent" /\ Phase' = [Phase EXCEPT ![p] = "received"]
        \/ Phase[p] = "received" /\ Phase' = [Phase EXCEPT ![p] = "taken"]
        \/ Phase[p] = "received" /\ Phase' = [Phase EXCEPT ![p] = "refused"]
        \/ Phase[p] = "taken" /\ Phase' = [Phase EXCEPT ![p] = "completed"]
    BY <1>2, <1>3
  <2> QED BY <2>1 DEF Promise!Next, Promise!Receive, Promise!Take, Promise!Refuse,
                      Promise!Complete, Promise!Moves, Phase
<1> QED BY <1>1, <1>3

LEMMA StepKeepsPromise ==
  ASSUME TInv, HInv, TInv', IsFiniteSet(Workers), MaxAuthorisations <= 1, MoneyInv, [Next]_vars
  PROVE  [Promise!Next]_Phase
<1>1. Effect
  BY StepEffect
<1>2. CASE Known' = Known /\ ((\A p \in Known : Lost(p)) \/ (\A p \in Known : Calm(p)))
  <2>1. \A q \in PaymentIds : PhaseOf(q)' = PhaseOf(q)
    BY <1>2, OthersPhase
  <2> QED BY <2>1 DEF Phase
<1>3. ASSUME NEW p \in PaymentIds \ Known, Known' = Known \union {p}, Received(p), CalmBut(p)
      PROVE  [Promise!Next]_Phase
  <2>1. \A q \in PaymentIds : q # p => PhaseOf(q)' = PhaseOf(q)
    BY <1>3, OthersPhase DEF CalmBut
  <2>2. PhaseOf(p) = "absent" /\ PhaseOf(p)' = "received"
    BY <1>3 DEF Received, PhaseOf
  <2> QED BY <2>1, <2>2, OneMove
<1>4. ASSUME NEW p \in Known, Known' = Known, Happens(p), CalmBut(p)
      PROVE  [Promise!Next]_Phase
  <2>1. p \in PaymentIds
    BY DEF TInv, StoreOK, Known
  <2>2. \A q \in PaymentIds : q # p => PhaseOf(q)' = PhaseOf(q)
    <3> DEFINE K == {q \in Known : q # p}
    <3>1. K \subseteq Known /\ \A q \in K : Calm(q)
      BY <1>4 DEF CalmBut
    <3>2. \A q \in PaymentIds : q # p => q \in K \/ (q \notin Known /\ q \notin Known')
      BY <1>4
    <3> HIDE DEF K
    <3> QED BY <3>1, <3>2, OthersPhase
  <2> QED BY <1>4, <2>1, <2>2, PhaseMoves, OneMove
<1> QED BY <1>1, <1>2, <1>3, <1>4 DEF Effect

(* A payment's money is taken once or never, whatever happens, when its    *)
(* client completes the SCA once: the payments implement PaymentPromise.   *)
THEOREM PromiseIsKept ==
  ASSUME IsFiniteSet(Workers), MaxAuthorisations <= 1 PROVE Spec => KeepsPromise
<1>1. Init => Promise!Init
  BY DEF Init, Promise!Init, PhaseOf, Known, Stored
<1>2. (TInv /\ HInv /\ MoneyInv) /\ (TInv /\ HInv /\ MoneyInv)' /\ [Next]_vars
        => [Promise!Next]_([p \in PaymentIds |-> PhaseOf(p)])
  BY StepKeepsPromise DEF Phase
<1> QED BY <1>1, <1>2, MoneyHolds, PTL DEF Spec, KeepsPromise, Promise!Spec
-----------------------------------------------------------------------------
(* Sweeps move money between internal accounts only. *)

InternalId(id, as) == \E a \in as : a.id = id /\ IsInternal(a)

Calls == {"resolve_engine", "ensure", "open_internal", "transfer", "funds", "post"}

SweepOK(f, as) ==
  f.op = "cycle" =>
    /\ f.pc # "resolve_engine"
    /\ f.pc \in {"ensure", "open_internal"} => f.kind = "net_settlement" /\ f.then = "transfer"
    /\ f.pc \in Calls => InternalId(f.payer, as)
    /\ f.pc \in {"transfer", "funds", "post"} => InternalId(f.payee, as)
    /\ f.pc = "post" => f.postings = TwoLegs(f.payer, f.payee, f.ccy, f.amount)

SweepsOK ==
  \A w \in Workers : /\ SweepOK(frame[w], accounts)
                     /\ \A id \in cycle[w].suspense : InternalId(id, accounts)

LEMMA SweepStays ==
  ASSUME NEW f, NEW as, NEW as2, as \subseteq as2, SweepOK(f, as) PROVE SweepOK(f, as2)
BY DEF SweepOK, InternalId

LEMMA SweepsStep ==
  ASSUME SweepsOK, accounts \subseteq accounts', NEW w \in Workers, OwnStep(w),
         \A v \in Workers : v # w => cycle'[v] = cycle[v],
         SweepOK(frame'[w], accounts'), \A id \in cycle'[w].suspense : InternalId(id, accounts')
  PROVE  SweepsOK'
<1> SUFFICES ASSUME NEW v \in Workers, v # w
             PROVE  /\ SweepOK(frame'[v], accounts')
                    /\ \A id \in cycle'[v].suspense : InternalId(id, accounts')
  BY DEF SweepsOK
<1>1. frame'[v] = frame[v] /\ cycle'[v] = cycle[v]
  BY DEF OwnStep
<1>2. SweepOK(frame[v], accounts) /\ \A id \in cycle[v].suspense : InternalId(id, accounts)
  BY DEF SweepsOK
<1> QED BY <1>1, <1>2, SweepStays DEF InternalId

(* A frame that makes no call for a cycle has nothing to show. *)
LEMMA SweepRests ==
  ASSUME NEW f, NEW as, f.op # "cycle" \/ f.pc \notin Calls PROVE SweepOK(f, as)
BY DEF SweepOK, Calls

LEMMA GotoShape ==
  ASSUME TInv, NEW w \in Workers, NEW l, Goto(w, l)
  PROVE  OwnStep(w) /\ frame'[w].pc = l /\ frame'[w].op = frame[w].op
<1> DEFINE g == [frame[w] EXCEPT !.pc = l]
<1>1. frame' = [frame EXCEPT ![w] = g]
  BY DEF Goto
<1>2. g.pc = l /\ g.op = frame[w].op
  BY FrameHolds DEF Frame
<1> HIDE DEF g
<1> QED BY <1>1, <1>2 DEF TInv, OwnStep

LEMMA BeginShape ==
  ASSUME TInv, NEW w \in Workers, NEW g, Begin(w, g)
  PROVE  OwnStep(w) /\ frame'[w] = g
BY DEF TInv, OwnStep, Begin

(* A worker's step that makes no call for a cycle.                         *)
LEMMA SweepsElsewhere ==
  ASSUME TInv, SweepsOK, accounts \subseteq accounts', NEW w \in Workers, OwnStep(w),
         frame'[w].op # "cycle" \/ frame'[w].pc \notin Calls,
         NEW c, cycle' = cycle \/ cycle' = [cycle EXCEPT ![w] = c],
         cycle' = cycle \/ c.suspense \subseteq cycle[w].suspense
  PROVE  SweepsOK'
<1>1. /\ \A v \in Workers : v # w => cycle'[v] = cycle[v]
      /\ cycle'[w].suspense \subseteq cycle[w].suspense
  BY DEF TInv, RestOK
<1>2. SweepOK(frame'[w], accounts')
  BY SweepRests
<1>3. \A id \in cycle'[w].suspense : InternalId(id, accounts')
  BY <1>1 DEF SweepsOK, InternalId
<1> QED BY <1>1, <1>2, <1>3, SweepsStep

LEMMA CycleEngineSweeps ==
  ASSUME TInv, SweepsOK, NEW w \in Workers, CycleEngine(w) PROVE SweepsOK'
<1> DEFINE s == {a.id : a \in {x \in ListAccounts(frame[w].bank) : x.kind = "suspense"}}
           c == [cycle[w] EXCEPT !.suspense = s]
<1>1. accounts' = accounts /\ frame[w].pc = "cycle_engine"
  BY DEF CycleEngine, tables
<1>2. CASE cycle' = [cycle EXCEPT ![w] = c] /\ Goto(w, "sweep")
  <2>1. cycle[w] \in Cycles
    BY DEF TInv, RestOK
  <2>2. \A id \in s : InternalId(id, accounts)
    BY DEF ListAccounts, InternalId, IsInternal, InternalKinds
  <2>3. c.suspense = s
    BY <2>1 DEF Cycles
  <2> HIDE DEF s, c
  <2>4. cycle'[w] = c /\ \A v \in Workers : v # w => cycle'[v] = cycle[v]
    BY <1>2 DEF TInv, RestOK
  <2>5. OwnStep(w) /\ SweepOK(frame'[w], accounts')
    BY <1>2, GotoShape, SweepRests DEF Calls
  <2> QED BY <1>1, <2>2, <2>3, <2>4, <2>5, SweepsStep
<1>3. CASE UNCHANGED cycle /\ Begin(w, IdleFrame)
  <2>1. OwnStep(w) /\ frame'[w].op = "none"
    BY <1>3, BeginShape DEF IdleFrame
  <2> QED BY <1>1, <1>3, <2>1, SweepsElsewhere
<1> QED BY <1>2, <1>3 DEF CycleEngine

LEMMA SweepSweeps ==
  ASSUME TInv, SweepsOK, NEW w \in Workers, Sweep(w) PROVE SweepsOK'
<1> DEFINE least == Min(cycle[w].suspense)
<1>1. accounts' = accounts /\ frame[w].pc = "sweep" /\ cycle[w] \in Cycles
  BY DEF Sweep, tables, TInv, RestOK
<1>2. least \in cycle[w].suspense
  <2>1. cycle[w].suspense \in SUBSET Nat /\ cycle[w].suspense # {}
    BY <1>1, SeedAssumption DEF Cycles, Sweep
  <2>2. \E n \in cycle[w].suspense : \A k \in cycle[w].suspense : n <= k
    BY <2>1, LeastNatural
  <2> QED BY <2>2 DEF Min
<1> HIDE DEF least
<1>3. CASE UNCHANGED frame
  <2> DEFINE c == [cycle[w] EXCEPT !.suspense = cycle[w].suspense \ {least}]
  <2>1. cycle' = cycle \/ cycle' = [cycle EXCEPT ![w] = c]
    BY DEF Sweep, least
  <2>2. c.suspense \subseteq cycle[w].suspense
    BY <1>1 DEF Cycles
  <2> HIDE DEF c
  <2> QED BY <1>1, <1>3, <2>1, <2>2, SweepsElsewhere DEF OwnStep, Calls
<1>4. ASSUME NEW cc, NEW held,
             frame' = [frame EXCEPT ![w].pc = "ensure", ![w].then = "transfer",
                         ![w].kind = "net_settlement", ![w].payer = least,
                         ![w].ccy = cc, ![w].amount = held],
             UNCHANGED cycle
      PROVE  SweepsOK'
  <2> DEFINE g == [frame[w] EXCEPT !.pc = "ensure", !.then = "transfer",
                     !.kind = "net_settlement", !.payer = least, !.ccy = cc, !.amount = held]
  <2>1. frame' = [frame EXCEPT ![w] = g]
    BY <1>4
  <2>2. g.pc = "ensure" /\ g.then = "transfer" /\ g.kind = "net_settlement" /\ g.payer = least
    BY FrameHolds DEF Frame
  <2> HIDE DEF g
  <2>3. frame'[w] = g /\ OwnStep(w)
    BY <2>1 DEF TInv, OwnStep
  <2>4. InternalId(least, accounts)
    BY <1>2 DEF SweepsOK
  <2>5. SweepOK(g, accounts')
    BY <1>1, <2>2, <2>4 DEF SweepOK
  <2> QED BY <1>1, <1>4, <2>3, <2>5, SweepsStep DEF SweepsOK
<1> QED BY <1>3, <1>4 DEF Sweep, least

LEMMA CoreStepSweeps ==
  ASSUME TInv, HInv, SweepsOK, NEW w \in Workers, CoreStep(w), UNCHANGED payVars PROVE SweepsOK'
<1> DEFINE f == frame[w]
           g == frame'[w]
<1>1. OwnStep(w) /\ SameRequest(f, g) /\ Leads(f, g)
  BY CoreStepOwn
<1>2. accounts \subseteq accounts' /\ UNCHANGED cycle
  BY InstructionsStay DEF Next, Serves, payVars
<1>3. SweepOK(g, accounts')
  <2>1. CASE g.op # "cycle"
    BY <2>1 DEF SweepOK
  <2>2. CASE g.op = "cycle"
    <3>1. f.op = "cycle" /\ g.payer = f.payer /\ g.ccy = f.ccy /\ g.amount = f.amount
          /\ g.kind = f.kind /\ g.then = f.then
      BY <1>1, <2>2 DEF SameRequest
    <3>2. SweepOK(f, accounts)
      BY DEF SweepsOK
    <3>3. CASE EnsureLeads(f, g)
      <4>1. \E a \in accounts' : a.id = g.payee /\ IsInternal(a)
        BY <3>1, <3>2, <3>3 DEF EnsureLeads, SweepOK, IsInternal, InternalKinds
      <4> QED BY <1>2, <3>1, <3>2, <3>3, <4>1 DEF EnsureLeads, SweepOK, InternalId, Calls
    <3>4. CASE OpenLeads(f, g) \/ FailLeads(f, g) \/ FundsLeads(f, g)
      BY <1>2, <3>1, <3>2, <3>4 DEF OpenLeads, FailLeads, FundsLeads, SweepOK, InternalId, Calls
    <3>5. CASE BookLeads(f, g)
      BY <1>2, <3>1, <3>2, <3>5 DEF BookLeads, SweepOK, InternalId, Calls
    <3>6. CASE CheckLeads(f, g)
      BY <1>2, <3>1, <3>2, <3>6 DEF CheckLeads, SweepOK, InternalId, Calls
    <3>7. CASE AddLeads(f, g)
      BY <3>7 DEF AddLeads, SweepOK, Calls
    <3> QED BY <1>1, <3>3, <3>4, <3>5, <3>6, <3>7 DEF Leads
  <2> QED BY <2>1, <2>2
<1> QED BY <1>1, <1>2, <1>3, SweepsStep DEF SweepsOK, InternalId

(* Only a request that settles resolves an engine. *)
LEMMA ResolveHandles ==
  ASSUME SweepsOK, NEW w \in Workers, ResolveEngine(w) PROVE frame[w].op # "cycle"
BY DEF SweepsOK, SweepOK, ResolveEngine

LEMMA WorkerSweeps ==
  ASSUME TInv, HInv, SweepsOK, [Next]_vars, NEW w \in Workers, Accepts(w) \/ Serves(w)
  PROVE  SweepsOK'
<1>1. accounts \subseteq accounts' /\ cycle[w] \in Cycles
  BY InstructionsStay DEF TInv, RestOK
<1>2. ASSUME NEW c, cycle' = [cycle EXCEPT ![w] = c], c.suspense \subseteq cycle[w].suspense,
             (\E l : l \notin Calls /\ Goto(w, l)) \/ Begin(w, IdleFrame)
      PROVE  SweepsOK'
  <2>1. OwnStep(w) /\ (frame'[w].op # "cycle" \/ frame'[w].pc \notin Calls)
    BY <1>2, GotoShape, BeginShape DEF IdleFrame
  <2> QED BY <1>1, <1>2, <2>1, SweepsElsewhere
<1>3. ASSUME UNCHANGED cycle, OwnStep(w), frame'[w].op # "cycle" \/ frame'[w].pc \notin Calls
      PROVE  SweepsOK'
  BY <1>1, <1>3, SweepsElsewhere
<1>4. CASE InitiatePayment(w) \/ StartAuthorisation(w) \/ Reconfigure(w)
  <2>1. frame[w].pc = "idle" /\ UNCHANGED <<frame, cycle>>
    BY <1>4 DEF InitiatePayment, StartAuthorisation, Reconfigure, Idle
  <2> QED BY <1>3, <2>1 DEF OwnStep, Calls
<1>5. CASE BeginAuthorise(w)
  <2>1. PICK g \in Frames : frame' = [frame EXCEPT ![w] = g] /\ g.op = "authorise"
    BY <1>5, BeginAuthoriseShape
  <2>2. OwnStep(w) /\ frame'[w].op # "cycle"
    BY <2>1 DEF TInv, OwnStep
  <2> QED BY <1>3, <1>5, <2>2 DEF BeginAuthorise
<1>6. CASE BeginCycle(w)
  <2>1. PICK b \in banks : frame' = [frame EXCEPT ![w] =
             [IdleFrame EXCEPT !.op = "cycle", !.pc = "cycle_engine", !.bank = b]]
    BY <1>6 DEF BeginCycle, Begin
  <2>2. frame'[w].pc = "cycle_engine" /\ OwnStep(w)
    BY <2>1 DEF TInv, IdleFrame, OwnStep
  <2> QED BY <1>3, <1>6, <2>2 DEF BeginCycle, Calls
<1>7. CASE ResolveEngine(w)
  <2>1. frame'[w].op # "cycle" /\ OwnStep(w)
    <3>1. frame[w].op # "cycle"
      BY <1>7, FrameHolds, ResolveHandles
    <3> QED BY <1>7, <3>1, ResolveShape
  <2> QED BY <1>3, <1>7, <2>1 DEF ResolveEngine, payVars
<1>8. CASE RecordOutcome(w)
  <2>1. OwnStep(w) /\ frame'[w].op # "cycle"
    BY <1>8, BeginShape DEF RecordOutcome, IdleFrame
  <2> QED BY <1>3, <1>8, <2>1 DEF RecordOutcome
<1>9. CASE Swept(w)
  <2> DEFINE c == [cycle[w] EXCEPT !.suspense = @ \ {frame[w].payer}, !.swept = TRUE]
  <2>1. c.suspense \subseteq cycle[w].suspense /\ NoCycle.suspense = {}
    BY <1>1 DEF Cycles, NoCycle
  <2>2. \/ cycle' = [cycle EXCEPT ![w] = c] /\ Goto(w, "sweep")
        \/ cycle' = [cycle EXCEPT ![w] = NoCycle] /\ Begin(w, IdleFrame)
    BY <1>9 DEF Swept
  <2> HIDE DEF c
  <2> QED BY <1>2, <2>1, <2>2 DEF Calls
<1>10. CASE CycleDone(w)
  <2>1. CASE UNCHANGED cycle /\ Goto(w, "list_payments")
    BY <1>3, <2>1, GotoShape DEF Calls
  <2>2. CASE cycle' = [cycle EXCEPT ![w] = NoCycle] /\ Begin(w, IdleFrame)
    BY <1>2, <2>2 DEF NoCycle
  <2> QED BY <1>10, <2>1, <2>2 DEF CycleDone
<1>11. CASE ListPayments(w)
  <2> DEFINE c == [cycle[w] EXCEPT !.size = Cardinality(Stored)]
  <2>1. c.suspense = cycle[w].suspense
    BY <1>1 DEF Cycles
  <2>2. cycle' = [cycle EXCEPT ![w] = c] /\ Goto(w, "listing")
    BY <1>11 DEF ListPayments
  <2> HIDE DEF c
  <2> QED BY <1>2, <2>1, <2>2 DEF Calls
<1>12. CASE PaymentsListed(w)
  <2> DEFINE c == [cycle[w] EXCEPT !.promote = {p \in Stored : payments[p].bank = frame[w].bank}]
  <2>1. c.suspense = cycle[w].suspense /\ NoCycle.suspense = {}
    BY <1>1 DEF Cycles, NoCycle
  <2>2. \/ cycle' = [cycle EXCEPT ![w] = c] /\ Goto(w, "promote")
        \/ cycle' = [cycle EXCEPT ![w] = NoCycle] /\ Begin(w, IdleFrame)
    BY <1>12 DEF PaymentsListed
  <2> HIDE DEF c
  <2> QED BY <1>2, <2>1, <2>2 DEF Calls
<1>13. CASE Promote(w)
  <2>1. PICK p : cycle' = [cycle EXCEPT ![w].promote = @ \ {p}]
    BY <1>13 DEF Promote
  <2> DEFINE c == [cycle[w] EXCEPT !.promote = cycle[w].promote \ {p}]
  <2>2. cycle' = [cycle EXCEPT ![w] = c] /\ c.suspense = cycle[w].suspense
    BY <1>1, <2>1 DEF Cycles
  <2> HIDE DEF c
  <2>3. OwnStep(w) /\ frame'[w].pc \notin Calls
    BY <1>13 DEF Promote, OwnStep, Calls
  <2> QED BY <1>1, <2>2, <2>3, SweepsElsewhere
<1>14. CASE EndCycle(w)
  BY <1>2, <1>14 DEF EndCycle, NoCycle
<1> QED BY <1>4, <1>5, <1>6, <1>7, <1>8, <1>9, <1>10, <1>11, <1>12, <1>13, <1>14,
           CycleEngineSweeps, SweepSweeps, CoreStepSweeps DEF Accepts, Serves

LEMMA NextSweeps ==
  ASSUME TInv, HInv, SweepsOK, [Next]_vars PROVE SweepsOK'
<1>1. CASE UNCHANGED <<frame, cycle, accounts>>
  BY <1>1 DEF SweepsOK
<1>2. CASE Restart
  BY <1>2 DEF Restart, SweepsOK, SweepOK, IdleFrame, NoCycle
<1> QED BY <1>1, <1>2, WorkerSweeps DEF Next, PurgeReads, PurgeAssigns, tables, vars
-----------------------------------------------------------------------------
(* How far authorisations at once can overdraw a customer's account.       *)

(* What request w is about to take from the account. *)
Debiting(w, id) == frame[w].op = "authorise" /\ frame[w].pc = "post" /\ frame[w].payer = id

Due(w, id) == IF Debiting(w, id) THEN frame[w].amount ELSE 0

Dues(id) == [w \in Workers |-> Due(w, id)]

Exposure(id) == Sum(Dues(id), Workers)

Worth(b, id) == Sum([e \in journal |-> MovedBy(e, id)], ListJournal(b))

MostAtOnce == Max(Amounts)

Limit == (Cardinality(Workers) - 1) * MostAtOnce

(* What the accounts hold once all that is about to be posted is posted.   *)
Covered ==
  \A a \in accounts : ~IsInternal(a) => Worth(a.bank, a.id) - Exposure(a.id) >= -Limit

DuesOK == \A w \in Workers : \A id : Due(w, id) \in Nat /\ (Due(w, id) # 0 => Due(w, id) \in Amounts)

LEMMA DueType == TInv /\ HInv => DuesOK
<1> SUFFICES ASSUME TInv, HInv, NEW w \in Workers, NEW id
             PROVE  Due(w, id) \in Nat /\ (Due(w, id) # 0 => Due(w, id) \in Amounts)
  BY DEF DuesOK
<1>1. CASE ~Debiting(w, id)
  BY <1>1 DEF Due
<1>2. CASE Debiting(w, id)
  <2>1. PICK p \in Known : Handles(w, p)
    BY <1>2, FrameHolds DEF Debiting, RequestOK, Handles
  <2>2. frame[w].amount \in Amounts
    BY <2>1 DEF HInv, HandlesOK, HandleOK, DebtorsOK
  <2> QED BY <1>2, <2>2, SettlementAssumption DEF Due
<1> QED BY <1>1, <1>2

LEMMA ExposureType ==
  ASSUME DuesOK, IsFiniteSet(Workers), NEW id
  PROVE  /\ Exposure(id) \in Int /\ Exposure(id) >= 0
         /\ \A w \in Workers : Dues(id)[w] \in Nat
<1>1. \A w \in Workers : Dues(id)[w] \in Nat
  BY DEF Dues, DuesOK
<1>2. Sum([w \in Workers |-> 0], Workers) = 0
  BY SumZero
<1>3. Sum([w \in Workers |-> 0], Workers) <= Exposure(id)
  BY <1>1, SumAtMost DEF Exposure
<1> QED BY <1>1, <1>2, <1>3, SumInt DEF Exposure

LEMMA WorthType ==
  ASSUME TInv, NEW b, NEW id
  PROVE  /\ Worth(b, id) \in Int /\ Balance(b, id) = Worth(b, id)
         /\ IsFiniteSet(ListJournal(b)) /\ \A e \in journal : MovedBy(e, id) \in Int
<1>1. journal \subseteq JournalEntry /\ IsFiniteSet(journal)
  BY DEF TInv, DbInv, DbTypeOK, FiniteDb
<1> QED BY <1>1, BalanceIsSum, MovedByIsSum DEF Worth

LEMMA LimitType ==
  ASSUME IsFiniteSet(Workers), Workers # {}, IsFiniteSet(Amounts), Amounts # {}
  PROVE  /\ Limit \in Int /\ MostAtOnce \in Amounts /\ MostAtOnce \in Nat
         /\ \A m \in Amounts : m <= MostAtOnce
<1>1. Amounts \in SUBSET Nat
  BY SettlementAssumption
<1>2. MostAtOnce \in Amounts /\ \A m \in Amounts : m <= MostAtOnce
  BY <1>1, Greatest DEF MostAtOnce
<1>3. Cardinality(Workers) \in Nat
  BY FS_CardinalityType
<1> QED BY <1>1, <1>2, <1>3 DEF Limit

(* No more is due, and no entry was added. *)
LEMMA ExposureFalls ==
  ASSUME DuesOK, DuesOK', IsFiniteSet(Workers), NEW id,
         \A w \in Workers : Due(w, id)' <= Due(w, id)
  PROVE  Exposure(id)' \in Int /\ Exposure(id)' <= Exposure(id)
<1>1. Exposure(id)' = Sum(Dues(id)', Workers)
  BY DEF Exposure
<1>2. \A w \in Workers : /\ Dues(id)[w] \in Int /\ Dues(id)'[w] \in Int
                         /\ Dues(id)'[w] <= Dues(id)[w]
  BY DEF Dues, DuesOK
<1> QED BY <1>1, <1>2, SumAtMost, SumInt DEF Exposure

LEMMA OwnDue ==
  ASSUME NEW w, OwnStep(w), NEW v \in Workers, v # w, NEW id
  PROVE  Due(v, id)' = Due(v, id)
BY DEF OwnStep, Due, Debiting

(* No entry is added, no customer's account opened, and no more is due.    *)
LEMMA CoveredStays ==
  ASSUME TInv, DuesOK, DuesOK', IsFiniteSet(Workers), Limit \in Int, Covered,
         UNCHANGED journal, \A a \in accounts' : ~IsInternal(a) => a \in accounts,
         \A w \in Workers : \A id : Due(w, id)' <= Due(w, id)
  PROVE  Covered'
<1> SUFFICES ASSUME NEW a \in accounts', ~IsInternal(a)
             PROVE  Worth(a.bank, a.id)' - Exposure(a.id)' >= -Limit
  BY DEF Covered, Limit, MostAtOnce
<1>1. Worth(a.bank, a.id)' = Worth(a.bank, a.id)
  BY DEF Worth, ListJournal
<1>2. Exposure(a.id)' \in Int /\ Exposure(a.id)' <= Exposure(a.id)
  BY ExposureFalls
<1>3. Worth(a.bank, a.id) - Exposure(a.id) >= -Limit
  BY DEF Covered
<1>4. Worth(a.bank, a.id) \in Int /\ Exposure(a.id) \in Int
  BY WorthType, ExposureType
<1> QED BY <1>1, <1>2, <1>3, <1>4

(* The funds of a transfer that is booked were looked at, unless its payer *)
(* may be overdrawn.                                                       *)
LEMMA BookedWithFunds ==
  ASSUME TInv, NEW w \in Workers, CoreStep(w), frame[w].pc # "post", frame'[w].pc = "post"
  PROVE  \/ MayOverdraw(frame[w]) \/ frame[w].pc \in {"ensure", "open_internal"}
         \/ /\ GetAccount(frame[w].bank, frame[w].payer) # {}
            /\ Balance(frame[w].bank, frame[w].payer) >= frame[w].amount
<1>1. ASSUME NEW l, Goto(w, l) PROVE frame'[w].pc = l
  BY <1>1, GotoShape
<1>2. ASSUME NEW r, Reply(w, r) PROVE frame'[w].pc = "return"
  <2> DEFINE g == [frame[w] EXCEPT !.pc = "return", !.result = r]
  <2>1. frame' = [frame EXCEPT ![w] = g]
    BY <1>2 DEF Reply
  <2>2. g.pc = "return"
    BY FrameHolds DEF Frame
  <2> HIDE DEF g
  <2> QED BY <2>1, <2>2 DEF TInv
<1>3. CASE TransferLookup(w)
  BY <1>1, <1>2, <1>3 DEF TransferLookup
<1>4. CASE TransferFunds(w)
  BY <1>2, <1>4 DEF TransferFunds
<1> QED BY <1>3, <1>4 DEF CoreStep, EnsureFind, EnsureOpen, PostCheck, PostAdd

LEMMA OpensInternal ==
  ASSUME TInv, HInv, SweepsOK, NEW w \in Workers, CoreStep(w)
  PROVE  \A a \in accounts' : ~IsInternal(a) => a \in accounts
<1>1. CASE EnsureOpen(w)
  <2>1. frame[w].kind \in InternalKinds
    <3>1. CASE frame[w].op = "authorise"
      <4>1. PICK p \in Known : Handles(w, p)
        BY <3>1, FrameHolds DEF RequestOK, Handles
      <4> QED BY <1>1, <4>1 DEF EnsureOpen, HInv, HandlesOK, HandleOK
    <3>2. CASE frame[w].op = "cycle"
      BY <1>1, <3>2 DEF EnsureOpen, SweepsOK, SweepOK, InternalKinds
    <3>3. frame[w].op # "none"
      BY <1>1, FrameHolds DEF EnsureOpen, RequestOK
    <3> QED BY <3>1, <3>2, <3>3, FrameHolds DEF Frame, Ops, SettlementOps
  <2> QED BY <1>1, <2>1 DEF EnsureOpen, IsInternal
<1>2. CASE ~EnsureOpen(w)
  BY <1>2 DEF CoreStep, EnsureFind, TransferLookup, TransferFunds, PostCheck, PostAdd, tables
<1> QED BY <1>1, <1>2

(* An entry of two legs moves nothing on a third account. *)
LEMMA ThirdAccount ==
  ASSUME NEW e \in JournalEntry, NEW from, NEW to, NEW c, NEW m,
         e.postings = TwoLegs(from, to, c, m), NEW id, id # from, id # to
  PROVE  MovedBy(e, id) = 0
<1>1. DOMAIN e.postings = {1, 2} /\ e.postings[1] = Leg(from, c, -m) /\ e.postings[2] = Leg(to, c, m)
  BY DEF TwoLegs
<1>2. e.postings[1].account = from /\ e.postings[2].account = to
  BY <1>1 DEF Leg
<1> QED BY <1>1, <1>2, MovedByNone

(* A new entry adds what it moves.                                         *)
LEMMA WorthAdds ==
  ASSUME TInv, TInv', NEW e, journal' = journal \union {e}, e \notin journal, NEW b, NEW id
  PROVE  /\ MovedBy(e, id) \in Int
         /\ Worth(b, id)' = IF e.bank = b THEN Worth(b, id) + MovedBy(e, id) ELSE Worth(b, id)
<1> DEFINE g == [x \in journal |-> MovedBy(x, id)]
           h == [x \in journal' |-> MovedBy(x, id)]
           J == ListJournal(b)
<1>1. journal' \subseteq JournalEntry /\ IsFiniteSet(J) /\ J \subseteq journal
  BY WorthType DEF TInv, DbInv, DbTypeOK, ListJournal
<1>2. \A x \in journal' : h[x] \in Int /\ h[x] = MovedBy(x, id)
  BY <1>1, MovedByIsSum
<1>3. \A x \in J : g[x] \in Int /\ h[x] = g[x]
  BY <1>1, <1>2
<1>4. Worth(b, id)' = Sum(h, ListJournal(b)') /\ Worth(b, id) = Sum(g, J)
  BY DEF Worth
<1>5. Sum(h, J) = Sum(g, J)
  <2> HIDE DEF g, h, J
  <2> QED BY <1>1, <1>3, SumSame
<1>6. Worth(b, id) \in Int
  BY WorthType
<1>7. CASE e.bank = b
  <2>1. ListJournal(b)' = J \union {e} /\ e \notin J
    BY <1>7 DEF ListJournal
  <2>2. \A y \in J \union {e} : h[y] \in Int
    BY <1>1, <1>2
  <2>3. h[e] = MovedBy(e, id) /\ h[e] \in Int
    BY <1>2
  <2> HIDE DEF g, h, J
  <2>4. Sum(h, J \union {e}) = h[e] + Sum(h, J)
    BY <1>1, <2>1, <2>2, SumAdd
  <2> QED BY <1>4, <1>5, <1>6, <1>7, <2>1, <2>3, <2>4
<1>8. CASE e.bank # b
  <2>1. ListJournal(b)' = J
    BY <1>8 DEF ListJournal
  <2>2. MovedBy(e, id) \in Int
    BY <1>2
  <2> HIDE DEF g, h, J
  <2> QED BY <1>4, <1>5, <1>8, <2>1, <2>2
<1> QED BY <1>7, <1>8

(* Rows of customers and internal accounts are different rows. *)
LEMMA NotInternal ==
  ASSUME TInv, NEW a \in accounts, ~IsInternal(a), NEW id, InternalId(id, accounts)
  PROVE  a.id # id
BY DEF TInv, DbInv, DbKeys, InternalId

(* A request that settles or sweeps posts two legs, the second to an       *)
(* internal account; and a sweep's first is to one too.                    *)
LEMMA LegsOf ==
  ASSUME TInv, HInv, SweepsOK, NEW w \in Workers, frame[w].pc = "post"
  PROVE  /\ frame[w].postings =
              TwoLegs(frame[w].payer, frame[w].payee, frame[w].ccy, frame[w].amount)
         /\ InternalId(frame[w].payee, accounts)
         /\ frame[w].op = "authorise" \/ InternalId(frame[w].payer, accounts)
         /\ frame[w].amount \in Int
<1>1. frame[w].op \in {"authorise", "cycle"} /\ frame[w].amount \in Int
  BY FrameHolds DEF RequestOK, Frame, Ops, SettlementOps
<1>2. CASE frame[w].op = "authorise"
  <2>1. PICK p \in Known : Handles(w, p)
    BY <1>2, FrameHolds DEF RequestOK, Handles
  <2> QED BY <1>1, <1>2, <2>1 DEF HInv, HandlesOK, HandleOK, InternalId
<1>3. CASE frame[w].op = "cycle"
  BY <1>1, <1>3 DEF SweepsOK, SweepOK, Calls
<1> QED BY <1>1, <1>2, <1>3

(* The entry takes from the account what was due. *)
LEMMA AddCovered ==
  ASSUME TInv, TInv', HInv, SweepsOK, DuesOK, DuesOK', IsFiniteSet(Workers), Limit \in Int, Covered,
         NEW w \in Workers, OwnStep(w), SameRequest(frame[w], frame'[w]),
         AddLeads(frame[w], frame'[w])
  PROVE  Covered'
<1> DEFINE f == frame[w]
           e == [seq |-> seq + 1, bank |-> f.bank, postings |-> f.postings, ref |-> f.ref]
<1>1. /\ journal' = journal \union {e} /\ e.postings = f.postings /\ e.bank = f.bank
      /\ e.seq = seq + 1 /\ accounts' = accounts /\ f.pc = "post" /\ frame'[w].pc = "return"
  BY DEF AddLeads
<1> HIDE DEF e
<1>2. e \notin journal /\ e \in JournalEntry
  BY <1>1 DEF TInv, DbInv, DbTypeOK, DbKeys
<1>3. /\ e.postings = TwoLegs(f.payer, f.payee, f.ccy, f.amount) /\ f.amount \in Int
      /\ InternalId(f.payee, accounts) /\ (f.op = "authorise" \/ InternalId(f.payer, accounts))
  BY <1>1, LegsOf
<1> SUFFICES ASSUME NEW a \in accounts, ~IsInternal(a)
             PROVE  Worth(a.bank, a.id)' - Exposure(a.id)' >= -Limit
  BY <1>1 DEF Covered, Limit, MostAtOnce
<1> DEFINE old == Worth(a.bank, a.id)
           due == Exposure(a.id)
<1>4. /\ MovedBy(e, a.id) \in Int /\ old \in Int /\ due \in Int /\ old - due >= -Limit
      /\ old' = IF f.bank = a.bank THEN old + MovedBy(e, a.id) ELSE old
  BY <1>1, <1>2, WorthAdds, WorthType, ExposureType DEF Covered
<1>5. a.id # f.payee
  BY <1>3, NotInternal
<1>6. Due(w, a.id)' = 0 /\ \A v \in Workers : v # w => Due(v, a.id)' = Due(v, a.id)
  BY <1>1, OwnDue DEF Due, Debiting
<1>7. CASE f.op = "authorise" /\ f.payer = a.id
  <2>1. MovedBy(e, a.id) = -f.amount
    BY <1>3, <1>5, <1>7, PayerIsDebited
  <2>2. Due(w, a.id) = f.amount
    BY <1>1, <1>7 DEF Due, Debiting
  <2>3. due' = due + (-f.amount)
    <3> DEFINE d == Dues(a.id)
               d2 == Dues(a.id)'
               n == -f.amount
    <3>1. due' = Sum(d2, Workers) /\ due = Sum(d, Workers)
      BY DEF Exposure
    <3>2. d[w] = f.amount /\ d2[w] = 0 /\ \A v \in Workers : v # w => d2[v] = d[v]
      BY <1>6, <2>2 DEF Dues
    <3>3. \A v \in Workers : d[v] \in Int
      BY ExposureType
    <3>4. n \in Int /\ f.amount + n = 0
      BY <1>3
    <3> HIDE DEF d, d2, n
    <3>5. Sum(d2, Workers) = Sum(d, Workers) + n
      <4>1. d2[w] = d[w] + n
        BY <3>2, <3>4
      <4> QED BY <3>2, <3>3, <3>4, <4>1, SumUpdate
    <3> QED BY <3>1, <3>5 DEF n
  <2>4. f.amount \in Nat
    BY <2>2 DEF DuesOK
  <2> QED BY <1>4, <2>1, <2>3, <2>4
<1>8. CASE ~(f.op = "authorise" /\ f.payer = a.id)
  <2>1. a.id # f.payer
    BY <1>3, <1>8, NotInternal
  <2>2. MovedBy(e, a.id) = 0
    BY <1>2, <1>3, <1>5, <2>1, ThirdAccount
  <2>3. \A v \in Workers : Due(v, a.id)' <= Due(v, a.id)
    BY <1>6 DEF DuesOK
  <2>4. due' \in Int /\ due' <= due
    BY <2>3, ExposureFalls
  <2> QED BY <1>4, <2>2, <2>4
<1> QED BY <1>7, <1>8

(* What is booked after a look at the funds is covered, but for what the   *)
(* other workers have in flight.                                           *)
LEMMA BookCovered ==
  ASSUME TInv, HInv, DuesOK, DuesOK', IsFiniteSet(Workers), Workers # {}, IsFiniteSet(Amounts),
         Amounts # {}, Covered, NEW w \in Workers, OwnStep(w), CoreStep(w),
         SameRequest(frame[w], frame'[w]), frame[w].op = "authorise",
         BookLeads(frame[w], frame'[w])
  PROVE  Covered'
<1> DEFINE f == frame[w]
<1>1. /\ UNCHANGED <<accounts, journal>> /\ f.pc \in {"transfer", "funds"}
      /\ frame'[w].pc = "post" /\ frame'[w].payer = f.payer /\ frame'[w].amount = f.amount
      /\ frame'[w].op = "authorise"
  BY DEF BookLeads, tables, SameRequest
<1>2. Limit \in Int /\ MostAtOnce \in Nat /\ \A m \in Amounts : m <= MostAtOnce
  BY LimitType
<1> SUFFICES ASSUME NEW a \in accounts, ~IsInternal(a)
             PROVE  Worth(a.bank, a.id)' - Exposure(a.id)' >= -Limit
  BY <1>1 DEF Covered, Limit, MostAtOnce
<1> DEFINE old == Worth(a.bank, a.id)
           due == Exposure(a.id)
<1>3. old' = old /\ old \in Int /\ due \in Int /\ old - due >= -Limit
  BY <1>1, WorthType, ExposureType DEF Covered, Worth, ListJournal
<1>4. CASE f.payer # a.id
  <2>1. \A v \in Workers : Due(v, a.id)' <= Due(v, a.id)
    <3>1. Due(w, a.id)' = 0
      BY <1>1, <1>4 DEF Due, Debiting
    <3>2. \A v \in Workers : v # w => Due(v, a.id)' = Due(v, a.id)
      BY OwnDue
    <3> QED BY <3>1, <3>2 DEF DuesOK
  <2>2. due' \in Int /\ due' <= due
    BY <2>1, ExposureFalls
  <2> QED BY <1>2, <1>3, <2>2
<1>5. CASE f.payer = a.id
  <2>1. old >= f.amount
    <3>1. ~MayOverdraw(f)
      <4>1. PICK p \in Known : Handles(w, p)
        BY FrameHolds DEF RequestOK, Handles
      <4>2. ~f.overdraft
        BY <4>1 DEF HInv, HandlesOK, HandleOK
      <4>3. \A x \in GetAccount(f.bank, f.payer) : ~IsInternal(x)
        BY <1>5 DEF GetAccount, TInv, DbInv, DbKeys
      <4> QED BY <4>2, <4>3 DEF MayOverdraw
    <3>2. GetAccount(f.bank, f.payer) # {} /\ Balance(f.bank, f.payer) >= f.amount
      BY <1>1, <3>1, BookedWithFunds
    <3>3. f.bank = a.bank
      BY <1>5, <3>2 DEF GetAccount, TInv, DbInv, DbKeys
    <3> QED BY <1>5, <3>2, <3>3, WorthType
  <2>2. Due(w, a.id)' = f.amount /\ f.amount \in Nat
    <3>1. Due(w, a.id)' = f.amount
      BY <1>1, <1>5 DEF Due, Debiting
    <3> QED BY <3>1 DEF DuesOK
  <2>3. \A v \in Workers : Dues(a.id)'[v] \in Nat /\ Dues(a.id)'[v] <= MostAtOnce
    <3>1. \A v \in Workers : /\ Dues(a.id)'[v] \in Nat
                             /\ Dues(a.id)'[v] = 0 \/ Dues(a.id)'[v] \in Amounts
      BY DEF DuesOK, Dues
    <3> QED BY <1>2, <3>1
  <2> DEFINE g == Dues(a.id)'
             rest == Workers \ {w}
  <2>4. due' = Sum(g, Workers) /\ g[w] = f.amount
    BY <2>2 DEF Exposure, Dues
  <2>5. /\ IsFiniteSet(rest) /\ Cardinality(rest) = Cardinality(Workers) - 1
        /\ Cardinality(Workers) \in Nat
    BY Leaving, FS_RemoveElement
  <2> HIDE DEF g, rest
  <2>6. Sum(g, Workers) = g[w] + Sum(g, rest)
    BY <2>3, SumRemove DEF g, rest
  <2>7. Sum(g, rest) <= Cardinality(rest) * MostAtOnce /\ Sum(g, rest) \in Int
    <3>1. \A v \in rest : g[v] \in Int /\ g[v] <= MostAtOnce
      BY <2>3 DEF g, rest
    <3>2. MostAtOnce \in Int
      BY <1>2
    <3> QED BY <2>5, <3>1, <3>2, SumBound, SumInt
  <2>8. Cardinality(rest) * MostAtOnce = Limit
    BY <2>5 DEF Limit
  <2> QED BY <1>2, <1>3, <2>1, <2>2, <2>4, <2>6, <2>7, <2>8
<1> QED BY <1>4, <1>5

LEMMA CoreStepCovered ==
  ASSUME TInv, TInv', HInv, SweepsOK, DuesOK, DuesOK', IsFiniteSet(Workers), Workers # {},
         IsFiniteSet(Amounts), Amounts # {}, Covered, NEW w \in Workers, CoreStep(w)
  PROVE  Covered'
<1> DEFINE f == frame[w]
           g == frame'[w]
<1>1. OwnStep(w) /\ SameRequest(f, g) /\ Leads(f, g) /\ Limit \in Int
  BY CoreStepOwn, LimitType
<1>2. CASE AddLeads(f, g)
  BY <1>1, <1>2, AddCovered
<1>3. CASE BookLeads(f, g) /\ f.op = "authorise"
  BY <1>1, <1>3, BookCovered
<1>4. CASE ~AddLeads(f, g) /\ ~(BookLeads(f, g) /\ f.op = "authorise")
  <2>1. UNCHANGED journal
    BY <1>1, <1>4 DEF Leads, EnsureLeads, OpenLeads, FailLeads, FundsLeads, BookLeads,
                      CheckLeads, tables
  <2>2. ASSUME NEW id PROVE Due(w, id)' <= Due(w, id)
    <3>1. CASE ~(g.op = "authorise" /\ g.pc = "post")
      BY <3>1 DEF Due, Debiting, DuesOK
    <3>2. CASE CheckLeads(f, g)
      <4>1. Due(w, id)' = Due(w, id)
        BY <1>1, <3>2 DEF CheckLeads, SameRequest, Due, Debiting
      <4> QED BY <4>1 DEF DuesOK
    <3>3. CASE g.op = "authorise" /\ g.pc = "post" /\ ~CheckLeads(f, g)
      <4>1. EnsureLeads(f, g) /\ f.op = "authorise" /\ g.then = f.then
        BY <1>1, <1>4, <3>3 DEF Leads, OpenLeads, FailLeads, FundsLeads, SameRequest
      <4>2. PICK p \in Known : Handles(w, p)
        BY <4>1, FrameHolds DEF RequestOK, Handles
      <4>3. g.pc = "transfer"
        BY <4>1, <4>2 DEF HInv, HandlesOK, HandleOK, EnsureLeads
      <4> QED BY <3>3, <4>3
    <3> QED BY <3>1, <3>2, <3>3
  <2>3. ASSUME NEW v \in Workers, NEW id PROVE Due(v, id)' <= Due(v, id)
    <3>1. CASE v = w
      BY <2>2, <3>1
    <3>2. CASE v # w
      <4>1. Due(v, id)' = Due(v, id)
        BY <1>1, <3>2, OwnDue
      <4> QED BY <4>1 DEF DuesOK
    <3> QED BY <3>1, <3>2
  <2> QED BY <1>1, <2>1, <2>3, OpensInternal, CoveredStays
<1> QED BY <1>2, <1>3, <1>4

LEMMA NextCovered ==
  ASSUME TInv, TInv', HInv, SweepsOK, DuesOK, DuesOK', IsFiniteSet(Workers), Workers # {},
         IsFiniteSet(Amounts), Amounts # {}, Covered, [Next]_vars
  PROVE  Covered'
<1>0. Limit \in Int
  BY LimitType
<1>1. CASE UNCHANGED <<frame, accounts, journal>>
  <2>1. \A v \in Workers : \A id : Due(v, id)' <= Due(v, id)
    <3>1. \A v \in Workers : \A id : Due(v, id)' = Due(v, id)
      BY <1>1 DEF Due, Debiting
    <3> QED BY <3>1 DEF DuesOK
  <2> QED BY <1>0, <1>1, <2>1, CoveredStays
<1>2. CASE Restart
  <2>1. \A v \in Workers : \A id : Due(v, id)' <= Due(v, id)
    <3>1. \A v \in Workers : frame'[v].op = "none"
      BY <1>2 DEF Restart, IdleFrame
    <3>2. \A v \in Workers : \A id : Due(v, id)' = 0
      BY <3>1 DEF Due, Debiting
    <3> QED BY <3>2 DEF DuesOK
  <2> QED BY <1>0, <1>2, <2>1, CoveredStays DEF Restart, tables
<1>3. ASSUME NEW w \in Workers, UNCHANGED <<accounts, journal>>, OwnStep(w),
             frame'[w].op # "authorise" \/ frame'[w].pc # "post"
      PROVE  Covered'
  <2>1. \A v \in Workers : \A id : Due(v, id)' <= Due(v, id)
    <3>1. \A id : Due(w, id)' = 0
      BY <1>3 DEF Due, Debiting
    <3>2. \A v \in Workers : \A id : v # w => Due(v, id)' = Due(v, id)
      BY <1>3, OwnDue
    <3> QED BY <3>1, <3>2 DEF DuesOK
  <2> QED BY <1>0, <1>3, <2>1, CoveredStays
<1>4. ASSUME NEW w \in Workers, Accepts(w) \/ Serves(w) PROVE Covered'
  <2>1. CASE InitiatePayment(w) \/ StartAuthorisation(w) \/ Promote(w)
    BY <1>1, <2>1 DEF InitiatePayment, StartAuthorisation, Promote, tables
  <2>2. CASE BeginAuthorise(w)
    <3>1. PICK g \in Frames : frame' = [frame EXCEPT ![w] = g] /\ g.pc = "resolve_engine"
      BY <2>2, BeginAuthoriseShape
    <3>2. OwnStep(w) /\ frame'[w].pc # "post"
      BY <3>1 DEF TInv, OwnStep
    <3> QED BY <1>3, <2>2, <3>2 DEF BeginAuthorise, tables
  <2>3. CASE ResolveEngine(w)
    <3>1. OwnStep(w) /\ frame'[w].pc # "post"
      BY <2>3, ResolveShape
    <3> QED BY <1>3, <2>3, <3>1 DEF ResolveEngine, tables
  <2>4. CASE RecordOutcome(w)
    <3>1. OwnStep(w) /\ frame'[w].pc # "post"
      BY <2>4, BeginShape DEF RecordOutcome, IdleFrame
    <3> QED BY <1>3, <2>4, <3>1 DEF RecordOutcome, tables
  <2>5. CASE Aside(w)
    BY <1>3, <2>5 DEF Aside
  <2>6. CASE CoreStep(w)
    BY <2>6, CoreStepCovered
  <2> QED BY <1>4, <2>1, <2>2, <2>3, <2>4, <2>5, <2>6, WorkerDoes
<1> QED BY <1>1, <1>2, <1>3, <1>4 DEF Next, PurgeReads, PurgeAssigns, tables, vars

(* No customer's account starts below zero. *)
InCredit == \A a \in accounts : ~IsInternal(a) => Balance(a.bank, a.id) >= 0

LEMMA InitCovered ==
  ASSUME Init, InCredit, TInv, DuesOK, IsFiniteSet(Workers), Workers # {},
         IsFiniteSet(Amounts), Amounts # {}
  PROVE  Covered
<1>1. Limit \in Nat
  <2>1. Cardinality(Workers) \in Nat \ {0}
    BY FS_CardinalityType, FS_EmptySet
  <2>2. Cardinality(Workers) - 1 \in Nat /\ MostAtOnce \in Nat
    BY <2>1, LimitType
  <2> QED BY <2>2 DEF Limit
<1> SUFFICES ASSUME NEW a \in accounts, ~IsInternal(a)
             PROVE  Worth(a.bank, a.id) - Exposure(a.id) >= -Limit
  BY DEF Covered
<1>2. Worth(a.bank, a.id) \in Int /\ Worth(a.bank, a.id) >= 0
  BY WorthType DEF InCredit
<1>3. Exposure(a.id) = 0
  <2>1. \A w \in Workers : Dues(a.id)[w] = 0
    BY DEF Dues, Due, Debiting, Init, CoreInit, IdleFrame
  <2> QED BY <2>1, SumZero DEF Exposure
<1> QED BY <1>1, <1>2, <1>3

(* From customers in credit, authorisations at once overdraw an account by *)
(* no more than the other threads can have in flight, however many         *)
(* payments, sweeps, restarts and purges there are.                        *)
THEOREM OverdraftStaysBounded ==
  ASSUME IsFiniteSet(Workers), Workers # {}, IsFiniteSet(Amounts), Amounts # {}
  PROVE  Spec /\ InCredit => []OverdraftBounded
<1> DEFINE Inv == TInv /\ HInv /\ DuesOK
<1>1. Spec => []Inv
  <2>1. TInv /\ HInv => Inv
    BY DueType
  <2> QED BY <2>1, HandlersKnowTheirPayments, PTL
<1>2. Init /\ InCredit /\ Inv => SweepsOK /\ Covered
  <2> SUFFICES ASSUME Init, InCredit, Inv PROVE SweepsOK /\ Covered
    OBVIOUS
  <2>1. SweepsOK
    BY DEF Init, CoreInit, IdleFrame, NoCycle, SweepsOK, SweepOK
  <2> QED BY <2>1, InitCovered
<1>3. Inv /\ Inv' /\ SweepsOK /\ Covered /\ [Next]_vars => (SweepsOK /\ Covered)'
  BY NextSweeps, NextCovered
<1>4. Inv /\ Covered => OverdraftBounded
  <2> SUFFICES ASSUME Inv, Covered, NEW a \in accounts, ~IsInternal(a)
               PROVE  Balance(a.bank, a.id) >= -Limit
    BY DEF OverdraftBounded, Limit, MostAtOnce
  <2>1. Worth(a.bank, a.id) - Exposure(a.id) >= -Limit
    BY DEF Covered
  <2>2. /\ Worth(a.bank, a.id) \in Int /\ Balance(a.bank, a.id) = Worth(a.bank, a.id)
        /\ Exposure(a.id) \in Int /\ Exposure(a.id) >= 0 /\ Limit \in Int
    BY WorthType, ExposureType, LimitType
  <2> QED BY <2>1, <2>2
<1> HIDE DEF Inv
<1> QED BY <1>1, <1>2, <1>3, <1>4, PTL DEF Spec

-----------------------------------------------------------------------------
(* What a step of a cycle does to its locals. *)

OwnCycle(w) == \A v \in Workers : v # w => cycle'[v] = cycle[v]

(* The request of w goes on at this label, as it is. *)
GoesTo(w, l) ==
  /\ OwnStep(w) /\ frame'[w].pc = l /\ SameRequest(frame[w], frame'[w])
  /\ frame'[w].payee = frame[w].payee /\ frame'[w].result = frame[w].result

LEMMA GotoGoes ==
  ASSUME TInv, NEW w \in Workers, NEW l, Goto(w, l) PROVE GoesTo(w, l)
<1> DEFINE g == [frame[w] EXCEPT !.pc = l]
<1>1. frame' = [frame EXCEPT ![w] = g]
  BY DEF Goto
<1>2. /\ g.pc = l /\ SameRequest(frame[w], g) /\ g.payee = frame[w].payee
      /\ g.result = frame[w].result
  BY FrameHolds DEF Frame, SameRequest
<1> HIDE DEF g
<1> QED BY <1>1, <1>2 DEF TInv, OwnStep, GoesTo

LEMMA LocalsType ==
  ASSUME TInv, NEW w \in Workers PROVE cycle[w] \in Cycles /\ cycle \in [Workers -> Cycles]
BY DEF TInv, RestOK

LEMMA OneCycle ==
  ASSUME TInv, NEW w \in Workers, NEW c, cycle' = [cycle EXCEPT ![w] = c]
  PROVE  OwnCycle(w) /\ cycle'[w] = c
BY LocalsType DEF OwnCycle

SameCycle(w) == OwnCycle(w) /\ cycle'[w] = cycle[w]

LEMMA CycleStays == ASSUME UNCHANGED cycle, NEW w PROVE SameCycle(w)
BY DEF SameCycle, OwnCycle

(* The request ends, and with it the locals. *)
Quits(w) == OwnStep(w) /\ OwnCycle(w) /\ frame'[w] = IdleFrame /\ cycle'[w] = NoCycle

LEMMA QuitShape ==
  ASSUME TInv, NEW w \in Workers, cycle' = [cycle EXCEPT ![w] = NoCycle], Begin(w, IdleFrame)
  PROVE  Quits(w)
BY OneCycle, BeginShape DEF Quits

IsSuspense(a, b) == a.bank = b /\ a.kind = "suspense"

SuspenseIds(b) == {a.id : a \in {x \in accounts : IsSuspense(x, b)}}

LEMMA CycleEngineShape ==
  ASSUME TInv, NEW w \in Workers, CycleEngine(w)
  PROVE  /\ frame[w].pc = "cycle_engine"
         /\ \/ /\ GoesTo(w, "sweep") /\ OwnCycle(w)
               /\ cycle'[w].suspense = SuspenseIds(frame[w].bank)
               /\ cycle'[w].swept = cycle[w].swept /\ cycle'[w].promote = cycle[w].promote
            \/ OwnStep(w) /\ frame'[w] = IdleFrame /\ SameCycle(w)
<1> DEFINE s == {a.id : a \in {x \in ListAccounts(frame[w].bank) : x.kind = "suspense"}}
           c == [cycle[w] EXCEPT !.suspense = s]
<1>1. s = SuspenseIds(frame[w].bank)
  BY DEF SuspenseIds, IsSuspense, ListAccounts
<1>2. CASE cycle' = [cycle EXCEPT ![w] = c] /\ Goto(w, "sweep")
  <2>1. c.suspense = s /\ c.swept = cycle[w].swept /\ c.promote = cycle[w].promote
    BY LocalsType DEF Cycles
  <2> HIDE DEF s, c
  <2> QED BY <1>1, <1>2, <2>1, OneCycle, GotoGoes DEF CycleEngine
<1>3. CASE UNCHANGED cycle /\ Begin(w, IdleFrame)
  BY <1>3, BeginShape, CycleStays DEF CycleEngine
<1> QED BY <1>2, <1>3 DEF CycleEngine

(* The call a sweep makes. *)
Calling(f, g, a, held) ==
  /\ g.op = f.op /\ g.bank = f.bank /\ g.ref = f.ref /\ g.pc = "ensure"
  /\ g.then = "transfer" /\ g.kind = "net_settlement" /\ g.payer = a.id
  /\ g.ccy = a.ccy /\ g.amount = held

LEMMA SweepShape ==
  ASSUME TInv, NEW w \in Workers, Sweep(w)
  PROVE  /\ frame[w].pc = "sweep" /\ OwnStep(w)
         /\ \E id \in cycle[w].suspense :
              \/ /\ Worth(frame[w].bank, id) > 0 /\ SameCycle(w)
                 /\ \E a \in accounts : /\ a.id = id /\ a.bank = frame[w].bank
                                        /\ Calling(frame[w], frame'[w], a, Worth(frame[w].bank, id))
              \/ /\ ~(Worth(frame[w].bank, id) > 0) /\ UNCHANGED frame /\ OwnCycle(w)
                 /\ cycle'[w].suspense = cycle[w].suspense \ {id}
                 /\ cycle'[w].swept = cycle[w].swept /\ cycle'[w].promote = cycle[w].promote
<1> DEFINE least == Min(cycle[w].suspense)
           f == frame[w]
<1>1. least \in cycle[w].suspense
  <2>1. cycle[w].suspense \in SUBSET Nat /\ cycle[w].suspense # {}
    BY LocalsType, SeedAssumption DEF Cycles, Sweep
  <2>2. \E n \in cycle[w].suspense : \A k \in cycle[w].suspense : n <= k
    BY <2>1, LeastNatural
  <2> QED BY <2>2 DEF Min
<1>2. Balance(f.bank, least) = Worth(f.bank, least)
  <2> HIDE DEF least
  <2> QED BY WorthType
<1>3. CASE Balance(f.bank, least) > 0
  <2>1. PICK a \in GetAccount(f.bank, least) :
          frame' = [frame EXCEPT ![w].pc = "ensure", ![w].then = "transfer",
                      ![w].kind = "net_settlement", ![w].payer = least,
                      ![w].ccy = a.ccy, ![w].amount = Balance(f.bank, least)]
    BY <1>3 DEF Sweep
  <2>2. a \in accounts /\ a.id = least /\ a.bank = f.bank /\ UNCHANGED cycle
    BY <1>3, <2>1 DEF GetAccount, Sweep
  <2> HIDE DEF least
  <2> DEFINE held == Worth(f.bank, least)
             g == [f EXCEPT !.pc = "ensure", !.then = "transfer", !.kind = "net_settlement",
                            !.payer = a.id, !.ccy = a.ccy, !.amount = held]
  <2>3. frame' = [frame EXCEPT ![w] = g]
    BY <1>2, <2>1, <2>2
  <2> HIDE DEF held
  <2>4. Calling(f, g, a, held)
    BY FrameHolds DEF Frame, Calling
  <2> HIDE DEF g
  <2>5. frame'[w] = g /\ OwnStep(w)
    BY <2>3 DEF TInv, OwnStep
  <2> QED BY <1>1, <1>2, <1>3, <2>2, <2>4, <2>5, CycleStays DEF Sweep, held
<1>4. CASE ~(Balance(f.bank, least) > 0)
  <2> DEFINE c == [cycle[w] EXCEPT !.suspense = cycle[w].suspense \ {least}]
  <2>1. cycle' = [cycle EXCEPT ![w] = c] /\ UNCHANGED frame
    BY <1>4 DEF Sweep
  <2> HIDE DEF least
  <2>2. /\ c.suspense = cycle[w].suspense \ {least} /\ c.swept = cycle[w].swept
        /\ c.promote = cycle[w].promote
    BY LocalsType DEF Cycles
  <2> HIDE DEF c
  <2>3. OwnCycle(w) /\ cycle'[w] = c
    BY <2>1, OneCycle
  <2> QED BY <1>1, <1>2, <1>4, <2>1, <2>2, <2>3 DEF Sweep, OwnStep
<1> QED BY <1>3, <1>4

LEMMA SweptShape ==
  ASSUME TInv, NEW w \in Workers, Swept(w)
  PROVE  /\ frame[w].pc = "return" /\ frame[w].op = "cycle"
         /\ \/ /\ frame[w].result = "ok" /\ GoesTo(w, "sweep") /\ OwnCycle(w)
               /\ cycle'[w].suspense = cycle[w].suspense \ {frame[w].payer}
               /\ cycle'[w].swept = TRUE /\ cycle'[w].promote = cycle[w].promote
            \/ frame[w].result # "ok" /\ Quits(w)
<1> DEFINE c == [cycle[w] EXCEPT !.suspense = cycle[w].suspense \ {frame[w].payer}, !.swept = TRUE]
<1>1. CASE frame[w].result = "ok"
  <2>1. cycle' = [cycle EXCEPT ![w] = c] /\ Goto(w, "sweep")
    BY <1>1 DEF Swept
  <2>2. /\ c.suspense = cycle[w].suspense \ {frame[w].payer} /\ c.swept = TRUE
        /\ c.promote = cycle[w].promote
    BY LocalsType DEF Cycles
  <2> HIDE DEF c
  <2> QED BY <1>1, <2>1, <2>2, OneCycle, GotoGoes DEF Swept
<1>2. CASE frame[w].result # "ok"
  BY <1>2, QuitShape DEF Swept
<1> QED BY <1>1, <1>2

LEMMA CycleDoneShape ==
  ASSUME TInv, NEW w \in Workers, CycleDone(w)
  PROVE  /\ frame[w].pc = "sweep" /\ cycle[w].suspense = {}
         /\ \/ cycle[w].swept /\ GoesTo(w, "list_payments") /\ SameCycle(w)
            \/ ~cycle[w].swept /\ Quits(w)
BY GotoGoes, CycleStays, QuitShape DEF CycleDone

LEMMA ListPaymentsShape ==
  ASSUME TInv, NEW w \in Workers, ListPayments(w)
  PROVE  /\ frame[w].pc = "list_payments" /\ GoesTo(w, "listing") /\ OwnCycle(w)
         /\ cycle'[w].size = Cardinality(Stored)
         /\ cycle'[w].suspense = cycle[w].suspense
         /\ cycle'[w].swept = cycle[w].swept /\ cycle'[w].promote = cycle[w].promote
<1> DEFINE n == Cardinality(Stored)
           c == [cycle[w] EXCEPT !.size = n]
<1>1. cycle' = [cycle EXCEPT ![w] = c] /\ Goto(w, "listing")
  BY DEF ListPayments
<1>2. /\ c.size = n /\ c.suspense = cycle[w].suspense /\ c.swept = cycle[w].swept
      /\ c.promote = cycle[w].promote
  BY LocalsType DEF Cycles
<1> HIDE DEF c, n
<1> QED BY <1>1, <1>2, OneCycle, GotoGoes DEF ListPayments, n

LEMMA PaymentsListedShape ==
  ASSUME TInv, NEW w \in Workers, PaymentsListed(w)
  PROVE  /\ frame[w].pc = "listing"
         /\ \/ /\ Cardinality(Stored) = cycle[w].size /\ GoesTo(w, "promote") /\ OwnCycle(w)
               /\ cycle'[w].promote = {p \in Stored : payments[p].bank = frame[w].bank}
               /\ cycle'[w].suspense = cycle[w].suspense /\ cycle'[w].swept = cycle[w].swept
            \/ Cardinality(Stored) # cycle[w].size /\ Quits(w)
<1> DEFINE s == {p \in Stored : payments[p].bank = frame[w].bank}
           c == [cycle[w] EXCEPT !.promote = s]
<1>1. CASE Cardinality(Stored) = cycle[w].size
  <2>1. cycle' = [cycle EXCEPT ![w] = c] /\ Goto(w, "promote")
    BY <1>1 DEF PaymentsListed
  <2>2. /\ c.promote = s /\ c.suspense = cycle[w].suspense /\ c.swept = cycle[w].swept
    BY LocalsType DEF Cycles
  <2> HIDE DEF c, s
  <2> QED BY <1>1, <2>1, <2>2, OneCycle, GotoGoes DEF PaymentsListed, s
<1>2. CASE Cardinality(Stored) # cycle[w].size
  BY <1>2, QuitShape DEF PaymentsListed
<1> QED BY <1>1, <1>2

LEMMA PromoteCycle ==
  ASSUME TInv, NEW w \in Workers, Promote(w)
  PROVE  /\ frame[w].pc = "promote" /\ UNCHANGED frame /\ OwnCycle(w)
         /\ \E p \in cycle[w].promote :
              /\ cycle'[w].promote = cycle[w].promote \ {p}
              /\ cycle'[w].suspense = cycle[w].suspense /\ cycle'[w].swept = cycle[w].swept
              /\ \/ StatusOf(p) # "ACTC" /\ AllSame /\ Stored' = Stored
                 \/ /\ StatusOf(p) = "ACTC" /\ Save(w, p, [PaymentOf(p) EXCEPT !.status = "ACSC"])
                    /\ p \in Known
<1>1. PICK p \in cycle[w].promote :
        /\ IF StatusOf(p) = "ACTC"
           THEN Save(w, p, [PaymentOf(p) EXCEPT !.status = "ACSC"])
           ELSE UNCHANGED <<payments, forgotten>>
        /\ cycle' = [cycle EXCEPT ![w].promote = @ \ {p}]
  BY DEF Promote, history
<1> DEFINE c == [cycle[w] EXCEPT !.promote = cycle[w].promote \ {p}]
<1>2. cycle' = [cycle EXCEPT ![w] = c] /\ p \in Known
  BY <1>1 DEF TInv, RestOK
<1>3. /\ c.promote = cycle[w].promote \ {p} /\ c.suspense = cycle[w].suspense
      /\ c.swept = cycle[w].swept
  BY LocalsType DEF Cycles
<1> HIDE DEF c
<1>4. UNCHANGED <<payments, forgotten>> => AllSame /\ Stored' = Stored
  BY StoreSame DEF AllSame
<1> QED BY <1>1, <1>2, <1>3, <1>4, OneCycle DEF Promote

LEMMA EndCycleShape ==
  ASSUME TInv, NEW w \in Workers, EndCycle(w)
  PROVE  frame[w].pc = "promote" /\ cycle[w].promote = {} /\ Quits(w)
BY QuitShape DEF EndCycle

-----------------------------------------------------------------------------
(* Requests, cycles and entries are of the banks they are about.           *)

(* The account that is to be paid serves the purpose of the call. *)
Reaches(f, as) ==
  f.pc \in {"transfer", "funds", "post"} =>
    \E a \in as : a.id = f.payee /\ a.bank = f.bank /\ a.kind = f.kind /\ a.ccy = f.ccy

RunOK(w) ==
  /\ frame[w].op # "cycle" \/ frame[w].pc = "cycle_engine" => cycle[w] = NoCycle
  /\ \A p \in cycle[w].promote : PaymentOf(p).bank = frame[w].bank
  /\ Reaches(frame[w], accounts)
  /\ \A p \in Known : Handles(w, p) =>
       frame[w].bank = PaymentOf(p).bank /\ frame[w].ccy = PaymentOf(p).ccy

RunsOK == \A w \in Workers : RunOK(w)

EntriesHome == \A e \in journal : \A p \in Known : e.ref = p => e.bank = PaymentOf(p).bank

LEMMA CycleOp ==
  ASSUME TInv, NEW w \in Workers, frame[w].pc \in CycleLabels PROVE frame[w].op = "cycle"
<1>1. frame[w].op \in Ops
  BY FrameHolds DEF Frame
<1> QED BY <1>1, FrameHolds DEF RequestOK, Ops, SettlementOps, CycleLabels, AuthoriseLabels

LEMMA RunsStep ==
  ASSUME TInv, RunsOK, [Next]_vars, NEW w \in Workers, OwnStep(w), OwnCycle(w), RunOK(w)'
  PROVE  RunsOK'
<1> SUFFICES ASSUME NEW v \in Workers, v # w PROVE RunOK(v)'
  BY DEF RunsOK
<1>1. frame'[v] = frame[v] /\ cycle'[v] = cycle[v] /\ RunOK(v)
  BY DEF OwnStep, OwnCycle, RunsOK
<1>2. accounts \subseteq accounts' /\ \A q \in Known : SameInstruction(PaymentOf(q), PaymentOf(q)')
  BY InstructionsStay
<1>3. \A p \in cycle[v].promote : PaymentOf(p)'.bank = frame[v].bank
  BY <1>1, <1>2 DEF RunOK, TInv, RestOK, SameInstruction
<1>4. ASSUME NEW p \in Known', Handles(v, p)'
      PROVE  frame[v].bank = PaymentOf(p)'.bank /\ frame[v].ccy = PaymentOf(p)'.ccy
  <2>1. Handles(v, p) /\ p \in Known
    BY <1>1, <1>4, FrameHolds DEF Handles, RequestOK
  <2> QED BY <1>1, <1>2, <2>1 DEF RunOK, SameInstruction
<1>5. Reaches(frame[v], accounts')
  BY <1>1, <1>2 DEF RunOK, Reaches
<1> QED BY <1>1, <1>3, <1>4, <1>5 DEF RunOK

LEMMA RunsSame ==
  ASSUME TInv, RunsOK, [Next]_vars, UNCHANGED <<frame, cycle>> PROVE RunsOK'
<1> SUFFICES ASSUME NEW v \in Workers PROVE RunOK(v)'
  BY DEF RunsOK
<1>1. RunOK(v)
  BY DEF RunsOK
<1>2. accounts \subseteq accounts' /\ \A q \in Known : SameInstruction(PaymentOf(q), PaymentOf(q)')
  BY InstructionsStay
<1>3. \A p \in cycle[v].promote : PaymentOf(p)'.bank = frame[v].bank
  BY <1>1, <1>2 DEF RunOK, TInv, RestOK, SameInstruction
<1>4. ASSUME NEW p \in Known', Handles(v, p)'
      PROVE  frame[v].bank = PaymentOf(p)'.bank /\ frame[v].ccy = PaymentOf(p)'.ccy
  <2>1. Handles(v, p) /\ p \in Known
    BY <1>4, FrameHolds DEF Handles, RequestOK
  <2> QED BY <1>1, <1>2, <2>1 DEF RunOK, SameInstruction
<1>5. Reaches(frame[v], accounts')
  BY <1>1, <1>2 DEF RunOK, Reaches
<1> QED BY <1>1, <1>3, <1>4, <1>5 DEF RunOK

LEMMA QuitRuns == ASSUME NEW w, Quits(w) PROVE RunOK(w)'
BY NoCycleType DEF Quits, RunOK, Reaches, Handles, IdleFrame

(* A cycle goes on, and promotes payments of its bank only. *)
LEMMA CycleRuns ==
  ASSUME TInv, RunsOK, [Next]_vars, NEW w \in Workers, frame[w].op = "cycle",
         NEW l \in CycleLabels \ {"cycle_engine"}, GoesTo(w, l),
         \A p \in cycle'[w].promote : p \in Known /\ PaymentOf(p).bank = frame[w].bank
  PROVE  RunOK(w)'
<1>1. \A q \in Known : SameInstruction(PaymentOf(q), PaymentOf(q)')
  BY InstructionsStay
<1>2. /\ frame'[w].op = "cycle" /\ frame'[w].bank = frame[w].bank
      /\ frame'[w].pc \in CycleLabels \ {"cycle_engine"}
  BY DEF GoesTo, SameRequest
<1> QED BY <1>1, <1>2 DEF RunOK, Reaches, Handles, SameInstruction, CycleLabels

LEMMA PromotesOwn ==
  ASSUME TInv, RunsOK, NEW w \in Workers, NEW p \in cycle[w].promote
  PROVE  p \in Known /\ PaymentOf(p).bank = frame[w].bank
BY DEF TInv, RestOK, RunsOK, RunOK

LEMMA CoreStepRuns ==
  ASSUME TInv, RunsOK, [Next]_vars, NEW w \in Workers, CoreStep(w), UNCHANGED payVars
  PROVE  RunsOK'
<1> DEFINE f == frame[w]
           g == frame'[w]
<1>1. OwnStep(w) /\ SameRequest(f, g) /\ Leads(f, g)
  BY CoreStepOwn
<1>2. UNCHANGED <<payments, forgotten, cycle>> /\ RunOK(w)
  BY DEF payVars, RunsOK
<1>3. Known' = Known /\ AllSame /\ SameCycle(w)
  BY <1>2, StoreSame, CycleStays DEF AllSame
<1>4. f.pc \in Calls /\ f.pc # "resolve_engine" /\ g.pc # "cycle_engine"
  <2>1. f.pc \in Calls /\ f.pc # "resolve_engine"
    BY <1>1 DEF Leads, EnsureLeads, OpenLeads, FailLeads, FundsLeads, BookLeads, CheckLeads,
                AddLeads, Calls
  <2>2. f.pc \in {"ensure", "open_internal"} => f.then \in Continuations
    BY FrameHolds DEF CoreFrameOK
  <2> QED BY <1>1, <2>1, <2>2
          DEF Leads, EnsureLeads, OpenLeads, FailLeads, FundsLeads, BookLeads, CheckLeads,
              AddLeads, Continuations
<1>5. Reaches(g, accounts')
  <2>1. CASE EnsureLeads(f, g)
    BY <1>1, <2>1 DEF EnsureLeads, Reaches, SameRequest
  <2>2. CASE f.pc \notin {"ensure", "open_internal"}
    <3>1. f.pc \in {"transfer", "funds", "post"} /\ Reaches(f, accounts) /\ accounts \subseteq accounts'
      BY <1>2, <1>4, <2>2, InstructionsStay DEF Calls, RunOK
    <3>2. g.pc = "return" \/ g.payee = f.payee
      BY <1>1, <2>2 DEF Leads, EnsureLeads, OpenLeads, FailLeads, FundsLeads, BookLeads,
                        CheckLeads, AddLeads
    <3> QED BY <1>1, <3>1, <3>2 DEF Reaches, SameRequest
  <2>3. CASE OpenLeads(f, g)
    BY <2>3 DEF OpenLeads, Reaches
  <2> QED BY <1>1, <2>1, <2>2, <2>3 DEF Leads, FailLeads, FundsLeads, BookLeads, CheckLeads, AddLeads
<1>6. RunOK(w)'
  <2>1. /\ g.op = f.op /\ g.bank = f.bank /\ g.ccy = f.ccy /\ g.ref = f.ref
        /\ cycle'[w] = cycle[w] /\ f.pc # "cycle_engine"
    BY <1>1, <1>3, <1>4 DEF SameRequest, SameCycle, Calls
  <2>2. \A p \in cycle[w].promote : p \in Known
    BY PromotesOwn
  <2> QED BY <1>2, <1>3, <1>4, <1>5, <2>1, <2>2 DEF RunOK, Handles, AllSame
<1> QED BY <1>1, <1>3, <1>6, RunsStep DEF SameCycle

LEMMA CycleActionRuns ==
  ASSUME TInv, RunsOK, [Next]_vars, NEW w \in Workers,
         CycleEngine(w) \/ Sweep(w) \/ Swept(w) \/ CycleDone(w) \/ ListPayments(w)
           \/ PaymentsListed(w) \/ Promote(w) \/ EndCycle(w)
  PROVE  RunsOK'
<1> DEFINE f == frame[w]
<1>1. f.op = "cycle"
  BY CycleOp, CycleEngineShape, SweepShape, SweptShape, CycleDoneShape, ListPaymentsShape,
     PaymentsListedShape, PromoteCycle, EndCycleShape DEF CycleLabels
<1>2. RunOK(w) /\ \A p \in cycle[w].promote : p \in Known /\ PaymentOf(p).bank = f.bank
  BY PromotesOwn DEF RunsOK
<1>3. ASSUME NEW l \in CycleLabels \ {"cycle_engine"}, GoesTo(w, l), OwnCycle(w),
             cycle'[w].promote \subseteq cycle[w].promote
      PROVE  RunsOK'
  <2>1. OwnStep(w) /\ RunOK(w)'
    BY <1>1, <1>2, <1>3, CycleRuns DEF GoesTo
  <2> QED BY <1>3, <2>1, RunsStep
<1>4. ASSUME Quits(w) PROVE RunsOK'
  BY <1>4, QuitRuns, RunsStep DEF Quits
<1>5. CASE CycleEngine(w)
  <2>1. CASE OwnStep(w) /\ frame'[w] = IdleFrame /\ SameCycle(w)
    <3>1. cycle'[w] = NoCycle
      BY <1>2, <1>5, <2>1, CycleEngineShape DEF RunOK, SameCycle
    <3> QED BY <1>4, <2>1, <3>1 DEF Quits, SameCycle
  <2> QED BY <1>3, <1>5, <2>1, CycleEngineShape DEF CycleLabels
<1>6. CASE Sweep(w)
  <2>1. f.pc = "sweep" /\ OwnStep(w) /\ OwnCycle(w)
    BY <1>6, SweepShape DEF SameCycle
  <2>2. frame'[w].op = "cycle" /\ frame'[w].bank = f.bank /\ frame'[w].pc \in {"sweep", "ensure"}
    BY <1>1, <1>6, <2>1, SweepShape DEF Calling
  <2>3. cycle'[w].promote \subseteq cycle[w].promote
    BY <1>6, SweepShape DEF SameCycle
  <2>4. \A q \in Known : SameInstruction(PaymentOf(q), PaymentOf(q)')
    BY InstructionsStay
  <2>5. RunOK(w)'
    BY <1>2, <2>2, <2>3, <2>4 DEF RunOK, Reaches, Handles, SameInstruction
  <2> QED BY <2>1, <2>5, RunsStep
<1>7. CASE Swept(w)
  BY <1>3, <1>4, <1>7, SweptShape DEF CycleLabels
<1>8. CASE CycleDone(w)
  BY <1>3, <1>4, <1>8, CycleDoneShape DEF CycleLabels, SameCycle
<1>9. CASE ListPayments(w)
  BY <1>3, <1>9, ListPaymentsShape DEF CycleLabels
<1>10. CASE PaymentsListed(w)
  <2>1. CASE Quits(w)
    BY <1>4, <2>1
  <2>2. CASE ~Quits(w)
    <3>1. /\ GoesTo(w, "promote") /\ OwnCycle(w)
          /\ cycle'[w].promote = {p \in Stored : payments[p].bank = f.bank}
      BY <1>10, <2>2, PaymentsListedShape
    <3>2. \A p \in cycle'[w].promote : p \in Known /\ PaymentOf(p).bank = f.bank
      BY <3>1 DEF Known, PaymentOf
    <3>3. OwnStep(w) /\ RunOK(w)'
      BY <1>1, <3>1, <3>2, CycleRuns DEF GoesTo, CycleLabels
    <3> QED BY <3>1, <3>3, RunsStep
  <2> QED BY <2>1, <2>2
<1>11. CASE Promote(w)
  <2>1. f.pc = "promote" /\ UNCHANGED frame /\ OwnCycle(w) /\ cycle'[w].promote \subseteq cycle[w].promote
    BY <1>11, PromoteCycle
  <2>2. \A q \in Known : SameInstruction(PaymentOf(q), PaymentOf(q)')
    BY InstructionsStay
  <2>3. RunOK(w)'
    BY <1>1, <1>2, <2>1, <2>2 DEF RunOK, Reaches, Handles, SameInstruction
  <2> QED BY <2>1, <2>3, RunsStep DEF OwnStep
<1>12. CASE EndCycle(w)
  BY <1>4, <1>12, EndCycleShape
<1> QED BY <1>5, <1>6, <1>7, <1>8, <1>9, <1>10, <1>11, <1>12

LEMMA WorkerRuns ==
  ASSUME TInv, HInv, RunsOK, [Next]_vars, NEW w \in Workers, Accepts(w) \/ Serves(w)
  PROVE  RunsOK'
<1>1. RunOK(w)
  BY DEF RunsOK
<1>2. CASE InitiatePayment(w) \/ StartAuthorisation(w) \/ Reconfigure(w)
  BY <1>2, RunsSame DEF InitiatePayment, StartAuthorisation, Reconfigure
<1>3. CASE BeginAuthorise(w)
  <2>1. PICK p \in Stored, g \in Frames :
          /\ SameInstruction(PaymentOf(p), PaymentOf(p)')
          /\ frame' = [frame EXCEPT ![w] = g]
          /\ g.op = "authorise" /\ g.pc = "resolve_engine" /\ g.ref = p
          /\ g.bank = PaymentOf(p).bank /\ g.ccy = PaymentOf(p).ccy
    BY <1>3, BeginAuthoriseShape
  <2>2. frame'[w] = g /\ OwnStep(w) /\ SameCycle(w)
    BY <1>3, <2>1, CycleStays DEF TInv, OwnStep, BeginAuthorise
  <2>3. cycle[w] = NoCycle
    BY <1>1, <1>3, OpInCycle, FrameHolds DEF RunOK, BeginAuthorise, Idle, RequestOK
  <2>4. RunOK(w)'
    BY <2>1, <2>2, <2>3, NoCycleType DEF RunOK, Reaches, Handles, SameCycle, SameInstruction
  <2> QED BY <2>2, <2>4, RunsStep DEF SameCycle
<1>4. CASE BeginCycle(w)
  <2>1. PICK b \in banks : frame' = [frame EXCEPT ![w] =
             [IdleFrame EXCEPT !.op = "cycle", !.pc = "cycle_engine", !.bank = b]]
    BY <1>4 DEF BeginCycle, Begin
  <2>2. /\ frame'[w].op = "cycle" /\ frame'[w].pc = "cycle_engine" /\ OwnStep(w) /\ SameCycle(w)
    BY <1>4, <2>1, CycleStays DEF TInv, OwnStep, BeginCycle, IdleFrame
  <2>3. cycle[w] = NoCycle
    BY <1>1, <1>4, FrameHolds DEF RunOK, BeginCycle, Idle, RequestOK
  <2>4. RunOK(w)'
    BY <2>2, <2>3, NoCycleType DEF RunOK, Reaches, Handles, SameCycle
  <2> QED BY <2>2, <2>4, RunsStep DEF SameCycle
<1>5. CASE ResolveEngine(w)
  <2> DEFINE k == Counterparty[engine[frame[w].bank]]
             g == [frame[w] EXCEPT !.pc = "ensure", !.then = "transfer", !.kind = k]
  <2>1. frame' = [frame EXCEPT ![w] = g]
    BY <1>5 DEF ResolveEngine
  <2> HIDE DEF k
  <2>2. /\ g.op = frame[w].op /\ g.ref = frame[w].ref /\ g.bank = frame[w].bank
        /\ g.ccy = frame[w].ccy /\ g.pc = "ensure"
    BY FrameHolds DEF Frame
  <2> HIDE DEF g
  <2>3. frame'[w] = g /\ OwnStep(w) /\ SameCycle(w)
    BY <1>5, <2>1, CycleStays, ResolveSaves DEF TInv, OwnStep
  <2>4. frame[w].pc # "cycle_engine" /\ Known' = Known /\ AllSame
    BY <1>5, ResolveSaves DEF ResolveEngine
  <2>5. \A p \in cycle[w].promote : p \in Known
    BY PromotesOwn
  <2>6. RunOK(w)'
    BY <1>1, <2>2, <2>3, <2>4, <2>5 DEF RunOK, Reaches, Handles, SameCycle, AllSame
  <2> QED BY <2>3, <2>6, RunsStep DEF SameCycle
<1>6. CASE RecordOutcome(w)
  <2>1. OwnStep(w) /\ frame'[w] = IdleFrame /\ SameCycle(w) /\ frame[w].op # "cycle"
    BY <1>6, BeginShape, CycleStays DEF RecordOutcome
  <2>2. cycle'[w] = NoCycle
    BY <1>1, <2>1 DEF RunOK, SameCycle
  <2>3. RunOK(w)' /\ OwnCycle(w)
    BY <2>1, <2>2, QuitRuns DEF Quits, SameCycle
  <2> QED BY <2>1, <2>3, RunsStep
<1> QED BY <1>2, <1>3, <1>4, <1>5, <1>6, CoreStepRuns, CycleActionRuns DEF Accepts, Serves

LEMMA NextRuns ==
  ASSUME TInv, HInv, RunsOK, [Next]_vars PROVE RunsOK'
<1>1. CASE UNCHANGED <<frame, cycle>>
  BY <1>1, RunsSame
<1>2. CASE Restart
  <2>1. \A v \in Workers : frame'[v] = IdleFrame /\ cycle'[v] = NoCycle
    BY <1>2 DEF Restart
  <2> QED BY <2>1, NoCycleType DEF RunsOK, RunOK, Reaches, Handles, IdleFrame
<1> QED BY <1>1, <1>2, WorkerRuns DEF Next, PurgeReads, PurgeAssigns, vars

LEMMA NextHome ==
  ASSUME TInv, HInv, RunsOK, EntriesHome, [Next]_vars PROVE EntriesHome'
<1>1. \A q \in Known : SameInstruction(PaymentOf(q), PaymentOf(q)')
  BY InstructionsStay
<1>2. \A e \in journal : \A p \in Known' : e.ref = p => e.bank = PaymentOf(p)'.bank
  <2> SUFFICES ASSUME NEW e \in journal, NEW p \in Known', e.ref = p
               PROVE  e.bank = PaymentOf(p)'.bank
    OBVIOUS
  <2>1. p \in PaymentIds' /\ None \notin PaymentIds
    BY SeedAssumption, NextTyped DEF TInv, StoreOK, Known, PaymentIds
  <2>2. p \in Known
    BY <2>1 DEF HInv, RefsKnown, PaymentIds
  <2> QED BY <1>1, <2>2 DEF EntriesHome, SameInstruction
<1>3. CASE UNCHANGED journal
  BY <1>2, <1>3 DEF EntriesHome
<1>4. ASSUME NEW w \in Workers, CoreStep(w), UNCHANGED payVars PROVE EntriesHome'
  <2>1. Leads(frame[w], frame'[w]) /\ Known' = Known /\ AllSame
    BY <1>4, CoreStepOwn, StoreSame DEF payVars, AllSame
  <2>2. CASE AddLeads(frame[w], frame'[w])
    <3> DEFINE f == frame[w]
               e == [seq |-> seq + 1, bank |-> f.bank, postings |-> f.postings, ref |-> f.ref]
    <3>1. journal' = journal \union {e} /\ f.pc = "post"
      BY <2>2 DEF AddLeads
    <3>2. ASSUME NEW p \in Known, f.ref = p PROVE f.bank = PaymentOf(p).bank
      <4>1. f.op # "cycle"
        BY <3>2, FrameHolds, SeedAssumption DEF RequestOK, TInv, StoreOK, Known, PaymentIds
      <4>2. f.op = "authorise"
        BY <3>1, <4>1, FrameHolds DEF RequestOK, Frame, Ops, SettlementOps
      <4> QED BY <3>2, <4>2 DEF RunsOK, RunOK, Handles
    <3>3. e.ref = f.ref /\ e.bank = f.bank
      OBVIOUS
    <3> HIDE DEF e
    <3> QED BY <1>2, <2>1, <3>1, <3>2, <3>3 DEF EntriesHome, AllSame
  <2>3. CASE ~AddLeads(frame[w], frame'[w])
    BY <1>3, <2>1, <2>3 DEF Leads, EnsureLeads, OpenLeads, FailLeads, FundsLeads, BookLeads,
                            CheckLeads, tables
  <2> QED BY <2>2, <2>3
<1>5. ASSUME NEW w \in Workers, Accepts(w) \/ Serves(w) PROVE EntriesHome'
  BY <1>3, <1>4, <1>5, WorkerDoes
     DEF InitiatePayment, StartAuthorisation, BeginAuthorise, ResolveEngine, RecordOutcome,
         Promote, Aside, tables
<1> QED BY <1>3, <1>5 DEF Next, PurgeReads, PurgeAssigns, Restart, tables, vars

-----------------------------------------------------------------------------
(* While no promise is withdrawn, a cycle of a bank is alone there, and    *)
(* one purge at most is under way.                                         *)

Settles(w, b) == frame[w].op \in SettlementOps /\ frame[w].bank = b

Cycling(w, b) == frame[w].op = "cycle" /\ frame[w].bank = b

Alone(b) == \A w, v \in Workers : Cycling(w, b) /\ v # w => ~Settles(v, b)

OnePurge == \A k1, k2 \in purging : k1 \subseteq Stored /\ k1 = k2

Apart == \A b \in Banks \ overlapped : Alone(b) /\ OnePurge

LEMMA OverlapGrows == ASSUME TInv, [Next]_vars PROVE overlapped \subseteq overlapped'
<1>1. overlapped \subseteq Banks
  BY DEF TInv, RestOK
<1> QED BY <1>1
      DEF Next, Restart, PurgeReads, PurgeAssigns, Accepts, Serves, InitiatePayment,
          StartAuthorisation, Reconfigure, BeginAuthorise, BeginCycle, ResolveEngine,
          RecordOutcome, CycleEngine, Sweep, Swept, CycleDone, ListPayments, PaymentsListed,
          Promote, EndCycle, Save, Meets, history, payVars, vars

(* A request that settles nothing new leaves cycles as alone as they were. *)
LEMMA AloneStays ==
  ASSUME NEW b, Alone(b), NEW w \in Workers, OwnStep(w), Settles(w, b)' => Settles(w, b),
         Cycling(w, b)' => Cycling(w, b)
  PROVE  Alone(b)'
<1> SUFFICES ASSUME NEW u \in Workers, NEW v \in Workers, Cycling(u, b)', v # u, Settles(v, b)'
             PROVE  FALSE
  BY DEF Alone
<1>1. Cycling(u, b) /\ Settles(v, b)
  BY DEF OwnStep, Cycling, Settles
<1> QED BY <1>1 DEF Alone

LEMMA AloneStill == ASSUME NEW b, Alone(b), UNCHANGED frame PROVE Alone(b)'
BY DEF Alone, Cycling, Settles

(* A request keeps its kind and bank until it ends. *)
Continues(w) ==
  /\ OwnStep(w)
  /\ \/ frame'[w].op = frame[w].op /\ frame'[w].bank = frame[w].bank
     \/ frame'[w].op = "none"

LEMMA RequestContinues ==
  ASSUME TInv, NEW w \in Workers, Accepts(w) \/ Serves(w)
  PROVE  Continues(w) \/ BeginAuthorise(w) \/ BeginCycle(w)
<1>1. CASE InitiatePayment(w) \/ StartAuthorisation(w) \/ Reconfigure(w)
  BY <1>1 DEF InitiatePayment, StartAuthorisation, Reconfigure, Continues, OwnStep
<1>2. CASE CoreStep(w)
  BY <1>2, CoreStepOwn DEF Continues, SameRequest
<1>3. CASE ResolveEngine(w)
  <2> DEFINE k == Counterparty[engine[frame[w].bank]]
             g == [frame[w] EXCEPT !.pc = "ensure", !.then = "transfer", !.kind = k]
  <2>1. frame' = [frame EXCEPT ![w] = g]
    BY <1>3 DEF ResolveEngine
  <2> HIDE DEF k
  <2>2. g.op = frame[w].op /\ g.bank = frame[w].bank
    BY FrameHolds DEF Frame
  <2> HIDE DEF g
  <2> QED BY <2>1, <2>2 DEF TInv, OwnStep, Continues
<1>4. CASE RecordOutcome(w)
  BY <1>4, BeginShape DEF RecordOutcome, Continues, IdleFrame
<1>5. CASE Sweep(w)
  BY <1>5, SweepShape DEF Continues, Calling
<1>6. CASE Promote(w)
  BY <1>6, PromoteCycle DEF Continues, OwnStep
<1>7. ASSUME NEW l, GoesTo(w, l) PROVE Continues(w)
  BY <1>7 DEF GoesTo, Continues, SameRequest
<1>8. ASSUME OwnStep(w), frame'[w] = IdleFrame PROVE Continues(w)
  BY <1>8 DEF Continues, IdleFrame
<1>9. CASE CycleEngine(w) \/ Swept(w) \/ CycleDone(w) \/ ListPayments(w) \/ PaymentsListed(w)
             \/ EndCycle(w)
  BY <1>7, <1>8, <1>9, CycleEngineShape, SweptShape, CycleDoneShape, ListPaymentsShape,
     PaymentsListedShape, EndCycleShape DEF Quits
<1> QED BY <1>1, <1>2, <1>3, <1>4, <1>5, <1>6, <1>9 DEF Accepts, Serves

LEMMA AuthoriseMeets ==
  ASSUME TInv, NEW b, b \notin overlapped', Alone(b), NEW w \in Workers, BeginAuthorise(w)
  PROVE  Alone(b)'
<1>1. PICK p \in Stored, g \in Frames :
        /\ frame' = [frame EXCEPT ![w] = g] /\ g.op = "authorise" /\ g.bank = PaymentOf(p).bank
        /\ Meets(w, {"cycle"}, {PaymentOf(p).bank})
  <2>1. PICK p \in Stored :
          /\ frame' = [frame EXCEPT ![w] =
               [IdleFrame EXCEPT !.op = "authorise", !.pc = "resolve_engine",
                  !.bank = payments[p].bank, !.ref = p, !.payer = payments[p].debtor,
                  !.ccy = payments[p].ccy, !.amount = payments[p].amount]]
          /\ Meets(w, {"cycle"}, {payments[p].bank})
    BY DEF BeginAuthorise, Begin
  <2>2. PICK q \in Stored, g \in Frames :
          /\ frame' = [frame EXCEPT ![w] = g] /\ g.op = "authorise" /\ g.ref = q
          /\ g.bank = PaymentOf(q).bank
    BY BeginAuthoriseShape
  <2>3. p = q
    <3> DEFINE h == [IdleFrame EXCEPT !.op = "authorise", !.pc = "resolve_engine",
                  !.bank = payments[p].bank, !.ref = p, !.payer = payments[p].debtor,
                  !.ccy = payments[p].ccy, !.amount = payments[p].amount]
    <3>1. h.ref = p
      BY DEF IdleFrame
    <3>2. frame' = [frame EXCEPT ![w] = h]
      BY <2>1
    <3> HIDE DEF h
    <3> QED BY <2>2, <3>1, <3>2 DEF TInv
  <2> QED BY <2>1, <2>2, <2>3 DEF PaymentOf
<1>2. OwnStep(w) /\ frame'[w] = g
  BY <1>1 DEF TInv, OwnStep
<1>3. \A v \in Workers \ {w} : Cycling(v, b) => g.bank # b
  BY <1>1 DEF Meets, Cycling
<1> SUFFICES ASSUME NEW u \in Workers, NEW v \in Workers, Cycling(u, b)', v # u, Settles(v, b)'
             PROVE  FALSE
  BY DEF Alone
<1>4. u # w /\ Cycling(u, b)
  BY <1>1, <1>2 DEF OwnStep, Cycling
<1>5. v # w => Settles(v, b)
  BY <1>2 DEF OwnStep, Settles
<1>6. v = w => g.bank = b
  BY <1>2 DEF Settles
<1> QED BY <1>3, <1>4, <1>5, <1>6 DEF Alone

LEMMA CycleMeets ==
  ASSUME TInv, NEW b, b \notin overlapped', Alone(b), NEW w \in Workers, BeginCycle(w)
  PROVE  Alone(b)'
<1>1. PICK d \in banks :
        /\ Begin(w, [IdleFrame EXCEPT !.op = "cycle", !.pc = "cycle_engine", !.bank = d])
        /\ Meets(w, SettlementOps, {d})
  BY DEF BeginCycle
<1> DEFINE g == [IdleFrame EXCEPT !.op = "cycle", !.pc = "cycle_engine", !.bank = d]
<1>2. OwnStep(w) /\ frame'[w].op = "cycle" /\ frame'[w].bank = d
  <2>1. g.op = "cycle" /\ g.bank = d
    BY DEF IdleFrame
  <2> HIDE DEF g
  <2> QED BY <1>1, <2>1, BeginShape DEF g
<1>3. \A v \in Workers \ {w} : Settles(v, b) => d # b
  BY <1>1 DEF Meets, Settles
<1> SUFFICES ASSUME NEW u \in Workers, NEW v \in Workers, Cycling(u, b)', v # u, Settles(v, b)'
             PROVE  FALSE
  BY DEF Alone
<1>4. /\ u # w => Cycling(u, b)
      /\ v # w => Settles(v, b)
      /\ u = w \/ v = w => d = b
  BY <1>2 DEF OwnStep, Cycling, Settles
<1>5. Cycling(u, b) => Settles(u, b)
  BY DEF Cycling, Settles, SettlementOps
<1> QED BY <1>3, <1>4, <1>5 DEF Alone

LEMMA PurgesApart ==
  ASSUME TInv, OnePurge, [Next]_vars, overlapped' # Banks PROVE OnePurge'
<1>1. CASE UNCHANGED purging /\ Stored \subseteq Stored'
  BY <1>1 DEF OnePurge
<1>2. CASE Restart
  BY <1>2 DEF Restart, OnePurge
<1>3. CASE PurgeReads
  BY <1>3 DEF PurgeReads, OnePurge, Stored
<1>4. CASE PurgeAssigns
  BY <1>4 DEF PurgeAssigns, OnePurge
<1>5. ASSUME NEW w \in Workers, Accepts(w) \/ Serves(w) PROVE OnePurge'
  <2>1. UNCHANGED purging
    BY <1>5
       DEF Accepts, Serves, InitiatePayment, StartAuthorisation, Reconfigure, BeginAuthorise,
           BeginCycle, ResolveEngine, RecordOutcome, CycleEngine, Sweep, Swept, CycleDone,
           ListPayments, PaymentsListed, Promote, EndCycle, faults, payVars
  <2>2. Stored \subseteq Stored'
    <3>1. UNCHANGED payments => Stored' = Stored
      BY DEF Stored
    <3> QED BY <1>5, <3>1, WorkerDoes, InitiateShape, StartShape, BeginAuthoriseShape,
               ResolveSaves, RecordShape, PromoteShape DEF Aside, payVars
  <2> QED BY <1>1, <2>1, <2>2
<1>6. CASE UNCHANGED vars
  <2>1. Stored' = Stored
    BY <1>6 DEF vars, Stored
  <2> QED BY <1>1, <1>6, <2>1 DEF vars
<1> QED BY <1>2, <1>3, <1>4, <1>5, <1>6 DEF Next

LEMMA NextApart == ASSUME TInv, Apart, [Next]_vars PROVE Apart'
<1> SUFFICES ASSUME NEW b \in Banks \ overlapped' PROVE Alone(b)' /\ OnePurge'
  BY DEF Apart
<1>1. Alone(b) /\ OnePurge /\ b \notin overlapped'
  BY OverlapGrows DEF Apart
<1>2. OnePurge'
  BY <1>1, PurgesApart
<1>3. Alone(b)'
  <2>1. CASE UNCHANGED frame
    BY <1>1, <2>1, AloneStill
  <2>2. CASE Restart
    BY <2>2 DEF Restart, Alone, Cycling, IdleFrame
  <2>3. ASSUME NEW w \in Workers, Continues(w) PROVE Alone(b)'
    <3>1. /\ OwnStep(w) /\ Settles(w, b)' => Settles(w, b)
          /\ Cycling(w, b)' => Cycling(w, b)
      BY <2>3 DEF Continues, Settles, Cycling, SettlementOps
    <3> QED BY <1>1, <2>3, <3>1, AloneStays DEF Continues
  <2>4. ASSUME NEW w \in Workers, Accepts(w) \/ Serves(w) PROVE Alone(b)'
    BY <1>1, <2>3, <2>4, RequestContinues, AuthoriseMeets, CycleMeets
  <2> QED BY <2>1, <2>2, <2>4 DEF Next, PurgeReads, PurgeAssigns, vars
<1> QED BY <1>2, <1>3

-----------------------------------------------------------------------------
(* What a step does to the rows of a bank's suspense accounts.             *)

(* The entry the request is about to add. *)
Entry(w) ==
  [seq |-> seq + 1, bank |-> frame[w].bank, postings |-> frame[w].postings, ref |-> frame[w].ref]

Adds(w) == CoreStep(w) /\ UNCHANGED payVars /\ AddLeads(frame[w], frame'[w])

Opens(w, a) ==
  /\ frame[w].pc = "open_internal" /\ CoreStep(w) /\ UNCHANGED payVars
  /\ accounts' = accounts \union {a} /\ UNCHANGED journal
  /\ a.id \notin issued /\ a.bank = frame[w].bank /\ a.kind = frame[w].kind

LEMMA LedgerStep ==
  ASSUME TInv, [Next]_vars
  PROVE  \/ UNCHANGED <<accounts, journal>>
         \/ \E w \in Workers : Adds(w)
         \/ \E w \in Workers : \E a : Opens(w, a)
<1>1. ASSUME NEW w \in Workers, CoreStep(w), UNCHANGED payVars
      PROVE  UNCHANGED <<accounts, journal>> \/ Adds(w) \/ \E a : Opens(w, a)
  <2>1. Leads(frame[w], frame'[w])
    BY <1>1, CoreStepOwn
  <2>2. CASE EnsureOpen(w)
    <3>1. PICK id \in AccountIds \ issued :
            accounts' = accounts \union {[id |-> id, bank |-> frame[w].bank, ccy |-> frame[w].ccy,
                                          kind |-> frame[w].kind, customer |-> None]}
      BY <2>2 DEF EnsureOpen
    <3> DEFINE a == [id |-> id, bank |-> frame[w].bank, ccy |-> frame[w].ccy,
                     kind |-> frame[w].kind, customer |-> None]
    <3>2. a.id = id /\ a.bank = frame[w].bank /\ a.kind = frame[w].kind
      OBVIOUS
    <3>3. accounts' = accounts \union {a}
      BY <3>1
    <3> HIDE DEF a
    <3> QED BY <1>1, <2>2, <3>2, <3>3 DEF Opens, EnsureOpen
  <2>3. CASE PostAdd(w)
    <3>1. AddLeads(frame[w], frame'[w])
      BY <2>1, <2>3
         DEF PostAdd, Leads, EnsureLeads, OpenLeads, FailLeads, FundsLeads, BookLeads,
             CheckLeads, TInv, DbInv, DbTypeOK, tables
    <3> QED BY <1>1, <3>1 DEF Adds
  <2> QED BY <1>1, <2>2, <2>3
          DEF CoreStep, EnsureFind, TransferLookup, TransferFunds, PostCheck, tables
<1>2. ASSUME NEW w \in Workers, Accepts(w) \/ Serves(w), ~CoreStep(w)
      PROVE  UNCHANGED <<accounts, journal>>
  BY <1>2
     DEF Accepts, Serves, InitiatePayment, StartAuthorisation, Reconfigure, BeginAuthorise,
         BeginCycle, ResolveEngine, RecordOutcome, CycleEngine, Sweep, Swept, CycleDone,
         ListPayments, PaymentsListed, Promote, EndCycle, tables
<1>3. ASSUME NEW w \in Workers, Accepts(w) \/ Serves(w), CoreStep(w)
      PROVE  UNCHANGED <<accounts, journal>> \/ UNCHANGED payVars
  BY <1>3
     DEF Accepts, Serves, InitiatePayment, StartAuthorisation, Reconfigure, BeginAuthorise,
         BeginCycle, ResolveEngine, RecordOutcome, CycleEngine, Sweep, Swept, CycleDone,
         ListPayments, PaymentsListed, Promote, EndCycle, tables
<1> QED BY <1>1, <1>2, <1>3 DEF Next, Restart, PurgeReads, PurgeAssigns, tables, vars

LEMMA EntryIsNew ==
  ASSUME TInv, TInv', NEW w \in Workers, Adds(w)
  PROVE  /\ journal' = journal \union {Entry(w)} /\ Entry(w) \notin journal
         /\ Entry(w) \in JournalEntry
         /\ Entry(w).seq = seq + 1 /\ Entry(w).bank = frame[w].bank
         /\ Entry(w).postings = frame[w].postings /\ Entry(w).ref = frame[w].ref
         /\ accounts' = accounts /\ frame[w].pc = "post"
         /\ \A e \in journal : e.seq < Entry(w).seq
<1>1. /\ Entry(w).seq = seq + 1 /\ Entry(w).bank = frame[w].bank
      /\ Entry(w).postings = frame[w].postings /\ Entry(w).ref = frame[w].ref
  BY DEF Entry
<1>2. journal' = journal \union {Entry(w)} /\ accounts' = accounts /\ frame[w].pc = "post"
  BY DEF Adds, AddLeads, Entry
<1>3. seq \in Nat /\ \A e \in journal : e \in JournalEntry /\ e.seq <= seq
  BY DEF TInv, DbInv, DbTypeOK, DbKeys
<1>4. \A e \in journal : e.seq \in Nat
  BY <1>3 DEF JournalEntry
<1>5. Entry(w) \in JournalEntry
  BY <1>2 DEF TInv, DbInv, DbTypeOK
<1> QED BY <1>1, <1>2, <1>3, <1>4, <1>5

(* The payee of a transfer is credited with its amount. *)
LEMMA PayeeIsCredited ==
  ASSUME NEW e, NEW from, NEW to, from # to, NEW c, NEW m \in Int,
         e.postings = TwoLegs(from, to, c, m)
  PROVE  MovedBy(e, to) = m
<1>1. /\ DOMAIN e.postings = {1, 2}
      /\ e.postings[1] = Leg(from, c, -m) /\ e.postings[2] = Leg(to, c, m)
  BY DEF TwoLegs
<1>2. /\ e.postings[1].account = from /\ e.postings[2].amount = m
      /\ e.postings[2].account = to
  BY <1>1 DEF Leg
<1>3. {n \in DOMAIN e.postings : e.postings[n].account = to} = {2}
  BY <1>1, <1>2
<1> QED BY <1>2, <1>3, MovedByOne

(* A settlement credits the suspense account it named, if it named one. *)
LEMMA SettlementLegs ==
  ASSUME TInv, HInv, SweepsOK, RunsOK, NEW w \in Workers, frame[w].pc = "post",
         frame[w].op = "authorise", NEW a \in accounts, IsSuspense(a, frame[w].bank),
         NEW e \in JournalEntry, e.postings = frame[w].postings
  PROVE  /\ frame[w].amount \in Nat \ {0}
         /\ IF a.id = frame[w].payee THEN frame[w].kind = "suspense" /\ a.ccy = frame[w].ccy
                                          /\ MovedBy(e, a.id) = frame[w].amount
            ELSE MovedBy(e, a.id) = 0
<1> DEFINE f == frame[w]
<1>1. PICK p \in Known : Handles(w, p)
  BY FrameHolds DEF RequestOK, Handles
<1>2. /\ f.payer = PaymentOf(p).debtor /\ f.amount = PaymentOf(p).amount
      /\ f.postings = TwoLegs(f.payer, f.payee, f.ccy, f.amount)
      /\ \E d \in accounts : d.id = f.payer /\ ~IsInternal(d)
  BY <1>1 DEF HInv, HandlesOK, HandleOK, DebtorsOK
<1>3. f.amount \in Nat \ {0} /\ f.amount \in Int
  BY <1>1, <1>2 DEF TInv, StoreOK, Payment
<1>4. a.id # f.payer
  BY <1>2 DEF TInv, DbInv, DbKeys, IsSuspense, IsInternal, InternalKinds
<1>5. CASE a.id = f.payee
  <2>1. \E x \in accounts : x.id = f.payee /\ x.kind = f.kind /\ x.ccy = f.ccy
    BY DEF RunsOK, RunOK, Reaches
  <2>2. f.kind = "suspense" /\ a.ccy = f.ccy
    BY <1>5, <2>1 DEF TInv, DbInv, DbKeys, IsSuspense
  <2>3. MovedBy(e, a.id) = f.amount
    BY <1>2, <1>3, <1>4, <1>5, PayeeIsCredited
  <2> QED BY <1>3, <1>5, <2>2, <2>3
<1>6. CASE a.id # f.payee
  BY <1>2, <1>3, <1>4, <1>6, ThirdAccount
<1> QED BY <1>5, <1>6

(* A sweep debits the suspense account it was called for. *)
LEMMA SweepLegs ==
  ASSUME TInv, HInv, SweepsOK, RunsOK, NEW w \in Workers, frame[w].pc = "post",
         frame[w].op = "cycle", frame[w].kind = "net_settlement",
         NEW a \in accounts, IsSuspense(a, frame[w].bank),
         NEW e \in JournalEntry, e.postings = frame[w].postings
  PROVE  MovedBy(e, a.id) = IF a.id = frame[w].payer THEN -frame[w].amount ELSE 0
<1> DEFINE f == frame[w]
<1>1. f.postings = TwoLegs(f.payer, f.payee, f.ccy, f.amount) /\ f.amount \in Int
  BY LegsOf
<1>2. \E x \in accounts : x.id = f.payee /\ x.kind = f.kind
  BY DEF RunsOK, RunOK, Reaches
<1>3. a.id # f.payee
  BY <1>2 DEF TInv, DbInv, DbKeys, IsSuspense
<1> QED BY <1>1, <1>3, PayerIsDebited, ThirdAccount

(* The entry brought money to the account, and no entry of J took any away since. *)
Inflow(e, id, J) ==
  MovedBy(e, id) > 0 /\ \A later \in J : later.seq > e.seq => MovedBy(later, id) >= 0

(* No suspense account of the bank is below zero, and one with money that  *)
(* was not swept is above.                                                 *)
HoldsOK(b) ==
  \A a \in accounts : IsSuspense(a, b) =>
    /\ Worth(b, a.id) >= 0
    /\ (\E e \in ListJournal(b) : Inflow(e, a.id, ListJournal(b))) => Worth(b, a.id) > 0

(* What a cycle of the bank knows, being alone there: the accounts it has  *)
(* done with are empty, the one it sweeps holds what it moves, the sweep   *)
(* does not fail, and every payment that awaits it is among those it       *)
(* promotes.                                                               *)
Sweeps(f, a, held) ==
  /\ a.id = f.payer /\ a.ccy = f.ccy
  /\ f.pc \in Calls => f.amount = held /\ held > 0 /\ f.kind = "net_settlement"
  /\ f.pc = "post" => f.next >= 1
  /\ f.pc = "return" => f.result = "ok" /\ held = 0

CycleOK(w, b) ==
  LET f == frame[w]
      c == cycle[w] IN
  Cycling(w, b) =>
    /\ f.pc # "funds"
    /\ c.suspense \subseteq SuspenseIds(b)
    /\ f.pc # "cycle_engine" =>
         \A a \in accounts : IsSuspense(a, b) /\ a.id \notin c.suspense => Worth(b, a.id) = 0
    /\ f.pc \in Calls \union {"return"} =>
         \E a \in accounts : /\ IsSuspense(a, b) /\ a.id \in c.suspense
                             /\ Sweeps(f, a, Worth(b, a.id))
    /\ f.pc \in {"list_payments", "listing", "promote"} => c.suspense = {}
    /\ f.pc = "listing" => c.size = Cardinality(Stored)
    /\ f.pc = "promote" =>
         \A p \in Stored : StatusOf(p) = "ACTC" /\ PaymentOf(p).bank = b => p \in c.promote

CyclesOK(b) == \A w \in Workers : CycleOK(w, b)

LEMMA FreshIsEmpty ==
  ASSUME TInv, NEW b \in banks, NEW id, id \notin issued
  PROVE  Worth(b, id) = 0 /\ \A e \in ListJournal(b) : MovedBy(e, id) = 0
<1>1. ASSUME NEW e \in ListJournal(b) PROVE MovedBy(e, id) = 0
  <2>1. e \in journal /\ e.bank = b /\ e \in JournalEntry
    BY DEF ListJournal, TInv, DbInv, DbTypeOK
  <2>2. EntryResolves(e, accounts)
    BY <2>1 DEF TInv, DbInv, LedgerIntegrity, Consistent
  <2>3. \A n \in DOMAIN e.postings : e.postings[n].account # id
    BY <2>2 DEF EntryResolves, PostingResolves, TInv, DbInv, DbKeys
  <2> QED BY <2>1, <2>3, MovedByNone
<1> DEFINE g == [e \in journal |-> MovedBy(e, id)]
           J == ListJournal(b)
<1>2. IsFiniteSet(J) /\ Worth(b, id) = Sum(g, J) /\ J \subseteq journal
  BY WorthType DEF Worth, ListJournal
<1>3. \A e \in J : g[e] = 0
  BY <1>1, <1>2
<1> HIDE DEF g, J
<1>4. Sum(g, J) = 0
  BY <1>2, <1>3, SumZero
<1> QED BY <1>1, <1>2, <1>4 DEF J

(* The ways a step leaves a suspense account of the bank.                  *)
Steady(b, a) ==
  /\ a \in accounts /\ Worth(b, a.id)' = Worth(b, a.id)
  /\ ListJournal(b) \subseteq ListJournal(b)'
  /\ \A e \in ListJournal(b)' : MovedBy(e, a.id) # 0 => e \in ListJournal(b)

Fresh(b, a) == Worth(b, a.id)' = 0 /\ \A e \in ListJournal(b)' : MovedBy(e, a.id) = 0

NextEntry(w, b) ==
  /\ frame[w].bank = b
  /\ ListJournal(b)' = ListJournal(b) \union {Entry(w)}
  /\ \A e \in ListJournal(b) : Entry(w).seq > e.seq

Credited(w, b, a) ==
  /\ Adds(w) /\ frame[w].op = "authorise" /\ frame[w].kind = "suspense" /\ NextEntry(w, b)
  /\ a \in accounts /\ a.id = frame[w].payee /\ a.ccy = frame[w].ccy
  /\ frame[w].amount \in Nat \ {0}
  /\ Worth(b, a.id)' = Worth(b, a.id) + frame[w].amount
  /\ MovedBy(Entry(w), a.id) = frame[w].amount

Debited(w, b, a) ==
  /\ Adds(w) /\ Cycling(w, b) /\ NextEntry(w, b)
  /\ a \in accounts /\ a.id = frame[w].payer
  /\ Worth(b, a.id)' = 0 /\ MovedBy(Entry(w), a.id) < 0

LEMMA AddsHere ==
  ASSUME TInv, TInv', HInv, SweepsOK, RunsOK, NEW b, CyclesOK(b),
         NEW w \in Workers, Adds(w), NEW a \in accounts, IsSuspense(a, b)
  PROVE  Steady(b, a) \/ Credited(w, b, a) \/ Debited(w, b, a)
<1> DEFINE f == frame[w]
           e == Entry(w)
<1>1. /\ journal' = journal \union {e} /\ e \notin journal /\ e \in JournalEntry
      /\ e.bank = f.bank /\ e.postings = f.postings /\ f.pc = "post"
      /\ \A x \in journal : x.seq < e.seq /\ x.seq \in Nat
      /\ e.seq \in Nat
  BY EntryIsNew DEF TInv, DbInv, DbTypeOK, JournalEntry
<1>2. /\ MovedBy(e, a.id) \in Int /\ Worth(b, a.id) \in Int
      /\ Worth(b, a.id)' = IF e.bank = b THEN Worth(b, a.id) + MovedBy(e, a.id) ELSE Worth(b, a.id)
  BY <1>1, WorthAdds, WorthType
<1>3. CASE f.bank # b
  <2>1. ListJournal(b)' = ListJournal(b)
    BY <1>1, <1>3 DEF ListJournal
  <2> QED BY <1>1, <1>2, <1>3, <2>1 DEF Steady
<1>4. CASE f.bank = b
  <2>1. NextEntry(w, b)
    BY <1>1, <1>4 DEF NextEntry, ListJournal
  <2>2. CASE MovedBy(e, a.id) = 0
    BY <1>1, <1>2, <1>4, <2>1, <2>2 DEF Steady, NextEntry
  <2>3. CASE f.op = "authorise" /\ MovedBy(e, a.id) # 0
    <3>1. /\ f.amount \in Nat \ {0} /\ a.id = f.payee /\ f.kind = "suspense" /\ a.ccy = f.ccy
          /\ MovedBy(e, a.id) = f.amount
      BY <1>1, <1>4, <2>3, SettlementLegs
    <3> QED BY <1>1, <1>2, <1>4, <2>1, <2>3, <3>1 DEF Credited
  <2>4. CASE f.op = "cycle" /\ MovedBy(e, a.id) # 0
    <3>1. PICK x \in accounts : /\ x.id = f.payer /\ f.kind = "net_settlement"
                               /\ f.amount = Worth(b, x.id) /\ Worth(b, x.id) > 0
      BY <1>1, <1>4, <2>4 DEF CyclesOK, CycleOK, Cycling, Calls, Sweeps
    <3>2. a.id = f.payer /\ MovedBy(e, a.id) = -f.amount
      BY <1>1, <1>4, <2>4, <3>1, SweepLegs
    <3>3. Worth(b, a.id)' = 0 /\ MovedBy(e, a.id) < 0
      BY <1>1, <1>2, <1>4, <3>1, <3>2
    <3> QED BY <1>4, <2>1, <2>4, <3>2, <3>3 DEF Debited, Cycling
  <2>5. f.op \in {"authorise", "cycle"}
    BY <1>1, FrameHolds DEF RequestOK, Frame, Ops, SettlementOps
  <2> QED BY <2>2, <2>3, <2>4, <2>5
<1> QED BY <1>3, <1>4

LEMMA SuspenseMoves ==
  ASSUME TInv, TInv', HInv, SweepsOK, RunsOK, [Next]_vars, NEW b \in banks, CyclesOK(b),
         NEW a \in accounts', IsSuspense(a, b)
  PROVE  \/ Steady(b, a)
         \/ a \notin accounts /\ Fresh(b, a)
         \/ \E w \in Workers : Credited(w, b, a) \/ Debited(w, b, a)
<1>1. UNCHANGED journal =>
        Worth(b, a.id)' = Worth(b, a.id) /\ ListJournal(b)' = ListJournal(b)
  BY DEF Worth, ListJournal
<1>2. CASE UNCHANGED <<accounts, journal>>
  BY <1>1, <1>2 DEF Steady
<1>3. ASSUME NEW w \in Workers, Adds(w)
      PROVE  Steady(b, a) \/ Credited(w, b, a) \/ Debited(w, b, a)
  BY <1>3, EntryIsNew, AddsHere
<1>4. ASSUME NEW w \in Workers, NEW x, Opens(w, x)
      PROVE  Steady(b, a) \/ (a \notin accounts /\ Fresh(b, a))
  <2>1. CASE a \in accounts
    BY <1>1, <1>4, <2>1 DEF Opens, Steady
  <2>2. CASE a \notin accounts
    <3>1. a.id \notin issued
      BY <1>4, <2>2 DEF Opens
    <3> QED BY <1>1, <1>4, <2>2, <3>1, FreshIsEmpty DEF Opens, Fresh
  <2> QED BY <2>1, <2>2
<1> QED BY <1>2, <1>3, <1>4, LedgerStep

LEMMA HoldsKept ==
  ASSUME TInv, TInv', HInv, SweepsOK, RunsOK, [Next]_vars, NEW b \in banks, CyclesOK(b), HoldsOK(b)
  PROVE  HoldsOK(b)'
<1> SUFFICES ASSUME NEW a \in accounts', IsSuspense(a, b)
             PROVE  /\ Worth(b, a.id)' >= 0
                    /\ (\E e \in ListJournal(b)' : Inflow(e, a.id, ListJournal(b)'))
                         => Worth(b, a.id)' > 0
  BY DEF HoldsOK
<1>1. /\ Worth(b, a.id) \in Int
      /\ \A e \in ListJournal(b) : MovedBy(e, a.id) \in Int /\ e.seq \in Nat
  BY WorthType DEF ListJournal, TInv, DbInv, DbTypeOK, JournalEntry
<1>2. CASE Steady(b, a)
  <2>1. ASSUME NEW e \in ListJournal(b)', Inflow(e, a.id, ListJournal(b)')
        PROVE  e \in ListJournal(b) /\ Inflow(e, a.id, ListJournal(b))
    BY <1>2, <2>1 DEF Steady, Inflow
  <2> QED BY <1>2, <2>1 DEF Steady, HoldsOK
<1>3. CASE Fresh(b, a)
  BY <1>3 DEF Fresh, Inflow
<1>4. ASSUME NEW w \in Workers, Credited(w, b, a) PROVE Worth(b, a.id)' > 0
  BY <1>1, <1>4 DEF Credited, HoldsOK
<1>5. ASSUME NEW w \in Workers, Debited(w, b, a)
      PROVE  Worth(b, a.id)' = 0 /\ ~\E e \in ListJournal(b)' : Inflow(e, a.id, ListJournal(b)')
  <2>1. ASSUME NEW e \in ListJournal(b)', Inflow(e, a.id, ListJournal(b)') PROVE FALSE
    <3>1. e = Entry(w) \/ Entry(w).seq > e.seq
      BY <1>5, <2>1 DEF Debited, NextEntry
    <3>2. Entry(w) \in ListJournal(b)' /\ MovedBy(Entry(w), a.id) < 0
      BY <1>5 DEF Debited, NextEntry
    <3>3. MovedBy(Entry(w), a.id) \in Int
      BY <1>5, EntryIsNew, MovedByIsSum DEF Debited
    <3> QED BY <2>1, <3>1, <3>2, <3>3 DEF Inflow
  <2> QED BY <1>5, <2>1 DEF Debited
<1>6. CASE \E w \in Workers : Credited(w, b, a)
  BY <1>1, <1>4, <1>6 DEF Credited
<1> QED BY <1>2, <1>3, <1>5, <1>6, SuspenseMoves

-----------------------------------------------------------------------------
(* The others leave a cycle what it goes by.                               *)

Leaves(w, b) ==
  /\ \A a \in accounts' : IsSuspense(a, b) => a \in accounts /\ Worth(b, a.id)' = Worth(b, a.id)
  /\ \A p \in Stored' : PaymentOf(p)'.bank = b =>
       p \in Stored /\ PaymentOf(p).bank = b /\ StatusOf(p)' = StatusOf(p)
  /\ frame[w].pc = "listing" => Stored' = Stored

LEMMA CycleUndisturbed ==
  ASSUME TInv, [Next]_vars, NEW b, NEW w \in Workers, CycleOK(w, b),
         frame'[w] = frame[w], cycle'[w] = cycle[w], Leaves(w, b)
  PROVE  CycleOK(w, b)'
<1> SUFFICES ASSUME Cycling(w, b) PROVE CycleOK(w, b)'
  BY DEF CycleOK, Cycling
<1>1. accounts \subseteq accounts'
  BY InstructionsStay
<1>2. SuspenseIds(b)' = SuspenseIds(b)
  BY <1>1 DEF Leaves, SuspenseIds, IsSuspense
<1>3. \A a \in accounts : IsSuspense(a, b) => Worth(b, a.id)' = Worth(b, a.id)
  BY <1>1 DEF Leaves
<1> DEFINE f == frame[w]
           c == cycle[w]
<1>4. /\ f.pc # "funds" /\ c.suspense \subseteq SuspenseIds(b)
      /\ f.pc # "cycle_engine" =>
           \A a \in accounts : IsSuspense(a, b) /\ a.id \notin c.suspense => Worth(b, a.id) = 0
      /\ f.pc \in Calls \union {"return"} =>
           \E a \in accounts : /\ IsSuspense(a, b) /\ a.id \in c.suspense
                               /\ Sweeps(f, a, Worth(b, a.id))
      /\ f.pc \in {"list_payments", "listing", "promote"} => c.suspense = {}
      /\ f.pc = "listing" => c.size = Cardinality(Stored)
      /\ f.pc = "promote" =>
           \A p \in Stored : StatusOf(p) = "ACTC" /\ PaymentOf(p).bank = b => p \in c.promote
  BY DEF CycleOK
<1>6. f.pc # "cycle_engine" =>
        \A a \in accounts' : IsSuspense(a, b) /\ a.id \notin c.suspense => Worth(b, a.id)' = 0
  BY <1>4 DEF Leaves
<1>7. f.pc \in Calls \union {"return"} =>
           \E a \in accounts' : /\ IsSuspense(a, b) /\ a.id \in c.suspense
                                /\ Sweeps(f, a, Worth(b, a.id)')
  BY <1>1, <1>3, <1>4
<1>8. f.pc = "listing" => c.size = Cardinality(Stored')
  BY <1>4 DEF Leaves
<1>9. f.pc = "promote" =>
           \A p \in Stored' : StatusOf(p)' = "ACTC" /\ PaymentOf(p)'.bank = b => p \in c.promote
  BY <1>4 DEF Leaves
<1> DEFINE g == frame'[w]
           d == cycle'[w]
<1>10. g = f /\ d = c
  OBVIOUS
<1>11. /\ g.pc # "funds" /\ d.suspense \subseteq SuspenseIds(b)'
       /\ g.pc # "cycle_engine" =>
            \A a \in accounts' : IsSuspense(a, b) /\ a.id \notin d.suspense => Worth(b, a.id)' = 0
       /\ g.pc \in Calls \union {"return"} =>
            \E a \in accounts' : /\ IsSuspense(a, b) /\ a.id \in d.suspense
                                 /\ Sweeps(g, a, Worth(b, a.id)')
       /\ g.pc \in {"list_payments", "listing", "promote"} => d.suspense = {}
       /\ g.pc = "listing" => d.size = Cardinality(Stored')
       /\ g.pc = "promote" =>
            \A p \in Stored' : StatusOf(p)' = "ACTC" /\ PaymentOf(p)'.bank = b => p \in d.promote
  <2> HIDE DEF f, c, g, d
  <2> QED BY <1>2, <1>4, <1>6, <1>7, <1>8, <1>9, <1>10
<1> QED BY <1>11 DEF CycleOK, Calls, Sweeps, IsSuspense

LEMMA RowsLeft ==
  ASSUME TInv, TInv', HInv, SweepsOK, RunsOK, [Next]_vars, NEW b \in banks, CyclesOK(b), Alone(b),
         NEW w \in Workers, Cycling(w, b), frame'[w] = frame[w],
         NEW a \in accounts', IsSuspense(a, b)
  PROVE  a \in accounts /\ Worth(b, a.id)' = Worth(b, a.id)
<1>1. UNCHANGED journal => Worth(b, a.id)' = Worth(b, a.id)
  BY DEF Worth, ListJournal
<1>2. ASSUME NEW v \in Workers, frame[v].bank = b, frame[v].pc \in Calls PROVE v = w
  <2>1. frame[v].op \in SettlementOps
    BY <1>2, FrameHolds DEF RequestOK, Frame, Ops, SettlementOps, Calls
  <2> QED BY <1>2, <2>1 DEF Alone, Settles
<1>3. ASSUME NEW v \in Workers, Adds(v) PROVE a \in accounts /\ Worth(b, a.id)' = Worth(b, a.id)
  <2>1. v # w /\ frame[v].pc = "post"
    BY <1>3 DEF Adds, AddLeads
  <2>2. frame[v].bank # b
    BY <1>2, <2>1 DEF Calls
  <2> QED BY <1>3, <2>2, EntryIsNew, WorthAdds
<1>4. ASSUME NEW v \in Workers, NEW x, Opens(v, x)
      PROVE  a \in accounts /\ Worth(b, a.id)' = Worth(b, a.id)
  <2>1. frame'[v].pc # "open_internal" /\ frame[v].pc = "open_internal"
    BY <1>4, CoreStepOwn, FrameHolds
       DEF Opens, Leads, EnsureLeads, OpenLeads, FailLeads, FundsLeads, BookLeads, CheckLeads,
           AddLeads, CoreFrameOK, Continuations
  <2>2. frame[v].bank # b
    BY <1>2, <2>1 DEF Calls
  <2> QED BY <1>1, <1>4, <2>2 DEF Opens, IsSuspense
<1> QED BY <1>1, <1>3, <1>4, LedgerStep

(* What a worker adds to the store meets the cycles of all banks. *)
LEMMA SaveMeets ==
  ASSUME NEW v \in Workers, NEW w \in Workers, v # w, NEW b \in Banks, Cycling(w, b),
         b \notin overlapped', NEW p, NEW x, Save(v, p, x)
  PROVE  p \in Stored
BY DEF Save, Meets, Cycling

LEMMA OthersLeave ==
  ASSUME TInv, TInv', HInv, SweepsOK, RunsOK, [Next]_vars, NEW b \in banks, CyclesOK(b), Alone(b),
         b \notin overlapped', NEW w \in Workers, Cycling(w, b), frame'[w] = frame[w],
         NEW v \in Workers, v # w, Accepts(v) \/ Serves(v)
  PROVE  Leaves(w, b)
<1>1. \A q \in Known : SameInstruction(PaymentOf(q), PaymentOf(q)')
  BY InstructionsStay
<1>2. ~Settles(v, b) /\ b \in Banks
  BY DEF Alone, TInv, DbInv, DbTypeOK
<1>3. ASSUME Stored' \subseteq Known, NEW K \in SUBSET Known,
             \A q \in K : StatusOf(q)' = StatusOf(q),
             \A q \in Known \ K : PaymentOf(q).bank # b,
             Stored' = Stored
      PROVE  Leaves(w, b)
  BY <1>1, <1>3, RowsLeft DEF Leaves, SameInstruction
<1>4. Stored \subseteq Known
  BY DEF Known
<1>5. CASE InitiatePayment(v)
  <2>1. b \in overlapped'
    BY <1>2, <1>5 DEF InitiatePayment, Meets, Cycling
  <2> QED BY <2>1
<1>6. CASE StartAuthorisation(v)
  BY <1>3, <1>4, <1>6, StartShape DEF OthersSame, StatusOf
<1>7. CASE BeginAuthorise(v)
  BY <1>3, <1>4, <1>7, BeginAuthoriseShape DEF OthersSame, StatusOf
<1>8. CASE UNCHANGED <<payments, forgotten>>
  BY <1>3, <1>4, <1>8, StoreSame DEF StatusOf
<1>9. CASE RecordOutcome(v)
  <2>1. PICK p \in Known :
          /\ p = frame[v].ref
          /\ \/ AllSame /\ Stored' = Stored
             \/ Stored' = Stored \union {p} /\ OthersSame(p)
    BY <1>9, RecordShape
  <2>2. PaymentOf(p).bank # b
    BY <1>2, <1>9, <2>1 DEF RecordOutcome, RunsOK, RunOK, Handles, Settles, SettlementOps
  <2>3. UNCHANGED <<payments, forgotten>> \/ p \in Stored
    BY <1>2, <1>9, <2>1, SaveMeets DEF RecordOutcome, history
  <2>4. CASE p \in Stored
    BY <1>3, <1>4, <2>1, <2>2, <2>4 DEF OthersSame, AllSame, StatusOf
  <2> QED BY <1>8, <2>3, <2>4
<1>11. CASE ResolveEngine(v)
  <2>1. PICK p \in Known : /\ p = frame[v].ref /\ Save(v, p, PaymentOf(p))
                           /\ Stored' = Stored \union {p} /\ AllSame
    BY <1>11, ResolveSaves
  <2>2. p \in Stored
    BY <1>2, <2>1, SaveMeets
  <2> QED BY <1>3, <1>4, <2>1, <2>2 DEF AllSame, StatusOf
<1>10. CASE Promote(v)
  <2>1. PICK p \in cycle[v].promote :
              \/ AllSame /\ Stored' = Stored
              \/ Save(v, p, [PaymentOf(p) EXCEPT !.status = "ACSC"]) /\ p \in Known
    BY <1>10, PromoteCycle
  <2>2. PaymentOf(p).bank # b
    <3>1. frame[v].op = "cycle"
      BY <1>10, CycleOp DEF Promote, CycleLabels
    <3> QED BY <1>2, <3>1, PromotesOwn DEF Settles, SettlementOps
  <2>3. CASE AllSame /\ Stored' = Stored
    BY <1>3, <1>4, <2>3 DEF AllSame, StatusOf
  <2>4. CASE Save(v, p, [PaymentOf(p) EXCEPT !.status = "ACSC"]) /\ p \in Known
    <3>1. p \in Stored
      BY <1>2, <2>4, SaveMeets
    <3>2. Stored' = Stored \union {p} /\ \A q \in Known : q # p => PaymentOf(q)' = PaymentOf(q)
      BY <2>4, SaveShape
    <3> DEFINE K == Known \ {p}
    <3>3. Stored' = Stored /\ \A q \in K : StatusOf(q)' = StatusOf(q)
      BY <3>1, <3>2 DEF StatusOf
    <3>4. \A q \in Known \ K : PaymentOf(q).bank # b
      BY <2>2
    <3> HIDE DEF K
    <3>5. K \in SUBSET Known
      BY DEF K
    <3> QED BY <1>3, <1>4, <3>3, <3>4, <3>5
  <2> QED BY <2>1, <2>3, <2>4
<1> QED BY <1>5, <1>6, <1>7, <1>8, <1>9, <1>10, <1>11, WorkerDoes DEF payVars, Aside

LEMMA PurgeLeaves ==
  ASSUME TInv, TInv', HInv, SweepsOK, RunsOK, [Next]_vars, NEW b \in banks, CyclesOK(b), Alone(b),
         OnePurge, NEW w \in Workers, Cycling(w, b), PurgeReads \/ PurgeAssigns \/ UNCHANGED vars
  PROVE  Leaves(w, b)
<1>1. frame'[w] = frame[w] /\ Stored \subseteq Known
  BY DEF PurgeReads, PurgeAssigns, vars, Known
<1>2. CASE UNCHANGED <<payments, forgotten>>
  BY <1>1, <1>2, StoreSame, RowsLeft DEF Leaves, StatusOf
<1>3. CASE PurgeAssigns
  <2>1. PICK kept \in purging : /\ payments' = [p \in kept |-> PaymentOf(p)]
                                /\ forgotten' = [p \in Known \ kept |-> PaymentOf(p)]
    BY <1>3 DEF PurgeAssigns
  <2>2. kept \subseteq Stored /\ kept \in SUBSET Known
    BY <2>1 DEF OnePurge, TInv, RestOK
  <2>3. Stored' = kept /\ \A q \in Known : PaymentOf(q)' = PaymentOf(q)
    BY <2>1, <2>2, PurgeShape
  <2>4. frame[w].pc # "listing"
    BY <1>3 DEF PurgeAssigns
  <2> QED BY <1>1, <2>2, <2>3, <2>4, RowsLeft DEF Leaves, StatusOf
<1> QED BY <1>2, <1>3 DEF PurgeReads, vars

-----------------------------------------------------------------------------
(* A cycle keeps to what it knows. *)

LEMMA RowsSame ==
  ASSUME UNCHANGED <<accounts, journal>>, NEW b
  PROVE  /\ SuspenseIds(b)' = SuspenseIds(b)
         /\ \A id : Worth(b, id)' = Worth(b, id)
BY DEF SuspenseIds, IsSuspense, Worth, ListJournal

LEMMA IdleCycleOK == ASSUME NEW w, NEW b, frame'[w].op # "cycle" PROVE CycleOK(w, b)'
BY DEF CycleOK, Cycling

LEMMA CycleEngineOK ==
  ASSUME TInv, RunsOK, NEW b, NEW w \in Workers, Cycling(w, b), CycleEngine(w)
  PROVE  CycleOK(w, b)'
<1>1. UNCHANGED <<accounts, journal>>
  BY DEF CycleEngine, tables
<1>2. CASE frame'[w] = IdleFrame
  BY <1>2, IdleCycleOK DEF IdleFrame
<1>3. CASE frame'[w] # IdleFrame
  <2>1. frame'[w].pc = "sweep" /\ frame'[w].bank = b /\ cycle'[w].suspense = SuspenseIds(b)
    BY <1>3, CycleEngineShape DEF GoesTo, SameRequest, Cycling
  <2>2. \A a \in accounts' : IsSuspense(a, b) => a.id \in cycle'[w].suspense
    BY <1>1, <2>1 DEF SuspenseIds
  <2> QED BY <1>1, <2>1, <2>2, RowsSame DEF CycleOK, Calls, IsSuspense
<1> QED BY <1>2, <1>3

LEMMA SweepOneOK ==
  ASSUME TInv, NEW b, HoldsOK(b), NEW w \in Workers, Cycling(w, b), CycleOK(w, b), Sweep(w)
  PROVE  CycleOK(w, b)'
<1>1. UNCHANGED <<accounts, journal>> /\ frame[w].pc = "sweep" /\ frame[w].bank = b
  BY SweepShape DEF Sweep, tables, Cycling
<1> DEFINE s == cycle[w].suspense
<1>2. /\ s \subseteq SuspenseIds(b)
      /\ \A a \in accounts : IsSuspense(a, b) /\ a.id \notin s => Worth(b, a.id) = 0
  BY <1>1 DEF CycleOK
<1>3. PICK id \in s :
        \/ /\ Worth(b, id) > 0 /\ SameCycle(w)
           /\ \E a \in accounts : /\ a.id = id /\ a.bank = b
                                  /\ Calling(frame[w], frame'[w], a, Worth(b, id))
        \/ /\ ~(Worth(b, id) > 0) /\ UNCHANGED frame /\ cycle'[w].suspense = s \ {id}
  BY <1>1, SweepShape
<1>4. CASE Worth(b, id) > 0
  <2>1. PICK a \in accounts : /\ a.id = id /\ a.bank = b
                              /\ Calling(frame[w], frame'[w], a, Worth(b, id))
    BY <1>3, <1>4
  <2>2. IsSuspense(a, b) /\ cycle'[w] = cycle[w]
    BY <1>2, <1>3, <1>4, <2>1 DEF SuspenseIds, IsSuspense, TInv, DbInv, DbKeys, SameCycle
  <2>3. frame'[w].pc = "ensure" /\ Sweeps(frame'[w], a, Worth(b, a.id)')
    BY <1>1, <1>4, <2>1, RowsSame DEF Calling, Sweeps
  <2>4. a \in accounts' /\ a.id \in cycle'[w].suspense
    BY <1>1, <2>1, <2>2
  <2>5. \A x \in accounts' : IsSuspense(x, b) /\ x.id \notin cycle'[w].suspense => Worth(b, x.id)' = 0
    BY <1>1, <1>2, <2>2, RowsSame
  <2>6. cycle'[w].suspense \subseteq SuspenseIds(b)'
    BY <1>1, <1>2, <2>2, RowsSame
  <2> QED BY <2>2, <2>3, <2>4, <2>5, <2>6 DEF CycleOK, IsSuspense, Sweeps
<1>5. CASE ~(Worth(b, id) > 0)
  <2>1. frame'[w] = frame[w] /\ cycle'[w].suspense = s \ {id}
    BY <1>3, <1>5
  <2>2. ASSUME NEW x \in accounts', IsSuspense(x, b), x.id \notin cycle'[w].suspense
        PROVE  Worth(b, x.id)' = 0
    <3>1. x \in accounts /\ Worth(b, x.id)' = Worth(b, x.id) /\ Worth(b, x.id) \in Int
      BY <1>1, RowsSame, WorthType
    <3>2. x.id = id => Worth(b, x.id) = 0
      BY <1>5, <2>2, <3>1 DEF HoldsOK
    <3> QED BY <1>2, <2>1, <2>2, <3>1, <3>2
  <2>3. cycle'[w].suspense \subseteq SuspenseIds(b)'
    BY <1>1, <1>2, <2>1, RowsSame
  <2> QED BY <1>1, <2>1, <2>2, <2>3 DEF CycleOK, IsSuspense, Calls
<1> QED BY <1>4, <1>5

LEMMA SweptOK ==
  ASSUME TInv, NEW b, NEW w \in Workers, Cycling(w, b), CycleOK(w, b), Swept(w)
  PROVE  CycleOK(w, b)'
<1>1. UNCHANGED <<accounts, journal>> /\ frame[w].pc = "return" /\ frame[w].bank = b
  BY SweptShape DEF Swept, tables, Cycling
<1> DEFINE s == cycle[w].suspense
<1>2. PICK a \in accounts : /\ IsSuspense(a, b) /\ a.id \in s /\ a.id = frame[w].payer
                            /\ frame[w].result = "ok" /\ Worth(b, a.id) = 0
  BY <1>1 DEF CycleOK, Sweeps
<1>3. /\ s \subseteq SuspenseIds(b)
      /\ \A x \in accounts : IsSuspense(x, b) /\ x.id \notin s => Worth(b, x.id) = 0
  BY <1>1 DEF CycleOK
<1>4. frame'[w].pc = "sweep" /\ cycle'[w].suspense = s \ {a.id}
  BY <1>2, SweptShape DEF GoesTo
<1>5. ASSUME NEW x \in accounts', IsSuspense(x, b), x.id \notin cycle'[w].suspense
      PROVE  Worth(b, x.id)' = 0
  <2>1. x \in accounts /\ Worth(b, x.id)' = Worth(b, x.id)
    BY <1>1, RowsSame
  <2> QED BY <1>2, <1>3, <1>4, <1>5, <2>1
<1>6. cycle'[w].suspense \subseteq SuspenseIds(b)'
  BY <1>1, <1>3, <1>4, RowsSame
<1> QED BY <1>4, <1>5, <1>6 DEF CycleOK, IsSuspense, Calls

(* The last steps, all of them with nothing left to sweep. *)
LEMMA EmptyHanded ==
  ASSUME NEW b, NEW w \in Workers, Cycling(w, b), CycleOK(w, b), frame[w].pc # "cycle_engine",
         cycle[w].suspense = {}, UNCHANGED <<accounts, journal>>,
         frame'[w].pc \in {"list_payments", "listing", "promote"}, cycle'[w].suspense = {},
         frame'[w].pc = "listing" => cycle'[w].size = Cardinality(Stored'),
         frame'[w].pc = "promote" =>
           \A p \in Stored' : StatusOf(p)' = "ACTC" /\ PaymentOf(p)'.bank = b =>
             p \in cycle'[w].promote
  PROVE  CycleOK(w, b)'
<1>1. \A a \in accounts' : IsSuspense(a, b) => Worth(b, a.id)' = 0
  BY RowsSame DEF CycleOK
<1> QED BY <1>1 DEF CycleOK, IsSuspense, Calls

LEMMA CycleEndsOK ==
  ASSUME TInv, RunsOK, NEW b, NEW w \in Workers, Cycling(w, b), CycleOK(w, b),
         CycleDone(w) \/ ListPayments(w) \/ PaymentsListed(w) \/ Promote(w) \/ EndCycle(w)
  PROVE  CycleOK(w, b)'
<1>1. UNCHANGED <<accounts, journal>> /\ frame[w].bank = b
  BY DEF CycleDone, ListPayments, PaymentsListed, Promote, EndCycle, tables, Cycling
<1>2. ASSUME Quits(w) PROVE CycleOK(w, b)'
  BY <1>2, IdleCycleOK DEF Quits, IdleFrame
<1>3. frame[w].pc # "cycle_engine" /\ cycle[w].suspense = {}
  BY CycleDoneShape, ListPaymentsShape, PaymentsListedShape, PromoteCycle, EndCycleShape
     DEF CycleOK
<1>4. UNCHANGED payments => Stored' = Stored
  BY DEF Stored
<1>5. CASE CycleDone(w)
  BY <1>1, <1>2, <1>3, <1>5, CycleDoneShape, EmptyHanded DEF GoesTo, SameCycle
<1>6. CASE ListPayments(w)
  <2>1. Stored' = Stored
    BY <1>4, <1>6 DEF ListPayments
  <2> QED BY <1>1, <1>3, <1>6, <2>1, ListPaymentsShape, EmptyHanded DEF GoesTo
<1>7. CASE PaymentsListed(w)
  <2>1. UNCHANGED <<payments, forgotten>> /\ Stored' = Stored
    BY <1>4, <1>7 DEF PaymentsListed, history
  <2>2. CASE Quits(w)
    BY <1>2, <2>2
  <2>3. CASE ~Quits(w)
    <3>1. /\ frame'[w].pc = "promote" /\ cycle'[w].suspense = {}
          /\ cycle'[w].promote = {p \in Stored : payments[p].bank = b}
      BY <1>1, <1>3, <1>7, <2>3, PaymentsListedShape DEF GoesTo
    <3>2. ASSUME NEW p \in Stored', PaymentOf(p)'.bank = b PROVE p \in cycle'[w].promote
      BY <2>1, <3>1, <3>2 DEF PaymentOf
    <3> QED BY <1>1, <1>3, <3>1, <3>2, EmptyHanded
  <2> QED BY <2>2, <2>3
<1>8. CASE Promote(w)
  <2>1. PICK p \in cycle[w].promote :
          /\ cycle'[w].promote = cycle[w].promote \ {p}
          /\ cycle'[w].suspense = cycle[w].suspense
          /\ \/ StatusOf(p) # "ACTC" /\ AllSame /\ Stored' = Stored
             \/ /\ StatusOf(p) = "ACTC" /\ Save(w, p, [PaymentOf(p) EXCEPT !.status = "ACSC"])
                /\ p \in Known
    BY <1>8, PromoteCycle
  <2>2. /\ frame[w].pc = "promote" /\ frame'[w] = frame[w]
        /\ \A q \in Stored : StatusOf(q) = "ACTC" /\ PaymentOf(q).bank = b => q \in cycle[w].promote
    BY <1>8, PromoteCycle DEF CycleOK
  <2>3. ASSUME NEW q \in Stored', StatusOf(q)' = "ACTC", PaymentOf(q)'.bank = b
        PROVE  q \in cycle'[w].promote
    <3>1. CASE StatusOf(p) # "ACTC" /\ AllSame /\ Stored' = Stored
      <4>1. StatusOf(q) = "ACTC" /\ PaymentOf(q).bank = b /\ q \in Stored
        BY <2>3, <3>1 DEF AllSame, StatusOf, Known
      <4> QED BY <2>1, <2>2, <3>1, <4>1
    <3>2. CASE Save(w, p, [PaymentOf(p) EXCEPT !.status = "ACSC"]) /\ p \in Known
      <4> DEFINE x == PaymentOf(p)
                 y == [x EXCEPT !.status = "ACSC"]
      <4>1. y.status = "ACSC"
        BY <3>2 DEF TInv, StoreOK, Payment
      <4> HIDE DEF y
      <4>2. /\ Stored' = Stored \union {p} /\ PaymentOf(p)' = y
            /\ \A r \in Known : r # p => PaymentOf(r)' = PaymentOf(r)
        BY <3>2, SaveShape DEF y
      <4>3. q # p
        BY <2>3, <4>1, <4>2 DEF StatusOf
      <4>4. q \in Stored /\ StatusOf(q) = "ACTC" /\ PaymentOf(q).bank = b
        BY <2>3, <4>2, <4>3 DEF StatusOf, Known
      <4> QED BY <2>1, <2>2, <4>3, <4>4
    <3> QED BY <2>1, <3>1, <3>2
  <2> QED BY <1>1, <1>3, <2>1, <2>2, <2>3, EmptyHanded
<1>9. CASE EndCycle(w)
  BY <1>2, <1>9, EndCycleShape
<1> QED BY <1>5, <1>6, <1>7, <1>8, <1>9

-----------------------------------------------------------------------------
(* The transfer of a sweep does not fail. *)

LEMMA TwoLegsBalance ==
  ASSUME NEW from \in AccountIds, NEW to \in AccountIds, NEW c \in Currencies, NEW m \in Int
  PROVE  Balanced(TwoLegs(from, to, c, m))
<1> DEFINE ps == TwoLegs(from, to, c, m)
           g == [n \in DOMAIN ps |-> ps[n].amount]
<1>1. ps \in Seq(Posting) /\ Len(ps) = 2 /\ DOMAIN ps = {1, 2}
  BY TwoLegsType DEF TwoLegs
<1>2. ps[1].ccy = c /\ ps[2].ccy = c /\ g[1] = -m /\ g[2] = m
  BY <1>1 DEF TwoLegs, Leg
<1>3. {n \in DOMAIN ps : ps[n].ccy = c} = {1} \union {2}
  BY <1>1, <1>2
<1>4. NetOf(ps, c) = Sum(g, {1} \union {2})
  <2> HIDE DEF ps
  <2> QED BY <1>1, <1>3, NetOfIsSum
<1> HIDE DEF g
<1>a. IsFiniteSet({1})
  BY FS_Singleton
<1>b. g[1] \in Int /\ g[2] \in Int
  BY <1>2
<1>c. 2 \notin {1} /\ {1} \ {1} = {} /\ 1 \in {1}
  OBVIOUS
<1>d. /\ \A y \in {1} \union {2} : g[y] \in Int
      /\ \A y \in {1} : g[y] \in Int
  BY <1>b
<1>5. Sum(g, {1} \union {2}) = g[2] + Sum(g, {1})
  BY <1>a, <1>c, <1>d, SumAdd
<1>6. Sum(g, {1}) = g[1]
  <2>2. Sum(g, {1}) = g[1] + Sum(g, {})
    BY <1>a, <1>c, <1>d, SumRemove
  <2> QED BY <1>2, <2>2, SumEmpty
<1>7. NetOf(ps, c) = 0
  BY <1>2, <1>4, <1>5, <1>6
<1> QED BY <1>1, <1>2, <1>7 DEF Balanced

LEMMA SweepSucceeds ==
  ASSUME TInv, HInv, SweepsOK, RunsOK, NEW b, NEW w \in Workers, Cycling(w, b), CycleOK(w, b),
         CoreStep(w)
  PROVE  ~FailLeads(frame[w], frame'[w]) /\ ~FundsLeads(frame[w], frame'[w])
<1> DEFINE f == frame[w]
<1>1. ASSUME f.pc \in Calls
      PROVE  \E a \in accounts : /\ a.bank = f.bank /\ a.id = f.payer /\ a.ccy = f.ccy
                                 /\ a.kind = "suspense" /\ f.amount > 0
                                 /\ f.pc = "post" => f.next >= 1
  BY <1>1 DEF CycleOK, Sweeps, IsSuspense, Cycling
<1>2. ASSUME f.pc \in {"transfer", "post"}
      PROVE  \E x \in accounts : x.bank = f.bank /\ x.id = f.payee /\ x.ccy = f.ccy
  BY <1>2 DEF RunsOK, RunOK, Reaches
<1>3. CASE TransferLookup(w)
  <2>1. f.pc = "transfer"
    BY <1>3 DEF TransferLookup
  <2>2. PICK a \in accounts : /\ a.bank = f.bank /\ a.id = f.payer /\ a.kind = "suspense"
                              /\ f.amount > 0
    BY <1>1, <2>1 DEF Calls
  <2>3. PICK x \in accounts : x.bank = f.bank /\ x.id = f.payee
    BY <1>2, <2>1
  <2>4. /\ GetAccount(f.bank, f.payer) # {} /\ GetAccount(f.bank, f.payee) # {} /\ MayOverdraw(f)
        /\ f.amount \in Int /\ ~(f.amount <= 0)
    <3>1. a \in GetAccount(f.bank, f.payer) /\ x \in GetAccount(f.bank, f.payee) /\ IsInternal(a)
      BY <2>2, <2>3 DEF GetAccount, IsInternal, InternalKinds
    <3>2. f.amount \in Int
      BY FrameHolds DEF Frame
    <3> QED BY <2>2, <3>1, <3>2 DEF MayOverdraw
  <2>5. Balanced(TwoLegs(f.payer, f.payee, f.ccy, f.amount))
    BY <2>1, <2>4, TwoLegsBalance, FrameHolds DEF CoreFrameOK
  <2>6. Book(w, TwoLegs(f.payer, f.payee, f.ccy, f.amount))
    BY <1>3, <2>4 DEF TransferLookup
  <2> DEFINE ps == TwoLegs(f.payer, f.payee, f.ccy, f.amount)
             g == [f EXCEPT !.pc = "post", !.postings = ps, !.next = 1]
  <2>7. frame' = [frame EXCEPT ![w] = g]
    BY <2>5, <2>6 DEF Book
  <2> HIDE DEF ps
  <2>8. g.pc = "post"
    BY FrameHolds DEF Frame
  <2> HIDE DEF g
  <2>9. frame'[w].pc = "post"
    BY <2>7, <2>8 DEF TInv
  <2> QED BY <2>9 DEF FailLeads, FundsLeads
<1>4. CASE PostCheck(w)
  <2>1. f.pc = "post" /\ f.next <= Len(f.postings)
    BY <1>4 DEF PostCheck
  <2>2. PICK a \in accounts : /\ a.bank = f.bank /\ a.id = f.payer /\ a.ccy = f.ccy
                              /\ f.next >= 1
    BY <1>1, <2>1 DEF Calls
  <2>3. PICK x \in accounts : x.bank = f.bank /\ x.id = f.payee /\ x.ccy = f.ccy
    BY <1>2, <2>1
  <2>4. f.postings = TwoLegs(f.payer, f.payee, f.ccy, f.amount) /\ f.next \in Nat
    BY <2>1, LegsOf, FrameHolds DEF Frame
  <2>5. f.next \in {1, 2}
    <3>1. Len(f.postings) = 2
      BY <2>4 DEF TwoLegs
    <3> QED BY <2>1, <2>2, <2>4, <3>1
  <2>6. /\ f.postings[1].account = f.payer /\ f.postings[1].ccy = f.ccy
        /\ f.postings[2].account = f.payee /\ f.postings[2].ccy = f.ccy
    BY <2>4 DEF TwoLegs, Leg
  <2> DEFINE rows == GetAccount(f.bank, f.postings[f.next].account)
  <2>7. rows # {} /\ \A y \in rows : y.ccy = f.postings[f.next].ccy
    <3>1. CASE f.next = 1
      <4>1. a \in rows /\ \A y \in rows : y = a
        BY <2>2, <2>6, <3>1 DEF GetAccount, TInv, DbInv, DbKeys
      <4> QED BY <2>2, <2>6, <3>1, <4>1
    <3>2. CASE f.next = 2
      <4>1. x \in rows /\ \A y \in rows : y = x
        BY <2>3, <2>6, <3>2 DEF GetAccount, TInv, DbInv, DbKeys
      <4> QED BY <2>3, <2>6, <3>2, <4>1
    <3> QED BY <2>5, <3>1, <3>2
  <2>8. frame' = [frame EXCEPT ![w].next = @ + 1]
    BY <1>4, <2>7 DEF PostCheck
  <2> DEFINE n == f.next + 1
             g == [f EXCEPT !.next = n]
  <2>9. frame' = [frame EXCEPT ![w] = g]
    BY <2>8
  <2>10. g.pc = "post"
    BY <2>1, FrameHolds DEF Frame
  <2> HIDE DEF g
  <2>11. frame'[w].pc = "post"
    BY <2>9, <2>10 DEF TInv
  <2> QED BY <2>11 DEF FailLeads, FundsLeads
<1>5. CASE EnsureFind(w) \/ EnsureOpen(w)
  BY <1>5 DEF EnsureFind, EnsureOpen, FailLeads, FundsLeads
<1>6. CASE TransferFunds(w)
  BY <1>6 DEF TransferFunds, CycleOK
<1>7. CASE PostAdd(w)
  <2>1. seq' # seq
    BY <1>7 DEF PostAdd, TInv, DbInv, DbTypeOK
  <2> QED BY <2>1 DEF FailLeads, FundsLeads, tables
<1> QED BY <1>3, <1>4, <1>5, <1>6, <1>7 DEF CoreStep

LEMMA CallGoesOn ==
  ASSUME TInv, TInv', HInv, SweepsOK, RunsOK, [Next]_vars, NEW b \in banks, CyclesOK(b),
         NEW w \in Workers, Cycling(w, b), CoreStep(w), UNCHANGED payVars
  PROVE  CycleOK(w, b)'
<1> DEFINE f == frame[w]
           g == frame'[w]
           s == cycle[w].suspense
<1>1. SameRequest(f, g) /\ Leads(f, g) /\ ~FailLeads(f, g) /\ ~FundsLeads(f, g)
  BY CoreStepOwn, SweepSucceeds DEF CyclesOK
<1>2. f.pc \in Calls /\ f.pc \notin {"resolve_engine", "funds"} /\ f.op = "cycle" /\ f.bank = b
  BY <1>1 DEF Leads, EnsureLeads, OpenLeads, FailLeads, FundsLeads, BookLeads, CheckLeads,
              AddLeads, Calls, CyclesOK, CycleOK, Cycling
<1>3. PICK a \in accounts : IsSuspense(a, b) /\ a.id \in s /\ Sweeps(f, a, Worth(b, a.id))
  BY <1>2 DEF CyclesOK, CycleOK
<1>4. /\ f.amount = Worth(b, a.id) /\ Worth(b, a.id) > 0 /\ f.kind = "net_settlement"
      /\ a.id = f.payer /\ a.ccy = f.ccy /\ (f.pc = "post" => f.next >= 1)
  BY <1>2, <1>3 DEF Sweeps
<1>5. /\ s \subseteq SuspenseIds(b)
      /\ \A x \in accounts : IsSuspense(x, b) /\ x.id \notin s => Worth(b, x.id) = 0
  BY <1>2 DEF CyclesOK, CycleOK, Calls
<1>6. accounts \subseteq accounts' /\ cycle'[w] = cycle[w]
  BY InstructionsStay DEF payVars
<1>7. s \subseteq SuspenseIds(b)'
  BY <1>5, <1>6 DEF SuspenseIds, IsSuspense
<1>8. g.bank = b /\ a \in accounts'
  BY <1>1, <1>2, <1>6 DEF SameRequest
<1>9. CASE ~AddLeads(f, g)
  <2>1. journal' = journal
    BY <1>1, <1>9 DEF Leads, EnsureLeads, OpenLeads, BookLeads, CheckLeads, tables
  <2>2. ASSUME NEW x \in accounts', IsSuspense(x, b)
        PROVE  x \in accounts /\ Worth(b, x.id)' = Worth(b, x.id)
    <3>1. Worth(b, x.id)' = Worth(b, x.id)
      BY <2>1 DEF Worth, ListJournal
    <3>2. CASE EnsureOpen(w)
      BY <1>4, <2>2, <3>1, <3>2 DEF EnsureOpen, IsSuspense
    <3>3. CASE ~EnsureOpen(w)
      BY <3>1, <3>3 DEF CoreStep, EnsureFind, TransferLookup, TransferFunds, PostCheck, PostAdd,
                        tables
    <3> QED BY <3>2, <3>3
  <2>3. g.pc \in {"transfer", "open_internal", "post"} /\ (g.pc = "post" => g.next >= 1)
    <3>1. f.pc \in {"ensure", "open_internal"} => f.then = "transfer"
      BY <1>2 DEF SweepsOK, SweepOK
    <3>2. f.next \in Nat
      BY FrameHolds DEF Frame
    <3> QED BY <1>1, <1>4, <1>9, <3>1, <3>2
            DEF Leads, EnsureLeads, OpenLeads, BookLeads, CheckLeads
  <2>4. Sweeps(g, a, Worth(b, a.id)')
    BY <1>1, <1>3, <1>4, <1>8, <2>2, <2>3 DEF Sweeps, SameRequest
  <2>5. \A x \in accounts' : IsSuspense(x, b) /\ x.id \notin s => Worth(b, x.id)' = 0
    BY <1>5, <2>2
  <2> QED BY <1>3, <1>6, <1>7, <1>8, <2>3, <2>4, <2>5 DEF CycleOK, IsSuspense, Sweeps
<1>10. CASE AddLeads(f, g)
  <2>1. Adds(w) /\ f.pc = "post" /\ g.pc = "return" /\ g.result = "ok"
    BY <1>10 DEF Adds, AddLeads
  <2>2. /\ Entry(w) \in JournalEntry /\ Entry(w).postings = f.postings /\ Entry(w).bank = b
        /\ journal' = journal \union {Entry(w)} /\ Entry(w) \notin journal /\ accounts' = accounts
    BY <1>2, <2>1, EntryIsNew
  <2>3. Worth(b, a.id)' = 0
    <3>1. MovedBy(Entry(w), a.id) = -f.amount
      BY <1>2, <1>3, <1>4, <2>1, <2>2, SweepLegs
    <3>2. Worth(b, a.id)' = Worth(b, a.id) + MovedBy(Entry(w), a.id) /\ Worth(b, a.id) \in Int
      BY <2>2, WorthAdds, WorthType
    <3> QED BY <1>4, <3>1, <3>2
  <2>4. ASSUME NEW x \in accounts', IsSuspense(x, b), x.id \notin s PROVE Worth(b, x.id)' = 0
    <3>1. Steady(b, x) \/ Credited(w, b, x) \/ Debited(w, b, x)
      BY <2>1, <2>2, <2>4, AddsHere
    <3> QED BY <1>2, <1>5, <2>2, <2>4, <3>1 DEF Steady, Credited, Debited
  <2>5. Sweeps(g, a, Worth(b, a.id)')
    BY <1>1, <1>4, <2>1, <2>3 DEF Sweeps, SameRequest, Calls
  <2> QED BY <1>3, <1>6, <1>7, <1>8, <2>1, <2>4, <2>5 DEF CycleOK, IsSuspense, Sweeps, Calls
<1> QED BY <1>9, <1>10

LEMMA BeginsOwn ==
  ASSUME TInv, NEW w \in Workers, BeginAuthorise(w) \/ BeginCycle(w)
  PROVE  /\ OwnStep(w)
         /\ BeginCycle(w) => frame'[w].pc = "cycle_engine"
         /\ BeginAuthorise(w) => frame'[w].op = "authorise"
<1>1. CASE BeginCycle(w)
  <2>1. PICK b \in banks :
          Begin(w, [IdleFrame EXCEPT !.op = "cycle", !.pc = "cycle_engine", !.bank = b])
    BY <1>1 DEF BeginCycle
  <2> DEFINE g == [IdleFrame EXCEPT !.op = "cycle", !.pc = "cycle_engine", !.bank = b]
  <2>2. g.pc = "cycle_engine" /\ g.op = "cycle"
    BY DEF IdleFrame
  <2> HIDE DEF g
  <2>3. OwnStep(w) /\ frame'[w] = g
    BY <2>1, BeginShape DEF g
  <2>4. ~BeginAuthorise(w)
    <3>1. BeginAuthorise(w) => frame'[w].op = "authorise"
      BY BeginAuthoriseShape DEF TInv
    <3> QED BY <2>2, <2>3, <3>1
  <2> QED BY <2>2, <2>3, <2>4
<1>2. CASE BeginAuthorise(w) /\ ~BeginCycle(w)
  BY <1>2, BeginAuthoriseShape DEF TInv, OwnStep
<1> QED BY <1>1, <1>2

LEMMA CyclesKept ==
  ASSUME TInv, TInv', HInv, SweepsOK, RunsOK, [Next]_vars, NEW b \in banks, HoldsOK(b),
         CyclesOK(b), Alone(b), OnePurge, b \notin overlapped'
  PROVE  CyclesOK(b)'
<1> SUFFICES ASSUME NEW w \in Workers PROVE CycleOK(w, b)'
  BY DEF CyclesOK
<1>0. CycleOK(w, b)
  BY DEF CyclesOK
<1>1. CASE Restart
  BY <1>1, IdleCycleOK DEF Restart, IdleFrame
<1>2. CASE PurgeReads \/ PurgeAssigns \/ UNCHANGED vars
  <2>1. frame'[w] = frame[w] /\ cycle'[w] = cycle[w]
    BY <1>2 DEF PurgeReads, PurgeAssigns, vars
  <2>2. CASE ~Cycling(w, b)
    BY <2>1, <2>2 DEF CycleOK, Cycling
  <2> QED BY <1>0, <1>2, <2>1, <2>2, PurgeLeaves, CycleUndisturbed
<1>3. ASSUME NEW v \in Workers, Accepts(v) \/ Serves(v), v # w PROVE CycleOK(w, b)'
  <2>1. OwnStep(v)
    BY <1>3, RequestContinues, BeginsOwn DEF Continues
  <2>2. OwnCycle(v)
    BY <1>3, CycleEngineShape, SweepShape, SweptShape, CycleDoneShape, ListPaymentsShape,
       PaymentsListedShape, PromoteCycle, EndCycleShape
       DEF Accepts, Serves, InitiatePayment, StartAuthorisation, Reconfigure, BeginAuthorise,
           BeginCycle, ResolveEngine, RecordOutcome, payVars, OwnCycle, SameCycle, Quits
  <2>3. frame'[w] = frame[w] /\ cycle'[w] = cycle[w]
    BY <1>3, <2>1, <2>2 DEF OwnStep, OwnCycle
  <2>4. CASE ~Cycling(w, b)
    BY <2>3, <2>4 DEF CycleOK, Cycling
  <2> QED BY <1>0, <1>3, <2>3, <2>4, OthersLeave, CycleUndisturbed
<1>4. ASSUME Accepts(w) \/ Serves(w) PROVE CycleOK(w, b)'
  <2>1. CASE BeginCycle(w)
    <3>1. frame'[w].pc = "cycle_engine"
      BY <2>1, BeginsOwn
    <3>2. cycle'[w].suspense = {}
      BY <2>1, FrameHolds DEF BeginCycle, Idle, RunsOK, RunOK, RequestOK, NoCycle
    <3> QED BY <3>1, <3>2 DEF CycleOK, Calls
  <2>2. CASE BeginAuthorise(w)
    <3>1. frame'[w].op = "authorise"
      BY <2>2, BeginsOwn
    <3> QED BY <3>1, IdleCycleOK
  <2>3. CASE ~Cycling(w, b) /\ ~BeginCycle(w) /\ ~BeginAuthorise(w)
    BY <1>4, <2>3, RequestContinues DEF Continues, CycleOK, Cycling
  <2>4. CASE Cycling(w, b)
    <3>1. ~Idle(w) /\ frame[w].op = "cycle" /\ frame[w].pc # "resolve_engine"
      BY <2>4, FrameHolds DEF Cycling, Idle, RequestOK, SweepsOK, SweepOK
    <3>2. \/ CoreStep(w) /\ UNCHANGED payVars
          \/ CycleEngine(w) \/ Sweep(w) \/ Swept(w) \/ CycleDone(w)
          \/ ListPayments(w) \/ PaymentsListed(w) \/ Promote(w) \/ EndCycle(w)
      BY <1>4, <3>1
         DEF Accepts, Serves, InitiatePayment, StartAuthorisation, Reconfigure, BeginAuthorise,
             BeginCycle, ResolveEngine, RecordOutcome
    <3> QED BY <1>0, <2>4, <3>2, CallGoesOn, CycleEngineOK, SweepOneOK, SweptOK, CycleEndsOK
  <2> QED BY <2>1, <2>2, <2>3, <2>4
<1> QED BY <1>1, <1>2, <1>3, <1>4 DEF Next

-----------------------------------------------------------------------------
(* What the suspense accounts of a bank hold, and what they owe.           *)

LEMMA SumPart ==
  ASSUME NEW S, IsFiniteSet(S), NEW T \in SUBSET S, NEW g, \A x \in S : g[x] \in Int
  PROVE  /\ (\A x \in S \ T : g[x] >= 0) => Sum(g, T) <= Sum(g, S)
         /\ (\A x \in S \ T : g[x] = 0) => Sum(g, S) = Sum(g, T)
<1> DEFINE F == {r \in SUBSET S : Sum(g, r \intersect T) <= Sum(g, r)}
           E == {r \in SUBSET S : Sum(g, r \intersect T) = Sum(g, r)}
<1>1. {} \in F /\ {} \in E
  <2>1. {} \intersect T = {} /\ Sum(g, {}) = 0
    BY SumEmpty
  <2> QED BY <2>1
<1>2. ASSUME NEW r \in SUBSET S, NEW x \in S, x \notin r
      PROVE  /\ Sum(g, r) \in Int /\ Sum(g, r \intersect T) \in Int
             /\ Sum(g, r \union {x}) = g[x] + Sum(g, r)
             /\ x \in T => Sum(g, (r \union {x}) \intersect T) = g[x] + Sum(g, r \intersect T)
             /\ x \notin T => (r \union {x}) \intersect T = r \intersect T
  <2>1. IsFiniteSet(r) /\ IsFiniteSet(r \intersect T)
    BY FS_Subset
  <2>2. /\ \A y \in r \union {x} : g[y] \in Int
        /\ \A y \in (r \intersect T) \union {x} : g[y] \in Int
        /\ x \notin r \intersect T
    BY <1>2
  <2>3. Sum(g, r) \in Int /\ Sum(g, r \intersect T) \in Int
    BY <2>1, <2>2, SumInt
  <2>4. Sum(g, r \union {x}) = g[x] + Sum(g, r)
    BY <1>2, <2>1, <2>2, SumAdd
  <2>5. Sum(g, (r \intersect T) \union {x}) = g[x] + Sum(g, r \intersect T)
    BY <2>1, <2>2, SumAdd
  <2>6. /\ x \in T => (r \union {x}) \intersect T = (r \intersect T) \union {x}
        /\ x \notin T => (r \union {x}) \intersect T = r \intersect T
    OBVIOUS
  <2> QED BY <2>3, <2>4, <2>5, <2>6
<1>3. S \intersect T = T
  OBVIOUS
<1>4. ASSUME \A x \in S \ T : g[x] >= 0 PROVE Sum(g, T) <= Sum(g, S)
  <2>1. ASSUME NEW r \in SUBSET S, NEW x \in S, r \in F, x \notin r PROVE r \union {x} \in F
    <3>1. g[x] \in Int /\ (x \notin T => g[x] >= 0)
      BY <1>4
    <3>2. Sum(g, r \intersect T) <= Sum(g, r) /\ r \union {x} \in SUBSET S
      BY <2>1
    <3>3. /\ Sum(g, r) \in Int /\ Sum(g, r \intersect T) \in Int
          /\ Sum(g, r \union {x}) = g[x] + Sum(g, r)
      BY <1>2, <2>1
    <3>4. CASE x \in T
      <4>1. Sum(g, (r \union {x}) \intersect T) = g[x] + Sum(g, r \intersect T)
        BY <1>2, <2>1, <3>4
      <4>2. Sum(g, (r \union {x}) \intersect T) <= Sum(g, r \union {x})
        BY <3>1, <3>2, <3>3, <4>1
      <4> QED BY <3>2, <4>2
    <3>5. CASE x \notin T
      <4>1. (r \union {x}) \intersect T = r \intersect T
        BY <3>5
      <4>2. Sum(g, r) <= Sum(g, r \union {x})
        BY <3>1, <3>3, <3>5
      <4>3. Sum(g, r \intersect T) <= Sum(g, r \union {x})
        BY <3>1, <3>2, <3>3, <4>2
      <4> QED BY <3>2, <4>1, <4>3
    <3> QED BY <3>4, <3>5
  <2>2. S \in F
    <3> HIDE DEF F
    <3> QED BY <1>1, <2>1, FiniteInduction
  <2> QED BY <1>3, <2>2
<1>5. ASSUME \A x \in S \ T : g[x] = 0 PROVE Sum(g, S) = Sum(g, T)
  <2>1. ASSUME NEW r \in SUBSET S, NEW x \in S, r \in E, x \notin r PROVE r \union {x} \in E
    <3>1. g[x] \in Int /\ (x \notin T => g[x] = 0)
      BY <1>5
    <3>2. Sum(g, r \intersect T) = Sum(g, r)
      BY <2>1
    <3> QED BY <1>2, <2>1, <3>1, <3>2
  <2>2. S \in E
    <3> HIDE DEF E
    <3> QED BY <1>1, <2>1, FiniteInduction
  <2> QED BY <1>3, <2>2
<1> QED BY <1>4, <1>5

(* The request has moved the money of its payment to a suspense account. *)
Paid(f) == Ends(f) /\ f.kind = "suspense"

(* The payment's money lies there for a cycle to come. *)
Waits(p) ==
  \/ p \in Stored /\ StatusOf(p) = "ACTC"
  \/ StatusOf(p) = "ACTC" /\ \E w \in Workers : Handles(w, p)
  \/ \E w \in Workers : Handles(w, p) /\ Paid(frame[w])

Waiting(b, c) == {p \in Known : PaymentOf(p).bank = b /\ PaymentOf(p).ccy = c /\ Waits(p)}

SuspenseOf(b, c) == {a \in accounts : IsSuspense(a, b) /\ a.ccy = c}

Held(b, c) == Sum([a \in accounts |-> Worth(b, a.id)], SuspenseOf(b, c))

Owed(b, c) == Sum([p \in Known |-> PaymentOf(p).amount], Waiting(b, c))

LEMMA HeldType ==
  ASSUME TInv, NEW b, NEW c
  PROVE  /\ IsFiniteSet(SuspenseOf(b, c)) /\ Held(b, c) \in Int
         /\ HoldsOK(b) => Held(b, c) >= 0
<1> DEFINE g == [a \in accounts |-> Worth(b, a.id)]
           z == [a \in accounts |-> 0]
           S == SuspenseOf(b, c)
<1>1. IsFiniteSet(S) /\ S \subseteq accounts
  BY FS_Subset DEF TInv, FiniteDb, SuspenseOf
<1>2. \A a \in S : g[a] \in Int /\ z[a] = 0
  BY <1>1, WorthType
<1>3. HoldsOK(b) => \A a \in S : g[a] >= 0
  BY DEF HoldsOK, SuspenseOf
<1>4. Held(b, c) = Sum(g, S)
  BY DEF Held
<1> HIDE DEF g, z, S
<1>5. Sum(g, S) \in Int
  BY <1>1, <1>2, SumInt
<1>6. ASSUME \A a \in S : g[a] >= 0 PROVE Sum(g, S) >= 0
  <2>1. Sum(z, S) <= Sum(g, S)
    BY <1>1, <1>2, <1>6, SumAtMost
  <2>2. Sum(z, S) = 0
    BY <1>1, <1>2, SumZero
  <2> QED BY <1>5, <2>1, <2>2
<1>7. IsFiniteSet(SuspenseOf(b, c))
  BY <1>1 DEF S
<1> QED BY <1>3, <1>4, <1>5, <1>6, <1>7

LEMMA OwedType ==
  ASSUME TInv, NEW b, NEW c
  PROVE  /\ IsFiniteSet(Waiting(b, c)) /\ Owed(b, c) \in Int
         /\ \A p \in Known : PaymentOf(p).amount \in Nat
<1> DEFINE g == [p \in Known |-> PaymentOf(p).amount]
           S == Waiting(b, c)
<1>1. IsFiniteSet(S) /\ S \subseteq Known
  BY FS_Subset DEF TInv, StoreOK, Waiting
<1>2. \A p \in Known : PaymentOf(p).amount \in Nat
  BY DEF TInv, StoreOK, Payment
<1>3. \A p \in S : g[p] \in Int
  BY <1>1, <1>2
<1>4. Owed(b, c) = Sum(g, S)
  BY DEF Owed
<1> HIDE DEF g, S
<1>5. Sum(g, S) \in Int
  BY <1>1, <1>3, SumInt
<1>6. IsFiniteSet(Waiting(b, c))
  BY <1>1 DEF S
<1> QED BY <1>2, <1>4, <1>5, <1>6

(* No more is owed than before, but for what is paid in now. *)
LEMMA OwedGrows ==
  ASSUME TInv, TInv', [Next]_vars, NEW b, NEW c
  PROVE  /\ Owed(b, c)' \in Int
         /\ Waiting(b, c)' \subseteq Waiting(b, c) => Owed(b, c)' <= Owed(b, c)
         /\ \A p \in Known : Waiting(b, c)' \subseteq Waiting(b, c) \union {p} =>
              Owed(b, c)' <= Owed(b, c) + PaymentOf(p).amount
<1> DEFINE g == [p \in Known |-> PaymentOf(p).amount]
           h == [p \in Known' |-> PaymentOf(p)'.amount]
           S == Waiting(b, c)
           T == Waiting(b, c)'
<1>1. /\ IsFiniteSet(S) /\ IsFiniteSet(T) /\ S \subseteq Known /\ T \subseteq Known'
      /\ Owed(b, c) \in Int /\ Owed(b, c)' \in Int
      /\ \A p \in Known : PaymentOf(p).amount \in Nat
  <2>1. IsFiniteSet(S) /\ Owed(b, c) \in Int /\ \A p \in Known : PaymentOf(p).amount \in Nat
    BY OwedType
  <2>2. T \subseteq Known'
    BY DEF Waiting
  <2>3. IsFiniteSet(T) /\ \A p \in Known' : PaymentOf(p)'.amount \in Nat
    BY <2>2, FS_Subset DEF TInv, StoreOK, Payment
  <2>4. Owed(b, c)' = Sum(h, T) /\ \A p \in T : h[p] \in Int
    BY <2>2, <2>3 DEF Owed
  <2>5. Sum(h, T) \in Int
    <3> HIDE DEF h, T
    <3> QED BY <2>3, <2>4, SumInt
  <2> QED BY <2>1, <2>2, <2>3, <2>4, <2>5 DEF Waiting
<1>2. \A p \in Known : g[p] \in Int /\ g[p] >= 0 /\ p \in Known' /\ h[p] = g[p]
  BY <1>1, InstructionsStay DEF SameInstruction
<1>3. Owed(b, c) = Sum(g, S) /\ Owed(b, c)' = Sum(h, T)
  BY DEF Owed
<1>4. \A p \in Known : g[p] = PaymentOf(p).amount
  OBVIOUS
<1> HIDE DEF g, h, S, T
<1>5. ASSUME T \subseteq S PROVE Sum(h, T) <= Sum(g, S)
  <2>1. /\ \A p \in T : g[p] \in Int /\ h[p] = g[p]
        /\ \A p \in S : g[p] \in Int
        /\ \A p \in S \ T : g[p] >= 0
    BY <1>1, <1>2, <1>5
  <2>2. Sum(h, T) = Sum(g, T)
    BY <1>1, <2>1, SumSame
  <2>3. Sum(g, T) <= Sum(g, S)
    BY <1>1, <1>5, <2>1, SumPart
  <2> QED BY <2>2, <2>3
<1>6. ASSUME NEW p \in Known, T \subseteq S \union {p} PROVE Sum(h, T) <= Sum(g, S) + g[p]
  <2>1. CASE p \in S
    <3>1. S \union {p} = S
      BY <2>1
    <3> QED BY <1>1, <1>2, <1>3, <1>5, <1>6, <3>1
  <2>2. CASE p \notin S
    <3>1. /\ \A q \in T : g[q] \in Int /\ h[q] = g[q]
          /\ \A q \in S \union {p} : g[q] \in Int
          /\ \A q \in (S \union {p}) \ T : g[q] >= 0
      BY <1>1, <1>2, <1>6
    <3>2. Sum(h, T) = Sum(g, T)
      BY <1>1, <3>1, SumSame
    <3>3. IsFiniteSet(S \union {p})
      BY <1>1, FS_AddElement
    <3>4. Sum(g, T) <= Sum(g, S \union {p})
      BY <1>6, <3>1, <3>3, SumPart
    <3>5. Sum(g, S \union {p}) = g[p] + Sum(g, S)
      BY <1>1, <2>2, <3>1, SumAdd
    <3>6. Sum(g, S) \in Int /\ g[p] \in Int /\ Sum(g, T) \in Int
      BY <1>1, <1>2, <1>3, <3>2
    <3> QED BY <3>2, <3>4, <3>5, <3>6
  <2> QED BY <2>1, <2>2
<1> QED BY <1>1, <1>3, <1>4, <1>5, <1>6 DEF S, T

(* How a payment comes to wait for a cycle: its request adds the entry. *)
Pays(w, p) == Adds(w) /\ Handles(w, p) /\ frame[w].kind = "suspense"

LEMMA AddsOwn ==
  ASSUME TInv, NEW w \in Workers, Adds(w)
  PROVE  /\ OwnStep(w) /\ frame'[w] # frame[w] /\ SameRequest(frame[w], frame'[w])
         /\ frame[w].pc = "post" /\ Ends(frame'[w]) /\ frame'[w].entry = seq + 1
         /\ UNCHANGED <<payments, forgotten, cycle>>
BY CoreStepOwn DEF Adds, AddLeads, Ends, payVars

LEMMA OneAdds ==
  ASSUME TInv, NEW v \in Workers, NEW w \in Workers, Adds(v), Adds(w) PROVE v = w
BY AddsOwn DEF OwnStep

LEMMA PaidBack ==
  ASSUME TInv, [Next]_vars, NEW w \in Workers, NEW p, Handles(w, p)', Paid(frame'[w])
  PROVE  Handles(w, p) /\ (Paid(frame[w]) \/ Pays(w, p))
<1>1. CASE frame'[w] = frame[w]
  BY <1>1 DEF Handles
<1>2. CASE Restart
  BY <1>2 DEF Restart, Handles, IdleFrame
<1>3. ASSUME NEW v \in Workers, Accepts(v) \/ Serves(v)
      PROVE  Handles(w, p) /\ (Paid(frame[w]) \/ Pays(w, p))
  <2>1. CASE v # w
    <3>1. OwnStep(v)
      BY <1>3, RequestContinues, BeginsOwn DEF Continues
    <3> QED BY <1>1, <2>1, <3>1 DEF OwnStep
  <2>2. CASE v = w
    <3>1. CASE CoreStep(w) /\ UNCHANGED payVars
      <4>1. SameRequest(frame[w], frame'[w]) /\ Leads(frame[w], frame'[w])
        BY <3>1, CoreStepOwn
      <4>2. AddLeads(frame[w], frame'[w])
        BY <4>1, FrameHolds
           DEF Leads, EnsureLeads, OpenLeads, FailLeads, FundsLeads, BookLeads, CheckLeads,
               Paid, Ends, CoreFrameOK, Continuations
      <4> QED BY <3>1, <4>1, <4>2 DEF Pays, Adds, Handles, Paid, SameRequest
    <3>2. CASE BeginAuthorise(w)
      <4>1. frame'[w].pc = "resolve_engine"
        BY <3>2, BeginAuthoriseShape DEF TInv
      <4> QED BY <4>1 DEF Paid, Ends
    <3>3. CASE ResolveEngine(w)
      BY <3>3, ResolveShape DEF Paid, Ends
    <3>4. CASE RecordOutcome(w)
      BY <3>4, BeginShape DEF RecordOutcome, Handles, IdleFrame
    <3>5. CASE Aside(w)
      BY <3>5 DEF Aside, Handles
    <3> QED BY <1>1, <1>3, <2>2, <3>1, <3>2, <3>3, <3>4, <3>5, WorkerDoes, PromoteCycle
            DEF InitiatePayment, StartAuthorisation
  <2> QED BY <2>1, <2>2
<1> QED BY <1>1, <1>2, <1>3 DEF Next, PurgeReads, PurgeAssigns, vars

(* The outcome of a settlement is what the request tells. *)
LEMMA RecordTells ==
  ASSUME TInv, NEW w \in Workers, RecordOutcome(w)
  PROVE  \E p \in Known :
           /\ p = frame[w].ref /\ Handles(w, p) /\ frame'[w] = IdleFrame
           /\ \/ AllSame /\ Stored' = Stored /\ ~Ends(frame[w])
              \/ /\ frame[w].pc = "return" /\ frame[w].result \in {"ok", "insufficient"}
                 /\ StatusOf(p)' = SettleResult(frame[w])
                 /\ Stored' = Stored \union {p} /\ OthersSame(p)
<1>1. frame[w].ref \in Known /\ Handles(w, frame[w].ref)
  BY FrameHolds DEF RecordOutcome, RequestOK, Handles
<1>2. PICK p \in Known : p = frame[w].ref
  BY <1>1
<1> SUFFICES \/ AllSame /\ Stored' = Stored /\ ~Ends(frame[w])
             \/ /\ frame[w].pc = "return" /\ frame[w].result \in {"ok", "insufficient"}
                /\ StatusOf(p)' = SettleResult(frame[w])
                /\ Stored' = Stored \union {p} /\ OthersSame(p)
  BY <1>1, <1>2, BeginShape DEF RecordOutcome
<1>3. CASE frame[w].result \in {"ok", "insufficient"}
  <2> DEFINE x == PaymentOf(p)
             st == SettleResult(frame[w])
             n == IF frame[w].result = "ok" THEN frame[w].entry ELSE x.entry
             y == [x EXCEPT !.status = st, !.entry = n]
  <2>1. Save(w, p, y) /\ x \in Payment
    BY <1>2, <1>3 DEF RecordOutcome, TInv, StoreOK
  <2>2. y.status = st
    <3> HIDE DEF st, n, x
    <3> QED BY <2>1 DEF Payment
  <2> HIDE DEF y
  <2>3. /\ Stored' = Stored \union {p} /\ PaymentOf(p)' = y
        /\ \A q \in Known : q # p => PaymentOf(q)' = PaymentOf(q)
    BY <2>1, SaveShape
  <2> QED BY <1>3, <2>2, <2>3 DEF OthersSame, StatusOf, RecordOutcome
<1>4. CASE frame[w].result \notin {"ok", "insufficient"}
  <2>1. AllSame /\ Stored' = Stored
    BY <1>4, StoreSame DEF RecordOutcome, history, AllSame
  <2> QED BY <1>4, <2>1 DEF Ends
<1> QED BY <1>3, <1>4

(* A payment comes to wait by an entry that credits a suspense account. *)
LEMMA StoreBack ==
  ASSUME TInv, [Next]_vars, OnePurge, NEW q \in Stored', StatusOf(q)' = "ACTC"
  PROVE  q \in Known /\ Waits(q)
<1>1. ASSUME Stored' \subseteq Stored, q \in Known => PaymentOf(q)' = PaymentOf(q)
      PROVE  q \in Known /\ Waits(q)
  BY <1>1 DEF Waits, Known, StatusOf
<1>2. CASE UNCHANGED <<payments, forgotten>>
  BY <1>1, <1>2, StoreSame
<1>3. CASE Restart
  BY <1>3, RestartShape
<1>4. CASE PurgeAssigns
  <2>1. PICK kept \in purging : /\ payments' = [p \in kept |-> PaymentOf(p)]
                                /\ forgotten' = [p \in Known \ kept |-> PaymentOf(p)]
    BY <1>4 DEF PurgeAssigns
  <2>2. kept \in SUBSET Known /\ kept \subseteq Stored
    BY DEF TInv, RestOK, OnePurge
  <2> QED BY <1>1, <2>1, <2>2, PurgeShape
<1>5. ASSUME NEW w \in Workers, Accepts(w) \/ Serves(w) PROVE q \in Known /\ Waits(q)
  <2>1. CASE InitiatePayment(w)
    <3>1. PICK p \in PaymentIds \ Known : /\ Stored' = Stored \union {p}
                                          /\ PaymentOf(p)'.status = "RCVD"
                                          /\ \A r \in Known : PaymentOf(r)' = PaymentOf(r)
      BY <2>1, InitiateShape
    <3>2. q # p
      BY <3>1 DEF StatusOf
    <3> QED BY <3>1, <3>2 DEF Waits, Known, StatusOf
  <2>2. CASE StartAuthorisation(w) \/ BeginAuthorise(w)
    <3>1. PICK p \in Stored : /\ Stored' = Stored /\ OthersSame(p)
                              /\ PaymentOf(p)'.status = StatusOf(p)
      BY <2>2, StartShape, BeginAuthoriseShape
    <3>2. StatusOf(q)' = StatusOf(q) /\ q \in Known
      BY <3>1 DEF OthersSame, StatusOf, Known
    <3> QED BY <3>1, <3>2 DEF Waits
  <2>3. CASE RecordOutcome(w)
    <3>1. PICK p \in Known :
            /\ p = frame[w].ref /\ Handles(w, p)
            /\ \/ AllSame /\ Stored' = Stored
               \/ /\ frame[w].pc = "return" /\ frame[w].result \in {"ok", "insufficient"}
                  /\ StatusOf(p)' = SettleResult(frame[w])
                  /\ Stored' = Stored \union {p} /\ OthersSame(p)
      BY <2>3, RecordTells
    <3>2. CASE AllSame /\ Stored' = Stored
      BY <1>1, <3>2 DEF AllSame
    <3>3. CASE ~(AllSame /\ Stored' = Stored) /\ q # p
      BY <3>1, <3>3 DEF OthersSame, Waits, StatusOf, Known
    <3>4. CASE ~(AllSame /\ Stored' = Stored) /\ q = p
      <4>1. SettleResult(frame[w]) = "ACTC" /\ frame[w].pc = "return"
        BY <3>1, <3>4
      <4>2. Paid(frame[w])
        BY <3>1, <3>4, <4>1 DEF SettleResult, Paid, Ends
      <4> QED BY <3>1, <3>4, <4>2 DEF Waits
    <3> QED BY <3>2, <3>3, <3>4
  <2>4. CASE Promote(w)
    <3>1. PICK p \in Known :
            \/ AllSame /\ Stored' = Stored
            \/ Stored' = Stored \union {p} /\ OthersSame(p) /\ PaymentOf(p)'.status = "ACSC"
      BY <2>4, PromoteShape
    <3>2. CASE AllSame /\ Stored' = Stored
      BY <1>1, <3>2 DEF AllSame
    <3>3. CASE ~(AllSame /\ Stored' = Stored)
      <4>1. q # p
        BY <3>1, <3>3 DEF StatusOf
      <4> QED BY <3>1, <3>3, <4>1 DEF OthersSame, Waits, StatusOf, Known
    <3> QED BY <3>2, <3>3
  <2>5. CASE ResolveEngine(w)
    <3>1. PICK p \in Known : /\ p = frame[w].ref /\ frame[w].op = "authorise"
                             /\ Stored' = Stored \union {p} /\ AllSame
      BY <2>5, ResolveSaves
    <3>2. q \in Known /\ StatusOf(q) = "ACTC"
      BY <3>1 DEF AllSame, StatusOf, Known
    <3> QED BY <3>1, <3>2 DEF Waits, Handles
  <2> QED BY <1>2, <1>5, <2>1, <2>2, <2>3, <2>4, <2>5, WorkerDoes DEF Aside, payVars
<1> QED BY <1>2, <1>3, <1>4, <1>5 DEF Next, PurgeReads, vars

LEMMA HandledKnown ==
  ASSUME TInv', NEW q, NEW w \in Workers, Handles(w, q)' PROVE q \in Known'
BY DEF TInv, Handles, RequestOK

LEMMA WaitsBack ==
  ASSUME TInv, TInv', HInv, [Next]_vars, OnePurge, NEW q, Waits(q)'
  PROVE  q \in Known /\ (Waits(q) \/ \E w \in Workers : Pays(w, q))
<1>1. CASE q \in Stored' /\ StatusOf(q)' = "ACTC"
  BY <1>1, StoreBack
<1>2. CASE \E w \in Workers : Handles(w, q)' /\ Paid(frame'[w])
  <2>1. PICK w \in Workers : Handles(w, q)' /\ Paid(frame'[w])
    BY <1>2
  <2>2. Handles(w, q) /\ (Paid(frame[w]) \/ Pays(w, q))
    BY <2>1, PaidBack
  <2>3. q \in Known
    BY <2>2, FrameHolds DEF Handles, RequestOK
  <2> QED BY <2>2, <2>3 DEF Waits
<1>3. CASE q \notin Stored' /\ StatusOf(q)' = "ACTC" /\ \E w \in Workers : Handles(w, q)'
  <2>1. PICK w \in Workers : Handles(w, q)'
    BY <1>3
  <2>2. Handlers(q)' # {}
    BY <2>1 DEF Handlers
  <2>3. q \in Known'
    BY <2>1, HandledKnown
  <2>4. q \in Known /\ (Calm(q) \/ Happens(q))
    BY <1>3, <2>2, <2>3, StepEffect DEF Effect, CalmBut, Lost, Received
  <2>5. StatusOf(q) = "ACTC" /\ Handlers(q) # {}
    BY <1>3, <2>2, <2>4 DEF Calm, Happens, Promoted, Joined, Taken, Refused, Recorded,
                            SameState, SameHandlers
  <2> QED BY <2>4, <2>5 DEF Waits, Handlers
<1> QED BY <1>1, <1>2, <1>3 DEF Waits

(* Only the payments that are paid in now wait, which did not. *)
LEMMA WaitingGrows ==
  ASSUME TInv, TInv', HInv, [Next]_vars, OnePurge, NEW b, NEW c
  PROVE  /\ (\A p \in Known : \A w \in Workers : Pays(w, p) =>
               PaymentOf(p).bank # b \/ PaymentOf(p).ccy # c) =>
              Waiting(b, c)' \subseteq Waiting(b, c)
         /\ \A p \in Known : \A w \in Workers : Pays(w, p) =>
              Waiting(b, c)' \subseteq Waiting(b, c) \union {p}
<1>1. ASSUME NEW q \in Waiting(b, c)'
      PROVE  /\ q \in Known /\ PaymentOf(q).bank = b /\ PaymentOf(q).ccy = c
             /\ Waits(q) \/ \E w \in Workers : Pays(w, q)
  <2>1. Waits(q)' /\ PaymentOf(q)'.bank = b /\ PaymentOf(q)'.ccy = c
    BY DEF Waiting
  <2>2. q \in Known /\ (Waits(q) \/ \E w \in Workers : Pays(w, q))
    BY <2>1, WaitsBack
  <2>3. PaymentOf(q)'.bank = PaymentOf(q).bank /\ PaymentOf(q)'.ccy = PaymentOf(q).ccy
    BY <2>2, InstructionsStay DEF SameInstruction
  <2> QED BY <2>1, <2>2, <2>3
<1>2. ASSUME NEW p \in Known, NEW w \in Workers, Pays(w, p),
             NEW q \in Known, NEW v \in Workers, Pays(v, q)
      PROVE  q = p
  BY <1>2, OneAdds DEF Pays, Handles
<1> QED BY <1>1, <1>2 DEF Waiting

LEMMA HeldSteady ==
  ASSUME TInv, TInv', accounts \subseteq accounts', NEW b, NEW c,
         \A a \in accounts' : IsSuspense(a, b) /\ a.ccy = c =>
           Steady(b, a) \/ (a \notin accounts /\ Fresh(b, a))
  PROVE  Held(b, c)' = Held(b, c)
<1> DEFINE g == [a \in accounts |-> Worth(b, a.id)]
           h == [a \in accounts' |-> Worth(b, a.id)']
           S == SuspenseOf(b, c)
           T == SuspenseOf(b, c)'
<1>1. /\ IsFiniteSet(S) /\ IsFiniteSet(T) /\ S \subseteq T
      /\ S \subseteq accounts /\ T \subseteq accounts'
  <2>1. T \subseteq accounts' /\ S \subseteq T
    BY DEF SuspenseOf, IsSuspense
  <2>2. IsFiniteSet(T)
    BY <2>1, FS_Subset DEF TInv, FiniteDb
  <2> QED BY <2>1, <2>2, HeldType DEF SuspenseOf
<1>2. \A a \in S : g[a] \in Int /\ h[a] = g[a]
  BY <1>1, WorthType DEF SuspenseOf, Steady
<1>3. \A a \in T \ S : h[a] = 0
  BY <1>1 DEF SuspenseOf, Steady, Fresh, IsSuspense
<1>4. Held(b, c) = Sum(g, S) /\ Held(b, c)' = Sum(h, T)
  BY DEF Held
<1> HIDE DEF g, h, S, T
<1>5. Sum(h, S) = Sum(g, S)
  BY <1>1, <1>2, SumSame
<1>6. \A a \in T : h[a] \in Int
  BY <1>2, <1>3
<1>7. Sum(h, T) = Sum(h, S)
  BY <1>1, <1>3, <1>6, SumPart
<1> QED BY <1>4, <1>5, <1>7

LEMMA HeldCredited ==
  ASSUME TInv, TInv', HInv, SweepsOK, RunsOK, NEW b, CyclesOK(b),
         NEW w \in Workers, NEW a \in accounts, IsSuspense(a, b), Credited(w, b, a)
  PROVE  Held(b, a.ccy)' = Held(b, a.ccy) + frame[w].amount
<1> DEFINE c == a.ccy
           g == [x \in accounts |-> Worth(b, x.id)]
           h == [x \in accounts' |-> Worth(b, x.id)']
           S == SuspenseOf(b, c)
<1>1. accounts' = accounts /\ Adds(w) /\ frame[w].amount \in Int
  BY DEF Credited, Adds, AddLeads
<1>2. IsFiniteSet(S) /\ a \in S /\ S \subseteq accounts
  BY HeldType DEF SuspenseOf
<1>3. h[a] = g[a] + frame[w].amount
  BY <1>1 DEF Credited
<1>4. ASSUME NEW x \in S, x # a PROVE h[x] = g[x]
  <2>1. x \in accounts /\ IsSuspense(x, b)
    BY DEF SuspenseOf
  <2>2. x.id # a.id
    BY <1>4, <2>1 DEF TInv, DbInv, DbKeys
  <2>3. ~Credited(w, b, x) /\ ~Debited(w, b, x)
    BY <2>2 DEF Credited, Debited, Cycling
  <2>4. Steady(b, x)
    BY <1>1, <2>1, <2>3, AddsHere
  <2> QED BY <1>1, <2>1, <2>4 DEF Steady
<1>5. \A x \in S : g[x] \in Int
  BY <1>2, WorthType
<1>6. Held(b, c) = Sum(g, S) /\ Held(b, c)' = Sum(h, S)
  <2>1. SuspenseOf(b, c)' = S
    BY <1>1 DEF SuspenseOf, IsSuspense
  <2> QED BY <2>1 DEF Held
<1> HIDE DEF g, h, S
<1>7. Sum(h, S) = Sum(g, S) + frame[w].amount
  BY <1>1, <1>2, <1>3, <1>4, <1>5, SumUpdate
<1> QED BY <1>6, <1>7

LEMMA CoveredStill ==
  ASSUME TInv, TInv', HInv, SweepsOK, RunsOK, [Next]_vars, OnePurge, NEW b \in banks, CyclesOK(b),
         \A w \in Workers : \A a \in accounts : ~Debited(w, b, a),
         NEW c, Held(b, c) >= Owed(b, c)
  PROVE  Held(b, c)' >= Owed(b, c)'
<1>0. /\ Held(b, c) \in Int /\ Owed(b, c) \in Int /\ Owed(b, c)' \in Int
      /\ accounts \subseteq accounts'
  BY HeldType, OwedType, OwedGrows, InstructionsStay
<1>1. ASSUME NEW w \in Workers, Adds(w), frame[w].op = "authorise", frame[w].kind = "suspense",
             frame[w].bank = b, frame[w].ccy = c
      PROVE  Held(b, c)' >= Owed(b, c)'
  <2>1. PICK p \in Known : p = frame[w].ref
    BY <1>1, FrameHolds DEF RequestOK
  <2>2. Pays(w, p) /\ frame[w].amount = PaymentOf(p).amount /\ frame[w].amount \in Int
    <3>1. Handles(w, p)
      BY <1>1, <2>1 DEF Handles
    <3>2. PaymentOf(p).amount \in Int
      BY OwedType
    <3> QED BY <1>1, <3>1, <3>2 DEF Pays, HInv, HandlesOK, HandleOK
  <2>3. Owed(b, c)' <= Owed(b, c) + frame[w].amount
    BY <2>2, WaitingGrows, OwedGrows
  <2>4. frame[w].pc = "post"
    BY <1>1, AddsOwn
  <2>5. PICK a \in accounts : a.id = frame[w].payee /\ IsSuspense(a, b) /\ a.ccy = c
    BY <1>1, <2>4 DEF RunsOK, RunOK, Reaches, IsSuspense
  <2>6. /\ Entry(w) \in JournalEntry /\ Entry(w).postings = frame[w].postings
        /\ Entry(w) \in journal' \ journal /\ Entry(w).bank = b
    BY <1>1, EntryIsNew
  <2>7. MovedBy(Entry(w), a.id) = frame[w].amount /\ frame[w].amount # 0
    BY <1>1, <2>4, <2>5, <2>6, SettlementLegs
  <2>8. ~Steady(b, a)
    BY <2>6, <2>7 DEF Steady, ListJournal
  <2>9. Credited(w, b, a)
    BY <1>1, <2>5, <2>8, AddsHere DEF Debited, Cycling
  <2>10. Held(b, c)' = Held(b, c) + frame[w].amount
    BY <2>5, <2>9, HeldCredited
  <2> QED BY <1>0, <2>2, <2>3, <2>10
<1>2. ASSUME \A w \in Workers : Adds(w) /\ frame[w].op = "authorise" /\ frame[w].kind = "suspense" =>
               frame[w].bank # b \/ frame[w].ccy # c
      PROVE  Held(b, c)' >= Owed(b, c)'
  <2>1. ASSUME NEW p \in Known, NEW w \in Workers, Pays(w, p)
        PROVE  PaymentOf(p).bank # b \/ PaymentOf(p).ccy # c
    <3>1. Adds(w) /\ Handles(w, p) /\ frame[w].kind = "suspense" /\ frame[w].op = "authorise"
      BY <2>1 DEF Pays, Handles
    <3> QED BY <1>2, <3>1 DEF RunsOK, RunOK
  <2>2. Owed(b, c)' <= Owed(b, c)
    BY <2>1, WaitingGrows, OwedGrows
  <2>3. ASSUME NEW a \in accounts', IsSuspense(a, b), a.ccy = c
        PROVE  Steady(b, a) \/ (a \notin accounts /\ Fresh(b, a))
    <3>1. \A w \in Workers : ~Credited(w, b, a)
      BY <1>2, <2>3 DEF Credited, NextEntry
    <3>2. \A w \in Workers : ~Debited(w, b, a)
      BY DEF Debited
    <3> QED BY <2>3, <3>1, <3>2, SuspenseMoves
  <2>4. Held(b, c)' = Held(b, c)
    BY <1>0, <2>3, HeldSteady
  <2> QED BY <1>0, <2>2, <2>4
<1> QED BY <1>1, <1>2

(* A cycle of the bank has left a suspense account empty, and not yet     *)
(* completed the payments whose money that was.                           *)
Sweeping(b) == \E w \in Workers : Cycling(w, b) /\ (cycle[w].swept \/ frame[w].pc = "return")

CoversOK(b) == Sweeping(b) \/ \A c \in Currencies : Held(b, c) >= Owed(b, c)

LEMMA SweepingEnds ==
  ASSUME TInv, HInv, SweepsOK, RunsOK, [Next]_vars, NEW b, CyclesOK(b),
         NEW w \in Workers, Cycling(w, b), cycle[w].swept \/ frame[w].pc = "return",
         ~Sweeping(b)'
  PROVE  Restart \/ EndCycle(w)
<1>0. CycleOK(w, b)
  BY DEF CyclesOK
<1>1. /\ ~(frame'[w] = frame[w] /\ cycle'[w] = cycle[w])
      /\ ~(frame'[w].op = "cycle" /\ frame'[w].bank = b /\ cycle'[w].swept)
  BY DEF Sweeping, Cycling
<1>2. ASSUME NEW v \in Workers, Accepts(v) \/ Serves(v), v # w PROVE FALSE
  <2>1. OwnStep(v)
    BY <1>2, RequestContinues, BeginsOwn DEF Continues
  <2>2. OwnCycle(v)
    BY <1>2, CycleEngineShape, SweepShape, SweptShape, CycleDoneShape, ListPaymentsShape,
       PaymentsListedShape, PromoteCycle, EndCycleShape
       DEF Accepts, Serves, InitiatePayment, StartAuthorisation, Reconfigure, BeginAuthorise,
           BeginCycle, ResolveEngine, RecordOutcome, payVars, OwnCycle, SameCycle, Quits
  <2> QED BY <1>1, <1>2, <2>1, <2>2 DEF OwnStep, OwnCycle
<1>3. ASSUME Accepts(w) \/ Serves(w), ~EndCycle(w) PROVE FALSE
  <2>1. ~Idle(w) /\ frame[w].op = "cycle" /\ frame[w].pc # "resolve_engine"
    BY FrameHolds DEF Cycling, Idle, RequestOK, SweepsOK, SweepOK
  <2>2. \/ CoreStep(w) /\ UNCHANGED payVars
        \/ CycleEngine(w) \/ Sweep(w) \/ Swept(w) \/ CycleDone(w)
        \/ ListPayments(w) \/ PaymentsListed(w) \/ Promote(w)
    BY <1>3, <2>1
       DEF Accepts, Serves, InitiatePayment, StartAuthorisation, Reconfigure, BeginAuthorise,
           BeginCycle, ResolveEngine, RecordOutcome
  <2>3. ASSUME \E l : GoesTo(w, l), cycle'[w].swept PROVE FALSE
    BY <1>1, <2>3 DEF GoesTo, SameRequest, Cycling
  <2>4. CASE CoreStep(w) /\ UNCHANGED payVars
    <3>1. SameRequest(frame[w], frame'[w]) /\ Leads(frame[w], frame'[w])
      BY <2>4, CoreStepOwn
    <3>2. frame[w].pc # "return" /\ cycle' = cycle
      BY <2>4, <3>1
         DEF payVars, Leads, EnsureLeads, OpenLeads, FailLeads, FundsLeads, BookLeads, CheckLeads,
             AddLeads
    <3> QED BY <1>1, <3>1, <3>2 DEF SameRequest, Cycling
  <2>5. CASE CycleEngine(w)
    <3>1. frame[w].pc = "cycle_engine"
      BY <2>5 DEF CycleEngine
    <3>2. cycle[w] = NoCycle
      BY <3>1 DEF RunsOK, RunOK
    <3> QED BY <3>1, <3>2 DEF NoCycle
  <2>6. CASE Sweep(w)
    <3>1. frame[w].pc = "sweep" /\ cycle'[w].swept = cycle[w].swept
          /\ frame'[w].op = frame[w].op /\ frame'[w].bank = frame[w].bank
      BY <2>6, SweepShape DEF SameCycle, Calling
    <3> QED BY <1>1, <3>1 DEF Cycling
  <2>7. CASE Swept(w)
    <3>1. frame[w].result = "ok"
      BY <1>0, <2>7 DEF Swept, CycleOK, Sweeps
    <3> QED BY <2>3, <2>7, <3>1, SweptShape
  <2>8. CASE CycleDone(w)
    BY <2>3, <2>8, CycleDoneShape DEF SameCycle
  <2>9. CASE ListPayments(w)
    BY <2>3, <2>9, ListPaymentsShape
  <2>10. CASE PaymentsListed(w)
    <3>1. frame[w].pc = "listing" /\ cycle[w].size = Cardinality(Stored)
      BY <1>0, <2>10 DEF PaymentsListed, CycleOK
    <3> QED BY <2>3, <2>10, <3>1, PaymentsListedShape
  <2>11. CASE Promote(w)
    BY <1>1, <2>11, PromoteCycle DEF Cycling
  <2> QED BY <2>2, <2>4, <2>5, <2>6, <2>7, <2>8, <2>9, <2>10, <2>11
<1>4. ~(PurgeReads \/ PurgeAssigns \/ UNCHANGED vars)
  BY <1>1 DEF PurgeReads, PurgeAssigns, vars
<1> QED BY <1>2, <1>3, <1>4 DEF Next

(* At the end of a cycle no payment of the bank waits. *)
LEMMA NoneWaits ==
  ASSUME TInv, RunsOK, NEW b, Alone(b), NEW c, NEW w \in Workers, Cycling(w, b), CycleOK(w, b),
         Restart \/ EndCycle(w)
  PROVE  Waiting(b, c)' = {}
<1> SUFFICES ASSUME NEW q, Waits(q)', PaymentOf(q)'.bank = b, q \in Known' PROVE FALSE
  BY DEF Waiting
<1>1. CASE Restart
  <2>1. Stored' = {} /\ \A v \in Workers : frame'[v].op = "none"
    BY <1>1, RestartShape DEF Restart, IdleFrame
  <2> QED BY <2>1 DEF Waits, Handles
<1>2. CASE EndCycle(w)
  <2>1. /\ frame[w].pc = "promote" /\ cycle[w].promote = {} /\ OwnStep(w)
        /\ frame'[w] = IdleFrame /\ Stored' = Stored /\ q \in Known
        /\ PaymentOf(q)' = PaymentOf(q)
    BY <1>2, EndCycleShape, StoreSame DEF EndCycle, history, Quits
  <2>2. CASE q \in Stored /\ StatusOf(q) = "ACTC"
    BY <2>1, <2>2 DEF CycleOK
  <2>3. CASE \E v \in Workers : Handles(v, q)'
    <3>1. PICK v \in Workers : Handles(v, q)'
      BY <2>3
    <3>2. v # w
      BY <2>1, <3>1 DEF Handles, IdleFrame
    <3>3. Handles(v, q)
      BY <2>1, <3>1, <3>2 DEF Handles, OwnStep
    <3>4. frame[v].bank = b
      BY <2>1, <3>3 DEF RunsOK, RunOK
    <3> QED BY <3>2, <3>3, <3>4 DEF Alone, Settles, SettlementOps, Handles
  <2> QED BY <2>1, <2>2, <2>3 DEF Waits, StatusOf
<1> QED BY <1>1, <1>2

LEMMA CoversKept ==
  ASSUME TInv, TInv', HInv, SweepsOK, RunsOK, [Next]_vars, OnePurge, NEW b \in banks, CyclesOK(b),
         HoldsOK(b), Alone(b), CoversOK(b)
  PROVE  CoversOK(b)'
<1> SUFFICES ASSUME ~Sweeping(b)', NEW c \in Currencies PROVE Held(b, c)' >= Owed(b, c)'
  BY DEF CoversOK
<1>1. \A w \in Workers : \A a \in accounts : ~Debited(w, b, a)
  <2> SUFFICES ASSUME NEW w \in Workers, NEW a \in accounts, Debited(w, b, a) PROVE FALSE
    OBVIOUS
  <2>1. frame'[w].pc = "return" /\ frame'[w].op = "cycle" /\ frame'[w].bank = b
    BY AddsOwn DEF Debited, Cycling, Ends, SameRequest
  <2> QED BY <2>1 DEF Sweeping, Cycling
<1>2. CASE Held(b, c) >= Owed(b, c)
  BY <1>1, <1>2, CoveredStill
<1>3. CASE Sweeping(b)
  <2>1. PICK w \in Workers : Cycling(w, b) /\ (cycle[w].swept \/ frame[w].pc = "return")
    BY <1>3 DEF Sweeping
  <2>2. Restart \/ EndCycle(w)
    BY <2>1, SweepingEnds
  <2>3. Waiting(b, c)' = {}
    BY <2>1, <2>2, NoneWaits DEF CyclesOK
  <2>4. Owed(b, c)' = 0
    BY <2>3, SumEmpty DEF Owed
  <2>5. UNCHANGED <<accounts, journal>>
    BY <2>2 DEF Restart, EndCycle, tables
  <2>6. Held(b, c)' = Held(b, c)
    BY <2>5 DEF Held, SuspenseOf, IsSuspense, Worth, ListJournal
  <2> QED BY <2>4, <2>6, HeldType
<1> QED BY <1>2, <1>3 DEF CoversOK

(* Why money lies in suspense for a payment no request of which is to come. *)
Justified(p) ==
  \/ PaymentOf(p).completions > 1
  \/ StatusOf(p) = "ACTC"
  \/ p \notin Stored /\ Handlers(p) = {}
  \/ \E w \in Workers : Handles(w, p) /\ Paid(frame[w])

OriginsOK(b) == \A e \in Unswept(b) : e.ref \in Known /\ Justified(e.ref)

LEMMA Touched ==
  ASSUME TInv, [Next]_vars, OnePurge, NEW p \in Known,
         StatusOf(p)' # StatusOf(p) \/ (p \in Stored' /\ p \notin Stored)
  PROVE  \E w \in Workers : \/ (RecordOutcome(w) \/ ResolveEngine(w)) /\ Handles(w, p)
                            \/ p \in cycle[w].promote /\ frame[w].pc = "promote"
<1>1. ~((p \in Stored' => p \in Stored) /\ PaymentOf(p)' = PaymentOf(p))
  BY DEF StatusOf
<1>2. ~(UNCHANGED <<payments, forgotten>>) /\ ~Restart
  BY <1>1, StoreSame, RestartShape
<1>3. CASE PurgeAssigns
  <2>1. PICK kept \in purging : /\ payments' = [q \in kept |-> PaymentOf(q)]
                                /\ forgotten' = [q \in Known \ kept |-> PaymentOf(q)]
    BY <1>3 DEF PurgeAssigns
  <2>2. kept \in SUBSET Known /\ kept \subseteq Stored
    BY DEF TInv, RestOK, OnePurge
  <2> QED BY <1>1, <2>1, <2>2, PurgeShape
<1>4. ASSUME NEW w \in Workers, Accepts(w) \/ Serves(w)
      PROVE  \/ (RecordOutcome(w) \/ ResolveEngine(w)) /\ Handles(w, p)
             \/ p \in cycle[w].promote /\ frame[w].pc = "promote"
  <2>1. ~InitiatePayment(w)
    BY InitiateShape DEF StatusOf
  <2>2. ~StartAuthorisation(w) /\ ~BeginAuthorise(w)
    BY StartShape, BeginAuthoriseShape DEF OthersSame, StatusOf
  <2>3. CASE RecordOutcome(w)
    <3>1. PICK q \in Known : /\ Handles(w, q)
                             /\ \/ AllSame /\ Stored' = Stored
                                \/ Stored' = Stored \union {q} /\ OthersSame(q)
      BY <2>3, RecordTells
    <3> QED BY <1>1, <2>3, <3>1 DEF AllSame, OthersSame
  <2>4. CASE Promote(w)
    <3>1. PICK q \in cycle[w].promote :
            \/ AllSame /\ Stored' = Stored
            \/ q \in Known /\ Save(w, q, [PaymentOf(q) EXCEPT !.status = "ACSC"])
      BY <2>4, PromoteCycle
    <3>2. \/ AllSame /\ Stored' = Stored
          \/ Stored' = Stored \union {q} /\ OthersSame(q)
      BY <3>1, SaveShape DEF OthersSame
    <3> QED BY <1>1, <2>4, <3>2, PromoteCycle DEF AllSame, OthersSame
  <2>5. CASE ResolveEngine(w)
    <3>1. PICK q \in Known : /\ q = frame[w].ref /\ frame[w].op = "authorise"
                             /\ Stored' = Stored \union {q} /\ AllSame
      BY <2>5, ResolveSaves
    <3>2. q = p
      BY <1>1, <3>1 DEF AllSame
    <3> QED BY <2>5, <3>1, <3>2 DEF Handles
  <2> QED BY <1>2, <1>4, <2>1, <2>2, <2>3, <2>4, <2>5, WorkerDoes DEF Aside, payVars
<1> QED BY <1>2, <1>3, <1>4 DEF Next, PurgeReads, vars

LEMMA NonePromotes ==
  ASSUME TInv, RunsOK, EntriesHome, NEW b, HoldsOK(b), CyclesOK(b),
         NEW e \in Unswept(b), e.ref \in Known, NEW w \in Workers
  PROVE  ~(e.ref \in cycle[w].promote /\ frame[w].pc = "promote")
<1> SUFFICES ASSUME e.ref \in cycle[w].promote, frame[w].pc = "promote" PROVE FALSE
  OBVIOUS
<1>1. e \in ListJournal(b) /\ e.bank = b /\ e \in journal
  BY DEF Unswept, ListJournal
<1>2. frame[w].bank = b
  BY <1>1, PromotesOwn DEF EntriesHome
<1>3. Cycling(w, b)
  BY <1>2, CycleOp DEF Cycling, CycleLabels
<1>4. \A a \in accounts : IsSuspense(a, b) => Worth(b, a.id) = 0
  BY <1>3 DEF CyclesOK, CycleOK
<1>5. PICK a \in accounts : IsSuspense(a, b) /\ Inflow(e, a.id, ListJournal(b))
  BY DEF Unswept, ListAccounts, IsSuspense, Inflow
<1> QED BY <1>1, <1>4, <1>5 DEF HoldsOK

LEMMA JustifiedStays ==
  ASSUME TInv, HInv, IsFiniteSet(Workers), MoneyInv, RunsOK, EntriesHome, [Next]_vars, OnePurge,
         NEW b, HoldsOK(b), CyclesOK(b), NEW e \in Unswept(b), e.ref \in Known, Justified(e.ref)
  PROVE  Justified(e.ref)'
<1> DEFINE p == e.ref
<1>0. PICK q \in Known : q = p
  OBVIOUS
<1>1. e \in EntriesOf(q)
  BY <1>0 DEF Unswept, ListJournal, EntriesOf
<1>2. \A w \in Workers : ~(q \in cycle[w].promote /\ frame[w].pc = "promote")
  BY <1>0, NonePromotes
<1>3. MoneyOK(q) /\ PaymentOf(q).completions \in Nat
  BY StatusIsOne DEF MoneyInv
<1>4. Lost(q) \/ Calm(q) \/ Happens(q)
  BY StepEffect DEF Effect, CalmBut
<1>5. CASE PaymentOf(q).completions > 1
  <2>1. PaymentOf(q)'.completions \in {PaymentOf(q).completions, PaymentOf(q).completions + 1}
    BY <1>3, <1>4
       DEF Lost, Calm, Happens, Promoted, Joined, Taken, Refused, Recorded, SameSca
  <2> QED BY <1>0, <1>3, <1>5, <2>1 DEF Justified
<1>6. CASE PaymentOf(q).completions <= 1 /\ StatusOf(q) = "ACTC"
  <2>1. \A w \in Workers : ~Handles(w, q)
    BY <1>3, <1>6, FirstPending DEF MoneyOK, Handlers
  <2> QED BY <1>0, <1>2, <1>6, <2>1, Touched DEF Justified
<1>7. CASE PaymentOf(q).completions <= 1 /\ q \notin Stored /\ Handlers(q) = {}
  <2>1. q \notin Stored'
    BY <1>2, <1>7, Touched DEF Handlers
  <2>2. CASE \E w \in Workers : Joined(q, w)
    <3>1. Cardinality(EntriesOf(q)) \in Nat \ {0} /\ Cardinality(Pending(q)) \in Nat
      BY <1>1, FewConcern, Leaving
    <3>2. PaymentOf(q).completions >= 1
      BY <1>3, <3>1 DEF MoneyOK, Counted
    <3> QED BY <1>0, <1>3, <2>2, <3>2 DEF Joined, Justified
  <2>3. CASE ~(\E w \in Workers : Joined(q, w))
    <3>1. Handlers(q)' = {}
      BY <1>4, <1>7, <2>3
         DEF Lost, Calm, Happens, Promoted, Taken, Refused, Recorded, SameHandlers, Pending
    <3> QED BY <1>0, <2>1, <3>1 DEF Justified
  <2> QED BY <2>2, <2>3
<1>8. ASSUME NEW w \in Workers, Handles(w, q), Paid(frame[w]) PROVE Justified(q)'
  <2>1. CASE frame'[w] = frame[w]
    BY <1>8, <2>1 DEF Justified, Handles
  <2>2. CASE Restart
    <3>1. Stored' = {} /\ \A v \in Workers : frame'[v].op = "none"
      BY <2>2, RestartShape DEF Restart, IdleFrame
    <3> QED BY <3>1 DEF Justified, Handlers, Handles
  <2>3. CASE RecordOutcome(w)
    <3>1. /\ Ends(frame[w]) /\ SettleResult(frame[w]) = "ACTC" /\ q = frame[w].ref
      BY <1>8 DEF Paid, Ends, SettleResult, Handles
    <3> QED BY <2>3, <3>1, RecordTells DEF Justified
  <2>4. ASSUME NEW v \in Workers, Accepts(v) \/ Serves(v), v # w PROVE frame'[w] = frame[w]
    BY <2>4, RequestContinues, BeginsOwn DEF Continues, OwnStep
  <2>5. ASSUME Accepts(w) \/ Serves(w), ~RecordOutcome(w) PROVE FALSE
    <3>1. frame[w].pc = "return" /\ frame[w].op = "authorise" /\ frame[w].op # "cycle"
      BY <1>8 DEF Paid, Ends, Handles
    <3>2. ~CoreStep(w)
      BY <3>1, CoreStepOwn
         DEF Leads, EnsureLeads, OpenLeads, FailLeads, FundsLeads, BookLeads, CheckLeads, AddLeads
    <3> QED BY <2>5, <3>1, <3>2
            DEF Accepts, Serves, InitiatePayment, StartAuthorisation, Reconfigure, BeginAuthorise,
                BeginCycle, Idle, ResolveEngine, CycleEngine, Sweep, Swept, CycleDone,
                ListPayments, PaymentsListed, Promote, EndCycle
  <2> QED BY <2>1, <2>2, <2>3, <2>4, <2>5 DEF Next, PurgeReads, PurgeAssigns, vars
<1> QED BY <1>0, <1>3, <1>5, <1>6, <1>7, <1>8 DEF Justified

LEMMA OriginsKept ==
  ASSUME TInv, TInv', HInv, IsFiniteSet(Workers), MoneyInv, SweepsOK, RunsOK, EntriesHome,
         [Next]_vars, OnePurge, NEW b \in banks, HoldsOK(b), CyclesOK(b), OriginsOK(b)
  PROVE  OriginsOK(b)'
<1> SUFFICES ASSUME NEW e \in Unswept(b)' PROVE e.ref \in Known' /\ Justified(e.ref)'
  BY DEF OriginsOK
<1>1. CASE e \in Unswept(b)
  <2>1. e.ref \in Known /\ Justified(e.ref)
    BY <1>1 DEF OriginsOK
  <2> QED BY <1>1, <2>1, JustifiedStays, InstructionsStay
<1>2. CASE e \notin Unswept(b)
  <2>1. PICK a \in accounts' : /\ IsSuspense(a, b) /\ e \in ListJournal(b)'
                               /\ Inflow(e, a.id, ListJournal(b)')
    <3>1. PICK a \in ListAccounts(b)' :
            /\ a.kind = "suspense" /\ e \in ListJournal(b)' /\ MovedBy(e, a.id) > 0
            /\ \A later \in ListJournal(b)' : later.seq > e.seq => MovedBy(later, a.id) >= 0
      BY DEF Unswept
    <3> QED BY <3>1 DEF ListAccounts, IsSuspense, Inflow
  <2>2. a \in accounts => ~(e \in ListJournal(b) /\ Inflow(e, a.id, ListJournal(b)))
    BY <1>2, <2>1 DEF Unswept, ListAccounts, IsSuspense, Inflow
  <2>3. ~Steady(b, a)
    BY <2>1, <2>2 DEF Steady, Inflow
  <2>4. ~Fresh(b, a)
    BY <2>1 DEF Fresh, Inflow
  <2>5. PICK w \in Workers : Credited(w, b, a) \/ Debited(w, b, a)
    BY <2>1, <2>3, <2>4, SuspenseMoves
  <2>6. ASSUME e \in ListJournal(b) PROVE Debited(w, b, a) /\ FALSE
    BY <2>1, <2>2, <2>5, <2>6 DEF Credited, Debited, NextEntry, Inflow
  <2>7. e = Entry(w) /\ Credited(w, b, a)
    <3>1. MovedBy(Entry(w), a.id) \in Int /\ e \in ListJournal(b) \union {Entry(w)}
      BY <2>1, <2>5, EntryIsNew, MovedByIsSum DEF Credited, Debited, NextEntry
    <3>2. e = Entry(w) /\ MovedBy(Entry(w), a.id) > 0
      BY <2>1, <2>6, <3>1 DEF Inflow
    <3> QED BY <2>5, <3>1, <3>2 DEF Debited
  <2>8. PICK p \in Known : p = e.ref /\ Handles(w, p)
    BY <2>7, FrameHolds DEF Credited, Entry, RequestOK, Handles
  <2>9. Handles(w, p)' /\ Paid(frame'[w])
    BY <2>7, <2>8, AddsOwn DEF Credited, Handles, SameRequest, Paid
  <2>10. Justified(p)' /\ p \in Known'
    BY <2>9, InstructionsStay DEF Justified
  <2> QED BY <2>8, <2>10
<1> QED BY <1>1, <1>2

-----------------------------------------------------------------------------
(* The invariant of a bank of which a promise is made. *)
BankOK(b) == HoldsOK(b) /\ CyclesOK(b) /\ CoversOK(b) /\ OriginsOK(b)

SuspenseInv == RunsOK /\ EntriesHome /\ Apart /\ \A b \in banks \ overlapped : BankOK(b)

LEMMA BanksStay == ASSUME [Next]_vars PROVE banks' = banks
<1>1. ASSUME NEW w \in Workers, CoreStep(w) PROVE banks' = banks
  BY <1>1 DEF CoreStep, EnsureFind, EnsureOpen, TransferLookup, TransferFunds, PostCheck, PostAdd,
              tables
<1> QED BY <1>1
        DEF Next, Restart, PurgeReads, PurgeAssigns, Accepts, Serves, InitiatePayment,
            StartAuthorisation, Reconfigure, BeginAuthorise, BeginCycle, ResolveEngine,
            RecordOutcome, CycleEngine, Sweep, Swept, CycleDone, ListPayments, PaymentsListed,
            Promote, EndCycle, tables, vars

LEMMA NextSuspense ==
  ASSUME TInv, TInv', HInv, IsFiniteSet(Workers), MoneyInv, SweepsOK, SuspenseInv, [Next]_vars
  PROVE  SuspenseInv'
<1>1. RunsOK' /\ EntriesHome' /\ Apart'
  BY NextRuns, NextHome, NextApart DEF SuspenseInv
<1>2. ASSUME NEW b \in banks', b \notin overlapped' PROVE BankOK(b)'
  <2>1. b \in banks \ overlapped /\ b \in Banks
    BY <1>2, OverlapGrows, BanksStay DEF TInv, DbInv, DbTypeOK
  <2>2. Alone(b) /\ OnePurge /\ RunsOK /\ EntriesHome
    BY <2>1 DEF SuspenseInv, Apart
  <2>3. HoldsOK(b) /\ CyclesOK(b) /\ CoversOK(b) /\ OriginsOK(b)
    BY <2>1 DEF SuspenseInv, BankOK
  <2> QED BY <1>2, <2>1, <2>2, <2>3, HoldsKept, CyclesKept, CoversKept, OriginsKept DEF BankOK
<1> QED BY <1>1, <1>2 DEF SuspenseInv

(* A promise is made to banks that start with nothing in suspense that no  *)
(* sweep has left, and nothing overdrawn there.                            *)
SuspenseClear ==
  \A b \in banks :
    /\ Unswept(b) = {}
    /\ \A a \in ListAccounts(b) : a.kind = "suspense" => Balance(b, a.id) >= 0

LEMMA InitSuspense == ASSUME Init, SuspenseClear, TInv PROVE SuspenseInv
<1>1. Known = {} /\ Stored = {} /\ purging = {} /\ overlapped = {}
  BY DEF Init, Known, Stored
<1>2. \A w \in Workers : /\ frame[w].op = "none" /\ frame[w].pc = "idle"
                         /\ cycle[w] = NoCycle /\ cycle[w].promote = {}
  BY DEF Init, CoreInit, IdleFrame, NoCycle
<1>3. RunsOK /\ EntriesHome /\ Apart
  BY <1>1, <1>2
     DEF RunsOK, RunOK, Reaches, EntriesHome, Apart, Alone, Cycling, OnePurge, Handles
<1>4. ASSUME NEW b \in banks PROVE BankOK(b)
  <2>1. HoldsOK(b)
    <3> SUFFICES ASSUME NEW a \in accounts, IsSuspense(a, b)
                 PROVE  /\ Worth(b, a.id) >= 0
                        /\ ~\E e \in ListJournal(b) : Inflow(e, a.id, ListJournal(b))
      BY DEF HoldsOK
    <3>1. a \in ListAccounts(b) /\ a.kind = "suspense"
      BY DEF ListAccounts, IsSuspense
    <3>2. Worth(b, a.id) >= 0
      BY <3>1, WorthType DEF SuspenseClear
    <3>3. ~\E e \in ListJournal(b) : Inflow(e, a.id, ListJournal(b))
      BY <3>1 DEF SuspenseClear, Unswept, Inflow
    <3> QED BY <3>2, <3>3
  <2>2. CyclesOK(b)
    BY <1>2 DEF CyclesOK, CycleOK, Cycling
  <2>3. ASSUME NEW c PROVE Held(b, c) >= Owed(b, c)
    <3>1. Waiting(b, c) = {}
      BY <1>1 DEF Waiting
    <3> QED BY <2>1, <3>1, HeldType, SumEmpty DEF Owed
  <2> QED BY <2>1, <2>2, <2>3 DEF BankOK, CoversOK, OriginsOK, SuspenseClear
<1> QED BY <1>3, <1>4 DEF SuspenseInv

LEMMA HeldIsSum ==
  ASSUME TInv, NEW b, NEW c PROVE HeldInSuspense(b, c) = Held(b, c)
<1> DEFINE A == SuspenseOf(b, c)
           g == [a \in accounts |-> Worth(b, a.id)]
           F(i) == [s \in SUBSET A |-> IF s = {} THEN 0
                      ELSE LET x == CHOOSE y \in s : TRUE IN Balance(b, x.id) + i[s \ {x}]]
           it == CHOOSE i : i = F(i)
<1>1. Suspense(b, c) = A
  BY DEF Suspense, SuspenseOf, ListAccounts, IsSuspense
<1>2. HeldInSuspense(b, c) = it[A]
  BY <1>1 DEF HeldInSuspense, MapThenSumSet, MapThenFoldSet
<1>3. IsFiniteSet(A) /\ A \subseteq accounts /\ \A a \in A : g[a] \in Int
  BY HeldType, WorthType DEF SuspenseOf
<1>4. it[A] = Sum(g, A)
  <2>1. ASSUME NEW i PROVE F(i) = Adding(i, g, A)
    <3>1. ASSUME NEW s \in SUBSET A, s # {}
          PROVE  Balance(b, Chosen(s).id) = g[Chosen(s)]
      <4>1. \A y \in A : Balance(b, y.id) = g[y]
        BY <1>3, WorthType
      <4> HIDE DEF A, g
      <4> QED BY <3>1, <4>1, ChosenIsMember
    <3> HIDE DEF A, g
    <3> QED BY <3>1 DEF Adding, Chosen
  <2>2. PICK j : j = Adding(j, g, A)
    BY <1>3, AddingExists
  <2>3. it = Adding(it, g, A)
    BY <2>1, <2>2
  <2> HIDE DEF it, g, A
  <2> QED BY <1>3, <2>3, SumIsAdding
<1> QED BY <1>2, <1>4 DEF Held

LEMMA AwaitedIsOwed ==
  ASSUME TInv, NEW b, NEW c PROVE Awaiting(b, c) \in Int /\ Awaiting(b, c) <= Owed(b, c)
<1> DEFINE A == {p \in Stored : StatusOf(p) = "ACTC" /\ payments[p].bank = b /\ payments[p].ccy = c}
           g == [p \in Known |-> PaymentOf(p).amount]
           F(i) == [s \in SUBSET A |-> IF s = {} THEN 0
                      ELSE LET x == CHOOSE y \in s : TRUE IN payments[x].amount + i[s \ {x}]]
           it == CHOOSE i : i = F(i)
<1>1. Awaiting(b, c) = it[A]
  BY DEF Awaiting, MapThenSumSet, MapThenFoldSet
<1>2. /\ IsFiniteSet(Waiting(b, c)) /\ Waiting(b, c) \subseteq Known
      /\ \A p \in Known : g[p] \in Int /\ g[p] >= 0
  <2>1. \A p \in Known : PaymentOf(p).amount \in Nat
    BY OwedType
  <2>2. IsFiniteSet(Waiting(b, c)) /\ Waiting(b, c) \subseteq Known
    BY OwedType DEF Waiting
  <2> QED BY <2>1, <2>2
<1>3. A \subseteq Waiting(b, c)
  BY DEF Waiting, Waits, Known, PaymentOf
<1>4. IsFiniteSet(A)
  <2> HIDE DEF A
  <2> QED BY <1>2, <1>3, FS_Subset
<1>5. it[A] = Sum(g, A)
  <2>1. ASSUME NEW i PROVE F(i) = Adding(i, g, A)
    <3>1. ASSUME NEW s \in SUBSET A, s # {}
          PROVE  payments[Chosen(s)].amount = g[Chosen(s)]
      <4>1. \A y \in A : payments[y].amount = g[y]
        BY DEF Known, PaymentOf
      <4> HIDE DEF A, g
      <4> QED BY <3>1, <4>1, ChosenIsMember
    <3> HIDE DEF A, g
    <3> QED BY <3>1 DEF Adding, Chosen
  <2>2. PICK j : j = Adding(j, g, A)
    <3> HIDE DEF A, g
    <3> QED BY <1>2, <1>3, <1>4, AddingExists
  <2>3. it = Adding(it, g, A)
    BY <2>1, <2>2
  <2> HIDE DEF it, g, A
  <2> QED BY <1>2, <1>3, <1>4, <2>3, SumIsAdding
<1>6. Owed(b, c) = Sum(g, Waiting(b, c))
  BY DEF Owed
<1>7. Sum(g, A) \in Int /\ Sum(g, A) <= Sum(g, Waiting(b, c))
  <2> HIDE DEF g, A
  <2> QED BY <1>2, <1>3, <1>4, SumInt, SumPart
<1> QED BY <1>1, <1>5, <1>6, <1>7

LEMMA SuspenseAtRest ==
  ASSUME TInv, SuspenseInv PROVE SuspenseReconciled
<1> SUFFICES ASSUME AtRest, NEW b \in banks \ overlapped
             PROVE  /\ \A c \in Currencies : HeldInSuspense(b, c) >= Awaiting(b, c)
                    /\ \A e \in Unswept(b) : Astray(e.ref) \/ StatusOf(e.ref) = "ACTC"
  BY DEF SuspenseReconciled
<1>1. CoversOK(b) /\ OriginsOK(b)
  BY DEF SuspenseInv, BankOK
<1>2. \A w \in Workers : frame[w].op = "none"
  BY FrameHolds DEF AtRest, Idle, RequestOK
<1>3. ASSUME NEW c \in Currencies PROVE HeldInSuspense(b, c) >= Awaiting(b, c)
  <2>1. Held(b, c) >= Owed(b, c)
    BY <1>1, <1>2 DEF CoversOK, Sweeping, Cycling
  <2> QED BY <2>1, HeldIsSum, AwaitedIsOwed, HeldType, OwedType
<1>4. ASSUME NEW e \in Unswept(b) PROVE Astray(e.ref) \/ StatusOf(e.ref) = "ACTC"
  BY <1>1, <1>2 DEF OriginsOK, Justified, Handles, Astray, Known
<1> QED BY <1>3, <1>4

(* Whatever requests, cycles, restarts and purges there are, what the      *)
(* suspense accounts of a bank hold when nothing is under way covers every *)
(* payment that awaits the cycle, and whatever they hold beyond that is    *)
(* accounted for; but for a bank of which a cycle met what it may not.     *)
THEOREM SuspenseStaysReconciled ==
  ASSUME IsFiniteSet(Workers) PROVE Spec /\ SuspenseClear => []SuspenseReconciled
<1> DEFINE Inv == TInv /\ HInv /\ MoneyInv
<1>1. Spec => []Inv
  BY MoneyHolds
<1>2. Init /\ SuspenseClear /\ Inv => SweepsOK /\ SuspenseInv
  <2> SUFFICES ASSUME Init, SuspenseClear, Inv PROVE SweepsOK /\ SuspenseInv
    OBVIOUS
  <2>1. SweepsOK
    BY DEF Init, CoreInit, IdleFrame, NoCycle, SweepsOK, SweepOK
  <2> QED BY <2>1, InitSuspense
<1>3. Inv /\ Inv' /\ SweepsOK /\ SuspenseInv /\ [Next]_vars => (SweepsOK /\ SuspenseInv)'
  BY NextSweeps, NextSuspense
<1>4. Inv /\ SuspenseInv => SuspenseReconciled
  BY SuspenseAtRest
<1> HIDE DEF Inv
<1> QED BY <1>1, <1>2, <1>3, <1>4, PTL DEF Spec

=============================================================================
