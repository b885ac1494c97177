----------------------------- MODULE Settlement -----------------------------
(***************************************************************************)
(* Payments of the Berlin Group adapter and the three settlement engines   *)
(* on top of the core ledger: initiation, authorisation (which settles),   *)
(* the deferred netting cycle, and the bank's choice of engine.            *)
(*                                                                         *)
(* Payment objects live in one in-memory store that all workers share, so  *)
(* an assignment to payment.status is seen by the others at once; a restart *)
(* of the server forgets them, and keeps the rows of the database.  The    *)
(* deletion of another bank purges the store by replacing it.              *)
(***************************************************************************)
EXTENDS CoreBanking

CONSTANTS
  Amounts,            \* instructed amounts, in minor units
  MaxAuthorisations,  \* bound: completions of SCA a client sends per payment
  MaxReconfigurations, \* bound: changes of a bank's settlement engine
  MaxDisruptions      \* bound: restarts of the server and deletions of other banks

(* Payments are numbered in the order the store was given them, which is   *)
(* the order InMemoryPaymentStore.list returns.  Journal entries carry the *)
(* payment as their reference (remittance or end-to-end id).               *)
PaymentIds == Refs

Engines == {"rtgs", "interbank", "netting"}
Statuses == {"RCVD", "ACTC", "ACSC", "RJCT"}

SettlementOps == {"authorise", "cycle"}
SettlementLabels == CoreLabels \union
  {"resolve_engine", "cycle_engine", "sweep", "list_payments", "listing", "promote"}

ASSUME SettlementAssumption ==
  /\ PaymentIds \subseteq Nat
  /\ Amounts \subseteq Nat \ {0}
  /\ MaxAuthorisations \in Nat
  /\ MaxReconfigurations \in Nat
  /\ MaxDisruptions \in Nat
  /\ Seed.engines \subseteq Engines
  /\ \A e \in Seed.journal : e.ref = None

VARIABLES
  payments,  \* the store: payment id -> payment
  engine,    \* bank -> capabilities["settlement"]
  cycle,     \* worker -> locals of run_settlement_cycle
  reconfigs, \* engine changes so far, for the bound
  purging,   \* the payments in the dicts that deletions of other banks are making
  disruptions, \* restarts and deletions so far, for the bound
  forgotten, \* the payments the store no longer has: requests may still hold one
  overlapped \* history: the banks of which no promise is made of what suspense holds:
             \* a cycle of the bank met a request that settles a payment of it, another
             \* cycle of it, or one that adds a payment to the store; or two purges
             \* were under way at once

history == <<forgotten, overlapped>>
faults == <<purging, disruptions>>
payVars == <<payments, engine, cycle, reconfigs, purging, disruptions, forgotten, overlapped>>
vars == <<banks, customers, accounts, journal, seq, issued, frame,
          payments, engine, cycle, reconfigs, purging, disruptions, forgotten, overlapped>>

Payment == [bank : Banks, debtor : AccountIds, ccy : Currencies, amount : Nat \ {0},
            status : Statuses, entry : Nat, sca : BOOLEAN, completions : Nat]

NoCycle == [suspense |-> {}, swept |-> FALSE, size |-> 0, promote |-> {}]

Init ==
  /\ CoreInit
  /\ payments = <<>>
  /\ engine \in [Banks -> Seed.engines]
  /\ cycle = [w \in Workers |-> NoCycle]
  /\ reconfigs = 0
  /\ purging = {} /\ disruptions = 0
  /\ forgotten = <<>>
  /\ overlapped = {}

Stored == DOMAIN payments

(* Every payment there ever was, and its object.                           *)
Known == Stored \union DOMAIN forgotten
PaymentOf(p) == IF p \in Stored THEN payments[p] ELSE forgotten[p]
StatusOf(p) == PaymentOf(p).status

(* For the history: the requests of these kinds that the other workers     *)
(* have under way in these banks are met by w's.                           *)
Meets(w, ops, bs) ==
  overlapped' = overlapped \union
    {b \in bs : \E v \in Workers \ {w} : frame[v].op \in ops /\ frame[v].bank = b}

(* save: a payment that a purge lost is back in the store, where it counts *)
(* as one that was added.                                                  *)
Save(w, p, payment) ==
  /\ payments' = [q \in Stored \union {p} |-> IF q = p THEN payment ELSE payments[q]]
  /\ forgotten' = [q \in DOMAIN forgotten \ {p} |-> forgotten[q]]
  /\ IF p \in Stored THEN UNCHANGED overlapped ELSE Meets(w, {"cycle"}, Banks)

(* new_id: the id of a payment is not one that was ever used. *)
NewIds == PaymentIds \ (Stored \union DOMAIN forgotten)

-----------------------------------------------------------------------------
(* Requests that touch the stores once.  They too occupy a worker. *)

Idle(w) == frame[w].pc = "idle"

(* initiate_payment: the debtor is found by its IBAN among the customers'  *)
(* accounts; the amount is positive and in the debtor's currency.          *)
InitiatePayment(w) ==
  /\ Idle(w)
  /\ NewIds # {}
  /\ \E a \in {x \in accounts : ~IsInternal(x) /\ x.customer # None /\ x.bank \in banks},
        m \in Amounts :
       LET p == Min(NewIds)
           new == [bank |-> a.bank, debtor |-> a.id, ccy |-> a.ccy, amount |-> m,
                   status |-> "RCVD", entry |-> 0, sca |-> FALSE, completions |-> 0] IN
       payments' = [q \in Stored \union {p} |-> IF q = p THEN new ELSE payments[q]]
  /\ Meets(w, {"cycle"}, Banks)
  /\ UNCHANGED <<tables, frame, engine, cycle, reconfigs, faults, forgotten>>

(* start_payment_authorisation, at any status of the payment; one          *)
(* authorisation is as good as another.                                    *)
StartAuthorisation(w) ==
  /\ Idle(w)
  /\ \E p \in Stored :
       /\ ~payments[p].sca
       /\ payments' = [payments EXCEPT ![p].sca = TRUE]
  /\ UNCHANGED <<tables, frame, engine, cycle, reconfigs, faults, history>>

(* update_bank with another settlement capability. *)
Reconfigure(w) ==
  /\ Idle(w)
  /\ reconfigs < MaxReconfigurations
  /\ reconfigs' = reconfigs + 1
  /\ \E b \in banks, e \in Engines : engine' = [engine EXCEPT ![b] = e]
  /\ UNCHANGED <<tables, frame, payments, cycle, faults, history>>

-----------------------------------------------------------------------------
(* update_payment_authorisation and finalise_payment.  Neither looks at    *)
(* the status the payment or its authorisation already has.                *)

BeginAuthorise(w) ==
  /\ Idle(w)
  /\ \E p \in Stored :
       /\ payments[p].sca
       /\ payments[p].bank \in banks
       /\ payments[p].completions < MaxAuthorisations
       /\ payments' = [payments EXCEPT ![p].completions = @ + 1]
       /\ Begin(w, [IdleFrame EXCEPT !.op = "authorise", !.pc = "resolve_engine",
                      !.bank = payments[p].bank, !.ref = p, !.payer = payments[p].debtor,
                      !.ccy = payments[p].ccy, !.amount = payments[p].amount])
       /\ Meets(w, {"cycle"}, {payments[p].bank})
  /\ UNCHANGED <<tables, engine, cycle, reconfigs, faults, forgotten>>

(* The internal account an engine moves the debtor's money to. *)
Counterparty == [rtgs |-> "rtgs", interbank |-> "nostro", netting |-> "suspense"]

(* The payment that was found is saved, finalised, and the engine resolved.*)
ResolveEngine(w) ==
  /\ frame[w].pc = "resolve_engine"
  /\ Save(w, frame[w].ref, PaymentOf(frame[w].ref))
  /\ frame' = [frame EXCEPT ![w].pc = "ensure", ![w].then = "transfer",
                            ![w].kind = Counterparty[engine[frame[w].bank]]]
  /\ UNCHANGED <<tables, engine, cycle, reconfigs, faults>>

(* Mutant: a refusal is taken for a settlement. *)
SettleResultRefusalAccepted(f) == IF f.kind = "suspense" THEN "ACTC" ELSE "ACSC"

(* The engine turns InsufficientFundsError, and nothing else, into         *)
(* REJECTED; netting returns PENDING where the others return SETTLED.      *)
SettleResult(f) ==
  IF f.result = "insufficient" THEN "RJCT"
  ELSE IF f.kind = "suspense" THEN "ACTC" ELSE "ACSC"

(* Mutant: a deferred settlement falls into the branch for refusals. *)
RecordOutcomePendingRejected(w) ==
  LET f == frame[w] IN
  /\ f.pc = "return" /\ f.op = "authorise"
  /\ Save(w, f.ref, IF SettleResult(f) = "ACSC"
                    THEN [PaymentOf(f.ref) EXCEPT !.status = "ACSC", !.entry = f.entry]
                    ELSE [PaymentOf(f.ref) EXCEPT !.status = "RJCT"])
  /\ Begin(w, IdleFrame)
  /\ UNCHANGED <<tables, engine, cycle, reconfigs, faults>>

(* Any other error leaves the payment as it was, and saves nothing.        *)
RecordOutcome(w) ==
  LET f == frame[w] IN
  /\ f.pc = "return" /\ f.op = "authorise"
  /\ IF f.result \in {"ok", "insufficient"}
     THEN Save(w, f.ref, [PaymentOf(f.ref) EXCEPT !.status = SettleResult(f),
                            !.entry = IF f.result = "ok" THEN f.entry ELSE @])
     ELSE UNCHANGED <<payments, history>>
  /\ Begin(w, IdleFrame)
  /\ UNCHANGED <<tables, engine, cycle, reconfigs, faults>>

-----------------------------------------------------------------------------
(* run_settlement_cycle *)

BeginCycle(w) ==
  /\ Idle(w)
  /\ \E b \in banks :
       /\ Begin(w, [IdleFrame EXCEPT !.op = "cycle", !.pc = "cycle_engine", !.bank = b])
       /\ Meets(w, SettlementOps, {b})
  /\ UNCHANGED <<tables, payments, engine, cycle, reconfigs, faults, forgotten>>

(* Only netting has a cycle; it lists the suspense accounts once.          *)
CycleEngine(w) ==
  LET b == frame[w].bank IN
  /\ frame[w].pc = "cycle_engine"
  /\ IF engine[b] = "netting"
     THEN /\ cycle' = [cycle EXCEPT ![w].suspense =
                         {a.id : a \in {x \in ListAccounts(b) : x.kind = "suspense"}}]
          /\ Goto(w, "sweep")
     ELSE /\ Begin(w, IdleFrame)
          /\ UNCHANGED cycle
  /\ UNCHANGED <<tables, payments, engine, reconfigs, faults, history>>

(* The next suspense account: its balance is read here and moved, as an    *)
(* amount, by the transfer that follows.                                   *)
Sweep(w) ==
  LET f == frame[w]
      id == Min(cycle[w].suspense)
      held == Balance(f.bank, id) IN
  /\ f.pc = "sweep" /\ cycle[w].suspense # {}
  /\ IF held > 0
     THEN /\ \E a \in GetAccount(f.bank, id) :
               frame' = [frame EXCEPT ![w].pc = "ensure", ![w].then = "transfer",
                           ![w].kind = "net_settlement", ![w].payer = id,
                           ![w].ccy = a.ccy, ![w].amount = held]
          /\ UNCHANGED cycle
     ELSE /\ cycle' = [cycle EXCEPT ![w].suspense = @ \ {id}]
          /\ UNCHANGED frame
  /\ UNCHANGED <<tables, payments, engine, reconfigs, faults, history>>

(* Mutant: no result is appended for the sweep. *)
SweptNoResult(w) ==
  /\ frame[w].pc = "return" /\ frame[w].op = "cycle"
  /\ cycle' = [cycle EXCEPT ![w].suspense = @ \ {frame[w].payer}]
  /\ Goto(w, "sweep")
  /\ UNCHANGED <<tables, payments, engine, reconfigs, faults, history>>

(* An error of the transfer is not caught: the cycle ends there.           *)
Swept(w) ==
  LET f == frame[w] IN
  /\ f.pc = "return" /\ f.op = "cycle"
  /\ IF f.result = "ok"
     THEN /\ cycle' = [cycle EXCEPT ![w].suspense = @ \ {f.payer}, ![w].swept = TRUE]
          /\ Goto(w, "sweep")
     ELSE /\ cycle' = [cycle EXCEPT ![w] = NoCycle]
          /\ Begin(w, IdleFrame)
  /\ UNCHANGED <<tables, payments, engine, reconfigs, faults, history>>

(* No results, no promotion. *)
CycleDone(w) ==
  /\ frame[w].pc = "sweep" /\ cycle[w].suspense = {}
  /\ IF cycle[w].swept
     THEN Goto(w, "list_payments") /\ UNCHANGED cycle
     ELSE Begin(w, IdleFrame) /\ cycle' = [cycle EXCEPT ![w] = NoCycle]
  /\ UNCHANGED <<tables, payments, engine, reconfigs, faults, history>>

(* InMemoryPaymentStore.list iterates over the dict: a payment added by    *)
(* another thread meanwhile raises RuntimeError, and the request fails.    *)
ListPayments(w) ==
  /\ frame[w].pc = "list_payments"
  /\ cycle' = [cycle EXCEPT ![w].size = Cardinality(Stored)]
  /\ Goto(w, "listing")
  /\ UNCHANGED <<tables, payments, engine, reconfigs, faults, history>>

PaymentsListed(w) ==
  LET b == frame[w].bank IN
  /\ frame[w].pc = "listing"
  /\ IF Cardinality(Stored) = cycle[w].size
     THEN /\ cycle' = [cycle EXCEPT ![w].promote = {p \in Stored : payments[p].bank = b}]
          /\ Goto(w, "promote")
     ELSE /\ cycle' = [cycle EXCEPT ![w] = NoCycle]
          /\ Begin(w, IdleFrame)
  /\ UNCHANGED <<tables, payments, engine, reconfigs, faults, history>>

(* Every ACTC payment of the bank is promoted, one after the other, in the *)
(* order of the dict, which a purge and a later save may have changed.     *)
Promote(w) ==
  /\ frame[w].pc = "promote"
  /\ \E p \in cycle[w].promote :
       /\ IF StatusOf(p) = "ACTC"
          THEN Save(w, p, [PaymentOf(p) EXCEPT !.status = "ACSC"])
          ELSE UNCHANGED <<payments, history>>
       /\ cycle' = [cycle EXCEPT ![w].promote = @ \ {p}]
  /\ UNCHANGED <<tables, frame, engine, reconfigs, faults>>

EndCycle(w) ==
  /\ frame[w].pc = "promote" /\ cycle[w].promote = {}
  /\ cycle' = [cycle EXCEPT ![w] = NoCycle]
  /\ Begin(w, IdleFrame)
  /\ UNCHANGED <<tables, payments, engine, reconfigs, faults, history>>

-----------------------------------------------------------------------------
(* The server goes down, at any moment, and comes up again: Container makes *)
(* a new payment store, and the requests under way are gone.               *)

Restart ==
  /\ disruptions < MaxDisruptions
  /\ disruptions' = disruptions + 1
  /\ forgotten' = [p \in Stored \union DOMAIN forgotten |->
                    IF p \in Stored THEN payments[p] ELSE forgotten[p]]
  /\ payments' = <<>>
  /\ purging' = {}
  /\ cycle' = [w \in Workers |-> NoCycle]
  /\ frame' = [w \in Workers |-> IdleFrame]
  /\ UNCHANGED <<tables, engine, reconfigs, overlapped>>

-----------------------------------------------------------------------------
(* The deletion of a bank without payments here.  purge builds a dict of   *)
(* what it keeps, all of these, and then assigns it: what was added in     *)
(* between is lost, and what another purge lost is back.  A deletion that  *)
(* fails, because the dict grew while it was read, is a purge that never   *)
(* assigns.                                                                *)

PurgeReads ==
  /\ disruptions < MaxDisruptions
  /\ disruptions' = disruptions + 1
  /\ purging' = purging \union {Stored}
  /\ overlapped' = IF purging = {} THEN overlapped ELSE Banks
  /\ UNCHANGED <<tables, frame, payments, engine, cycle, reconfigs, forgotten>>

(* A listing under way goes on with the dict it began with, so that an     *)
(* assignment during it is as good as one after it.                        *)
PurgeAssigns ==
  /\ \A w \in Workers : frame[w].pc # "listing"
  /\ \E kept \in purging :
       /\ purging' = purging \ {kept}
       /\ payments' = [p \in kept |-> PaymentOf(p)]
       /\ forgotten' = [p \in Known \ kept |-> PaymentOf(p)]
  /\ UNCHANGED <<tables, frame, engine, cycle, reconfigs, disruptions, overlapped>>

-----------------------------------------------------------------------------

Accepts(w) ==
  \/ InitiatePayment(w) \/ StartAuthorisation(w) \/ Reconfigure(w)
  \/ BeginAuthorise(w) \/ BeginCycle(w)

Serves(w) ==
  \/ CoreStep(w) /\ UNCHANGED payVars
  \/ ResolveEngine(w) \/ RecordOutcome(w)
  \/ CycleEngine(w) \/ Sweep(w) \/ Swept(w) \/ CycleDone(w)
  \/ ListPayments(w) \/ PaymentsListed(w) \/ Promote(w) \/ EndCycle(w)

Next == Restart \/ PurgeReads \/ PurgeAssigns \/ \E w \in Workers : Accepts(w) \/ Serves(w)

Spec == Init /\ [][Next]_vars

(* A request that was accepted runs to its end, and the operator keeps     *)
(* running cycles; clients need never send anything.                       *)
Fairness == \A w \in Workers : WF_vars(Serves(w)) /\ WF_vars(BeginCycle(w))

FairSpec == Spec /\ Fairness

-----------------------------------------------------------------------------
(* Properties *)

(* Every row, frame and payment is of its type. *)
TypeOK ==
  /\ accounts \subseteq Account
  /\ journal \subseteq JournalEntry
  /\ seq \in Nat
  /\ frame \in [Workers -> Frame(SettlementOps \union {"none"}, SettlementLabels)]
  /\ Stored \subseteq PaymentIds
  /\ \A p \in Stored : payments[p] \in Payment
  /\ DOMAIN forgotten \subseteq PaymentIds \ Stored
  /\ \A p \in DOMAIN forgotten : forgotten[p] \in Payment
  /\ purging \subseteq SUBSET PaymentIds
  /\ overlapped \subseteq Banks
  /\ engine \in [Banks -> Engines]
  /\ cycle \in [Workers -> [suspense : SUBSET AccountIds, swept : BOOLEAN,
                            size : Nat, promote : SUBSET PaymentIds]]

AtRest == \A w \in Workers : Idle(w)

EntriesOf(p) == {e \in journal : e.ref = p}

BeingHandled(p) == \E w \in Workers : frame[w].op = "authorise" /\ frame[w].ref = p

(* One outbound payment leaves the debtor's account no more often than its *)
(* SCA was completed, however authorisations, cycles and restarts          *)
(* interleave: once, for a client that completes it once.                  *)
SettledOnce == \A p \in Known : Cardinality(EntriesOf(p)) <= PaymentOf(p).completions

(* The status a client reads tells where the money is: an accepted payment *)
(* has an entry that debited its debtor by its amount, and names it, at    *)
(* the latest when nobody is working on it any more; and a received or     *)
(* rejected payment nobody is working on has moved nothing, unless its SCA *)
(* was completed again.                                                    *)
StatusTellsMoney ==
  \A p \in Stored :
    /\ StatusOf(p) \in {"ACTC", "ACSC"} =>
         \E e \in EntriesOf(p) :
           /\ MovedBy(e, payments[p].debtor) = -payments[p].amount
           /\ e.seq = payments[p].entry \/ BeingHandled(p)
    /\ StatusOf(p) \in {"RCVD", "RJCT"} /\ payments[p].completions <= 1 /\ ~BeingHandled(p) =>
         EntriesOf(p) = {}

(* Payments at once may all pass the funds check before any of them posts, *)
(* and take the account below zero; but by no more than the other workers  *)
(* can have in flight, however many payments follow.                       *)
OverdraftBounded ==
  \A a \in accounts : ~IsInternal(a) =>
    Balance(a.bank, a.id) >= -((Cardinality(Workers) - 1) * Max(Amounts))

Suspense(b, c) == {a \in ListAccounts(b) : a.kind = "suspense" /\ a.ccy = c}

HeldInSuspense(b, c) == MapThenSumSet(LAMBDA a : Balance(b, a.id), Suspense(b, c))

Awaiting(b, c) ==
  MapThenSumSet(LAMBDA p : payments[p].amount,
                {p \in Stored : /\ StatusOf(p) = "ACTC"
                                /\ payments[p].bank = b /\ payments[p].ccy = c})

(* The entries that brought money to a suspense account no sweep has left since. *)
Unswept(b) ==
  {e \in ListJournal(b) : \E a \in ListAccounts(b) :
     /\ a.kind = "suspense" /\ MovedBy(e, a.id) > 0
     /\ \A later \in ListJournal(b) : later.seq > e.seq => MovedBy(later, a.id) >= 0}

(* A restart or a purge lost the payment, or its SCA was completed again. *)
Astray(p) == p \in DOMAIN forgotten \/ PaymentOf(p).completions > 1

(* With no request in flight, and unless a cycle of the bank ran next to   *)
(* an authorisation or a cycle of it, or to a payment being added          *)
(* anywhere, or two deletions of other banks ran at once: the suspense     *)
(* accounts hold the money of every payment that awaits the cycle, also    *)
(* after a restart, so none is left waiting whose money has gone; and what *)
(* they hold beyond that was paid in for a payment a restart or a purge    *)
(* lost, or whose SCA was completed again, so none was completed with its  *)
(* money unswept.                                                          *)
SuspenseReconciled ==
  AtRest => \A b \in banks \ overlapped :
    /\ \A c \in Currencies : HeldInSuspense(b, c) >= Awaiting(b, c)
    /\ \A e \in Unswept(b) : Astray(e.ref) \/ StatusOf(e.ref) = "ACTC"

(* While cycles keep being run and the bank stays with netting, a payment  *)
(* awaiting the cycle is completed, unless a restart or a purge loses it   *)
(* or its SCA is completed again and that is refused.                      *)
AwaitingIsCompleted ==
  \A p \in PaymentIds :
    (p \in Stored /\ StatusOf(p) = "ACTC") ~>
      \/ p \in DOMAIN forgotten
      \/ p \in Stored /\ (StatusOf(p) \in {"ACSC", "RJCT"} \/ engine[payments[p].bank] # "netting")

(* The payments implement PaymentPromise: a payment's money is taken when  *)
(* its entry is added, and completed when its status says so.              *)
PhaseOf(p) ==
  IF p \notin Known THEN "absent"
  ELSE IF StatusOf(p) = "RJCT" THEN "refused"
  ELSE IF StatusOf(p) = "ACSC" THEN "completed"
  ELSE IF EntriesOf(p) = {} THEN "received" ELSE "taken"

Promise == INSTANCE PaymentPromise WITH phase <- [p \in PaymentIds |-> PhaseOf(p)]

KeepsPromise == Promise!Spec

=============================================================================
