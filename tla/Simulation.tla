----------------------------- MODULE Simulation -----------------------------
(***************************************************************************)
(* The live simulator: an asyncio task that sleeps and runs one tick at a  *)
(* time in a worker thread, started and stopped by requests, next to the   *)
(* threads that post transactions by hand.                                 *)
(*                                                                         *)
(* An action of a runner or of start and stop is what the event loop does  *)
(* between two awaits; an action of a thread is one read or write of the   *)
(* core service or one block under the simulator's lock.  The ledger is    *)
(* reduced to which entries there are; CoreBanking has the rest.           *)
(***************************************************************************)
EXTENDS RollingFeed, FiniteSets

CONSTANTS
  Accounts,     \* customer accounts at start-up
  Banks,        \* the tenants: a partition of Accounts
  Runners,      \* the asyncio tasks _run: 1..n, created in this order
  Posters,      \* threads that serve "post a transaction"
  Controllers,  \* requests that start or stop the simulator
  None,
  MaxCommands,  \* bound: starts and stops in all
  MaxEntries    \* bound: entries made in all

Threads == Runners \union Posters
Events == [seq : Nat, entry : Nat, account : Accounts, balance : Nat]

ASSUME SimulationAssumption ==
  /\ Runners \subseteq Nat
  /\ Banks \subseteq SUBSET Accounts
  /\ Runners \intersect Posters = {}
  /\ None \notin Threads \union Accounts
  /\ MaxCommands \in Nat /\ MaxEntries \in Nat

VARIABLES
  open,       \* accounts that exist
  entries,    \* entry -> account, of every entry made; entries are 1, 2, ...
              \* in the order of booked_at
  journal,    \* the entries in the journal table
  running,    \* SimulationEngine.running
  targets,    \* _targets
  current,    \* _task
  runner,     \* runner[r]: where task r is and whether it has been cancelled
  thread,     \* thread[t]: what worker thread t is doing
  awaiting,   \* awaiting[c]: the task the stop of controller c waits for
  events, seq, generated,
  commands,   \* starts and stops so far, for the bound
  recorded    \* history: the entries in the order they were recorded, and by whom

feed == <<events, seq, recorded>>
ledger == <<open, entries, journal>>
control == <<running, targets, current, awaiting, commands>>
vars == <<open, entries, journal, running, targets, current, runner, thread, awaiting,
          events, seq, generated, commands, recorded>>

RunnerLabels == {"none", "fresh", "sleeping", "ticking", "ended"}
ThreadLabels == {"none", "pick", "make", "check", "post", "read", "count", "record"}

Idle == [pc |-> "none", account |-> None, entry |-> 0, balance |-> 0]

Init ==
  /\ open = Accounts /\ entries = <<>> /\ journal = {}
  /\ running = FALSE /\ targets = {} /\ current = None
  /\ runner = [r \in Runners |-> [pc |-> "none", cancelled |-> FALSE]]
  /\ thread = [t \in Threads |-> Idle]
  /\ awaiting = [c \in Controllers |-> None]
  /\ events = <<>> /\ seq = 0 /\ generated = 0
  /\ commands = 0
  /\ recorded = <<>>

-----------------------------------------------------------------------------
(* start and stop *)

Unborn == {r \in Runners : runner[r].pc = "none"}

(* asyncio.create_task *)
CreateTask ==
  \E r \in Unborn :
    /\ \A x \in Unborn : r <= x
    /\ runner' = [runner EXCEPT ![r].pc = "fresh"]
    /\ current' = r

Command(c) ==
  /\ awaiting[c] = None
  /\ commands < MaxCommands
  /\ commands' = commands + 1

(* start: the targets are replaced in any case. *)
Start(c) ==
  /\ Command(c)
  /\ \E T \in SUBSET Accounts : targets' = T
  /\ \/ running /\ UNCHANGED <<running, current, runner>>
     \/ ~running /\ running' = TRUE /\ CreateTask
  /\ UNCHANGED <<ledger, thread, awaiting, feed, generated>>

(* stop, up to "await task". *)
Stop(c) ==
  /\ Command(c)
  /\ running' = FALSE
  /\ current' = None
  /\ awaiting' = [awaiting EXCEPT ![c] = current]
  /\ runner' = IF current = None THEN runner
               ELSE [runner EXCEPT ![current].cancelled = TRUE]
  /\ UNCHANGED <<ledger, targets, thread, feed, generated>>

StopReturns(c) ==
  /\ awaiting[c] # None
  /\ runner[awaiting[c]].pc = "ended"
  /\ awaiting' = [awaiting EXCEPT ![c] = None]
  /\ UNCHANGED <<ledger, running, targets, current, commands, runner, thread, feed, generated>>

-----------------------------------------------------------------------------
(* The task *)

(* Mutant: suppress(BaseException) around the tick swallows the cancel.     *)
CancelledSwallowed(r) ==
  /\ runner[r].pc \in {"fresh", "sleeping", "ticking"}
  /\ runner[r].cancelled
  /\ runner' = [runner EXCEPT ![r].pc =
       IF runner[r].pc = "ticking" /\ running THEN "sleeping" ELSE "ended",
                              ![r].cancelled = FALSE]
  /\ UNCHANGED <<ledger, control, thread, feed, generated>>

(* CancelledError, at the await the task is at or before its first step.   *)
(* A tick that is under way goes on: a thread is not cancelled.            *)
Cancelled(r) ==
  /\ runner[r].pc \in {"fresh", "sleeping", "ticking"}
  /\ runner[r].cancelled
  /\ runner' = [runner EXCEPT ![r].pc = "ended"]
  /\ UNCHANGED <<ledger, control, thread, feed, generated>>

(* The head of the loop: at the start and after each tick. *)
LoopHead(r) ==
  /\ ~runner[r].cancelled
  /\ \/ runner[r].pc = "fresh"
     \/ runner[r].pc = "ticking" /\ thread[r].pc = "none"
  /\ runner' = [runner EXCEPT ![r].pc = IF running THEN "sleeping" ELSE "ended"]
  /\ UNCHANGED <<ledger, control, thread, feed, generated>>

(* After the sleep: a tick in a thread of its own. *)
Wake(r) ==
  /\ runner[r].pc = "sleeping"
  /\ ~runner[r].cancelled
  /\ IF running
     THEN /\ runner' = [runner EXCEPT ![r].pc = "ticking"]
          /\ thread' = [thread EXCEPT ![r].pc = "pick"]
     ELSE /\ runner' = [runner EXCEPT ![r].pc = "ended"]
          /\ UNCHANGED thread
  /\ UNCHANGED <<ledger, control, feed, generated>>

-----------------------------------------------------------------------------
(* A tick, and a transaction posted by hand *)

Finish(t) == thread' = [thread EXCEPT ![t] = Idle]

Step(t, label) == thread' = [thread EXCEPT ![t].pc = label]

(* The targets of the moment; without any the tick does nothing. *)
Pick(t) ==
  /\ thread[t].pc = "pick"
  /\ \/ targets = {} /\ Finish(t)
     \/ \E a \in targets :
          thread' = [thread EXCEPT ![t].account = a, ![t].pc = "make"]
  /\ UNCHANGED <<ledger, control, runner, feed, generated>>

PostByHand(p) ==
  /\ thread[p].pc = "none"
  /\ \E a \in Accounts : thread' = [thread EXCEPT ![p].account = a, ![p].pc = "make"]
  /\ UNCHANGED <<ledger, control, runner, feed, generated>>

(* post_external_transaction up to the construction of the entry, which is *)
(* when booked_at is read off the clock.  An unknown account ends it.      *)
Make(t) ==
  LET n == Len(entries) + 1 IN
  /\ thread[t].pc = "make"
  /\ \/ /\ thread[t].account \notin open
        /\ Finish(t) /\ UNCHANGED entries
     \/ /\ thread[t].account \in open
        /\ n <= MaxEntries
        /\ entries' = Append(entries, thread[t].account)
        /\ thread' = [thread EXCEPT ![t].entry = n, ![t].pc = "check"]
  /\ UNCHANGED <<open, journal, control, runner, feed, generated>>

(* post_journal_entry looks the accounts up in sessions of their own ...   *)
Check(t) ==
  /\ thread[t].pc = "check"
  /\ \/ thread[t].account \notin open /\ Finish(t)
     \/ thread[t].account \in open /\ Step(t, "post")
  /\ UNCHANGED <<ledger, control, runner, feed, generated>>

(* ... and inserts the entry in another, whatever has become of them.      *)
Post(t) ==
  /\ thread[t].pc = "post"
  /\ journal' = journal \union {thread[t].entry}
  /\ Step(t, "read")
  /\ UNCHANGED <<open, entries, control, runner, feed, generated>>

EntriesOf(a) == {e \in journal : entries[e] = a}

(* balance_after: every entry is worth 1. *)
BalanceAfter(e) == Cardinality({x \in EntriesOf(entries[e]) : x <= e})

Latest(S) == CHOOSE x \in S : \A y \in S : y <= x

AfterRead(t) == IF t \in Runners THEN "count" ELSE "record"

(* Mutant: takes the account's last record for the one just booked. *)
ReadLatest(t) ==
  LET last == Latest(EntriesOf(thread[t].account)) IN
  /\ thread[t].pc = "read"
  /\ \/ thread[t].account \notin open /\ Finish(t)
     \/ /\ thread[t].account \in open
        /\ thread' = [thread EXCEPT ![t].entry = last, ![t].balance = BalanceAfter(last),
                                    ![t].pc = AfterRead(t)]
  /\ UNCHANGED <<ledger, control, runner, feed, generated>>

(* Mutant: reads the balance of the account, which later entries are in.    *)
ReadBalance(t) ==
  /\ thread[t].pc = "read"
  /\ \/ thread[t].account \notin open /\ Finish(t)
     \/ /\ thread[t].account \in open
        /\ thread' = [thread EXCEPT ![t].balance = Cardinality(EntriesOf(thread[t].account)),
                                    ![t].pc = AfterRead(t)]
  /\ UNCHANGED <<ledger, control, runner, feed, generated>>

(* transaction_history, and the record of the entry in it.  A deletion     *)
(* between its two reads ends the thread like one before them: the entry   *)
(* is then not in the history.                                             *)
Read(t) ==
  /\ thread[t].pc = "read"
  /\ \/ thread[t].account \notin open /\ Finish(t)
     \/ /\ thread[t].account \in open
        /\ thread' = [thread EXCEPT ![t].balance = BalanceAfter(thread[t].entry),
                                    ![t].pc = AfterRead(t)]
  /\ UNCHANGED <<ledger, control, runner, feed, generated>>

(* self.generated += 1: one step, there is no switch of threads inside.    *)
Count(t) ==
  /\ thread[t].pc = "count"
  /\ generated' = generated + 1
  /\ Step(t, "record")
  /\ UNCHANGED <<ledger, control, runner, feed>>

(* The block of _record under the lock. *)
Record(t) ==
  LET e == thread[t].entry IN
  /\ thread[t].pc = "record"
  /\ seq' = seq + 1
  /\ events' = Pushed(events, [seq |-> seq + 1, entry |-> e, account |-> thread[t].account,
                               balance |-> thread[t].balance])
  /\ recorded' = Append(recorded, [entry |-> e, by |-> t])
  /\ Finish(t)
  /\ UNCHANGED <<ledger, control, runner, generated>>

-----------------------------------------------------------------------------
(* A tenant is deleted with all it has. *)
DeleteBank(b) ==
  /\ b \subseteq open
  /\ open' = open \ b
  /\ journal' = {e \in journal : entries[e] \notin b}
  /\ UNCHANGED <<entries, control, runner, thread, feed, generated>>

EventLoop ==
  \/ \E c \in Controllers : StopReturns(c)
  \/ \E r \in Runners : Cancelled(r) \/ LoopHead(r) \/ Wake(r)

Ticks(t) == Pick(t) \/ Make(t) \/ Check(t) \/ Post(t) \/ Read(t) \/ Count(t) \/ Record(t)

Next ==
  \/ \E c \in Controllers : Start(c) \/ Stop(c)
  \/ EventLoop
  \/ \E t \in Threads : Ticks(t)
  \/ \E p \in Posters : PostByHand(p)
  \/ \E b \in Banks : DeleteBank(b)

Spec == Init /\ [][Next]_vars

(* The event loop runs what is ready and every thread gets on: for each    *)
(* action that ends a wait.  Nobody has to start, stop or post anything.   *)
Fairness ==
  /\ \A c \in Controllers : WF_vars(StopReturns(c))
  /\ \A r \in Runners : WF_vars(Cancelled(r)) /\ WF_vars(LoopHead(r)) /\ WF_vars(Wake(r))
  /\ \A t \in Threads : WF_vars(Ticks(t))

FairSpec == Spec /\ Fairness

-----------------------------------------------------------------------------
(* Properties *)

(* Variables are of their types, and a thread past its first step has an    *)
(* account.                                                                *)
TypeOK ==
  /\ open \subseteq Accounts
  /\ entries \in Seq(Accounts)
  /\ journal \subseteq DOMAIN entries
  /\ running \in BOOLEAN /\ targets \subseteq Accounts
  /\ current \in Runners \union {None}
  /\ runner \in [Runners -> [pc : RunnerLabels, cancelled : BOOLEAN]]
  /\ thread \in [Threads -> [pc : ThreadLabels, account : Accounts \union {None},
                             entry : Nat, balance : Nat]]
  /\ \A t \in Threads : thread[t].pc \in {"none", "pick"} \/ thread[t].account \in Accounts
  /\ awaiting \in [Controllers -> Runners \union {None}]
  /\ events \in Seq(Events)
  /\ seq \in Nat /\ generated \in Nat

(* However starts and stops follow each other, at most one task is not on  *)
(* its way out, and that is so exactly when the simulator says it runs.    *)
OneRunner ==
  LET alive == {r \in Runners : /\ runner[r].pc \in {"fresh", "sleeping", "ticking"}
                                /\ ~runner[r].cancelled} IN
  alive = IF running THEN {current} ELSE {}

AtRest == \A t \in Threads : thread[t].pc = "none"

(* Between transactions every entry of an account that is there has been   *)
(* recorded once, whether a tick or a request booked it.  An entry that    *)
(* was inserted after its bank was deleted stays behind in the journal,    *)
(* and nobody has been told of it.                                         *)
EveryEntryRecorded ==
  AtRest =>
    \A e \in journal :
      Cardinality({i \in DOMAIN recorded : recorded[i].entry = e})
        = IF entries[e] \in open THEN 1 ELSE 0

(* Every stop comes back. *)
StopsReturn == \A c \in Controllers : (awaiting[c] # None) ~> (awaiting[c] = None)

(* Between transactions a balance in the feed differs from the history's by *)
(* no more than the entries that other threads can have had in hand when   *)
(* it was read: those made before it and written after.                    *)
BalancesNearlyAgree ==
  AtRest => \A i \in DOMAIN events :
    events[i].entry \in journal =>
      BalanceAfter(events[i].entry) - events[i].balance \in 0 .. Cardinality(Threads) - 1

=============================================================================
