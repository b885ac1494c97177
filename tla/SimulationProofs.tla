--------------------------- MODULE SimulationProofs ---------------------------
(***************************************************************************)
(* Theorems about Simulation: one loop however starts and stops follow     *)
(* each other, each entry recorded once, and how far a balance in the feed *)
(* may be from the history's, for any number of tasks, threads, controllers*)
(* and entries.  And about the two components that fill a bank before it   *)
(* is simulated: Population, that a batch of people is there as a whole,   *)
(* and History, that an import leaves an initial part of itself.           *)
(***************************************************************************)
EXTENDS Simulation, FiniteSetTheorems, SequenceTheorems, TLAPS

ThreadFrame == [pc : ThreadLabels, account : Accounts \union {None}, entry : Nat, balance : Nat]

(* The labels at which a thread holds an entry it has made. *)
Holding == {"check", "post", "read", "count", "record"}

(* The labels at which it has not written that entry. *)
Unwritten == {"check", "post"}

(* A thread past its first step has an account, and what it holds is an    *)
(* entry of that account among the entries es.                             *)
FrameOK(f, es) ==
  /\ f.pc \in {"none", "pick"} \/ f.account \in Accounts
  /\ f.pc \in Holding => f.entry \in DOMAIN es /\ es[f.entry] = f.account

TInv ==
  /\ TypeOK
  /\ recorded \in Seq([entry : Nat, by : Threads])
  /\ \A t \in Threads : FrameOK(thread[t], entries)
  /\ \A i \in DOMAIN recorded : recorded[i].entry \in DOMAIN entries

-----------------------------------------------------------------------------
(* Types *)

LEMMA IdleType == Idle \in ThreadFrame /\ \A es : FrameOK(Idle, es)
  BY DEF Idle, ThreadFrame, FrameOK, Holding, ThreadLabels

(* What is left in the feed after an event was pushed: the event, and      *)
(* events that were there.                                                 *)
LEMMA PushedFeed ==
  ASSUME NEW S, NEW s \in Seq(S), NEW e \in S
  PROVE  /\ Pushed(s, e) \in Seq(S)
         /\ \A i \in DOMAIN Pushed(s, e) :
              Pushed(s, e)[i] = e \/ \E j \in DOMAIN s : Pushed(s, e)[i] = s[j]
<1> DEFINE a == Append(s, e)
           m == IF Len(a) > MaxEvents THEN Len(a) - MaxEvents + 1 ELSE 1
<1>1. /\ a \in Seq(S) /\ Len(a) = Len(s) + 1 /\ Len(s) \in Nat
      /\ \A j \in 1..Len(s) : a[j] = s[j]
      /\ a[Len(s) + 1] = e
  OBVIOUS
<1>2. Pushed(s, e) = SubSeq(a, m, Len(a))
  BY DEF Pushed, LastOf
<1>3. m \in 1..Len(a)
  BY <1>1, FeedAssumption
<1> HIDE DEF a, m
<1>4. /\ SubSeq(a, m, Len(a)) \in Seq(S)
      /\ Len(SubSeq(a, m, Len(a))) = Len(a) - m + 1
      /\ \A i \in 1..(Len(a) - m + 1) : SubSeq(a, m, Len(a))[i] = a[m + i - 1]
  BY <1>1, <1>3, SubSeqProperties
<1>5. ASSUME NEW i \in DOMAIN Pushed(s, e)
      PROVE  Pushed(s, e)[i] = e \/ \E j \in DOMAIN s : Pushed(s, e)[i] = s[j]
  <2>1. i \in 1..(Len(a) - m + 1) /\ Pushed(s, e)[i] = a[m + i - 1]
    BY <1>2, <1>4
  <2>2. m + i - 1 \in 1..(Len(s) + 1)
    BY <1>1, <1>3, <2>1
  <2> QED BY <1>1, <2>1, <2>2
<1> QED BY <1>2, <1>4, <1>5

(* What a step of a thread makes of the entries: it leaves them or appends *)
(* one, the thread's own.                                                  *)
LEMMA EntriesGrow ==
  ASSUME TInv, NEW t \in Threads, Ticks(t) \/ (t \in Posters /\ PostByHand(t))
  PROVE  /\ entries' \in Seq(Accounts)
         /\ DOMAIN entries \subseteq DOMAIN entries'
         /\ \A e \in DOMAIN entries : entries'[e] = entries[e]
         /\ entries' # entries =>
              /\ Make(t) /\ thread' = [thread EXCEPT ![t].entry = Len(entries) + 1, ![t].pc = "check"]
              /\ DOMAIN entries' = DOMAIN entries \union {Len(entries) + 1}
              /\ Len(entries) + 1 \notin DOMAIN entries
              /\ entries'[Len(entries) + 1] = thread[t].account
<1>1. entries \in Seq(Accounts)
  BY DEF TInv, TypeOK
<1>2. CASE entries' = entries
  BY <1>1, <1>2
<1>3. CASE entries' # entries
  <2>1. /\ Make(t) /\ entries' = Append(entries, thread[t].account)
        /\ thread' = [thread EXCEPT ![t].entry = Len(entries) + 1, ![t].pc = "check"]
    BY <1>3 DEF Ticks, PostByHand, Pick, Make, Check, Post, Read, Count, Record, ledger
  <2>2. thread[t].account \in Accounts
    BY <2>1 DEF Make, TInv, FrameOK
  <2> QED BY <1>1, <2>1, <2>2
<1> QED BY <1>2, <1>3

LEMMA BalanceType == ASSUME TInv PROVE \A e : BalanceAfter(e) \in Nat
<1> SUFFICES ASSUME NEW e PROVE IsFiniteSet({x \in EntriesOf(entries[e]) : x <= e})
  BY FS_CardinalityType DEF BalanceAfter
<1>0. Len(entries) \in Nat
  BY DEF TInv, TypeOK
<1>1. IsFiniteSet(1..Len(entries))
  BY <1>0, FS_Interval
<1>2. {x \in EntriesOf(entries[e]) : x <= e} \in SUBSET (1..Len(entries))
  BY DEF EntriesOf, TInv, TypeOK
<1> QED BY <1>1, <1>2, FS_Subset

(* What a step of a thread makes of its frame. *)
LEMMA ThreadSteps ==
  ASSUME TInv, NEW t \in Threads, Ticks(t) \/ (t \in Posters /\ PostByHand(t))
  PROVE  \E g \in ThreadFrame :
           /\ FrameOK(g, entries') /\ thread' = [thread EXCEPT ![t] = g]
           /\ g.pc \in Holding => \/ /\ thread[t].pc \in Holding /\ g.entry = thread[t].entry
                                     /\ g.account = thread[t].account
                                     /\ g.pc \in Unwritten => Check(t)
                                  \/ /\ g.entry = Len(entries) + 1 /\ g.pc = "check"
                                     /\ g.account = thread[t].account
                                     /\ Make(t) /\ entries' # entries
           /\ Read(t) /\ g.pc \in {"count", "record"} => g.balance = BalanceAfter(thread[t].entry)
           /\ ~Read(t) /\ g.pc \in Holding => g.balance = thread[t].balance
           /\ Post(t) => g.pc = "read"
           /\ ~Finish(t) /\ Check(t) => g.pc = "post"
           /\ thread[t].pc = "none" => g.pc = "make"
<1> DEFINE f == thread[t]
           Good(g) ==
             /\ g \in ThreadFrame
             /\ FrameOK(g, entries') /\ thread' = [thread EXCEPT ![t] = g]
             /\ g.pc \in Holding => \/ /\ thread[t].pc \in Holding /\ g.entry = thread[t].entry
                                       /\ g.account = thread[t].account
                                       /\ g.pc \in Unwritten => Check(t)
                                    \/ /\ g.entry = Len(entries) + 1 /\ g.pc = "check"
                                       /\ g.account = thread[t].account
                                       /\ Make(t) /\ entries' # entries
             /\ Read(t) /\ g.pc \in {"count", "record"} => g.balance = BalanceAfter(thread[t].entry)
             /\ ~Read(t) /\ g.pc \in Holding => g.balance = thread[t].balance
             /\ Post(t) => g.pc = "read"
             /\ ~Finish(t) /\ Check(t) => g.pc = "post"
             /\ thread[t].pc = "none" => g.pc = "make"
<1>0. /\ f \in ThreadFrame /\ FrameOK(f, entries) /\ thread \in [Threads -> ThreadFrame]
  BY DEF TInv, TypeOK, ThreadFrame
<1>1. CASE Finish(t)
  <2>1. f.pc # "none"
    BY <1>1, <1>0 DEF Finish, Idle, Ticks, PostByHand, Pick, Make, Check, Post, Read, Count, Record
  <2>3. ~Post(t)
    BY <1>0, <1>1 DEF Finish, Idle, Post, Step, ThreadFrame
  <2>2. Good(Idle)
    BY <1>1, <2>1, <2>3, IdleType DEF Finish, Idle, Holding
  <2> QED BY <2>2
<1>2. CASE (Check(t) \/ Post(t) \/ Count(t)) /\ ~Finish(t)
  <2> DEFINE l == IF f.pc = "check" THEN "post" ELSE IF f.pc = "post" THEN "read" ELSE "record"
             g == [f EXCEPT !.pc = l]
  <2>1. /\ thread' = [thread EXCEPT ![t] = g] /\ f.pc \in {"check", "post", "count"}
        /\ entries' = entries
        /\ f.pc = "post" <=> Post(t)
        /\ f.pc = "check" <=> Check(t)
    BY <1>0, <1>2 DEF Check, Post, Count, Step, ledger
  <2>2. /\ g \in ThreadFrame /\ g.pc = l /\ g.entry = f.entry /\ g.account = f.account
        /\ g.balance = f.balance
    BY <1>0, <2>1 DEF ThreadFrame, ThreadLabels
  <2>3. ~Read(t)
    BY <2>1 DEF Read
  <2> HIDE DEF g
  <2>4. Good(g)
    BY <1>0, <2>1, <2>2, <2>3 DEF FrameOK, Holding, Unwritten
  <2> QED BY <2>4
<1>3. CASE PostByHand(t) \/ (Pick(t) /\ ~Finish(t))
  <2>1. PICK a \in Accounts : thread' = [thread EXCEPT ![t].account = a, ![t].pc = "make"]
    BY <1>3 DEF PostByHand, Pick, TInv, TypeOK
  <2> DEFINE g == [f EXCEPT !.account = a, !.pc = "make"]
  <2>2. thread' = [thread EXCEPT ![t] = g]
    BY <1>0, <2>1
  <2>3. g \in ThreadFrame /\ g.pc = "make" /\ g.account = a
    BY <1>0 DEF ThreadFrame, ThreadLabels
  <2>4. ~Post(t) /\ ~Check(t)
    BY <1>3 DEF Check, Post, PostByHand, Pick
  <2> HIDE DEF g
  <2>5. Good(g)
    BY <2>2, <2>3, <2>4 DEF FrameOK, Holding
  <2> QED BY <2>5
<1>4. CASE Make(t) /\ ~Finish(t)
  <2> DEFINE n == Len(entries) + 1
             g == [f EXCEPT !.entry = n, !.pc = "check"]
  <2>1. /\ thread' = [thread EXCEPT ![t] = g] /\ entries' = Append(entries, f.account)
        /\ f.pc = "make"
    BY <1>0, <1>4 DEF Make
  <2>0. n \in Nat /\ f.account \in Accounts
    BY <1>0, <2>1 DEF TInv, TypeOK, FrameOK
  <2>2. /\ g \in ThreadFrame /\ g.pc = "check" /\ g.account = f.account /\ g.balance = f.balance
        /\ g.entry = n
    BY <1>0, <2>0, <2>1 DEF ThreadFrame, ThreadLabels
  <2>3. n \in DOMAIN entries' /\ entries'[n] = f.account /\ entries' # entries
    BY <2>0, <2>1 DEF TInv, TypeOK
  <2>4. ~Check(t) /\ ~Post(t) /\ ~Read(t)
    BY <2>1 DEF Check, Post, Read
  <2> HIDE DEF g, n
  <2>5. Good(g)
    BY <1>4, <2>0, <2>1, <2>2, <2>3, <2>4 DEF FrameOK, Holding, n
  <2> QED BY <2>5
<1>5. CASE Read(t) /\ ~Finish(t)
  <2> DEFINE b == BalanceAfter(f.entry)
             l == AfterRead(t)
             g == [f EXCEPT !.balance = b, !.pc = l]
  <2>1. thread' = [thread EXCEPT ![t] = g] /\ f.pc = "read" /\ entries' = entries
    BY <1>0, <1>5 DEF Read, ledger
  <2>2. b \in Nat /\ l \in {"count", "record"}
    BY BalanceType DEF AfterRead
  <2> HIDE DEF b, l
  <2>3. /\ g \in ThreadFrame /\ g.pc = l /\ g.account = f.account /\ g.balance = b
        /\ g.entry = f.entry
    BY <1>0, <2>2 DEF ThreadFrame, ThreadLabels
  <2>4. ~Check(t) /\ ~Post(t)
    BY <2>1 DEF Check, Post
  <2> HIDE DEF g
  <2>5. Good(g)
    BY <1>0, <1>5, <2>1, <2>2, <2>3, <2>4 DEF FrameOK, Holding, Unwritten, b
  <2> QED BY <2>5
<1>6. CASE Record(t)
  BY <1>1, <1>6 DEF Record
<1> QED BY <1>1, <1>2, <1>3, <1>4, <1>5, <1>6 DEF Ticks

(* The events and records a step of a thread adds. *)
LEMMA TickRecords ==
  ASSUME TInv, NEW t \in Threads, Ticks(t) \/ (t \in Posters /\ PostByHand(t))
  PROVE  /\ events' \in Seq(Events)
         /\ recorded' \in Seq([entry : Nat, by : Threads])
         /\ \A i \in DOMAIN recorded' : recorded'[i].entry \in DOMAIN entries
         /\ seq' \in Nat /\ generated' \in Nat
<1>0. thread[t] \in ThreadFrame /\ FrameOK(thread[t], entries) /\ seq \in Nat /\ generated \in Nat
  BY DEF TInv, TypeOK, ThreadFrame
<1>1. CASE Record(t)
  <2> DEFINE f == thread[t]
             e == [seq |-> seq + 1, entry |-> f.entry, account |-> f.account, balance |-> f.balance]
             r == [entry |-> f.entry, by |-> t]
  <2>1. /\ f.entry \in Nat /\ f.account \in Accounts /\ f.balance \in Nat
        /\ f.entry \in DOMAIN entries
    BY <1>0, <1>1 DEF Record, ThreadFrame, FrameOK, Holding
  <2>2. e \in Events /\ r \in [entry : Nat, by : Threads]
    BY <1>0, <2>1 DEF Events
  <2>3. events' = Pushed(events, e) /\ recorded' = Append(recorded, r) /\ r.entry = f.entry
        /\ seq' = seq + 1 /\ generated' = generated
    BY <1>1 DEF Record
  <2> HIDE DEF e, r
  <2>4. events' \in Seq(Events)
    BY <2>2, <2>3, PushedFeed DEF TInv, TypeOK
  <2>5. recorded \in Seq([entry : Nat, by : Threads])
    BY DEF TInv
  <2>6. /\ recorded' \in Seq([entry : Nat, by : Threads])
        /\ \A i \in DOMAIN recorded' : recorded'[i] = r \/ (i \in DOMAIN recorded /\ recorded'[i] = recorded[i])
    <3>1. /\ Append(recorded, r) \in Seq([entry : Nat, by : Threads])
          /\ Len(Append(recorded, r)) = Len(recorded) + 1
          /\ \A i \in 1..Len(recorded) : Append(recorded, r)[i] = recorded[i]
          /\ Append(recorded, r)[Len(recorded) + 1] = r
      BY <2>2, <2>5, AppendProperties
    <3>2. Len(recorded) \in Nat
      BY <2>5
    <3>3. DOMAIN recorded' = 1..(Len(recorded) + 1) /\ DOMAIN recorded = 1..Len(recorded)
      BY <2>3, <2>5, <3>1
    <3>4. ASSUME NEW i \in DOMAIN recorded'
          PROVE  recorded'[i] = r \/ (i \in DOMAIN recorded /\ recorded'[i] = recorded[i])
      <4>1. i \in 1..Len(recorded) \/ i = Len(recorded) + 1
        BY <3>2, <3>3
      <4> QED BY <2>3, <3>1, <3>3, <4>1
    <3> QED BY <2>3, <3>1, <3>4
  <2> QED BY <1>0, <2>1, <2>3, <2>4, <2>6 DEF TInv
<1>2. CASE ~Record(t)
  <2>1. UNCHANGED feed /\ generated' \in {generated, generated + 1}
    BY <1>2 DEF Ticks, PostByHand, Pick, Make, Check, Post, Read, Count
  <2> QED BY <1>0, <2>1 DEF feed, TInv, TypeOK
<1> QED BY <1>1, <1>2

LEMMA TickTyped ==
  ASSUME TInv, NEW t \in Threads, Ticks(t) \/ (t \in Posters /\ PostByHand(t))
  PROVE  TInv'
<1>1. PICK g \in ThreadFrame : FrameOK(g, entries') /\ thread' = [thread EXCEPT ![t] = g]
  BY ThreadSteps
<1>2. /\ entries' \in Seq(Accounts) /\ DOMAIN entries \subseteq DOMAIN entries'
      /\ \A e \in DOMAIN entries : entries'[e] = entries[e]
  BY EntriesGrow
<1>3. /\ thread' \in [Threads -> ThreadFrame] /\ \A x \in Threads : FrameOK(thread'[x], entries')
  BY <1>1, <1>2 DEF TInv, TypeOK, FrameOK, ThreadFrame
<1>4. UNCHANGED <<open, control, runner>>
  BY DEF Ticks, PostByHand, Pick, Make, Check, Post, Read, Count, Record, ledger
<1>5. journal' \subseteq DOMAIN entries'
  <2>1. CASE journal' = journal
    BY <1>2, <2>1 DEF TInv, TypeOK
  <2>2. CASE journal' # journal
    <3>1. Post(t) /\ journal' = journal \union {thread[t].entry} /\ thread[t].pc = "post"
      BY <2>2 DEF Ticks, PostByHand, Pick, Make, Check, Post, Read, Count, Record, ledger
    <3>2. thread[t].entry \in DOMAIN entries
      BY <3>1 DEF TInv, FrameOK, Holding
    <3> QED BY <1>2, <3>1, <3>2 DEF TInv, TypeOK
  <2> QED BY <2>1, <2>2
<1>6. \A x \in Threads : thread'[x].pc \in {"none", "pick"} \/ thread'[x].account \in Accounts
  BY <1>3 DEF FrameOK
<1>7. /\ events' \in Seq(Events) /\ recorded' \in Seq([entry : Nat, by : Threads])
      /\ \A i \in DOMAIN recorded' : recorded'[i].entry \in DOMAIN entries'
      /\ seq' \in Nat /\ generated' \in Nat
  BY <1>2, TickRecords
<1> QED BY <1>2, <1>3, <1>4, <1>5, <1>6, <1>7 DEF TInv, TypeOK, ThreadFrame, control

(* What the event loop and the requests do to a task and its thread. *)
LEMMA LoopTyped ==
  ASSUME TInv,
         \/ \E c \in Controllers : Start(c) \/ Stop(c)
         \/ EventLoop
         \/ \E b \in Banks : DeleteBank(b)
  PROVE  TInv'
<1>0. /\ runner \in [Runners -> [pc : RunnerLabels, cancelled : BOOLEAN]]
      /\ thread \in [Threads -> ThreadFrame] /\ \A t \in Threads : FrameOK(thread[t], entries)
  BY DEF TInv, TypeOK, ThreadFrame
<1>1. CASE \E c \in Controllers : Start(c)
  <2>1. PICK c \in Controllers : Start(c)
    BY <1>1
  <2>2. targets' \subseteq Accounts /\ running' \in BOOLEAN
    BY <2>1 DEF Start, TInv, TypeOK
  <2>3. /\ current' \in Runners \union {None}
        /\ runner' \in [Runners -> [pc : RunnerLabels, cancelled : BOOLEAN]]
    <3>1. CASE UNCHANGED <<current, runner>>
      BY <3>1 DEF TInv, TypeOK
    <3>2. CASE CreateTask
      BY <1>0, <3>2 DEF CreateTask, Unborn, RunnerLabels
    <3> QED BY <2>1, <3>1, <3>2 DEF Start
  <2> QED BY <2>1, <2>2, <2>3 DEF Start, Command, ledger, feed, TInv, TypeOK
<1>2. CASE \E c \in Controllers : Stop(c)
  <2>1. PICK c \in Controllers : Stop(c)
    BY <1>2
  <2>2. runner' \in [Runners -> [pc : RunnerLabels, cancelled : BOOLEAN]]
    BY <1>0, <2>1 DEF Stop
  <2>3. awaiting' \in [Controllers -> Runners \union {None}]
    BY <2>1 DEF Stop, TInv, TypeOK
  <2> QED BY <2>1, <2>2, <2>3 DEF Stop, Command, ledger, feed, TInv, TypeOK
<1>3. CASE \E c \in Controllers : StopReturns(c)
  BY <1>3 DEF StopReturns, ledger, feed, TInv, TypeOK
<1>4. ASSUME NEW r \in Runners, Cancelled(r) \/ LoopHead(r) \/ Wake(r) PROVE TInv'
  <2>1. /\ runner' \in [Runners -> [pc : RunnerLabels, cancelled : BOOLEAN]]
        /\ UNCHANGED <<ledger, control, feed, generated>>
    BY <1>0, <1>4 DEF Cancelled, LoopHead, Wake, RunnerLabels
  <2>2. /\ thread' \in [Threads -> ThreadFrame]
        /\ \A t \in Threads : FrameOK(thread'[t], entries)
    <3>1. CASE thread' = thread
      BY <1>0, <3>1
    <3>2. CASE thread' = [thread EXCEPT ![r].pc = "pick"]
      <4> DEFINE g == [thread[r] EXCEPT !.pc = "pick"]
      <4>1. r \in Threads /\ g \in ThreadFrame /\ g.pc = "pick"
        BY <1>0 DEF Threads, ThreadFrame, ThreadLabels
      <4>2. thread' = [thread EXCEPT ![r] = g]
        BY <1>0, <3>2
      <4> HIDE DEF g
      <4> QED BY <1>0, <4>1, <4>2 DEF FrameOK, Holding
    <3> QED BY <1>4, <3>1, <3>2 DEF Cancelled, LoopHead, Wake
  <2>3. \A t \in Threads : thread'[t].pc \in {"none", "pick"} \/ thread'[t].account \in Accounts
    BY <2>2 DEF FrameOK
  <2> QED BY <2>1, <2>2, <2>3 DEF ledger, control, feed, TInv, TypeOK, ThreadFrame
<1>5. CASE \E b \in Banks : DeleteBank(b)
  BY <1>5 DEF DeleteBank, control, feed, TInv, TypeOK
<1> QED BY <1>1, <1>2, <1>3, <1>4, <1>5 DEF EventLoop

LEMMA InitTyped == Init => TInv
<1> SUFFICES ASSUME Init PROVE TInv
  OBVIOUS
<1>1. thread \in [Threads -> ThreadFrame] /\ \A t \in Threads : thread[t] = Idle
  BY IdleType DEF Init
<1>2. /\ entries \in Seq(Accounts) /\ events \in Seq(Events)
      /\ recorded \in Seq([entry : Nat, by : Threads]) /\ DOMAIN recorded = {}
  BY DEF Init
<1>3. runner \in [Runners -> [pc : RunnerLabels, cancelled : BOOLEAN]]
  BY DEF Init, RunnerLabels
<1>4. \A t \in Threads : thread[t].pc = "none"
  BY <1>1 DEF Idle
<1> QED BY <1>1, <1>2, <1>3, <1>4, IdleType DEF Init, TInv, TypeOK, ThreadFrame

LEMMA NextTyped == TInv /\ [Next]_vars => TInv'
<1> SUFFICES ASSUME TInv, [Next]_vars PROVE TInv'
  OBVIOUS
<1>1. CASE UNCHANGED vars
  BY <1>1 DEF vars, TInv, TypeOK
<1>2. Posters \subseteq Threads
  BY DEF Threads
<1> QED BY <1>1, <1>2, TickTyped, LoopTyped DEF Next

-----------------------------------------------------------------------------
(* One loop *)

Alive ==
  {r \in Runners : runner[r].pc \in {"fresh", "sleeping", "ticking"} /\ ~runner[r].cancelled}

(* The simulator keeps a task exactly while it runs; the tasks still to be *)
(* created have not been cancelled, so that a start adds one that is not   *)
(* on its way out; and a task that is not ticking has no tick in a thread: *)
(* without that a task could wake over a tick of its own.                  *)
LoopInv ==
  /\ running <=> current # None
  /\ OneRunner
  /\ \A r \in Runners : runner[r].pc = "none" => ~runner[r].cancelled
  /\ \A r \in Runners : runner[r].pc \in {"none", "fresh", "sleeping"} => thread[r].pc = "none"

LEMMA TicksLoop ==
  ASSUME TInv, LoopInv, NEW t \in Threads, Ticks(t) \/ (t \in Posters /\ PostByHand(t))
  PROVE  LoopInv'
<1>1. UNCHANGED <<running, current, runner>>
  BY DEF Ticks, PostByHand, Pick, Make, Check, Post, Read, Count, Record, control
<1>2. PICK g : thread' = [thread EXCEPT ![t] = g]
  BY ThreadSteps
<1>3. ASSUME NEW r \in Runners, runner[r].pc \in {"none", "fresh", "sleeping"}
      PROVE  thread'[r].pc = "none"
  <2>1. thread[r].pc = "none" /\ r \in Threads
    BY <1>3 DEF LoopInv, Threads
  <2>2. r # t
    BY <2>1, SimulationAssumption DEF Ticks, PostByHand, Pick, Make, Check, Post, Read, Count, Record
  <2> QED BY <1>2, <2>1, <2>2 DEF TInv, TypeOK
<1> QED BY <1>1, <1>3 DEF LoopInv, OneRunner

LEMMA CommandsLoop ==
  ASSUME TInv, LoopInv, NEW c \in Controllers, Start(c) \/ Stop(c) PROVE LoopInv'
<1>0. /\ runner \in [Runners -> [pc : RunnerLabels, cancelled : BOOLEAN]] /\ thread' = thread
      /\ None \notin Runners /\ current \in Runners \union {None}
      /\ Alive = IF running THEN {current} ELSE {}
  BY SimulationAssumption DEF TInv, TypeOK, Start, Stop, Threads, LoopInv, OneRunner, Alive
<1>1. CASE Start(c) /\ running
  BY <1>1 DEF Start, LoopInv, OneRunner
<1>2. CASE Start(c) /\ ~running
  <2>1. PICK r \in Unborn : runner' = [runner EXCEPT ![r].pc = "fresh"] /\ current' = r
    BY <1>2 DEF Start, CreateTask
  <2>2. running' = TRUE
    BY <1>2 DEF Start
  <2>3. /\ r \in Runners /\ runner[r].pc = "none" /\ ~runner[r].cancelled
        /\ runner'[r].pc = "fresh" /\ ~runner'[r].cancelled
        /\ \A x \in Runners \ {r} : runner'[x] = runner[x]
    BY <1>0, <2>1 DEF Unborn, LoopInv
  <2>4. Alive' = {r}
    BY <1>0, <1>2, <2>3 DEF Alive
  <2>5. OneRunner'
    BY <2>1, <2>2, <2>4 DEF OneRunner, Alive
  <2>6. running' <=> current' # None
    BY <1>0, <2>1, <2>2, <2>3
  <2>7. \A x \in Runners : runner'[x].pc = "none" => ~runner'[x].cancelled
    BY <2>3 DEF LoopInv
  <2>8. \A x \in Runners : runner'[x].pc \in {"none", "fresh", "sleeping"} => thread'[x].pc = "none"
    BY <1>0, <2>3 DEF LoopInv
  <2> QED BY <2>5, <2>6, <2>7, <2>8 DEF LoopInv
<1>3. CASE Stop(c)
  <2>1. running' = FALSE /\ current' = None
    BY <1>3 DEF Stop
  <2>2. CASE current = None
    <3>1. runner' = runner /\ ~running
      BY <1>3, <2>2 DEF Stop, LoopInv
    <3> QED BY <1>0, <2>1, <3>1 DEF LoopInv, OneRunner, Alive
  <2>3. CASE current # None
    <3>1. runner' = [runner EXCEPT ![current].cancelled = TRUE] /\ running /\ current \in Runners
      BY <1>0, <1>3, <2>3 DEF Stop, LoopInv
    <3>2. /\ runner'[current].cancelled /\ runner'[current].pc = runner[current].pc
          /\ \A x \in Runners \ {current} : runner'[x] = runner[x]
      BY <1>0, <3>1
    <3>3. Alive' = {}
      BY <1>0, <3>1, <3>2 DEF Alive
    <3>4. current \in Alive
      BY <1>0, <3>1
    <3>5. \A x \in Runners : runner'[x].pc = "none" => ~runner'[x].cancelled
      BY <3>2, <3>4 DEF LoopInv, Alive
    <3>6. \A x \in Runners : runner'[x].pc = runner[x].pc
      BY <3>2
    <3> QED BY <1>0, <2>1, <3>3, <3>5, <3>6 DEF LoopInv, OneRunner, Alive
  <2> QED BY <2>2, <2>3
<1> QED BY <1>1, <1>2, <1>3

LEMMA RunsLoop ==
  ASSUME TInv, LoopInv, NEW r \in Runners, Cancelled(r) \/ LoopHead(r) \/ Wake(r)
  PROVE  LoopInv'
<1>0. /\ runner \in [Runners -> [pc : RunnerLabels, cancelled : BOOLEAN]]
      /\ UNCHANGED <<running, current>> /\ r \in Threads
      /\ thread \in [Threads -> ThreadFrame] /\ Runners \subseteq Threads
      /\ Alive = IF running THEN {current} ELSE {}
  BY DEF TInv, TypeOK, ThreadFrame, Cancelled, LoopHead, Wake, control, Threads, LoopInv,
         OneRunner, Alive
<1>1. ASSUME NEW l \in {"sleeping", "ticking", "ended"}, runner' = [runner EXCEPT ![r].pc = l],
             l # "ended" => running /\ r \in Alive,
             l = "ended" => r \notin Alive
      PROVE  /\ OneRunner'
             /\ \A x \in Runners : runner'[x].pc = "none" => ~runner'[x].cancelled
  <2>1. /\ runner'[r].pc = l /\ runner'[r].cancelled = runner[r].cancelled
        /\ \A x \in Runners \ {r} : runner'[x] = runner[x]
    BY <1>0, <1>1
  <2>2. Alive' = Alive
    BY <1>1, <2>1 DEF Alive
  <2>3. \A x \in Runners : runner'[x].pc = "none" => ~runner'[x].cancelled
    BY <1>1, <2>1 DEF LoopInv
  <2> QED BY <1>0, <2>2, <2>3 DEF OneRunner, Alive
<1>2. CASE Cancelled(r)
  <2>1. runner' = [runner EXCEPT ![r].pc = "ended"] /\ r \notin Alive /\ thread' = thread
    BY <1>2 DEF Cancelled, Alive
  <2>2. \A x \in Runners : runner'[x].pc \in {"none", "fresh", "sleeping"} => runner'[x] = runner[x]
    BY <1>0, <2>1
  <2> QED BY <1>0, <1>1, <2>1, <2>2 DEF LoopInv
<1>3. CASE LoopHead(r)
  <2>1. r \in Alive
    BY <1>3 DEF LoopHead, Alive
  <2>2. running
    BY <1>0, <2>1
  <2>3. runner' = [runner EXCEPT ![r].pc = "sleeping"] /\ thread' = thread
    BY <1>3, <2>2 DEF LoopHead
  <2>4. thread[r].pc = "none"
    BY <1>3 DEF LoopHead, LoopInv
  <2>5. \A x \in Runners : x # r => runner'[x] = runner[x]
    BY <1>0, <2>3
  <2> QED BY <1>0, <1>1, <2>1, <2>2, <2>3, <2>4, <2>5 DEF LoopInv
<1>4. CASE Wake(r)
  <2>1. r \in Alive
    BY <1>4 DEF Wake, Alive
  <2>2. running
    BY <1>0, <2>1
  <2>3. runner' = [runner EXCEPT ![r].pc = "ticking"] /\ thread' = [thread EXCEPT ![r].pc = "pick"]
    BY <1>4, <2>2 DEF Wake
  <2>4. /\ \A x \in Runners : x # r => runner'[x] = runner[x] /\ thread'[x] = thread[x]
        /\ runner'[r].pc = "ticking"
    BY <1>0, <2>3
  <2>5. \A x \in Runners : runner'[x].pc \in {"none", "fresh", "sleeping"} => thread'[x].pc = "none"
    BY <2>4 DEF LoopInv
  <2>6. OneRunner' /\ \A x \in Runners : runner'[x].pc = "none" => ~runner'[x].cancelled
    BY <1>1, <2>1, <2>2, <2>3
  <2> QED BY <1>0, <2>5, <2>6 DEF LoopInv
<1> QED BY <1>2, <1>3, <1>4

LEMMA NextLoop == TInv /\ LoopInv /\ [Next]_vars => LoopInv'
<1> SUFFICES ASSUME TInv, LoopInv, [Next]_vars PROVE LoopInv'
  OBVIOUS
<1>1. CASE UNCHANGED vars
  BY <1>1 DEF vars, LoopInv, OneRunner
<1>2. CASE (\E c \in Controllers : StopReturns(c)) \/ (\E b \in Banks : DeleteBank(b))
  BY <1>2 DEF StopReturns, DeleteBank, control, LoopInv, OneRunner
<1>3. Posters \subseteq Threads
  BY DEF Threads
<1> QED BY <1>1, <1>2, <1>3, TicksLoop, CommandsLoop, RunsLoop DEF Next, EventLoop

LEMMA TypesHold == Spec => [](TInv /\ LoopInv)
<1>1. Init => LoopInv
  <2> SUFFICES ASSUME Init PROVE LoopInv
    OBVIOUS
  <2>1. \A r \in Runners : runner[r] = [pc |-> "none", cancelled |-> FALSE] /\ thread[r] = Idle
    BY DEF Init, Threads
  <2> QED BY <2>1 DEF Init, LoopInv, OneRunner, Idle
<1> QED BY <1>1, InitTyped, NextTyped, NextLoop, PTL DEF Spec

(* Variables are of their types, and a thread past its first step has an   *)
(* account.                                                                *)
THEOREM TypeCorrect == Spec => []TypeOK
<1>1. TInv => TypeOK
  BY DEF TInv
<1> QED BY <1>1, TypesHold, PTL

(* However starts and stops follow each other and meet ticks under way, at *)
(* most one task is not on its way out, and there is one exactly when the  *)
(* simulator says it runs.                                                 *)
THEOREM OneLoop == Spec => []OneRunner
<1>1. LoopInv => OneRunner
  BY DEF LoopInv
<1> QED BY <1>1, TypesHold, PTL

-----------------------------------------------------------------------------
(* Entries *)

(* What a thread holds is its own and has not been recorded; what has been *)
(* recorded has been once; what is in the journal is recorded or held, or  *)
(* it belongs to an account that is gone: then no thread gets past reading *)
(* the history with it.                                                    *)
EntryInv ==
  /\ \A t \in Threads : thread[t].pc \in Holding =>
       /\ thread[t].entry \in DOMAIN entries
       /\ entries[thread[t].entry] = thread[t].account
       /\ \A i \in DOMAIN recorded : recorded[i].entry # thread[t].entry
       /\ thread[t].pc \in Unwritten => thread[t].entry \notin journal
       /\ thread[t].pc \in {"count", "record"} /\ thread[t].account \notin open
            => thread[t].entry \notin journal
  /\ \A t, u \in Threads :
       thread[t].pc \in Holding /\ thread[u].pc \in Holding /\ thread[t].entry = thread[u].entry
         => t = u
  /\ \A i \in DOMAIN recorded : recorded[i].entry \in DOMAIN entries
  /\ \A i, j \in DOMAIN recorded : recorded[i].entry = recorded[j].entry => i = j
  /\ \A e \in journal :
       IF entries[e] \in open
       THEN \/ \E i \in DOMAIN recorded : recorded[i].entry = e
            \/ \E t \in Threads : thread[t].pc \in Holding /\ thread[t].entry = e
       ELSE \A i \in DOMAIN recorded : recorded[i].entry # e

LEMMA TicksEntries ==
  ASSUME TInv, EntryInv, NEW t \in Threads, Ticks(t) \/ (t \in Posters /\ PostByHand(t))
  PROVE  EntryInv'
<1> DEFINE f == thread[t]
<1>1. PICK g \in ThreadFrame :
        /\ FrameOK(g, entries') /\ thread' = [thread EXCEPT ![t] = g]
        /\ g.pc \in Holding => \/ /\ f.pc \in Holding /\ g.entry = f.entry /\ g.account = f.account
                                  /\ g.pc \in Unwritten => Check(t)
                               \/ /\ g.entry = Len(entries) + 1 /\ g.pc = "check"
                                  /\ Make(t) /\ entries' # entries
        /\ Post(t) => g.pc = "read"
        /\ ~Finish(t) /\ Check(t) => g.pc = "post"
  BY ThreadSteps
<1>2. /\ thread'[t] = g /\ \A x \in Threads : x # t => thread'[x] = thread[x]
      /\ FrameOK(f, entries)
  BY <1>1 DEF TInv, TypeOK
<1>3. /\ DOMAIN entries \subseteq DOMAIN entries'
      /\ \A e \in DOMAIN entries : entries'[e] = entries[e]
      /\ entries' # entries =>
           /\ Make(t) /\ DOMAIN entries' = DOMAIN entries \union {Len(entries) + 1}
           /\ Len(entries) + 1 \notin DOMAIN entries
  BY EntriesGrow
<1>4. open' = open /\ journal \subseteq DOMAIN entries
  BY DEF Ticks, PostByHand, Pick, Make, Check, Post, Read, Count, Record, ledger, TInv, TypeOK
<1>5. \A x \in Threads : thread'[x].pc \in Holding =>
        /\ thread'[x].entry \in DOMAIN entries'
        /\ entries'[thread'[x].entry] = thread'[x].account
  <2>1. TInv'
    BY TickTyped
  <2> QED BY <2>1 DEF TInv, FrameOK
<1>6. CASE Record(t)
  <2> DEFINE r == [entry |-> f.entry, by |-> t]
  <2>1. /\ recorded' = Append(recorded, r) /\ r.entry = f.entry /\ f.pc = "record"
        /\ Finish(t) /\ journal' = journal /\ entries' = entries
    BY <1>6 DEF Record, ledger
  <2>2. g.pc \notin Holding
    BY <1>2, <2>1 DEF Finish, Idle, Holding, TInv, TypeOK
  <2>3. f.pc \in Holding /\ f.entry \in DOMAIN entries
    BY <1>2, <2>1 DEF FrameOK, Holding
  <2> HIDE DEF r
  <2>4. /\ DOMAIN recorded' = DOMAIN recorded \union {Len(recorded) + 1}
        /\ Len(recorded) + 1 \notin DOMAIN recorded
        /\ \A i \in DOMAIN recorded : recorded'[i] = recorded[i]
        /\ recorded'[Len(recorded) + 1] = r
    <3> DEFINE T == [entry : Nat, by : Threads]
    <3>1. recorded \in Seq(T) /\ r \in T
      BY <2>1, <2>3 DEF TInv, r, TypeOK
    <3>2. Len(recorded) \in Nat /\ DOMAIN recorded = 1..Len(recorded)
      BY <3>1
    <3>3. /\ Append(recorded, r) \in Seq(T)
          /\ Len(Append(recorded, r)) = Len(recorded) + 1
          /\ \A i \in 1..Len(recorded) : Append(recorded, r)[i] = recorded[i]
          /\ Append(recorded, r)[Len(recorded) + 1] = r
      BY <3>1, AppendProperties
    <3> HIDE DEF T
    <3>4. DOMAIN recorded' = 1..(Len(recorded) + 1)
      BY <2>1, <3>3
    <3> QED BY <2>1, <3>2, <3>3, <3>4
  <2>5. \A x \in Threads : thread'[x].pc \in Holding =>
          x # t /\ thread'[x] = thread[x] /\ thread[x].entry # f.entry
    BY <1>2, <2>2, <2>3 DEF EntryInv
  <2>6. \A i \in DOMAIN recorded : recorded'[i].entry # f.entry
    BY <2>3, <2>4 DEF EntryInv
  <2>7. \A x \in Threads : thread'[x].pc \in Holding =>
          /\ \A i \in DOMAIN recorded' : recorded'[i].entry # thread'[x].entry
          /\ thread'[x].pc \in Unwritten => thread'[x].entry \notin journal'
          /\ thread'[x].pc \in {"count", "record"} /\ thread'[x].account \notin open'
               => thread'[x].entry \notin journal'
    BY <1>4, <2>1, <2>4, <2>5 DEF EntryInv
  <2>8. \A x, u \in Threads :
          thread'[x].pc \in Holding /\ thread'[u].pc \in Holding
            /\ thread'[x].entry = thread'[u].entry => x = u
    BY <2>5 DEF EntryInv
  <2>9. \A i \in DOMAIN recorded' : recorded'[i].entry \in DOMAIN entries'
    BY <2>1, <2>3, <2>4 DEF EntryInv
  <2>10. \A i, j \in DOMAIN recorded' : recorded'[i].entry = recorded'[j].entry => i = j
    BY <2>1, <2>4, <2>6 DEF EntryInv
  <2>11. ASSUME NEW e \in journal'
         PROVE  IF entries'[e] \in open'
                THEN \/ \E i \in DOMAIN recorded' : recorded'[i].entry = e
                     \/ \E x \in Threads : thread'[x].pc \in Holding /\ thread'[x].entry = e
                ELSE \A i \in DOMAIN recorded' : recorded'[i].entry # e
    <3>1. e \in journal /\ entries'[e] = entries[e] /\ open' = open
      BY <1>4, <2>1
    <3>2. CASE e = f.entry
      <4>1. entries[e] \in open
        BY <1>2, <2>1, <2>3, <3>1, <3>2 DEF EntryInv, FrameOK
      <4> QED BY <2>1, <2>4, <3>1, <3>2, <4>1
    <3>3. CASE e # f.entry /\ entries[e] \in open
      <4>1. \/ \E i \in DOMAIN recorded : recorded[i].entry = e
            \/ \E x \in Threads : thread[x].pc \in Holding /\ thread[x].entry = e
        BY <3>1, <3>3 DEF EntryInv
      <4>2. CASE \E i \in DOMAIN recorded : recorded[i].entry = e
        BY <2>4, <3>1, <3>3, <4>2
      <4>3. ASSUME NEW x \in Threads, thread[x].pc \in Holding, thread[x].entry = e
            PROVE  thread'[x].pc \in Holding /\ thread'[x].entry = e
        BY <1>2, <3>3, <4>3
      <4> QED BY <3>1, <3>3, <4>1, <4>2, <4>3
    <3>4. CASE e # f.entry /\ entries[e] \notin open
      <4>1. \A i \in DOMAIN recorded : recorded[i].entry # e
        BY <3>1, <3>4 DEF EntryInv
      <4> QED BY <2>1, <2>4, <3>1, <3>4, <4>1
    <3> QED BY <3>2, <3>3, <3>4
  <2> QED BY <1>5, <2>7, <2>8, <2>9, <2>10, <2>11 DEF EntryInv
<1>7. CASE ~Record(t) /\ entries' # entries
  <2> DEFINE n == Len(entries) + 1
  <2>1. /\ Make(t) /\ DOMAIN entries' = DOMAIN entries \union {n} /\ n \notin DOMAIN entries
        /\ f.pc \notin Holding /\ recorded' = recorded /\ journal' = journal
    BY <1>3, <1>7 DEF Make, feed, Holding
  <2> HIDE DEF n
  <2>2. g.pc \in Holding => g.entry = n /\ g.pc = "check"
    BY <1>1, <2>1 DEF n
  <2>3. \A x \in Threads : x # t /\ thread'[x].pc \in Holding =>
          thread'[x] = thread[x] /\ thread[x].entry # n
    BY <1>2, <2>1 DEF EntryInv
  <2>4. \A x \in Threads : thread'[x].pc \in Holding =>
          /\ \A i \in DOMAIN recorded' : recorded'[i].entry # thread'[x].entry
          /\ thread'[x].pc \in Unwritten => thread'[x].entry \notin journal'
          /\ thread'[x].pc \in {"count", "record"} /\ thread'[x].account \notin open'
               => thread'[x].entry \notin journal'
    <3> SUFFICES ASSUME NEW x \in Threads, thread'[x].pc \in Holding
                 PROVE  /\ \A i \in DOMAIN recorded' : recorded'[i].entry # thread'[x].entry
                        /\ thread'[x].pc \in Unwritten => thread'[x].entry \notin journal'
                        /\ thread'[x].pc \in {"count", "record"} /\ thread'[x].account \notin open'
                             => thread'[x].entry \notin journal'
      OBVIOUS
    <3>1. CASE x = t
      BY <1>2, <1>4, <2>1, <2>2, <3>1 DEF EntryInv
    <3>2. CASE x # t
      BY <1>4, <2>1, <2>3, <3>2 DEF EntryInv
    <3> QED BY <3>1, <3>2
  <2>5. \A x, u \in Threads :
          thread'[x].pc \in Holding /\ thread'[u].pc \in Holding
            /\ thread'[x].entry = thread'[u].entry => x = u
    BY <1>2, <2>2, <2>3 DEF EntryInv
  <2>6. \A x \in Threads : thread[x].pc \in Holding => thread'[x] = thread[x]
    BY <1>2, <2>1
  <2>7. ASSUME NEW e \in journal'
        PROVE  IF entries'[e] \in open'
               THEN \/ \E i \in DOMAIN recorded' : recorded'[i].entry = e
                    \/ \E x \in Threads : thread'[x].pc \in Holding /\ thread'[x].entry = e
               ELSE \A i \in DOMAIN recorded' : recorded'[i].entry # e
    <3>1. e \in journal /\ entries'[e] = entries[e] /\ open' = open
      BY <1>3, <1>4, <2>1
    <3>2. IF entries[e] \in open
          THEN \/ \E i \in DOMAIN recorded : recorded[i].entry = e
               \/ \E x \in Threads : thread[x].pc \in Holding /\ thread[x].entry = e
          ELSE \A i \in DOMAIN recorded : recorded[i].entry # e
      BY <3>1 DEF EntryInv
    <3> QED BY <2>1, <2>6, <3>1, <3>2
  <2> QED BY <1>3, <1>5, <2>1, <2>4, <2>5, <2>7 DEF EntryInv
<1>8. CASE ~Record(t) /\ entries' = entries
  <2>0. thread \in [Threads -> ThreadFrame]
    BY DEF TInv, TypeOK, ThreadFrame
  <2>1. /\ recorded' = recorded
        /\ g.pc \in Holding => /\ f.pc \in Holding /\ g.entry = f.entry /\ g.account = f.account
                               /\ g.pc \in Unwritten => Check(t)
    BY <1>1, <1>8 DEF Ticks, PostByHand, Pick, Make, Check, Post, Read, Count, feed
  <2>2. \/ journal' = journal /\ ~Post(t)
        \/ f.pc = "post" /\ journal' = journal \union {f.entry} /\ g.pc = "read"
    <3>1. CASE Post(t)
      BY <1>1, <3>1 DEF Post
    <3>2. CASE ~Post(t)
      BY <1>8, <3>2 DEF Ticks, PostByHand, Pick, Make, Check, Read, Count, ledger
    <3> QED BY <3>1, <3>2
  <2>e. \A e \in journal :
          IF entries[e] \in open
          THEN \/ \E i \in DOMAIN recorded : recorded[i].entry = e
               \/ \E x \in Threads : thread[x].pc \in Holding /\ thread[x].entry = e
          ELSE \A i \in DOMAIN recorded : recorded[i].entry # e
    BY DEF EntryInv
  <2>3. CASE f.pc \in Holding /\ g.pc \notin Holding
    <3>1. f.account \notin open
      <4>1. SUFFICES ASSUME f.account \in open PROVE FALSE
        OBVIOUS
      <4>2. CASE Check(t)
        <5>1. g.pc = "post"
          BY <1>2, <2>0, <4>1, <4>2 DEF Check, Step, ThreadFrame
        <5> QED BY <2>3, <5>1 DEF Holding
      <4>3. CASE Read(t)
        <5>1. thread' = [thread EXCEPT ![t].balance = BalanceAfter(f.entry), ![t].pc = AfterRead(t)]
          BY <4>1, <4>3 DEF Read
        <5>2. g.pc = AfterRead(t)
          BY <1>2, <2>0, <5>1 DEF ThreadFrame
        <5> QED BY <2>3, <5>2 DEF AfterRead, Holding
      <4>4. CASE Count(t)
        <5>1. g.pc = "record"
          BY <1>2, <2>0, <4>4 DEF Count, Step, ThreadFrame
        <5> QED BY <2>3, <5>1 DEF Holding
      <4>5. CASE Post(t)
        BY <1>1, <2>3, <4>5 DEF Holding
      <4> QED BY <1>8, <2>3, <4>2, <4>3, <4>4, <4>5 DEF Ticks, PostByHand, Pick, Make, Holding
    <3>2. journal' = journal /\ entries[f.entry] \notin open
      BY <1>2, <2>2, <2>3, <3>1 DEF FrameOK, Holding
    <3>3. \A x \in Threads : thread'[x].pc \in Holding => x # t /\ thread'[x] = thread[x]
      BY <1>2, <2>3
    <3>4. ASSUME NEW e \in journal'
          PROVE  IF entries'[e] \in open'
                 THEN \/ \E i \in DOMAIN recorded' : recorded'[i].entry = e
                      \/ \E x \in Threads : thread'[x].pc \in Holding /\ thread'[x].entry = e
                 ELSE \A i \in DOMAIN recorded' : recorded'[i].entry # e
      <4>1. entries[e] \in open =>
              \A x \in Threads : thread[x].pc \in Holding /\ thread[x].entry = e =>
                thread'[x] = thread[x]
        BY <1>2, <3>2
      <4> QED BY <1>4, <1>8, <2>1, <2>e, <3>2, <4>1
    <3>5. \A x \in Threads : thread'[x].pc \in Holding =>
            /\ \A i \in DOMAIN recorded' : recorded'[i].entry # thread'[x].entry
            /\ thread'[x].pc \in Unwritten => thread'[x].entry \notin journal'
            /\ thread'[x].pc \in {"count", "record"} /\ thread'[x].account \notin open'
                 => thread'[x].entry \notin journal'
      BY <1>4, <2>1, <3>2, <3>3 DEF EntryInv
    <3>6. \A x, u \in Threads :
            thread'[x].pc \in Holding /\ thread'[u].pc \in Holding
              /\ thread'[x].entry = thread'[u].entry => x = u
      BY <3>3 DEF EntryInv
    <3> QED BY <1>5, <1>8, <2>1, <3>4, <3>5, <3>6 DEF EntryInv
  <2>4. CASE f.pc \in Holding => g.pc \in Holding
    <3>1. \A x \in Threads :
            /\ thread'[x].pc \in Holding <=> thread[x].pc \in Holding
            /\ thread'[x].pc \in Holding => thread'[x].entry = thread[x].entry
                                            /\ thread'[x].account = thread[x].account
      BY <1>2, <2>1, <2>4
    <3>2. ASSUME NEW x \in Threads, thread'[x].pc \in Unwritten
          PROVE  thread'[x].entry \notin journal'
      <4>1. thread'[x].pc \in Holding /\ thread[x].pc \in Holding
        BY <3>1, <3>2 DEF Unwritten, Holding
      <4>2. CASE x = t
        <5>1. Check(t) /\ f.pc \in Unwritten
          BY <1>2, <2>1, <3>2, <4>1, <4>2 DEF Check, Unwritten
        <5>2. journal' = journal /\ f.entry \notin journal
          BY <4>1, <4>2, <5>1 DEF Check, ledger, EntryInv
        <5> QED BY <3>1, <4>1, <4>2, <5>2
      <4>3. CASE x # t
        <5>1. thread'[x] = thread[x] /\ thread[x].entry \notin journal
          BY <1>2, <3>2, <4>1, <4>3 DEF EntryInv
        <5>2. f.pc = "post" => f.entry # thread[x].entry
          BY <4>1, <4>3 DEF EntryInv, Holding
        <5> QED BY <2>2, <5>1, <5>2
      <4> QED BY <4>2, <4>3
    <3>3. ASSUME NEW x \in Threads, thread'[x].pc \in {"count", "record"},
                 thread'[x].account \notin open'
          PROVE  thread'[x].entry \notin journal'
      <4>1. thread'[x].pc \in Holding /\ thread[x].pc \in Holding
        BY <3>1, <3>3 DEF Holding
      <4>2. CASE x = t
        <5>1. thread[x].account \notin open /\ g.pc \in {"count", "record"}
          BY <1>2, <1>4, <3>1, <3>3, <4>1, <4>2
        <5>2. ~Read(t) /\ ~Post(t) /\ ~Check(t)
          <6>1. ~Read(t)
            <7> SUFFICES ASSUME Read(t) PROVE FALSE
              OBVIOUS
            <7>1. Finish(t)
              BY <4>2, <5>1 DEF Read
            <7> QED BY <1>2, <2>0, <5>1, <7>1 DEF Finish, Idle
          <6>2. ~Check(t)
            <7> SUFFICES ASSUME Check(t) PROVE FALSE
              OBVIOUS
            <7>1. Finish(t)
              BY <4>2, <5>1 DEF Check
            <7> QED BY <1>2, <2>0, <5>1, <7>1 DEF Finish, Idle
          <6> QED BY <1>1, <5>1, <6>1, <6>2
        <5>3. Count(t)
          BY <1>8, <4>1, <4>2, <5>2 DEF Ticks, PostByHand, Pick, Make, Holding
        <5>4. f.pc = "count" /\ journal' = journal
          BY <5>3 DEF Count, ledger
        <5> QED BY <3>1, <4>1, <4>2, <5>1, <5>4 DEF EntryInv
      <4>3. CASE x # t
        <5>1. thread'[x] = thread[x] /\ thread[x].entry \notin journal
          BY <1>2, <1>4, <3>3, <4>1, <4>3 DEF EntryInv
        <5>2. f.pc = "post" => f.entry # thread[x].entry
          BY <4>1, <4>3 DEF EntryInv, Holding
        <5> QED BY <2>2, <5>1, <5>2
      <4> QED BY <4>2, <4>3
    <3>4. ASSUME NEW e \in journal'
          PROVE  IF entries'[e] \in open'
                 THEN \/ \E i \in DOMAIN recorded' : recorded'[i].entry = e
                      \/ \E x \in Threads : thread'[x].pc \in Holding /\ thread'[x].entry = e
                 ELSE \A i \in DOMAIN recorded' : recorded'[i].entry # e
      <4>1. CASE e \in journal
        BY <1>4, <1>8, <2>1, <2>e, <3>1, <4>1
      <4>2. CASE e \notin journal
        <5>1. e = f.entry /\ f.pc = "post" /\ g.pc = "read" /\ thread[t].pc \in Holding
          BY <2>2, <4>2 DEF Holding
        <5>2. thread'[t].pc \in Holding /\ thread'[t].entry = e
          BY <3>1, <5>1
        <5>3. \A i \in DOMAIN recorded' : recorded'[i].entry # e
          BY <2>1, <5>1 DEF EntryInv
        <5> QED BY <5>2, <5>3
      <4> QED BY <4>1, <4>2
    <3>5. \A x \in Threads : thread'[x].pc \in Holding =>
            \A i \in DOMAIN recorded' : recorded'[i].entry # thread'[x].entry
      BY <2>1, <3>1 DEF EntryInv
    <3>6. \A x, u \in Threads :
            thread'[x].pc \in Holding /\ thread'[u].pc \in Holding
              /\ thread'[x].entry = thread'[u].entry => x = u
      BY <3>1 DEF EntryInv
    <3> QED BY <1>5, <1>8, <2>1, <3>2, <3>3, <3>4, <3>5, <3>6 DEF EntryInv
  <2> QED BY <2>3, <2>4
<1> QED BY <1>6, <1>7, <1>8

LEMMA LoopEntries ==
  ASSUME TInv, LoopInv, EntryInv,
         \/ \E c \in Controllers : Start(c) \/ Stop(c)
         \/ EventLoop
         \/ \E b \in Banks : DeleteBank(b)
  PROVE  EntryInv'
<1>1. CASE UNCHANGED <<thread, entries, recorded, journal, open>>
  BY <1>1 DEF EntryInv
<1>2. CASE \E r \in Runners : Wake(r)
  <2>1. PICK r \in Runners : Wake(r)
    BY <1>2
  <2>2. r \in Threads /\ thread[r].pc = "none" /\ UNCHANGED <<entries, recorded, journal, open>>
    BY <2>1 DEF Wake, LoopInv, ledger, feed, Threads
  <2>3. \A x \in Threads : thread'[x] = thread[x] \/ (x = r /\ thread'[x].pc \notin Holding)
    BY <2>1, <2>2 DEF Wake, TInv, TypeOK, Holding
  <2>4. \A x \in Threads :
          /\ thread'[x].pc \in Holding <=> thread[x].pc \in Holding
          /\ thread'[x].pc \in Holding => thread'[x] = thread[x]
    BY <2>2, <2>3 DEF Holding
  <2>5. \A x \in Threads :
          thread'[x].pc \in Unwritten \union {"count", "record"} => thread'[x] = thread[x]
    BY <2>4 DEF Holding, Unwritten
  <2> QED BY <2>2, <2>4, <2>5 DEF EntryInv
<1>3. CASE \E b \in Banks : DeleteBank(b)
  BY <1>3 DEF DeleteBank, feed, EntryInv
<1> QED BY <1>1, <1>2, <1>3 DEF EventLoop, Start, Stop, StopReturns, Cancelled, LoopHead, ledger, feed

LEMMA EntriesHold == Spec => [](TInv /\ LoopInv /\ EntryInv)
<1>1. Init => EntryInv
  <2> SUFFICES ASSUME Init PROVE EntryInv
    OBVIOUS
  <2>1. \A t \in Threads : thread[t].pc \notin Holding
    BY DEF Init, Idle, Holding
  <2>2. DOMAIN recorded = {} /\ journal = {}
    BY DEF Init
  <2> QED BY <2>1, <2>2 DEF EntryInv
<1>2. TInv /\ LoopInv /\ EntryInv /\ [Next]_vars => EntryInv'
  <2> SUFFICES ASSUME TInv, LoopInv, EntryInv, [Next]_vars PROVE EntryInv'
    OBVIOUS
  <2>1. CASE UNCHANGED vars
    BY <2>1 DEF vars, EntryInv
  <2>2. Posters \subseteq Threads
    BY DEF Threads
  <2> QED BY <2>1, <2>2, TicksEntries, LoopEntries DEF Next
<1> QED BY <1>1, <1>2, TypesHold, PTL DEF Spec

(* Between transactions every entry of an account that is there has been   *)
(* recorded once, and one that was inserted after its bank was deleted not *)
(* at all, whether a tick or a request booked it.                          *)
THEOREM EntriesAreRecorded == Spec => []EveryEntryRecorded
<1>1. ASSUME EntryInv PROVE EveryEntryRecorded
  <2> SUFFICES ASSUME AtRest, NEW e \in journal
               PROVE  Cardinality({i \in DOMAIN recorded : recorded[i].entry = e})
                        = IF entries[e] \in open THEN 1 ELSE 0
    BY DEF EveryEntryRecorded
  <2>1. CASE entries[e] \in open
    <3>1. PICK i \in DOMAIN recorded : recorded[i].entry = e
      BY <1>1, <2>1 DEF AtRest, EntryInv, Holding
    <3>2. {j \in DOMAIN recorded : recorded[j].entry = e} = {i}
      BY <1>1, <3>1 DEF EntryInv
    <3> QED BY <2>1, <3>2, FS_Singleton
  <2>2. CASE entries[e] \notin open
    <3>1. {j \in DOMAIN recorded : recorded[j].entry = e} = {}
      BY <1>1, <2>2 DEF EntryInv
    <3> QED BY <2>2, <3>1, FS_EmptySet
  <2> QED BY <2>1, <2>2
<1> QED BY <1>1, EntriesHold, PTL

-----------------------------------------------------------------------------
(* Balances *)

(* The threads that may still write an entry of the account of e that was  *)
(* made before it.                                                         *)
Earlier(e) ==
  {t \in Threads : /\ thread[t].pc \in Unwritten /\ thread[t].account = entries[e]
                   /\ thread[t].entry < e}

(* How far a balance b that was read for an entry e may be from the one    *)
(* the history has, and how far it may still get: what others held when it *)
(* was read is either written by now or still held.                        *)
Near(e, b) ==
  e \in journal =>
    /\ b <= BalanceAfter(e)
    /\ BalanceAfter(e) + Cardinality(Earlier(e)) <= b + Cardinality(Threads) - 1

(* The same of given entries, journal and threads. *)
NearIn(e, b, es, j, th) ==
  LET balance == Cardinality({x \in {y \in j : es[y] = es[e]} : x <= e})
      earlier == Cardinality({t \in Threads : /\ th[t].pc \in Unwritten /\ th[t].account = es[e]
                                              /\ th[t].entry < e})
  IN  e \in j => b <= balance /\ balance + earlier <= b + Cardinality(Threads) - 1

BalanceInv ==
  /\ \A i \in DOMAIN events : events[i].entry \in DOMAIN entries /\ Near(events[i].entry, events[i].balance)
  /\ \A i \in DOMAIN events : \E j \in DOMAIN recorded : recorded[j].entry = events[i].entry
  /\ \A t \in Threads : thread[t].pc \in {"count", "record"} => Near(thread[t].entry, thread[t].balance)

LEMMA InitBalance == Init => BalanceInv
<1> SUFFICES ASSUME Init PROVE BalanceInv
  OBVIOUS
<1>1. \A t \in Threads : thread[t].pc = "none"
  BY DEF Init, Idle
<1>2. DOMAIN events = {}
  BY DEF Init
<1> QED BY <1>1, <1>2 DEF BalanceInv

(* A balance stays near when no entry before e is written or deleted, and  *)
(* none is made that is still to be written.                               *)
LEMMA NearKept ==
  ASSUME IsFiniteSet(Threads), TInv, NEW e \in journal, NEW b \in Nat, Near(e, b),
         journal' \subseteq DOMAIN entries,
         \A x \in DOMAIN entries : entries'[x] = entries[x],
         \A x \in DOMAIN entries :
           entries[x] = entries[e] /\ x <= e => (x \in journal <=> x \in journal'),
         Earlier(e)' \subseteq Earlier(e)
  PROVE  Near(e, b)'
<1>0. journal \subseteq DOMAIN entries
  BY DEF TInv, TypeOK
<1> DEFINE S == {x \in {y \in journal : entries[y] = entries[e]} : x <= e}
           R == {x \in {y \in journal' : entries'[y] = entries'[e]} : x <= e}
<1>1. R = S
  BY <1>0
<1>2. BalanceAfter(e) = Cardinality(S) /\ BalanceAfter(e)' = Cardinality(R)
  BY DEF BalanceAfter, EntriesOf
<1> HIDE DEF S, R
<1>3. BalanceAfter(e)' = BalanceAfter(e)
  BY <1>1, <1>2
<1>4. IsFiniteSet(Earlier(e))
  BY FS_Subset DEF Earlier
<1>5. /\ Cardinality(Earlier(e)') <= Cardinality(Earlier(e))
      /\ Cardinality(Earlier(e)') \in Nat /\ Cardinality(Earlier(e)) \in Nat
  BY <1>4, FS_Subset, FS_CardinalityType
<1>6. Cardinality(Threads) \in Nat /\ BalanceAfter(e) \in Nat
  BY FS_CardinalityType, BalanceType
<1> DEFINE k == Cardinality(Earlier(e))
           l == Cardinality(Earlier(e)')
<1>7. k = Cardinality(Earlier(e)) /\ l = Cardinality(Earlier(e)')
  OBVIOUS
<1>8. /\ b <= BalanceAfter(e)
      /\ BalanceAfter(e) + k <= b + Cardinality(Threads) - 1
  BY DEF Near
<1> HIDE DEF k, l
<1>9. BalanceAfter(e)' + l <= b + Cardinality(Threads) - 1
  BY <1>3, <1>5, <1>6, <1>7, <1>8
<1> QED BY <1>3, <1>7, <1>8, <1>9 DEF Near

(* A thread's step keeps near what was near, but for the entry the thread  *)
(* is about to write.                                                      *)
LEMMA TickKeepsNear ==
  ASSUME IsFiniteSet(Threads), TInv, EntryInv,
         NEW t \in Threads, Ticks(t) \/ (t \in Posters /\ PostByHand(t)),
         NEW e \in DOMAIN entries, NEW b \in Nat, Near(e, b),
         ~(thread[t].pc = "post" /\ thread[t].entry = e)
  PROVE  Near(e, b)'
<1> DEFINE f == thread[t]
<1>1. PICK g \in ThreadFrame :
        /\ thread' = [thread EXCEPT ![t] = g]
        /\ g.pc \in Unwritten => \/ g.entry = Len(entries) + 1
                                 \/ /\ thread[t].pc \in Unwritten /\ g.entry = thread[t].entry
                                    /\ g.account = thread[t].account
        /\ Post(t) => g.pc = "read"
  BY ThreadSteps DEF Holding, Unwritten, Check
<1>2. /\ thread'[t] = g /\ \A x \in Threads : x # t => thread'[x] = thread[x]
      /\ FrameOK(f, entries) /\ entries \in Seq(Accounts)
  BY <1>1 DEF TInv, TypeOK
<1>3. \A x \in DOMAIN entries : entries'[x] = entries[x]
  BY EntriesGrow
<1>4. journal \subseteq DOMAIN entries
  BY DEF TInv, TypeOK
<1>5. ~(Len(entries) + 1 < e)
  BY <1>2
<1>6. Earlier(e)' \subseteq Earlier(e)
  BY <1>1, <1>2, <1>3, <1>5 DEF Earlier
<1> SUFFICES ASSUME e \in journal' PROVE Near(e, b)'
  BY DEF Near
<1>7. CASE journal' = journal
  BY <1>3, <1>4, <1>6, <1>7, NearKept
<1>8. CASE journal' # journal
  <2> DEFINE n == f.entry
  <2>1. f.pc = "post" /\ journal' = journal \union {n} /\ Post(t)
    BY <1>8 DEF Ticks, PostByHand, Pick, Make, Check, Post, Read, Count, Record, ledger
  <2>2. n \in DOMAIN entries /\ entries[n] = f.account /\ n \notin journal /\ n # e
    BY <1>2, <2>1 DEF FrameOK, Holding, Unwritten, EntryInv
  <2>3. e \in journal
    BY <2>1, <2>2
  <2>4. CASE ~(entries[n] = entries[e] /\ n < e)
    <3>1. \A x \in DOMAIN entries :
            entries[x] = entries[e] /\ x <= e => (x \in journal <=> x \in journal')
      BY <1>2, <2>1, <2>2, <2>4
    <3>2. journal' \subseteq DOMAIN entries
      BY <1>4, <2>1, <2>2
    <3> QED BY <1>3, <1>6, <2>3, <3>1, <3>2, NearKept
  <2>5. CASE entries[n] = entries[e] /\ n < e
    <3> DEFINE S == {x \in {y \in journal : entries[y] = entries[e]} : x <= e}
               R == {x \in {y \in journal' : entries'[y] = entries'[e]} : x <= e}
               E == Earlier(e)
               F == Earlier(e)'
    <3>1. n <= e
      BY <1>2, <2>2, <2>5
    <3>2. R = S \union {n} /\ n \notin S
      BY <1>3, <1>4, <2>1, <2>2, <2>5, <3>1
    <3>3. BalanceAfter(e) = Cardinality(S) /\ BalanceAfter(e)' = Cardinality(R)
      BY DEF BalanceAfter, EntriesOf
    <3>4. IsFiniteSet(S)
      <4>1. Len(entries) \in Nat /\ S \in SUBSET (1..Len(entries))
        BY <1>2, <1>4
      <4>2. IsFiniteSet(1..Len(entries))
        BY <4>1, FS_Interval
      <4> HIDE DEF S
      <4> QED BY <4>1, <4>2, FS_Subset
    <3>5. t \in E /\ t \notin F
      <4>1. t \in E
        BY <2>1, <2>2, <2>5 DEF Earlier, Unwritten
      <4>2. thread \in [Threads -> ThreadFrame]
        BY DEF TInv, TypeOK, ThreadFrame
      <4>3. thread'[t].pc = "read"
        <5>1. Step(t, "read")
          BY <2>1 DEF Post
        <5> QED BY <4>2, <5>1 DEF Step, ThreadFrame
      <4> QED BY <4>1, <4>3 DEF Earlier, Unwritten
    <3>6. F \subseteq E \ {t}
      BY <1>6, <3>5
    <3>7. IsFiniteSet(E)
      BY FS_Subset DEF Earlier
    <3> HIDE DEF S, R, E, F
    <3>8. /\ Cardinality(R) = Cardinality(S) + 1 /\ Cardinality(S) \in Nat
      BY <3>2, <3>4, FS_AddElement, FS_CardinalityType
    <3>9. /\ Cardinality(E \ {t}) = Cardinality(E) - 1 /\ IsFiniteSet(E \ {t})
      BY <3>5, <3>7, FS_RemoveElement
    <3>10. /\ Cardinality(F) <= Cardinality(E \ {t}) /\ Cardinality(F) \in Nat
           /\ Cardinality(E) \in Nat
      BY <3>6, <3>7, <3>9, FS_Subset, FS_CardinalityType
    <3>11. Cardinality(Threads) \in Nat
      BY FS_CardinalityType
    <3>12. /\ b <= Cardinality(S)
           /\ Cardinality(S) + Cardinality(E) <= b + Cardinality(Threads) - 1
      BY <2>3, <3>3 DEF Near, E
    <3>13. /\ b <= Cardinality(R)
           /\ Cardinality(R) + Cardinality(F) <= b + Cardinality(Threads) - 1
      BY <3>8, <3>9, <3>10, <3>11, <3>12
    <3> QED BY <3>3, <3>13 DEF Near, F
  <2> QED BY <2>4, <2>5
<1> QED BY <1>7, <1>8

(* What a thread has just read is near: all others may still hold entries  *)
(* made before, the thread itself does not.                                *)
LEMMA ReadIsNear ==
  ASSUME IsFiniteSet(Threads), TInv, NEW t \in Threads, Read(t), thread'[t].pc \notin Unwritten,
         NEW e, e = thread[t].entry, NEW b, b = BalanceAfter(e)
  PROVE  Near(e, b)'
<1>1. UNCHANGED <<journal, entries>>
  BY DEF Read, ledger
<1>2. BalanceAfter(e)' = b /\ b \in Nat
  BY <1>1, BalanceType DEF BalanceAfter, EntriesOf
<1>3. Earlier(e)' \subseteq Threads \ {t}
  BY DEF Earlier
<1>4. /\ Cardinality(Threads \ {t}) = Cardinality(Threads) - 1 /\ IsFiniteSet(Threads \ {t})
  BY FS_RemoveElement
<1>5. /\ Cardinality(Earlier(e)') <= Cardinality(Threads \ {t})
      /\ Cardinality(Earlier(e)') \in Nat /\ Cardinality(Threads) \in Nat
  BY <1>3, <1>4, FS_Subset, FS_CardinalityType
<1> DEFINE l == Cardinality(Earlier(e)')
<1>6. l = Cardinality(Earlier(e)')
  OBVIOUS
<1> HIDE DEF l
<1>7. b <= b /\ b + l <= b + Cardinality(Threads) - 1
  BY <1>2, <1>4, <1>5, <1>6
<1> QED BY <1>2, <1>6, <1>7 DEF Near

LEMMA TicksBalance ==
  ASSUME IsFiniteSet(Threads), TInv, EntryInv, BalanceInv,
         NEW t \in Threads, Ticks(t) \/ (t \in Posters /\ PostByHand(t))
  PROVE  BalanceInv'
<1> DEFINE f == thread[t]
           Fresh(e) == ~(f.pc = "post" /\ f.entry = e)
           After(e, b) == NearIn(e, b, entries', journal', thread')
<1>1. PICK g \in ThreadFrame :
        /\ thread' = [thread EXCEPT ![t] = g]
        /\ g.pc \in Holding => \/ f.pc \in Holding /\ g.entry = f.entry
                               \/ g.pc = "check"
        /\ Read(t) /\ g.pc \in {"count", "record"} => g.balance = BalanceAfter(f.entry)
        /\ ~Read(t) /\ g.pc \in Holding => g.balance = f.balance
        /\ Post(t) => g.pc = "read"
        /\ ~Finish(t) /\ Check(t) => g.pc = "post"
  BY ThreadSteps DEF Holding
<1>2. /\ thread'[t] = g /\ \A x \in Threads : x # t => thread'[x] = thread[x]
      /\ thread \in [Threads -> ThreadFrame] /\ FrameOK(f, entries)
  BY <1>1 DEF TInv, TypeOK, ThreadFrame
<1>3. DOMAIN entries \subseteq DOMAIN entries'
  BY EntriesGrow
<1>4. \A e \in DOMAIN entries, b \in Nat : Near(e, b) /\ Fresh(e) => After(e, b)
  <2> TAKE e \in DOMAIN entries, b \in Nat
  <2>1. Near(e, b) /\ Fresh(e) => Near(e, b)'
    BY TickKeepsNear
  <2> QED BY <2>1 DEF Near, NearIn, BalanceAfter, EntriesOf, Earlier
<1>5. \A i \in DOMAIN recorded : Fresh(recorded[i].entry)
  BY DEF EntryInv, Holding
<1>6. \A i \in DOMAIN events :
        /\ events[i].balance \in Nat
        /\ events[i].entry \in DOMAIN entries' /\ After(events[i].entry, events[i].balance)
        /\ \E j \in DOMAIN recorded : recorded[j].entry = events[i].entry
  <2> TAKE i \in DOMAIN events
  <2>1. events[i].balance \in Nat
    <3>1. events \in Seq(Events)
      BY DEF TInv, TypeOK
    <3>2. events[i] \in Events
      BY <3>1
    <3> QED BY <3>2 DEF Events
  <2>2. PICK j \in DOMAIN recorded : recorded[j].entry = events[i].entry
    BY DEF BalanceInv
  <2>3. events[i].entry \in DOMAIN entries /\ Near(events[i].entry, events[i].balance)
    BY DEF BalanceInv
  <2>4. Fresh(events[i].entry)
    BY <1>5, <2>2
  <2> HIDE DEF Fresh, After
  <2> QED BY <1>3, <1>4, <2>1, <2>2, <2>3, <2>4
<1>7. /\ \A i \in DOMAIN events' :
           events'[i].entry \in DOMAIN entries' /\ After(events'[i].entry, events'[i].balance)
      /\ \A i \in DOMAIN events' : \E j \in DOMAIN recorded' : recorded'[j].entry = events'[i].entry
  <2>1. CASE ~Record(t)
    <3>1. events' = events /\ recorded' = recorded
      BY <2>1 DEF Ticks, PostByHand, Pick, Make, Check, Post, Read, Count, feed
    <3> QED BY <1>6, <3>1
  <2>2. CASE Record(t)
    <3> DEFINE v == [seq |-> seq + 1, entry |-> f.entry, account |-> f.account,
                     balance |-> f.balance]
               r == [entry |-> f.entry, by |-> t]
               T == [entry : Nat, by : Threads]
    <3>1. f.pc = "record" /\ events' = Pushed(events, v) /\ recorded' = Append(recorded, r)
      BY <2>2 DEF Record
    <3>2. f.entry \in DOMAIN entries /\ f.account \in Accounts /\ f.entry \in Nat /\ f.balance \in Nat
      BY <1>2, <3>1 DEF FrameOK, Holding, ThreadFrame
    <3>3. v \in Events /\ r \in T /\ recorded \in Seq(T) /\ events \in Seq(Events)
      BY <3>2 DEF Events, TInv, TypeOK
    <3>4. v.entry = f.entry /\ v.balance = f.balance /\ r.entry = f.entry
      OBVIOUS
    <3>5. After(f.entry, f.balance)
      <4>1. Near(f.entry, f.balance)
        BY <3>1 DEF BalanceInv
      <4>2. Fresh(f.entry)
        BY <3>1
      <4> HIDE DEF Fresh, After
      <4> QED BY <1>4, <3>2, <4>1, <4>2
    <3> HIDE DEF v, r, T, After
    <3>6. \A i \in DOMAIN events' :
            events'[i] = v \/ \E k \in DOMAIN events : events'[i] = events[k]
      BY <3>1, <3>3, PushedFeed
    <3>7. /\ Len(recorded) + 1 \in DOMAIN recorded' /\ recorded'[Len(recorded) + 1] = r
          /\ \A j \in DOMAIN recorded : j \in DOMAIN recorded' /\ recorded'[j] = recorded[j]
      <4>1. Len(recorded) \in Nat /\ DOMAIN recorded = 1..Len(recorded)
        BY <3>3
      <4>2. /\ Append(recorded, r) \in Seq(T)
            /\ Len(Append(recorded, r)) = Len(recorded) + 1
            /\ \A i \in 1..Len(recorded) : Append(recorded, r)[i] = recorded[i]
            /\ Append(recorded, r)[Len(recorded) + 1] = r
        BY <3>3, AppendProperties
      <4>3. DOMAIN recorded' = 1..(Len(recorded) + 1)
        BY <3>1, <4>2
      <4> QED BY <3>1, <4>1, <4>2, <4>3
    <3>8. ASSUME NEW i \in DOMAIN events'
          PROVE  /\ events'[i].entry \in DOMAIN entries'
                 /\ After(events'[i].entry, events'[i].balance)
                 /\ \E j \in DOMAIN recorded' : recorded'[j].entry = events'[i].entry
      <4>1. CASE events'[i] = v
        BY <1>3, <3>2, <3>4, <3>5, <3>7, <4>1
      <4>2. ASSUME NEW k \in DOMAIN events, events'[i] = events[k]
            PROVE  /\ events'[i].entry \in DOMAIN entries'
                   /\ After(events'[i].entry, events'[i].balance)
                   /\ \E j \in DOMAIN recorded' : recorded'[j].entry = events'[i].entry
        BY <1>6, <3>7, <4>2
      <4> QED BY <3>6, <4>1, <4>2
    <3> QED BY <3>8
  <2> QED BY <2>1, <2>2
<1>8. ASSUME NEW x \in Threads, thread'[x].pc \in {"count", "record"}
      PROVE  After(thread'[x].entry, thread'[x].balance)
  <2>1. CASE x # t
    <3> DEFINE e == thread[x].entry
               b == thread[x].balance
    <3>1. thread'[x] = thread[x]
      BY <1>2, <2>1
    <3>2. thread[x].pc \in {"count", "record"}
      BY <1>8, <3>1
    <3>3. e \in DOMAIN entries /\ b \in Nat
      BY <1>2, <3>2 DEF EntryInv, Holding, ThreadFrame
    <3>4. Near(e, b)
      BY <3>2 DEF BalanceInv
    <3>5. Fresh(e)
      BY <2>1, <3>2 DEF EntryInv, Holding
    <3> HIDE DEF Fresh, After
    <3>6. After(e, b)
      BY <1>4, <3>3, <3>4, <3>5
    <3> QED BY <3>1, <3>6
  <2>2. CASE x = t /\ Read(t)
    <3>1. g.pc \in {"count", "record"} /\ g.entry = f.entry /\ g.balance = BalanceAfter(f.entry)
      BY <1>1, <1>2, <1>8, <2>2 DEF Holding
    <3>2. thread'[t].pc \notin Unwritten
      BY <1>2, <3>1 DEF Unwritten
    <3>3. After(f.entry, BalanceAfter(f.entry))
      <4>1. PICK e, b : e = f.entry /\ b = BalanceAfter(f.entry)
        OBVIOUS
      <4>2. Near(e, b)'
        BY <2>2, <3>2, <4>1, ReadIsNear
      <4> QED BY <4>1, <4>2 DEF Near, NearIn, BalanceAfter, EntriesOf, Earlier
    <3> QED BY <1>2, <2>2, <3>1, <3>3
  <2>3. CASE x = t /\ ~Read(t)
    <3>1. g.pc \in {"count", "record"} /\ f.pc \in Holding /\ g.entry = f.entry /\ g.balance = f.balance
      BY <1>1, <1>2, <1>8, <2>3 DEF Holding
    <3>2. ~Finish(t)
      BY <1>2, <3>1 DEF Finish, Idle
    <3>3. f.pc \in {"count", "record"}
      BY <1>1, <2>3, <3>1, <3>2 DEF Ticks, PostByHand, Pick, Make, Check, Post, Count, Record, Holding
    <3>4. f.entry \in DOMAIN entries /\ f.balance \in Nat
      BY <1>2, <3>1 DEF FrameOK, ThreadFrame
    <3>5. Near(f.entry, f.balance)
      BY <3>3 DEF BalanceInv
    <3>6. Fresh(f.entry)
      BY <3>3
    <3> HIDE DEF Fresh, After
    <3>7. After(f.entry, f.balance)
      BY <1>4, <3>4, <3>5, <3>6
    <3> QED BY <1>2, <2>3, <3>1, <3>7
  <2> QED BY <2>1, <2>2, <2>3
<1> QED BY <1>7, <1>8 DEF BalanceInv, Near, NearIn, BalanceAfter, EntriesOf, Earlier

LEMMA LoopBalance ==
  ASSUME IsFiniteSet(Threads), TInv, LoopInv, BalanceInv,
         \/ \E c \in Controllers : Start(c) \/ Stop(c)
         \/ EventLoop
         \/ \E b \in Banks : DeleteBank(b)
  PROVE  BalanceInv'
<1>1. CASE UNCHANGED <<thread, entries, journal, events, recorded>>
  BY <1>1 DEF BalanceInv, Near, BalanceAfter, EntriesOf, Earlier
<1>2. CASE \/ \E r \in Runners : Wake(r)
           \/ \E b \in Banks : DeleteBank(b)
  <2>1. /\ UNCHANGED <<entries, events, recorded>>
        /\ \A x \in Threads :
             \/ thread'[x] = thread[x]
             \/ thread'[x].pc = "pick"
        /\ journal' \subseteq journal
        /\ \A x, y \in journal : entries[x] = entries[y] /\ y \in journal' => x \in journal'
    <3>1. CASE \E b \in Banks : DeleteBank(b)
      BY <3>1 DEF DeleteBank, feed
    <3>2. ASSUME NEW r \in Runners, Wake(r)
          PROVE  \A x \in Threads : thread'[x] = thread[x] \/ thread'[x].pc = "pick"
      <4>1. r \in Threads /\ thread \in [Threads -> ThreadFrame]
        BY DEF Threads, TInv, TypeOK, ThreadFrame
      <4>2. thread' = thread \/ thread' = [thread EXCEPT ![r].pc = "pick"]
        BY <3>2 DEF Wake
      <4> QED BY <4>1, <4>2 DEF ThreadFrame
    <3> QED BY <1>2, <3>1, <3>2 DEF Wake, ledger, feed
  <2>2. ASSUME NEW e \in DOMAIN entries, NEW b \in Nat, Near(e, b)
        PROVE  NearIn(e, b, entries', journal', thread')
    <3>1. CASE e \notin journal'
      BY <3>1 DEF NearIn
    <3>2. CASE e \in journal'
      <4>1. e \in journal /\ journal \subseteq DOMAIN entries
        BY <2>1, <3>2 DEF TInv, TypeOK
      <4>2. Earlier(e)' \subseteq Earlier(e)
        BY <2>1 DEF Earlier, Unwritten
      <4>3. \A x \in DOMAIN entries :
              entries[x] = entries[e] /\ x <= e => (x \in journal <=> x \in journal')
        BY <2>1, <3>2, <4>1
      <4>4. Near(e, b)'
        BY <2>1, <2>2, <4>1, <4>2, <4>3, NearKept
      <4> QED BY <4>4 DEF Near, NearIn, BalanceAfter, EntriesOf, Earlier
    <3> QED BY <3>1, <3>2
  <2>3. ASSUME NEW i \in DOMAIN events
        PROVE  NearIn(events[i].entry, events[i].balance, entries', journal', thread')
    <3>1. events \in Seq(Events)
      BY DEF TInv, TypeOK
    <3>2. events[i] \in Events
      BY <3>1
    <3>3. events[i].balance \in Nat
      BY <3>2 DEF Events
    <3> QED BY <2>2, <3>3 DEF BalanceInv
  <2>4. ASSUME NEW x \in Threads, thread'[x].pc \in {"count", "record"}
        PROVE  NearIn(thread'[x].entry, thread'[x].balance, entries', journal', thread')
    <3>1. thread'[x] = thread[x] /\ thread[x].pc \in {"count", "record"}
      BY <2>1, <2>4
    <3>2. /\ thread[x].balance \in Nat /\ thread[x].entry \in DOMAIN entries
          /\ Near(thread[x].entry, thread[x].balance)
      BY <3>1 DEF TInv, TypeOK, FrameOK, Holding, BalanceInv
    <3> QED BY <2>2, <3>1, <3>2
  <2> QED BY <2>1, <2>3, <2>4 DEF BalanceInv, Near, NearIn, BalanceAfter, EntriesOf, Earlier
<1> QED BY <1>1, <1>2 DEF EventLoop, Start, Stop, StopReturns, Cancelled, LoopHead, ledger, feed

(* A balance in the feed differs from the history's by no more than the    *)
(* entries other threads can have had in hand when it was read, between    *)
(* transactions and in fact at any time.                                   *)
THEOREM BalancesStayNear == IsFiniteSet(Threads) /\ Spec => []BalancesNearlyAgree
<1> SUFFICES ASSUME IsFiniteSet(Threads) PROVE Spec => []BalancesNearlyAgree
  OBVIOUS
<1>1. ASSUME TInv, BalanceInv PROVE BalancesNearlyAgree
  <2> SUFFICES ASSUME NEW i \in DOMAIN events, events[i].entry \in journal
               PROVE  BalanceAfter(events[i].entry) - events[i].balance
                        \in 0 .. Cardinality(Threads) - 1
    BY DEF BalancesNearlyAgree
  <2> DEFINE e == events[i].entry
             b == events[i].balance
             k == Cardinality(Earlier(e))
             l == BalanceAfter(e)
             m == Cardinality(Threads)
  <2>1. b \in Nat
    <3>1. events \in Seq(Events)
      BY <1>1 DEF TInv, TypeOK
    <3>2. events[i] \in Events
      BY <3>1
    <3> QED BY <3>2 DEF Events
  <2>2. IsFiniteSet(Earlier(e))
    BY <1>1, FS_Subset DEF Earlier
  <2>3. k \in Nat /\ l \in Nat /\ m \in Nat
    BY <1>1, <2>2, FS_CardinalityType, BalanceType
  <2>4. b <= l /\ l + k <= b + m - 1
    BY <1>1 DEF BalanceInv, Near
  <2> HIDE DEF b, k, l, m
  <2>5. l - b \in 0 .. m - 1
    BY <2>1, <2>3, <2>4
  <2> QED BY <2>5 DEF b, l, m
<1>2. TInv /\ LoopInv /\ EntryInv /\ BalanceInv /\ [Next]_vars => BalanceInv'
  <2> SUFFICES ASSUME TInv, LoopInv, EntryInv, BalanceInv, [Next]_vars
               PROVE  BalanceInv'
    OBVIOUS
  <2>1. CASE UNCHANGED vars
    BY <2>1 DEF vars, BalanceInv, Near, BalanceAfter, EntriesOf, Earlier
  <2>2. Posters \subseteq Threads
    BY DEF Threads
  <2> QED BY <2>1, <2>2, TicksBalance, LoopBalance DEF Next
<1> QED BY <1>1, <1>2, InitBalance, EntriesHold, PTL DEF Spec

(***************************************************************************)
(* The people of a bank: Population, whose constants and variables are     *)
(* declared anew where their names are taken.  Its operators, and those    *)
(* of History below, are named through an instance, and what they assume   *)
(* of their constants is a hypothesis of the theorems.                     *)
(***************************************************************************)
CONSTANTS
  Personas, Supported, Names, Batches, ManualEmails, GivenUsernames, MaxRestarts,
  Workers, Nothing, MaxRequests   \* also those of History

VARIABLES
  bank, customers, accounts, logins, issued, work, batches, registered, raised, served, restarts

P == INSTANCE Population WITH None <- Nothing, exists <- bank, frame <- work

Id(k, i) == batches[k].first + i - 1

AccountOf(k, i, n) == [customer |-> Id(k, i), nr |-> n, type |-> batches[k].rows[i].types[n]]

(* The i-th customer of the k-th batch is in the tables with its accounts; *)
(* or nothing of it is.                                                    *)
Stored(k, i) ==
  /\ Id(k, i) \in DOMAIN customers
  /\ customers[Id(k, i)].email = batches[k].rows[i].email
  /\ customers[Id(k, i)].persona = batches[k].rows[i].persona
  /\ {a \in accounts : a.customer = Id(k, i)} =
     {AccountOf(k, i, n) : n \in DOMAIN batches[k].rows[i].types}

Absent(k, i) ==
  /\ Id(k, i) \notin DOMAIN customers
  /\ \A a \in accounts : a.customer # Id(k, i)

Places(k) == DOMAIN batches[k].rows

AllRows == UNION {P!Draws(b) : b \in Batches}

Begun == [body : Batches, rows : AllRows, first : Nat \ {0}, done : BOOLEAN]

WorkFrames == [pc : {"idle", "commit", "provider", "register"}, batch : Nat,
               rows : AllRows \union {<<>>}, next : Nat]

(* Batches have ids of their own. *)
BatchesInv ==
  /\ issued \in Nat
  /\ batches \in Seq(Begun)
  /\ \A k \in DOMAIN batches :
       /\ batches[k].rows \in P!Draws(batches[k].body)
       /\ batches[k].first + batches[k].body.count - 1 <= issued
  /\ \A k, l \in DOMAIN batches :
       k < l => batches[k].first + batches[k].body.count <= batches[l].first

Customer == [email : P!Emails, source : {"manual", "batch"},
             persona : Personas \union {Nothing}]

TablesInv ==
  /\ DOMAIN customers \subseteq 1..issued
  /\ \A x \in DOMAIN customers : customers[x] \in Customer
  /\ \A a \in accounts : a.customer \in 1..issued
  /\ \A k \in DOMAIN batches :
       (\A i \in Places(k) : Stored(k, i)) \/ (\A i \in Places(k) : Absent(k, i))

(* What the request of a frame is about. *)
WorksOn(f) ==
  /\ f.batch \in DOMAIN batches
  /\ f.rows = batches[f.batch].rows
  /\ ~batches[f.batch].done
  /\ f.next # 0
  /\ f.pc \in {"commit", "provider"} => f.next = 1
  /\ f.pc = "commit" => \A i \in Places(f.batch) : Absent(f.batch, i)
  /\ f.pc # "commit" /\ bank => \A i \in Places(f.batch) : Stored(f.batch, i)

FramesInv ==
  /\ work \in [Workers -> WorkFrames]
  /\ \A w \in Workers : work[w].pc # "idle" => WorksOn(work[w])
  /\ \A v, w \in Workers :
       v # w /\ work[v].pc # "idle" /\ work[w].pc # "idle" => work[v].batch # work[w].batch

(* The turn of a customer of a batch to be registered has come. *)
Registered(k, i) ==
  \/ batches[k].done
  \/ \E w \in Workers : /\ work[w].pc = "register" /\ work[w].batch = k
                        /\ i < work[w].next

Taken(k, i) ==
  \E r \in registered : r.username = batches[k].rows[i].email /\ r.customer # Id(k, i)

LoginOK(k, i) ==
  LET email == batches[k].rows[i].email IN
  Id(k, i) \notin raised =>
    /\ email \in DOMAIN logins
    /\ Taken(k, i) \/ logins[email] = Id(k, i)

LoginsInv ==
  bank => \A k \in DOMAIN batches : \A i \in Places(k) : Registered(k, i) => LoginOK(k, i)

PInv == P!PopulationAssumption /\ BatchesInv /\ TablesInv /\ FramesInv /\ LoginsInv

-----------------------------------------------------------------------------
LEMMA DrawnRows ==
  ASSUME P!PopulationAssumption, NEW b \in Batches, NEW rows \in P!Draws(b)
  PROVE  /\ b.count \in Nat \ {0}
         /\ DOMAIN rows = 1..b.count
         /\ Len(rows) = b.count
         /\ rows \in AllRows
         /\ \A i \in 1..b.count : rows[i] \in P!Candidates(b, i)
<1>1. b.count \in Nat \ {0}
  BY DEF P!PopulationAssumption
<1>2. /\ rows \in [1..b.count -> UNION {P!Candidates(b, i) : i \in 1..b.count}]
      /\ \A i \in 1..b.count : rows[i] \in P!Candidates(b, i)
  BY DEF P!Draws
<1>3. rows \in AllRows
  BY DEF AllRows
<1> QED BY <1>1, <1>2, <1>3

(* What is drawn for a customer. *)
LEMMA CandidateIsRow ==
  ASSUME P!PopulationAssumption, NEW b \in Batches, NEW i \in Nat, NEW r \in P!Candidates(b, i)
  PROVE  /\ r.persona \in Supported
         /\ r.types \in P!TypesFor(r.persona, b)
         /\ P!Row(r) \in Customer
<1>1. PICK p \in P!WeightedChoices(b.personas, Supported) :
        r \in {[email |-> [name |-> n, nr |-> i, example |-> TRUE], source |-> "batch",
                persona |-> p, types |-> ts] : n \in Names, ts \in P!TypesFor(p, b)}
  BY DEF P!Candidates
<1>2. PICK n \in Names, ts \in P!TypesFor(p, b) :
        r = [email |-> [name |-> n, nr |-> i, example |-> TRUE], source |-> "batch",
             persona |-> p, types |-> ts]
  BY <1>1
<1>3. p \in Supported /\ p \in Personas
  BY DEF P!WeightedChoices, P!Positive, P!PopulationAssumption
<1> QED BY <1>2, <1>3 DEF P!Row, Customer, P!Emails

LEMMA BatchPlaces ==
  ASSUME P!PopulationAssumption, BatchesInv, NEW k \in DOMAIN batches
  PROVE  /\ batches[k] \in Begun
         /\ k \in Nat \ {0} /\ k <= Len(batches)
         /\ batches[k].first \in Nat \ {0}
         /\ batches[k].body.count \in Nat \ {0}
         /\ Places(k) = 1..batches[k].body.count
         /\ Len(batches[k].rows) = batches[k].body.count
         /\ \A i \in Places(k) :
              /\ Id(k, i) \in 1..issued
              /\ batches[k].rows[i] \in P!Candidates(batches[k].body, i)
<1>1. batches[k] \in Begun /\ k \in Nat \ {0} /\ k <= Len(batches)
  BY DEF BatchesInv
<1>2. /\ batches[k].body \in Batches /\ batches[k].rows \in P!Draws(batches[k].body)
      /\ batches[k].first \in Nat \ {0}
      /\ batches[k].first + batches[k].body.count - 1 <= issued
  BY <1>1 DEF BatchesInv, Begun
<1>3. /\ batches[k].body.count \in Nat \ {0} /\ Places(k) = 1..batches[k].body.count
      /\ Len(batches[k].rows) = batches[k].body.count
      /\ \A i \in Places(k) : batches[k].rows[i] \in P!Candidates(batches[k].body, i)
  BY <1>2, DrawnRows DEF Places
<1>4. ASSUME NEW i \in Places(k) PROVE Id(k, i) \in 1..issued
  BY <1>2, <1>3, SMTT(40) DEF Id, BatchesInv
<1> QED BY <1>1, <1>2, <1>3, <1>4

(* Customers of batches have ids that differ. *)
LEMMA IdsDiffer ==
  ASSUME P!PopulationAssumption, BatchesInv,
         NEW k \in DOMAIN batches, NEW l \in DOMAIN batches,
         NEW i \in Places(k), NEW j \in Places(l), Id(k, i) = Id(l, j)
  PROVE  k = l /\ i = j
<1>1. /\ k \in Nat /\ l \in Nat
      /\ i \in 1..batches[k].body.count /\ j \in 1..batches[l].body.count
      /\ batches[k].first \in Nat /\ batches[l].first \in Nat
      /\ batches[k].body.count \in Nat /\ batches[l].body.count \in Nat
  BY BatchPlaces
<1>2. /\ k < l => batches[k].first + batches[k].body.count <= batches[l].first
      /\ l < k => batches[l].first + batches[l].body.count <= batches[k].first
  BY DEF BatchesInv
<1>3. batches[k].first + i - 1 = batches[l].first + j - 1
  BY DEF Id
<1>4. ~ k < l /\ ~ l < k
  BY <1>1, <1>2, <1>3
<1> QED BY <1>1, <1>3, <1>4

LEMMA PFirst == P!PopulationAssumption /\ P!Init => PInv
<1> SUFFICES ASSUME P!PopulationAssumption, P!Init PROVE PInv
  OBVIOUS
<1> USE DEF P!Init
<1>1. batches = <<>> /\ DOMAIN batches = {} /\ batches \in Seq(Begun)
  OBVIOUS
<1>2. BatchesInv
  BY <1>1 DEF BatchesInv
<1>3. TablesInv
  BY <1>1 DEF TablesInv
<1>4. FramesInv
  <2>1. P!IdleFrame \in WorkFrames /\ P!IdleFrame.pc = "idle"
    BY DEF P!IdleFrame, WorkFrames
  <2> QED BY <2>1 DEF FramesInv
<1>5. LoginsInv
  BY <1>1 DEF LoginsInv
<1> QED BY <1>2, <1>3, <1>4, <1>5 DEF PInv

(* Nothing happens to the customer of a batch. *)
SameRow(k, i) ==
  /\ batches'[k].first = batches[k].first
  /\ batches'[k].rows = batches[k].rows
  /\ Id(k, i) \in DOMAIN customers' <=> Id(k, i) \in DOMAIN customers
  /\ Id(k, i) \in DOMAIN customers =>
       /\ customers'[Id(k, i)].email = customers[Id(k, i)].email
       /\ customers'[Id(k, i)].persona = customers[Id(k, i)].persona
  /\ \A a : a.customer = Id(k, i) => (a \in accounts' <=> a \in accounts)

LEMMA RowStays ==
  ASSUME NEW k, NEW i, SameRow(k, i)
  PROVE  (Stored(k, i)' <=> Stored(k, i)) /\ (Absent(k, i)' <=> Absent(k, i))
<1>1. Id(k, i)' = Id(k, i)
  BY DEF SameRow, Id
<1>2. {a \in accounts' : a.customer = Id(k, i)} = {a \in accounts : a.customer = Id(k, i)}
  BY DEF SameRow
<1>3. {AccountOf(k, i, n) : n \in DOMAIN batches[k].rows[i].types}' =
      {AccountOf(k, i, n) : n \in DOMAIN batches[k].rows[i].types}
  BY <1>1 DEF SameRow, AccountOf
<1>4. Stored(k, i)' <=> Stored(k, i)
  BY <1>1, <1>2, <1>3 DEF SameRow, Stored
<1>5. Absent(k, i)' <=> Absent(k, i)
  BY <1>1 DEF SameRow, Absent
<1> QED BY <1>4, <1>5

(* If nothing happens to any customer of batches begun earlier, what was   *)
(* said of them stays so.                                                  *)
SameRows == \A k \in DOMAIN batches : \A i \in Places(k) : SameRow(k, i)

LEMMA BatchesStay ==
  ASSUME P!PopulationAssumption, BatchesInv, SameRows, NEW k \in DOMAIN batches
  PROVE  /\ Places(k)' = Places(k)
         /\ \A i \in Places(k) : /\ Stored(k, i)' <=> Stored(k, i)
                                 /\ Absent(k, i)' <=> Absent(k, i)
<1>1. 1 \in Places(k)
  BY BatchPlaces
<1>2. Places(k)' = Places(k)
  BY <1>1 DEF SameRows, SameRow, Places
<1> QED BY <1>2, RowStays DEF SameRows

(* A login lasts: where it is taken over, another customer has registered  *)
(* its username.                                                           *)
LEMMA LoginStays ==
  ASSUME NEW k, NEW i, LoginOK(k, i),
         batches'[k].first = batches[k].first, batches'[k].rows = batches[k].rows,
         raised \subseteq raised',
         \/ UNCHANGED <<logins, registered>>
         \/ \E username, id : P!Registers(username, id)
  PROVE  LoginOK(k, i)'
<1> DEFINE email == batches[k].rows[i].email
<1>1. Id(k, i)' = Id(k, i) /\ batches'[k].rows[i].email = email
  BY DEF Id
<1>2. SUFFICES ASSUME Id(k, i) \notin raised
               PROVE  email \in DOMAIN logins' /\ (Taken(k, i)' \/ logins'[email] = Id(k, i))
  BY <1>1 DEF LoginOK
<1>3. email \in DOMAIN logins /\ (Taken(k, i) \/ logins[email] = Id(k, i))
  BY <1>2 DEF LoginOK
<1>4. CASE UNCHANGED <<logins, registered>>
  BY <1>1, <1>3, <1>4 DEF Taken
<1>5. ASSUME NEW username, NEW id, P!Registers(username, id)
      PROVE  email \in DOMAIN logins' /\ (Taken(k, i)' \/ logins'[email] = Id(k, i))
  <2>1. /\ logins' = P!LoggedIn(username, id)
        /\ registered' = registered \union {[username |-> username, customer |-> id]}
    BY <1>5 DEF P!Registers
  <2>2. email \in DOMAIN logins'
    BY <1>3, <2>1 DEF P!LoggedIn
  <2>3. Taken(k, i) => Taken(k, i)'
    BY <1>1, <2>1 DEF Taken
  <2>4. CASE username # email
    <3>1. logins'[email] = logins[email]
      BY <1>3, <2>1, <2>4 DEF P!LoggedIn
    <3> QED BY <1>3, <2>2, <2>3, <3>1
  <2>5. CASE username = email /\ id = Id(k, i)
    <3>1. logins'[email] = id
      BY <2>1, <2>5 DEF P!LoggedIn
    <3> QED BY <2>2, <2>5, <3>1
  <2>6. CASE username = email /\ id # Id(k, i)
    <3>1. PICK r : r = [username |-> username, customer |-> id]
      OBVIOUS
    <3>2. r \in registered' /\ r.username = email /\ r.customer # Id(k, i)
      BY <2>1, <2>6, <3>1
    <3>3. Taken(k, i)'
      BY <1>1, <3>2 DEF Taken
    <3> QED BY <2>2, <3>3
  <2> QED BY <2>4, <2>5, <2>6
<1> QED BY <1>4, <1>5

LEMMA BeginBatchKeeps ==
  ASSUME PInv, NEW w \in Workers, P!BeginBatch(w)
  PROVE  PInv'
<1> USE DEF PInv
<1>0. PICK b \in Batches : \E rows \in P!Draws(b) :
        /\ work' = [work EXCEPT ![w] = [pc |-> "commit", batch |-> Len(batches) + 1,
                                          rows |-> rows, next |-> 1]]
        /\ batches' = Append(batches, [body |-> b, rows |-> rows, first |-> issued + 1,
                                       done |-> FALSE])
        /\ issued' = issued + b.count
  BY DEF P!BeginBatch
<1>1. PICK rows \in P!Draws(b) :
        /\ work' = [work EXCEPT ![w] = [pc |-> "commit", batch |-> Len(batches) + 1,
                                          rows |-> rows, next |-> 1]]
        /\ batches' = Append(batches, [body |-> b, rows |-> rows, first |-> issued + 1,
                                       done |-> FALSE])
        /\ issued' = issued + b.count
  BY <1>0
<1>2. /\ UNCHANGED <<bank, customers, accounts, logins, registered, raised>> /\ bank
      /\ work[w].pc = "idle"
  BY DEF P!BeginBatch, P!Begins
<1>12. PICK n \in Nat : n = Len(batches) + 1
  BY DEF BatchesInv
<1> DEFINE new == [body |-> b, rows |-> rows, first |-> issued + 1, done |-> FALSE]
<1>3. /\ b.count \in Nat \ {0} /\ DOMAIN rows = 1..b.count /\ rows \in AllRows
      /\ issued \in Nat
  BY DrawnRows DEF BatchesInv
<1>4. new \in Begun
  BY <1>3 DEF Begun
<1>5. /\ batches' \in Seq(Begun) /\ n \in Nat \ {0}
      /\ DOMAIN batches' = DOMAIN batches \union {n} /\ n \notin DOMAIN batches
      /\ batches'[n] = new
      /\ \A k \in DOMAIN batches : batches'[k] = batches[k] /\ k \in Nat /\ k < n
  <2> HIDE DEF new
  <2> QED BY <1>1, <1>4, <1>12 DEF BatchesInv, new
<1>6. SameRows
  BY <1>2, <1>5 DEF SameRows, SameRow
<1>7. BatchesInv'
  <2>1. /\ issued' \in Nat /\ issued <= issued'
        /\ n \in DOMAIN batches' => new.first + new.body.count - 1 <= issued'
    BY <1>1, <1>3
  <2>2. ASSUME NEW k \in DOMAIN batches'
        PROVE  /\ batches'[k].rows \in P!Draws(batches'[k].body)
               /\ batches'[k].first + batches'[k].body.count - 1 <= issued'
    <3>1. CASE k = n
      BY <1>5, <2>1, <3>1
    <3>2. CASE k \in DOMAIN batches
      <4>1. /\ batches[k].first \in Nat /\ batches[k].body.count \in Nat
            /\ batches[k].first + batches[k].body.count - 1 <= issued
        BY <3>2, BatchPlaces DEF BatchesInv
      <4> QED BY <1>3, <1>5, <2>1, <3>2, <4>1, SMTT(40) DEF BatchesInv
    <3> QED BY <1>5, <3>1, <3>2
  <2>3. ASSUME NEW k \in DOMAIN batches', NEW l \in DOMAIN batches', k < l
        PROVE  batches'[k].first + batches'[k].body.count <= batches'[l].first
    <3>1. k \in DOMAIN batches
      BY <1>5, <2>3
    <3>2. CASE l = n
      <4>1. /\ batches[k].first \in Nat /\ batches[k].body.count \in Nat
            /\ batches[k].first + batches[k].body.count - 1 <= issued
        BY <3>1, BatchPlaces DEF BatchesInv
      <4> QED BY <1>3, <1>5, <3>1, <3>2, <4>1
    <3>3. CASE l \in DOMAIN batches
      BY <1>5, <2>3, <3>1, <3>3 DEF BatchesInv
    <3> QED BY <1>5, <3>2, <3>3
  <2> QED BY <1>5, <2>1, <2>2, <2>3 DEF BatchesInv
<1>8. \A i \in Places(n)' : Absent(n, i)'
  <2> SUFFICES ASSUME NEW i \in Places(n)' PROVE Absent(n, i)'
    OBVIOUS
  <2>1. i \in 1..b.count
    BY <1>3, <1>5 DEF Places
  <2>2. Id(n, i)' \in Int /\ Id(n, i)' > issued
    BY <1>3, <1>5, <2>1 DEF Id
  <2> QED BY <1>2, <1>3, <2>2 DEF Absent, TablesInv
<1>9. TablesInv'
  <2>1. 1..issued \subseteq 1..issued'
    BY <1>1, <1>3
  <2>2. ASSUME NEW k \in DOMAIN batches'
        PROVE  (\A i \in Places(k)' : Stored(k, i)') \/ (\A i \in Places(k)' : Absent(k, i)')
    BY <1>5, <1>6, <1>8, BatchesStay DEF TablesInv
  <2> QED BY <1>2, <2>1, <2>2 DEF TablesInv
<1>10. FramesInv'
  <2>1. work' \in [Workers -> WorkFrames]
    BY <1>1, <1>3, <1>5 DEF FramesInv, WorkFrames
  <2>2. WorksOn(work[w])'
    BY <1>1, <1>5, <1>8, <1>12, <2>1 DEF WorksOn, FramesInv
  <2>3. ASSUME NEW v \in Workers, v # w, work[v].pc # "idle"
        PROVE  WorksOn(work[v])' /\ work'[v].batch # n /\ work'[v] = work[v]
    <3>1. work'[v] = work[v] /\ WorksOn(work[v])
      BY <1>1, <2>3 DEF FramesInv
    <3> QED BY <1>2, <1>5, <1>6, <3>1, BatchesStay DEF WorksOn
  <2>4. work'[w].batch = n /\ \A v \in Workers : v # w => work'[v] = work[v]
    BY <1>1, <1>12 DEF FramesInv
  <2> QED BY <2>1, <2>2, <2>3, <2>4 DEF FramesInv
<1>11. LoginsInv'
  <2> SUFFICES ASSUME NEW k \in DOMAIN batches', NEW i \in Places(k)', Registered(k, i)'
               PROVE  LoginOK(k, i)'
    BY DEF LoginsInv
  <2>1. /\ work'[w].pc = "commit"
        /\ \A v \in Workers : v # w => work'[v] = work[v]
    BY <1>1 DEF FramesInv
  <2>2. ASSUME k = n PROVE FALSE
    BY <1>5, <2>1, <2>2 DEF Registered, FramesInv, WorksOn
  <2>3. k \in DOMAIN batches /\ i \in Places(k)
    BY <1>5, <1>6, <2>2, BatchesStay
  <2>4. Registered(k, i)
    BY <1>5, <2>1, <2>3 DEF Registered
  <2>5. LoginOK(k, i)
    BY <1>2, <2>3, <2>4 DEF LoginsInv
  <2> QED BY <1>2, <1>5, <2>3, <2>5, LoginStays
<1> QED BY <1>7, <1>9, <1>10, <1>11 DEF P!PopulationAssumption

(* Steps that begin no batch and touch no customer of one. *)
LEMMA KeptByOthers ==
  ASSUME PInv, SameRows, DOMAIN batches' = DOMAIN batches, bank' => bank
  PROVE  /\ \A k \in DOMAIN batches :
              (\A i \in Places(k)' : Stored(k, i)') \/ (\A i \in Places(k)' : Absent(k, i)')
         /\ \A v \in Workers :
              /\ work[v].pc # "idle"
              /\ work'[v].batch = work[v].batch /\ work'[v].rows = work[v].rows
              /\ batches'[work[v].batch].done = batches[work[v].batch].done
              /\ work'[v].pc = "commit" => work[v].pc = "commit"
              /\ work'[v].pc # "commit" => work[v].pc # "commit"
              /\ work'[v].next # 0 /\ (work'[v].pc \in {"commit", "provider"} => work'[v].next = 1)
              => WorksOn(work[v])'
<1> USE DEF PInv
<1>1. ASSUME NEW k \in DOMAIN batches
      PROVE  (\A i \in Places(k)' : Stored(k, i)') \/ (\A i \in Places(k)' : Absent(k, i)')
  BY BatchesStay DEF TablesInv
<1>2. ASSUME NEW v \in Workers, work[v].pc # "idle",
             work'[v].batch = work[v].batch, work'[v].rows = work[v].rows,
             batches'[work[v].batch].done = batches[work[v].batch].done,
             work'[v].pc = "commit" => work[v].pc = "commit",
             work'[v].pc # "commit" => work[v].pc # "commit",
             work'[v].next # 0, work'[v].pc \in {"commit", "provider"} => work'[v].next = 1
      PROVE  WorksOn(work[v])'
  <2>1. PICK k : k = work[v].batch
    OBVIOUS
  <2>2. WorksOn(work[v]) /\ k \in DOMAIN batches
    BY <1>2, <2>1 DEF FramesInv, WorksOn
  <2>3. 1 \in Places(k)
    BY <2>2, BatchPlaces
  <2>4. batches'[k].rows = batches[k].rows
    BY <2>2, <2>3 DEF SameRows, SameRow
  <2>5. /\ Places(k)' = Places(k)
        /\ \A i \in Places(k) : (Stored(k, i)' <=> Stored(k, i)) /\ (Absent(k, i)' <=> Absent(k, i))
    BY <2>2, BatchesStay
  <2>6. /\ work'[v].pc = "commit" => \A i \in Places(k)' : Absent(k, i)'
        /\ work'[v].pc # "commit" /\ bank' => \A i \in Places(k)' : Stored(k, i)'
    BY <1>2, <2>1, <2>2, <2>5 DEF WorksOn
  <2>7. /\ k \in DOMAIN batches' /\ work'[v].batch = k /\ work'[v].rows = batches'[k].rows
        /\ ~batches'[k].done
    BY <1>2, <2>1, <2>2, <2>4 DEF WorksOn
  <2> QED BY <1>2, <2>6, <2>7 DEF WorksOn
<1> QED BY <1>1, <1>2

LEMMA CommitKeeps ==
  ASSUME PInv, NEW w \in Workers, P!Commit(w)
  PROVE  PInv'
<1> USE DEF PInv
<1>1. /\ work[w].pc = "commit" /\ P!AddCustomers(w)
      /\ accounts' = accounts \union P!AccountsOf(w)
      /\ work' = [work EXCEPT ![w].pc = "provider"]
      /\ UNCHANGED <<bank, logins, issued, batches, registered, raised>>
  BY DEF P!Commit, P!Goto, P!history
<1>2. PICK b : b = work[w].batch
  OBVIOUS
<1>3. /\ b \in DOMAIN batches /\ work[w].rows = batches[b].rows /\ work[w].next = 1
      /\ \A i \in Places(b) : Absent(b, i)
      /\ WorksOn(work[w])
  BY <1>1, <1>2 DEF FramesInv, WorksOn
<1>4. PICK n \in Nat \ {0} : n = batches[b].body.count
  BY <1>3, BatchPlaces
<1>5. /\ Places(b) = 1..n /\ Len(work[w].rows) = n /\ DOMAIN work[w].rows = 1..n
      /\ batches[b].first \in Nat \ {0}
      /\ \A i \in 1..n : P!IdOf(w, i) = Id(b, i) /\ Id(b, i) \in 1..issued
      /\ issued \in Nat
  BY <1>2, <1>3, <1>4, BatchPlaces DEF P!IdOf, Id, Places, BatchesInv
<1> DEFINE ids == Id(b, 1)..Id(b, n)
<1>6. \A x \in ids : \E i \in 1..n : x = Id(b, i)
  <2> SUFFICES ASSUME NEW x \in ids PROVE \E i \in 1..n : x = Id(b, i)
    OBVIOUS
  <2>1. PICK f \in Nat : f = batches[b].first
    BY <1>5
  <2>2. x \in f + 1 - 1 .. f + n - 1
    BY <2>1 DEF Id
  <2>3. x - f + 1 \in 1..n /\ x = f + (x - f + 1) - 1
    BY <2>2
  <2> QED BY <2>1, <2>3 DEF Id
<1>7. \A i \in 1..n : Id(b, i) \in ids /\ P!RowAt(w, Id(b, i)) = batches[b].rows[i]
  BY <1>3, <1>5 DEF Id, P!RowAt
<1>8. customers' = [id \in DOMAIN customers \union ids |->
                      IF id \in ids THEN P!Row(P!RowAt(w, id)) ELSE customers[id]]
  BY <1>1, <1>5 DEF P!AddCustomers
<1>9. P!AccountsOf(w) =
        UNION {{AccountOf(b, i, m) : m \in DOMAIN batches[b].rows[i].types} : i \in 1..n}
  BY <1>3, <1>5 DEF P!AccountsOf, AccountOf
<1> HIDE DEF ids
<1>10. \A x \in ids : x \notin DOMAIN customers
  BY <1>3, <1>5, <1>6 DEF Absent
<1>11. \A a \in P!AccountsOf(w) : a.customer \in ids
  BY <1>7, <1>9 DEF AccountOf
<1>12. ASSUME NEW k \in DOMAIN batches, k # b, NEW i \in Places(k)
       PROVE  SameRow(k, i)
  <2>1. Id(k, i) \notin ids
    BY <1>3, <1>5, <1>6, <1>12, IdsDiffer
  <2> QED BY <1>1, <1>8, <1>11, <2>1 DEF SameRow
<1>13. ASSUME NEW i \in 1..n PROVE Stored(b, i)'
  <2>1. Id(b, i)' = Id(b, i) /\ Id(b, i) \in ids
    BY <1>1, <1>7 DEF Id
  <2>2. /\ Id(b, i) \in DOMAIN customers'
        /\ customers'[Id(b, i)] = P!Row(batches[b].rows[i])
    BY <1>7, <1>8, <2>1
  <2>3. \A a \in accounts : a.customer # Id(b, i)
    BY <1>3, <1>5 DEF Absent
  <2>4. \A j \in 1..n : Id(b, j) = Id(b, i) => j = i
    BY <1>5 DEF Id
  <2>5. {a \in accounts' : a.customer = Id(b, i)} =
        {AccountOf(b, i, m) : m \in DOMAIN batches[b].rows[i].types}
    BY <1>1, <1>9, <2>3, <2>4 DEF AccountOf
  <2>6. {AccountOf(b, i, m) : m \in DOMAIN batches[b].rows[i].types}' =
        {AccountOf(b, i, m) : m \in DOMAIN batches[b].rows[i].types}
    BY <1>1, <2>1 DEF AccountOf
  <2>7. /\ customers'[Id(b, i)].email = batches'[b].rows[i].email
        /\ customers'[Id(b, i)].persona = batches'[b].rows[i].persona
    BY <1>1, <2>2 DEF P!Row
  <2> QED BY <2>1, <2>2, <2>5, <2>6, <2>7 DEF Stored
<1>14. \A k \in DOMAIN batches : Places(k)' = Places(k)
  BY <1>1 DEF Places
<1>15. BatchesInv'
  BY <1>1 DEF BatchesInv
<1>16. TablesInv'
  <2>1. DOMAIN customers' \subseteq 1..issued'
    BY <1>1, <1>5, <1>6, <1>8 DEF TablesInv
  <2>2. \A a \in accounts' : a.customer \in 1..issued'
    BY <1>1, <1>5, <1>6, <1>11 DEF TablesInv
  <2>3. ASSUME NEW k \in DOMAIN batches
        PROVE  (\A i \in Places(k)' : Stored(k, i)') \/ (\A i \in Places(k)' : Absent(k, i)')
    BY <1>5, <1>12, <1>13, <1>14, RowStays DEF TablesInv
  <2>4. ASSUME NEW x \in DOMAIN customers' PROVE customers'[x] \in Customer
    <3>1. CASE x \in ids
      <4>1. PICK i \in 1..n : x = Id(b, i)
        BY <1>6, <3>1
      <4>2. batches[b].rows[i] \in P!Candidates(batches[b].body, i) /\ batches[b].body \in Batches
        BY <1>3, <1>5, BatchPlaces DEF Begun
      <4>3. customers'[x] = P!Row(batches[b].rows[i])
        BY <1>7, <1>8, <3>1, <4>1
      <4> QED BY <4>2, <4>3, CandidateIsRow
    <3>2. CASE x \notin ids
      BY <1>8, <3>2 DEF TablesInv
    <3> QED BY <3>1, <3>2
  <2> QED BY <1>1, <2>1, <2>2, <2>3, <2>4 DEF TablesInv
<1>17. FramesInv'
  <2>1. /\ work' \in [Workers -> WorkFrames]
        /\ work'[w] = [work[w] EXCEPT !.pc = "provider"]
        /\ work'[w].batch = b /\ work'[w].rows = work[w].rows /\ work'[w].next = 1
        /\ work'[w].pc = "provider"
        /\ \A v \in Workers : v # w => work'[v] = work[v]
    BY <1>1, <1>2, <1>3 DEF FramesInv, WorkFrames
  <2>2. WorksOn(work[w])'
    BY <1>1, <1>3, <1>5, <1>13, <1>14, <2>1 DEF WorksOn
  <2>3. ASSUME NEW v \in Workers, v # w, work[v].pc # "idle"
        PROVE  WorksOn(work[v])' /\ work[v].batch # b
    <3>1. WorksOn(work[v]) /\ work[v].batch # b
      BY <1>1, <1>2, <2>3 DEF FramesInv
    <3> QED BY <1>1, <1>12, <1>14, <2>1, <2>3, <3>1, RowStays DEF WorksOn
  <2>4. \A v \in Workers : v # w /\ work'[v].pc # "idle" =>
          WorksOn(work[v])' /\ work'[v].batch # b
    BY <2>1, <2>3
  <2>5. ASSUME NEW u \in Workers, NEW v \in Workers, u # v,
               work'[u].pc # "idle", work'[v].pc # "idle"
        PROVE  work'[u].batch # work'[v].batch
    <3>1. CASE u # w /\ v # w
      BY <2>1, <2>5, <3>1 DEF FramesInv
    <3>2. CASE u = w \/ v = w
      BY <2>1, <2>4, <2>5, <3>2
    <3> QED BY <3>1, <3>2
  <2>6. \A v \in Workers : work'[v].pc # "idle" => WorksOn(work[v])'
    BY <2>2, <2>4
  <2> QED BY <2>1, <2>5, <2>6 DEF FramesInv
<1>18. LoginsInv'
  <2> SUFFICES ASSUME bank, NEW k \in DOMAIN batches, NEW i \in Places(k), Registered(k, i)'
               PROVE  LoginOK(k, i)'
    BY <1>1, <1>14 DEF LoginsInv
  <2>1. Registered(k, i)
    BY <1>1 DEF Registered, FramesInv
  <2> QED BY <1>1, <2>1, LoginStays DEF LoginsInv
<1> QED BY <1>15, <1>16, <1>17, <1>18 DEF P!PopulationAssumption

LEMMA ProviderKeeps ==
  ASSUME PInv, NEW w \in Workers, P!Provider(w)
  PROVE  PInv'
<1> USE DEF PInv
<1>1. /\ work[w].pc = "provider"
      /\ UNCHANGED <<bank, customers, accounts, logins, issued, batches, registered, raised>>
      /\ \/ bank /\ work' = [work EXCEPT ![w].pc = "register"]
         \/ ~bank /\ work' = [work EXCEPT ![w] = P!IdleFrame]
  BY DEF P!Provider, P!Goto, P!people, P!history
<1>2. SameRows
  BY <1>1 DEF SameRows, SameRow
<1>3. /\ work' \in [Workers -> WorkFrames]
      /\ \A v \in Workers : v # w => work'[v] = work[v]
      /\ \/ work'[w].pc = "idle"
         \/ /\ work'[w].pc = "register" /\ work'[w].batch = work[w].batch
            /\ work'[w].rows = work[w].rows /\ work'[w].next = work[w].next
  BY <1>1 DEF FramesInv, WorkFrames, P!IdleFrame
<1>4. BatchesInv' /\ TablesInv'
  BY <1>1, <1>2, KeptByOthers DEF BatchesInv, TablesInv
<1>5. \A v \in Workers : work[v].pc # "idle" =>
        work[v].next # 0 /\ (work[v].pc \in {"commit", "provider"} => work[v].next = 1)
  BY DEF FramesInv, WorksOn
<1>6. FramesInv'
  <2>1. \A v \in Workers : work'[v].pc # "idle" => WorksOn(work[v])'
    BY <1>1, <1>2, <1>3, <1>5, KeptByOthers
  <2> QED BY <1>1, <1>3, <2>1 DEF FramesInv
<1>7. LoginsInv'
  <2> SUFFICES ASSUME bank, NEW k \in DOMAIN batches, NEW i \in Places(k), Registered(k, i)'
               PROVE  LoginOK(k, i)'
    BY <1>1, <1>2, BatchesStay DEF LoginsInv
  <2>1. ~ i < 1
    BY BatchPlaces
  <2>2. work'[w].pc = "register" => work'[w].next = 1
    BY <1>1, <1>3, <1>5
  <2>3. Registered(k, i)
    BY <1>1, <1>3, <2>1, <2>2 DEF Registered
  <2> QED BY <1>1, <2>3, LoginStays DEF LoginsInv
<1> QED BY <1>4, <1>6, <1>7 DEF P!PopulationAssumption

LEMMA RegisterKeeps ==
  ASSUME PInv, NEW w \in Workers, P!Register(w)
  PROVE  PInv'
<1> USE DEF PInv
<1>1. /\ work[w].pc = "register" /\ work[w].next <= Len(work[w].rows)
      /\ \/ /\ P!Registers(work[w].rows[work[w].next].email, P!IdOf(w, work[w].next))
            /\ UNCHANGED raised
         \/ /\ raised' = raised \union {P!IdOf(w, work[w].next)}
            /\ UNCHANGED <<logins, registered>>
      /\ work' = [work EXCEPT ![w].next = work[w].next + 1]
      /\ UNCHANGED <<bank, customers, accounts, issued, batches>>
  BY DEF P!Register
<1>2. SameRows
  BY <1>1 DEF SameRows, SameRow
<1>3. PICK b, n : b = work[w].batch /\ n = work[w].next
  OBVIOUS
<1>4. /\ WorksOn(work[w]) /\ b \in DOMAIN batches /\ work[w].rows = batches[b].rows
      /\ n \in Nat \ {0} /\ ~batches[b].done
      /\ bank => \A i \in Places(b) : Stored(b, i)
  BY <1>1, <1>3 DEF FramesInv, WorkFrames, WorksOn
<1>5. n \in Places(b)
  BY <1>1, <1>3, <1>4, BatchPlaces
<1>6. /\ work' \in [Workers -> WorkFrames]
      /\ \A v \in Workers : v # w => work'[v] = work[v]
      /\ work'[w].pc = "register" /\ work'[w].batch = b
      /\ work'[w].rows = work[w].rows /\ work'[w].next = n + 1
  BY <1>1, <1>3, <1>4, SMTT(40) DEF FramesInv, WorkFrames
<1>7. BatchesInv' /\ TablesInv'
  BY <1>1, <1>2, KeptByOthers DEF BatchesInv, TablesInv
<1>8. FramesInv'
  <2>1. \A v \in Workers : work[v].pc # "idle" =>
          work[v].next # 0 /\ (work[v].pc \in {"commit", "provider"} => work[v].next = 1)
    BY DEF FramesInv, WorksOn
  <2>2. n + 1 # 0
    BY <1>4
  <2>3. \A v \in Workers : work'[v].pc # "idle" => WorksOn(work[v])'
    BY <1>1, <1>2, <1>3, <1>6, <2>1, <2>2, KeptByOthers
  <2> QED BY <1>1, <1>3, <1>6, <2>3 DEF FramesInv
<1>9. LoginsInv'
  <2> SUFFICES ASSUME bank, NEW k \in DOMAIN batches, NEW i \in Places(k), Registered(k, i)'
               PROVE  LoginOK(k, i)'
    BY <1>1, <1>2, BatchesStay DEF LoginsInv
  <2>1. P!IdOf(w, n) = Id(b, n)
    BY <1>3, <1>4, <1>5 DEF P!IdOf, Id
  <2>2. /\ raised \subseteq raised'
        /\ \/ P!Registers(batches[b].rows[n].email, Id(b, n))
           \/ Id(b, n) \in raised' /\ UNCHANGED <<logins, registered>>
    BY <1>1, <1>3, <1>4, <2>1
  <2>3. CASE k = b /\ i = n
    <3>1. Id(k, i)' = Id(b, n) /\ batches'[k].rows[i].email = batches[b].rows[n].email
      BY <1>1, <2>3 DEF Id
    <3>2. \/ /\ batches[b].rows[n].email \in DOMAIN logins'
             /\ logins'[batches[b].rows[n].email] = Id(b, n)
          \/ Id(b, n) \in raised'
      BY <2>2 DEF P!Registers, P!LoggedIn
    <3> QED BY <3>1, <3>2 DEF LoginOK
  <2>4. CASE ~(k = b /\ i = n)
    <3>1. i \in Nat
      BY BatchPlaces
    <3>2. Registered(k, i)
      <4>1. CASE batches'[k].done
        BY <1>1, <4>1 DEF Registered
      <4>2. ASSUME NEW v \in Workers, work'[v].pc = "register", work'[v].batch = k,
                   i < work'[v].next
            PROVE  Registered(k, i)
        <5>1. CASE v = w
          BY <1>1, <1>3, <1>4, <1>6, <2>4, <3>1, <4>2, <5>1 DEF Registered
        <5>2. CASE v # w
          BY <1>6, <4>2, <5>2 DEF Registered
        <5> QED BY <5>1, <5>2
      <4> QED BY <4>1, <4>2 DEF Registered
    <3>3. LoginOK(k, i)
      BY <3>2 DEF LoginsInv
    <3> QED BY <1>1, <2>2, <3>3, LoginStays
  <2> QED BY <2>3, <2>4
<1> QED BY <1>7, <1>8, <1>9 DEF P!PopulationAssumption

LEMMA AcknowledgeKeeps ==
  ASSUME PInv, NEW w \in Workers, P!Acknowledge(w)
  PROVE  PInv'
<1> USE DEF PInv
<1>1. /\ work[w].pc = "register" /\ work[w].next > Len(work[w].rows)
      /\ batches' = [batches EXCEPT ![work[w].batch].done = TRUE]
      /\ work' = [work EXCEPT ![w] = P!IdleFrame]
      /\ UNCHANGED <<bank, customers, accounts, logins, issued, registered, raised>>
  BY DEF P!Acknowledge, P!people
<1>2. PICK b : b = work[w].batch
  OBVIOUS
<1>3. b \in DOMAIN batches /\ work[w].rows = batches[b].rows /\ work[w].next \in Nat
  BY <1>1, <1>2 DEF FramesInv, WorkFrames, WorksOn
<1>4. /\ batches' \in Seq(Begun) /\ DOMAIN batches' = DOMAIN batches
      /\ \A k \in DOMAIN batches :
           /\ batches'[k].first = batches[k].first /\ batches'[k].rows = batches[k].rows
           /\ batches'[k].body = batches[k].body
           /\ k # b => batches'[k].done = batches[k].done
  <2>1. batches[b] \in Begun /\ [batches[b] EXCEPT !.done = TRUE] \in Begun
    BY <1>3, BatchPlaces DEF Begun
  <2>2. batches' = [batches EXCEPT ![b] = [batches[b] EXCEPT !.done = TRUE]]
    BY <1>1, <1>2
  <2>3. batches \in Seq(Begun)
    BY DEF BatchesInv
  <2>4. batches' \in Seq(Begun) /\ DOMAIN batches' = DOMAIN batches
    BY <1>3, <2>1, <2>2, <2>3
  <2>5. \A k \in DOMAIN batches :
          batches'[k] = IF k = b THEN [batches[b] EXCEPT !.done = TRUE] ELSE batches[k]
    BY <2>2, <2>3
  <2> QED BY <2>1, <2>4, <2>5 DEF Begun
<1>5. SameRows
  BY <1>1, <1>4 DEF SameRows, SameRow
<1>6. /\ work' \in [Workers -> WorkFrames]
      /\ \A v \in Workers : v # w => work'[v] = work[v]
      /\ work'[w].pc = "idle"
  BY <1>1 DEF FramesInv, WorkFrames, P!IdleFrame
<1>7. BatchesInv'
  BY <1>1, <1>4 DEF BatchesInv
<1>8. TablesInv'
  BY <1>1, <1>4, <1>5, KeptByOthers DEF TablesInv
<1>9. FramesInv'
  <2>1. ASSUME NEW v \in Workers, v # w, work[v].pc # "idle"
        PROVE  WorksOn(work[v])'
    <3>1. /\ work[v].batch \in DOMAIN batches /\ work[v].batch # b /\ work[v].next # 0
          /\ work[v].pc \in {"commit", "provider"} => work[v].next = 1
      BY <1>1, <1>2, <2>1 DEF FramesInv, WorksOn
    <3> QED BY <1>1, <1>4, <1>5, <1>6, <2>1, <3>1, KeptByOthers
  <2> QED BY <1>6, <2>1 DEF FramesInv
<1>10. LoginsInv'
  <2> SUFFICES ASSUME bank, NEW k \in DOMAIN batches, NEW i \in Places(k), Registered(k, i)'
               PROVE  LoginOK(k, i)'
    BY <1>1, <1>4, <1>5, BatchesStay DEF LoginsInv
  <2>1. i \in Nat /\ i <= Len(batches[k].rows)
    BY BatchPlaces
  <2>2. Registered(k, i)
    <3>1. CASE k = b
      BY <1>1, <1>2, <1>3, <2>1, <3>1 DEF Registered
    <3>2. CASE k # b
      BY <1>4, <1>6, <3>2 DEF Registered
    <3> QED BY <3>1, <3>2
  <2>3. LoginOK(k, i)
    BY <2>2 DEF LoginsInv
  <2> QED BY <1>1, <1>4, <2>3, LoginStays
<1> QED BY <1>7, <1>8, <1>9, <1>10 DEF P!PopulationAssumption

LEMMA CreateCustomerKeeps ==
  ASSUME PInv, NEW w \in Workers, P!CreateCustomer(w)
  PROVE  PInv'
<1> USE DEF PInv
<1>1. PICK email \in ManualEmails, p \in Personas \union {Nothing},
           given \in GivenUsernames \union {Nothing} :
        /\ customers' = [id \in DOMAIN customers \union {issued + 1} |->
             IF id = issued + 1 THEN [email |-> email, source |-> "manual", persona |-> p]
             ELSE customers[id]]
        /\ P!Registers(IF given = Nothing THEN email ELSE given, issued + 1)
  BY DEF P!CreateCustomer
<1>2. issued' = issued + 1 /\ UNCHANGED <<bank, accounts, work, batches, raised>>
  BY DEF P!CreateCustomer
<1>3. PICK new : new = issued + 1
  OBVIOUS
<1>4. new \in Nat /\ issued \in Nat /\ new \notin 1..issued /\ 1..issued' = 1..issued \union {new}
  BY <1>2, <1>3 DEF BatchesInv
<1>5. /\ DOMAIN customers' = DOMAIN customers \union {new} /\ new \notin DOMAIN customers
      /\ customers'[new].email = email
      /\ \A x \in DOMAIN customers : customers'[x] = customers[x]
  BY <1>1, <1>3, <1>4 DEF TablesInv
<1>6. SameRows
  BY <1>2, <1>4, <1>5, BatchPlaces DEF SameRows, SameRow
<1>7. BatchesInv'
  <2>1. \A k \in DOMAIN batches : batches[k].first \in Nat /\ batches[k].body.count \in Nat
    BY BatchPlaces
  <2>2. \A k \in DOMAIN batches : batches[k].first + batches[k].body.count - 1 <= issued'
    BY <1>2, <1>4, <2>1 DEF BatchesInv
  <2> QED BY <1>2, <1>4, <2>2 DEF BatchesInv
<1>8. TablesInv'
  <2>1. customers'[new] \in Customer
    BY <1>1, <1>3, <1>5 DEF Customer, P!PopulationAssumption
  <2> QED BY <1>2, <1>4, <1>5, <1>6, <2>1, KeptByOthers DEF TablesInv
<1>9. FramesInv'
  <2>1. \A v \in Workers : work[v].pc # "idle" =>
          work[v].next # 0 /\ (work[v].pc \in {"commit", "provider"} => work[v].next = 1)
    BY DEF FramesInv, WorksOn
  <2>2. \A v \in Workers : work[v].pc # "idle" => WorksOn(work[v])'
    BY <1>2, <1>6, <2>1, KeptByOthers
  <2> QED BY <1>2, <2>2 DEF FramesInv
<1>10. LoginsInv'
  <2> SUFFICES ASSUME bank, NEW k \in DOMAIN batches, NEW i \in Places(k), Registered(k, i)'
               PROVE  LoginOK(k, i)'
    BY <1>2, <1>6, BatchesStay DEF LoginsInv
  <2>1. LoginOK(k, i)
    BY <1>2 DEF LoginsInv, Registered
  <2> QED BY <1>1, <1>2, <2>1, LoginStays
<1> QED BY <1>7, <1>8, <1>9, <1>10 DEF P!PopulationAssumption

LEMMA RegisterCredentialKeeps ==
  ASSUME PInv, NEW w \in Workers, P!RegisterCredential(w)
  PROVE  PInv'
<1> USE DEF PInv
<1>1. PICK id \in DOMAIN customers, username \in GivenUsernames : P!Registers(username, id)
  BY DEF P!RegisterCredential
<1>2. UNCHANGED <<bank, customers, accounts, issued, work, batches, raised>>
  BY DEF P!RegisterCredential
<1>3. SameRows
  BY <1>2 DEF SameRows, SameRow
<1>4. BatchesInv' /\ TablesInv'
  BY <1>2, <1>3, KeptByOthers DEF BatchesInv, TablesInv
<1>5. FramesInv'
  <2>1. \A v \in Workers : work[v].pc # "idle" =>
          work[v].next # 0 /\ (work[v].pc \in {"commit", "provider"} => work[v].next = 1)
    BY DEF FramesInv, WorksOn
  <2>2. \A v \in Workers : work[v].pc # "idle" => WorksOn(work[v])'
    BY <1>2, <1>3, <2>1, KeptByOthers
  <2> QED BY <1>2, <2>2 DEF FramesInv
<1>6. LoginsInv'
  <2> SUFFICES ASSUME bank, NEW k \in DOMAIN batches, NEW i \in Places(k), Registered(k, i)'
               PROVE  LoginOK(k, i)'
    BY <1>2, <1>3, BatchesStay DEF LoginsInv
  <2>1. LoginOK(k, i)
    BY <1>2 DEF LoginsInv, Registered
  <2> QED BY <1>1, <1>2, <2>1, LoginStays
<1> QED BY <1>4, <1>5, <1>6 DEF P!PopulationAssumption

LEMMA DeleteBankKeeps ==
  ASSUME PInv, P!DeleteBank
  PROVE  PInv'
<1> USE DEF PInv
<1>1. /\ ~bank' /\ DOMAIN customers' = {} /\ accounts' = {}
      /\ UNCHANGED <<issued, work, batches>>
  BY DEF P!DeleteBank, P!history
<1>2. \A k \in DOMAIN batches : \A i \in Places(k) : Absent(k, i)'
  BY <1>1 DEF Absent
<1>3. \A k : Places(k)' = Places(k)
  BY <1>1 DEF Places
<1>4. BatchesInv'
  BY <1>1 DEF BatchesInv
<1>5. TablesInv'
  BY <1>1, <1>2, <1>3 DEF TablesInv
<1>6. FramesInv'
  <2>1. ASSUME NEW v \in Workers, work[v].pc # "idle" PROVE WorksOn(work[v])'
    BY <1>1, <1>2, <1>3, <2>1 DEF FramesInv, WorksOn
  <2> QED BY <1>1, <2>1 DEF FramesInv
<1>7. LoginsInv'
  BY <1>1 DEF LoginsInv
<1> QED BY <1>4, <1>5, <1>6, <1>7 DEF P!PopulationAssumption

LEMMA RestartKeeps ==
  ASSUME PInv, P!Restart
  PROVE  PInv'
<1> USE DEF PInv
<1>1. /\ work' = [w \in Workers |-> P!IdleFrame]
      /\ customers' = [id \in DOMAIN customers |->
           IF customers[id].email.example THEN [customers[id] EXCEPT !.source = "batch"]
           ELSE customers[id]]
      /\ UNCHANGED <<bank, accounts, logins, issued, batches, registered, raised>>
  BY DEF P!Restart, P!history
<1>2. /\ DOMAIN customers' = DOMAIN customers
      /\ \A x \in DOMAIN customers : /\ customers'[x].email = customers[x].email
                                     /\ customers'[x].persona = customers[x].persona
                                     /\ customers'[x] \in Customer
  <2>1. \A c \in Customer : /\ [c EXCEPT !.source = "batch"].email = c.email
                            /\ [c EXCEPT !.source = "batch"].persona = c.persona
                            /\ [c EXCEPT !.source = "batch"] \in Customer
    BY DEF Customer
  <2> QED BY <1>1, <2>1 DEF TablesInv
<1>3. SameRows
  BY <1>1, <1>2 DEF SameRows, SameRow
<1>4. BatchesInv'
  BY <1>1 DEF BatchesInv
<1>5. TablesInv'
  BY <1>1, <1>2, <1>3, KeptByOthers DEF TablesInv
<1>6. FramesInv'
  BY <1>1 DEF FramesInv, WorkFrames, P!IdleFrame
<1>7. LoginsInv'
  <2> SUFFICES ASSUME bank, NEW k \in DOMAIN batches, NEW i \in Places(k), Registered(k, i)'
               PROVE  LoginOK(k, i)'
    BY <1>1, <1>3, BatchesStay DEF LoginsInv
  <2>1. LoginOK(k, i)
    BY <1>1 DEF LoginsInv, Registered, P!IdleFrame
  <2> QED BY <1>1, <1>2, <2>1, LoginStays
<1> QED BY <1>4, <1>5, <1>6, <1>7 DEF P!PopulationAssumption

LEMMA PStep == PInv /\ [P!Next]_(P!vars) => PInv'
<1> SUFFICES ASSUME PInv, [P!Next]_(P!vars) PROVE PInv'
  OBVIOUS
<1>1. CASE UNCHANGED P!vars
  <2> USE <1>1 DEF P!vars, P!people, P!history
  <2>1. BatchesInv' /\ TablesInv'
    BY DEF PInv, BatchesInv, TablesInv, Places, Stored, Absent, Id, AccountOf
  <2>2. FramesInv'
    <3>1. \A k, i : (Stored(k, i)' <=> Stored(k, i)) /\ (Absent(k, i)' <=> Absent(k, i))
      BY DEF Stored, Absent, Id, AccountOf
    <3>2. \A f : WorksOn(f)' <=> WorksOn(f)
      BY <3>1 DEF WorksOn, Places
    <3> QED BY <3>2 DEF PInv, FramesInv
  <2>3. LoginsInv'
    BY DEF PInv, LoginsInv, Places, Registered, LoginOK, Taken, Id
  <2> QED BY <2>1, <2>2, <2>3 DEF PInv, P!PopulationAssumption
<1>2. ASSUME NEW w \in Workers, P!Handles(w) PROVE PInv'
  BY <1>2, BeginBatchKeeps, CommitKeeps, ProviderKeeps, RegisterKeeps, AcknowledgeKeeps,
     CreateCustomerKeeps, RegisterCredentialKeeps DEF P!Handles
<1> QED BY <1>1, <1>2, DeleteBankKeeps, RestartKeeps DEF P!Next

-----------------------------------------------------------------------------
(* What follows for each batch *)

LEMMA WholeBatches == PInv => P!BatchIsWhole
<1> SUFFICES ASSUME PInv, NEW b \in DOMAIN batches
             PROVE  LET rows == batches[b].rows
                        id(i) == batches[b].first + i - 1
                        stored(i) == /\ id(i) \in DOMAIN customers
                                     /\ \A n \in DOMAIN rows[i].types :
                                          [customer |-> id(i), nr |-> n, type |-> rows[i].types[n]]
                                            \in accounts
                        absent(i) == /\ id(i) \notin DOMAIN customers
                                     /\ \A a \in accounts : a.customer # id(i) IN
                    (\A i \in DOMAIN rows : stored(i)) \/ (\A i \in DOMAIN rows : absent(i))
  BY DEF P!BatchIsWhole
<1>1. ASSUME NEW i \in Places(b), Stored(b, i)
      PROVE  /\ Id(b, i) \in DOMAIN customers
             /\ \A n \in DOMAIN batches[b].rows[i].types : AccountOf(b, i, n) \in accounts
  BY <1>1 DEF Stored
<1> QED BY <1>1 DEF PInv, TablesInv, Places, Absent, Id, AccountOf

LEMMA WorkingLogins == PInv => P!LoginsWork
<1> SUFFICES ASSUME PInv, bank, NEW b \in DOMAIN batches, batches[b].done,
                    NEW i \in DOMAIN batches[b].rows
             PROVE  LET id == batches[b].first + i - 1
                        email == batches[b].rows[i].email
                        taken == \E r \in registered :
                                   r.username = email /\ r.customer # id IN
                    id \notin raised =>
                      /\ email \in DOMAIN logins
                      /\ ~taken => logins[email] = id
  BY DEF P!LoginsWork
<1>1. LoginOK(b, i)
  BY DEF PInv, LoginsInv, Places, Registered
<1> QED BY <1>1 DEF LoginOK, Taken, Id

(* An injective sequence has as many values as places. *)
LEMMA ValuesOfInjection ==
  ASSUME NEW n \in Nat, NEW f, DOMAIN f = 1..n, \A i, j \in 1..n : f[i] = f[j] => i = j
  PROVE  Cardinality({f[i] : i \in 1..n}) = n
<1> DEFINE T == {f[i] : i \in 1..n}
           g == [i \in 1..n |-> f[i]]
<1>1. g \in Bijection(1..n, T)
  BY DEF Bijection, Injection, Surjection, IsInjective
<1>2. ExistsBijection(1..n, T)
  BY <1>1 DEF ExistsBijection
<1>3. IsFiniteSet(1..n) /\ Cardinality(1..n) = n
  BY FS_Interval
<1> QED BY <1>2, <1>3, FS_Bijection

(* What _derived_account_types_for_customer holds at any time. *)
Fits(types, persona, weights) ==
  /\ types \in Seq(P!Positive(weights))
  /\ Len(types) \in 1..P!MaxAccounts(persona)
  /\ \A m, n \in 1..Len(types) : types[m] = types[n] => m = n

LEMMA MaybeAddFits ==
  ASSUME NEW types, NEW add, NEW persona, NEW weights, Fits(types, persona, weights)
  PROVE  Fits(P!MaybeAdd(types, add, persona, weights), persona, weights)
<1>1. P!MaxAccounts(persona) \in Nat
  BY DEF P!MaxAccounts
<1>2. CASE P!MaybeAdd(types, add, persona, weights) = types
  BY <1>2
<1>3. CASE /\ P!MaybeAdd(types, add, persona, weights) = Append(types, add.type)
           /\ add.type \notin P!ToSet(types) /\ add.type \in P!Positive(weights)
           /\ Len(types) < P!MaxAccounts(persona)
  <2> DEFINE more == Append(types, add.type)
  <2>1. types \in Seq(P!Positive(weights)) /\ Len(types) \in Nat
    BY DEF Fits
  <2>2. more \in Seq(P!Positive(weights)) /\ Len(more) = Len(types) + 1
    BY <1>3, <2>1
  <2>3. more[Len(types) + 1] = add.type /\ \A n \in 1..Len(types) : more[n] = types[n]
    BY <2>1
  <2>4. \A n \in 1..Len(types) : types[n] # add.type
    BY <1>3, <2>1 DEF P!ToSet
  <2> HIDE DEF more
  <2>5. \A m, n \in 1..Len(more) : more[m] = more[n] => m = n
    BY <2>1, <2>2, <2>3, <2>4 DEF Fits
  <2> QED BY <1>1, <1>3, <2>1, <2>2, <2>5 DEF Fits, more
<1> QED BY <1>2, <1>3 DEF P!MaybeAdd

LEMMA DerivedFit ==
  ASSUME NEW persona, NEW weights, NEW types \in P!DerivedTypes(persona, weights)
  PROVE  /\ types \in Seq(P!Positive(weights) \union
              (IF P!Positive(weights) = {} THEN {"current"} ELSE {}))
         /\ Len(types) \in 1..P!MaxAccounts(persona)
         /\ \A m, n \in 1..Len(types) : types[m] = types[n] => m = n
<1>1. CASE P!Positive(weights) = {}
  <2>1. types = <<"current">>
    BY <1>1 DEF P!DerivedTypes
  <2>2. types \in Seq({"current"}) /\ Len(types) = 1
    BY <2>1
  <2> QED BY <1>1, <2>2 DEF P!MaxAccounts
<1>2. CASE P!Positive(weights) # {}
  <2> DEFINE add(ts, n) == P!MaybeAdd(ts, P!Additions[n], persona, weights)
  <2>1. PICK first \in P!Positive(weights) : types = add(add(add(add(<<first>>, 1), 2), 3), 4)
    BY <1>2 DEF P!DerivedTypes
  <2>2. Fits(<<first>>, persona, weights)
    BY DEF Fits, P!MaxAccounts
  <2>3. \A ts, n : Fits(ts, persona, weights) => Fits(add(ts, n), persona, weights)
    BY MaybeAddFits
  <2> HIDE DEF add
  <2>4. Fits(types, persona, weights)
    BY <2>1, <2>2, <2>3
  <2> QED BY <1>2, <2>4 DEF Fits
<1> QED BY <1>1, <1>2

LEMMA CountIs ==
  ASSUME NEW id
  PROVE  P!CountOf(id) = Cardinality({a \in accounts : a.customer = id})
BY DEF P!CountOf, P!Cardinality, Cardinality

LEMMA FittingSelections == PInv => P!SelectionsFit
<1> SUFFICES ASSUME PInv, NEW b \in DOMAIN batches, NEW i \in Places(b),
                    Id(b, i) \in DOMAIN customers
             PROVE  LET id == Id(b, i)
                        body == batches[b].body IN
                    /\ customers[id].persona \in Supported
                    /\ body.each = Nothing =>
                         /\ P!CountOf(id) \in 1..P!MaxAccounts(customers[id].persona)
                         /\ Cardinality(P!TypesOf(id)) = P!CountOf(id)
                         /\ P!TypesOf(id) \subseteq P!Positive(body.types) \union
                              (IF P!Positive(body.types) = {} THEN {"current"} ELSE {})
                    /\ body.each # Nothing => P!CountOf(id) = body.each
  BY DEF P!SelectionsFit, Places, Id, P!Cardinality, Cardinality
<1> DEFINE id == Id(b, i)
           body == batches[b].body
           row == batches[b].rows[i]
           types == row.types
<1>1. Stored(b, i)
  BY DEF PInv, TablesInv, Absent
<1>2. /\ row \in P!Candidates(body, i) /\ i \in Nat /\ body \in Batches
      /\ row.persona \in Supported /\ types \in P!TypesFor(row.persona, body)
  BY BatchPlaces, CandidateIsRow DEF PInv, Begun
<1>3. customers[id].persona = row.persona
  BY <1>1 DEF Stored
<1>4. ASSUME NEW n \in Nat, DOMAIN types = 1..n
      PROVE  /\ P!CountOf(id) = n
             /\ P!TypesOf(id) = {types[m] : m \in 1..n}
  <2> DEFINE f == [m \in 1..n |-> AccountOf(b, i, m)]
  <2>1. {a \in accounts : a.customer = id} = {f[m] : m \in 1..n}
    BY <1>1, <1>4 DEF Stored
  <2>2. \A m, l \in 1..n : f[m] = f[l] => m = l
    BY DEF AccountOf
  <2>3. \A m \in 1..n : f[m].type = types[m]
    BY DEF AccountOf
  <2>4. DOMAIN f = 1..n
    OBVIOUS
  <2> HIDE DEF f
  <2>5. Cardinality({f[m] : m \in 1..n}) = n
    BY <2>2, <2>4, ValuesOfInjection
  <2>6. P!TypesOf(id) = {f[m].type : m \in 1..n}
    BY <2>1 DEF P!TypesOf
  <2> HIDE DEF types, id
  <2>7. P!TypesOf(id) = {types[m] : m \in 1..n}
    BY <2>3, <2>6
  <2> QED BY <2>1, <2>5, <2>7, CountIs
<1>5. CASE body.each = Nothing
  <2>4. PICK p, ts, weights : p = row.persona /\ ts = types /\ weights = body.types
    OBVIOUS
  <2>5. ts \in P!DerivedTypes(p, weights)
    BY <1>2, <1>5, <2>4 DEF P!TypesFor
  <2>1. /\ ts \in Seq(P!Positive(weights) \union
              (IF P!Positive(weights) = {} THEN {"current"} ELSE {}))
        /\ Len(ts) \in 1..P!MaxAccounts(p)
        /\ \A m, n \in 1..Len(ts) : ts[m] = ts[n] => m = n
    BY <2>5, DerivedFit
  <2>2. Len(ts) \in Nat /\ DOMAIN ts = 1..Len(ts)
    BY <2>1
  <2>3. P!CountOf(id) = Len(ts) /\ P!TypesOf(id) = {ts[m] : m \in 1..Len(ts)}
    BY <1>4, <2>2, <2>4
  <2>6. Cardinality(P!TypesOf(id)) = Len(ts)
    BY <2>1, <2>2, <2>3, ValuesOfInjection
  <2>7. P!TypesOf(id) \subseteq P!Positive(weights) \union
          (IF P!Positive(weights) = {} THEN {"current"} ELSE {})
    BY <2>1, <2>3
  <2> QED BY <1>2, <1>3, <1>5, <2>1, <2>3, <2>4, <2>6, <2>7
<1>6. CASE body.each # Nothing
  <2>1. body.each \in Nat
    BY <1>2, <1>6 DEF PInv, P!PopulationAssumption
  <2>2. DOMAIN types = 1..body.each
    BY <1>2, <1>6 DEF P!TypesFor
  <2> QED BY <1>2, <1>3, <1>4, <1>6, <2>1, <2>2
<1> QED BY <1>5, <1>6

(* For every bank, population and number of workers: the rows of a batch   *)
(* are in the tables together or not at all, at any moment.                *)
THEOREM BatchesAreWhole == P!PopulationAssumption /\ P!Spec => []P!BatchIsWhole
<1>1. PInv => P!BatchIsWhole
  BY WholeBatches
<1> QED BY <1>1, PFirst, PStep, PTL DEF P!Spec

(* And the login of each customer of an acknowledged batch is that         *)
(* customer's, unless its registration raised or another customer          *)
(* registered the same username.                                           *)
THEOREM LoginsAreTheirs == P!PopulationAssumption /\ P!Spec => []P!LoginsWork
<1>1. PInv => P!LoginsWork
  BY WorkingLogins
<1> QED BY <1>1, PFirst, PStep, PTL DEF P!Spec

(* And what was drawn for a customer stays what the body allows.           *)
THEOREM SelectionsAreAllowed == P!PopulationAssumption /\ P!Spec => []P!SelectionsFit
<1>1. PInv => P!SelectionsFit
  BY FittingSelections
<1> QED BY <1>1, PFirst, PStep, PTL DEF P!Spec

(***************************************************************************)
(* How an account comes by its history: History, likewise.                 *)
(***************************************************************************)
CONSTANTS
  BankAccounts, Linked, Imports, Ranges, Today, MonthLength, PayDay, PurchaseDays,
  MaxPurchases, Income, Spend, MaxCrashes

VARIABLES exists, posted, clock, frame, requests, crashes

H == INSTANCE History WITH
  Accounts <- BankAccounts, None <- Nothing, journal <- posted

Row == [account : BankAccounts \union {Nothing}, amount : Int, instant : Nat, booked : Int,
        by : Nat]

Asked == [op : {"import", "generate", "generate_bank"}, items : Seq(H!Item),
          range : Ranges \union {Nothing}, answer : {"none", "ok", "failed"}, count : Nat]

Frames == [pc : H!HistoryLabels, request : Nat, lines : Seq(H!Item), todo : Seq(BankAccounts),
           month : Int, row : Row \union {Nothing}, booked : Nat, total : Nat]

(* What a request that is served looks like. *)
Serving(f) ==
  /\ f.request \in DOMAIN requests
  /\ requests[f.request].answer = "none"
  /\ requests[f.request].op = "import" =>
       f.pc \in {"line", "post", "look"} /\ f.todo = <<>>
  /\ requests[f.request].op # "import" =>
       /\ f.pc # "look" /\ requests[f.request].range \in Ranges
       /\ f.lines # <<>> => f.todo # <<>>
  /\ f.pc \in {"bank", "list"} => requests[f.request].op = "generate_bank" /\ f.lines = <<>>
  /\ f.pc \in {"load", "balance"} => requests[f.request].op = "generate"
  /\ f.pc = "post" => f.row \in Row /\ f.lines # <<>> /\ f.row.by = f.request

TypesInv ==
  /\ clock \in Nat
  /\ posted \in Seq(Row)
  /\ requests \in Seq(Asked)
  /\ frame \in [Workers -> Frames]
  /\ \A i \in DOMAIN posted : posted[i].by \in DOMAIN requests
  /\ \A w \in Workers : IF frame[w].pc = "idle" THEN frame[w] = H!IdleFrame ELSE Serving(frame[w])
  /\ \A v, w \in Workers :
       v # w /\ frame[v].pc # "idle" /\ frame[w].pc # "idle" => frame[v].request # frame[w].request

Made(r) == Cardinality(H!RowsBy(r))

(* What an import has left is an initial part of it; an answer counts it. *)
Prefix(r) ==
  LET items == requests[r].items IN
  requests[r].op = "import" =>
    /\ Made(r) <= Len(items)
    /\ \A i \in H!RowsBy(r) : /\ posted[i].account = items[H!Nr(i)].account
                           /\ posted[i].amount = items[H!Nr(i)].amount
                           /\ ~H!Refused(items[H!Nr(i)])
    /\ requests[r].answer = "ok" => Made(r) = Len(items)
    /\ requests[r].answer = "failed" => Made(r) < Len(items) /\ H!Refused(items[Made(r) + 1])

Counted(r) == requests[r].answer = "ok" => requests[r].count = Made(r)

(* Of an import that is served the rest is still to come; and any request  *)
(* has counted what it has made.                                           *)
Rest(f) ==
  LET items == requests[f.request].items
      made == Made(f.request) IN
  /\ f.booked + f.total = made
  /\ requests[f.request].op = "import" =>
       /\ Len(f.lines) = Len(items) - made
       /\ \A k \in 1..Len(f.lines) : f.lines[k] = items[made + k]
       /\ f.pc = "post" => /\ f.row.account = f.lines[1].account
                           /\ f.row.amount = f.lines[1].amount
                           /\ ~H!Refused(f.lines[1])

BooksInv ==
  exists =>
    /\ \A r \in DOMAIN requests : Prefix(r) /\ Counted(r)
    /\ \A w \in Workers : frame[w].pc # "idle" => Rest(frame[w])

HInv == H!HistoryAssumption /\ TypesInv /\ BooksInv

-----------------------------------------------------------------------------
LEMMA HFirst == H!HistoryAssumption /\ H!Init => HInv
<1> SUFFICES ASSUME H!HistoryAssumption, H!Init PROVE HInv
  OBVIOUS
<1> USE DEF H!Init
<1>1. /\ posted = <<>> /\ DOMAIN posted = {} /\ posted \in Seq(Row)
      /\ requests = <<>> /\ DOMAIN requests = {} /\ requests \in Seq(Asked)
  OBVIOUS
<1>2. /\ H!IdleFrame \in Frames /\ H!IdleFrame.pc = "idle"
      /\ \A w \in Workers : frame[w] = H!IdleFrame
  BY DEF H!IdleFrame, Frames, H!HistoryLabels
<1>3. TypesInv
  BY <1>1, <1>2 DEF TypesInv, H!HistoryAssumption
<1>4. BooksInv
  BY <1>1, <1>2 DEF BooksInv
<1> QED BY <1>3, <1>4 DEF HInv

(* The number of a row, and of rows. *)
LEMMA NrIs ==
  ASSUME NEW i
  PROVE  /\ H!Nr(i) = Cardinality({j \in 1..i : posted[j].by = posted[i].by})
         /\ H!Nr(i)' = Cardinality({j \in 1..i : posted'[j].by = posted'[i].by})
<1>1. H!Nr(i) = Cardinality({j \in 1..i : posted[j].by = posted[i].by})
  BY DEF H!Nr, H!Cardinality, Cardinality
<1>2. H!Nr(i)' = Cardinality({j \in 1..i : posted'[j].by = posted'[i].by})
  BY DEF H!Nr, H!Cardinality, Cardinality
<1> QED BY <1>1, <1>2

LEMMA RowsAreFinite ==
  ASSUME TypesInv, NEW r
  PROVE  IsFiniteSet(H!RowsBy(r)) /\ Made(r) \in Nat
<1>1. posted \in Seq(Row) /\ Len(posted) \in Nat /\ DOMAIN posted = 1..Len(posted)
  BY DEF TypesInv
<1>2. IsFiniteSet(1..Len(posted))
  BY <1>1, FS_Interval
<1>3. H!RowsBy(r) \in SUBSET (1..Len(posted))
  BY <1>1 DEF H!RowsBy
<1> QED BY <1>2, <1>3, FS_Subset, FS_CardinalityType DEF Made

(* A row more. *)
LEMMA OneRowMore ==
  ASSUME TypesInv, NEW e \in Row, posted' = Append(posted, e)
  PROVE  /\ posted' \in Seq(Row)
         /\ DOMAIN posted' = DOMAIN posted \union {Len(posted) + 1}
         /\ Len(posted) + 1 \notin DOMAIN posted
         /\ \A i \in DOMAIN posted : posted'[i] = posted[i] /\ H!Nr(i)' = H!Nr(i)
         /\ posted'[Len(posted) + 1] = e
         /\ \A r : r # e.by => H!RowsBy(r)' = H!RowsBy(r) /\ Made(r)' = Made(r)
         /\ H!RowsBy(e.by)' = H!RowsBy(e.by) \union {Len(posted) + 1}
         /\ Made(e.by)' = Made(e.by) + 1
         /\ \A m : m = Len(posted) + 1 => H!Nr(m)' = Made(e.by) + 1
<1> DEFINE n == Len(posted)
<1>1. /\ posted \in Seq(Row) /\ n \in Nat /\ DOMAIN posted = 1..n
      /\ posted' \in Seq(Row) /\ DOMAIN posted' = 1..(n + 1) /\ posted'[n + 1] = e
      /\ \A i \in 1..n : posted'[i] = posted[i]
  BY DEF TypesInv
<1>2. 1..(n + 1) = 1..n \union {n + 1} /\ n + 1 \notin 1..n
  BY <1>1
<1>3. ASSUME NEW i \in 1..n PROVE H!Nr(i)' = H!Nr(i)
  <2>1. \A j \in 1..i : posted'[j].by = posted[j].by
    BY <1>1
  <2>2. {j \in 1..i : posted'[j].by = posted'[i].by} = {j \in 1..i : posted[j].by = posted[i].by}
    BY <1>1, <2>1
  <2> QED BY <2>2, NrIs
<1>4. ASSUME NEW r, r # e.by PROVE H!RowsBy(r)' = H!RowsBy(r)
  BY <1>1, <1>2, <1>4 DEF H!RowsBy
<1>5. H!RowsBy(e.by)' = H!RowsBy(e.by) \union {n + 1} /\ n + 1 \notin H!RowsBy(e.by)
  BY <1>1, <1>2 DEF H!RowsBy
<1>6. Made(e.by)' = Made(e.by) + 1
  <2>1. Cardinality(H!RowsBy(e.by) \union {n + 1}) = Cardinality(H!RowsBy(e.by)) + 1
    BY <1>5, RowsAreFinite, FS_AddElement
  <2> QED BY <1>5, <2>1 DEF Made
<1>7. ASSUME NEW m, m = n + 1 PROVE H!Nr(m)' = Made(e.by) + 1
  <2>1. H!RowsBy(e.by)' = {j \in 1..m : posted'[j].by = e.by}
    BY <1>1, <1>7 DEF H!RowsBy
  <2>2. H!Nr(m)' = Made(e.by)'
    <3>1. H!Nr(m)' = Cardinality({j \in 1..m : posted'[j].by = posted'[m].by})
      BY NrIs
    <3>2. posted'[m].by = e.by
      BY <1>1, <1>7
    <3>3. Made(e.by)' = Cardinality(H!RowsBy(e.by)')
      BY DEF Made
    <3> QED BY <2>1, <3>1, <3>2, <3>3
  <2> QED BY <1>6, <2>2
<1> QED BY <1>1, <1>2, <1>3, <1>4, <1>5, <1>6, <1>7 DEF Made

(* A request about which nothing happens. *)
LEMMA RequestStays ==
  ASSUME NEW r, requests'[r] = requests[r], H!RowsBy(r)' = H!RowsBy(r),
         \A i \in H!RowsBy(r) : posted'[i] = posted[i] /\ H!Nr(i)' = H!Nr(i)
  PROVE  (Prefix(r) => Prefix(r)') /\ (Counted(r) => Counted(r)')
<1>1. Made(r)' = Made(r)
  BY DEF Made
<1>2. Prefix(r) => Prefix(r)'
  BY <1>1 DEF Prefix
<1>3. Counted(r) => Counted(r)'
  BY <1>1 DEF Counted
<1> QED BY <1>2, <1>3

(* A step of worker w for request q, which books a row of q's at most and  *)
(* may begin q, as far as all others are concerned.                        *)
OfOne(w, q) ==
  /\ exists' => exists
  /\ DOMAIN requests' = DOMAIN requests \union {q}
  /\ \A r \in DOMAIN requests : r # q => requests'[r] = requests[r]
  /\ \A v \in Workers : v # w => frame'[v] = frame[v]
  /\ \A v \in Workers : v # w /\ frame[v].pc # "idle" => frame[v].request # q
  /\ \/ posted' = posted
     \/ \E e \in Row : posted' = Append(posted, e) /\ e.by = q

LEMMA OthersKeep ==
  ASSUME TypesInv, BooksInv, exists', NEW w \in Workers, NEW q, OfOne(w, q)
  PROVE  /\ \A r \in DOMAIN requests : r # q => Prefix(r)' /\ Counted(r)'
         /\ \A v \in Workers : v # w /\ frame[v].pc # "idle" => Rest(frame[v])'
<1>1. ASSUME NEW r, r # q
      PROVE  /\ H!RowsBy(r)' = H!RowsBy(r)
             /\ \A i \in H!RowsBy(r) : posted'[i] = posted[i] /\ H!Nr(i)' = H!Nr(i)
  <2>1. CASE posted' = posted
    BY <2>1 DEF H!RowsBy, H!Nr
  <2>2. ASSUME NEW e \in Row, posted' = Append(posted, e), e.by = q
        PROVE  /\ H!RowsBy(r)' = H!RowsBy(r)
               /\ \A i \in H!RowsBy(r) : posted'[i] = posted[i] /\ H!Nr(i)' = H!Nr(i)
    <3>1. \A i \in H!RowsBy(r) : i \in DOMAIN posted
      BY DEF H!RowsBy
    <3> QED BY <1>1, <2>2, <3>1, OneRowMore
  <2> QED BY <2>1, <2>2 DEF OfOne
<1>2. ASSUME NEW r \in DOMAIN requests, r # q PROVE Prefix(r)' /\ Counted(r)'
  BY <1>1, <1>2, RequestStays DEF OfOne, BooksInv
<1>3. ASSUME NEW v \in Workers, v # w, frame[v].pc # "idle" PROVE Rest(frame[v])'
  <2>1. PICK r : r = frame[v].request
    OBVIOUS
  <2>2. r \in DOMAIN requests /\ r # q /\ frame'[v] = frame[v] /\ requests'[r] = requests[r]
    BY <1>3, <2>1 DEF OfOne, TypesInv, Serving
  <2>3. Made(r)' = Made(r)
    BY <1>1, <2>2 DEF Made
  <2>4. Rest(frame[v])
    BY <1>3 DEF BooksInv, OfOne
  <2> QED BY <2>1, <2>2, <2>3, <2>4 DEF Rest
<1> QED BY <1>2, <1>3

(* What is left to show of a step for the books. *)
LEMMA BooksOfOne ==
  ASSUME TypesInv, BooksInv, NEW w \in Workers, NEW q, OfOne(w, q),
         exists' => /\ Prefix(q)' /\ Counted(q)'
                    /\ frame'[w].pc # "idle" => Rest(frame[w])'
  PROVE  BooksInv'
<1> SUFFICES ASSUME exists'
             PROVE  /\ \A r \in DOMAIN requests' : Prefix(r)' /\ Counted(r)'
                    /\ \A v \in Workers : frame'[v].pc # "idle" => Rest(frame[v])'
  BY DEF BooksInv
<1>1. \A r \in DOMAIN requests' : Prefix(r)' /\ Counted(r)'
  BY OthersKeep DEF OfOne
<1>2. \A v \in Workers : frame'[v].pc # "idle" => Rest(frame[v])'
  BY OthersKeep DEF OfOne
<1> QED BY <1>1, <1>2

(* And for the types: the others serve on what they served. *)
LEMMA TypesOfOne ==
  ASSUME TypesInv, NEW w \in Workers, NEW q, OfOne(w, q),
         clock' \in Nat, requests' \in Seq(Asked), frame' \in [Workers -> Frames],
         \/ frame'[w] = H!IdleFrame
         \/ frame'[w].pc # "idle" /\ frame'[w].request = q /\ Serving(frame[w])'
  PROVE  TypesInv'
<1>1. H!IdleFrame.pc = "idle"
  BY DEF H!IdleFrame
<1>2. posted' \in Seq(Row) /\ \A i \in DOMAIN posted' : posted'[i].by \in DOMAIN requests'
  <2>1. CASE posted' = posted
    BY <2>1 DEF OfOne, TypesInv
  <2>2. ASSUME NEW e \in Row, posted' = Append(posted, e), e.by = q
        PROVE  posted' \in Seq(Row) /\ \A i \in DOMAIN posted' : posted'[i].by \in DOMAIN requests'
    BY <2>2, OneRowMore DEF OfOne, TypesInv
  <2> QED BY <2>1, <2>2 DEF OfOne
<1>3. ASSUME NEW v \in Workers, v # w, frame[v].pc # "idle" PROVE Serving(frame[v])'
  <2>1. PICK r : r = frame[v].request
    OBVIOUS
  <2>2. /\ r \in DOMAIN requests /\ r # q /\ frame'[v] = frame[v] /\ requests'[r] = requests[r]
        /\ r \in DOMAIN requests' /\ Serving(frame[v])
    BY <1>3, <2>1 DEF OfOne, TypesInv, Serving
  <2> QED BY <2>1, <2>2 DEF Serving
<1>4. ASSUME NEW v \in Workers
      PROVE  IF frame'[v].pc = "idle" THEN frame'[v] = H!IdleFrame ELSE Serving(frame[v])'
  BY <1>1, <1>3 DEF OfOne, TypesInv
<1>5. ASSUME NEW u \in Workers, NEW v \in Workers, u # v,
             frame'[u].pc # "idle", frame'[v].pc # "idle"
      PROVE  frame'[u].request # frame'[v].request
  BY <1>1, <1>5, SMTT(40) DEF OfOne, TypesInv
<1> QED BY <1>2, <1>4, <1>5 DEF TypesInv

LEMMA StepOfOne ==
  ASSUME HInv, NEW w \in Workers, NEW q, OfOne(w, q),
         clock' \in Nat, requests' \in Seq(Asked), frame' \in [Workers -> Frames],
         \/ frame'[w] = H!IdleFrame
         \/ frame'[w].pc # "idle" /\ frame'[w].request = q /\ Serving(frame[w])',
         exists' => /\ Prefix(q)' /\ Counted(q)'
                    /\ frame'[w].pc # "idle" => Rest(frame[w])'
  PROVE  HInv'
BY TypesOfOne, BooksOfOne DEF HInv, H!HistoryAssumption

LEMMA BeginKeeps ==
  ASSUME HInv, NEW w \in Workers, NEW label, NEW op, NEW items \in Seq(H!Item),
         NEW todo \in Seq(BankAccounts), NEW range \in Ranges \union {Nothing},
         H!Begin(w, label, op, items, todo, range),
         \/ op = "import" /\ label = "line" /\ todo = <<>>
         \/ op = "generate" /\ label = "load" /\ range \in Ranges /\ items = <<>>
         \/ op = "generate_bank" /\ label = "bank" /\ range \in Ranges /\ items = <<>>
  PROVE  HInv'
<1> USE DEF HInv
<1>1. PICK q : q = Len(requests) + 1
  OBVIOUS
<1> DEFINE new == [op |-> op, items |-> items, range |-> range, answer |-> "none", count |-> 0]
           f == [frame[w] EXCEPT !.pc = label, !.request = q, !.lines = items, !.todo = todo]
<1>2. /\ frame[w].pc = "idle"
      /\ requests' = Append(requests, new)
      /\ frame' = [frame EXCEPT ![w] = f]
      /\ UNCHANGED <<exists, posted, clock, crashes>>
  BY <1>1 DEF H!Begin
<1>3. frame \in [Workers -> Frames] /\ frame[w] = H!IdleFrame
  BY <1>2 DEF TypesInv
<1>4. /\ f \in Frames /\ f.pc = label /\ f.request = q /\ f.lines = items /\ f.todo = todo
      /\ f.booked = 0 /\ f.total = 0 /\ label # "idle"
  <2>1. q \in Nat /\ label \in H!HistoryLabels /\ label # "idle"
    BY <1>1 DEF H!HistoryLabels, TypesInv
  <2>2. frame[w] \in Frames
    BY <1>3
  <2>3. f \in Frames
    BY <2>1, <2>2 DEF Frames
  <2>4. f.pc = label /\ f.request = q /\ f.lines = items /\ f.todo = todo
    BY <2>2 DEF Frames
  <2>5. f.booked = 0 /\ f.total = 0
    BY <1>3 DEF H!IdleFrame
  <2> QED BY <2>1, <2>3, <2>4, <2>5
<1>5. new \in Asked
  BY DEF Asked
<1> HIDE DEF new, f
<1>6. /\ requests' \in Seq(Asked) /\ requests'[q] = new /\ q \notin DOMAIN requests
      /\ DOMAIN requests' = DOMAIN requests \union {q}
      /\ \A r \in DOMAIN requests : requests'[r] = requests[r]
  BY <1>1, <1>2, <1>5, SMTT(40) DEF TypesInv
<1>7. /\ frame' \in [Workers -> Frames] /\ frame'[w] = f
      /\ \A v \in Workers : v # w => frame'[v] = frame[v]
  BY <1>2, <1>3, <1>4
<1>8. OfOne(w, q)
  BY <1>2, <1>6, <1>7 DEF OfOne, TypesInv, Serving
<1>9. Serving(frame[w])'
  BY <1>4, <1>6, <1>7 DEF Serving, new
<1>10. Made(q)' = 0 /\ H!RowsBy(q)' = {}
  <2>1. H!RowsBy(q)' = {}
    BY <1>2, <1>6 DEF H!RowsBy, TypesInv
  <2> QED BY <2>1, FS_EmptySet DEF Made
<1>11. Prefix(q)' /\ Counted(q)'
  BY <1>6, <1>10 DEF Prefix, Counted, new
<1>12. Rest(frame[w])'
  BY <1>4, <1>6, <1>7, <1>10 DEF Rest, new
<1> QED BY <1>2, <1>4, <1>6, <1>7, <1>8, <1>9, <1>11, <1>12, StepOfOne DEF TypesInv

(* A step that only changes what the worker knows. *)
LEMMA FrameStep ==
  ASSUME HInv, NEW w \in Workers, frame[w].pc # "idle",
         NEW f \in Frames, frame' = [frame EXCEPT ![w] = f],
         f.pc # "idle", f.request = frame[w].request, Serving(f), exists => Rest(f),
         UNCHANGED <<exists, posted, requests>>, clock' \in Nat
  PROVE  HInv'
<1> USE DEF HInv
<1>1. PICK q : q = frame[w].request
  OBVIOUS
<1>2. q \in DOMAIN requests
  BY <1>1 DEF TypesInv, Serving
<1>3. /\ frame' \in [Workers -> Frames] /\ frame'[w] = f
      /\ \A v \in Workers : v # w => frame'[v] = frame[v]
  BY DEF TypesInv
<1>4. OfOne(w, q)
  BY <1>1, <1>2, <1>3 DEF OfOne, TypesInv
<1>5. Serving(frame[w])'
  BY <1>3 DEF Serving
<1>6. exists' => Rest(frame[w])'
  <2>1. \A r : Made(r)' = Made(r)
    BY DEF Made, H!RowsBy
  <2> QED BY <1>3, <2>1 DEF Rest
<1>7. exists' => Prefix(q)' /\ Counted(q)'
  <2>1. H!RowsBy(q)' = H!RowsBy(q) /\ \A i : H!Nr(i)' = H!Nr(i)
    BY DEF H!RowsBy, H!Nr
  <2> QED BY <1>2, <2>1, RequestStays DEF BooksInv
<1> QED BY <1>1, <1>3, <1>4, <1>5, <1>6, <1>7, StepOfOne DEF TypesInv

LEMMA AnswerStep ==
  ASSUME HInv, NEW w \in Workers, frame[w].pc # "idle",
         NEW answer \in {"ok", "failed"}, NEW count \in Nat, H!Answer(w, answer, count),
         UNCHANGED <<exists, posted>>, clock' \in Nat,
         NEW q, q = frame[w].request,
         exists => /\ answer = "ok" => count = Made(q)
                   /\ requests[q].op = "import" =>
                        /\ answer = "ok" => Made(q) = Len(requests[q].items)
                        /\ answer = "failed" => /\ Made(q) < Len(requests[q].items)
                                                /\ H!Refused(requests[q].items[Made(q) + 1])
  PROVE  HInv'
<1> USE DEF HInv
<1> DEFINE r == [requests[q] EXCEPT !.answer = answer, !.count = count]
<1>1. q \in DOMAIN requests /\ requests[q] \in Asked
  BY DEF TypesInv, Serving
<1>2. r \in Asked /\ r.answer = answer /\ r.count = count
      /\ r.op = requests[q].op /\ r.items = requests[q].items
  BY <1>1 DEF Asked
<1>3. frame' = [frame EXCEPT ![w] = H!IdleFrame]
  BY DEF H!Answer, H!Idle
<1>4. requests' = [requests EXCEPT ![q] = r]
  BY DEF H!Answer
<1> HIDE DEF r
<1>5. /\ requests' \in Seq(Asked) /\ DOMAIN requests' = DOMAIN requests
      /\ requests'[q] = r
      /\ \A x \in DOMAIN requests : x # q => requests'[x] = requests[x]
  BY <1>1, <1>2, <1>4 DEF TypesInv
<1>6. H!IdleFrame \in Frames /\ H!IdleFrame.pc = "idle"
  BY DEF H!IdleFrame, Frames, H!HistoryLabels
<1>7. /\ frame' \in [Workers -> Frames] /\ frame'[w] = H!IdleFrame
      /\ \A v \in Workers : v # w => frame'[v] = frame[v]
  BY <1>3, <1>6 DEF TypesInv
<1>8. OfOne(w, q)
  BY <1>1, <1>5, <1>7 DEF OfOne, TypesInv
<1>9. exists' => Prefix(q)' /\ Counted(q)'
  <2>1. H!RowsBy(q)' = H!RowsBy(q) /\ Made(q)' = Made(q) /\ \A i : H!Nr(i)' = H!Nr(i)
    BY DEF H!RowsBy, H!Nr, Made
  <2>2. exists => Prefix(q)
    BY <1>1 DEF BooksInv
  <2> QED BY <1>2, <1>5, <2>1, <2>2 DEF Prefix, Counted
<1> QED BY <1>5, <1>6, <1>7, <1>8, <1>9, StepOfOne

(* What a worker that is not idle knows. *)
LEMMA Known ==
  ASSUME HInv, NEW w \in Workers, frame[w].pc # "idle", NEW q, q = frame[w].request
  PROVE  /\ frame[w] \in Frames /\ Serving(frame[w]) /\ H!Request(w) = requests[q]
         /\ q \in DOMAIN requests /\ requests[q] \in Asked /\ Made(q) \in Nat
         /\ requests[q].op # "import" => H!FirstMonth(requests[q].range) \in Int
         /\ exists => Rest(frame[w])
<1> USE DEF HInv
<1>1. /\ frame[w] \in Frames /\ Serving(frame[w]) /\ H!Request(w) = requests[q]
      /\ q \in DOMAIN requests /\ requests[q] \in Asked
  BY DEF TypesInv, Serving, H!Request
<1>2. requests[q].op # "import" => H!FirstMonth(requests[q].range) \in Int
  <2> SUFFICES ASSUME requests[q].range \in Ranges
               PROVE  H!FirstMonth(requests[q].range) \in Int
    BY <1>1 DEF Serving
  <2>1. requests[q].range.start \in Nat \ {0} /\ MonthLength \in Nat \ {0}
    BY DEF H!HistoryAssumption
  <2> QED BY <2>1, SMT DEF H!FirstMonth
<1> QED BY <1>1, <1>2, RowsAreFinite DEF BooksInv

(* The accounts to come. *)
LEMMA AccountsOfBank ==
  ASSUME H!HistoryAssumption
  PROVE  H!SetToSeq(Linked) \in Seq(BankAccounts)
<1>1. IsFiniteSet(Linked) /\ Linked \subseteq BankAccounts
  BY DEF H!HistoryAssumption, H!IsFiniteSet, IsFiniteSet
<1>2. Cardinality(Linked) \in Nat /\ ExistsBijection(1..Cardinality(Linked), Linked)
  BY <1>1, FS_CardinalityType
<1>3. PICK f : f \in [1..Cardinality(Linked) -> Linked] /\ IsInjective(f)
  BY <1>2 DEF ExistsBijection, Bijection, Injection, IsInjective
<1>4. H!SetToSeq(Linked) = CHOOSE g \in [1..Cardinality(Linked) -> Linked] : IsInjective(g)
  BY DEF H!SetToSeq, H!IsInjective, IsInjective, H!Cardinality, Cardinality
<1>5. H!SetToSeq(Linked) \in [1..Cardinality(Linked) -> Linked]
  BY <1>3, <1>4
<1> QED BY <1>1, <1>2, <1>5

LEMMA LoadKeeps ==
  ASSUME HInv, NEW w \in Workers, H!Load(w)
  PROVE  HInv'
<1> USE DEF HInv
<1>1. PICK q : q = frame[w].request
  OBVIOUS
<1>2. frame[w].pc = "load" /\ UNCHANGED <<exists, posted, clock>> /\ clock \in Nat
  BY DEF H!Load, TypesInv
<1>3. /\ frame[w] \in Frames /\ Serving(frame[w]) /\ H!Request(w) = requests[q]
      /\ requests[q].op = "generate" /\ H!FirstMonth(requests[q].range) \in Int
      /\ exists => Rest(frame[w])
  BY <1>1, <1>2, Known DEF Serving
<1>4. CASE ~exists /\ H!Answer(w, "failed", 0)
  BY <1>1, <1>2, <1>4, AnswerStep
<1>5. CASE /\ exists
           /\ frame' = [frame EXCEPT ![w].pc = "line",
                                     ![w].month = H!FirstMonth(H!Request(w).range)]
           /\ UNCHANGED requests
  <2> DEFINE f == [frame[w] EXCEPT !.pc = "line", !.month = H!FirstMonth(requests[q].range)]
  <2>1. /\ f \in Frames /\ f.pc = "line" /\ f.request = frame[w].request
        /\ f.lines = frame[w].lines /\ f.todo = frame[w].todo
        /\ f.booked = frame[w].booked /\ f.total = frame[w].total
    BY <1>3 DEF Frames, H!HistoryLabels
  <2>2. frame' = [frame EXCEPT ![w] = f]
    BY <1>3, <1>5
  <2> HIDE DEF f
  <2>3. Serving(f) /\ Rest(f)
    BY <1>1, <1>3, <1>5, <2>1 DEF Serving, Rest
  <2> QED BY <1>2, <1>5, <2>1, <2>2, <2>3, FrameStep
<1> QED BY <1>4, <1>5 DEF H!Load

LEMMA ListKeeps ==
  ASSUME HInv, NEW w \in Workers, H!List(w)
  PROVE  HInv'
<1> USE DEF HInv
<1>1. PICK q : q = frame[w].request
  OBVIOUS
<1>2. /\ frame[w].pc = "list" /\ UNCHANGED <<exists, posted, clock, requests>> /\ clock \in Nat
  BY DEF H!List, TypesInv
<1>3. /\ frame[w] \in Frames /\ Serving(frame[w]) /\ H!Request(w) = requests[q]
      /\ requests[q].op = "generate_bank" /\ H!FirstMonth(requests[q].range) \in Int
      /\ exists => Rest(frame[w])
  BY <1>1, <1>2, Known DEF Serving
<1>4. PICK todo \in Seq(BankAccounts) : todo = IF exists THEN H!SetToSeq(Linked) ELSE <<>>
  <2>1. <<>> \in Seq(BankAccounts)
    OBVIOUS
  <2> QED BY <2>1, AccountsOfBank
<1> DEFINE f == [frame[w] EXCEPT !.pc = "line", !.todo = todo,
                                 !.month = H!FirstMonth(requests[q].range)]
<1>5. /\ f \in Frames /\ f.pc = "line" /\ f.request = frame[w].request
      /\ f.lines = frame[w].lines /\ f.todo = todo
      /\ f.booked = frame[w].booked /\ f.total = frame[w].total
  BY <1>3 DEF Frames, H!HistoryLabels
<1>6. frame' = [frame EXCEPT ![w] = f]
  BY <1>3, <1>4 DEF H!List
<1> HIDE DEF f
<1>7. frame[w].lines = <<>>
  BY <1>2, <1>3 DEF Serving
<1>8. Serving(f) /\ (exists => Rest(f))
  BY <1>1, <1>3, <1>5, <1>7 DEF Serving, Rest
<1> QED BY <1>2, <1>5, <1>6, <1>8, FrameStep

LEMMA LinesOfAMonth ==
  ASSUME H!HistoryAssumption, NEW a \in BankAccounts, NEW month, NEW range,
         NEW lines \in H!MonthLines(a, month, range)
  PROVE  lines \in Seq(H!Item)
<1> DEFINE income == {<<>>, <<H!Line(a, Income)>>}
<1>1. PICK start \in income, n \in Nat : lines = start \o [i \in 1..n |-> H!Line(a, -Spend)]
  <2>1. MaxPurchases \in Nat
    BY DEF H!HistoryAssumption
  <2>2. \A low \in {0, 1}, high \in {0, MaxPurchases} : low..high \subseteq Nat
    BY <2>1
  <2> QED BY <2>2 DEF H!MonthLines
<1>2. H!Line(a, Income) \in H!Item /\ H!Line(a, -Spend) \in H!Item
  BY DEF H!Line, H!Item, H!HistoryAssumption
<1>3. start \in Seq(H!Item)
  <2>1. CASE start = <<>>
    BY <2>1
  <2>2. CASE start = <<H!Line(a, Income)>>
    BY <1>2, <2>2
  <2> QED BY <2>1, <2>2
<1>4. [i \in 1..n |-> H!Line(a, -Spend)] \in Seq(H!Item)
  <2>1. [i \in 1..n |-> H!Line(a, -Spend)] \in [1..n -> H!Item]
    BY <1>2
  <2> QED BY <2>1
<1> QED BY <1>1, <1>3, <1>4, ConcatProperties

LEMMA NextMonthKeeps ==
  ASSUME HInv, NEW w \in Workers, H!NextMonth(w)
  PROVE  HInv'
<1> USE DEF HInv
<1>1. PICK q : q = frame[w].request
  OBVIOUS
<1>2. /\ frame[w].pc = "line" /\ frame[w].todo # <<>>
      /\ UNCHANGED <<exists, posted, clock, requests>> /\ clock \in Nat
  BY DEF H!NextMonth, TypesInv
<1>3. /\ frame[w] \in Frames /\ Serving(frame[w]) /\ requests[q].op # "import"
      /\ exists => Rest(frame[w])
  BY <1>1, <1>2, Known DEF Serving
<1>4. Head(frame[w].todo) \in BankAccounts
  BY <1>2, <1>3 DEF Frames
<1>5. PICK lines \in Seq(H!Item) :
        frame' = [frame EXCEPT ![w].lines = lines, ![w].month = @ + 1]
  BY <1>4, LinesOfAMonth DEF H!NextMonth
<1> DEFINE f == [frame[w] EXCEPT !.lines = lines, !.month = frame[w].month + 1]
<1>6. /\ f \in Frames /\ f.pc = "line" /\ f.request = frame[w].request
      /\ f.lines = lines /\ f.todo = frame[w].todo
      /\ f.booked = frame[w].booked /\ f.total = frame[w].total
  <2>1. frame[w].month + 1 \in Int
    BY <1>3 DEF Frames
  <2> QED BY <1>2, <1>3, <2>1 DEF Frames
<1>7. frame' = [frame EXCEPT ![w] = f]
  BY <1>5
<1> HIDE DEF f
<1>8. Serving(f) /\ (exists => Rest(f))
  BY <1>1, <1>2, <1>3, <1>6 DEF Serving, Rest
<1> QED BY <1>2, <1>6, <1>7, <1>8, FrameStep

(* A month, an account or the rest of one is given up; nothing is counted  *)
(* that was not made, as long as there is a bank.                          *)
LEMMA NextAccountKeeps ==
  ASSUME HInv, NEW w \in Workers, frame[w].pc # "idle", NEW counted \in Nat,
         H!NextAccount(w, counted), frame[w].todo # <<>>,
         exists => counted = frame[w].booked,
         UNCHANGED <<exists, posted, clock>>
  PROVE  HInv'
<1> USE DEF HInv
<1>1. PICK q : q = frame[w].request
  OBVIOUS
<1>2. clock \in Nat /\ UNCHANGED requests
  BY DEF TypesInv, H!NextAccount
<1>3. /\ frame[w] \in Frames /\ Serving(frame[w]) /\ requests[q].op # "import"
      /\ H!Request(w) = requests[q] /\ H!FirstMonth(requests[q].range) \in Int
      /\ exists => Rest(frame[w])
  BY <1>1, Known DEF Serving
<1> DEFINE f == [frame[w] EXCEPT !.pc = "line", !.todo = Tail(frame[w].todo), !.lines = <<>>,
                                 !.month = H!FirstMonth(requests[q].range), !.row = Nothing,
                                 !.booked = 0, !.total = frame[w].total + counted]
<1>4. /\ f \in Frames /\ f.pc = "line" /\ f.request = frame[w].request
      /\ f.lines = <<>> /\ f.booked = 0 /\ f.total = frame[w].total + counted
  <2>1. /\ Tail(frame[w].todo) \in Seq(BankAccounts) /\ frame[w].total + counted \in Nat
        /\ <<>> \in Seq(H!Item)
    BY <1>3 DEF Frames
  <2> QED BY <1>3, <2>1 DEF Frames, H!HistoryLabels
<1>5. frame' = [frame EXCEPT ![w] = f]
  BY <1>3 DEF H!NextAccount
<1> HIDE DEF f
<1>6. Serving(f)
  BY <1>1, <1>3, <1>4 DEF Serving
<1>7. exists => Rest(f)
  <2>1. frame[w].booked \in Nat /\ frame[w].total \in Nat
    BY <1>3 DEF Frames
  <2> QED BY <1>1, <1>3, <1>4, <2>1 DEF Rest
<1> QED BY <1>2, <1>4, <1>5, <1>6, <1>7, FrameStep

(* A step to another label. *)
LEMMA GotoKeeps ==
  ASSUME HInv, NEW w \in Workers, frame[w].pc # "idle",
         NEW label \in H!HistoryLabels \ {"idle", "post"}, H!Goto(w, label),
         NEW q, q = frame[w].request,
         label \in {"bank", "list"} =>
           requests[q].op = "generate_bank" /\ frame[w].lines = <<>>,
         label \in {"load", "balance"} => requests[q].op = "generate",
         label = "look" => requests[q].op = "import",
         requests[q].op = "import" => label \in {"line", "look"},
         UNCHANGED <<exists, posted, clock, requests>>
  PROVE  HInv'
<1>1. /\ frame[w] \in Frames /\ Serving(frame[w]) /\ (exists => Rest(frame[w]))
      /\ clock' \in Nat
  BY Known DEF HInv, TypesInv
<1> DEFINE f == [frame[w] EXCEPT !.pc = label]
<1>2. /\ f \in Frames /\ f.pc = label /\ f.request = frame[w].request
      /\ f.lines = frame[w].lines /\ f.todo = frame[w].todo
      /\ f.booked = frame[w].booked /\ f.total = frame[w].total
  BY <1>1 DEF Frames
<1>3. frame' = [frame EXCEPT ![w] = f]
  BY DEF H!Goto
<1> HIDE DEF f
<1>4. Serving(f)
  BY <1>1, <1>2 DEF Serving
<1>5. exists => Rest(f)
  BY <1>1, <1>2 DEF Rest
<1> QED BY <1>1, <1>2, <1>3, <1>4, <1>5, FrameStep

LEMMA BankKeeps ==
  ASSUME HInv, NEW w \in Workers, H!Bank(w)
  PROVE  HInv'
<1>1. PICK q : q = frame[w].request
  OBVIOUS
<1>2. frame[w].pc = "bank" /\ UNCHANGED <<exists, posted, clock>> /\ clock \in Nat
  BY DEF H!Bank, HInv, TypesInv
<1>3. requests[q].op = "generate_bank" /\ frame[w].lines = <<>>
  BY <1>1, <1>2, Known DEF Serving
<1>4. CASE ~exists /\ H!Answer(w, "failed", 0)
  BY <1>1, <1>2, <1>4, AnswerStep
<1>5. CASE exists /\ H!Goto(w, "list") /\ UNCHANGED requests
  BY <1>1, <1>2, <1>3, <1>5, GotoKeeps DEF H!HistoryLabels
<1> QED BY <1>4, <1>5 DEF H!Bank

(* What a worker has counted. *)
LEMMA CountIsMade ==
  ASSUME HInv, NEW w \in Workers, frame[w].pc # "idle", NEW q, q = frame[w].request
  PROVE  /\ frame[w].total + frame[w].booked \in Nat
         /\ exists => frame[w].total + frame[w].booked = Made(q)
<1>1. frame[w].total \in Nat /\ frame[w].booked \in Nat
  BY Known DEF Frames
<1> QED BY <1>1, Known DEF Rest

LEMMA DoneKeeps ==
  ASSUME HInv, NEW w \in Workers, H!Done(w)
  PROVE  HInv'
<1>1. PICK q : q = frame[w].request
  OBVIOUS
<1>2. /\ frame[w].pc = "line" /\ frame[w].lines = <<>>
      /\ UNCHANGED <<exists, posted, clock>> /\ clock \in Nat
  BY DEF H!Done, HInv, TypesInv
<1>3. /\ frame[w] \in Frames /\ requests[q] \in Asked /\ H!Request(w) = requests[q]
      /\ exists => Rest(frame[w])
  BY <1>1, <1>2, Known
<1>4. CASE requests[q].op = "import" /\ H!Answer(w, "ok", Len(requests[q].items))
  <2>1. requests[q].items \in Seq(H!Item) /\ Len(requests[q].items) \in Nat
    BY <1>3 DEF Asked
  <2>2. exists => Made(q) = Len(requests[q].items)
    <3>1. Len(frame[w].lines) = 0 /\ Made(q) \in Nat
      BY <1>1, <1>2, Known
    <3> QED BY <1>1, <1>3, <1>4, <2>1, <3>1 DEF Rest
  <2> QED BY <1>1, <1>2, <1>4, <2>1, <2>2, AnswerStep
<1>5. CASE requests[q].op = "generate" /\ H!Goto(w, "balance") /\ UNCHANGED requests
  BY <1>1, <1>2, <1>5, GotoKeeps DEF H!HistoryLabels
<1>6. CASE /\ requests[q].op = "generate_bank"
           /\ H!Answer(w, "ok", frame[w].total + frame[w].booked)
  <2>1. /\ frame[w].total + frame[w].booked \in Nat
        /\ exists => frame[w].total + frame[w].booked = Made(q)
    BY <1>1, <1>2, CountIsMade
  <2> QED BY <1>1, <1>2, <1>6, <2>1, AnswerStep
<1> QED BY <1>3, <1>4, <1>5, <1>6 DEF H!Done

LEMMA BalanceKeeps ==
  ASSUME HInv, NEW w \in Workers, H!Balance(w)
  PROVE  HInv'
<1>1. PICK q : q = frame[w].request
  OBVIOUS
<1>2. frame[w].pc = "balance" /\ UNCHANGED <<exists, posted, clock>> /\ clock \in Nat
  BY DEF H!Balance, HInv, TypesInv
<1>3. requests[q].op = "generate"
  BY <1>1, <1>2, Known DEF Serving
<1>4. CASE ~exists /\ H!Answer(w, "failed", 0)
  BY <1>1, <1>2, <1>4, AnswerStep
<1>5. CASE exists /\ H!Answer(w, "ok", frame[w].total + frame[w].booked)
  <2>1. /\ frame[w].total + frame[w].booked \in Nat
        /\ exists => frame[w].total + frame[w].booked = Made(q)
    BY <1>1, <1>2, CountIsMade
  <2> QED BY <1>1, <1>2, <1>3, <1>5, <2>1, AnswerStep
<1> QED BY <1>4, <1>5 DEF H!Balance

LEMMA AccountDoneKeeps ==
  ASSUME HInv, NEW w \in Workers, H!AccountDone(w)
  PROVE  HInv'
<1>1. /\ frame[w].pc = "line" /\ frame[w].todo # <<>> /\ H!NextAccount(w, frame[w].booked)
      /\ UNCHANGED <<exists, posted, clock>>
  BY DEF H!AccountDone
<1>2. frame[w].booked \in Nat
  BY <1>1, Known DEF Frames
<1> QED BY <1>1, <1>2, NextAccountKeeps

(* An error: without a bank, or where an import is refused an item. *)
LEMMA FailKeeps ==
  ASSUME HInv, NEW w \in Workers, frame[w].pc # "idle", frame[w].lines # <<>> \/ H!Importing(w),
         H!Fail(w), UNCHANGED <<exists, posted, clock>>,
         exists => /\ H!Importing(w) /\ frame[w].lines # <<>>
                   /\ H!Refused(Head(frame[w].lines))
  PROVE  HInv'
<1>1. PICK q : q = frame[w].request
  OBVIOUS
<1>2. /\ frame[w] \in Frames /\ Serving(frame[w]) /\ H!Request(w) = requests[q]
      /\ requests[q] \in Asked /\ Made(q) \in Nat /\ (exists => Rest(frame[w]))
  BY <1>1, Known
<1>3. clock' \in Nat
  BY DEF HInv, TypesInv
<1>4. CASE H!Request(w).op = "generate_bank"
  <2>1. ~exists /\ frame[w].todo # <<>> /\ H!NextAccount(w, 0)
    BY <1>1, <1>2, <1>4 DEF H!Fail, H!Importing, Serving
  <2> QED BY <2>1, NextAccountKeeps
<1>5. CASE H!Request(w).op # "generate_bank"
  <2>1. H!Answer(w, "failed", 0)
    BY <1>5 DEF H!Fail
  <2>2. ASSUME exists
        PROVE  requests[q].op = "import" /\ Made(q) < Len(requests[q].items)
               /\ H!Refused(requests[q].items[Made(q) + 1])
    <3>1. /\ frame[w].lines \in Seq(H!Item) /\ frame[w].lines # <<>>
          /\ requests[q].items \in Seq(H!Item)
      BY <1>2, <2>2 DEF Frames, Asked
    <3>2. /\ Len(frame[w].lines) \in Nat \ {0} /\ Len(requests[q].items) \in Nat
          /\ Head(frame[w].lines) = frame[w].lines[1]
      BY <3>1
    <3>3. /\ requests[q].op = "import"
          /\ Len(frame[w].lines) = Len(requests[q].items) - Made(q)
          /\ frame[w].lines[1] = requests[q].items[Made(q) + 1]
      BY <1>1, <1>2, <2>2, <3>2 DEF H!Importing, Rest
    <3> QED BY <1>2, <2>2, <3>2, <3>3
  <2> QED BY <1>1, <1>3, <2>1, <2>2, AnswerStep
<1> QED BY <1>4, <1>5

LEMMA ConstructKeeps ==
  ASSUME HInv, NEW w \in Workers, H!Construct(w)
  PROVE  HInv'
<1>1. PICK q : q = frame[w].request
  OBVIOUS
<1>2. /\ frame[w].pc = "line" /\ frame[w].lines # <<>> /\ UNCHANGED <<exists, posted>>
  BY DEF H!Construct
<1>3. /\ frame[w] \in Frames /\ Serving(frame[w]) /\ H!Request(w) = requests[q]
      /\ q \in DOMAIN requests
      /\ requests[q] \in Asked /\ Made(q) \in Nat /\ (exists => Rest(frame[w]))
  BY <1>1, <1>2, Known
<1>4. PICK line : line = Head(frame[w].lines)
  OBVIOUS
<1>5. /\ frame[w].lines \in Seq(H!Item) /\ line \in H!Item
      /\ line = frame[w].lines[1] /\ Len(frame[w].lines) \in Nat \ {0}
  BY <1>2, <1>3, <1>4 DEF Frames
<1>6. CASE /\ H!Importing(w) /\ H!Fail(w) /\ UNCHANGED clock
           /\ ~(exists /\ line.account # Nothing /\ line.matches)
  BY <1>2, <1>4, <1>6, FailKeeps DEF H!Refused
<1>7. CASE /\ H!Importing(w) => exists /\ line.account # Nothing /\ line.matches
           /\ H!Build(w)
  <2>1. clock \in Nat /\ clock' \in Nat /\ UNCHANGED requests
    BY <1>7 DEF H!Build, HInv, TypesInv
  <2>2. PICK instant \in Nat, offset \in Int :
          /\ instant = IF line.date = Nothing THEN clock ELSE line.date.instant
          /\ offset = IF line.date = Nothing THEN 0 ELSE line.date.offset
    <3>1. line.date = Nothing \/ (line.date.instant \in Nat /\ line.date.offset \in Int)
      BY <1>5 DEF H!Item, H!Dates
    <3> QED BY <2>1, <3>1
  <2> DEFINE row == [account |-> line.account, amount |-> line.amount, instant |-> instant,
                     booked |-> instant + offset, by |-> q]
             f == [frame[w] EXCEPT !.pc = "post", !.row = row]
  <2>3. row \in Row /\ row.by = q /\ row.account = line.account /\ row.amount = line.amount
    <3>1. q \in Nat
      BY <1>1, <1>3 DEF Frames
    <3>2. instant + offset \in Int
      BY <2>2
    <3>3. line.account \in BankAccounts \union {Nothing} /\ line.amount \in Int
      BY <1>5 DEF H!Item
    <3> QED BY <2>2, <3>1, <3>2, <3>3 DEF Row
  <2>4. frame' = [frame EXCEPT ![w] = f]
    BY <1>1, <1>4, <1>7, <2>2 DEF H!Build
  <2> HIDE DEF row
  <2>5. /\ f \in Frames /\ f.pc = "post" /\ f.row = row /\ f.request = frame[w].request
        /\ f.lines = frame[w].lines /\ f.todo = frame[w].todo
        /\ f.booked = frame[w].booked /\ f.total = frame[w].total
    BY <1>3, <2>3 DEF Frames, H!HistoryLabels
  <2> HIDE DEF f
  <2>6. Serving(f)
    BY <1>1, <1>2, <1>3, <2>3, <2>5 DEF Serving
  <2>7. exists => Rest(f)
    BY <1>1, <1>3, <1>5, <1>7, <2>3, <2>5 DEF Rest, H!Refused, H!Importing
  <2> QED BY <1>2, <2>1, <2>4, <2>5, <2>6, <2>7, FrameStep
<1> QED BY <1>4, <1>6, <1>7 DEF H!Construct

LEMMA LookKeeps ==
  ASSUME HInv, NEW w \in Workers, H!Look(w)
  PROVE  HInv'
<1>1. PICK q : q = frame[w].request
  OBVIOUS
<1>2. /\ frame[w].pc = "look" /\ UNCHANGED <<exists, posted, clock>> /\ clock \in Nat
  BY DEF H!Look, HInv, TypesInv
<1>3. /\ frame[w] \in Frames /\ Serving(frame[w]) /\ H!Request(w) = requests[q]
      /\ requests[q].op = "import" /\ (exists => Rest(frame[w]))
  BY <1>1, <1>2, Known DEF Serving
<1>4. CASE ~exists /\ H!Fail(w)
  BY <1>2, <1>3, <1>4, FailKeeps DEF H!Importing
<1>5. CASE exists /\ H!Goto(w, "line") /\ UNCHANGED requests
  <2> DEFINE f == [frame[w] EXCEPT !.pc = "line"]
  <2>1. /\ f \in Frames /\ f.pc = "line" /\ f.request = frame[w].request
        /\ f.lines = frame[w].lines /\ f.todo = frame[w].todo
        /\ f.booked = frame[w].booked /\ f.total = frame[w].total
    BY <1>3 DEF Frames, H!HistoryLabels
  <2>2. frame' = [frame EXCEPT ![w] = f]
    BY <1>5 DEF H!Goto
  <2> HIDE DEF f
  <2>3. Serving(f) /\ Rest(f)
    BY <1>1, <1>3, <1>5, <2>1 DEF Serving, Rest
  <2> QED BY <1>2, <1>5, <2>1, <2>2, <2>3, FrameStep
<1> QED BY <1>4, <1>5 DEF H!Look

(* The row is booked: the next item of an import, a line of the generator. *)
LEMMA BookingKeeps ==
  ASSUME HInv, NEW w \in Workers, frame[w].pc = "post", exists,
         posted' = Append(posted, frame[w].row),
         frame' = [frame EXCEPT ![w].pc = IF H!Importing(w) THEN "look" ELSE "line",
                                ![w].lines = Tail(@), ![w].row = Nothing, ![w].booked = @ + 1],
         UNCHANGED <<exists, clock, requests>>
  PROVE  HInv'
<1>1. PICK q : q = frame[w].request
  OBVIOUS
<1>2. /\ frame[w] \in Frames /\ Serving(frame[w]) /\ H!Request(w) = requests[q]
      /\ q \in DOMAIN requests
      /\ requests[q] \in Asked /\ Made(q) \in Nat /\ Rest(frame[w])
  BY <1>1, Known
<1>3. PICK e : e = frame[w].row
  OBVIOUS
<1>4. e \in Row /\ e.by = q /\ frame[w].lines # <<>> /\ requests[q].answer = "none"
  BY <1>1, <1>2, <1>3 DEF Serving
<1>5. TypesInv /\ BooksInv /\ clock' \in Nat /\ requests' \in Seq(Asked)
  BY DEF HInv, TypesInv
<1>6. PICK n : n = Len(posted) + 1
  OBVIOUS
<1>7. /\ \A i \in DOMAIN posted : posted'[i] = posted[i] /\ H!Nr(i)' = H!Nr(i)
      /\ posted'[n] = e /\ H!Nr(n)' = Made(q) + 1
      /\ H!RowsBy(q)' = H!RowsBy(q) \union {n} /\ Made(q)' = Made(q) + 1
  BY <1>3, <1>4, <1>5, <1>6, OneRowMore
<1> PICK label \in {"look", "line"} : label = IF H!Importing(w) THEN "look" ELSE "line"
  OBVIOUS
<1> DEFINE f == [frame[w] EXCEPT !.pc = label,
                                 !.lines = Tail(frame[w].lines), !.row = Nothing,
                                 !.booked = frame[w].booked + 1]
           lines == frame[w].lines
           items == requests[q].items
<1>8. /\ lines \in Seq(H!Item) /\ Len(lines) \in Nat \ {0}
      /\ Tail(lines) \in Seq(H!Item) /\ Len(Tail(lines)) = Len(lines) - 1
      /\ \A k \in 1..Len(Tail(lines)) : Tail(lines)[k] = lines[k + 1]
  BY <1>2, <1>4 DEF Frames
<1>9. items \in Seq(H!Item) /\ Len(items) \in Nat
  BY <1>2 DEF Asked
<1>10. /\ f \in Frames /\ f.pc = label
       /\ f.request = q /\ f.lines = Tail(lines) /\ f.todo = frame[w].todo
       /\ f.booked = frame[w].booked + 1 /\ f.total = frame[w].total
  <2>1. /\ frame[w].booked + 1 \in Nat /\ Nothing \in Row \union {Nothing}
        /\ label \in H!HistoryLabels
    BY <1>2 DEF Frames, H!HistoryLabels
  <2>2. f \in Frames
    BY <1>2, <1>8, <2>1 DEF Frames
  <2> QED BY <1>1, <1>2, <2>2 DEF Frames
<1>11. frame' = [frame EXCEPT ![w] = f]
  OBVIOUS
<1> HIDE DEF f
<1>12. /\ frame' \in [Workers -> Frames] /\ frame'[w] = f
       /\ \A v \in Workers : v # w => frame'[v] = frame[v]
  <2>1. frame \in [Workers -> Frames]
    BY <1>5 DEF TypesInv
  <2>2. f \in Frames
    BY <1>10
  <2>3. \A S : frame \in [Workers -> S] /\ f \in S =>
               [frame EXCEPT ![w] = f] \in [Workers -> S]
    OBVIOUS
  <2>4. frame' \in [Workers -> Frames]
    BY <1>11, <2>1, <2>2, <2>3
  <2>5. frame'[w] = f /\ \A v \in Workers : v # w => frame'[v] = frame[v]
    BY <1>11, <2>1
  <2> QED BY <2>4, <2>5
<1>13. OfOne(w, q)
  <2>1. \A v \in Workers : v # w /\ frame[v].pc # "idle" => frame[v].request # q
    BY <1>1, <1>5 DEF TypesInv
  <2>2. \A v \in Workers : v # w => frame'[v] = frame[v]
    BY <1>12
  <2>3. DOMAIN requests' = DOMAIN requests \union {q} /\ requests' = requests
    BY <1>2
  <2>4. \E x \in Row : posted' = Append(posted, x) /\ x.by = q
    BY <1>3, <1>4
  <2> QED BY <2>1, <2>2, <2>3, <2>4 DEF OfOne
<1>14. Serving(frame[w])' /\ f.pc # "idle"
  BY <1>1, <1>2, <1>10, <1>12 DEF Serving, H!Importing
<1>15. requests[q].op = "import" =>
         /\ Len(lines) = Len(items) - Made(q)
         /\ \A k \in 1..Len(lines) : lines[k] = items[Made(q) + k]
         /\ e.account = items[Made(q) + 1].account /\ e.amount = items[Made(q) + 1].amount
         /\ ~H!Refused(items[Made(q) + 1])
  <2> SUFFICES ASSUME requests[q].op = "import"
               PROVE  /\ Len(lines) = Len(items) - Made(q)
                      /\ \A k \in 1..Len(lines) : lines[k] = items[Made(q) + k]
                      /\ e.account = items[Made(q) + 1].account
                      /\ e.amount = items[Made(q) + 1].amount
                      /\ ~H!Refused(items[Made(q) + 1])
    OBVIOUS
  <2>1. /\ Len(lines) = Len(items) - Made(q)
        /\ \A k \in 1..Len(lines) : lines[k] = items[Made(q) + k]
        /\ e.account = lines[1].account /\ e.amount = lines[1].amount /\ ~H!Refused(lines[1])
    BY <1>1, <1>2, <1>3 DEF Rest
  <2>2. lines[1] = items[Made(q) + 1]
    BY <1>8, <2>1, SMTT(40)
  <2> QED BY <2>1, <2>2
<1>16. Prefix(q)'
  <2> SUFFICES ASSUME requests[q].op = "import"
               PROVE  /\ Made(q)' <= Len(items)
                      /\ \A i \in H!RowsBy(q)' :
                           /\ posted'[i].account = items[H!Nr(i)'].account
                           /\ posted'[i].amount = items[H!Nr(i)'].amount
                           /\ ~H!Refused(items[H!Nr(i)'])
    BY <1>4 DEF Prefix, H!Refused
  <2>1. Made(q)' <= Len(items)
    BY <1>2, <1>7, <1>8, <1>9, <1>15
  <2>2. ASSUME NEW i \in H!RowsBy(q)
        PROVE  /\ posted'[i].account = items[H!Nr(i)'].account
               /\ posted'[i].amount = items[H!Nr(i)'].amount
               /\ ~H!Refused(items[H!Nr(i)'])
    <3>1. i \in DOMAIN posted
      BY DEF H!RowsBy
    <3>2. Prefix(q)
      BY <1>2, <1>5 DEF BooksInv
    <3>3. /\ posted[i].account = items[H!Nr(i)].account
          /\ posted[i].amount = items[H!Nr(i)].amount /\ ~H!Refused(items[H!Nr(i)])
      BY <3>2 DEF Prefix
    <3> QED BY <1>7, <3>1, <3>3
  <2>3. /\ posted'[n].account = items[H!Nr(n)'].account
        /\ posted'[n].amount = items[H!Nr(n)'].amount
        /\ ~H!Refused(items[H!Nr(n)'])
    BY <1>7, <1>15
  <2> QED BY <1>7, <2>1, <2>2, <2>3
<1>17. Counted(q)'
  BY <1>4 DEF Counted
<1>18. Rest(frame[w])'
  <2>1. f.booked + f.total = Made(q)'
    <3>1. frame[w].booked \in Nat /\ frame[w].total \in Nat
      BY <1>2 DEF Frames
    <3>2. frame[w].booked + frame[w].total = Made(q)
      BY <1>1, <1>2 DEF Rest
    <3> QED BY <1>2, <1>7, <1>10, <3>1, <3>2
  <2>2. ASSUME requests[q].op = "import"
        PROVE  /\ Len(f.lines) = Len(items) - Made(q)'
               /\ \A k \in 1..Len(f.lines) : f.lines[k] = items[Made(q)' + k]
    <3>1. Len(f.lines) = Len(items) - Made(q)'
      BY <1>2, <1>7, <1>8, <1>9, <1>10, <1>15, <2>2, SMTT(40)
    <3>2. ASSUME NEW k \in 1..Len(f.lines) PROVE f.lines[k] = items[Made(q)' + k]
      <4>1. f.lines[k] = lines[k + 1] /\ k + 1 \in 1..Len(lines)
        BY <1>8, <1>10
      <4>2. lines[k + 1] = items[Made(q) + (k + 1)]
        BY <1>15, <2>2, <4>1
      <4>3. Made(q) + (k + 1) = Made(q)' + k
        BY <1>2, <1>7, <1>8, <1>10
      <4> QED BY <4>1, <4>2, <4>3
    <3> QED BY <3>1, <3>2
  <2>3. f.pc # "post"
    BY <1>10
  <2>4. requests' = requests /\ frame'[w] = f /\ f.request = q
    BY <1>10, <1>12
  <2> QED BY <2>1, <2>2, <2>3, <2>4 DEF Rest
<1> QED BY <1>5, <1>10, <1>12, <1>13, <1>14, <1>16, <1>17, <1>18, StepOfOne

LEMMA PostKeeps ==
  ASSUME HInv, NEW w \in Workers, H!Post(w)
  PROVE  HInv'
<1>1. frame[w].pc = "post" /\ UNCHANGED <<exists, clock>>
  BY DEF H!Post
<1>2. frame[w].lines # <<>>
  BY <1>1, Known DEF Serving
<1>3. CASE ~exists /\ H!Fail(w) /\ UNCHANGED posted
  BY <1>1, <1>2, <1>3, FailKeeps
<1> QED BY <1>1, <1>3, BookingKeeps DEF H!Post

LEMMA BeginsKeep ==
  ASSUME HInv, NEW w \in Workers, H!BeginImport(w) \/ H!BeginGenerate(w) \/ H!BeginGenerateBank(w)
  PROVE  HInv'
<1>1. /\ <<>> \in Seq(H!Item) /\ <<>> \in Seq(BankAccounts)
      /\ \A a \in BankAccounts : <<a>> \in Seq(BankAccounts)
  OBVIOUS
<1>2. CASE H!BeginImport(w)
  <2>1. PICK items \in Imports : H!Begin(w, "line", "import", items, <<>>, Nothing)
    BY <1>2 DEF H!BeginImport
  <2>2. items \in Seq(H!Item)
    BY DEF HInv, H!HistoryAssumption
  <2> QED BY <1>1, <2>1, <2>2, BeginKeeps
<1>3. CASE H!BeginGenerate(w)
  BY <1>1, <1>3, BeginKeeps DEF H!BeginGenerate
<1>4. CASE H!BeginGenerateBank(w)
  BY <1>1, <1>4, BeginKeeps DEF H!BeginGenerateBank
<1> QED BY <1>2, <1>3, <1>4

LEMMA DeleteKeeps ==
  ASSUME HInv, H!DeleteBank
  PROVE  HInv'
<1>1. /\ posted' = <<>> /\ ~exists' /\ UNCHANGED <<clock, frame, requests, crashes>>
  BY DEF H!DeleteBank
<1>2. posted' \in Seq(Row) /\ DOMAIN posted' = {}
  BY <1>1
<1> QED BY <1>1, <1>2 DEF HInv, TypesInv, BooksInv, Serving, H!HistoryAssumption

LEMMA CrashKeeps ==
  ASSUME HInv, H!Crash
  PROVE  HInv'
<1>1. /\ frame' = [w \in Workers |-> H!IdleFrame] /\ UNCHANGED <<exists, posted, clock, requests>>
  BY DEF H!Crash
<1>2. H!IdleFrame \in Frames /\ H!IdleFrame.pc = "idle"
  BY DEF H!IdleFrame, Frames, H!HistoryLabels
<1>3. TypesInv'
  BY <1>1, <1>2 DEF HInv, TypesInv
<1>4. BooksInv'
  <2>1. ASSUME NEW r PROVE (Prefix(r) => Prefix(r)') /\ (Counted(r) => Counted(r)')
    <3>1. H!RowsBy(r)' = H!RowsBy(r) /\ \A i : H!Nr(i)' = H!Nr(i)
      BY <1>1 DEF H!RowsBy, H!Nr
    <3> QED BY <1>1, <3>1, RequestStays
  <2> QED BY <1>1, <1>2, <2>1 DEF HInv, BooksInv
<1> QED BY <1>3, <1>4 DEF HInv, H!HistoryAssumption

LEMMA HStep == HInv /\ [H!Next]_(H!vars) => HInv'
<1> SUFFICES ASSUME HInv, [H!Next]_(H!vars) PROVE HInv'
  OBVIOUS
<1>1. CASE UNCHANGED H!vars
  <2>1. \A r : H!RowsBy(r)' = H!RowsBy(r)
    BY <1>1 DEF H!RowsBy, H!vars
  <2>2. \A i : H!Nr(i)' = H!Nr(i)
    BY <1>1 DEF H!Nr, H!vars
  <2>3. \A r : (Prefix(r) => Prefix(r)') /\ (Counted(r) => Counted(r)')
    BY <1>1, <2>1, <2>2, RequestStays DEF H!vars
  <2>4. \A f : Rest(f) => Rest(f)'
    BY <1>1, <2>1 DEF Rest, Made, H!vars
  <2>5. BooksInv'
    BY <1>1, <2>3, <2>4 DEF HInv, BooksInv, H!vars
  <2> QED BY <1>1, <2>5 DEF H!vars, HInv, TypesInv, Serving, H!HistoryAssumption
<1>2. ASSUME NEW w \in Workers, H!Handles(w) PROVE HInv'
  BY <1>2, BeginsKeep, LoadKeeps, BankKeeps, ListKeeps, NextMonthKeeps, AccountDoneKeeps,
     DoneKeeps, BalanceKeeps, ConstructKeeps, PostKeeps, LookKeeps DEF H!Handles
<1> QED BY <1>1, <1>2, DeleteKeeps, CrashKeeps DEF H!Next

-----------------------------------------------------------------------------
(* Sorting: by its date, then by its place, each of finitely many rows has *)
(* a rank, the number of those before it.                                  *)
Rank(rows, S, i) == Cardinality({j \in S : H!Before(rows, j, i)})

Datable(rows, S) == /\ IsFiniteSet(S) /\ \A i \in S : i \in Int /\ rows[i].booked \in Int

LEMMA RanksAreBounded ==
  ASSUME NEW rows, NEW S, Datable(rows, S), NEW i \in S
  PROVE  Rank(rows, S, i) \in 0..(Cardinality(S) - 1)
<1> DEFINE below == {j \in S : H!Before(rows, j, i)}
<1>1. ~H!Before(rows, i, i)
  BY DEF H!Before, Datable
<1>2. below \in SUBSET (S \ {i})
  BY <1>1
<1>3. IsFiniteSet(S \ {i}) /\ Cardinality(S \ {i}) = Cardinality(S) - 1
  BY FS_RemoveElement DEF Datable
<1>4. IsFiniteSet(below) /\ Cardinality(below) <= Cardinality(S) - 1
  BY <1>2, <1>3, FS_Subset
<1>5. Cardinality(below) \in Nat /\ Cardinality(S) \in Nat
  BY <1>4, FS_CardinalityType DEF Datable
<1> QED BY <1>4, <1>5 DEF Rank

LEMMA RanksGrow ==
  ASSUME NEW rows, NEW S, Datable(rows, S), NEW i \in S, NEW j \in S, H!Before(rows, j, i)
  PROVE  Rank(rows, S, j) < Rank(rows, S, i)
<1> DEFINE below(k) == {l \in S : H!Before(rows, l, k)}
<1>1. ~H!Before(rows, j, j) /\ \A l \in S : H!Before(rows, l, j) => H!Before(rows, l, i)
  BY DEF H!Before, Datable
<1>2. below(j) \in SUBSET (below(i) \ {j}) /\ j \in below(i) /\ below(i) \in SUBSET S
  BY <1>1
<1>3. IsFiniteSet(below(i))
  BY <1>2, FS_Subset DEF Datable
<1>4. IsFiniteSet(below(i) \ {j}) /\ Cardinality(below(i) \ {j}) = Cardinality(below(i)) - 1
  BY <1>2, <1>3, FS_RemoveElement
<1>5. IsFiniteSet(below(j)) /\ Cardinality(below(j)) <= Cardinality(below(i)) - 1
  BY <1>2, <1>4, FS_Subset
<1>6. Cardinality(below(i)) \in Nat /\ Cardinality(below(j)) \in Nat
  BY <1>3, <1>5, FS_CardinalityType
<1> QED BY <1>5, <1>6 DEF Rank

(* The ranks are 0..n-1, each of them once: so there is a row to choose. *)
LEMMA EachRankIsTaken ==
  ASSUME NEW rows, NEW S, Datable(rows, S), NEW r \in 0..(Cardinality(S) - 1)
  PROVE  \E i \in S : Rank(rows, S, i) = r
<1> DEFINE T == 0..(Cardinality(S) - 1)
           rank == [i \in S |-> Rank(rows, S, i)]
<1>1. Cardinality(S) \in Nat
  BY FS_CardinalityType DEF Datable
<1>2. IsFiniteSet(T) /\ Cardinality(T) = Cardinality(S)
  <2>1. Cardinality(S) - 1 \in Int
    BY <1>1
  <2>2. PICK m \in Int : m = Cardinality(S) - 1
    BY <2>1
  <2>3. IsFiniteSet(0..m) /\ Cardinality(0..m) = IF 0 > m THEN 0 ELSE m - 0 + 1
    BY FS_Interval
  <2> QED BY <1>1, <2>2, <2>3
<1>3. rank \in [S -> T]
  BY RanksAreBounded
<1>4. \A i, j \in S : rank[i] = rank[j] => i = j
  <2> SUFFICES ASSUME NEW i \in S, NEW j \in S, i # j
               PROVE  Rank(rows, S, i) # Rank(rows, S, j)
    OBVIOUS
  <2>1. H!Before(rows, i, j) \/ H!Before(rows, j, i)
    BY DEF H!Before, Datable
  <2>2. Rank(rows, S, i) \in Int /\ Rank(rows, S, j) \in Int
    BY RanksAreBounded
  <2> QED BY <2>1, <2>2, RanksGrow
<1> HIDE DEF rank, T
<1>5. rank \in Injection(S, T)
  BY <1>3, <1>4 DEF Injection, IsInjective
<1>6. rank \in Surjection(S, T)
  BY <1>2, <1>5, FS_Injection
<1>7. \E i \in S : rank[i] = r
  BY <1>6 DEF Surjection, T
<1> QED BY <1>7 DEF rank

LEMMA SortedByDate ==
  ASSUME NEW rows, NEW S, Datable(rows, S)
  PROVE  /\ H!Sorted(rows, S) \in [1..Cardinality(S) -> S] /\ Cardinality(S) \in Nat
         /\ \A m, n \in 1..Cardinality(S) :
              m < n => rows[H!Sorted(rows, S)[m]].booked <= rows[H!Sorted(rows, S)[n]].booked
<1> DEFINE order == H!Sorted(rows, S)
<1>1. Cardinality(S) \in Nat
  BY FS_CardinalityType DEF Datable
<1> DEFINE pick(n) == CHOOSE i \in S : Cardinality({j \in S : H!Before(rows, j, i)}) = n - 1
<1>2. ASSUME NEW n \in 1..Cardinality(S)
      PROVE  pick(n) \in S /\ Rank(rows, S, pick(n)) = n - 1
  <2>1. n - 1 \in 0..(Cardinality(S) - 1)
    BY <1>1
  <2>2. \E i \in S : Rank(rows, S, i) = n - 1
    BY <2>1, EachRankIsTaken
  <2> QED BY <2>2 DEF Rank
<1>3. order = [n \in 1..Cardinality(S) |-> pick(n)]
  BY DEF H!Sorted, H!Cardinality, Cardinality
<1> HIDE DEF pick, order
<1>4. order \in [1..Cardinality(S) -> S] /\ \A n \in 1..Cardinality(S) : order[n] = pick(n)
  BY <1>2, <1>3
<1>5. ASSUME NEW m \in 1..Cardinality(S), NEW n \in 1..Cardinality(S), m < n
      PROVE  rows[order[m]].booked <= rows[order[n]].booked
  <2>1. ~H!Before(rows, order[n], order[m])
    <3>1. H!Before(rows, order[n], order[m]) => n - 1 < m - 1
      BY <1>2, <1>4, RanksGrow
    <3> QED BY <1>1, <1>5, <3>1
  <2> QED BY <1>2, <1>4, <2>1 DEF H!Before, Datable
<1> QED BY <1>1, <1>4, <1>5 DEF order

LEMMA HistoriesAreSorted ==
  ASSUME HInv
  PROVE  H!NewestLast
<1> SUFFICES ASSUME NEW a \in BankAccounts, NEW h, h = H!TransactionHistory(a),
                    NEW i \in DOMAIN h, NEW j \in DOMAIN h, i < j,
                    h[i].entry.booked - h[i].entry.instant = h[j].entry.booked - h[j].entry.instant
             PROVE  h[i].entry.instant <= h[j].entry.instant
  BY DEF H!NewestLast
<1> DEFINE S == H!EntriesOf(a)
           order == H!Sorted(posted, S)
<1>1. posted \in Seq(Row) /\ S \in SUBSET (1..Len(posted)) /\ Len(posted) \in Nat
  BY DEF HInv, TypesInv, H!EntriesOf
<1>2. Datable(posted, S)
  <2>1. IsFiniteSet(1..Len(posted))
    <3>1. \A m \in Int : IsFiniteSet(1..m)
      BY FS_Interval
    <3> QED BY <1>1, <3>1
  <2> HIDE DEF S
  <2>2. IsFiniteSet(S)
    BY <1>1, <2>1, FS_Subset
  <2>3. \A k \in S : k \in Int /\ posted[k] \in Row
    BY <1>1
  <2> QED BY <2>2, <2>3 DEF Datable, Row
<1>3. /\ order \in [1..Cardinality(S) -> S] /\ Cardinality(S) \in Nat
      /\ \A m, n \in 1..Cardinality(S) :
           m < n => posted[order[m]].booked <= posted[order[n]].booked
  BY <1>2, SortedByDate
<1> HIDE DEF order, S
<1>4. Len(order) = Cardinality(S)
  BY <1>3
<1>5. /\ DOMAIN h = 1..Cardinality(S)
      /\ \A n \in 1..Cardinality(S) : h[n].entry = posted[order[n]]
  BY <1>4 DEF H!TransactionHistory, order, S
<1>6. /\ h[i].entry = posted[order[i]] /\ h[j].entry = posted[order[j]]
      /\ h[i].entry \in Row /\ h[j].entry \in Row
  <2>1. order[i] \in 1..Len(posted) /\ order[j] \in 1..Len(posted)
    BY <1>1, <1>3, <1>5
  <2> QED BY <1>1, <1>5, <2>1
<1>7. h[i].entry.booked <= h[j].entry.booked
  BY <1>3, <1>5, <1>6
<1> QED BY <1>6, <1>7 DEF Row

LEMMA BooksAreKept ==
  ASSUME HInv
  PROVE  H!ImportsArePrefixes /\ H!AnswersCount
<1>1. exists => \A r \in DOMAIN requests : Prefix(r) /\ Counted(r)
  BY DEF HInv, BooksInv
<1>2. H!ImportsArePrefixes
  BY <1>1 DEF H!ImportsArePrefixes, Prefix, Made, H!Cardinality, Cardinality
<1>3. H!AnswersCount
  BY <1>1 DEF H!AnswersCount, Counted, Made, H!Cardinality, Cardinality
<1> QED BY <1>2, <1>3

(* For every bank, import and number of workers: what an import leaves is  *)
(* an initial part of its items, all of it if it was acknowledged, next to *)
(* whatever is imported, posted or generated beside it.                    *)
THEOREM ImportsLeavePrefixes == H!HistoryAssumption /\ H!Spec => []H!ImportsArePrefixes
<1>1. HInv => H!ImportsArePrefixes
  BY BooksAreKept
<1> QED BY <1>1, HFirst, HStep, PTL DEF H!Spec

(* And the number in an acknowledgement, for an import that of the items   *)
(* sent, is that of the entries made for it.                               *)
THEOREM AnswersAreCounts == H!HistoryAssumption /\ H!Spec => []H!AnswersCount
<1>1. HInv => H!AnswersCount
  BY BooksAreKept
<1> QED BY <1>1, HFirst, HStep, PTL DEF H!Spec

(* And a history is in the order of its dates, where they were written at  *)
(* one distance from UTC.                                                  *)
THEOREM HistoriesEndNewest == H!HistoryAssumption /\ H!Spec => []H!NewestLast
<1>1. HInv => H!NewestLast
  BY HistoriesAreSorted
<1> QED BY <1>1, HFirst, HStep, PTL DEF H!Spec

=============================================================================
