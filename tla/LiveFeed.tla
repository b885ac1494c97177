------------------------------ MODULE LiveFeed ------------------------------
(***************************************************************************)
(* The Live page and the feed it polls: the page asks for the events after *)
(* its cursor, every second and whenever the user has posted a             *)
(* transaction; answers take any time, get lost or overtake each other, and *)
(* the server may restart, which empties the feed and its counter.         *)
(***************************************************************************)
EXTENDS RollingFeed, SequencesExt

CONSTANTS
  MaxOutstanding,  \* bound: polls a page is waiting for when pollFeed asks again
  MaxRecorded,     \* bound: events recorded in all
  MaxRestarts,     \* bound: restarts of the server
  MaxLost          \* bound: polls that fail

ASSUME LiveFeedAssumption ==
  /\ MaxOutstanding \in Nat \ {0}
  /\ MaxRecorded \in Nat /\ MaxRestarts \in Nat /\ MaxLost \in Nat

VARIABLES
  events, seq,  \* the server's feed; an event also bears its number over all restarts
  total,        \* history: events recorded over all restarts
  restarts, lost,
  boot,         \* boot() has listed the accounts and asks for the status, or waits for
                \* its own poll, or is over and the timer runs
  cursor,       \* state.lastSeq
  polls,        \* polls under way: asked, or answered and on the way back
  shown,        \* the events the page has added rows for: numbers over all restarts
  evicted,      \* history: events that were out of reach when a poll asked for them
  astray        \* history: polls have overlapped, or boot has asked again for what was
                \* shown, and the cursor may be behind what the page shows

server == <<events, seq, total, restarts>>
page == <<boot, cursor, shown>>
vars == <<events, seq, total, restarts, lost, boot, cursor, polls, shown, evicted, astray>>

Poll(after, of_boot) ==
  [after |-> after, boot |-> of_boot, answered |-> FALSE, events |-> <<>>, last |-> 0]

Init ==
  /\ events = <<>> /\ seq = 0 /\ total = 0 /\ restarts = 0 /\ lost = 0
  /\ boot = "status" /\ cursor = 0
  /\ polls = <<>>
  /\ shown = {} /\ evicted = {} /\ astray = FALSE

-----------------------------------------------------------------------------
(* The server *)

(* _record, whoever calls it. *)
Record ==
  /\ total < MaxRecorded
  /\ total' = total + 1
  /\ seq' = seq + 1
  /\ events' = Pushed(events, [seq |-> seq + 1, nr |-> total + 1])
  /\ UNCHANGED <<restarts, lost, page, polls, evicted, astray>>

(* The simulator's state is in memory; requests under way fail. *)
Restart ==
  /\ restarts < MaxRestarts
  /\ restarts' = restarts + 1
  /\ events' = <<>> /\ seq' = 0
  /\ polls' = <<>>
  /\ boot' \in IF boot = "status" THEN {"status", "over"} ELSE {"over"}
  /\ evicted' = evicted \union {events[i].nr : i \in DOMAIN events}
  /\ astray' = FALSE
  /\ UNCHANGED <<total, lost, cursor, shown>>

(* The numbers over all restarts of the events after the cursor that the   *)
(* deque no longer has or that are beyond the limit.                       *)
OutOfReach(after) == {n \in 1..total : n > after + (total - seq) /\ n <= total - Limit}

(* feed: the events and last_seq under one hold of the lock. *)
Answer(i) ==
  /\ ~polls[i].answered
  /\ polls' = [polls EXCEPT ![i].answered = TRUE, ![i].last = seq,
                            ![i].events = EventsAfter(events, polls[i].after)]
  /\ evicted' = evicted \union OutOfReach(polls[i].after)
  /\ UNCHANGED <<server, lost, page, astray>>

-----------------------------------------------------------------------------
(* The page *)

(* pollFeed, whoever calls it: the timer, or the handler of the button that *)
(* posts a transaction, also while the page boots. None looks whether a     *)
(* poll is under way.                                                      *)
Ask ==
  /\ Len(polls) < MaxOutstanding
  /\ polls' = Append(polls, Poll(cursor, FALSE))
  /\ astray' = (astray \/ polls # <<>>)
  /\ UNCHANGED <<server, lost, page, evicted>>

(* setInterval(pollFeed, 1000), once boot is over. *)
Tick == boot = "over" /\ Ask

(* boot with the status: it polls from the start, whatever the page has    *)
(* shown by then.                                                          *)
BootAsk ==
  /\ boot = "status"
  /\ boot' = "feed"
  /\ polls' = Append(polls, Poll(0, TRUE))
  /\ astray' = (astray \/ polls # <<>> \/ cursor # 0)
  /\ UNCHANGED <<server, lost, cursor, shown, evicted>>

(* boot without the status: it goes on to the timer. *)
BootFails ==
  /\ boot = "status"
  /\ lost < MaxLost
  /\ lost' = lost + 1
  /\ boot' = "over"
  /\ UNCHANGED <<server, cursor, polls, shown, evicted, astray>>

Numbers(s) == [i \in DOMAIN s |-> s[i].nr]

(* Mutant: forgets to move the cursor back when the feed was reset. *)
CursorAfterKept(p) == IF p.events # <<>> THEN p.last ELSE cursor

(* A last_seq below the cursor is taken for a reset feed. *)
CursorAfter(p) ==
  IF p.events # <<>> THEN p.last ELSE IF p.last < cursor THEN 0 ELSE cursor

(* For the history: no poll is under way and the cursor is at the last of  *)
(* what the page has shown of this run of the server.                      *)
Settles ==
  astray' = (astray /\ ~(/\ polls' = <<>>
                        /\ \A n \in shown' : \/ n <= total - seq
                                             \/ n <= cursor' + (total - seq)))

(* pollFeed with its answer; boot takes last_seq in any case. *)
Receive(i) ==
  LET p == polls[i] IN
  /\ p.answered
  /\ shown' = shown \union ToSet(Numbers(p.events))
  /\ cursor' = IF p.boot THEN p.last ELSE CursorAfter(p)
  /\ boot' = IF p.boot THEN "over" ELSE boot
  /\ polls' = RemoveAt(polls, i)
  /\ Settles
  /\ UNCHANGED <<server, lost, evicted>>

(* A transient network error: caught, and tried again at the next interval. *)
Lose(i) ==
  /\ lost < MaxLost
  /\ lost' = lost + 1
  /\ polls' = RemoveAt(polls, i)
  /\ boot' = IF polls[i].boot THEN "over" ELSE boot
  /\ UNCHANGED <<server, cursor, shown, evicted>>
  /\ Settles

Next ==
  \/ Record \/ Restart \/ Ask \/ BootAsk \/ BootFails
  \/ \E i \in DOMAIN polls : Answer(i) \/ Receive(i) \/ Lose(i)

Spec == Init /\ [][Next]_vars

(* The page stays open, the timer runs once the page has booted, and        *)
(* requests that are not lost are answered.                                *)
FairSpec ==
  /\ Spec
  /\ WF_vars(BootAsk)
  /\ WF_vars(Tick)
  /\ WF_vars(\E i \in DOMAIN polls : Answer(i))
  /\ WF_vars(\E i \in DOMAIN polls : Receive(i))

-----------------------------------------------------------------------------
(* Properties *)

(* Variables are of their types; the cursor is never beyond what was       *)
(* recorded.                                                               *)
TypeOK ==
  /\ events \in Seq([seq : Nat, nr : Nat])
  /\ seq \in Nat /\ total \in Nat /\ restarts \in 0..MaxRestarts /\ lost \in 0..MaxLost
  /\ boot \in {"status", "feed", "over"}
  /\ cursor \in 0..total
  /\ \A i \in DOMAIN polls : polls[i].after \in 0..total /\ polls[i].last \in 0..total
  /\ shown \subseteq 1..total
  /\ evicted \subseteq 1..total
  /\ astray \in BOOLEAN

(* The page adds each event once, in the order in which they were recorded, *)
(* except while polls overlap, or boot polls what a posted transaction has *)
(* already pulled in, and until the cursor has caught up with what the     *)
(* page shows; from then on it does so again.                              *)
ShownOnceInOrder ==
  [][\A i \in DOMAIN polls :
       LET added == Numbers(polls[i].events) IN
       Receive(i) /\ ~astray =>
         /\ \A n \in ToSet(added), old \in shown : n > old
         /\ \A j, k \in DOMAIN added : j < k => added[j] < added[k]]_vars

(* Until the server restarts: whatever was recorded before an event the    *)
(* page shows, it shows as well, unless the deque or the limit no longer   *)
(* gave it when a poll asked for it.                                       *)
NothingSkipped ==
  restarts = 0 =>
    \A n \in shown : 1..n \subseteq shown \union evicted

(* Once nothing is recorded any more the page's cursor is at the server's   *)
(* counter for good, also after restarts and lost polls.                   *)
PageCatchesUp == <>[](cursor = seq)

=============================================================================
