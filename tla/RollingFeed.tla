----------------------------- MODULE RollingFeed -----------------------------
(***************************************************************************)
(* The rolling feed of the live simulator: a deque of at most MaxEvents    *)
(* events, numbered without a gap since the process started.               *)
(***************************************************************************)
EXTENDS Integers, Sequences, FiniteSets

CONSTANTS
  MaxEvents,  \* _MAX_EVENTS, the deque's maxlen
  Limit       \* what a poll may return at most: query parameter, 1.._MAX_EVENTS

ASSUME FeedAssumption ==
  /\ MaxEvents \in Nat \ {0}
  /\ Limit \in 1..MaxEvents

(* The last n elements of a sequence, or all of them. *)
LastOf(s, n) == SubSeq(s, IF Len(s) > n THEN Len(s) - n + 1 ELSE 1, Len(s))

(* deque(maxlen = MaxEvents).append *)
Pushed(events, e) == LastOf(Append(events, e), MaxEvents)

(* The elements of a sequence at the indices kept, in their order. *)
NthOf(kept, n) == CHOOSE i \in kept : Cardinality({j \in kept : j < i}) = n - 1
Selected(s, kept) == [n \in 1..Cardinality(kept) |-> s[NthOf(kept, n)]]

(* Mutant: the event at the cursor is among them. *)
EventsFrom(events, after) ==
  LastOf(Selected(events, {i \in DOMAIN events : events[i].seq >= after}), Limit)

(* Mutant: asks for the events after the one that follows the cursor. *)
EventsAfterNext(events, after) ==
  LastOf(Selected(events, {i \in DOMAIN events : events[i].seq > after + 1}), Limit)

(* [e for e in events if e["seq"] > after][-limit:] *)
EventsAfter(events, after) ==
  LastOf(Selected(events, {i \in DOMAIN events : events[i].seq > after}), Limit)

=============================================================================
