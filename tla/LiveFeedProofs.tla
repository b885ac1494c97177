--------------------------- MODULE LiveFeedProofs ---------------------------
(***************************************************************************)
(* Theorems about LiveFeed: what the page skips and in which order it adds *)
(* rows, for a deque and a limit of any size, any number of polls under    *)
(* way and of events, restarts and lost polls.                             *)
(***************************************************************************)
EXTENDS LiveFeed, FiniteSetTheorems, SequenceTheorems, TLAPS

-----------------------------------------------------------------------------
(* The inductive invariant *)

Events == [seq : Nat, nr : Nat]
PollRecord ==
  [after : Nat, boot : BOOLEAN, answered : BOOLEAN, events : Seq(Events), last : Nat]

Boots == {"status", "feed", "over"}

(* A poll is asked. *)
Asks == Ask \/ BootAsk

(* What the server recorded before it last started. *)
Base == total - seq

(* A deque whose last event bears the number top: without a gap, and full  *)
(* as soon as there are enough.                                            *)
FeedOK(feed, top, base) ==
  /\ feed \in Seq(Events)
  /\ Len(feed) = IF top > MaxEvents THEN MaxEvents ELSE top
  /\ \A i \in 1..Len(feed) : /\ feed[i].seq = top - Len(feed) + i
                             /\ feed[i].nr = base + top - Len(feed) + i

(* How many events a poll brings that asks for those after the cursor when *)
(* the last has the number top, and which: the last ones, without a gap.   *)
Brought(after, top) ==
  IF top <= after THEN 0 ELSE IF top - after > Limit THEN Limit ELSE top - after

BringsOK(found, after, top, base) ==
  /\ found \in Seq(Events)
  /\ Len(found) = Brought(after, top)
  /\ \A j \in 1..Len(found) : found[j].nr = base + top - Len(found) + j

(* An answer brings what the feed had when its counter stood at p.last.    *)
AnswerOK(p, top, base) == p.last <= top /\ BringsOK(p.events, p.after, p.last, base)

TInv ==
  /\ TypeOK
  /\ polls \in Seq(PollRecord)
  /\ seq <= total
  /\ FeedOK(events, seq, Base)
  /\ \A i \in 1..Len(polls) : polls[i].answered => AnswerOK(polls[i], seq, Base)

(* What was shown or was out of reach. *)
Accounted == shown \union evicted

(* Until the server restarts everything up to the cursor, and up to that   *)
(* of each poll under way, was shown or was out of reach; and what lies    *)
(* between the cursor of a poll and the events it brings was out of reach. *)
ReachInv ==
  restarts = 0 =>
    /\ seq = total
    /\ 1..cursor \subseteq Accounted
    /\ NothingSkipped
    /\ \A i \in 1..Len(polls) :
         /\ 1..polls[i].after \subseteq Accounted
         /\ polls[i].answered =>
              /\ polls[i].after <= polls[i].last
              /\ (polls[i].after + 1)..(polls[i].last - Len(polls[i].events)) \subseteq evicted

(* The page shows nothing of this run of the server. *)
Afresh == \A n \in shown : n <= Base

(* Nothing that is shown lies beyond the cursor, as long as polls do not   *)
(* overlap; and a cursor beyond the server's counter is of an earlier run. *)
OrderInv ==
  /\ cursor <= seq \/ Afresh
  /\ ~astray =>
       /\ Len(polls) <= 1
       /\ \A n \in shown : n <= Base + cursor
       /\ \A i \in 1..Len(polls) :
            /\ polls[i].after = cursor
            /\ polls[i].answered => polls[i].last >= cursor \/ Afresh

-----------------------------------------------------------------------------
(* Parts of sequences *)

(* The last elements of a sequence. *)
LEMMA LastOfSeq ==
  ASSUME NEW S, NEW s \in Seq(S), NEW n \in Nat \ {0}
  PROVE  /\ LastOf(s, n) \in Seq(S)
         /\ Len(LastOf(s, n)) = IF Len(s) > n THEN n ELSE Len(s)
         /\ \A j \in 1..Len(LastOf(s, n)) :
              LastOf(s, n)[j] = s[Len(s) - Len(LastOf(s, n)) + j]
<1> DEFINE m == IF Len(s) > n THEN Len(s) - n + 1 ELSE 1
<1>1. /\ Len(s) \in Nat /\ m \in Int /\ m >= 1
      /\ \A i \in 1..Len(s) : s[i] \in S
  BY LenProperties
<1>2. LastOf(s, n) = SubSeq(s, m, Len(s))
  BY DEF LastOf
<1>3. \A i \in m..Len(s) : s[i] \in S
  BY <1>1
<1>4. Len(s) - m + 1 = IF Len(s) > n THEN n ELSE Len(s)
  BY <1>1
<1>5. m > Len(s) => Len(s) = 0 /\ m = 1
  BY <1>1
<1> HIDE DEF m
<1>6. /\ SubSeq(s, m, Len(s)) \in Seq(S)
      /\ Len(SubSeq(s, m, Len(s))) = IF m <= Len(s) THEN Len(s) - m + 1 ELSE 0
      /\ \A i \in 1..(Len(s) - m + 1) : SubSeq(s, m, Len(s))[i] = s[m + i - 1]
  BY <1>1, <1>3, SubSeqProperties
<1>7. Len(SubSeq(s, m, Len(s))) = Len(s) - m + 1
  BY <1>1, <1>5, <1>6
<1>8. \A j \in 1..(Len(s) - m + 1) : Len(s) - (Len(s) - m + 1) + j = m + j - 1
  BY <1>1
<1> QED BY <1>2, <1>4, <1>6, <1>7, <1>8

(* The elements at the last indices of a sequence. *)
LEMMA SelectedSuffix ==
  ASSUME NEW S, NEW s \in Seq(S), NEW m \in 0..Len(s)
  PROVE  /\ Selected(s, (m + 1)..Len(s)) \in Seq(S)
         /\ Len(Selected(s, (m + 1)..Len(s))) = Len(s) - m
         /\ \A j \in 1..(Len(s) - m) : Selected(s, (m + 1)..Len(s))[j] = s[m + j]
<1> DEFINE kept == (m + 1)..Len(s)
           f == [n \in 1..(Len(s) - m) |-> s[m + n]]
<1>1. Len(s) \in Nat /\ m \in Nat /\ m <= Len(s) /\ \A i \in 1..Len(s) : s[i] \in S
  BY LenProperties
<1>2. Cardinality(kept) = Len(s) - m
  <2>1. m + 1 \in Int /\ Len(s) \in Int
    BY <1>1
  <2>2. Cardinality(kept) = IF m + 1 > Len(s) THEN 0 ELSE Len(s) - (m + 1) + 1
    BY <2>1, FS_Interval
  <2> QED BY <1>1, <2>2
<1>3. ASSUME NEW n \in 1..(Len(s) - m)
      PROVE  NthOf(kept, n) = m + n
  <2>1. \A i \in kept : Cardinality({j \in kept : j < i}) = i - 1 - m
    <3> TAKE i \in kept
    <3>1. {j \in kept : j < i} = (m + 1)..(i - 1)
      BY <1>1
    <3>2. Cardinality((m + 1)..(i - 1)) = i - 1 - m
      <4>1. m + 1 \in Int /\ i - 1 \in Int /\ i >= m + 1
        BY <1>1
      <4>2. Cardinality((m + 1)..(i - 1)) =
              IF m + 1 > i - 1 THEN 0 ELSE (i - 1) - (m + 1) + 1
        BY <4>1, FS_Interval
      <4> QED BY <1>1, <4>1, <4>2
    <3> QED BY <3>1, <3>2
  <2>2. m + n \in kept
    BY <1>1
  <2>3. \A i \in kept : Cardinality({j \in kept : j < i}) = n - 1 <=> i = m + n
    BY <1>1, <2>1
  <2> HIDE DEF kept
  <2> QED BY <2>2, <2>3 DEF NthOf
<1>4. Selected(s, kept) = f
  <2> HIDE DEF kept
  <2> QED BY <1>2, <1>3 DEF Selected
<1>5. f \in Seq(S) /\ Len(f) = Len(s) - m
  BY <1>1
<1> QED BY <1>4, <1>5

(* A sequence without one of its elements has only elements it had. *)
LEMMA Removed ==
  ASSUME NEW S, NEW s \in Seq(S), NEW i \in 1..Len(s)
  PROVE  /\ RemoveAt(s, i) \in Seq(S)
         /\ Len(RemoveAt(s, i)) = Len(s) - 1
         /\ \A j \in 1..Len(RemoveAt(s, i)) :
              \E k \in 1..Len(s) : RemoveAt(s, i)[j] = s[k]
<1> DEFINE a == SubSeq(s, 1, i - 1)
           b == SubSeq(s, i + 1, Len(s))
<1>1. Len(s) \in Nat /\ i \in Nat /\ 1 <= i /\ i <= Len(s) /\ \A k \in 1..Len(s) : s[k] \in S
  BY LenProperties
<1>2. /\ a \in Seq(S) /\ Len(a) = i - 1
      /\ \A j \in 1..(i - 1) : a[j] = s[j]
  BY <1>1, SubSeqProperties
<1>3. /\ b \in Seq(S) /\ Len(b) = Len(s) - i
      /\ \A j \in 1..(Len(s) - i) : b[j] = s[i + j]
  <2>1. /\ b \in Seq(S) /\ Len(b) = IF i + 1 <= Len(s) THEN Len(s) - (i + 1) + 1 ELSE 0
        /\ \A j \in 1..(Len(s) - (i + 1) + 1) : b[j] = s[(i + 1) + j - 1]
    <3>1. i + 1 \in Int /\ Len(s) \in Int /\ \A k \in (i + 1)..Len(s) : s[k] \in S
      BY <1>1
    <3> QED BY <3>1, SubSeqProperties
  <2> HIDE DEF b
  <2>2. ASSUME NEW j \in 1..(Len(s) - i) PROVE b[j] = s[i + j]
    <3>1. j \in 1..(Len(s) - (i + 1) + 1) /\ (i + 1) + j - 1 = i + j
      BY <1>1
    <3>2. b[j] = s[(i + 1) + j - 1]
      BY <2>1, <3>1
    <3> QED BY <3>1, <3>2
  <2>3. Len(b) = Len(s) - i
    BY <1>1, <2>1
  <2> QED BY <2>1, <2>2, <2>3
<1>4. RemoveAt(s, i) = a \o b
  BY DEF RemoveAt
<1> HIDE DEF a, b
<1>5. /\ a \o b \in Seq(S) /\ Len(a \o b) = Len(s) - 1
      /\ \A j \in 1..(Len(s) - 1) : (a \o b)[j] = IF j <= i - 1 THEN a[j] ELSE b[j - (i - 1)]
  BY <1>1, <1>2, <1>3, ConcatProperties
<1>6. ASSUME NEW j \in 1..(Len(s) - 1)
      PROVE  \E k \in 1..Len(s) : (a \o b)[j] = s[k]
  <2>1. CASE j <= i - 1
    <3>1. j \in 1..(i - 1) /\ j \in 1..Len(s)
      BY <1>1, <2>1
    <3> QED BY <1>2, <1>5, <2>1, <3>1
  <2>2. CASE ~(j <= i - 1)
    <3>1. j - (i - 1) \in 1..(Len(s) - i) /\ i + (j - (i - 1)) \in 1..Len(s)
      BY <1>1, <2>2
    <3> QED BY <1>3, <1>5, <2>2, <3>1
  <2> QED BY <2>1, <2>2
<1> QED BY <1>4, <1>5, <1>6

-----------------------------------------------------------------------------
(* The feed *)

(* What a poll brings of a deque without gaps. *)
LEMMA FeedBrings ==
  ASSUME NEW feed, NEW top \in Nat, NEW base \in Nat, FeedOK(feed, top, base),
         NEW after \in Nat
  PROVE  BringsOK(EventsAfter(feed, after), after, top, base)
<1> DEFINE n == Len(feed)
           m == IF after >= top THEN n ELSE IF after > top - n THEN after - (top - n) ELSE 0
           kept == {i \in DOMAIN feed : feed[i].seq > after}
           rest == Selected(feed, (m + 1)..n)
<1>1. /\ feed \in Seq(Events) /\ n \in Nat /\ DOMAIN feed = 1..n
      /\ n = IF top > MaxEvents THEN MaxEvents ELSE top
      /\ \A i \in 1..n : feed[i].seq = top - n + i /\ feed[i].nr = base + top - n + i
  BY LenProperties DEF FeedOK
<1>2. MaxEvents \in Nat \ {0} /\ Limit \in Nat \ {0} /\ Limit <= MaxEvents
  BY FeedAssumption
<1> HIDE DEF n
<1>3. n <= top /\ m \in 0..n
  BY <1>1, <1>2
<1>4. kept = (m + 1)..n
  <2>1. \A i \in 1..n : top - n + i > after <=> i >= m + 1
    BY <1>1, <1>3
  <2>2. kept = {i \in 1..n : top - n + i > after}
    BY <1>1
  <2> QED BY <1>1, <1>3, <2>1, <2>2
<1>5. /\ rest \in Seq(Events) /\ Len(rest) = n - m
      /\ \A j \in 1..(n - m) : rest[j] = feed[m + j]
  BY <1>1, <1>3, SelectedSuffix DEF n
<1>6. EventsAfter(feed, after) = LastOf(rest, Limit)
  BY <1>4 DEF EventsAfter
<1>7. Brought(after, top) = IF n - m > Limit THEN Limit ELSE n - m
  BY <1>1, <1>2, <1>3 DEF Brought
<1> HIDE DEF m, kept, rest
<1> DEFINE k == Brought(after, top)
<1>8. /\ LastOf(rest, Limit) \in Seq(Events)
      /\ Len(LastOf(rest, Limit)) = k
      /\ \A j \in 1..k : LastOf(rest, Limit)[j] = rest[(n - m) - k + j]
  <2>1. /\ LastOf(rest, Limit) \in Seq(Events)
        /\ Len(LastOf(rest, Limit)) = IF Len(rest) > Limit THEN Limit ELSE Len(rest)
        /\ \A j \in 1..Len(LastOf(rest, Limit)) :
             LastOf(rest, Limit)[j] = rest[Len(rest) - Len(LastOf(rest, Limit)) + j]
    BY <1>2, <1>5, LastOfSeq
  <2> QED BY <1>5, <1>7, <2>1
<1>9. k \in Nat /\ k <= n - m
  BY <1>1, <1>2, <1>3, <1>7
<1> HIDE DEF k
<1>10. ASSUME NEW j \in 1..k
       PROVE  LastOf(rest, Limit)[j].nr = base + top - k + j
  <2>1. (n - m) - k + j \in 1..(n - m) /\ m + ((n - m) - k + j) = n - k + j
    BY <1>1, <1>3, <1>9
  <2>2. LastOf(rest, Limit)[j] = feed[n - k + j]
    BY <1>5, <1>8, <2>1
  <2>3. n - k + j \in 1..n /\ base + top - n + (n - k + j) = base + top - k + j
    BY <1>1, <1>3, <1>9
  <2> QED BY <1>1, <2>2, <2>3
<1>11. BringsOK(LastOf(rest, Limit), after, top, base)
  BY <1>8, <1>10 DEF k, BringsOK
<1> QED BY <1>6, <1>11

(* An event pushed onto a deque without gaps leaves none. *)
LEMMA FeedGrows ==
  ASSUME NEW feed, NEW top \in Nat, NEW base \in Nat, FeedOK(feed, top, base)
  PROVE  FeedOK(Pushed(feed, [seq |-> top + 1, nr |-> base + top + 1]), top + 1, base)
<1> DEFINE e == [seq |-> top + 1, nr |-> base + top + 1]
           a == Append(feed, e)
           n == Len(feed)
           g == LastOf(a, MaxEvents)
<1>1. /\ feed \in Seq(Events) /\ n \in Nat
      /\ n = IF top > MaxEvents THEN MaxEvents ELSE top
      /\ \A i \in 1..n : feed[i].seq = top - n + i /\ feed[i].nr = base + top - n + i
  BY LenProperties DEF FeedOK
<1>2. MaxEvents \in Nat \ {0}
  BY FeedAssumption
<1>3. e \in Events /\ e.seq = top + 1 /\ e.nr = base + top + 1
  BY DEF Events
<1> HIDE DEF e
<1>4. /\ a \in Seq(Events) /\ Len(a) = n + 1
      /\ \A i \in 1..n : a[i] = feed[i]
      /\ a[n + 1] = e
  BY <1>1, <1>3, AppendProperties
<1> HIDE DEF a, n
<1>5. /\ g \in Seq(Events)
      /\ Len(g) = IF Len(a) > MaxEvents THEN MaxEvents ELSE Len(a)
      /\ \A j \in 1..Len(g) : g[j] = a[Len(a) - Len(g) + j]
  BY <1>2, <1>4, LastOfSeq
<1>6. Pushed(feed, e) = g
  BY DEF Pushed, a
<1> HIDE DEF g
<1>7. Len(g) \in Nat /\ Len(g) <= n + 1 /\ Len(g) = IF top + 1 > MaxEvents THEN MaxEvents ELSE top + 1
  BY <1>1, <1>2, <1>4, <1>5
<1>8. ASSUME NEW i \in 1..(n + 1)
      PROVE  a[i].seq = top - n + i /\ a[i].nr = base + top - n + i
  <2>1. CASE i = n + 1
    <3>1. top - n + i = top + 1 /\ base + top - n + i = base + top + 1
      BY <1>1, <2>1
    <3>2. a[i] = e
      BY <1>4, <2>1
    <3> QED BY <1>3, <3>1, <3>2
  <2>2. CASE i # n + 1
    <3>1. i \in 1..n
      BY <1>1, <2>2
    <3> QED BY <1>1, <1>4, <3>1
  <2> QED BY <2>1, <2>2
<1>9. ASSUME NEW j \in 1..Len(g)
      PROVE  g[j].seq = top + 1 - Len(g) + j /\ g[j].nr = base + (top + 1) - Len(g) + j
  <2>1. (n + 1) - Len(g) + j \in 1..(n + 1)
    BY <1>1, <1>7
  <2>2. g[j] = a[(n + 1) - Len(g) + j]
    BY <1>4, <1>5
  <2>3. /\ top - n + ((n + 1) - Len(g) + j) = top + 1 - Len(g) + j
        /\ base + top - n + ((n + 1) - Len(g) + j) = base + (top + 1) - Len(g) + j
    BY <1>1, <1>7
  <2>4. /\ a[(n + 1) - Len(g) + j].seq = top - n + ((n + 1) - Len(g) + j)
        /\ a[(n + 1) - Len(g) + j].nr = base + top - n + ((n + 1) - Len(g) + j)
    BY <1>8, <2>1
  <2> QED BY <2>2, <2>3, <2>4
<1>10. FeedOK(g, top + 1, base)
  <2>1. \A j \in 1..Len(g) : /\ g[j].seq = top + 1 - Len(g) + j
                             /\ g[j].nr = base + (top + 1) - Len(g) + j
    BY <1>9
  <2>2. g \in Seq(Events)
    BY <1>5
  <2>3. Len(g) = IF top + 1 > MaxEvents THEN MaxEvents ELSE top + 1
    BY <1>7
  <2> QED BY <2>1, <2>2, <2>3 DEF FeedOK
<1> QED BY <1>6, <1>10 DEF e

-----------------------------------------------------------------------------
(* Types, the deque, and the answers under way *)

(* An answer stays one while the server records more. *)
LEMMA AnswerKept ==
  ASSUME NEW p \in PollRecord, NEW top \in Nat, NEW more \in Nat, top <= more, NEW base,
         AnswerOK(p, top, base)
  PROVE  AnswerOK(p, more, base)
<1>1. p.last \in Nat
  BY DEF PollRecord
<1> QED BY <1>1 DEF AnswerOK

(* What the invariant says of the numbers. *)
LEMMA Numeric ==
  ASSUME TInv
  PROVE  /\ seq \in Nat /\ total \in Nat /\ Base \in Nat /\ Base + seq = total
         /\ restarts \in Nat /\ lost \in Nat
         /\ cursor \in Nat /\ cursor <= total
         /\ shown \subseteq 1..total /\ evicted \subseteq 1..total
         /\ Len(polls) \in Nat /\ DOMAIN polls = 1..Len(polls)
         /\ \A i \in 1..Len(polls) : polls[i] \in PollRecord
<1>1. restarts \in Nat /\ lost \in Nat
  BY LiveFeedAssumption DEF TInv, TypeOK
<1>2. /\ seq \in Nat /\ total \in Nat /\ seq <= total
      /\ cursor \in Nat /\ cursor <= total
  BY DEF TInv, TypeOK
<1>3. Base \in Nat /\ Base + seq = total
  BY <1>2 DEF Base
<1>4. /\ Len(polls) \in Nat /\ DOMAIN polls = 1..Len(polls)
      /\ \A i \in 1..Len(polls) : polls[i] \in PollRecord
  BY LenProperties DEF TInv
<1> QED BY <1>1, <1>2, <1>3, <1>4 DEF TInv, TypeOK

(* The fields of a poll. *)
LEMMA PollFields ==
  ASSUME TInv, NEW i \in 1..Len(polls)
  PROVE  /\ polls[i].after \in Nat /\ polls[i].after <= total
         /\ polls[i].last \in Nat /\ polls[i].last <= total
         /\ polls[i].answered \in BOOLEAN
         /\ polls[i].events \in Seq(Events) /\ Len(polls[i].events) \in Nat
<1>1. polls[i] \in PollRecord /\ i \in DOMAIN polls
  BY Numeric
<1>2. /\ polls[i].after \in Nat /\ polls[i].last \in Nat /\ polls[i].answered \in BOOLEAN
      /\ polls[i].events \in Seq(Events)
  BY <1>1 DEF PollRecord
<1>3. polls[i].after \in 0..total /\ polls[i].last \in 0..total
  BY <1>1 DEF TInv, TypeOK
<1>4. Len(polls[i].events) \in Nat
  BY <1>2, LenProperties
<1> QED BY <1>2, <1>3, <1>4, Numeric

(* An answer brings numbers of this run of the server, each after the      *)
(* cursor of the poll and up to the counter, and in increasing order.      *)
LEMMA AnswerNumbers ==
  ASSUME TInv, NEW i \in 1..Len(polls), polls[i].answered
  PROVE  /\ polls[i].last <= seq
         /\ Len(polls[i].events) = Brought(polls[i].after, polls[i].last)
         /\ Len(polls[i].events) <= polls[i].last
         /\ polls[i].events # <<>> <=> polls[i].after < polls[i].last
         /\ DOMAIN Numbers(polls[i].events) = 1..Len(polls[i].events)
         /\ \A j \in 1..Len(polls[i].events) :
              Numbers(polls[i].events)[j] = Base + polls[i].last - Len(polls[i].events) + j
         /\ ToSet(Numbers(polls[i].events)) =
              (Base + polls[i].last - Len(polls[i].events) + 1)..(Base + polls[i].last)
         /\ polls[i].events # <<>> =>
              polls[i].after <= polls[i].last - Len(polls[i].events)
<1> DEFINE p == polls[i]
           n == Len(p.events)
<1>1. /\ p.after \in Nat /\ p.last \in Nat /\ p.events \in Seq(Events) /\ n \in Nat
      /\ Base \in Nat /\ Limit \in Nat \ {0}
  BY PollFields, Numeric, FeedAssumption
<1>2. /\ p.last <= seq /\ n = Brought(p.after, p.last)
      /\ \A j \in 1..n : p.events[j].nr = Base + p.last - n + j
  BY DEF TInv, AnswerOK, BringsOK
<1>3. DOMAIN p.events = 1..n /\ (p.events # <<>> <=> n # 0)
  BY <1>1, LenProperties, EmptySeq
<1> HIDE DEF p, n
<1>4. /\ n <= p.last /\ (n # 0 <=> p.after < p.last)
      /\ n # 0 => p.after <= p.last - n
  BY <1>1, <1>2 DEF Brought
<1>5. /\ DOMAIN Numbers(p.events) = 1..n
      /\ \A j \in 1..n : Numbers(p.events)[j] = Base + p.last - n + j
  BY <1>2, <1>3 DEF Numbers
<1>6. ToSet(Numbers(p.events)) = (Base + p.last - n + 1)..(Base + p.last)
  <2>1. ToSet(Numbers(p.events)) = {Base + p.last - n + j : j \in 1..n}
    BY <1>5 DEF ToSet
  <2>2. ASSUME NEW x \in (Base + p.last - n + 1)..(Base + p.last)
        PROVE  x \in {Base + p.last - n + j : j \in 1..n}
    <3>1. x - (Base + p.last - n) \in 1..n /\ x = Base + p.last - n + (x - (Base + p.last - n))
      BY <1>1
    <3> QED BY <3>1
  <2>3. ASSUME NEW j \in 1..n
        PROVE  Base + p.last - n + j \in (Base + p.last - n + 1)..(Base + p.last)
    BY <1>1
  <2> QED BY <2>1, <2>2, <2>3
<1> QED BY <1>2, <1>3, <1>4, <1>5, <1>6 DEF p, n

(* What an action does to the polls. *)
LEMMA AnswerStep ==
  ASSUME TInv, NEW i \in DOMAIN polls, Answer(i)
  PROVE  /\ UNCHANGED <<server, lost, page, astray>>
         /\ evicted' = evicted \union OutOfReach(polls[i].after)
         /\ \E q \in PollRecord :
              /\ polls' = [polls EXCEPT ![i] = q]
              /\ q.after = polls[i].after /\ q.answered /\ q.last = seq
              /\ AnswerOK(q, seq, Base)
<1> DEFINE p == polls[i]
           found == EventsAfter(events, p.after)
           q == [p EXCEPT !.answered = TRUE, !.last = seq, !.events = found]
<1>1. i \in 1..Len(polls) /\ p \in PollRecord /\ p.after \in Nat /\ seq \in Nat /\ Base \in Nat
  BY Numeric, PollFields
<1>2. FeedOK(events, seq, Base)
  BY DEF TInv
<1> HIDE DEF p
<1>3. BringsOK(found, p.after, seq, Base)
  BY <1>1, <1>2, FeedBrings
<1> HIDE DEF found
<1>4. q \in PollRecord /\ q.after = p.after /\ q.answered /\ q.last = seq /\ q.events = found
  BY <1>1, <1>3 DEF PollRecord, BringsOK
<1>5. polls' = [polls EXCEPT ![i] = q]
  BY DEF Answer, p, found
<1> HIDE DEF q
<1>6. AnswerOK(q, seq, Base)
  BY <1>1, <1>3, <1>4 DEF AnswerOK
<1> QED BY <1>4, <1>5, <1>6 DEF Answer, p

(* A new poll asks for what comes after the cursor, or, for boot, from the *)
(* start; which is the same unless the page is astray from then on.        *)
LEMMA AskStep ==
  ASSUME TInv, Asks
  PROVE  /\ UNCHANGED <<server, lost, cursor, shown, evicted>>
         /\ boot' \in Boots
         /\ astray' \in BOOLEAN
         /\ polls' \in Seq(PollRecord)
         /\ Len(polls') = Len(polls) + 1
         /\ \A j \in 1..Len(polls) : polls'[j] = polls[j]
         /\ polls'[Len(polls) + 1].after \in {0, cursor}
         /\ polls'[Len(polls) + 1].last = 0
         /\ ~polls'[Len(polls) + 1].answered
         /\ ~astray' => ~astray /\ polls = <<>> /\ polls'[Len(polls) + 1].after = cursor
<1>1. polls \in Seq(PollRecord) /\ cursor \in Nat /\ boot \in Boots
  BY Numeric DEF TInv, TypeOK, Boots
<1>2. astray' \in BOOLEAN
  <2>1. astray' = (astray \/ polls # <<>>) \/ astray' = (astray \/ polls # <<>> \/ cursor # 0)
    BY DEF Asks, Ask, BootAsk
  <2>2. astray \in BOOLEAN
    BY DEF TInv, TypeOK
  <2> QED BY <2>1, <2>2, Zenon
<1>3. PICK p \in PollRecord :
        /\ polls' = Append(polls, p)
        /\ p.after \in {0, cursor} /\ p.last = 0 /\ ~p.answered
        /\ ~astray' => ~astray /\ polls = <<>> /\ p.after = cursor
  <2>1. ASSUME NEW after \in Nat, NEW of_boot \in BOOLEAN
        PROVE  /\ Poll(after, of_boot) \in PollRecord
               /\ Poll(after, of_boot).after = after /\ Poll(after, of_boot).last = 0
               /\ ~Poll(after, of_boot).answered
    <3>1. <<>> \in Seq(Events)
      BY EmptySeq
    <3> QED BY <3>1 DEF Poll, PollRecord
  <2>2. CASE Ask
    <3>1. polls' = Append(polls, Poll(cursor, FALSE)) /\ astray' = (astray \/ polls # <<>>)
      BY <2>2 DEF Ask
    <3>2. ~astray' => ~astray /\ polls = <<>>
      BY <3>1, Zenon
    <3> QED BY <1>1, <2>1, <3>1, <3>2
  <2>3. CASE BootAsk
    <3>1. /\ polls' = Append(polls, Poll(0, TRUE))
          /\ astray' = (astray \/ polls # <<>> \/ cursor # 0)
      BY <2>3 DEF BootAsk
    <3>2. ~astray' => ~astray /\ polls = <<>> /\ cursor = 0
      BY <3>1, Zenon
    <3> QED BY <2>1, <3>1, <3>2
  <2> QED BY <2>2, <2>3 DEF Asks
<1>4. /\ polls' \in Seq(PollRecord)
      /\ Len(polls') = Len(polls) + 1
      /\ \A j \in 1..Len(polls) : polls'[j] = polls[j]
      /\ polls'[Len(polls) + 1].after \in {0, cursor}
      /\ polls'[Len(polls) + 1].last = 0
      /\ ~polls'[Len(polls) + 1].answered
      /\ ~astray' => ~astray /\ polls = <<>> /\ polls'[Len(polls) + 1].after = cursor
  <2>1. /\ polls' \in Seq(PollRecord)
        /\ Len(polls') = Len(polls) + 1
        /\ \A j \in 1..Len(polls) : polls'[j] = polls[j]
        /\ polls'[Len(polls) + 1] = p
    BY <1>1, <1>3, AppendProperties
  <2> QED BY <1>3, <2>1
<1>5. UNCHANGED <<server, lost, cursor, shown, evicted>> /\ boot' \in Boots
  BY <1>1 DEF Asks, Ask, BootAsk, page, Boots
<1> QED BY <1>2, <1>4, <1>5

(* A poll that was received or lost is gone. *)
LEMMA PollGone ==
  ASSUME TInv, NEW i \in DOMAIN polls, polls' = RemoveAt(polls, i)
  PROVE  /\ polls' \in Seq(PollRecord)
         /\ Len(polls') = Len(polls) - 1
         /\ \A j \in 1..Len(polls') : \E k \in 1..Len(polls) : polls'[j] = polls[k]
<1>1. polls \in Seq(PollRecord) /\ i \in 1..Len(polls)
  BY Numeric DEF TInv
<1> QED BY <1>1, Removed

(* The deque and the answers stay as they should. *)
LEMMA InitTyped == Init => TInv
<1> SUFFICES ASSUME Init PROVE TInv
  OBVIOUS
<1>1. /\ polls = <<>> /\ events = <<>> /\ seq = 0 /\ total = 0
      /\ restarts = 0 /\ lost = 0 /\ cursor = 0 /\ boot = "status"
      /\ shown = {} /\ evicted = {} /\ astray = FALSE
  BY DEF Init
<1>2. polls \in Seq(PollRecord) /\ Len(polls) = 0 /\ DOMAIN polls = {}
  BY <1>1, EmptySeq
<1>3. 1..Len(polls) = {}
  BY <1>2
<1>4. FeedOK(events, seq, Base)
  <2>1. <<>> \in Seq(Events) /\ Len(<<>>) = 0
    BY EmptySeq
  <2> QED BY <1>1, <2>1, FeedAssumption DEF FeedOK
<1>5. TypeOK
  <2>1. restarts \in 0..MaxRestarts /\ lost \in 0..MaxLost
    BY <1>1, LiveFeedAssumption
  <2>2. events \in Seq([seq : Nat, nr : Nat])
    BY <1>4 DEF FeedOK, Events
  <2>3. \A i \in DOMAIN polls : polls[i].after \in 0..total /\ polls[i].last \in 0..total
    BY <1>2
  <2>4. seq \in Nat /\ total \in Nat /\ cursor \in 0..total
    BY <1>1
  <2>5. shown \subseteq 1..total /\ evicted \subseteq 1..total
    BY <1>1
  <2>6. boot \in {"status", "feed", "over"} /\ astray \in BOOLEAN
    BY <1>1, Zenon
  <2> QED BY <2>1, <2>2, <2>3, <2>4, <2>5, <2>6 DEF TypeOK
<1>6. seq <= total
  BY <1>1
<1>7. \A i \in 1..Len(polls) : polls[i].answered => AnswerOK(polls[i], seq, Base)
  BY <1>3
<1> QED BY <1>2, <1>4, <1>5, <1>6, <1>7 DEF TInv

(* Polls that are as before, or as an answer should be, keep the invariant *)
(* when the server records nothing.                                        *)
LEMMA PollsTyped ==
  ASSUME TInv, UNCHANGED server, polls' \in Seq(PollRecord), lost' \in 0..MaxLost,
         boot' \in Boots, astray' \in BOOLEAN, cursor' \in 0..total,
         shown' \subseteq 1..total, evicted' \subseteq 1..total,
         \A j \in 1..Len(polls') :
           \/ \E k \in 1..Len(polls) : polls'[j] = polls[k]
           \/ /\ polls'[j].after <= total /\ polls'[j].last <= total
              /\ polls'[j].answered => AnswerOK(polls'[j], seq, Base)
  PROVE  TInv'
<1>1. seq' = seq /\ total' = total /\ events' = events /\ restarts' = restarts /\ Base' = Base
  BY DEF server, Base
<1>2. DOMAIN polls' = 1..Len(polls') /\ \A j \in 1..Len(polls') : polls'[j] \in PollRecord
  BY LenProperties
<1>3. ASSUME NEW j \in 1..Len(polls')
      PROVE  /\ polls'[j].after \in 0..total /\ polls'[j].last \in 0..total
             /\ polls'[j].answered => AnswerOK(polls'[j], seq, Base)
  <2>1. CASE \E k \in 1..Len(polls) : polls'[j] = polls[k]
    <3>1. PICK k \in 1..Len(polls) : polls'[j] = polls[k]
      BY <2>1
    <3>2. /\ polls[k].after \in 0..total /\ polls[k].last \in 0..total
          /\ polls[k].answered => AnswerOK(polls[k], seq, Base)
      BY Numeric DEF TInv, TypeOK
    <3> QED BY <3>1, <3>2
  <2>2. CASE /\ polls'[j].after <= total /\ polls'[j].last <= total
             /\ polls'[j].answered => AnswerOK(polls'[j], seq, Base)
    <3>1. polls'[j].after \in Nat /\ polls'[j].last \in Nat /\ total \in Nat
      BY <1>2, Numeric DEF PollRecord
    <3> QED BY <2>2, <3>1
  <2> QED BY <2>1, <2>2
<1>4. TypeOK'
  BY <1>1, <1>2, <1>3 DEF TInv, TypeOK, Boots
<1>5. FeedOK(events', seq', Base') /\ seq' <= total'
  BY <1>1 DEF TInv
<1>6. \A j \in 1..Len(polls') : polls'[j].answered => AnswerOK(polls'[j], seq', Base')
  BY <1>1, <1>3
<1> QED BY <1>4, <1>5, <1>6 DEF TInv

LEMMA RecordTyped ==
  ASSUME TInv, Record PROVE TInv' /\ Base' = Base
<1>1. /\ total' = total + 1 /\ seq' = seq + 1
      /\ events' = Pushed(events, [seq |-> seq + 1, nr |-> total + 1])
      /\ restarts' = restarts /\ lost' = lost /\ boot' = boot /\ cursor' = cursor
      /\ shown' = shown /\ polls' = polls /\ evicted' = evicted /\ astray' = astray
  BY DEF Record, page
<1>2. seq \in Nat /\ total \in Nat /\ Base \in Nat /\ Base + seq = total /\ seq <= total
  BY Numeric DEF TInv
<1>3. Base' = Base
  BY <1>1, <1>2 DEF Base
<1>4. FeedOK(events', seq', Base')
  <2>1. FeedOK(Pushed(events, [seq |-> seq + 1, nr |-> Base + seq + 1]), seq + 1, Base)
    BY <1>2, FeedGrows DEF TInv
  <2>2. Base + seq + 1 = total + 1
    BY <1>2
  <2> QED BY <1>1, <1>3, <2>1, <2>2
<1>5. \A i \in 1..Len(polls) : polls[i].answered => AnswerOK(polls[i], seq', Base')
  <2>1. seq + 1 \in Nat /\ seq <= seq + 1
    BY <1>2
  <2> QED BY <1>1, <1>2, <1>3, <2>1, Numeric, AnswerKept DEF TInv
<1>6. TypeOK'
  <2>1. events' \in Seq([seq : Nat, nr : Nat])
    BY <1>4 DEF FeedOK, Events
  <2>2. 0..total \subseteq 0..(total + 1) /\ 1..total \subseteq 1..(total + 1)
    BY <1>2
  <2> QED BY <1>1, <1>2, <2>1, <2>2 DEF TInv, TypeOK
<1> QED BY <1>1, <1>2, <1>3, <1>4, <1>5, <1>6 DEF TInv

LEMMA RestartTyped ==
  ASSUME TInv, Restart PROVE TInv' /\ Base' = total /\ polls' = <<>> /\ seq' = 0
<1>1. /\ restarts < MaxRestarts /\ restarts' = restarts + 1
      /\ events' = <<>> /\ seq' = 0 /\ polls' = <<>> /\ boot' \in Boots
      /\ evicted' = evicted \union {events[i].nr : i \in DOMAIN events}
      /\ astray' = FALSE
      /\ total' = total /\ lost' = lost /\ cursor' = cursor /\ shown' = shown
  BY DEF Restart, Boots
<1>2. seq \in Nat /\ total \in Nat /\ Base \in Nat /\ Base + seq = total /\ restarts \in Nat
  BY Numeric
<1>3. Base' = total
  BY <1>1, <1>2 DEF Base
<1>4. <<>> \in Seq(Events) /\ <<>> \in Seq(PollRecord) /\ Len(<<>>) = 0
  BY EmptySeq
<1>5. FeedOK(events', seq', Base')
  BY <1>1, <1>4, FeedAssumption DEF FeedOK
<1>6. {events[i].nr : i \in DOMAIN events} \subseteq 1..total
  <2>1. DOMAIN events = 1..Len(events) /\ Len(events) \in Nat
    BY LenProperties DEF TInv, FeedOK
  <2>2. \A i \in 1..Len(events) : events[i].nr = Base + seq - Len(events) + i
    BY DEF TInv, FeedOK
  <2>3. Len(events) <= seq
    BY <1>2, FeedAssumption DEF TInv, FeedOK
  <2>4. \A i \in 1..Len(events) : Base + seq - Len(events) + i \in 1..total
    BY <1>2, <2>1, <2>3
  <2> QED BY <2>1, <2>2, <2>4
<1>7. TypeOK'
  <2>1. restarts' \in 0..MaxRestarts
    BY <1>1, <1>2, LiveFeedAssumption
  <2>2. events' \in Seq([seq : Nat, nr : Nat])
    BY <1>1, <1>4 DEF Events
  <2>3. DOMAIN polls' = {}
    BY <1>1
  <2> QED BY <1>1, <1>2, <1>6, <2>1, <2>2, <2>3 DEF TInv, TypeOK, Boots
<1> QED BY <1>1, <1>2, <1>3, <1>4, <1>5, <1>7 DEF TInv

LEMMA AskTyped ==
  ASSUME TInv, Asks PROVE TInv' /\ Base' = Base
<1>1. /\ UNCHANGED <<server, lost, cursor, shown, evicted>>
      /\ boot' \in Boots /\ astray' \in BOOLEAN
      /\ polls' \in Seq(PollRecord) /\ Len(polls') = Len(polls) + 1
      /\ \A j \in 1..Len(polls) : polls'[j] = polls[j]
      /\ polls'[Len(polls) + 1].after \in {0, cursor}
      /\ polls'[Len(polls) + 1].last = 0
      /\ ~polls'[Len(polls) + 1].answered
  BY AskStep
<1>2. Len(polls) \in Nat /\ cursor <= total /\ 0 <= total
  BY Numeric
<1>3. ASSUME NEW j \in 1..Len(polls')
      PROVE  \/ \E k \in 1..Len(polls) : polls'[j] = polls[k]
             \/ /\ polls'[j].after <= total /\ polls'[j].last <= total
                /\ polls'[j].answered => AnswerOK(polls'[j], seq, Base)
  <2>1. CASE j = Len(polls) + 1
    BY <1>1, <1>2, <2>1
  <2>2. CASE j # Len(polls) + 1
    <3>1. j \in 1..Len(polls)
      BY <1>1, <1>2, <2>2
    <3> QED BY <1>1, <3>1
  <2> QED BY <2>1, <2>2
<1>4. /\ lost' \in 0..MaxLost /\ cursor' \in 0..total
      /\ shown' \subseteq 1..total /\ evicted' \subseteq 1..total
  BY <1>1 DEF TInv, TypeOK
<1>5. Base' = Base
  BY <1>1 DEF Base, server
<1> QED BY <1>1, <1>3, <1>4, <1>5, PollsTyped

(* boot without the status leaves the polls and what is shown.             *)
LEMMA FailsTyped ==
  ASSUME TInv, BootFails PROVE TInv' /\ Base' = Base
<1>1. /\ lost < MaxLost /\ lost' = lost + 1 /\ boot' \in Boots
      /\ UNCHANGED <<server, cursor, polls, shown, evicted, astray>>
  BY DEF BootFails, Boots
<1>2. lost' \in 0..MaxLost
  <2>1. lost \in Nat
    BY Numeric
  <2> QED BY <1>1, <2>1, LiveFeedAssumption
<1>3. /\ cursor' \in 0..total /\ astray' \in BOOLEAN /\ polls' \in Seq(PollRecord)
      /\ shown' \subseteq 1..total /\ evicted' \subseteq 1..total
  BY <1>1 DEF TInv, TypeOK
<1>4. \A j \in 1..Len(polls') : \E k \in 1..Len(polls) : polls'[j] = polls[k]
  BY <1>1
<1>5. Base' = Base
  BY <1>1 DEF Base, server
<1> QED BY <1>1, <1>2, <1>3, <1>4, <1>5, PollsTyped

LEMMA AnswerTyped ==
  ASSUME TInv, NEW i \in DOMAIN polls, Answer(i) PROVE TInv' /\ Base' = Base
<1>1. /\ UNCHANGED <<server, lost, page, astray>>
      /\ evicted' = evicted \union OutOfReach(polls[i].after)
  BY AnswerStep
<1>2. PICK q \in PollRecord :
        /\ polls' = [polls EXCEPT ![i] = q]
        /\ q.after = polls[i].after /\ q.answered /\ q.last = seq
        /\ AnswerOK(q, seq, Base)
  BY AnswerStep
<1>3. /\ i \in 1..Len(polls) /\ polls \in Seq(PollRecord) /\ polls[i].after <= total
      /\ seq <= total
  BY Numeric, PollFields DEF TInv
<1>4. /\ polls' \in Seq(PollRecord) /\ Len(polls') = Len(polls)
      /\ \A j \in 1..Len(polls) : polls'[j] = IF j = i THEN q ELSE polls[j]
  BY <1>2, <1>3, ExceptSeq
<1>5. \A j \in 1..Len(polls') :
        \/ \E k \in 1..Len(polls) : polls'[j] = polls[k]
        \/ /\ polls'[j].after <= total /\ polls'[j].last <= total
           /\ polls'[j].answered => AnswerOK(polls'[j], seq, Base)
  BY <1>2, <1>3, <1>4
<1>6. evicted' \subseteq 1..total
  BY <1>1 DEF OutOfReach, TInv, TypeOK
<1>7. /\ lost' \in 0..MaxLost /\ boot' \in Boots /\ cursor' \in 0..total
      /\ shown' \subseteq 1..total /\ astray' \in BOOLEAN
  BY <1>1 DEF page, TInv, TypeOK, Boots
<1>8. Base' = Base
  BY <1>1 DEF Base, server
<1> QED BY <1>1, <1>4, <1>5, <1>6, <1>7, <1>8, PollsTyped

(* How Receive changes what is shown, the cursor and the history.          *)
LEMMA ReceiveStep ==
  ASSUME TInv, NEW i \in DOMAIN polls, Receive(i)
  PROVE  /\ polls[i].answered
         /\ UNCHANGED <<server, lost, evicted>>
         /\ polls' = RemoveAt(polls, i)
         /\ shown' = shown \union ToSet(Numbers(polls[i].events))
         /\ ToSet(Numbers(polls[i].events)) \subseteq 1..total
         /\ cursor' \in 0..total
         /\ \/ cursor' = polls[i].last
            \/ polls[i].events = <<>> /\ polls[i].last < cursor /\ cursor' = 0
            \/ polls[i].events = <<>> /\ polls[i].last >= cursor /\ cursor' = cursor
         /\ boot' \in Boots
         /\ Settles
<1>1. i \in 1..Len(polls) /\ polls[i].answered
  BY Numeric DEF Receive
<1>2. /\ polls[i].last \in Nat /\ polls[i].last <= total /\ Len(polls[i].events) \in Nat
      /\ polls[i].last <= seq /\ Len(polls[i].events) <= polls[i].last
      /\ ToSet(Numbers(polls[i].events)) =
           (Base + polls[i].last - Len(polls[i].events) + 1)..(Base + polls[i].last)
      /\ Base \in Nat /\ seq \in Nat /\ Base + seq = total /\ cursor \in 0..total
  BY <1>1, Numeric, PollFields, AnswerNumbers DEF TInv, TypeOK
<1>3. ToSet(Numbers(polls[i].events)) \subseteq 1..total
  BY <1>2
<1>4. \/ cursor' = polls[i].last
      \/ polls[i].events = <<>> /\ polls[i].last < cursor /\ cursor' = 0
      \/ polls[i].events = <<>> /\ ~(polls[i].last < cursor) /\ cursor' = cursor
  BY DEF Receive, CursorAfter
<1>5. cursor' \in 0..total
  BY <1>2, <1>4
<1>6. ~(polls[i].last < cursor) => polls[i].last >= cursor
  BY <1>2
<1>7. boot' \in Boots
  BY DEF Receive, TInv, TypeOK, Boots
<1> QED BY <1>1, <1>3, <1>4, <1>5, <1>6, <1>7 DEF Receive

LEMMA ReceiveTyped ==
  ASSUME TInv, NEW i \in DOMAIN polls, Receive(i) PROVE TInv' /\ Base' = Base
<1>1. /\ polls[i].answered
      /\ UNCHANGED <<server, lost, evicted>>
      /\ polls' = RemoveAt(polls, i)
      /\ shown' = shown \union ToSet(Numbers(polls[i].events))
      /\ ToSet(Numbers(polls[i].events)) \subseteq 1..total
      /\ cursor' \in 0..total /\ boot' \in Boots
      /\ Settles
  BY ReceiveStep
<1>2. astray' \in BOOLEAN
  BY <1>1, Zenon DEF Settles, TInv, TypeOK
<1>3. /\ lost' \in 0..MaxLost
      /\ shown' \subseteq 1..total /\ evicted' \subseteq 1..total
  BY <1>1 DEF TInv, TypeOK
<1>4. Base' = Base
  BY <1>1 DEF Base, server
<1> QED BY <1>1, <1>2, <1>3, <1>4, PollGone, PollsTyped

LEMMA LoseTyped ==
  ASSUME TInv, NEW i \in DOMAIN polls, Lose(i) PROVE TInv' /\ Base' = Base
<1>1. /\ lost < MaxLost /\ lost' = lost + 1
      /\ UNCHANGED <<server, cursor, shown, evicted>>
      /\ polls' = RemoveAt(polls, i) /\ boot' \in Boots
      /\ Settles
  BY DEF Lose, TInv, TypeOK, Boots
<1>2. astray' \in BOOLEAN
  BY <1>1, Zenon DEF Settles, TInv, TypeOK
<1>3. lost' \in 0..MaxLost
  <2>1. lost \in Nat
    BY Numeric
  <2> QED BY <1>1, <2>1, LiveFeedAssumption
<1>4. /\ cursor' \in 0..total
      /\ shown' \subseteq 1..total /\ evicted' \subseteq 1..total
  BY <1>1 DEF TInv, TypeOK
<1>5. Base' = Base
  BY <1>1 DEF Base, server
<1> QED BY <1>1, <1>2, <1>3, <1>4, <1>5, PollGone, PollsTyped

LEMMA NextTyped == TInv /\ [Next]_vars => TInv'
<1> SUFFICES ASSUME TInv, [Next]_vars PROVE TInv'
  OBVIOUS
<1>1. CASE Record
  BY <1>1, RecordTyped
<1>2. CASE Restart
  BY <1>2, RestartTyped
<1>3. CASE Asks
  BY <1>3, AskTyped
<1>8. CASE BootFails
  BY <1>8, FailsTyped
<1>4. ASSUME NEW i \in DOMAIN polls, Answer(i) PROVE TInv'
  BY <1>4, AnswerTyped
<1>5. ASSUME NEW i \in DOMAIN polls, Receive(i) PROVE TInv'
  BY <1>5, ReceiveTyped
<1>6. ASSUME NEW i \in DOMAIN polls, Lose(i) PROVE TInv'
  BY <1>6, LoseTyped
<1>7. CASE UNCHANGED vars
  BY <1>7 DEF vars, TInv, TypeOK, Base
<1> QED BY <1>1, <1>2, <1>3, <1>4, <1>5, <1>6, <1>7, <1>8 DEF Next, Asks

LEMMA TypesHold == Spec => []TInv
BY InitTyped, NextTyped, PTL DEF Spec

(* The variables are of their types, whatever is polled, lost and          *)
(* restarted.                                                              *)
THEOREM TypeCorrect == Spec => []TypeOK
<1>1. TInv => TypeOK
  BY DEF TInv
<1> QED BY <1>1, TypesHold, PTL

-----------------------------------------------------------------------------
(* Nothing is skipped *)

(* What one poll asks of what is accounted for. *)
PollReaches(p, known, gone) ==
  /\ 1..p.after \subseteq known
  /\ p.answered =>
       /\ p.after <= p.last
       /\ (p.after + 1)..(p.last - Len(p.events)) \subseteq gone

LEMMA ReachOfPolls ==
  ASSUME ReachInv, restarts = 0, NEW i \in 1..Len(polls)
  PROVE  PollReaches(polls[i], Accounted, evicted)
  BY DEF ReachInv, PollReaches

LEMMA ReachKept ==
  ASSUME NEW p, NEW known, NEW gone, NEW more, NEW lostToo,
         PollReaches(p, known, gone), known \subseteq more, gone \subseteq lostToo
  PROVE  PollReaches(p, more, lostToo)
  BY DEF PollReaches

LEMMA RecordReach ==
  ASSUME TInv, ReachInv, Record PROVE ReachInv'
<1>1. /\ total' = total + 1 /\ seq' = seq + 1 /\ restarts' = restarts
      /\ cursor' = cursor /\ shown' = shown /\ polls' = polls /\ evicted' = evicted
  BY DEF Record, page
<1> QED BY <1>1 DEF ReachInv, NothingSkipped, Accounted

LEMMA AskReach ==
  ASSUME TInv, ReachInv, Asks PROVE ReachInv'
<1> SUFFICES ASSUME restarts' = 0
             PROVE  /\ (seq' = total') /\ 1..cursor' \subseteq Accounted' /\ NothingSkipped'
                    /\ \A i \in 1..Len(polls') : PollReaches(polls'[i], Accounted', evicted')
  BY DEF ReachInv, PollReaches
<1>1. /\ seq' = seq /\ total' = total /\ restarts' = restarts /\ cursor' = cursor
      /\ shown' = shown /\ evicted' = evicted
      /\ Len(polls') = Len(polls) + 1
      /\ \A j \in 1..Len(polls) : polls'[j] = polls[j]
      /\ polls'[Len(polls) + 1].after \in {0, cursor}
      /\ ~polls'[Len(polls) + 1].answered
  BY AskStep DEF server
<1>2. Accounted' = Accounted /\ restarts = 0 /\ Len(polls) \in Nat
  BY <1>1, Numeric DEF Accounted
<1>3. seq' = total' /\ 1..cursor' \subseteq Accounted' /\ NothingSkipped'
  BY <1>1, <1>2 DEF ReachInv, NothingSkipped
<1>4. ASSUME NEW j \in 1..Len(polls')
      PROVE  PollReaches(polls'[j], Accounted', evicted')
  <2>1. CASE j = Len(polls) + 1
    <3>1. 1..cursor \subseteq Accounted
      BY <1>2 DEF ReachInv
    <3>2. polls'[j].after \in {0, cursor} /\ ~polls'[j].answered
      BY <1>1, <2>1
    <3> QED BY <1>2, <3>1, <3>2 DEF PollReaches
  <2>2. CASE j # Len(polls) + 1
    <3>1. j \in 1..Len(polls)
      BY <1>1, <1>2, <2>2
    <3> QED BY <1>1, <1>2, <3>1, ReachOfPolls
  <2> QED BY <2>1, <2>2
<1> QED BY <1>3, <1>4

LEMMA AnswerReach ==
  ASSUME TInv, ReachInv, NEW i \in DOMAIN polls, Answer(i) PROVE ReachInv'
<1> SUFFICES ASSUME restarts' = 0
             PROVE  /\ (seq' = total') /\ 1..cursor' \subseteq Accounted' /\ NothingSkipped'
                    /\ \A j \in 1..Len(polls') : PollReaches(polls'[j], Accounted', evicted')
  BY DEF ReachInv, PollReaches
<1>1. /\ seq' = seq /\ total' = total /\ restarts' = restarts /\ cursor' = cursor
      /\ shown' = shown /\ evicted' = evicted \union OutOfReach(polls[i].after)
  BY AnswerStep DEF server, page
<1>2. restarts = 0 /\ seq = total
  BY <1>1 DEF ReachInv
<1>3. PICK q \in PollRecord :
        /\ polls' = [polls EXCEPT ![i] = q]
        /\ q.after = polls[i].after /\ q.answered /\ q.last = seq
        /\ AnswerOK(q, seq, Base)
  BY AnswerStep
<1>4. /\ i \in 1..Len(polls) /\ polls \in Seq(PollRecord)
      /\ polls[i].after \in Nat /\ polls[i].after <= total /\ total \in Nat
      /\ Limit \in Nat \ {0}
  BY Numeric, PollFields, FeedAssumption DEF TInv
<1>5. /\ Len(polls') = Len(polls)
      /\ \A j \in 1..Len(polls) : polls'[j] = IF j = i THEN q ELSE polls[j]
  BY <1>3, <1>4, ExceptSeq
<1>6. Accounted \subseteq Accounted' /\ evicted \subseteq evicted'
  BY <1>1 DEF Accounted
<1>7. seq' = total' /\ 1..cursor' \subseteq Accounted' /\ NothingSkipped'
  <2>1. 1..cursor \subseteq Accounted /\ NothingSkipped
    BY <1>2 DEF ReachInv
  <2> QED BY <1>1, <1>2, <1>6, <2>1 DEF NothingSkipped
<1>8. PollReaches(q, Accounted', evicted')
  <2>1. 1..q.after \subseteq Accounted'
    BY <1>2, <1>3, <1>4, <1>6, ReachOfPolls DEF PollReaches
  <2>2. Len(q.events) = Brought(q.after, q.last)
    BY <1>3 DEF AnswerOK, BringsOK
  <2>3. (q.after + 1)..(q.last - Brought(q.after, q.last)) \subseteq OutOfReach(q.after)
    BY <1>2, <1>3, <1>4 DEF Brought, OutOfReach
  <2> QED BY <1>1, <1>2, <1>3, <1>4, <2>1, <2>2, <2>3 DEF PollReaches
<1>9. ASSUME NEW j \in 1..Len(polls')
      PROVE  PollReaches(polls'[j], Accounted', evicted')
  <2>1. CASE j = i
    BY <1>4, <1>5, <1>8, <2>1
  <2>2. CASE j # i
    <3>1. j \in 1..Len(polls) /\ polls'[j] = polls[j]
      BY <1>5, <2>2
    <3>2. PollReaches(polls[j], Accounted, evicted)
      BY <1>2, <3>1, ReachOfPolls
    <3> QED BY <1>6, <3>1, <3>2, ReachKept
  <2> QED BY <2>1, <2>2
<1> QED BY <1>7, <1>9

(* Polls that are left keep what is accounted for when more is.            *)
LEMMA GoneReach ==
  ASSUME TInv, ReachInv, restarts = 0, NEW i \in DOMAIN polls, polls' = RemoveAt(polls, i),
         Accounted \subseteq Accounted', evicted \subseteq evicted'
  PROVE  \A j \in 1..Len(polls') : PollReaches(polls'[j], Accounted', evicted')
<1> TAKE j \in 1..Len(polls')
<1>1. PICK k \in 1..Len(polls) : polls'[j] = polls[k]
  BY PollGone
<1> QED BY <1>1, ReachOfPolls, ReachKept

LEMMA ReceiveReach ==
  ASSUME TInv, ReachInv, NEW i \in DOMAIN polls, Receive(i) PROVE ReachInv'
<1> SUFFICES ASSUME restarts' = 0
             PROVE  /\ (seq' = total') /\ 1..cursor' \subseteq Accounted' /\ NothingSkipped'
                    /\ \A j \in 1..Len(polls') : PollReaches(polls'[j], Accounted', evicted')
  BY DEF ReachInv, PollReaches
<1> DEFINE p == polls[i]
           added == ToSet(Numbers(p.events))
<1>1. /\ p.answered
      /\ seq' = seq /\ total' = total /\ restarts' = restarts /\ evicted' = evicted
      /\ polls' = RemoveAt(polls, i)
      /\ shown' = shown \union added
      /\ \/ cursor' = p.last
         \/ p.events = <<>> /\ p.last < cursor /\ cursor' = 0
         \/ p.events = <<>> /\ p.last >= cursor /\ cursor' = cursor
  BY ReceiveStep DEF server
<1>2. restarts = 0 /\ seq = total /\ 1..cursor \subseteq Accounted /\ NothingSkipped
  BY <1>1 DEF ReachInv
<1>3. i \in 1..Len(polls) /\ Base = 0 /\ shown \subseteq 1..total /\ cursor \in Nat
      /\ total \in Nat
  <2>1. seq \in Nat /\ total \in Nat
    BY Numeric
  <2> QED BY <1>2, <2>1, Numeric DEF Base
<1>4. /\ p.after \in Nat /\ p.last \in Nat /\ Len(p.events) \in Nat
      /\ Len(p.events) <= p.last
      /\ added = (p.last - Len(p.events) + 1)..p.last
  <2>1. added = (Base + p.last - Len(p.events) + 1)..(Base + p.last)
    BY <1>1, <1>3, AnswerNumbers
  <2>2. /\ p.after \in Nat /\ p.last \in Nat /\ Len(p.events) \in Nat
        /\ Len(p.events) <= p.last
    BY <1>1, <1>3, PollFields, AnswerNumbers
  <2> QED BY <1>3, <2>1, <2>2
<1>5. /\ 1..p.after \subseteq Accounted
      /\ (p.after + 1)..(p.last - Len(p.events)) \subseteq evicted
  BY <1>1, <1>2, <1>3, ReachOfPolls DEF PollReaches
<1> HIDE DEF p, added
<1>6. Accounted' = Accounted \union added /\ evicted \subseteq Accounted
  BY <1>1 DEF Accounted
<1>7. 1..p.last \subseteq Accounted'
  <2> SUFFICES ASSUME NEW n \in 1..p.last PROVE n \in Accounted'
    OBVIOUS
  <2>1. CASE n <= p.after
    <3>1. n \in 1..p.after
      BY <1>4, <2>1
    <3> QED BY <1>5, <1>6, <3>1
  <2>2. CASE n > p.after /\ n <= p.last - Len(p.events)
    <3>1. n \in (p.after + 1)..(p.last - Len(p.events))
      BY <1>4, <2>2
    <3> QED BY <1>5, <1>6, <3>1
  <2>3. CASE n > p.last - Len(p.events)
    <3>1. n \in (p.last - Len(p.events) + 1)..p.last
      BY <1>4, <2>3
    <3> QED BY <1>4, <1>6, <3>1
  <2> QED BY <1>4, <2>1, <2>2, <2>3
<1>8. 1..cursor' \subseteq Accounted'
  <2>1. CASE cursor' = p.last
    BY <1>7, <2>1
  <2>2. CASE cursor' = 0
    BY <2>2
  <2>3. CASE cursor' = cursor
    BY <1>2, <1>6, <2>3
  <2> QED BY <1>1, <2>1, <2>2, <2>3
<1>9. ASSUME NEW n \in shown' PROVE 1..n \subseteq Accounted'
  <2>1. CASE n \in shown
    <3>1. 1..n \subseteq Accounted
      BY <1>2, <2>1 DEF NothingSkipped, Accounted
    <3> QED BY <1>6, <3>1
  <2>2. CASE n \in added
    <3>1. n \in Int /\ n <= p.last
      BY <1>4, <2>2
    <3>2. 1..n \subseteq 1..p.last
      BY <1>4, <3>1
    <3> QED BY <1>7, <3>2
  <2> QED BY <1>1, <2>1, <2>2
<1>10. NothingSkipped'
  BY <1>9 DEF NothingSkipped, Accounted
<1>11. \A j \in 1..Len(polls') : PollReaches(polls'[j], Accounted', evicted')
  BY <1>1, <1>2, <1>6, GoneReach
<1> QED BY <1>1, <1>2, <1>8, <1>10, <1>11

LEMMA LoseReach ==
  ASSUME TInv, ReachInv, NEW i \in DOMAIN polls, Lose(i) PROVE ReachInv'
<1> SUFFICES ASSUME restarts' = 0
             PROVE  /\ (seq' = total') /\ 1..cursor' \subseteq Accounted' /\ NothingSkipped'
                    /\ \A j \in 1..Len(polls') : PollReaches(polls'[j], Accounted', evicted')
  BY DEF ReachInv, PollReaches
<1>1. /\ seq' = seq /\ total' = total /\ restarts' = restarts /\ evicted' = evicted
      /\ polls' = RemoveAt(polls, i) /\ shown' = shown /\ cursor' = cursor
  BY DEF Lose, server
<1>2. Accounted' = Accounted /\ restarts = 0
  BY <1>1 DEF Accounted
<1>3. \A j \in 1..Len(polls') : PollReaches(polls'[j], Accounted', evicted')
  BY <1>1, <1>2, GoneReach
<1>4. (seq = total) /\ 1..cursor \subseteq Accounted /\ NothingSkipped
  BY <1>2 DEF ReachInv
<1> QED BY <1>1, <1>2, <1>3, <1>4 DEF NothingSkipped

LEMMA NextReach == TInv /\ ReachInv /\ [Next]_vars => ReachInv'
<1> SUFFICES ASSUME TInv, ReachInv, [Next]_vars PROVE ReachInv'
  OBVIOUS
<1>1. CASE Record
  BY <1>1, RecordReach
<1>2. CASE Restart
  <2>1. restarts' # 0
    BY <1>2, Numeric DEF Restart
  <2> QED BY <2>1 DEF ReachInv
<1>3. CASE Asks
  BY <1>3, AskReach
<1>8. CASE BootFails
  BY <1>8 DEF BootFails, server, ReachInv, NothingSkipped, Accounted
<1>4. ASSUME NEW i \in DOMAIN polls, Answer(i) PROVE ReachInv'
  BY <1>4, AnswerReach
<1>5. ASSUME NEW i \in DOMAIN polls, Receive(i) PROVE ReachInv'
  BY <1>5, ReceiveReach
<1>6. ASSUME NEW i \in DOMAIN polls, Lose(i) PROVE ReachInv'
  BY <1>6, LoseReach
<1>7. CASE UNCHANGED vars
  BY <1>7 DEF vars, ReachInv, NothingSkipped, Accounted
<1> QED BY <1>1, <1>2, <1>3, <1>4, <1>5, <1>6, <1>7, <1>8 DEF Next, Asks

LEMMA InitReach == Init => ReachInv
<1> SUFFICES ASSUME Init PROVE ReachInv
  OBVIOUS
<1>1. polls = <<>> /\ seq = 0 /\ total = 0 /\ cursor = 0 /\ shown = {} /\ evicted = {}
  BY DEF Init
<1>2. Len(polls) = 0
  BY <1>1, EmptySeq
<1> QED BY <1>1, <1>2 DEF ReachInv, NothingSkipped, Accounted

(* Until the server restarts, whatever was recorded before an event the    *)
(* page shows it shows as well, unless the deque or the limit no longer    *)
(* gave it when a poll asked: however many polls overlap or get lost.      *)
THEOREM PageSkipsNothing == Spec => []NothingSkipped
<1>1. Init => TInv /\ ReachInv
  BY InitTyped, InitReach
<1>2. TInv /\ ReachInv /\ [Next]_vars => (TInv /\ ReachInv)'
  BY NextTyped, NextReach
<1>3. TInv /\ ReachInv => NothingSkipped
  BY DEF ReachInv, NothingSkipped
<1> QED BY <1>1, <1>2, <1>3, PTL DEF Spec

-----------------------------------------------------------------------------
(* Each event once, in the order of their numbers *)

LEMMA InitOrder == Init => OrderInv
<1> SUFFICES ASSUME Init PROVE OrderInv
  OBVIOUS
<1>1. polls = <<>> /\ seq = 0 /\ cursor = 0 /\ shown = {}
  BY DEF Init
<1>2. Len(polls) = 0
  BY <1>1, EmptySeq
<1> QED BY <1>1, <1>2 DEF OrderInv, Afresh

LEMMA RecordOrder ==
  ASSUME TInv, OrderInv, Record PROVE OrderInv'
<1>1. /\ seq' = seq + 1 /\ cursor' = cursor /\ shown' = shown /\ polls' = polls
      /\ astray' = astray
  BY DEF Record, page
<1>2. Base' = Base
  BY RecordTyped
<1>3. cursor \in Nat /\ seq \in Nat /\ (cursor <= seq => cursor <= seq + 1)
  BY Numeric
<1> QED BY <1>1, <1>2, <1>3 DEF OrderInv, Afresh

LEMMA RestartOrder ==
  ASSUME TInv, OrderInv, Restart PROVE OrderInv'
<1>1. cursor' = cursor /\ shown' = shown
  BY DEF Restart
<1>2. Base' = total /\ Len(polls') = 0
  BY RestartTyped
<1>3. \A n \in shown : n <= total /\ n <= total + cursor
  BY Numeric
<1> QED BY <1>1, <1>2, <1>3 DEF OrderInv, Afresh

LEMMA AskOrder ==
  ASSUME TInv, OrderInv, Asks PROVE OrderInv'
<1>1. /\ seq' = seq /\ cursor' = cursor /\ shown' = shown
      /\ ~astray' => ~astray /\ polls = <<>> /\ polls'[Len(polls) + 1].after = cursor
      /\ Len(polls') = Len(polls) + 1
      /\ ~polls'[Len(polls) + 1].answered
  BY AskStep DEF server
<1>2. Base' = Base
  BY AskTyped
<1>3. (cursor <= seq \/ Afresh)'
  BY <1>1, <1>2 DEF OrderInv, Afresh
<1>4. ASSUME ~astray'
      PROVE  /\ Len(polls') <= 1
             /\ \A n \in shown' : n <= Base' + cursor'
             /\ \A i \in 1..Len(polls') : polls'[i].after = cursor' /\ ~polls'[i].answered
  <2>1. ~astray /\ polls = <<>>
    BY <1>1, <1>4
  <2>2. Len(polls) = 0
    BY <2>1, EmptySeq
  <2>3. Len(polls') = 1 /\ polls'[1].after = cursor /\ ~polls'[1].answered
    BY <1>1, <1>4, <2>2
  <2>4. \A n \in shown : n <= Base + cursor
    BY <2>1 DEF OrderInv
  <2>5. \A i \in 1..Len(polls') : i = 1
    BY <2>3
  <2>6. Len(polls') <= 1
    BY <2>3
  <2> QED BY <1>1, <1>2, <2>3, <2>4, <2>5, <2>6
<1> QED BY <1>3, <1>4 DEF OrderInv

LEMMA AnswerOrder ==
  ASSUME TInv, OrderInv, NEW i \in DOMAIN polls, Answer(i) PROVE OrderInv'
<1>1. /\ seq' = seq /\ cursor' = cursor /\ shown' = shown /\ astray' = astray
  BY AnswerStep DEF server, page
<1>2. Base' = Base
  BY AnswerTyped
<1>3. PICK q \in PollRecord :
        polls' = [polls EXCEPT ![i] = q] /\ q.after = polls[i].after /\ q.last = seq
  BY AnswerStep
<1>4. i \in 1..Len(polls) /\ polls \in Seq(PollRecord) /\ cursor \in Nat /\ seq \in Nat
  BY Numeric DEF TInv
<1>5. /\ Len(polls') = Len(polls)
      /\ \A j \in 1..Len(polls) : polls'[j] = IF j = i THEN q ELSE polls[j]
  BY <1>3, <1>4, ExceptSeq
<1>6. cursor <= seq \/ Afresh
  BY DEF OrderInv
<1>7. Afresh' <=> Afresh
  BY <1>1, <1>2 DEF Afresh
<1>8. ASSUME ~astray
      PROVE  \A j \in 1..Len(polls') :
               /\ polls'[j].after = cursor
               /\ polls'[j].answered => polls'[j].last >= cursor \/ Afresh
  <2> TAKE j \in 1..Len(polls')
  <2>1. /\ polls[j].after = cursor
        /\ polls[j].answered => polls[j].last >= cursor \/ Afresh
    BY <1>5, <1>8 DEF OrderInv
  <2>2. CASE j = i
    <3>1. polls'[j] = q /\ q.after = cursor /\ (q.last >= cursor \/ Afresh)
      BY <1>3, <1>4, <1>5, <1>6, <2>1, <2>2
    <3> QED BY <3>1
  <2>3. CASE j # i
    BY <1>5, <2>1, <2>3
  <2> QED BY <2>2, <2>3
<1> QED BY <1>1, <1>2, <1>5, <1>6, <1>7, <1>8 DEF OrderInv

(* When the page stands still with nothing under way, or polls did not     *)
(* overlap, what it shows is not beyond the cursor once a poll has gone.   *)
LEMMA SettledOrder ==
  ASSUME TInv, OrderInv, NEW i \in DOMAIN polls, polls' = RemoveAt(polls, i), Settles,
         cursor' \in Nat, shown' \subseteq Nat, Base' = Base,
         ~astray => \A n \in shown' : n <= Base + cursor',
         (cursor <= seq \/ Afresh)'
  PROVE  OrderInv'
<1>1. Base \in Nat /\ Len(polls) \in Nat
  BY Numeric
<1>2. ASSUME ~astray'
      PROVE  Len(polls') <= 0 /\ \A n \in shown' : n <= Base + cursor'
  <2>1. CASE ~astray
    <3>1. Len(polls) <= 1
      BY <2>1 DEF OrderInv
    <3>2. Len(polls') = Len(polls) - 1
      BY PollGone
    <3>3. Len(polls') <= 0
      BY <1>1, <3>1, <3>2
    <3> QED BY <2>1, <3>3, Zenon
  <2>2. CASE astray
    <3>1. /\ polls' = <<>>
          /\ \A n \in shown' : n <= total - seq \/ n <= cursor' + (total - seq)
      BY <1>2, <2>2, Zenon DEF Settles
    <3>2. Len(polls') = 0
      BY <3>1, EmptySeq
    <3>3. total - seq = Base
      BY DEF Base
    <3>4. \A n \in shown' : n <= Base \/ n <= cursor' + Base
      BY <3>1, <3>3, Zenon
    <3>5. ASSUME NEW n \in shown' PROVE n <= Base + cursor'
      <4>1. n \in Nat /\ Base \in Nat /\ cursor' \in Nat
        BY <1>1
      <4>2. n <= Base \/ n <= cursor' + Base
        BY <3>4, Zenon
      <4>3. \A b, c, x \in Nat : (x <= b \/ x <= c + b) => x <= b + c
        OBVIOUS
      <4> QED BY <4>1, <4>2, <4>3, Zenon
    <3> QED BY <3>2, <3>5
  <2> QED BY <2>1, <2>2
<1>3. Len(polls') \in Nat
  BY PollGone, LenProperties
<1> QED BY <1>2, <1>3 DEF OrderInv

LEMMA ReceiveOrder ==
  ASSUME TInv, OrderInv, NEW i \in DOMAIN polls, Receive(i) PROVE OrderInv'
<1> DEFINE p == polls[i]
           added == ToSet(Numbers(p.events))
<1>1. /\ p.answered
      /\ seq' = seq
      /\ polls' = RemoveAt(polls, i)
      /\ shown' = shown \union added /\ added \subseteq 1..total
      /\ cursor' \in 0..total
      /\ \/ cursor' = p.last
         \/ p.events = <<>> /\ p.last < cursor /\ cursor' = 0
         \/ p.events = <<>> /\ p.last >= cursor /\ cursor' = cursor
      /\ Settles
  BY ReceiveStep DEF server
<1>2. Base' = Base
  BY ReceiveTyped
<1>3. /\ i \in 1..Len(polls) /\ Base \in Nat /\ shown \subseteq 1..total /\ cursor \in Nat
      /\ total \in Nat /\ seq \in Nat
      /\ p.after \in Nat /\ p.last \in Nat /\ Len(p.events) \in Nat
  BY Numeric, PollFields
<1>4. /\ p.last <= seq /\ Len(p.events) <= p.last
      /\ p.events # <<>> <=> p.after < p.last
      /\ added = (Base + p.last - Len(p.events) + 1)..(Base + p.last)
  BY <1>1, <1>3, AnswerNumbers
<1>5. p.events = <<>> => added = {}
  <2>1. p.events = <<>> => Len(p.events) = 0
    BY EmptySeq
  <2> QED BY <1>3, <1>4, <2>1
<1>6. /\ cursor <= seq \/ Afresh
      /\ ~astray => /\ p.after = cursor /\ (p.last >= cursor \/ Afresh)
                    /\ \A n \in shown : n <= Base + cursor
  BY <1>1, <1>3 DEF OrderInv
<1> HIDE DEF p, added
<1>7. (cursor <= seq \/ Afresh)'
  <2>1. CASE p.events = <<>> /\ p.last >= cursor /\ cursor' = cursor
    BY <1>1, <1>2, <1>5, <1>6, <2>1 DEF Afresh
  <2>2. CASE cursor' = p.last \/ cursor' = 0
    BY <1>1, <1>3, <1>4, <2>2
  <2> QED BY <1>1, <2>1, <2>2
<1>8. ASSUME ~astray, NEW n \in shown' PROVE n <= Base + cursor'
  <2>1. p.after = cursor /\ (p.last >= cursor \/ Afresh) /\ \A k \in shown : k <= Base + cursor
    BY <1>6, <1>8
  <2>2. n \in Nat /\ cursor' \in Nat
    BY <1>1, <1>3
  <2>3. CASE n \in added
    <3>1. p.events # <<>> /\ n <= Base + p.last
      BY <1>3, <1>4, <1>5, <2>3
    <3>2. cursor' = p.last
      BY <1>1, <3>1
    <3> QED BY <3>1, <3>2
  <2>4. CASE n \in shown /\ Afresh
    <3>1. n <= Base
      BY <2>4 DEF Afresh
    <3>2. \A b, c, x \in Nat : x <= b => x <= b + c
      OBVIOUS
    <3> QED BY <1>3, <2>2, <3>1, <3>2, Zenon
  <2>5. CASE n \in shown /\ p.last >= cursor
    <3>1. cursor' >= cursor
      BY <1>1, <1>3, <2>5
    <3>2. n <= Base + cursor
      BY <2>1, <2>5, Zenon
    <3>3. \A b, c, d, x \in Nat : x <= b + c /\ d >= c => x <= b + d
      OBVIOUS
    <3> QED BY <1>3, <2>2, <3>1, <3>2, <3>3, Zenon
  <2> QED BY <1>1, <2>1, <2>3, <2>4, <2>5
<1>9. cursor' \in Nat /\ shown' \subseteq Nat
  BY <1>1, <1>3
<1> QED BY <1>1, <1>2, <1>7, <1>8, <1>9, SettledOrder

LEMMA LoseOrder ==
  ASSUME TInv, OrderInv, NEW i \in DOMAIN polls, Lose(i) PROVE OrderInv'
<1>1. /\ seq' = seq /\ polls' = RemoveAt(polls, i) /\ shown' = shown /\ cursor' = cursor
      /\ Settles
  BY DEF Lose, server
<1>2. Base' = Base
  BY LoseTyped
<1>3. (cursor <= seq \/ Afresh)'
  BY <1>1, <1>2 DEF OrderInv, Afresh
<1>4. ~astray => \A n \in shown' : n <= Base + cursor'
  BY <1>1 DEF OrderInv
<1>5. cursor' \in Nat /\ shown' \subseteq Nat
  BY <1>1, Numeric
<1> QED BY <1>1, <1>2, <1>3, <1>4, <1>5, SettledOrder

LEMMA NextOrder == TInv /\ OrderInv /\ [Next]_vars => OrderInv'
<1> SUFFICES ASSUME TInv, OrderInv, [Next]_vars PROVE OrderInv'
  OBVIOUS
<1>1. CASE Record
  BY <1>1, RecordOrder
<1>2. CASE Restart
  BY <1>2, RestartOrder
<1>3. CASE Asks
  BY <1>3, AskOrder
<1>8. CASE BootFails
  BY <1>8 DEF BootFails, server, OrderInv, Afresh, Base
<1>4. ASSUME NEW i \in DOMAIN polls, Answer(i) PROVE OrderInv'
  BY <1>4, AnswerOrder
<1>5. ASSUME NEW i \in DOMAIN polls, Receive(i) PROVE OrderInv'
  BY <1>5, ReceiveOrder
<1>6. ASSUME NEW i \in DOMAIN polls, Lose(i) PROVE OrderInv'
  BY <1>6, LoseOrder
<1>7. CASE UNCHANGED vars
  BY <1>7 DEF vars, OrderInv, Afresh, Base
<1> QED BY <1>1, <1>2, <1>3, <1>4, <1>5, <1>6, <1>7, <1>8 DEF Next, Asks

(* What one Receive adds.                                                  *)
AddedInOrder(i) ==
  LET added == Numbers(polls[i].events) IN
  Receive(i) /\ ~astray =>
    /\ \A n \in ToSet(added), old \in shown : n > old
    /\ \A j, k \in DOMAIN added : j < k => added[j] < added[k]

LEMMA ReceiveInOrder ==
  ASSUME TInv, OrderInv, NEW i \in DOMAIN polls PROVE AddedInOrder(i)
<1> DEFINE p == polls[i]
           added == Numbers(p.events)
           n == Len(p.events)
<1> SUFFICES ASSUME Receive(i), ~astray
             PROVE  /\ \A x \in ToSet(added), old \in shown : x > old
                    /\ \A j, k \in DOMAIN added : j < k => added[j] < added[k]
  BY DEF AddedInOrder
<1>1. p.answered
  BY ReceiveStep
<1>2. /\ i \in 1..Len(polls) /\ Base \in Nat /\ cursor \in Nat /\ shown \subseteq 1..total
      /\ p.after \in Nat /\ p.last \in Nat /\ n \in Nat
  BY Numeric, PollFields
<1>3. /\ p.events # <<>> => p.after <= p.last - n
      /\ DOMAIN added = 1..n
      /\ \A j \in 1..n : added[j] = Base + p.last - n + j
      /\ ToSet(added) = (Base + p.last - n + 1)..(Base + p.last)
  BY <1>1, <1>2, AnswerNumbers
<1>4. p.after = cursor /\ \A old \in shown : old <= Base + cursor
  BY <1>2 DEF OrderInv
<1>5. p.events = <<>> => n = 0
  BY EmptySeq
<1> HIDE DEF p, added, n
<1>6. ASSUME NEW x \in ToSet(added), NEW old \in shown PROVE x > old
  <2>1. x \in Int /\ x >= Base + p.last - n + 1 /\ x <= Base + p.last /\ old \in Nat
    <3>1. x \in (Base + p.last - n + 1)..(Base + p.last) /\ old \in 1..total
      BY <1>2, <1>3
    <3> QED BY <1>2, <3>1
  <2>2. n # 0
    BY <1>2, <2>1
  <2>3. cursor <= p.last - n
    BY <1>3, <1>4, <1>5, <2>2
  <2>4. old <= Base + cursor
    BY <1>4
  <2> QED BY <1>2, <2>1, <2>3, <2>4
<1>7. ASSUME NEW j \in DOMAIN added, NEW k \in DOMAIN added, j < k
      PROVE  added[j] < added[k]
  BY <1>2, <1>3, <1>7
<1> QED BY <1>6, <1>7

(* As long as polls do not overlap, and again once the cursor has caught   *)
(* up, the page adds each event once and in the order in which they were   *)
(* recorded, also over restarts of the server and lost polls.              *)
THEOREM PageShowsInOrder == Spec => ShownOnceInOrder
<1>1. Init => TInv /\ OrderInv
  BY InitTyped, InitOrder
<1>2. TInv /\ OrderInv /\ [Next]_vars => (TInv /\ OrderInv)'
  BY NextTyped, NextOrder
<1>3. TInv /\ OrderInv =>
        [\A i \in DOMAIN polls :
           LET added == Numbers(polls[i].events) IN
           Receive(i) /\ ~astray =>
             /\ \A n \in ToSet(added), old \in shown : n > old
             /\ \A j, k \in DOMAIN added : j < k => added[j] < added[k]]_vars
  BY ReceiveInOrder DEF AddedInOrder
<1> QED BY <1>1, <1>2, <1>3, PTL DEF Spec, ShownOnceInOrder

=============================================================================
