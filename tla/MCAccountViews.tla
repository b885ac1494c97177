--------------------------- MODULE MCAccountViews ---------------------------
(* Instances of AccountViews for TLC.                                      *)
EXTENDS AccountViews

CONSTANTS b1, b2, c1, c2, c3

(* Bank b1: customer c1 with a card; what a batch adds, customer c2 with a *)
(* savings account and one of an internal type; and the "External world"   *)
(* account 8: all in euro.  Bank b2 has one customer, and an account of    *)
(* nobody, in yen.                                                         *)
Rows ==
  LET own(b, c, t, ccy) == [bank |-> b, customer |-> c, type |-> t, currency |-> ccy] IN
  [a \in Accounts |->
     CASE a = 1 -> own(b1, c1, "credit_card", "EUR")
       [] a = 2 -> own(b1, c2, "savings", "EUR")
       [] a = 3 -> own(b1, c2, "nostro", "EUR")
       [] a = 4 -> own(b2, None, "current", "JPY")
       [] a = 8 -> own(b1, None, "internal", "EUR")]

Homes == [c \in {c1, c2, c3} |-> IF c = c3 THEN b2 ELSE b1]

AtFirst == [banks |-> {b1, b2}, customers |-> {c1, c3}, accounts |-> {1, 4, 8}]

NewBatch == [customers |-> {c2}, accounts |-> {2, 3}]

(* No range, one day, and one instant given without a time zone.           *)
SomeRanges ==
  {None, [from |-> 1, to |-> 1, naive |-> FALSE], [from |-> 1, to |-> 1, naive |-> TRUE]}
=============================================================================
