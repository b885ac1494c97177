------------------------------ MODULE MCHistory ------------------------------
(* Instances of History for TLC. *)
EXTENDS History, TLC

CONSTANTS a1, a2, w1, w2

Dated(a, m, t, off) ==
  [account |-> a, amount |-> m, matches |-> TRUE, date |-> [instant |-> t, offset |-> off]]
Undated(a, m) == [account |-> a, amount |-> m, matches |-> TRUE, date |-> None]
WrongCurrency(a) == [account |-> a, amount |-> 1, matches |-> FALSE, date |-> None]
Unknown == [account |-> None, amount |-> 1, matches |-> TRUE, date |-> None]

(* Out of order, with dates that coincide, at different distances from     *)
(* UTC, one refused in the middle, and single transactions.                *)
SomeImports ==
  {<<Dated(a1, 5, 3, 0), Dated(a1, -2, 1, 0), Undated(a2, 4)>>,
   <<Dated(a1, 1, 3, 0), Unknown, Undated(a1, 2)>>,
   <<WrongCurrency(a2), Undated(a2, 3)>>,
   <<Dated(a1, 5, 3, 2), Dated(a1, 1, 4, 0)>>,
   <<Undated(a1, 7)>>}

(* Months of four days with the pay day in the third: a month's days of    *)
(* purchases, and the end of one month with the beginning of the next.     *)
SomeRanges == {[start |-> 1, end |-> 3], [start |-> 4, end |-> 5]}

Symmetry == Permutations(Workers)
=============================================================================
