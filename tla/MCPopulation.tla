---------------------------- MODULE MCPopulation ----------------------------
(* Instances of Population for TLC. *)
EXTENDS Population, TLC

CONSTANTS w1, w2

SomePersonas == {"young_professional", "retiree", "student"}
SomeSupported == {"young_professional", "retiree"}

None0 == <<>>  \* no weights

(* No weights at all; weights that add accounts, one of them zero; a       *)
(* number of accounts given; a weight for a type that counts as internal.  *)
SomeBatches ==
  {[count |-> 2, personas |-> None0, types |-> None0, each |-> None],
   [count |-> 1, personas |-> [x \in {"young_professional", "retiree"} |->
                                 IF x = "retiree" THEN 0 ELSE 1],
    types |-> [t \in {"current", "savings", "credit_card", "loan"} |->
                 CASE t = "current" -> 5 [] t = "savings" -> 3 [] t = "loan" -> 2 [] OTHER -> 0],
    each |-> None],
   [count |-> 1, personas |-> [x \in {"retiree"} |-> 1],
    types |-> [t \in {"current", "savings"} |-> 1], each |-> None],
   [count |-> 1, personas |-> None0, types |-> [t \in {"savings"} |-> 1], each |-> 2],
   [count |-> 1, personas |-> None0, types |-> [t \in {"nostro"} |-> 1], each |-> None]}

(* The address of a customer of a batch, given as a username. *)
JaneOfBatch == {[name |-> "jane", nr |-> 1, example |-> TRUE]}

AtExample == {[name |-> "jane", nr |-> 0, example |-> TRUE]}

Symmetry == Permutations(Workers)
=============================================================================
