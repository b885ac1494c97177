---------------------------- MODULE MCSettlement ----------------------------
(* Instances of Settlement for TLC. *)
EXTENDS Settlement, TLC

CONSTANTS b1, c1, eur, w1, w2

Row(id, k, cu) == [id |-> id, bank |-> b1, ccy |-> eur, kind |-> k, customer |-> cu]

(* A bank with one customer account, funded with m units from the External *)
(* world account, and no settlement account yet.                           *)
Funded(m, engines) ==
  [banks |-> {b1}, customers |-> {[id |-> c1, bank |-> b1]},
   accounts |-> {Row(1, "customer", c1), Row(9, "external_world", None)},
   journal |-> {[seq |-> 1, bank |-> b1, postings |-> TwoLegs(9, 1, eur, m), ref |-> None]},
   seq |-> 1, engines |-> engines]

AnyEngine == Funded(2, Engines)
Poor == Funded(1, Engines)

(* A bank under netting after a cycle has run before: both accounts are open. *)
NettingOpened ==
  [Funded(2, {"netting"}) EXCEPT !.accounts = @ \union {Row(3, "suspense", None), Row(4, "net_settlement", None)}]

WorkerSymmetry == Permutations(Workers)
=============================================================================
