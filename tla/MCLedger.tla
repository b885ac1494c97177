------------------------------ MODULE MCLedger ------------------------------
(* Instances of Ledger for TLC. *)
EXTENDS Ledger, TLC

CONSTANTS b1, b2, b3, c1, c2, c3, c4, eur, usd, w1, w2

Row(id, b, c, k, cu) == [id |-> id, bank |-> b, ccy |-> c, kind |-> k, customer |-> cu]

(* Two tenants, each with an account; one account has a customer.          *)
TwoBanks ==
  [banks |-> {b1, b2},
   customers |-> {[id |-> c1, bank |-> b1]},
   accounts |-> {Row(1, b1, eur, "customer", c1), Row(2, b2, eur, "customer", None)},
   journal |-> {}, seq |-> 0]

(* Entries of a plugin: one in a currency its account does not have, one   *)
(* that does not add up, one that posts to two tenants.                    *)
PluginEntries ==
  { <<Leg(1, usd, -1), Leg(1, usd, 1)>>,
    <<Leg(1, eur, -2), Leg(1, eur, 1)>>,
    <<Leg(1, eur, -1), Leg(2, eur, 1)>> }

(* A batch of one customer with one account: two rows of one request.      *)
OneEach == {<<1, 1>>}

(* The workers are alike, and so are the customer ids still free; every *)
(* property checked is a safety property.                                  *)
Symmetry == Permutations(Workers) \union Permutations(CustomerIds \ {c1})
=============================================================================
