------------------------------ MODULE MCAccess ------------------------------
(* Instances of Access for TLC: customers are 1, 2, ..., tokens 11, 12,    *)
(* ..., consents 21, 22, ..., codes 31, 32, ...                            *)
EXTENDS Access, TLC

CONSTANTS b1, b2, a1, a2, a3, u1, u2, w1, w2

(* One bank, two customers, one of them with two accounts; each has a login. *)
OneBank ==
  [banks |-> {b1},
   customers |-> {[id |-> 1, bank |-> b1], [id |-> 2, bank |-> b1]},
   credentials |-> {[bank |-> b1, user |-> u1, customer |-> 1],
                    [bank |-> b1, user |-> u2, customer |-> 2]},
   holder |-> [a \in AccountIds |-> IF a = a3 THEN 2 ELSE 1]]

(* A second bank, so that one may be deleted while the other goes on.      *)
TwoBanks == [OneBank EXCEPT !.banks = {b1, b2}]

(* A TPP asks for all accounts ("availableAccounts").                      *)
AllAccounts == {AccountIds}

WorkerSymmetry == Permutations(Workers)
=============================================================================
