----------------------------- MODULE MCTenancy -----------------------------
(* Instances of Tenancy for TLC. *)
EXTENDS Tenancy, TLC

CONSTANTS acme, ACME, other, blank, EUR, PLN, pln, de, fr, w1, w2

(* Two spellings of one name, another name, and one that is all blanks.    *)
Folded == [n \in Names |-> IF n = ACME THEN acme ELSE n]

(* Two spellings of one currency. *)
UpperCase == [c \in Currencies |-> IF c = pln THEN PLN ELSE c]

Body(n, b, p, o, s) ==
  [name |-> n, base |-> b, supported |-> {}, protocols |-> p, openBanking |-> o, settings |-> s]

SomeCreations ==
  {Body(acme, EUR, FALSE, None, de), Body(other, EUR, TRUE, FALSE, de),
   [Body(ACME, pln, TRUE, TRUE, fr) EXCEPT !.supported = {EUR}]}

Fields(n, b, p, s) == [name |-> n, base |-> b, protocols |-> p, settings |-> s]

(* One field at a time, and all of them at once.                           *)
SomeUpdates ==
  {Fields(n, None, None, None) : n \in {acme, ACME, other, blank}}
  \union {Fields(None, b, None, None) : b \in Currencies}
  \union {Fields(None, None, p, None) : p \in BOOLEAN}
  \union {Fields(None, None, None, s) : s \in Settings}
  \union {Fields(other, PLN, TRUE, fr)}

Symmetry == Permutations(Workers)
=============================================================================
