--------------------------- MODULE PaymentPromise ---------------------------
(***************************************************************************)
(* What a payment promises its debtor, apart from engines and ledgers: it  *)
(* is received; then its money is taken exactly once, or it is refused and *)
(* no money is ever taken; a payment whose money was taken can only go on  *)
(* to be completed.                                                        *)
(***************************************************************************)
CONSTANT PaymentIds

VARIABLE phase

Phases == {"absent", "received", "taken", "completed", "refused"}

Init == phase = [p \in PaymentIds |-> "absent"]

Moves(p, from, to) == phase[p] = from /\ phase' = [phase EXCEPT ![p] = to]

Receive(p) == Moves(p, "absent", "received")
Take(p) == Moves(p, "received", "taken")
Refuse(p) == Moves(p, "received", "refused")
Complete(p) == Moves(p, "taken", "completed")

Next == \E p \in PaymentIds : Receive(p) \/ Take(p) \/ Refuse(p) \/ Complete(p)

Spec == Init /\ [][Next]_phase

=============================================================================
