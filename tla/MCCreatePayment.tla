--------------------------- MODULE MCCreatePayment ---------------------------
(* Small instances of CreatePayment for TLC. *)
EXTENDS CreatePayment, TLC

CONSTANTS r1, r2, r3, a1, k1

TwoBodies == {[reference |-> "x", token |-> "card_approved"],
              [reference |-> "x", token |-> "card_declined"]}

OneBody == {[reference |-> "x", token |-> "card_approved"]}

Symmetry == Permutations(Request)
=============================================================================
