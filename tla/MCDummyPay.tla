------------------------------ MODULE MCDummyPay ------------------------------
(* Small instances of DummyPay for TLC. *)
EXTENDS DummyPay, TLC

CONSTANTS r1, r2, w1, c1, a1, k1

OneBody == {[reference |-> "x", token |-> "card_declined"]}

SomeEvents == {{"payment.rejected", "payment.processing"}}

RejectedEvents == {{"payment.rejected"}}

Never == -1

Symmetry == Permutations(Request)
=============================================================================
