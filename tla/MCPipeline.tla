------------------------------ MODULE MCPipeline ------------------------------
(* Small instances of Pipeline for TLC. *)
EXTENDS Pipeline, TLC

CONSTANTS q1, w1, w2, c1, a1, k1

ApprovedBody == {[reference |-> "x", token |-> "card_approved"]}

BothBodies == {[reference |-> "x", token |-> "card_approved"],
               [reference |-> "x", token |-> "card_declined"]}

AllEvents == {EventType}

SomeEvents == {{"payment.approved", "payment.processing"}, {"payment.rejected"}}

TerminalEvents == {{"payment.approved"}}

Never == -1

Symmetry == Permutations(Worker)
=============================================================================
