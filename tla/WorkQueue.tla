------------------------------- MODULE WorkQueue -------------------------------
(***************************************************************************)
(* What the outbox promises whoever asks for work (the comment of          *)
(* ClaimDueWork and the interface payment.OutboxClaimer), without saying   *)
(* how: no due times, kinds, locks or claims that are not committed yet.   *)
(*                                                                         *)
(* A piece of work is handed out once, to one worker, in a batch that is   *)
(* taken at one moment.  It never goes back: a worker that dies, even at   *)
(* the moment it takes a batch, takes it along.  Work may ask for more.    *)
(***************************************************************************)
EXTENDS Integers

CONSTANTS Worker

VARIABLES
  asked,     \* how many pieces of work have been asked for, numbered in order
  waiting,   \* those nobody has taken
  hand       \* what each worker has taken and not finished

vars == <<asked, waiting, hand>>

Init ==
  /\ asked = 0
  /\ waiting = {}
  /\ hand = [w \in Worker |-> {}]

(* New work waits. *)
MayAsk ==
  /\ asked' \in Nat /\ asked' >= asked
  /\ waiting' = waiting \cup (asked + 1)..asked'

Ask == MayAsk /\ UNCHANGED hand

(* A batch, for a worker with nothing to do; its work is lost at once if   *)
(* the worker never learns of it.                                          *)
Take(w) ==
  /\ hand[w] = {}
  /\ \E S \in SUBSET waiting :
       /\ waiting' = waiting \ S
       /\ hand' = [hand EXCEPT ![w] = S] \/ UNCHANGED hand
  /\ UNCHANGED asked

(* One piece is finished, or found to need nothing. *)
Finish(w) ==
  /\ \E i \in hand[w] : hand' = [hand EXCEPT ![w] = hand[w] \ {i}]
  /\ MayAsk

(* The rest of a batch is lost. *)
Die(w) == hand' = [hand EXCEPT ![w] = {}] /\ MayAsk

Next == Ask \/ \E w \in Worker : Take(w) \/ Finish(w) \/ Die(w)

Spec == Init /\ [][Next]_vars
=============================================================================
