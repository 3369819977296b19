----------------------------- MODULE MCRefund -----------------------------
(* Instances of Refund for TLC. *)
EXTENDS Refund, TLC

CONSTANTS r1, r2, t1, t2, w1, w2, w3

\* Tickets and workers are interchangeable, and so are refunds.
Symmetry == Permutations(Refunds) \union Permutations(Tickets) \union Permutations(Workers)
=============================================================================
