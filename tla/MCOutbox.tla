------------------------------ MODULE MCOutbox ------------------------------
(* Small instances of Outbox for TLC.                                      *)
EXTENDS Outbox, TLC

CONSTANTS e1, e2

\* e1 and e2 are events of one aggregate, in this order.
OneAggregate == {<<e1, e2>>}

\* Workers' slots are interchangeable; used where only invariants are checked.
SlotSymmetry == Permutations(Slots)
=============================================================================
