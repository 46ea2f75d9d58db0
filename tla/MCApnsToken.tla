----------------------------- MODULE MCApnsToken -----------------------------
(* ApnsToken for TLC: one process with two pushes at a time, whose clock is   *)
(* Apple's.                                                                   *)
EXTENDS ApnsToken, TLC

CONSTANT p1

OneProcess == [b \in Batches |-> p1]
NoSkew == [p \in Processes |-> 0]

Symmetry == Permutations(Batches)
=============================================================================
