------------------------------- MODULE MCClog -------------------------------
(* Instances of Clog for TLC. *)
EXTENDS Clog, TLC

\* Writers are interchangeable.
WriterSymmetry == Permutations(Writer)
=============================================================================
