------------------------------- MODULE MCLog --------------------------------
(* Small instances of Log for TLC. *)
EXTENDS Log, TLC

\* The threads that log are interchangeable.
Symmetry == Permutations(Thread)
=============================================================================
