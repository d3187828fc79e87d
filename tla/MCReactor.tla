----------------------------- MODULE MCReactor ------------------------------
(* Small instances of Reactor for TLC. *)
EXTENDS Reactor, TLC

\* Descriptors, timers and workers are interchangeable.
Symmetry == Permutations(Fd) \cup Permutations(Timer) \cup Permutations(Worker)
=============================================================================
