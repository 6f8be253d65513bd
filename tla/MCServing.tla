------------------------------ MODULE MCServing -------------------------------
(***************************************************************************)
(* Serving for TLC.  Callers, processes and rows are interchangeable.      *)
(***************************************************************************)
EXTENDS Serving, TLC

Symmetry == Permutations(Callers) \cup Permutations(Slots) \cup Permutations(Processes)

=============================================================================
