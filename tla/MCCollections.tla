---------------------------- MODULE MCCollections ----------------------------
(***************************************************************************)
(* Collections for TLC.                                                    *)
(***************************************************************************)
EXTENDS Collections, TLC

Symmetry == Permutations(Docs) \cup Permutations(Callers)
===============================================================================
