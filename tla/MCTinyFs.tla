------------------------------ MODULE MCTinyFs ------------------------------
(* TinyFs for TLC: names are interchangeable. *)
EXTENDS TinyFs, TLC

Names == Permutations(Name)
=============================================================================
