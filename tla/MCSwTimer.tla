----------------------------- MODULE MCSwTimer -----------------------------
(* SwTimer with interchangeable timers. *)
EXTENDS SwTimer, TLC

Timers == Permutations(Timer)
=============================================================================
