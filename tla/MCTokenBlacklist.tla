-------------------------- MODULE MCTokenBlacklist --------------------------
(***************************************************************************)
(* Two half-second ticks to the second, tokens of one second, batches of   *)
(* one row and a cooldown of two ticks: rows expire while requests are in  *)
(* flight, one purge needs several batches, and one comes during another's *)
(* run and one after its cooldown.                                         *)
(***************************************************************************)
EXTENDS TokenBlacklist, TLC

CONSTANTS t1, t2, w1, w2, c1, c2

Interchangeable ==
  Permutations(Tokens) \cup Permutations(Workers) \cup Permutations(Cleaners)
=============================================================================
