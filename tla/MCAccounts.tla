----------------------------- MODULE MCAccounts -----------------------------
(***************************************************************************)
(* An instance of Accounts: ids, names, formats and workers are            *)
(* interchangeable.                                                        *)
(***************************************************************************)
EXTENDS Accounts, TLC

CONSTANTS i1, i2, ann, ben, png, gif, w1, w2

Interchangeable ==
  Permutations(Ids) \cup Permutations(Names) \cup Permutations(Formats) \cup Permutations(Workers)
=============================================================================
