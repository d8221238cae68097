--------------------------- MODULE UserDirectory ---------------------------
(***************************************************************************)
(* What the accounts promise about user names: a name has one holder at a  *)
(* time, a new account or a renaming account takes a name nobody holds,    *)
(* and nothing else gives or takes a name.  Accounts is shown to implement *)
(* it.                                                                     *)
(***************************************************************************)
CONSTANTS Names, Ids

VARIABLE holders   \* holders[n]: the accounts that bear the name n

Init == holders = [n \in Names |-> {}]

Nameless(i) == \A n \in Names : i \notin holders[n]

Register(i, n) ==
  /\ holders[n] = {} /\ Nameless(i)
  /\ holders' = [holders EXCEPT ![n] = {i}]

Rename(i, n, new) ==
  /\ holders[n] = {i} /\ holders[new] = {}
  /\ holders' = [holders EXCEPT ![n] = {}, ![new] = {i}]

Next ==
  \E i \in Ids, n \in Names : Register(i, n) \/ \E new \in Names : Rename(i, n, new)

Spec == Init /\ [][Next]_holders
=============================================================================
