-------------------------------- MODULE MCTabs --------------------------------
(***************************************************************************)
(* Instances of Tabs.  Rooms are interchangeable, and so are tab instances.*)
(***************************************************************************)
EXTENDS Tabs

CONSTANTS lobby, attic, t1, t2, t3

Interchangeable == Permutations(Rooms) \cup Permutations(Slots)
=============================================================================
