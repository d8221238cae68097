------------------------------- MODULE MCRooms -------------------------------
(***************************************************************************)
(* Instances of Rooms.  Users, workers and names are interchangeable:      *)
(* safety runs identify states that differ by a permutation of them.       *)
(***************************************************************************)
EXTENDS Rooms, TLC

CONSTANTS ann, ben, cat, lobby, attic, w1, w2

MCIds(r, m, a) == [rooms |-> r, members |-> m, apps |-> a]

Ids242 == MCIds(2, 4, 2)
Ids241 == MCIds(2, 4, 1)

Interchangeable == Permutations(Users) \cup Permutations(Workers) \cup Permutations(Names)
=============================================================================
