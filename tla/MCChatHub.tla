------------------------------ MODULE MCChatHub ------------------------------
(***************************************************************************)
(* Instances of ChatHub: one user, in several browser tabs.                *)
(***************************************************************************)
EXTENDS ChatHub

CONSTANTS s1, s2, s3, ann, lobby, attic

MCUserOf == [s \in Sockets |-> ann]
=============================================================================
