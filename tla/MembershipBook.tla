--------------------------- MODULE MembershipBook ---------------------------
(***************************************************************************)
(* What rooms and memberships promise to their users: a request, while it  *)
(* is answered, takes effect in one step, allowed by what the book says at *)
(* that instant, or not at all.  Rooms, where a request is several         *)
(* statements with those of others in between, is shown to implement it.   *)
(***************************************************************************)
EXTENDS Naturals

CONSTANTS Users, Names, RoomTypes, Clients

VARIABLES
  rooms,      \* records [id, name, owner, type]
  inside,     \* <<room id, user>>: who is in which room
  approved,   \* <<room id, user>>: whom a room's owner has approved
  lastRoom,   \* the last id given to a room; none is given twice
  asked       \* asked[c]: the request of client c that is being answered

book == <<rooms, inside, approved, lastRoom, asked>>

\* What clients ask for, of those operations that change the book.
Calls ==
  [op : {"create"}, user : Users, name : Names, type : RoomTypes]
    \cup [op : {"join", "leave", "delete"}, user : Users, room : Nat]
    \cup [op : {"kick", "approve"}, user : Users, room : Nat, target : Users]
    \cup [op : {"rename"}, user : Users, room : Nat, name : Names]

NoCall == [op |-> "none"]

Init ==
  /\ rooms = {} /\ inside = {} /\ approved = {} /\ lastRoom = 0
  /\ asked = [c \in Clients |-> NoCall]

\* Anybody may ask for anything.
Ask(c) ==
  /\ asked[c] = NoCall
  /\ asked'[c] \in Calls
  /\ asked' = [asked EXCEPT ![c] = asked'[c]]
  /\ UNCHANGED <<rooms, inside, approved, lastRoom>>

\* What an answered request may have done.
Nothing == UNCHANGED <<rooms, inside, approved, lastRoom>>

NameTaken(n) == \E r \in rooms : r.name = n

\* The room a request is about, if it is the caller's own.
Own(c) == {r \in rooms : r.id = asked[c].room /\ r.owner = asked[c].user}

\* A room appears with its creator in it.
Create(c) ==
  LET new == [id |-> lastRoom + 1, name |-> asked[c].name,
              owner |-> asked[c].user, type |-> asked[c].type]
  IN
  /\ asked[c].op = "create"
  /\ ~NameTaken(asked[c].name)
  /\ rooms' = rooms \cup {new}
  /\ inside' = inside \cup {<<lastRoom + 1, asked[c].user>>}
  /\ lastRoom' = lastRoom + 1
  /\ UNCHANGED approved

Join(c) ==
  LET place == <<asked[c].room, asked[c].user>> IN
  /\ asked[c].op = "join"
  /\ place \notin inside
  /\ \E r \in rooms : r.id = asked[c].room /\ (r.type = "PRIVATE" => place \in approved)
  /\ inside' = inside \cup {place}
  /\ UNCHANGED <<rooms, approved, lastRoom>>

Leave(c) ==
  /\ asked[c].op = "leave"
  /\ inside' = inside \ {<<asked[c].room, asked[c].user>>}
  /\ UNCHANGED <<rooms, approved, lastRoom>>

Kick(c) ==
  /\ asked[c].op = "kick" /\ Own(c) # {}
  /\ inside' = inside \ {<<asked[c].room, asked[c].target>>}
  /\ UNCHANGED <<rooms, approved, lastRoom>>

\* A room goes with all that is about it.
Delete(c) ==
  /\ asked[c].op = "delete" /\ Own(c) # {}
  /\ rooms' = rooms \ Own(c)
  /\ inside' = {p \in inside : p[1] # asked[c].room}
  /\ approved' = {p \in approved : p[1] # asked[c].room}
  /\ UNCHANGED lastRoom

Rename(c) ==
  /\ asked[c].op = "rename" /\ Own(c) # {}
  /\ ~NameTaken(asked[c].name)
  /\ rooms' = {IF r \in Own(c) THEN [r EXCEPT !.name = asked[c].name] ELSE r : r \in rooms}
  /\ UNCHANGED <<inside, approved, lastRoom>>

\* The approved user is let in, but for one who was in already when the owner's
\* request looked and has gone since.
Approve(c) ==
  LET place == <<asked[c].room, asked[c].target>> IN
  /\ asked[c].op = "approve" /\ Own(c) # {}
  /\ approved' = approved \cup {place}
  /\ inside' \in {inside, inside \cup {place}}
  /\ UNCHANGED <<rooms, lastRoom>>

Answer(c) ==
  /\ asked[c] # NoCall
  /\ asked' = [asked EXCEPT ![c] = NoCall]
  /\ \/ Nothing
     \/ Create(c) \/ Join(c) \/ Leave(c) \/ Kick(c)
     \/ Delete(c) \/ Rename(c) \/ Approve(c)

Next == \E c \in Clients : Ask(c) \/ Answer(c)

Spec == Init /\ [][Next]_book
=============================================================================
