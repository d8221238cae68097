-------------------------------- MODULE Rooms --------------------------------
(***************************************************************************)
(* Rooms, memberships and applications: the services of                    *)
(* app/chat/services/rooms.py and applications.py over the tables of       *)
(* app/chat/models.py.                                                     *)
(*                                                                         *)
(* Every request runs as a coroutine with a session of its own; between    *)
(* two awaited statements any other request may run.  A worker is one      *)
(* request in flight.  Each SELECT is a step that reads the tables as last *)
(* committed, and each commit is a step that applies the flush or, when a  *)
(* constraint fails, nothing.  Begin and the first SELECT are one step.    *)
(*                                                                         *)
(* Left out: roles (written, never consulted), timestamps, the users table *)
(* (no request deletes a user), and the read-only listings.                *)
(***************************************************************************)
EXTENDS Naturals, FiniteSets

CONSTANTS
  Users,        \* registered users
  Names,        \* room names that pass validation
  RoomTypes,    \* subset of {"PUBLIC", "UNLISTED", "PRIVATE"}
  Ops,          \* the operations clients call in this instance
  Workers,      \* requests that may be in flight at once
  Backend,      \* "sqlite" (the default DATABASE_URL) or "postgresql"
  MaxId         \* bound of the model: ids each table may hand out

ASSUME RoomsAssumption ==
  /\ RoomTypes \subseteq {"PUBLIC", "UNLISTED", "PRIVATE"}
  /\ Backend \in {"sqlite", "postgresql"}
  /\ MaxId \in [{"rooms", "members", "apps"} -> Nat]

VARIABLES
  rooms,        \* chatrooms: records [id, name, owner, type]
  members,      \* room_memberships: records [id, room, user]
  apps,         \* room_applications: records [id, room, user, status]
  lastId,       \* PostgreSQL's sequences: the last id of each table
  req,          \* req[w]: the locals of the request worker w runs
  approvals     \* history: <<room id, user>> an owner has approved

tables == <<rooms, members, apps, lastId, approvals>>
vars == <<rooms, members, apps, lastId, req, approvals>>

-----------------------------------------------------------------------------
(* The database.                                                           *)

\* SQLite enforces no foreign key unless told to, and nothing tells it to; a
\* schema whose keys have no ON DELETE CASCADE would be as if it never did.
NoForeignKeys == FALSE

ForeignKeys == Backend = "postgresql"

\* SELECT ... FOR UPDATE locks rows in PostgreSQL and is ignored by SQLite, as
\* it would be if the query did not ask for it.
NoRowLocks == FALSE

RowLocks == Backend = "postgresql"

Ids(rows) == {row.id : row \in rows}

\* The highest id a table has handed out: a sequence never goes back, but a
\* rowid without AUTOINCREMENT is one more than the largest present.
HighId(t, rows) ==
  IF Backend = "postgresql" THEN lastId[t]
  ELSE CHOOSE n \in Ids(rows) \cup {0} : \A m \in Ids(rows) : m <= n

NewId(t, rows) == HighId(t, rows) + 1

\* The sequences once each of the tables ts has taken its NewId.
HandOut(ts) ==
  [t \in DOMAIN lastId |->
     IF Backend = "postgresql" /\ t \in ts THEN lastId[t] + 1 ELSE lastId[t]]

\* A deleted room's applications point to no room.
NoRoom == 0

RoomNamed(n) == {r \in rooms : r.name = n}
RoomWithId(i) == {r \in rooms : r.id = i}
Membership(i, u) == {m \in members : m.room = i /\ m.user = u}

\* The applications of a user to a room; the mutated query skips rejected ones.
OpenApplications(i, u) ==
  {a \in apps : a.room = i /\ a.user = u /\ a.status # "REJECTED"}

Applications(i, u) == {a \in apps : a.room = i /\ a.user = u}

\* An inserted room_id must name a room where foreign keys are enforced.
RoomIdValid(i) == ForeignKeys => RoomWithId(i) # {}

\* What the database checks of a new membership: its foreign key and the
\* unique (room_id, user_id); the mutated schema has only the first.
OnlyForeignKey(i, u) == RoomIdValid(i)

MayInsertMember(i, u) == RoomIdValid(i) /\ Membership(i, u) = {}

NewMember(i, u) == [id |-> NewId("members", members), room |-> i, user |-> u]

InsertMember(i, u) ==
  /\ members' = members \cup {NewMember(i, u)}
  /\ lastId' = HandOut({"members"})

-----------------------------------------------------------------------------
(* Requests.                                                               *)

NoRow == [id |-> 0]

Idle == [op |-> "idle"]

Free(w) == req[w] = Idle

NoName == "no name"

\* The locals of a request: the caller, the next statement, the room object,
\* the user it is about, the loaded row, edit's new name, the ids of the
\* applications loaded to be updated, and review's verdict.
Request(op, u, at, room, target) ==
  [op |-> op, user |-> u, at |-> at, room |-> room, target |-> target,
   row |-> NoRow, name |-> NoName, pending |-> {}, approve |-> FALSE]

At(w, op, at) == req[w].op = op /\ req[w].at = at

Begin(w, r) == req' = [req EXCEPT ![w] = r]
Goto(w, at) == req' = [req EXCEPT ![w].at = at]
Finish(w) == req' = [req EXCEPT ![w] = Idle]

\* An early return of a request that has not written: only the worker moves.
Answer(w) == Finish(w) /\ UNCHANGED tables

\* The bound: a request that may insert into t starts only while it and those
\* in flight could all be given an id.  Applying again needs none.
Inserters ==
  [rooms |-> {"create"}, members |-> {"create", "join", "review"}, apps |-> {"apply"}]

Capacity(t, rows) ==
  HighId(t, rows) + Cardinality({v \in Workers : req[v].op \in Inserters[t]}) < MaxId[t]

-----------------------------------------------------------------------------
(* POST /rooms: create_room_entry, create_room.                            *)

\* create_room_entry: the name must look free.
CreateCheck(w, u, n, t) ==
  /\ Free(w)
  /\ \/ RoomNamed(n) # {} /\ UNCHANGED vars
     \/ /\ RoomNamed(n) = {}
        /\ Capacity("rooms", rooms) /\ Capacity("members", members)
        /\ Begin(w, Request("create", u, "commit",
                            [id |-> 0, name |-> n, owner |-> u, type |-> t], u))
        /\ UNCHANGED tables

\* The membership create_room adds; the mutated one forgets it.
NoMembership(i, u) == {}

OwnerMembership(i, u) == {NewMember(i, u)}

\* create_room: room and owner's membership in one transaction; any failure
\* (the name was taken, or a row left under the reused id) rolls both back.
CreateCommit(w) ==
  LET room == [req[w].room EXCEPT !.id = NewId("rooms", rooms)]
      ok == RoomNamed(room.name) = {} /\ Membership(room.id, room.owner) = {}
  IN
  /\ At(w, "create", "commit")
  /\ \/ /\ ok
        /\ rooms' = rooms \cup {room}
        /\ members' = members \cup OwnerMembership(room.id, room.owner)
        /\ lastId' = HandOut({"rooms", "members"})
     \/ ~ok /\ UNCHANGED <<rooms, members, lastId>>
  /\ Finish(w)
  /\ UNCHANGED <<apps, approvals>>

-----------------------------------------------------------------------------
(* POST /rooms/join: join_room.                                            *)

JoinLoadRoom(w, u, n) ==
  /\ Free(w)
  /\ \/ RoomNamed(n) = {} /\ UNCHANGED vars
     \/ /\ Capacity("members", members)
        /\ \E r \in RoomNamed(n) : Begin(w, Request("join", u, "member", r, u))
        /\ UNCHANGED tables

\* is_room_member; can_join_room decides public rooms without a query.
JoinCheckMember(w) ==
  /\ At(w, "join", "member")
  /\ \/ Membership(req[w].room.id, req[w].user) # {} /\ Finish(w)
     \/ /\ Membership(req[w].room.id, req[w].user) = {}
        /\ Goto(w, IF req[w].room.type = "PRIVATE" THEN "status" ELSE "commit")
  /\ UNCHANGED tables

\* The status that lets a user into a private room; the mutated check lets in
\* everyone who is not rejected.
NotRejected(a) == a.status # "REJECTED"

Admits(a) == a.status = "APPROVED"

\* can_join_room: .first() of the caller's applications, in no given order.
JoinCheckStatus(w) ==
  LET found == Applications(req[w].room.id, req[w].user) IN
  /\ At(w, "join", "status")
  /\ \/ (\E a \in found : Admits(a)) /\ Goto(w, "commit")
     \/ (found = {} \/ \E a \in found : ~Admits(a)) /\ Goto(w, "why")
  /\ UNCHANGED tables

\* The second get_app_status only chooses which refusal is sent.
JoinRefuse(w) == At(w, "join", "why") /\ Answer(w)

\* The insert fails if the caller became a member meanwhile, or if the room is
\* gone and foreign keys are enforced: nothing catches that, a 500.
JoinCommit(w) ==
  LET i == req[w].room.id
      u == req[w].user
      ok == MayInsertMember(i, u)
  IN
  /\ At(w, "join", "commit")
  /\ \/ ok /\ InsertMember(i, u)
     \/ ~ok /\ UNCHANGED <<members, lastId>>
  /\ Finish(w)
  /\ UNCHANGED <<rooms, apps, approvals>>

-----------------------------------------------------------------------------
(* POST /rooms/{room}/leave and /kick: leave_room, kick_member.            *)

LeaveLoadRoom(w, u, n) ==
  /\ Free(w)
  /\ \/ RoomNamed(n) = {} /\ UNCHANGED vars
     \/ /\ \E r \in RoomNamed(n) : Begin(w, Request("leave", u, "row", r, u))
        /\ UNCHANGED tables

\* The owner check; the mutated one takes any caller for the owner.
AnyCaller(r, u) == r.owner \in Users

IsOwner(r, u) == r.owner = u

\* The user to kick is looked up by name in a statement of its own; the table
\* of users does not change here.
KickLoadRoom(w, u, n, target) ==
  /\ Free(w)
  /\ \/ (\A r \in RoomNamed(n) : ~IsOwner(r, u)) /\ UNCHANGED vars
     \/ /\ \E r \in RoomNamed(n) :
             IsOwner(r, u) /\ Begin(w, Request("kick", u, "row", r, target))
        /\ UNCHANGED tables

\* Both load the membership row of the one to be removed.
LoadMembership(w, op) ==
  LET found == Membership(req[w].room.id, req[w].target) IN
  /\ At(w, op, "row")
  /\ \/ found = {} /\ Finish(w)
     \/ \E m \in found : req' = [req EXCEPT ![w].at = "commit", ![w].row = m]
  /\ UNCHANGED tables

\* DELETE by the primary key loaded before; a row already gone is no error.
DeleteMembership(w, op) ==
  /\ At(w, op, "commit")
  /\ members' = {m \in members : m.id # req[w].row.id}
  /\ Finish(w)
  /\ UNCHANGED <<rooms, apps, lastId, approvals>>

LeaveLoadMembership(w) == LoadMembership(w, "leave")
LeaveCommit(w) == DeleteMembership(w, "leave")
KickLoadMembership(w) == LoadMembership(w, "kick")
KickCommit(w) == DeleteMembership(w, "kick")

-----------------------------------------------------------------------------
(* DELETE /rooms/{room}/delete: delete_room_entry.                         *)

DeleteLoadRoom(w, u, n) ==
  /\ Free(w)
  /\ \/ (\A r \in RoomNamed(n) : ~IsOwner(r, u)) /\ UNCHANGED vars
     \/ /\ \E r \in RoomNamed(n) :
             IsOwner(r, u) /\ Begin(w, Request("delete", u, "apps", r, u))
        /\ UNCHANGED tables

\* The flush loads the room's applications, whose room_id it is to null; the
\* members and messages are passive_deletes and left to the database.
DeleteLoadApps(w) ==
  /\ At(w, "delete", "apps")
  /\ req' = [req EXCEPT ![w].at = "commit",
                        ![w].pending = Ids({a \in apps : a.room = req[w].room.id})]
  /\ UNCHANGED tables

\* A row locked by another request's FOR UPDATE cannot be updated yet.
Locked(w, i) ==
  /\ RowLocks
  /\ \E v \in Workers \ {w} : At(v, "apply", "commit") /\ i \in req[v].pending

\* DELETE by primary key: foreign keys, where enforced, remove the members and
\* null the applications that appeared after the flush loaded them.
DeleteCommit(w) ==
  LET i == req[w].room.id
      orphaned(a) == a.id \in req[w].pending \/ (ForeignKeys /\ a.room = i)
  IN
  /\ At(w, "delete", "commit")
  /\ \A a \in apps : orphaned(a) => ~Locked(w, a.id)
  /\ rooms' = {r \in rooms : r.id # i}
  /\ apps' = {IF orphaned(a) THEN [a EXCEPT !.room = NoRoom] ELSE a : a \in apps}
  /\ members' = {m \in members : ForeignKeys => m.room # i}
  /\ Finish(w)
  /\ UNCHANGED <<lastId, approvals>>

-----------------------------------------------------------------------------
(* PATCH /rooms/{room}: edit_room_entry.                                   *)

EditLoadRoom(w, u, n, new) ==
  /\ Free(w)
  /\ \/ (\A r \in RoomNamed(n) : ~IsOwner(r, u)) /\ UNCHANGED vars
     \/ /\ \E r \in RoomNamed(n) :
             /\ IsOwner(r, u)
             /\ Begin(w, [Request("edit", u, "name", r, u) EXCEPT !.name = new])
        /\ UNCHANGED tables

EditCheckName(w) ==
  LET taken == \E r \in RoomNamed(req[w].name) : r.id # req[w].room.id IN
  /\ At(w, "edit", "name")
  /\ \/ taken /\ Finish(w)
     \/ ~taken /\ Goto(w, "commit")
  /\ UNCHANGED tables

\* The UPDATE by primary key: none is sent if the loaded name is the new one,
\* a missing row is a StaleDataError, a taken name an IntegrityError.
EditCommit(w) ==
  LET i == req[w].room.id
      new == req[w].name
      ok == /\ new # req[w].room.name
            /\ RoomWithId(i) # {}
            /\ RoomNamed(new) \subseteq RoomWithId(i)
  IN
  /\ At(w, "edit", "commit")
  /\ \/ ok /\ rooms' = {IF r.id = i THEN [r EXCEPT !.name = new] ELSE r : r \in rooms}
     \/ ~ok /\ UNCHANGED rooms
  /\ Finish(w)
  /\ UNCHANGED <<members, apps, lastId, approvals>>

-----------------------------------------------------------------------------
(* POST /applications: apply_to_room.                                      *)

ApplyLoadRoom(w, u, n) ==
  /\ Free(w)
  /\ \/ RoomNamed(n) = {} /\ UNCHANGED vars
     \/ /\ \E r \in RoomNamed(n) :
             /\ Applications(r.id, u) # {} \/ Capacity("apps", apps)
             /\ Begin(w, Request("apply", u, "member", r, u))
        /\ UNCHANGED tables

ApplyCheckMember(w) ==
  LET found == Membership(req[w].room.id, req[w].user) IN
  /\ At(w, "apply", "member")
  /\ \/ found # {} /\ Finish(w)
     \/ found = {} /\ Goto(w, "app")
  /\ UNCHANGED tables

\* SELECT ... FOR UPDATE waits for locked rows and locks what it finds; where
\* it finds nothing it locks nothing.
ApplyLoadApp(w) ==
  LET found == Applications(req[w].room.id, req[w].user) IN
  /\ At(w, "apply", "app")
  /\ \A a \in found : ~Locked(w, a.id)
  /\ \/ /\ \E a \in found : a.status # "REJECTED"
        /\ Finish(w)
     \/ /\ \E a \in found :
             /\ a.status = "REJECTED"
             /\ req' = [req EXCEPT ![w].at = "commit", ![w].row = a,
                                   ![w].pending = Ids(found)]
     \/ found = {} /\ Goto(w, "commit")
  /\ UNCHANGED tables

\* A new application, or a rejected one made pending again.
ApplyCommit(w) ==
  LET i == req[w].room.id
      new == [id |-> NewId("apps", apps), room |-> i, user |-> req[w].user,
              status |-> "PENDING"]
      old == req[w].row.id
  IN
  /\ At(w, "apply", "commit")
  /\ \/ /\ req[w].row = NoRow /\ RoomIdValid(i)
        /\ apps' = apps \cup {new}
        /\ lastId' = HandOut({"apps"})
     \/ /\ req[w].row = NoRow /\ ~RoomIdValid(i)
        /\ UNCHANGED <<apps, lastId>>
     \/ /\ req[w].row # NoRow
        /\ apps' = {IF a.id = old THEN [a EXCEPT !.status = "PENDING"] ELSE a : a \in apps}
        /\ UNCHANGED lastId
  /\ Finish(w)
  /\ UNCHANGED <<rooms, members, approvals>>

-----------------------------------------------------------------------------
(* POST /applications/{id}/review: review_application.                     *)

Verdict(approve) == IF approve THEN "APPROVED" ELSE "REJECTED"

ReviewLoadApp(w, u, i, approve) ==
  /\ Free(w)
  /\ \/ i \notin Ids(apps) /\ UNCHANGED vars
     \/ /\ Capacity("members", members)
        /\ \E a \in apps :
             /\ a.id = i
             /\ Begin(w, [Request("review", u, "room", NoRow, a.user)
                            EXCEPT !.row = a, !.approve = approve])
        /\ UNCHANGED tables

MayReview(r, u) == IsOwner(r, u)

\* Only the owner of the application's room may review it, and a verdict it
\* already has is answered at once.
ReviewLoadRoom(w) ==
  LET found == {r \in RoomWithId(req[w].row.room) : MayReview(r, req[w].user)}
      same == req[w].row.status = Verdict(req[w].approve)
  IN
  /\ At(w, "review", "room")
  /\ \/ (found = {} \/ same) /\ Finish(w)
     \/ /\ ~same
        /\ \E r \in found :
             req' = [req EXCEPT ![w].room = r,
                                ![w].at = IF req[w].approve THEN "member" ELSE "commit"]
  /\ UNCHANGED tables

ReviewCheckMember(w) ==
  LET found == Membership(req[w].row.room, req[w].target) IN
  /\ At(w, "review", "member")
  /\ Goto(w, IF found = {} THEN "admit" ELSE "commit")
  /\ UNCHANGED tables

\* The verdict and the membership it brings are one transaction.
ReviewCommit(w) ==
  LET i == req[w].row.room
      u == req[w].target
      admit == At(w, "review", "admit")
      ok == admit => MayInsertMember(i, u)
  IN
  /\ admit \/ At(w, "review", "commit")
  /\ ~Locked(w, req[w].row.id)
  /\ \/ /\ ok
        /\ apps' = {IF a.id = req[w].row.id
                    THEN [a EXCEPT !.status = Verdict(req[w].approve)]
                    ELSE a : a \in apps}
        /\ approvals' = IF req[w].approve THEN approvals \cup {<<i, u>>} ELSE approvals
        /\ \/ admit /\ InsertMember(i, u)
           \/ ~admit /\ UNCHANGED <<members, lastId>>
     \/ ~ok /\ UNCHANGED <<apps, approvals, members, lastId>>
  /\ Finish(w)
  /\ UNCHANGED rooms

-----------------------------------------------------------------------------

Init ==
  /\ rooms = {} /\ members = {} /\ apps = {}
  /\ lastId = [t \in {"rooms", "members", "apps"} |-> 0]
  /\ req = [w \in Workers |-> Idle]
  /\ approvals = {}

\* A client calls one of the operations of this instance.
Call(w) ==
  \E u \in Users :
    \/ "create" \in Ops /\ \E n \in Names, t \in RoomTypes : CreateCheck(w, u, n, t)
    \/ "join" \in Ops /\ \E n \in Names : JoinLoadRoom(w, u, n)
    \/ "leave" \in Ops /\ \E n \in Names : LeaveLoadRoom(w, u, n)
    \/ "kick" \in Ops /\ \E n \in Names, v \in Users : KickLoadRoom(w, u, n, v)
    \/ "delete" \in Ops /\ \E n \in Names : DeleteLoadRoom(w, u, n)
    \/ "edit" \in Ops /\ \E n, new \in Names : EditLoadRoom(w, u, n, new)
    \/ "apply" \in Ops /\ \E n \in Names : ApplyLoadRoom(w, u, n)
    \/ "review" \in Ops /\
         \E i \in 1 .. MaxId["apps"], approve \in BOOLEAN : ReviewLoadApp(w, u, i, approve)

\* The rest of a request, statement by statement.
Step(w) ==
  \/ CreateCommit(w)
  \/ JoinCheckMember(w) \/ JoinCheckStatus(w) \/ JoinRefuse(w) \/ JoinCommit(w)
  \/ LeaveLoadMembership(w) \/ LeaveCommit(w)
  \/ KickLoadMembership(w) \/ KickCommit(w)
  \/ DeleteLoadApps(w) \/ DeleteCommit(w)
  \/ EditCheckName(w) \/ EditCommit(w)
  \/ ApplyCheckMember(w) \/ ApplyLoadApp(w) \/ ApplyCommit(w)
  \/ ReviewLoadRoom(w) \/ ReviewCheckMember(w) \/ ReviewCommit(w)

Next == \E w \in Workers : Call(w) \/ Step(w)

Spec == Init /\ [][Next]_vars

-----------------------------------------------------------------------------
(* Properties.                                                             *)

RoomRows == [id : Nat, name : Names, owner : Users, type : RoomTypes]
MemberRows == [id : Nat, room : Nat, user : Users]
AppRows == [id : Nat, room : Nat, user : Users,
            status : {"PENDING", "APPROVED", "REJECTED"}]

Statements == {"member", "status", "why", "row", "apps", "name", "app", "room",
               "admit", "commit"}

Requests ==
  [op : {"create", "join", "leave", "kick", "delete", "edit", "apply", "review"},
   user : Users, at : Statements, room : RoomRows \cup {NoRow}, target : Users,
   row : MemberRows \cup AppRows \cup {NoRow}, name : Names \cup {NoName},
   pending : SUBSET Nat, approve : BOOLEAN]

\* Type correctness, with the keys the schema declares: ids and room names are
\* unique, and so is a membership of a user in a room.
TypeOK ==
  /\ rooms \subseteq RoomRows /\ members \subseteq MemberRows /\ apps \subseteq AppRows
  /\ lastId \in [{"rooms", "members", "apps"} -> Nat]
  /\ req \in [Workers -> Requests \cup {Idle}]
  /\ approvals \subseteq Nat \X Users
  /\ \A r, s \in rooms : r.id = s.id \/ r.name = s.name => r = s
  /\ \A m, n \in members : m.id = n.id \/ (m.room = n.room /\ m.user = n.user) => m = n
  /\ \A a, b \in apps : a.id = b.id => a = b

\* A private room is closed: whoever is a member of one created it or was
\* approved by its owner, whatever ran at the same time.
PrivateAdmission ==
  \A m \in members, r \in rooms :
    m.room = r.id /\ r.type = "PRIVATE" =>
      m.user = r.owner \/ <<r.id, m.user>> \in approvals

\* Nobody is removed by a stranger: a membership disappears only when its user
\* leaves that room, or when the room's owner kicks that user or deletes the
\* room, however stale the row the request had loaded.
RemovalsAuthorised ==
  [][\A m \in members \ members' : \E w \in Workers :
       /\ req[w] # Idle /\ req[w].room.id = m.room
       /\ \/ LeaveCommit(w) /\ req[w].user = m.user
          \/ KickCommit(w) /\ req[w].target = m.user /\ req[w].user = req[w].room.owner
          \/ DeleteCommit(w) /\ req[w].user = req[w].room.owner]_vars

\* A room is renamed or deleted only by a request of the user who owns it at
\* that instant.
RoomsKeptByOwner ==
  [][\A r \in rooms \ rooms' : \E w \in Workers :
       /\ EditCommit(w) \/ DeleteCommit(w)
       /\ req[w].user = r.owner /\ req[w].room.id = r.id]_vars

\* An approval is withdrawn only by the owner: no concurrent re-application
\* turns it back into a pending one.
ApprovalsStand ==
  [][\A a \in apps, b \in apps' :
       a.id = b.id /\ a.status = "APPROVED" /\ b.status # "APPROVED" =>
         \E w \in Workers : ReviewCommit(w) /\ req[w].row.id = a.id]_vars

\* A user has one application per room.
OneApplication ==
  \A a, b \in apps : a.room = b.room /\ a.user = b.user /\ a.room # NoRoom => a = b

\* Whoever waits for a verdict is outside the room.
PendingIsOutside ==
  \A a \in apps, r \in rooms :
    a.room = r.id /\ r.type = "PRIVATE" /\ a.status = "PENDING" =>
      Membership(r.id, a.user) = {}

\* Memberships go with their room.
MembersHaveRooms == \A m \in members : RoomWithId(m.room) # {}

\* A room that was created is there with its creator in it.
CreatorIsMember ==
  [][\A r \in rooms' : RoomWithId(r.id) = {} =>
       \E m \in members' \ members : m.room = r.id /\ m.user = r.owner]_vars

\* What the client of a request has asked for, to the membership book, which
\* knows of applications only that they are approved.
AskedFor(r) ==
  CASE r.op = "create" ->
         [op |-> "create", user |-> r.user, name |-> r.room.name, type |-> r.room.type]
    [] r.op \in {"join", "leave", "delete"} ->
         [op |-> r.op, user |-> r.user, room |-> r.room.id]
    [] r.op = "kick" ->
         [op |-> "kick", user |-> r.user, room |-> r.room.id, target |-> r.target]
    [] r.op = "edit" ->
         [op |-> "rename", user |-> r.user, room |-> r.room.id, name |-> r.name]
    [] r.op = "review" /\ r.approve ->
         [op |-> "approve", user |-> r.user, room |-> r.row.room, target |-> r.target]
    [] OTHER -> [op |-> "none"]

Asked == [w \in Workers |-> AskedFor(req[w])]

Inside == {<<m.room, m.user>> : m \in members}

Approved == {p \in approvals : RoomWithId(p[1]) # {}}

Book == INSTANCE MembershipBook
          WITH Users <- Users, Names <- Names, RoomTypes <- RoomTypes, Clients <- Workers,
               rooms <- rooms, inside <- Inside, approved <- Approved,
               lastRoom <- lastId["rooms"], asked <- Asked

\* Where ids never come back and foreign keys are enforced, a request of
\* several statements, what it read long stale when it commits, is as good as
\* one step: it does what its caller may do at that instant, or nothing.
ImplementsBook == Book!Spec
=============================================================================
