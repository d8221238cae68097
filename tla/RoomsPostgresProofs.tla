------------------------- MODULE RoomsPostgresProofs -------------------------
(***************************************************************************)
(* Proofs about Rooms on PostgreSQL, whose ids never come back and whose   *)
(* foreign keys are enforced: who is in a private room, who may remove     *)
(* members and rooms, and that memberships go with their room.  None of    *)
(* this holds on SQLite, where a new room can take a deleted one's id.     *)
(***************************************************************************)
EXTENDS RoomsProofs

-----------------------------------------------------------------------------
(* Loaded rows.                                                            *)

Postgres == Backend = "postgresql"

\* What a request has loaded is still what the table holds under that id, if it
\* holds anything, and the checks it passed still stand.
LoadedRoom(r) ==
  /\ 0 < r.room.id /\ r.room.id <= lastId["rooms"]
  /\ \A s \in rooms : s.id = r.room.id => s.owner = r.room.owner /\ s.type = r.room.type
  /\ r.op = "leave" => r.target = r.user
  /\ r.op \in {"kick", "delete", "edit"} => r.room.owner = r.user
  /\ r.op = "join" /\ r.at = "commit" /\ r.room.type = "PRIVATE" =>
       <<r.room.id, r.user>> \in approvals

LoadedMember(r) ==
  /\ r.row.room = r.room.id /\ r.row.user = r.target
  /\ r.row.id <= lastId["members"]
  /\ \A m \in members : m.id = r.row.id => m = r.row

LoadedApp(r) ==
  /\ r.target = r.row.user /\ r.row.id <= lastId["apps"]
  /\ r.at \in {"member", "admit"} => r.approve
  /\ \A a \in apps : a.id = r.row.id =>
       a.user = r.row.user /\ a.room \in {r.row.room, NoRoom}

Loaded(r) ==
  /\ r.op \notin {"create", "review"} => LoadedRoom(r)
  /\ r.op \in {"leave", "kick"} /\ r.at = "commit" => LoadedMember(r)
  /\ r.op = "review" => LoadedApp(r)

PositiveIds == \A r \in rooms : r.id > 0

ApprovedByOwner ==
  \A a \in apps : a.status = "APPROVED" /\ a.room # NoRoom => <<a.room, a.user>> \in approvals

LoadedInv == \A w \in Workers : req[w] # Idle => Loaded(req[w])

IInv ==
  /\ TypeInv
  /\ PositiveIds /\ MembersHaveRooms /\ ApprovedByOwner /\ PrivateAdmission
  /\ LoadedInv

\* How the tables move: rows keep what identifies them, new rows get ids above
\* all that were handed out.
TablesMove ==
  /\ \A t \in Tables : lastId[t] \in Nat /\ lastId'[t] \in Nat /\ lastId[t] <= lastId'[t]
  /\ \A s \in rooms' :
       \/ s.id > lastId["rooms"]
       \/ \E r \in rooms : r.id = s.id /\ r.owner = s.owner /\ r.type = s.type
  /\ \A m \in members' : m \in members \/ m.id > lastId["members"]
  /\ \A b \in apps' :
       \/ b.id > lastId["apps"]
       \/ \E a \in apps : a.id = b.id /\ a.user = b.user /\ b.room \in {a.room, NoRoom}
  /\ approvals \subseteq approvals'

\* The tables that do not change move, too.
LEMMA NoMove ==
  ASSUME TypeInv, UNCHANGED tables
  PROVE  TablesMove
BY DEF TypeInv, TablesMove, tables, RoomsOK, Tables

\* Where there are sequences, a new id is above all that were handed out.
LEMMA NewIdAbove ==
  ASSUME TypeInv, Postgres, NEW t \in Tables, NEW rows
  PROVE  NewId(t, rows) = lastId[t] + 1 /\ lastId[t] \in Nat
BY DEF TypeInv, Postgres, NewId, HighId

\* The steps that change the tables.
LEMMA TablesChange ==
  ASSUME [Next]_vars
  PROVE  UNCHANGED tables \/ \E w \in Workers :
           \/ CreateCommit(w) \/ JoinCommit(w) \/ LeaveCommit(w) \/ KickCommit(w)
           \/ DeleteCommit(w) \/ EditCommit(w) \/ ApplyCommit(w) \/ ReviewCommit(w)
<1>1. ASSUME NEW w \in Workers, Call(w) PROVE UNCHANGED tables
  BY <1>1 DEF Call, CreateCheck, JoinLoadRoom, LeaveLoadRoom, KickLoadRoom,
              DeleteLoadRoom, EditLoadRoom, ApplyLoadRoom, ReviewLoadApp, vars, tables
<1>2. ASSUME NEW w \in Workers,
             \/ JoinCheckMember(w) \/ JoinCheckStatus(w) \/ JoinRefuse(w)
             \/ LeaveLoadMembership(w) \/ KickLoadMembership(w)
             \/ DeleteLoadApps(w) \/ EditCheckName(w)
             \/ ApplyCheckMember(w) \/ ApplyLoadApp(w)
             \/ ReviewLoadRoom(w) \/ ReviewCheckMember(w)
      PROVE  UNCHANGED tables
  BY <1>2 DEF JoinCheckMember, JoinCheckStatus, JoinRefuse, Answer, LeaveLoadMembership,
              KickLoadMembership, LoadMembership, DeleteLoadApps, EditCheckName,
              ApplyCheckMember, ApplyLoadApp, ReviewLoadRoom, ReviewCheckMember
<1>3. CASE UNCHANGED vars
  BY <1>3 DEF vars, tables
<1>. QED BY <1>1, <1>2, <1>3 DEF Next, Step
\* Every step moves the tables so.
LEMMA StepMoves ==
  ASSUME TypeInv, Postgres, [Next]_vars
  PROVE  TablesMove
<1>0. /\ TypeInv' /\ "rooms" \in Tables /\ "members" \in Tables /\ "apps" \in Tables
      /\ \A t \in Tables : lastId[t] \in Nat /\ lastId'[t] \in Nat
      /\ lastId \in [Tables -> Nat]
      /\ rooms \subseteq RoomRows /\ members \subseteq MemberRows /\ apps \subseteq AppRows
  BY TypeStep DEF TypeInv, Tables, RoomsOK, MembersOK, AppsOK
<1>1. CASE UNCHANGED tables
  BY <1>1, NoMove
<1>2. ASSUME NEW ts \in SUBSET Tables, lastId' = HandOut(ts)
      PROVE  \A t \in Tables : lastId[t] <= lastId'[t]
  BY <1>0, <1>2, HandOutIds
<1>3. ASSUME NEW i, NEW u, InsertMember(i, u)
      PROVE  /\ \A t \in Tables : lastId[t] <= lastId'[t]
             /\ \A m \in members' : m \in members \/ m.id > lastId["members"]
  <2>1. {"members"} \in SUBSET Tables
    BY DEF Tables
  <2>2. NewMember(i, u).id = lastId["members"] + 1
    BY <1>0, NewIdAbove DEF NewMember
  <2>. QED BY <1>0, <1>2, <1>3, <2>1, <2>2 DEF InsertMember
<1>4. ASSUME NEW w \in Workers, CreateCommit(w) PROVE TablesMove
  <2>1. CASE UNCHANGED <<rooms, members, lastId>>
    BY <1>1, <1>4, <2>1 DEF CreateCommit, tables
  <2>2. ASSUME NEW room, NEW m, rooms' = rooms \cup {room}, members' = members \cup {m},
               room.id = lastId["rooms"] + 1, m.id = lastId["members"] + 1,
               lastId' = HandOut({"rooms", "members"})
        PROVE  TablesMove
    <3>1. {"rooms", "members"} \in SUBSET Tables
      BY DEF Tables
    <3>2. \A s \in rooms' : s \in rooms \/ s.id > lastId["rooms"]
      BY <1>0, <2>2
    <3>3. \A k \in members' : k \in members \/ k.id > lastId["members"]
      BY <1>0, <2>2
    <3>4. UNCHANGED <<apps, approvals>>
      BY <1>4 DEF CreateCommit
    <3>. QED BY <1>0, <1>2, <2>2, <3>1, <3>2, <3>3, <3>4 DEF TablesMove
  <2>3. req[w].room \in RoomRows
    BY <1>4, UnderWay DEF CreateCommit, At, Shape
  <2>4. [req[w].room EXCEPT !.id = NewId("rooms", rooms)].id = lastId["rooms"] + 1
    BY <1>0, <2>3, NewIdAbove DEF RoomRows
  <2>5. \A i, u : NewMember(i, u).id = lastId["members"] + 1
    BY <1>0, NewIdAbove DEF NewMember
  <2>. QED BY <1>4, <2>1, <2>2, <2>4, <2>5 DEF CreateCommit, OwnerMembership
<1>5. ASSUME NEW w \in Workers, JoinCommit(w) PROVE TablesMove
  <2>1. UNCHANGED <<rooms, apps, approvals>>
    BY <1>5 DEF JoinCommit
  <2>2. CASE UNCHANGED <<members, lastId>>
    BY <1>1, <2>1, <2>2 DEF tables
  <2>3. ASSUME NEW i, NEW u, InsertMember(i, u) PROVE TablesMove
    BY <1>0, <1>3, <2>1, <2>3 DEF TablesMove
  <2>. QED BY <1>5, <2>2, <2>3 DEF JoinCommit
<1>6. ASSUME NEW w \in Workers, LeaveCommit(w) \/ KickCommit(w) PROVE TablesMove
  BY <1>0, <1>6 DEF LeaveCommit, KickCommit, DeleteMembership, TablesMove
<1>7. ASSUME NEW w \in Workers, DeleteCommit(w) PROVE TablesMove
  <2>. DEFINE orphaned(a) == a.id \in req[w].pending \/ (ForeignKeys /\ a.room = req[w].room.id)
  <2>1. /\ rooms' \subseteq rooms /\ members' \subseteq members /\ UNCHANGED <<lastId, approvals>>
        /\ apps' = {IF orphaned(a) THEN [a EXCEPT !.room = NoRoom] ELSE a : a \in apps}
    BY <1>7 DEF DeleteCommit
  <2>2. \A a \in apps : \A b \in {a, [a EXCEPT !.room = NoRoom]} :
          a.id = b.id /\ a.user = b.user /\ b.room \in {a.room, NoRoom}
    BY <1>0 DEF AppRows
  <2>. HIDE DEF orphaned
  <2>3. ASSUME NEW b \in apps'
        PROVE  \E a \in apps : a.id = b.id /\ a.user = b.user /\ b.room \in {a.room, NoRoom}
    <3>1. PICK a \in apps : b = IF orphaned(a) THEN [a EXCEPT !.room = NoRoom] ELSE a
      BY <2>1
    <3>2. b \in {a, [a EXCEPT !.room = NoRoom]}
      BY <3>1
    <3>. QED BY <2>2, <3>2
  <2>. QED BY <1>0, <2>1, <2>3 DEF TablesMove
<1>8. ASSUME NEW w \in Workers, EditCommit(w) PROVE TablesMove
  <2>1. CASE UNCHANGED rooms
    BY <1>1, <1>8, <2>1 DEF EditCommit, tables
  <2>2. ASSUME rooms' = {IF r.id = req[w].room.id THEN [r EXCEPT !.name = req[w].name] ELSE r
                        : r \in rooms}
        PROVE  TablesMove
    <3>1. \A r \in rooms : \A s \in {r, [r EXCEPT !.name = req[w].name]} :
            r.id = s.id /\ r.owner = s.owner /\ r.type = s.type
      BY <1>0 DEF RoomRows
    <3>2. \A s \in rooms' : \E r \in rooms : r.id = s.id /\ r.owner = s.owner /\ r.type = s.type
      BY <2>2, <3>1
    <3>3. UNCHANGED <<members, apps, lastId, approvals>>
      BY <1>8 DEF EditCommit
    <3>. QED BY <1>0, <3>2, <3>3 DEF TablesMove
  <2>. QED BY <1>8, <2>1, <2>2 DEF EditCommit
<1>9. ASSUME NEW f, NEW status,
             \A a \in apps : f[a] \in {a, [a EXCEPT !.status = status]},
             apps' = {f[a] : a \in apps}
      PROVE  \A b \in apps' : \E a \in apps :
               a.id = b.id /\ a.user = b.user /\ b.room \in {a.room, NoRoom}
  <2>1. \A a \in apps : \A b \in {a, [a EXCEPT !.status = status]} :
          a.id = b.id /\ a.user = b.user /\ b.room = a.room
    BY <1>0 DEF AppRows
  <2>2. \A a \in apps : a.id = f[a].id /\ a.user = f[a].user /\ f[a].room = a.room
    BY <1>9, <2>1
  <2>. QED BY <1>9, <2>2
<1>10. ASSUME NEW w \in Workers, ApplyCommit(w) PROVE TablesMove
  <2>1. UNCHANGED <<rooms, members, approvals>>
    BY <1>10 DEF ApplyCommit
  <2>2. CASE UNCHANGED <<apps, lastId>>
    BY <1>1, <2>1, <2>2 DEF tables
  <2>3. ASSUME NEW new, apps' = apps \cup {new}, new.id = lastId["apps"] + 1,
               lastId' = HandOut({"apps"})
        PROVE  TablesMove
    <3>1. {"apps"} \in SUBSET Tables
      BY DEF Tables
    <3>2. \A a \in apps' : a \in apps \/ a.id > lastId["apps"]
      BY <1>0, <2>3
    <3>. QED BY <1>0, <1>2, <2>1, <2>3, <3>1, <3>2 DEF TablesMove
  <2>4. ASSUME UNCHANGED lastId,
               apps' = {IF a.id = req[w].row.id THEN [a EXCEPT !.status = "PENDING"] ELSE a
                        : a \in apps}
        PROVE  TablesMove
    <3>1. \A b \in apps' : \E a \in apps :
            a.id = b.id /\ a.user = b.user /\ b.room \in {a.room, NoRoom}
      <4>. DEFINE f == [a \in apps |-> IF a.id = req[w].row.id
                                      THEN [a EXCEPT !.status = "PENDING"] ELSE a]
      <4>1. \A a \in apps : f[a] \in {a, [a EXCEPT !.status = "PENDING"]}
        OBVIOUS
      <4>2. apps' = {f[a] : a \in apps}
        BY <2>4
      <4>. HIDE DEF f
      <4>. QED BY <1>9, <4>1, <4>2
    <3>. QED BY <1>0, <2>1, <2>4, <3>1 DEF TablesMove
  <2>5. NewId("apps", apps) = lastId["apps"] + 1
    BY <1>0, NewIdAbove
  <2>. QED BY <1>10, <2>2, <2>3, <2>4, <2>5 DEF ApplyCommit
<1>11. ASSUME NEW w \in Workers, ReviewCommit(w) PROVE TablesMove
  <2>1. UNCHANGED rooms
    BY <1>11 DEF ReviewCommit
  <2>2. CASE UNCHANGED <<apps, approvals, members, lastId>>
    BY <1>1, <2>1, <2>2 DEF tables
  <2>3. ASSUME approvals \subseteq approvals',
               apps' = {IF a.id = req[w].row.id
                        THEN [a EXCEPT !.status = Verdict(req[w].approve)]
                        ELSE a : a \in apps},
               UNCHANGED <<members, lastId>> \/
                 InsertMember(req[w].row.room, req[w].target)
        PROVE  TablesMove
    <3>1. \A t \in Tables : lastId[t] <= lastId'[t]
      BY <1>0, <1>3, <2>3
    <3>2. \A m \in members' : m \in members \/ m.id > lastId["members"]
      BY <1>0, <1>3, <2>3
    <3>3. \A b \in apps' : \E a \in apps :
            a.id = b.id /\ a.user = b.user /\ b.room \in {a.room, NoRoom}
      <4>. DEFINE f == [a \in apps |-> IF a.id = req[w].row.id
                                      THEN [a EXCEPT !.status = Verdict(req[w].approve)]
                                      ELSE a]
      <4>1. \A a \in apps : f[a] \in {a, [a EXCEPT !.status = Verdict(req[w].approve)]}
        OBVIOUS
      <4>2. apps' = {f[a] : a \in apps}
        BY <2>3
      <4>. HIDE DEF f
      <4>. QED BY <1>9, <4>1, <4>2
    <3>. QED BY <1>0, <2>1, <2>3, <3>1, <3>2, <3>3 DEF TablesMove
  <2>. QED BY <1>11, <2>2, <2>3 DEF ReviewCommit
<1>. QED BY <1>1, <1>4, <1>5, <1>6, <1>7, <1>8, <1>10, <1>11, TablesChange

-----------------------------------------------------------------------------
(* What was loaded stays right.                                            *)

\* Whatever moves the tables, a loaded row is what it was loaded as.
LEMMA LoadedStays ==
  ASSUME TypeInv, TypeInv', TablesMove
  PROVE  \A r : Shape(r) /\ Loaded(r) => Loaded(r)'
<1>. SUFFICES ASSUME NEW r, Shape(r), Loaded(r) PROVE Loaded(r)'
  OBVIOUS
<1>1. /\ "rooms" \in Tables /\ "members" \in Tables /\ "apps" \in Tables
      /\ \A t \in Tables : lastId[t] \in Nat /\ lastId'[t] \in Nat /\ lastId[t] <= lastId'[t]
  BY DEF Tables, TablesMove
<1>2. ASSUME r.op \notin {"create", "review"} PROVE LoadedRoom(r)'
  <2>1. r.room.id \in Nat
    BY <1>2 DEF Shape, RoomRows
  <2>2. LoadedRoom(r)
    BY <1>2 DEF Loaded
  <2>3. 0 < r.room.id /\ r.room.id <= lastId'["rooms"]
    BY <1>1, <2>1, <2>2 DEF LoadedRoom
  <2>4. ASSUME NEW s \in rooms', s.id = r.room.id
        PROVE  s.owner = r.room.owner /\ s.type = r.room.type
    <3>1. ~(s.id > lastId["rooms"])
      BY <1>1, <2>1, <2>2, <2>4 DEF LoadedRoom
    <3>2. PICK q \in rooms : q.id = s.id /\ q.owner = s.owner /\ q.type = s.type
      BY <2>4, <3>1 DEF TablesMove
    <3>. QED BY <2>2, <2>4, <3>2 DEF LoadedRoom
  <2>. QED BY <2>2, <2>3, <2>4 DEF LoadedRoom, TablesMove
<1>3. ASSUME r.op \in {"leave", "kick"}, r.at = "commit" PROVE LoadedMember(r)'
  <2>1. r.row.id \in Nat
    BY <1>3 DEF Shape, MemberRows
  <2>2. LoadedMember(r)
    BY <1>3 DEF Loaded
  <2>. QED BY <1>1, <2>1, <2>2 DEF LoadedMember, TablesMove
<1>4. ASSUME r.op = "review" PROVE LoadedApp(r)'
  <2>1. r.row.id \in Nat
    BY <1>4 DEF Shape, AppRows
  <2>2. LoadedApp(r)
    BY <1>4 DEF Loaded
  <2>3. ASSUME NEW b \in apps', b.id = r.row.id
        PROVE  b.user = r.row.user /\ b.room \in {r.row.room, NoRoom}
    <3>1. ~(b.id > lastId["apps"])
      BY <1>1, <2>1, <2>2, <2>3 DEF LoadedApp
    <3>2. PICK a \in apps : a.id = b.id /\ a.user = b.user /\ b.room \in {a.room, NoRoom}
      BY <2>3, <3>1 DEF TablesMove
    <3>. QED BY <2>2, <2>3, <3>2 DEF LoadedApp
  <2>. QED BY <1>1, <2>1, <2>2, <2>3 DEF LoadedApp
<1>. QED BY <1>2, <1>3, <1>4 DEF Loaded

\* So a step that gives one request right locals, or ends it, leaves every
\* request with right locals.
LEMMA AllLoaded ==
  ASSUME TypeInv, TypeInv', TablesMove, NEW w \in Workers, NEW r, r = Idle \/ Loaded(r)',
         req' = [req EXCEPT ![w] = r],
         \A v \in Workers : req[v] # Idle => Loaded(req[v])
  PROVE  (\A v \in Workers : req[v] # Idle => Loaded(req[v]))'
<1>. SUFFICES ASSUME NEW v \in Workers, req'[v] # Idle PROVE Loaded(req[v])'
  OBVIOUS
<1>1. req \in [Workers -> Requests \cup {Idle}]
  BY DEF TypeInv
<1>2. CASE v = w
  <2>1. req'[v] = r
    BY <1>1, <1>2
  <2>. QED BY <2>1 DEF Loaded, LoadedRoom, LoadedMember, LoadedApp
<1>3. CASE v # w
  <2>1. req'[v] = req[v]
    BY <1>1, <1>3
  <2>2. Shape(req[v]) /\ Loaded(req[v])
    BY <2>1 DEF TypeInv
  <2>3. \A q : Shape(q) /\ Loaded(q) => Loaded(q)'
    BY LoadedStays
  <2>. QED BY <2>1, <2>2, <2>3 DEF Loaded, LoadedRoom, LoadedMember, LoadedApp
<1>. QED BY <1>2, <1>3

\* A step that only reads leaves every request with right locals if those it
\* gives to one are right.
LEMMA ReadLeavesLoaded ==
  ASSUME TypeInv, TypeInv', LoadedInv, UNCHANGED tables, NEW w \in Workers, NEW r,
         r = Idle \/ Loaded(r), req' = [req EXCEPT ![w] = r]
  PROVE  LoadedInv'
<1>1. r = Idle \/ Loaded(r)'
  BY DEF Loaded, LoadedRoom, LoadedMember, LoadedApp, tables
<1>2. TablesMove
  BY NoMove
<1>. QED BY <1>1, <1>2, AllLoaded DEF LoadedInv

\* Every call starts with the room, or the application, it has just loaded.
LEMMA CallLoads ==
  ASSUME TypeInv, TypeInv', Postgres, PositiveIds, LoadedInv, NEW w \in Workers, Call(w)
  PROVE  LoadedInv'
<1>1. PICK u \in Users :
        \/ \E n \in Names, t \in RoomTypes : CreateCheck(w, u, n, t)
        \/ \E n \in Names : JoinLoadRoom(w, u, n) \/ LeaveLoadRoom(w, u, n)
                             \/ DeleteLoadRoom(w, u, n) \/ ApplyLoadRoom(w, u, n)
        \/ \E n \in Names, v \in Users : KickLoadRoom(w, u, n, v)
        \/ \E n, new \in Names : EditLoadRoom(w, u, n, new)
        \/ \E i \in 1 .. MaxId["apps"], approve \in BOOLEAN : ReviewLoadApp(w, u, i, approve)
  BY DEF Call
<1>2. ASSUME UNCHANGED vars PROVE LoadedInv'
  BY <1>2 DEF LoadedInv, Loaded, LoadedRoom, LoadedMember, LoadedApp, vars
<1>3. \A n : \A r \in RoomNamed(n) :
        /\ r \in rooms /\ 0 < r.id /\ r.id <= lastId["rooms"]
        /\ \A s \in rooms : s.id = r.id => s = r
  BY DEF RoomNamed, PositiveIds, TypeInv, RoomsOK, Bounded, Postgres
<1>4. ASSUME NEW n \in Names, NEW t \in RoomTypes, CreateCheck(w, u, n, t) PROVE LoadedInv'
  <2>1. \A room : Loaded(Request("create", u, "commit", room, u))
    BY DEF Loaded, Request
  <2>. QED BY <1>2, <1>4, <2>1, ReadLeavesLoaded DEF CreateCheck, Begin
<1>5. ASSUME NEW n \in Names, NEW v \in Users,
             \/ JoinLoadRoom(w, u, n) \/ LeaveLoadRoom(w, u, n)
             \/ DeleteLoadRoom(w, u, n) \/ ApplyLoadRoom(w, u, n)
             \/ KickLoadRoom(w, u, n, v)
      PROVE  LoadedInv'
  <2>1. ASSUME NEW r \in RoomNamed(n), NEW op \in {"join", "leave", "apply", "delete", "kick"},
               NEW at \in {"member", "row", "apps"}, NEW target,
               op = "leave" => target = u, op \in {"delete", "kick"} => r.owner = u
        PROVE  Loaded(Request(op, u, at, r, target))
    BY <1>3, <2>1 DEF Loaded, LoadedRoom, Request
  <2>. QED BY <1>2, <1>5, <2>1, ReadLeavesLoaded
           DEF JoinLoadRoom, LeaveLoadRoom, DeleteLoadRoom, ApplyLoadRoom, KickLoadRoom, Begin,
               IsOwner
<1>6. ASSUME NEW n \in Names, NEW new \in Names, EditLoadRoom(w, u, n, new) PROVE LoadedInv'
  <2>1. ASSUME NEW r \in RoomNamed(n), r.owner = u
        PROVE  Loaded([Request("edit", u, "name", r, u) EXCEPT !.name = new])
    BY <1>3, <2>1 DEF Loaded, LoadedRoom, Request
  <2>. QED BY <1>2, <1>6, <2>1, ReadLeavesLoaded DEF EditLoadRoom, Begin, IsOwner
<1>7. ASSUME NEW i, NEW approve \in BOOLEAN, ReviewLoadApp(w, u, i, approve) PROVE LoadedInv'
  <2>1. ASSUME NEW a \in apps
        PROVE  Loaded([Request("review", u, "room", NoRow, a.user)
                         EXCEPT !.row = a, !.approve = approve])
    <3>1. a.id <= lastId["apps"] /\ \A b \in apps : b.id = a.id => b = a
      BY DEF TypeInv, AppsOK, Bounded, Postgres
    <3>. QED BY <3>1 DEF Loaded, LoadedApp, Request
  <2>. QED BY <1>2, <1>7, <2>1, ReadLeavesLoaded DEF ReviewLoadApp, Begin
<1>. QED BY <1>1, <1>4, <1>5, <1>6, <1>7

\* A read only adds to the locals what the tables hold at that moment.
LEMMA ReadsLoad ==
  ASSUME TypeInv, TypeInv', Postgres, ApprovedByOwner, LoadedInv, NEW w \in Workers,
         \/ JoinCheckMember(w) \/ JoinCheckStatus(w) \/ JoinRefuse(w)
         \/ LeaveLoadMembership(w) \/ KickLoadMembership(w)
         \/ DeleteLoadApps(w) \/ EditCheckName(w)
         \/ ApplyCheckMember(w) \/ ApplyLoadApp(w)
         \/ ReviewLoadRoom(w) \/ ReviewCheckMember(w)
  PROVE  LoadedInv'
<1>1. req \in [Workers -> Requests \cup {Idle}]
  BY DEF TypeInv
<1>2. UNCHANGED tables
  BY DEF JoinCheckMember, JoinCheckStatus, JoinRefuse, Answer, LeaveLoadMembership,
         KickLoadMembership, LoadMembership, DeleteLoadApps, EditCheckName, ApplyCheckMember,
         ApplyLoadApp, ReviewLoadRoom, ReviewCheckMember
<1>3. Shape(req[w]) /\ Loaded(req[w]) /\ req[w] \in Requests
  BY UnderWay
  DEF JoinCheckMember, JoinCheckStatus, JoinRefuse, LeaveLoadMembership,
      KickLoadMembership, LoadMembership, DeleteLoadApps, EditCheckName, ApplyCheckMember,
      ApplyLoadApp, ReviewLoadRoom, ReviewCheckMember, At, LoadedInv
<1>4. ASSUME Finish(w) PROVE LoadedInv'
  BY <1>2, <1>4, ReadLeavesLoaded DEF Finish
<1>5. ASSUME NEW at, Goto(w, at), Loaded([req[w] EXCEPT !.at = at]) PROVE LoadedInv'
  <2>1. req' = [req EXCEPT ![w] = [req[w] EXCEPT !.at = at]]
    BY <1>5 DEF Goto
  <2>. QED BY <1>2, <1>5, <2>1, ReadLeavesLoaded
<1>6. ASSUME NEW at, req[w].op \notin {"review", "leave", "kick"},
             req[w].op = "join" /\ at = "commit" /\ req[w].room.type = "PRIVATE" =>
               <<req[w].room.id, req[w].user>> \in approvals
      PROVE  Loaded([req[w] EXCEPT !.at = at])
  BY <1>3, <1>6 DEF Loaded, LoadedRoom, Requests
<1>7. CASE JoinCheckMember(w)
  BY <1>4, <1>5, <1>6, <1>7 DEF JoinCheckMember, At
<1>8. CASE JoinCheckStatus(w)
  <2>1. ASSUME NEW a \in Applications(req[w].room.id, req[w].user), Admits(a)
        PROVE  <<req[w].room.id, req[w].user>> \in approvals
    <3>1. req[w].room.id # NoRoom
      BY <1>3, <1>8 DEF JoinCheckStatus, At, Loaded, LoadedRoom, Shape, RoomRows, NoRoom
    <3>. QED BY <2>1, <3>1 DEF Applications, Admits, ApprovedByOwner
  <2>. QED BY <1>5, <1>6, <1>8, <2>1 DEF JoinCheckStatus, At
<1>9. CASE JoinRefuse(w)
  BY <1>4, <1>9 DEF JoinRefuse, Answer
<1>10. CASE EditCheckName(w) \/ ApplyCheckMember(w)
  BY <1>4, <1>5, <1>6, <1>10 DEF EditCheckName, ApplyCheckMember, At
<1>11. CASE ReviewCheckMember(w)
  <2>1. \A at : Loaded([req[w] EXCEPT !.at = at])
    BY <1>3, <1>11 DEF ReviewCheckMember, At, Loaded, LoadedApp, Requests
  <2>. QED BY <1>5, <1>11, <2>1 DEF ReviewCheckMember
<1>12. ASSUME NEW op \in {"leave", "kick"}, LoadMembership(w, op) PROVE LoadedInv'
  <2>1. ASSUME NEW m \in Membership(req[w].room.id, req[w].target),
               req' = [req EXCEPT ![w].at = "commit", ![w].row = m]
        PROVE  LoadedInv'
    <3>1. m.id <= lastId["members"] /\ \A k \in members : k.id = m.id => k = m
      BY DEF TypeInv, MembersOK, Bounded, Postgres, Membership
    <3>2. Loaded([req[w] EXCEPT !.at = "commit", !.row = m])
      BY <1>3, <1>12, <3>1
      DEF LoadMembership, At, Loaded, LoadedRoom, LoadedMember, Membership, Requests
    <3>3. req' = [req EXCEPT ![w] = [req[w] EXCEPT !.at = "commit", !.row = m]]
      BY <1>1, <2>1
    <3>. QED BY <1>2, <3>2, <3>3, ReadLeavesLoaded
  <2>. QED BY <1>4, <1>12, <2>1 DEF LoadMembership
<1>13. CASE DeleteLoadApps(w)
  <2>. DEFINE p == Ids({a \in apps : a.room = req[w].room.id})
  <2>1. req' = [req EXCEPT ![w] = [req[w] EXCEPT !.at = "commit", !.pending = p]]
    BY <1>1, <1>13 DEF DeleteLoadApps
  <2>. HIDE DEF p
  <2>2. Loaded([req[w] EXCEPT !.at = "commit", !.pending = p])
    BY <1>3, <1>13 DEF DeleteLoadApps, At, Loaded, LoadedRoom, Requests
  <2>. QED BY <1>2, <2>1, <2>2, ReadLeavesLoaded
<1>14. CASE ApplyLoadApp(w)
  <2>. DEFINE p == Ids(Applications(req[w].room.id, req[w].user))
  <2>1. ASSUME NEW a, req' = [req EXCEPT ![w].at = "commit", ![w].row = a, ![w].pending = p]
        PROVE  LoadedInv'
    <3>1. req' = [req EXCEPT ![w] = [req[w] EXCEPT !.at = "commit", !.row = a, !.pending = p]]
      BY <1>1, <2>1
    <3>. HIDE DEF p
    <3>2. Loaded([req[w] EXCEPT !.at = "commit", !.row = a, !.pending = p])
      BY <1>3, <1>14 DEF ApplyLoadApp, At, Loaded, LoadedRoom, Requests
    <3>. QED BY <1>2, <3>1, <3>2, ReadLeavesLoaded
  <2>. QED BY <1>4, <1>5, <1>6, <1>14, <2>1 DEF ApplyLoadApp, At
<1>15. CASE ReviewLoadRoom(w)
  <2>1. ASSUME NEW r, req' = [req EXCEPT ![w].room = r,
                                         ![w].at = IF req[w].approve THEN "member" ELSE "commit"]
        PROVE  LoadedInv'
    <3>. DEFINE at == IF req[w].approve THEN "member" ELSE "commit"
    <3>1. req' = [req EXCEPT ![w] = [req[w] EXCEPT !.room = r, !.at = at]]
      BY <1>1, <2>1
    <3>2. at = "member" => req[w].approve
      OBVIOUS
    <3>3. at \in {"member", "commit"}
      OBVIOUS
    <3>. HIDE DEF at
    <3>4. Loaded([req[w] EXCEPT !.room = r, !.at = at])
      BY <1>3, <1>15, <3>2, <3>3 DEF ReviewLoadRoom, At, Loaded, LoadedApp, Requests
    <3>. QED BY <1>2, <3>1, <3>4, ReadLeavesLoaded
  <2>. QED BY <1>4, <1>15, <2>1 DEF ReviewLoadRoom
<1>. QED
  BY <1>7, <1>8, <1>9, <1>10, <1>11, <1>12, <1>13, <1>14, <1>15
  DEF LeaveLoadMembership, KickLoadMembership

\* Each request has right locals after every step.
LEMMA LoadedStep ==
  ASSUME TypeInv, Postgres, PositiveIds, ApprovedByOwner, LoadedInv, [Next]_vars
  PROVE  LoadedInv'
<1>1. TypeInv'
  BY TypeStep
<1>2. CASE UNCHANGED vars
  BY <1>2 DEF LoadedInv, Loaded, LoadedRoom, LoadedMember, LoadedApp, vars
<1>3. ASSUME NEW w \in Workers, Call(w) PROVE LoadedInv'
  BY <1>1, <1>3, CallLoads
<1>4. ASSUME NEW w \in Workers, Finish(w) PROVE LoadedInv'
  <2>1. TablesMove
    BY StepMoves
  <2>. QED BY <1>1, <1>4, <2>1, AllLoaded DEF Finish, LoadedInv
<1>5. ASSUME NEW w \in Workers, Step(w) PROVE LoadedInv'
  <2>1. \/ CreateCommit(w) \/ JoinCommit(w) \/ LeaveCommit(w) \/ KickCommit(w)
        \/ DeleteCommit(w) \/ EditCommit(w) \/ ApplyCommit(w) \/ ReviewCommit(w)
        => Finish(w)
    BY DEF CreateCommit, JoinCommit, LeaveCommit, KickCommit, DeleteMembership,
           DeleteCommit, EditCommit, ApplyCommit, ReviewCommit
  <2>. QED BY <1>1, <1>4, <1>5, <2>1, ReadsLoad DEF Step
<1>. QED BY <1>2, <1>3, <1>4, <1>5 DEF Next

-----------------------------------------------------------------------------
(* Who is in a room.                                                       *)

\* Whoever enters a room enters one that exists, and if it is private as its
\* owner or approved.
MayBeIn(m) ==
  /\ RoomWithId(m.room) # {}
  /\ \A r \in rooms : m.room = r.id /\ r.type = "PRIVATE" =>
       m.user = r.owner \/ <<r.id, m.user>> \in approvals

LEMMA NewMembersMayBeIn ==
  ASSUME IInv, Postgres, [Next]_vars, NEW m \in members' \ members
  PROVE  MayBeIn(m)'
<1>1. /\ TypeInv /\ TypeInv' /\ rooms \subseteq RoomRows
      /\ \A r, s \in rooms' : r.id = s.id => r = s
  BY TypeStep DEF IInv, TypeInv, RoomsOK
<1>2. ASSUME NEW w \in Workers, CreateCommit(w) PROVE MayBeIn(m)'
  <2>. DEFINE room == [req[w].room EXCEPT !.id = NewId("rooms", rooms)]
  <2>1. rooms' = rooms \cup {room} /\ members' = members \cup {NewMember(room.id, room.owner)}
    BY <1>2 DEF CreateCommit, OwnerMembership
  <2>. HIDE DEF room
  <2>2. m.room = room.id /\ m.user = room.owner
    BY <2>1 DEF NewMember
  <2>. QED BY <1>1, <2>1, <2>2 DEF MayBeIn, RoomWithId
<1>3. ASSUME NEW w \in Workers, JoinCommit(w) PROVE MayBeIn(m)'
  <2>1. Loaded(req[w]) /\ At(w, "join", "commit")
    BY <1>1, <1>3, UnderWay DEF JoinCommit, At, IInv, LoadedInv
  <2>2. /\ RoomIdValid(req[w].room.id) /\ InsertMember(req[w].room.id, req[w].user)
        /\ UNCHANGED <<rooms, approvals>>
    BY <1>3 DEF JoinCommit, MayInsertMember
  <2>3. m.room = req[w].room.id /\ m.user = req[w].user
    BY <2>2 DEF InsertMember, NewMember
  <2>. QED BY <2>1, <2>2, <2>3
           DEF MayBeIn, RoomIdValid, ForeignKeys, Postgres, RoomWithId, Loaded, LoadedRoom, At
<1>4. ASSUME NEW w \in Workers, ReviewCommit(w) PROVE MayBeIn(m)'
  <2>1. /\ At(w, "review", "admit") /\ MayInsertMember(req[w].row.room, req[w].target)
        /\ InsertMember(req[w].row.room, req[w].target) /\ UNCHANGED rooms
        /\ approvals' = IF req[w].approve THEN approvals \cup {<<req[w].row.room, req[w].target>>}
                        ELSE approvals
    BY <1>4 DEF ReviewCommit
  <2>2. req[w].approve
    BY <1>1, <2>1, UnderWay DEF At, IInv, LoadedInv, Loaded, LoadedApp
  <2>3. m.room = req[w].row.room /\ m.user = req[w].target
    BY <2>1 DEF InsertMember, NewMember
  <2>. QED BY <2>1, <2>2, <2>3
           DEF MayBeIn, MayInsertMember, RoomIdValid, ForeignKeys, Postgres, RoomWithId
<1>5. ASSUME NEW w \in Workers,
             LeaveCommit(w) \/ KickCommit(w) \/ DeleteCommit(w) \/ EditCommit(w) \/ ApplyCommit(w)
      PROVE  FALSE
  BY <1>5 DEF LeaveCommit, KickCommit, DeleteMembership, DeleteCommit, EditCommit, ApplyCommit
<1>. QED BY <1>2, <1>3, <1>4, <1>5, TablesChange DEF tables

\* A member stays the member of a room that is still there, or goes with it.
LEMMA OldMembersMayBeIn ==
  ASSUME IInv, Postgres, [Next]_vars, NEW m \in members \cap members'
  PROVE  MayBeIn(m)'
<1>1. TypeInv /\ TablesMove
  BY StepMoves DEF IInv
<1>2. /\ \A r \in rooms : r.id \in Nat /\ r.id <= lastId["rooms"]
      /\ \A r \in rooms' : r.id \in Nat
      /\ lastId["rooms"] \in Nat
  <2>1. RoomsOK(rooms, lastId["rooms"]) /\ RoomsOK(rooms, lastId["rooms"])' /\ lastId["rooms"] \in Nat
    BY <1>1, TypeStep DEF TypeInv, Tables
  <2>. QED BY <2>1 DEF RoomsOK, RoomRows, Bounded, Postgres
<1>3. PICK q \in rooms : q.id = m.room
  BY DEF IInv, MembersHaveRooms, RoomWithId
<1>4. ASSUME NEW r \in rooms', m.room = r.id, r.type = "PRIVATE"
      PROVE  m.user = r.owner \/ <<r.id, m.user>> \in approvals'
  <2>1. ~(r.id > lastId["rooms"])
    BY <1>2, <1>3, <1>4
  <2>2. PICK s \in rooms : s.id = r.id /\ s.owner = r.owner /\ s.type = r.type
    BY <1>1, <2>1 DEF TablesMove
  <2>. QED BY <1>1, <1>4, <2>2 DEF IInv, PrivateAdmission, TablesMove
<1>5. \E r \in rooms' : r.id = m.room
  <2>1. ASSUME rooms \subseteq rooms' PROVE \E r \in rooms' : r.id = m.room
    BY <1>3, <2>1
  <2>2. ASSUME NEW w \in Workers, DeleteCommit(w) PROVE \E r \in rooms' : r.id = m.room
    BY <1>3, <2>2 DEF DeleteCommit, ForeignKeys, Postgres
  <2>3. ASSUME NEW w \in Workers, EditCommit(w) PROVE \E r \in rooms' : r.id = m.room
    <3>. DEFINE i == req[w].room.id
    <3>1. CASE UNCHANGED rooms
      BY <2>1, <3>1
    <3>2. CASE rooms' = {IF r.id = i THEN [r EXCEPT !.name = req[w].name] ELSE r : r \in rooms}
      <4>1. (IF q.id = i THEN [q EXCEPT !.name = req[w].name] ELSE q) \in rooms'
        BY <3>2
      <4>2. q \in RoomRows
        BY <1>1 DEF TypeInv, RoomsOK
      <4>3. (IF q.id = i THEN [q EXCEPT !.name = req[w].name] ELSE q).id = q.id
        BY <4>2 DEF RoomRows
      <4>. QED BY <1>3, <4>1, <4>3
    <3>. QED BY <2>3, <3>1, <3>2 DEF EditCommit
  <2>4. ASSUME NEW w \in Workers,
               \/ CreateCommit(w) \/ JoinCommit(w) \/ LeaveCommit(w) \/ KickCommit(w)
               \/ ApplyCommit(w) \/ ReviewCommit(w)
        PROVE  rooms \subseteq rooms'
    BY <2>4 DEF CreateCommit, JoinCommit, LeaveCommit, KickCommit, DeleteMembership,
                ApplyCommit, ReviewCommit
  <2>. QED BY <2>1, <2>2, <2>3, <2>4, TablesChange DEF tables
<1>. QED BY <1>4, <1>5 DEF MayBeIn, RoomWithId

\* An application is approved by its room's owner only.
LEMMA ApprovedStep ==
  ASSUME IInv, Postgres, [Next]_vars
  PROVE  ApprovedByOwner'
<1>1. /\ TypeInv /\ TablesMove /\ apps \subseteq AppRows
      /\ \A a \in apps : a.status = "APPROVED" /\ a.room # NoRoom => <<a.room, a.user>> \in approvals
  BY StepMoves DEF IInv, TypeInv, AppsOK, ApprovedByOwner
<1>. SUFFICES ASSUME NEW b \in apps', b.status = "APPROVED", b.room # NoRoom, b \notin apps
              PROVE  <<b.room, b.user>> \in approvals'
  BY <1>1 DEF ApprovedByOwner, TablesMove
<1>2. ASSUME NEW w \in Workers, DeleteCommit(w) PROVE FALSE
  <2>1. \E a \in apps : b \in {a, [a EXCEPT !.room = NoRoom]}
    BY <1>2 DEF DeleteCommit
  <2>. QED BY <1>1, <2>1 DEF AppRows
<1>3. ASSUME NEW w \in Workers, ApplyCommit(w) PROVE FALSE
  <2>1. b.status = "PENDING" \/ \E a \in apps : b \in {a, [a EXCEPT !.status = "PENDING"]}
    BY <1>3 DEF ApplyCommit
  <2>. QED BY <1>1, <2>1 DEF AppRows
<1>4. ASSUME NEW w \in Workers, ReviewCommit(w) PROVE <<b.room, b.user>> \in approvals'
  <2>. DEFINE verdict == Verdict(req[w].approve)
  <2>1. /\ apps' = {IF a.id = req[w].row.id THEN [a EXCEPT !.status = verdict] ELSE a : a \in apps}
        /\ approvals' = IF req[w].approve THEN approvals \cup {<<req[w].row.room, req[w].target>>}
                        ELSE approvals
    BY <1>4 DEF ReviewCommit
  <2>. HIDE DEF verdict
  <2>2. PICK a \in apps : a.id = req[w].row.id /\ b = [a EXCEPT !.status = verdict]
    BY <2>1
  <2>3. b.status = verdict /\ b.user = a.user /\ b.room = a.room
    BY <1>1, <2>2 DEF AppRows
  <2>4. req[w].approve
    BY <2>3 DEF verdict, Verdict
  <2>5. LoadedApp(req[w])
    BY <1>1, <1>4, UnderWay DEF ReviewCommit, At, IInv, LoadedInv, Loaded
  <2>. QED BY <2>1, <2>2, <2>3, <2>4, <2>5 DEF LoadedApp
<1>5. ASSUME NEW w \in Workers,
             \/ CreateCommit(w) \/ JoinCommit(w) \/ LeaveCommit(w) \/ KickCommit(w)
             \/ EditCommit(w)
      PROVE  FALSE
  BY <1>5 DEF CreateCommit, JoinCommit, LeaveCommit, KickCommit, DeleteMembership, EditCommit
<1>. QED BY <1>2, <1>3, <1>4, <1>5, TablesChange DEF tables

-----------------------------------------------------------------------------
(* The theorems.                                                           *)

\* The invariant is inductive.
LEMMA InvariantStep ==
  ASSUME Postgres, IInv, [Next]_vars
  PROVE  IInv'
<1>1. TypeInv' /\ LoadedInv' /\ ApprovedByOwner'
  BY TypeStep, LoadedStep, ApprovedStep DEF IInv
<1>2. PositiveIds'
  <2>1. TablesMove /\ TypeInv
    BY StepMoves DEF IInv
  <2>2. \A s \in rooms' : s.id \in Nat
    BY <1>1 DEF TypeInv, RoomsOK, RoomRows
  <2>. QED BY <2>1, <2>2 DEF TablesMove, PositiveIds, IInv, Tables
<1>3. \A m \in members' : MayBeIn(m)'
  BY NewMembersMayBeIn, OldMembersMayBeIn
<1>. QED BY <1>1, <1>2, <1>3 DEF IInv, MayBeIn, MembersHaveRooms, PrivateAdmission

LEMMA Invariance ==
  ASSUME Postgres
  PROVE  Spec => []IInv
<1>1. Init => IInv
  BY DEF Init, IInv, TypeInv, RoomsOK, MembersOK, AppsOK, Bounded, Tables, PositiveIds,
         MembersHaveRooms, ApprovedByOwner, PrivateAdmission, LoadedInv
<1>2. IInv /\ [Next]_vars => IInv'
  BY InvariantStep
<1>. QED BY <1>1, <1>2, PTL DEF Spec

\* A private room is closed: join_room, review_application and create_room,
\* interleaved statement by statement with anything else, let in nobody but the
\* owner and those the owner approved.
THEOREM PrivateRoomsClosed ==
  ASSUME Postgres
  PROVE  Spec => []PrivateAdmission
<1>1. IInv => PrivateAdmission
  BY DEF IInv
<1>. QED BY <1>1, Invariance, PTL

\* No membership outlives its room: a join that had loaded the room before it
\* was deleted fails.
THEOREM NoOrphans ==
  ASSUME Postgres
  PROVE  Spec => []MembersHaveRooms
<1>1. IInv => MembersHaveRooms
  BY DEF IInv
<1>. QED BY <1>1, Invariance, PTL

\* leave_room and kick_member delete by a primary key loaded earlier, and still
\* remove only the caller's own membership or one in the caller's own room.
THEOREM NobodyRemovedByStrangers ==
  ASSUME Postgres
  PROVE  Spec => RemovalsAuthorised
<1>. DEFINE Authorised(m) == \E w \in Workers :
              /\ req[w] # Idle /\ req[w].room.id = m.room
              /\ \/ LeaveCommit(w) /\ req[w].user = m.user
                 \/ KickCommit(w) /\ req[w].target = m.user /\ req[w].user = req[w].room.owner
                 \/ DeleteCommit(w) /\ req[w].user = req[w].room.owner
<1>1. ASSUME IInv, [Next]_vars, NEW m \in members \ members' PROVE Authorised(m)
  <2>1. ASSUME NEW w \in Workers, LeaveCommit(w) \/ KickCommit(w) PROVE Authorised(m)
    <3>1. req[w] # Idle /\ req[w].op \in {"leave", "kick"} /\ req[w].at = "commit"
      BY <1>1, <2>1, UnderWay DEF LeaveCommit, KickCommit, DeleteMembership, At, IInv
    <3>2. LoadedRoom(req[w]) /\ LoadedMember(req[w])
      BY <1>1, <3>1 DEF IInv, LoadedInv, Loaded
    <3>3. m.id = req[w].row.id
      BY <1>1, <2>1 DEF LeaveCommit, KickCommit, DeleteMembership
    <3>4. m.room = req[w].room.id /\ m.user = req[w].target
      BY <1>1, <3>2, <3>3 DEF LoadedMember
    <3>5. /\ LeaveCommit(w) => req[w].op = "leave"
          /\ KickCommit(w) => req[w].op = "kick"
      BY DEF LeaveCommit, KickCommit, DeleteMembership, At
    <3>6. /\ LeaveCommit(w) => req[w].user = m.user
          /\ KickCommit(w) => req[w].user = req[w].room.owner
      BY <3>2, <3>4, <3>5 DEF LoadedRoom
    <3>. QED BY <2>1, <3>1, <3>4, <3>6
  <2>2. ASSUME NEW w \in Workers, DeleteCommit(w) PROVE Authorised(m)
    <3>1. req[w] # Idle /\ req[w].op = "delete"
      BY <1>1, <2>2, UnderWay DEF DeleteCommit, At, IInv
    <3>2. req[w].user = req[w].room.owner
      BY <1>1, <3>1 DEF IInv, LoadedInv, Loaded, LoadedRoom
    <3>3. m.room = req[w].room.id
      BY <1>1, <2>2 DEF DeleteCommit
    <3>. QED BY <2>2, <3>1, <3>2, <3>3
  <2>3. ASSUME NEW w \in Workers,
               \/ CreateCommit(w) \/ JoinCommit(w) \/ EditCommit(w)
               \/ ApplyCommit(w) \/ ReviewCommit(w)
        PROVE  members \subseteq members'
    BY <2>3 DEF CreateCommit, JoinCommit, InsertMember, EditCommit, ApplyCommit, ReviewCommit
  <2>. HIDE DEF Authorised
  <2>. QED BY <1>1, <2>1, <2>2, <2>3, TablesChange DEF tables
<1>2. IInv /\ [Next]_vars => [\A m \in members \ members' : Authorised(m)]_vars
  BY <1>1
<1>. QED BY <1>2, Invariance, PTL DEF Spec, RemovalsAuthorised

\* A room is renamed or deleted by its owner only, however long ago the owner
\* was checked: the id the request works on is still that room's or nobody's.
THEOREM OnlyOwnersChangeRooms ==
  ASSUME Postgres
  PROVE  Spec => RoomsKeptByOwner
<1>. DEFINE ByOwner(r) == \E w \in Workers :
              /\ EditCommit(w) \/ DeleteCommit(w)
              /\ req[w].user = r.owner /\ req[w].room.id = r.id
<1>1. ASSUME IInv, [Next]_vars, NEW r \in rooms \ rooms' PROVE ByOwner(r)
  <2>1. ASSUME NEW w \in Workers, EditCommit(w) \/ DeleteCommit(w) PROVE ByOwner(r)
    <3>1. req[w] # Idle /\ req[w].op \in {"edit", "delete"}
      BY <1>1, <2>1, UnderWay DEF EditCommit, DeleteCommit, At, IInv
    <3>2. LoadedRoom(req[w])
      BY <1>1, <3>1 DEF IInv, LoadedInv, Loaded
    <3>3. r.id = req[w].room.id
      BY <1>1, <2>1 DEF EditCommit, DeleteCommit
    <3>. QED BY <1>1, <2>1, <3>1, <3>2, <3>3 DEF LoadedRoom
  <2>2. ASSUME NEW w \in Workers,
               \/ CreateCommit(w) \/ JoinCommit(w) \/ LeaveCommit(w) \/ KickCommit(w)
               \/ ApplyCommit(w) \/ ReviewCommit(w)
        PROVE  rooms \subseteq rooms'
    BY <2>2 DEF CreateCommit, JoinCommit, LeaveCommit, KickCommit, DeleteMembership,
                ApplyCommit, ReviewCommit
  <2>. HIDE DEF ByOwner
  <2>. QED BY <1>1, <2>1, <2>2, TablesChange DEF tables
<1>2. IInv /\ [Next]_vars => [\A r \in rooms \ rooms' : ByOwner(r)]_vars
  BY <1>1
<1>. QED BY <1>2, Invariance, PTL DEF Spec, RoomsKeptByOwner

-----------------------------------------------------------------------------
(* Row locks.                                                              *)

\* An application that is being made pending again is locked, and is not
\* approved behind the request's back.
HoldsRow(r) ==
  r.op = "apply" =>
    \/ r.row = NoRow
    \/ /\ r.at = "commit" /\ r.row \in AppRows
       /\ r.row.id \in r.pending /\ r.row.id <= lastId["apps"]
       /\ \A a \in apps : a.id = r.row.id => a.status # "APPROVED"

LockInv == \A w \in Workers : req[w] # Idle => HoldsRow(req[w])

\* No step of another request approves a locked application.
LEMMA LockedStays ==
  ASSUME TypeInv, Postgres, LockInv, NEW v \in Workers, req[v] # Idle, [Next]_vars,
         req'[v] = req[v]
  PROVE  HoldsRow(req[v])'
<1>1. /\ TypeInv' /\ TablesMove /\ apps \subseteq AppRows /\ "apps" \in Tables
      /\ req \in [Workers -> Requests \cup {Idle}] /\ HoldsRow(req[v])
  BY TypeStep, StepMoves DEF TypeInv, AppsOK, LockInv, Tables
<1>. SUFFICES ASSUME req[v].op = "apply", req[v].row # NoRow,
                     NEW b \in apps', b.id = req[v].row.id, b.status = "APPROVED"
              PROVE  FALSE
  BY <1>1 DEF HoldsRow, TablesMove, AppRows
<1>2. /\ req[v].at = "commit" /\ req[v].row \in AppRows
      /\ req[v].row.id \in req[v].pending /\ req[v].row.id <= lastId["apps"]
      /\ b \notin apps
  BY <1>1 DEF HoldsRow
<1>3. ASSUME NEW w \in Workers, DeleteCommit(w) PROVE FALSE
  <2>1. \E a \in apps : b \in {a, [a EXCEPT !.room = NoRoom]}
    BY <1>3 DEF DeleteCommit
  <2>. QED BY <1>1, <1>2, <2>1 DEF AppRows, HoldsRow
<1>4. ASSUME NEW w \in Workers, ApplyCommit(w) PROVE FALSE
  <2>1. b.status = "PENDING" \/ \E a \in apps : b \in {a, [a EXCEPT !.status = "PENDING"]}
    BY <1>4 DEF ApplyCommit
  <2>. QED BY <1>1, <1>2, <2>1 DEF AppRows
<1>5. ASSUME NEW w \in Workers, ReviewCommit(w) PROVE FALSE
  <2>1. Finish(w)
    BY <1>5 DEF ReviewCommit
  <2>2. v # w
    BY <1>1, <2>1 DEF Finish
  <2>3. ~Locked(w, req[w].row.id) /\ At(v, "apply", "commit")
    BY <1>2, <1>5 DEF ReviewCommit, At
  <2>4. req[w].row.id # req[v].row.id
    BY <1>2, <2>2, <2>3 DEF Locked, RowLocks, Postgres
  <2>. DEFINE verdict == Verdict(req[w].approve)
  <2>5. apps' = {IF a.id = req[w].row.id THEN [a EXCEPT !.status = verdict] ELSE a : a \in apps}
    BY <1>2, <1>5 DEF ReviewCommit
  <2>. HIDE DEF verdict
  <2>6. PICK a \in apps : a.id = req[w].row.id /\ b = [a EXCEPT !.status = verdict]
    BY <1>2, <2>5
  <2>. QED BY <1>1, <2>4, <2>6 DEF AppRows
<1>6. ASSUME NEW w \in Workers,
             \/ CreateCommit(w) \/ JoinCommit(w) \/ LeaveCommit(w) \/ KickCommit(w)
             \/ EditCommit(w)
      PROVE  apps' = apps
  BY <1>6 DEF CreateCommit, JoinCommit, LeaveCommit, KickCommit, DeleteMembership, EditCommit
<1>. QED BY <1>2, <1>3, <1>4, <1>5, <1>6, TablesChange DEF tables

\* The only requests that hold an application are those that have just read
\* it rejected.
LEMMA LockStep ==
  ASSUME TypeInv, Postgres, LockInv, [Next]_vars
  PROVE  LockInv'
<1>1. /\ req \in [Workers -> Requests \cup {Idle}]
      /\ \A a \in apps : a.id \in Nat /\ a \in AppRows /\ a.id <= lastId["apps"]
      /\ \A a, b \in apps : a.id = b.id => a = b
  BY DEF TypeInv, AppsOK, AppRows, Bounded, Postgres
<1>. SUFFICES ASSUME NEW v \in Workers, req'[v] # Idle PROVE HoldsRow(req[v])'
  BY DEF LockInv
<1>2. CASE req'[v] = req[v]
  <2>1. HoldsRow(req[v])'
    BY <1>2, LockedStays
  <2>. QED BY <2>1
<1>3. CASE req'[v] # req[v]
  <2>1. PICK w \in Workers : Call(w) \/ Step(w)
    BY <1>3 DEF Next, vars
  <2>2. ASSUME NEW r, req' = [req EXCEPT ![w] = r] PROVE v = w /\ req'[v] = r
    BY <1>1, <1>3, <2>2
  <2>3. ASSUME Finish(w) PROVE FALSE
    BY <2>2, <2>3 DEF Finish
  <2>4. ASSUME NEW r, req' = [req EXCEPT ![w] = r], r.op # "apply" \/ r.row = NoRow
        PROVE  HoldsRow(req[v])'
    BY <2>2, <2>4 DEF HoldsRow
  <2>5. CASE Call(w)
    <3>1. \A op, u, at, room, t : Request(op, u, at, room, t).row = NoRow
      BY DEF Request
    <3>2. \A u, at, room, t, n : [Request("edit", u, at, room, t) EXCEPT !.name = n].op # "apply"
      BY DEF Request
    <3>3. \A u, at, room, t, a, p :
            [Request("review", u, at, room, t) EXCEPT !.row = a, !.approve = p].op # "apply"
      BY DEF Request
    <3>4. ASSUME UNCHANGED vars PROVE FALSE
      BY <1>3, <3>4 DEF vars
    <3>5. \/ \E op, u, at, room, t : Begin(w, Request(op, u, at, room, t))
          \/ \E u, at, room, t, n : Begin(w, [Request("edit", u, at, room, t) EXCEPT !.name = n])
          \/ \E u, at, room, t, a, p :
               Begin(w, [Request("review", u, at, room, t) EXCEPT !.row = a, !.approve = p])
      <4>1. PICK u \in Users :
              \/ \E n \in Names, t \in RoomTypes : CreateCheck(w, u, n, t)
              \/ \E n \in Names : JoinLoadRoom(w, u, n) \/ LeaveLoadRoom(w, u, n)
                                   \/ DeleteLoadRoom(w, u, n) \/ ApplyLoadRoom(w, u, n)
              \/ \E n \in Names, v2 \in Users : KickLoadRoom(w, u, n, v2)
              \/ \E n, new \in Names : EditLoadRoom(w, u, n, new)
              \/ \E i \in 1 .. MaxId["apps"], approve \in BOOLEAN : ReviewLoadApp(w, u, i, approve)
        BY <2>5 DEF Call
      <4>2. CASE \E n \in Names, t \in RoomTypes : CreateCheck(w, u, n, t)
        BY <3>4, <4>2, Zenon DEF CreateCheck
      <4>3. CASE \E n \in Names : JoinLoadRoom(w, u, n) \/ LeaveLoadRoom(w, u, n)
                                   \/ DeleteLoadRoom(w, u, n) \/ ApplyLoadRoom(w, u, n)
        BY <3>4, <4>3, Zenon DEF JoinLoadRoom, LeaveLoadRoom, DeleteLoadRoom, ApplyLoadRoom
      <4>4. CASE \E n \in Names, v2 \in Users : KickLoadRoom(w, u, n, v2)
        BY <3>4, <4>4, Zenon DEF KickLoadRoom
      <4>5. CASE \E n, new \in Names : EditLoadRoom(w, u, n, new)
        BY <3>4, <4>5, Zenon DEF EditLoadRoom
      <4>6. CASE \E i \in 1 .. MaxId["apps"], approve \in BOOLEAN : ReviewLoadApp(w, u, i, approve)
        BY <3>4, <4>6, Zenon DEF ReviewLoadApp
      <4>. QED BY <4>1, <4>2, <4>3, <4>4, <4>5, <4>6
    <3>6. ASSUME NEW r, Begin(w, r), r.op # "apply" \/ r.row = NoRow PROVE HoldsRow(req[v])'
      BY <2>4, <3>6 DEF Begin
    <3>7. CASE \E op, u, at, room, t : Begin(w, Request(op, u, at, room, t))
      <4>1. PICK op, u, at, room, t : Begin(w, Request(op, u, at, room, t))
        BY <3>7, Zenon
      <4>. QED BY <3>1, <3>6, <4>1
    <3>8. CASE \E u, at, room, t, n : Begin(w, [Request("edit", u, at, room, t) EXCEPT !.name = n])
      <4>1. PICK u, at, room, t, n : Begin(w, [Request("edit", u, at, room, t) EXCEPT !.name = n])
        BY <3>8, Zenon
      <4>. QED BY <3>2, <3>6, <4>1
    <3>9. CASE \E u, at, room, t, a, p :
                 Begin(w, [Request("review", u, at, room, t) EXCEPT !.row = a, !.approve = p])
      <4>1. PICK u, at, room, t, a, p :
              Begin(w, [Request("review", u, at, room, t) EXCEPT !.row = a, !.approve = p])
        BY <3>9, Zenon
      <4>. QED BY <3>3, <3>6, <4>1
    <3>. QED BY <3>5, <3>7, <3>8, <3>9
  <2>6. ASSUME Step(w), req[w].op # "apply" PROVE HoldsRow(req[v])'
    <3>1. \/ Finish(w)
          \/ \E r : req' = [req EXCEPT ![w] = r] /\ r.op # "apply"
      <4>1. req[w] \in Requests
        BY <1>1, <2>6, UnderWay
        DEF Step, At, CreateCommit, JoinCheckMember, JoinCheckStatus, JoinRefuse, JoinCommit,
            LeaveLoadMembership, KickLoadMembership, LoadMembership, LeaveCommit, KickCommit,
            DeleteMembership, DeleteLoadApps, DeleteCommit, EditCheckName, EditCommit,
            ApplyCheckMember, ApplyLoadApp, ApplyCommit, ReviewLoadRoom, ReviewCheckMember,
            ReviewCommit
      <4>2. ASSUME NEW at, Goto(w, at)
            PROVE  \E r : req' = [req EXCEPT ![w] = r] /\ r.op # "apply"
        <5>1. [req[w] EXCEPT !.at = at].op # "apply"
          BY <2>6, <4>1 DEF Requests
        <5>. QED BY <4>2, <5>1 DEF Goto
      <4>3. ASSUME NEW op, LoadMembership(w, op)
            PROVE  Finish(w) \/ \E r : req' = [req EXCEPT ![w] = r] /\ r.op # "apply"
        <5>1. \A m : [req[w] EXCEPT !.at = "commit", !.row = m].op # "apply"
          BY <2>6, <4>1 DEF Requests
        <5>2. \A m : [req EXCEPT ![w].at = "commit", ![w].row = m]
                     = [req EXCEPT ![w] = [req[w] EXCEPT !.at = "commit", !.row = m]]
          BY <1>1
        <5>. QED BY <4>3, <5>1, <5>2 DEF LoadMembership
      <4>4. ASSUME DeleteLoadApps(w)
            PROVE  \E r : req' = [req EXCEPT ![w] = r] /\ r.op # "apply"
        <5>1. \A p : [req[w] EXCEPT !.at = "commit", !.pending = p].op # "apply"
          BY <2>6, <4>1 DEF Requests
        <5>2. \A p : [req EXCEPT ![w].at = "commit", ![w].pending = p]
                     = [req EXCEPT ![w] = [req[w] EXCEPT !.at = "commit", !.pending = p]]
          BY <1>1
        <5>. QED BY <4>4, <5>1, <5>2 DEF DeleteLoadApps
      <4>5. ASSUME ReviewLoadRoom(w)
            PROVE  Finish(w) \/ \E r : req' = [req EXCEPT ![w] = r] /\ r.op # "apply"
        <5>. DEFINE at == IF req[w].approve THEN "member" ELSE "commit"
        <5>1. Finish(w) \/ \E r : req' = [req EXCEPT ![w].room = r, ![w].at = at]
          BY <4>5 DEF ReviewLoadRoom
        <5>. HIDE DEF at
        <5>2. \A r : [req[w] EXCEPT !.room = r, !.at = at].op # "apply"
          BY <2>6, <4>1 DEF Requests
        <5>3. \A r : [req EXCEPT ![w].room = r, ![w].at = at]
                     = [req EXCEPT ![w] = [req[w] EXCEPT !.room = r, !.at = at]]
          BY <1>1
        <5>4. ASSUME NEW r, req' = [req EXCEPT ![w].room = r, ![w].at = at]
              PROVE  \E q : req' = [req EXCEPT ![w] = q] /\ q.op # "apply"
          <6>. WITNESS [req[w] EXCEPT !.room = r, !.at = at]
          <6>. QED BY <5>2, <5>3, <5>4
        <5>. QED BY <5>1, <5>4
      <4>. QED
        BY <2>6, <4>2, <4>3, <4>4, <4>5
        DEF Step, At, CreateCommit, JoinCheckMember, JoinCheckStatus, JoinRefuse, Answer,
            JoinCommit, LeaveLoadMembership, KickLoadMembership, LeaveCommit, KickCommit,
            DeleteMembership, DeleteCommit, EditCheckName, EditCommit,
            ApplyCheckMember, ApplyLoadApp, ApplyCommit, ReviewCheckMember, ReviewCommit
    <3>. QED BY <2>3, <2>4, <3>1
  <2>7. ASSUME Step(w), req[w].op = "apply" PROVE HoldsRow(req[v])'
    <3>1. /\ req[w] # Idle /\ req[w] \in Requests /\ HoldsRow(req[w])
          /\ ApplyCheckMember(w) \/ ApplyLoadApp(w) \/ ApplyCommit(w)
      BY <2>7, UnderWay
      DEF LockInv, Step, At, CreateCommit, JoinCheckMember, JoinCheckStatus, JoinRefuse,
          JoinCommit, LeaveLoadMembership, KickLoadMembership, LoadMembership, LeaveCommit,
          KickCommit, DeleteMembership, DeleteLoadApps, DeleteCommit, EditCheckName, EditCommit,
          ReviewLoadRoom, ReviewCheckMember, ReviewCommit
    <3>2. ASSUME NEW at, Goto(w, at), req[w].at # "commit" PROVE HoldsRow(req[v])'
      <4>1. [req[w] EXCEPT !.at = at].row = NoRow
        BY <2>7, <3>1, <3>2 DEF HoldsRow, Requests
      <4>. QED BY <2>4, <3>2, <4>1 DEF Goto
    <3>3. ASSUME NEW a \in Applications(req[w].room.id, req[w].user), a.status = "REJECTED",
                 req' = [req EXCEPT ![w].at = "commit", ![w].row = a,
                           ![w].pending = Ids(Applications(req[w].room.id, req[w].user))],
                 UNCHANGED tables
          PROVE  HoldsRow(req[v])'
      <4>. DEFINE p == Ids(Applications(req[w].room.id, req[w].user))
      <4>1. req' = [req EXCEPT ![w] = [req[w] EXCEPT !.at = "commit", !.row = a, !.pending = p]]
        BY <1>1, <3>3
      <4>2. a \in apps /\ a.id \in p
        BY <3>3 DEF Applications, Ids
      <4>. HIDE DEF p
      <4>3. req'[v] = [req[w] EXCEPT !.at = "commit", !.row = a, !.pending = p]
        BY <2>2, <4>1
      <4>4. req'[v].at = "commit" /\ req'[v].row = a /\ req'[v].pending = p
        BY <3>1, <4>3 DEF Requests
      <4>. QED BY <1>1, <3>3, <4>2, <4>4 DEF HoldsRow, tables
    <3>4. ApplyCommit(w) => Finish(w)
      BY DEF ApplyCommit
    <3>. QED BY <2>3, <3>1, <3>2, <3>3, <3>4 DEF ApplyCheckMember, ApplyLoadApp, At
  <2>. QED BY <2>1, <2>5, <2>6, <2>7
<1>. QED BY <1>2, <1>3

\* SELECT ... FOR UPDATE in apply_to_room does its work: an approval given
\* while the applicant applies again is not overwritten.
THEOREM ApprovalsNotOverwritten ==
  ASSUME Postgres
  PROVE  Spec => ApprovalsStand
<1>. DEFINE ByReview(a) == \E w \in Workers : ReviewCommit(w) /\ req[w].row.id = a.id
<1>1. ASSUME TypeInv, LockInv, [Next]_vars, NEW a \in apps, NEW b \in apps',
             a.id = b.id, a.status = "APPROVED", b.status # "APPROVED"
      PROVE  ByReview(a)
  <2>1. /\ apps \subseteq AppRows /\ a.id \in Nat /\ a.id <= lastId["apps"]
        /\ lastId["apps"] \in Nat
        /\ \A c \in apps : c.id = a.id => c = a
    BY <1>1 DEF TypeInv, AppsOK, AppRows, Bounded, Postgres, Tables
  <2>2. ASSUME NEW w \in Workers, DeleteCommit(w) PROVE FALSE
    <3>1. \E c \in apps : b \in {c, [c EXCEPT !.room = NoRoom]}
      BY <1>1, <2>2 DEF DeleteCommit
    <3>. QED BY <1>1, <2>1, <3>1 DEF AppRows
  <2>3. ASSUME NEW w \in Workers, ApplyCommit(w) PROVE FALSE
    <3>1. CASE req[w].row = NoRow
      <4>1. NewId("apps", apps) = lastId["apps"] + 1
        BY <1>1, NewIdAbove DEF Tables
      <4>2. b \in apps \/ b.id = NewId("apps", apps)
        BY <1>1, <2>3, <3>1 DEF ApplyCommit
      <4>. QED BY <1>1, <2>1, <4>1, <4>2
    <3>2. CASE req[w].row # NoRow
      <4>1. req[w].op = "apply" /\ req[w] # Idle
        BY <1>1, <2>3, UnderWay DEF ApplyCommit, At
      <4>2. a.id # req[w].row.id
        BY <1>1, <3>2, <4>1 DEF LockInv, HoldsRow
      <4>3. \E c \in apps : b = IF c.id = req[w].row.id
                               THEN [c EXCEPT !.status = "PENDING"] ELSE c
        BY <1>1, <2>3, <3>2 DEF ApplyCommit
      <4>. QED BY <1>1, <2>1, <4>2, <4>3 DEF AppRows
    <3>. QED BY <3>1, <3>2
  <2>4. ASSUME NEW w \in Workers, ReviewCommit(w) PROVE ByReview(a)
    <3>. DEFINE verdict == Verdict(req[w].approve)
    <3>0. \/ UNCHANGED apps
          \/ apps' = {IF c.id = req[w].row.id THEN [c EXCEPT !.status = verdict] ELSE c : c \in apps}
      BY <2>4 DEF ReviewCommit
    <3>. HIDE DEF verdict
    <3>1. \E c \in apps : b = c \/ (c.id = req[w].row.id /\ b = [c EXCEPT !.status = verdict])
      BY <1>1, <3>0
    <3>2. req[w].row.id = a.id
      BY <1>1, <2>1, <3>1 DEF AppRows
    <3>. QED BY <2>4, <3>2
  <2>5. ASSUME NEW w \in Workers,
               \/ CreateCommit(w) \/ JoinCommit(w) \/ LeaveCommit(w) \/ KickCommit(w)
               \/ EditCommit(w)
        PROVE  apps' = apps
    BY <2>5 DEF CreateCommit, JoinCommit, LeaveCommit, KickCommit, DeleteMembership, EditCommit
  <2>. HIDE DEF ByReview
  <2>. QED BY <1>1, <2>1, <2>2, <2>3, <2>4, <2>5, TablesChange DEF tables
<1>2. TypeInv /\ LockInv /\ [Next]_vars =>
        [\A a \in apps, b \in apps' :
           a.id = b.id /\ a.status = "APPROVED" /\ b.status # "APPROVED" => ByReview(a)]_vars
  BY <1>1
<1>3. Init => LockInv
  BY DEF Init, LockInv
<1>4. TypeInv /\ LockInv /\ [Next]_vars => LockInv'
  BY LockStep
<1>. QED BY <1>2, <1>3, <1>4, TypeInvariance, PTL DEF Spec, ApprovalsStand
-----------------------------------------------------------------------------
(* The membership book.                                                    *)

\* Applications and approvals are about rooms whose ids have been given; who
\* creates a room is its owner, and a review goes on only for the owner of the
\* application's room.
Asking(r) ==
  /\ r.op = "create" => r.room.owner = r.user
  /\ r.op = "review" => r.row.room <= lastId["rooms"]
  /\ r.op = "review" /\ r.at # "room" =>
       \A s \in rooms : s.id = r.row.room => s.owner = r.user

KnownInv ==
  /\ \A a \in apps : a.room <= lastId["rooms"]
  /\ \A p \in approvals : p[1] <= lastId["rooms"]
  /\ \A w \in Workers : req[w] # Idle => Asking(req[w])

BookInv == IInv /\ KnownInv

\* Whatever moves the tables, a review that may go on still may.
LEMMA AskingStays ==
  ASSUME TypeInv, TypeInv', TablesMove
  PROVE  \A r : Shape(r) /\ Asking(r) => Asking(r)'
<1>. SUFFICES ASSUME NEW r, Shape(r), Asking(r) PROVE Asking(r)'
  OBVIOUS
<1>1. lastId["rooms"] \in Nat /\ lastId'["rooms"] \in Nat /\ lastId["rooms"] <= lastId'["rooms"]
  BY DEF Tables, TablesMove
<1>2. ASSUME r.op = "review" PROVE r.row.room \in Nat
  BY <1>2 DEF Shape, AppRows
<1>3. ASSUME r.op = "review", r.at # "room", NEW s \in rooms', s.id = r.row.room
      PROVE  s.owner = r.user
  <2>1. ~(s.id > lastId["rooms"])
    BY <1>1, <1>2, <1>3 DEF Asking
  <2>2. PICK q \in rooms : q.id = s.id /\ q.owner = s.owner
    BY <2>1 DEF TablesMove
  <2>. QED BY <1>3, <2>2 DEF Asking
<1>. QED BY <1>1, <1>2, <1>3 DEF Asking

\* So a step that gives one request such locals, or ends it, leaves all requests
\* with such locals.
LEMMA AllAsking ==
  ASSUME TypeInv, TypeInv', TablesMove, KnownInv, NEW w \in Workers,
         NEW r, r = Idle \/ Asking(r)', req' = [req EXCEPT ![w] = r]
  PROVE  \A v \in Workers : req'[v] # Idle => Asking(req[v])'
<1>. SUFFICES ASSUME NEW v \in Workers, req'[v] # Idle PROVE Asking(req[v])'
  OBVIOUS
<1>1. req \in [Workers -> Requests \cup {Idle}]
  BY DEF TypeInv
<1>2. CASE v = w
  BY <1>1, <1>2 DEF Asking
<1>3. CASE v # w
  <2>1. req'[v] = req[v]
    BY <1>1, <1>3
  <2>2. Shape(req[v]) /\ Asking(req[v])
    BY <2>1 DEF TypeInv, KnownInv
  <2>3. \A q : Shape(q) /\ Asking(q) => Asking(q)'
    BY AskingStays
  <2>. QED BY <2>1, <2>2, <2>3 DEF Asking
<1>. QED BY <1>2, <1>3

\* A call starts a request of an idle worker, with such locals.
LEMMA CallsAsk ==
  ASSUME BookInv, NEW w \in Workers, Call(w)
  PROVE  \/ UNCHANGED vars
         \/ /\ req[w] = Idle /\ UNCHANGED tables
            /\ \E r : Asking(r) /\ req' = [req EXCEPT ![w] = r]
<1>. DEFINE Starts == /\ req[w] = Idle /\ UNCHANGED tables
                      /\ \E r : Asking(r) /\ req' = [req EXCEPT ![w] = r]
<1>1. PICK u \in Users :
        \/ \E n \in Names, t \in RoomTypes : CreateCheck(w, u, n, t)
        \/ \E n \in Names : JoinLoadRoom(w, u, n) \/ LeaveLoadRoom(w, u, n)
                             \/ DeleteLoadRoom(w, u, n) \/ ApplyLoadRoom(w, u, n)
        \/ \E n \in Names, v \in Users : KickLoadRoom(w, u, n, v)
        \/ \E n, new \in Names : EditLoadRoom(w, u, n, new)
        \/ \E i \in 1 .. MaxId["apps"], approve \in BOOLEAN : ReviewLoadApp(w, u, i, approve)
  BY DEF Call
<1>2. ASSUME NEW n, NEW t, CreateCheck(w, u, n, t) PROVE UNCHANGED vars \/ Starts
  <2>1. Asking(Request("create", u, "commit", [id |-> 0, name |-> n, owner |-> u, type |-> t], u))
    BY DEF Asking, Request
  <2>. QED BY <1>2, <2>1 DEF CreateCheck, Begin, Free
<1>3. ASSUME NEW n, NEW v,
             \/ JoinLoadRoom(w, u, n) \/ LeaveLoadRoom(w, u, n)
             \/ DeleteLoadRoom(w, u, n) \/ ApplyLoadRoom(w, u, n)
             \/ KickLoadRoom(w, u, n, v)
      PROVE  UNCHANGED vars \/ Starts
  <2>1. ASSUME NEW op \in {"join", "leave", "kick", "delete", "apply"}, NEW at, NEW room, NEW target
        PROVE  Asking(Request(op, u, at, room, target))
    BY DEF Asking, Request
  <2>. QED BY <1>3, <2>1
           DEF JoinLoadRoom, LeaveLoadRoom, DeleteLoadRoom, ApplyLoadRoom, KickLoadRoom, Begin, Free
<1>4. ASSUME NEW n, NEW new, EditLoadRoom(w, u, n, new) PROVE UNCHANGED vars \/ Starts
  <2>1. \A r : Asking([Request("edit", u, "name", r, u) EXCEPT !.name = new])
    BY DEF Asking, Request
  <2>. QED BY <1>4, <2>1 DEF EditLoadRoom, Begin, Free
<1>5. ASSUME NEW i, NEW approve, ReviewLoadApp(w, u, i, approve) PROVE UNCHANGED vars \/ Starts
  <2>1. ASSUME NEW a \in apps
        PROVE  Asking([Request("review", u, "room", NoRow, a.user)
                         EXCEPT !.row = a, !.approve = approve])
    BY DEF Asking, Request, BookInv, KnownInv
  <2>. QED BY <1>5, <2>1 DEF ReviewLoadApp, Begin, Free
<1>. HIDE DEF Starts
<1>6. UNCHANGED vars \/ Starts
  BY <1>1, <1>2, <1>3, <1>4, <1>5
<1>. QED BY <1>6 DEF Starts

\* Two requests that agree on what was asked for.
LEMMA SameCall ==
  ASSUME NEW q, NEW r, r.op = q.op, r.user = q.user, r.target = q.target, r.name = q.name,
         IF q.op = "review" THEN r.row = q.row /\ r.approve = q.approve ELSE r.room = q.room
  PROVE  AskedFor(r) = AskedFor(q)
BY DEF AskedFor

\* A read changes nothing of what was asked for, or ends the request.
LEMMA ReadsGoOn ==
  ASSUME BookInv, NEW w \in Workers,
         \/ JoinCheckMember(w) \/ JoinCheckStatus(w) \/ JoinRefuse(w)
         \/ LeaveLoadMembership(w) \/ KickLoadMembership(w)
         \/ DeleteLoadApps(w) \/ EditCheckName(w)
         \/ ApplyCheckMember(w) \/ ApplyLoadApp(w)
         \/ ReviewLoadRoom(w) \/ ReviewCheckMember(w)
  PROVE  /\ UNCHANGED tables
         /\ \/ Finish(w)
            \/ \E r : /\ Asking(r) /\ AskedFor(r) = AskedFor(req[w])
                      /\ req' = [req EXCEPT ![w] = r]
<1>1. UNCHANGED tables
  BY DEF JoinCheckMember, JoinCheckStatus, JoinRefuse, Answer, LeaveLoadMembership,
         KickLoadMembership, LoadMembership, DeleteLoadApps, EditCheckName, ApplyCheckMember,
         ApplyLoadApp, ReviewLoadRoom, ReviewCheckMember
<1>. DEFINE GoesOn == \E r : /\ Asking(r) /\ AskedFor(r) = AskedFor(req[w])
                             /\ req' = [req EXCEPT ![w] = r]
<1>2. /\ req \in [Workers -> Requests \cup {Idle}] /\ TypeInv /\ KnownInv
      /\ \A r, s \in rooms : r.id = s.id => r = s
  BY DEF BookInv, IInv, TypeInv, RoomsOK
<1>3. req[w] \in Requests /\ Asking(req[w])
  BY <1>2, UnderWay
  DEF JoinCheckMember, JoinCheckStatus, JoinRefuse, LeaveLoadMembership,
      KickLoadMembership, LoadMembership, DeleteLoadApps, EditCheckName, ApplyCheckMember,
      ApplyLoadApp, ReviewLoadRoom, ReviewCheckMember, At, KnownInv
<1>4. ASSUME NEW at, Goto(w, at), req[w].op = "review" => req[w].at # "room" PROVE GoesOn
  <2>. DEFINE r == [req[w] EXCEPT !.at = at]
  <2>1. req' = [req EXCEPT ![w] = r]
    BY <1>4 DEF Goto
  <2>2. /\ r.op = req[w].op /\ r.user = req[w].user /\ r.target = req[w].target
        /\ r.name = req[w].name /\ r.room = req[w].room /\ r.row = req[w].row
        /\ r.approve = req[w].approve
    BY <1>3 DEF Requests
  <2>. HIDE DEF r
  <2>3. Asking(r)
    BY <1>3, <1>4, <2>2 DEF Asking
  <2>. QED BY <2>1, <2>2, <2>3, SameCall
<1>5. ASSUME NEW at, NEW row, NEW pending, req[w].op \notin {"create", "review"},
             \/ req' = [req EXCEPT ![w].at = at, ![w].row = row]
             \/ req' = [req EXCEPT ![w].at = at, ![w].pending = pending]
             \/ req' = [req EXCEPT ![w].at = at, ![w].row = row, ![w].pending = pending]
      PROVE  GoesOn
  <2>1. PICK r \in { [req[w] EXCEPT !.at = at, !.row = row],
                     [req[w] EXCEPT !.at = at, !.pending = pending],
                     [req[w] EXCEPT !.at = at, !.row = row, !.pending = pending] } :
           req' = [req EXCEPT ![w] = r]
    BY <1>2, <1>5
  <2>2. /\ r.op = req[w].op /\ r.user = req[w].user /\ r.target = req[w].target
        /\ r.name = req[w].name /\ r.room = req[w].room
    BY <1>3, <2>1 DEF Requests
  <2>3. Asking(r)
    BY <1>5, <2>2 DEF Asking
  <2>. QED BY <1>5, <2>1, <2>2, <2>3, SameCall
<1>6. ASSUME ReviewLoadRoom(w) PROVE Finish(w) \/ GoesOn
  <2>1. ASSUME NEW s \in RoomWithId(req[w].row.room), IsOwner(s, req[w].user), NEW at,
               req' = [req EXCEPT ![w].room = s, ![w].at = at]
        PROVE  GoesOn
    <3>. DEFINE r == [req[w] EXCEPT !.room = s, !.at = at]
    <3>1. req' = [req EXCEPT ![w] = r]
      BY <1>2, <2>1
    <3>2. /\ r.op = req[w].op /\ r.user = req[w].user /\ r.target = req[w].target
          /\ r.name = req[w].name /\ r.row = req[w].row /\ r.approve = req[w].approve
      BY <1>3 DEF Requests
    <3>3. req[w].op = "review"
      BY <1>6 DEF ReviewLoadRoom, At
    <3>. HIDE DEF r
    <3>4. Asking(r)
      BY <1>2, <1>3, <2>1, <3>2, <3>3 DEF Asking, RoomWithId, IsOwner
    <3>. QED BY <3>1, <3>2, <3>3, <3>4, SameCall
  <2>. HIDE DEF GoesOn
  <2>. QED BY <1>6, <2>1 DEF ReviewLoadRoom, MayReview
<1>. HIDE DEF GoesOn
<1>7. ASSUME NEW op \in {"leave", "kick"}, LoadMembership(w, op) PROVE Finish(w) \/ GoesOn
  BY <1>5, <1>7 DEF LoadMembership, At
<1>8. ASSUME DeleteLoadApps(w) \/ ApplyLoadApp(w) PROVE Finish(w) \/ GoesOn
  <2>. DEFINE p == Ids({a \in apps : a.room = req[w].room.id})
              q == Ids(Applications(req[w].room.id, req[w].user))
  <2>1. /\ req[w].op \in {"delete", "apply"}
        /\ \/ Finish(w) \/ Goto(w, "commit")
           \/ req' = [req EXCEPT ![w].at = "commit", ![w].pending = p]
           \/ \E a : req' = [req EXCEPT ![w].at = "commit", ![w].row = a, ![w].pending = q]
    BY <1>8 DEF DeleteLoadApps, ApplyLoadApp, At
  <2>. HIDE DEF p, q
  <2>2. CASE Goto(w, "commit")
    BY <1>4, <2>1, <2>2
  <2>3. CASE req' = [req EXCEPT ![w].at = "commit", ![w].pending = p]
    BY <1>5, <2>1, <2>3
  <2>4. ASSUME NEW a, req' = [req EXCEPT ![w].at = "commit", ![w].row = a, ![w].pending = q]
        PROVE  GoesOn
    BY <1>5, <2>1, <2>4
  <2>. QED BY <2>1, <2>2, <2>3, <2>4
<1>9. ASSUME \/ JoinCheckMember(w) \/ JoinCheckStatus(w) \/ JoinRefuse(w)
             \/ EditCheckName(w) \/ ApplyCheckMember(w) \/ ReviewCheckMember(w)
      PROVE  Finish(w) \/ GoesOn
  BY <1>4, <1>9 DEF JoinCheckMember, JoinCheckStatus, JoinRefuse, Answer, EditCheckName,
                    ApplyCheckMember, ReviewCheckMember, At
<1>10. Finish(w) \/ GoesOn
  BY <1>6, <1>7, <1>8, <1>9 DEF LeaveLoadMembership, KickLoadMembership
<1>. QED BY <1>1, <1>10 DEF GoesOn

\* Every step keeps what is known.
LEMMA KnownStep ==
  ASSUME BookInv, Postgres, [Next]_vars
  PROVE  KnownInv'
<1>1. /\ TypeInv /\ TypeInv' /\ KnownInv /\ TablesMove
      /\ req \in [Workers -> Requests \cup {Idle}]
  BY TypeStep, StepMoves DEF BookInv, IInv, TypeInv
<1>2. CASE UNCHANGED vars
  BY <1>1, <1>2 DEF KnownInv, Asking, vars
<1>3. ASSUME UNCHANGED tables, NEW w \in Workers, NEW r, r = Idle \/ Asking(r),
             req' = [req EXCEPT ![w] = r]
      PROVE  KnownInv'
  <2>1. r = Idle \/ Asking(r)'
    BY <1>3 DEF Asking, tables
  <2>2. \A v \in Workers : req'[v] # Idle => Asking(req[v])'
    BY <1>1, <1>3, <2>1, AllAsking
  <2>. QED BY <1>1, <1>3, <2>2 DEF KnownInv, tables
<1>4. ASSUME NEW w \in Workers, Call(w) PROVE KnownInv'
  BY <1>2, <1>3, <1>4, CallsAsk
<1>5. ASSUME NEW w \in Workers,
             \/ JoinCheckMember(w) \/ JoinCheckStatus(w) \/ JoinRefuse(w)
             \/ LeaveLoadMembership(w) \/ KickLoadMembership(w)
             \/ DeleteLoadApps(w) \/ EditCheckName(w)
             \/ ApplyCheckMember(w) \/ ApplyLoadApp(w)
             \/ ReviewLoadRoom(w) \/ ReviewCheckMember(w)
      PROVE  KnownInv'
  <2>1. UNCHANGED tables /\ (Finish(w) \/ \E r : Asking(r) /\ req' = [req EXCEPT ![w] = r])
    BY <1>5, ReadsGoOn
  <2>. QED BY <1>3, <2>1 DEF Finish
<1>6. ASSUME NEW w \in Workers,
             \/ CreateCommit(w) \/ JoinCommit(w) \/ LeaveCommit(w) \/ KickCommit(w)
             \/ DeleteCommit(w) \/ EditCommit(w) \/ ApplyCommit(w) \/ ReviewCommit(w)
      PROVE  KnownInv'
  <2>1. Finish(w)
    BY <1>6 DEF CreateCommit, JoinCommit, LeaveCommit, KickCommit, DeleteMembership,
                DeleteCommit, EditCommit, ApplyCommit, ReviewCommit
  <2>2. \A v \in Workers : req'[v] # Idle => Asking(req[v])'
    BY <1>1, <2>1, AllAsking DEF Finish
  <2>3. /\ lastId["rooms"] \in Nat /\ lastId'["rooms"] \in Nat
        /\ lastId["rooms"] <= lastId'["rooms"]
    BY <1>1 DEF TablesMove, Tables
  <2>4. ASSUME NEW b \in apps' PROVE b.room <= lastId'["rooms"]
    <3>1. CASE \E a \in apps : b.room \in {a.room, NoRoom}
      <4>1. \A a \in apps : a.room \in Nat /\ a.room <= lastId["rooms"]
        BY <1>1 DEF KnownInv, TypeInv, AppsOK, AppRows
      <4>. QED BY <2>3, <3>1, <4>1 DEF NoRoom
    <3>2. CASE ApplyCommit(w)
      <4>1. b.room = req[w].room.id \/ \E a \in apps : b \in {a, [a EXCEPT !.status = "PENDING"]}
        BY <3>2 DEF ApplyCommit
      <4>2. apps \subseteq AppRows
        BY <1>1 DEF TypeInv, AppsOK
      <4>3. CASE \E a \in apps : b.room = a.room
        BY <3>1, <4>3
      <4>4. CASE b.room = req[w].room.id
        <5>1. req[w] # Idle /\ req[w].op = "apply" /\ Shape(req[w])
          BY <1>1, <3>2, UnderWay DEF ApplyCommit, At
        <5>2. LoadedRoom(req[w])
          BY <5>1 DEF BookInv, IInv, LoadedInv, Loaded
        <5>. QED BY <2>3, <4>4, <5>1, <5>2 DEF LoadedRoom, Shape, RoomRows
      <4>. QED BY <4>1, <4>2, <4>3, <4>4 DEF AppRows
    <3>3. ~ApplyCommit(w) => \A c \in apps' : \E a \in apps : c.room \in {a.room, NoRoom}
      <4>1. apps \subseteq AppRows
        BY <1>1 DEF TypeInv, AppsOK
      <4>2. \A a \in apps : \A c : \A status :
              c \in {a, [a EXCEPT !.room = NoRoom], [a EXCEPT !.status = status]} =>
                c.room \in {a.room, NoRoom}
        BY <4>1 DEF AppRows
      <4>3. CASE DeleteCommit(w)
        BY <4>2, <4>3 DEF DeleteCommit
      <4>4. CASE ReviewCommit(w)
        BY <4>2, <4>4 DEF ReviewCommit
      <4>5. CASE \/ CreateCommit(w) \/ JoinCommit(w) \/ LeaveCommit(w) \/ KickCommit(w)
                 \/ EditCommit(w)
        BY <4>5 DEF CreateCommit, JoinCommit, LeaveCommit, KickCommit, DeleteMembership, EditCommit
      <4>. QED BY <1>6, <4>3, <4>4, <4>5
    <3>. QED BY <3>1, <3>2, <3>3
  <2>5. ASSUME NEW p \in approvals' PROVE p[1] <= lastId'["rooms"]
    <3>1. CASE p \in approvals
      <4>1. p[1] \in Nat /\ p[1] <= lastId["rooms"]
        BY <1>1, <3>1 DEF KnownInv, TypeInv
      <4>. QED BY <2>3, <4>1
    <3>2. CASE ReviewCommit(w) /\ p = <<req[w].row.room, req[w].target>>
      <4>1. Asking(req[w]) /\ req[w].op = "review" /\ Shape(req[w])
        BY <1>1, <3>2, UnderWay DEF ReviewCommit, At, KnownInv
      <4>. QED BY <2>3, <3>2, <4>1 DEF Asking, Shape, AppRows
    <3>3. ReviewCommit(w) => p \in approvals \/ p = <<req[w].row.room, req[w].target>>
      BY DEF ReviewCommit
    <3>4. ~ReviewCommit(w) => UNCHANGED approvals
      BY <1>6 DEF CreateCommit, JoinCommit, LeaveCommit, KickCommit, DeleteMembership,
                  DeleteCommit, EditCommit, ApplyCommit
    <3>. QED BY <3>1, <3>2, <3>3, <3>4
  <2>. QED BY <2>2, <2>4, <2>5 DEF KnownInv
<1>. QED BY <1>2, <1>4, <1>5, <1>6 DEF Next, Step

\* What a request asks for is a call of the book, or none.
LEMMA CallsTyped ==
  ASSUME NEW r, Shape(r)
  PROVE  AskedFor(r) \in Book!Calls \cup {Book!NoCall}
<1>1. r \in Requests
  BY DEF Shape
<1>2. CASE r.op = "create"
  BY <1>1, <1>2 DEF AskedFor, Shape, Requests, RoomRows, Book!Calls
<1>3. CASE r.op \in {"join", "leave", "delete"}
  BY <1>1, <1>3 DEF AskedFor, Shape, Requests, RoomRows, Book!Calls
<1>4. CASE r.op = "kick"
  BY <1>1, <1>4 DEF AskedFor, Shape, Requests, RoomRows, Book!Calls
<1>5. CASE r.op = "edit"
  BY <1>1, <1>5 DEF AskedFor, Shape, Requests, RoomRows, Book!Calls
<1>6. CASE r.op = "review" /\ r.approve
  BY <1>1, <1>6 DEF AskedFor, Shape, Requests, AppRows, Book!Calls
<1>7. CASE r.op = "apply" \/ (r.op = "review" /\ ~r.approve)
  BY <1>1, <1>7 DEF AskedFor, Book!NoCall
<1>. QED BY <1>1, <1>2, <1>3, <1>4, <1>5, <1>6, <1>7 DEF Requests

\* How the calls of the book move with the locals of one request.
LEMMA AskedMoves ==
  ASSUME TypeInv, NEW w \in Workers, NEW r, req' = [req EXCEPT ![w] = r]
  PROVE  /\ Asked' = [Asked EXCEPT ![w] = AskedFor(r)]
         /\ Asked[w] = AskedFor(req[w])
<1>1. req \in [Workers -> Requests \cup {Idle}]
  BY DEF TypeInv
<1>2. \A v \in Workers : req'[v] = IF v = w THEN r ELSE req[v]
  BY <1>1
<1>3. Asked' = [v \in Workers |-> AskedFor(req'[v])]
  BY DEF Asked, AskedFor
<1>4. \A v \in Workers : AskedFor(req'[v]) = IF v = w THEN AskedFor(r) ELSE AskedFor(req[v])
  BY <1>2
<1>5. Asked = [v \in Workers |-> AskedFor(req[v])]
  BY DEF Asked
<1>. HIDE DEF Asked
<1>. QED BY <1>3, <1>4, <1>5

\* An idle worker asks for nothing.
LEMMA IdleAsksNothing == AskedFor(Idle) = Book!NoCall
BY DEF AskedFor, Idle, Book!NoCall

BookStep == [Book!Next]_(Book!book)

\* A step that changes nothing the book holds is one of the book: a request has
\* been made, or refused, or goes on.
LEMMA NothingHappens ==
  ASSUME TypeInv, TypeInv', NEW w \in Workers, NEW r, req' = [req EXCEPT ![w] = r], Book!Nothing,
         req[w] = Idle \/ AskedFor(r) \in {AskedFor(req[w]), Book!NoCall}
  PROVE  BookStep
<1>1. /\ Asked' = [Asked EXCEPT ![w] = AskedFor(r)] /\ Asked[w] = AskedFor(req[w])
      /\ Asked = [v \in Workers |-> Asked[v]]
  BY AskedMoves DEF Asked
<1>2. UNCHANGED <<rooms, Inside, Approved, lastId["rooms"]>>
  BY DEF Book!Nothing
<1>3. CASE AskedFor(r) = Asked[w]
  <2>1. Asked' = Asked
    BY <1>1, <1>3
  <2>. QED BY <1>2, <2>1 DEF BookStep, Book!book
<1>4. CASE AskedFor(r) # Asked[w] /\ AskedFor(r) = Book!NoCall
  <2>1. Book!Answer(w)
    BY <1>1, <1>4 DEF Book!Answer, Book!Nothing
  <2>. QED BY <2>1 DEF BookStep, Book!Next
<1>5. CASE AskedFor(r) # Asked[w] /\ req[w] = Idle
  <2>1. r = Idle \/ Shape(r)
    <3>1. req'[w] = r
      BY DEF TypeInv
    <3>. QED BY <3>1 DEF TypeInv
  <2>2. AskedFor(r) \in Book!Calls
    BY <1>1, <1>5, <2>1, CallsTyped, IdleAsksNothing
  <2>3. Asked[w] = Book!NoCall /\ Asked'[w] = AskedFor(r)
    BY <1>1, <1>5, IdleAsksNothing
  <2>4. Book!Ask(w)
    BY <1>1, <1>2, <2>2, <2>3 DEF Book!Ask
  <2>. QED BY <2>4 DEF BookStep, Book!Next
<1>. QED BY <1>1, <1>3, <1>4, <1>5

\* A commit that has one of the effects a call may have is that call's answer.
LEMMA SomethingHappens ==
  ASSUME TypeInv, NEW w \in Workers, Finish(w), Asked[w] # Book!NoCall,
         \/ Book!Create(w) \/ Book!Join(w) \/ Book!Leave(w) \/ Book!Kick(w)
         \/ Book!Delete(w) \/ Book!Rename(w) \/ Book!Approve(w)
  PROVE  BookStep
<1>1. Asked' = [Asked EXCEPT ![w] = Book!NoCall]
  BY AskedMoves, IdleAsksNothing DEF Finish
<1>2. Book!Answer(w)
  BY <1>1 DEF Book!Answer
<1>. QED BY <1>2 DEF BookStep, Book!Next

\* A request that ends without effect is refused.
LEMMA Refused ==
  ASSUME TypeInv, TypeInv', NEW w \in Workers, Finish(w), Book!Nothing
  PROVE  BookStep
BY NothingHappens, IdleAsksNothing DEF Finish

\* The approvals of rooms that neither come nor go stay.
LEMMA ApprovedStays ==
  ASSUME UNCHANGED approvals,
         \A p \in approvals : RoomWithId(p[1]) # {} <=> RoomWithId(p[1])' # {}
  PROVE  Approved' = Approved
BY DEF Approved, RoomWithId

LEMMA BookUntouched ==
  ASSUME UNCHANGED tables
  PROVE  Book!Nothing
BY DEF tables, Book!Nothing, Inside, Approved, RoomWithId

\* create_room, as a step of the book.
LEMMA CreateInBook ==
  ASSUME BookInv, TypeInv', Postgres, NEW w \in Workers, CreateCommit(w)
  PROVE  BookStep
<1>. DEFINE room == [req[w].room EXCEPT !.id = NewId("rooms", rooms)]
            call == AskedFor(req[w])
<1>1. TypeInv /\ Finish(w) /\ UNCHANGED <<apps, approvals>> /\ At(w, "create", "commit")
  BY DEF BookInv, IInv, CreateCommit
<1>2. Shape(req[w]) /\ req[w] # Idle /\ req[w].room \in RoomRows /\ req[w].room.owner = req[w].user
  BY <1>1, UnderWay DEF At, Shape, BookInv, KnownInv, Asking
<1>3. CASE UNCHANGED <<rooms, members, lastId>>
  BY <1>1, <1>3, BookUntouched, Refused DEF tables
<1>4. CASE /\ RoomNamed(room.name) = {}
           /\ rooms' = rooms \cup {room}
           /\ members' = members \cup OwnerMembership(room.id, room.owner)
           /\ lastId' = HandOut({"rooms", "members"})
  <2>1. NewId("rooms", rooms) = lastId["rooms"] + 1 /\ lastId["rooms"] \in Nat
    BY <1>1, NewIdAbove DEF Tables
  <2>2. /\ Asked[w] = call /\ call.op = "create" /\ call.user = req[w].user
        /\ call.name = req[w].room.name /\ call.type = req[w].room.type
    BY <1>1, AskedMoves DEF Finish, At, AskedFor
  <2>3. room = [id |-> lastId["rooms"] + 1, name |-> call.name, owner |-> call.user,
                type |-> call.type]
    BY <1>2, <2>1, <2>2 DEF RoomRows
  <2>. HIDE DEF room, call
  <2>4. room.id = lastId["rooms"] + 1 /\ room.name = call.name /\ room.owner = call.user
    BY <2>3
  <2>5. lastId'["rooms"] = lastId["rooms"] + 1
    BY <1>1, <1>4 DEF HandOut, TypeInv, Tables, Postgres
  <2>6. Inside' = Inside \cup {<<lastId["rooms"] + 1, call.user>>}
    <3>. DEFINE m == NewMember(room.id, room.owner)
    <3>1. members' = members \cup {m}
      BY <1>4 DEF OwnerMembership
    <3>2. m.room = room.id /\ m.user = room.owner
      BY DEF NewMember
    <3>. HIDE DEF m
    <3>. QED BY <2>4, <3>1, <3>2 DEF Inside
  <2>7. Approved' = Approved
    <3>1. \A p \in approvals : p[1] \in Nat /\ p[1] <= lastId["rooms"]
      BY <1>1 DEF TypeInv, BookInv, KnownInv
    <3>2. \A p \in approvals : p[1] # room.id
      BY <2>1, <2>4, <3>1
    <3>3. \A p \in approvals : RoomWithId(p[1]) # {} <=> RoomWithId(p[1])' # {}
      BY <1>4, <3>2 DEF RoomWithId
    <3>. QED BY <1>1, <3>3, ApprovedStays
  <2>8. ~Book!NameTaken(call.name)
    BY <1>4, <2>4 DEF Book!NameTaken, RoomNamed
  <2>9. Book!Create(w)
    BY <1>4, <2>2, <2>3, <2>5, <2>6, <2>7, <2>8 DEF Book!Create
  <2>10. Asked[w] # Book!NoCall
    BY <2>2 DEF Book!NoCall
  <2>. QED BY <1>1, <2>9, <2>10, SomethingHappens
<1>. QED BY <1>3, <1>4 DEF CreateCommit

\* What a new membership means to the book.
LEMMA InsideGrows ==
  ASSUME NEW i, NEW u, InsertMember(i, u)
  PROVE  Inside' = Inside \cup {<<i, u>>}
<1>. DEFINE m == NewMember(i, u)
<1>1. members' = members \cup {m}
  BY DEF InsertMember
<1>2. m.room = i /\ m.user = u
  BY DEF NewMember
<1>. HIDE DEF m
<1>. QED BY <1>1, <1>2 DEF Inside

\* Only the sequence of the table of members moves with a new membership.
LEMMA RoomIdsKept ==
  ASSUME TypeInv, NEW ts \in SUBSET {"members", "apps"}, lastId' = HandOut(ts)
  PROVE  lastId'["rooms"] = lastId["rooms"]
BY DEF HandOut, TypeInv, Tables

\* A request that loaded a room is about that room: where it is still there, it
\* has the loaded owner and type.
LEMMA LoadedInBook ==
  ASSUME BookInv, NEW w \in Workers, req[w].op \in {"join", "leave", "kick", "delete", "edit"}
  PROVE  /\ TypeInv /\ Loaded(req[w]) /\ Shape(req[w]) /\ LoadedRoom(req[w]) /\ req[w] # Idle
         /\ AskedFor(req[w]) = Asked[w] /\ Asked[w] # Book!NoCall
         /\ Asked[w].room = req[w].room.id /\ Asked[w].user = req[w].user
         /\ Asked[w].op = IF req[w].op = "edit" THEN "rename" ELSE req[w].op
         /\ req[w].op = "kick" => Asked[w].target = req[w].target
         /\ req[w].op = "edit" => Asked[w].name = req[w].name
<1>1. TypeInv /\ Shape(req[w]) /\ req[w] # Idle
  BY UnderWay DEF BookInv, IInv
<1>2. Loaded(req[w]) /\ LoadedRoom(req[w])
  BY <1>1 DEF BookInv, IInv, LoadedInv, Loaded
<1>3. Asked[w] = AskedFor(req[w])
  BY DEF Asked
<1>4. /\ AskedFor(req[w]).room = req[w].room.id /\ AskedFor(req[w]).user = req[w].user
      /\ AskedFor(req[w]).op = IF req[w].op = "edit" THEN "rename" ELSE req[w].op
      /\ req[w].op = "kick" => AskedFor(req[w]).target = req[w].target
      /\ req[w].op = "edit" => AskedFor(req[w]).name = req[w].name
  BY DEF AskedFor
<1>5. AskedFor(req[w]) # Book!NoCall
  BY <1>4 DEF Book!NoCall
<1>. QED BY <1>1, <1>2, <1>3, <1>4, <1>5

\* join_room, as a step of the book.
LEMMA JoinInBook ==
  ASSUME BookInv, TypeInv', Postgres, NEW w \in Workers, JoinCommit(w)
  PROVE  BookStep
<1>. DEFINE i == req[w].room.id
            u == req[w].user
<1>1. Finish(w) /\ UNCHANGED <<rooms, apps, approvals>> /\ At(w, "join", "commit")
  BY DEF JoinCommit
<1>2. /\ TypeInv /\ LoadedRoom(req[w]) /\ Asked[w] # Book!NoCall
      /\ Asked[w].room = i /\ Asked[w].user = u /\ Asked[w].op = "join"
  BY <1>1, LoadedInBook DEF At
<1>3. CASE UNCHANGED <<members, lastId>>
  BY <1>1, <1>2, <1>3, BookUntouched, Refused DEF tables
<1>4. CASE MayInsertMember(i, u) /\ InsertMember(i, u)
  <2>1. PICK r \in rooms : r.id = i
    BY <1>4 DEF MayInsertMember, RoomIdValid, ForeignKeys, Postgres, RoomWithId
  <2>2. r.type = "PRIVATE" => <<i, u>> \in approvals
    BY <1>1, <1>2, <2>1 DEF LoadedRoom, At
  <2>3. r.type = "PRIVATE" => <<i, u>> \in Approved
    BY <2>1, <2>2 DEF Approved, RoomWithId
  <2>4. <<i, u>> \notin Inside
    BY <1>4 DEF MayInsertMember, Membership, Inside
  <2>5. Inside' = Inside \cup {<<i, u>>}
    BY <1>4, InsideGrows
  <2>6. lastId'["rooms"] = lastId["rooms"]
    BY <1>2, <1>4, RoomIdsKept DEF InsertMember
  <2>7. Approved' = Approved
    BY <1>1, ApprovedStays DEF RoomWithId
  <2>8. Book!Join(w)
    BY <1>1, <1>2, <2>1, <2>3, <2>4, <2>5, <2>6, <2>7 DEF Book!Join
  <2>. QED BY <1>1, <1>2, <2>8, SomethingHappens
<1>. QED BY <1>3, <1>4 DEF JoinCommit

\* leave_room and kick_member, as steps of the book: the row found gone, nothing
\* happens, and otherwise the room is there and the caller may remove the user.
LEMMA RemoveInBook ==
  ASSUME BookInv, TypeInv', Postgres, NEW w \in Workers, LeaveCommit(w) \/ KickCommit(w)
  PROVE  BookStep
<1>. DEFINE i == req[w].room.id
            u == req[w].target
            row == req[w].row
<1>1. /\ Finish(w) /\ UNCHANGED <<rooms, apps, lastId, approvals>>
      /\ members' = {m \in members : m.id # row.id}
      /\ req[w].op \in {"leave", "kick"} /\ req[w].at = "commit"
      /\ LeaveCommit(w) => req[w].op = "leave"
      /\ KickCommit(w) => req[w].op = "kick"
  BY DEF LeaveCommit, KickCommit, DeleteMembership, At
<1>2. /\ TypeInv /\ Loaded(req[w]) /\ LoadedRoom(req[w]) /\ Asked[w] # Book!NoCall
      /\ Asked[w].room = i /\ Asked[w].user = req[w].user /\ Asked[w].op = req[w].op
      /\ req[w].op = "kick" => Asked[w].target = u
  BY <1>1, LoadedInBook
<1>3. Approved' = Approved
  BY <1>1, ApprovedStays DEF RoomWithId
<1>4. CASE members' = members
  BY <1>1, <1>2, <1>4, BookUntouched, Refused DEF tables
<1>5. CASE members' # members
  <2>1. PICK m \in members : m.id = row.id
    BY <1>1, <1>5
  <2>2. m = row /\ row.room = i /\ row.user = u
    BY <1>1, <1>2, <2>1 DEF Loaded, LoadedMember
  <2>3. \A k \in members : k.id = row.id <=> (k.room = i /\ k.user = u)
    BY <1>2, <2>1, <2>2 DEF TypeInv, MembersOK
  <2>4. Inside' = Inside \ {<<i, u>>}
    BY <1>1, <2>3 DEF Inside
  <2>5. PICK r \in rooms : r.id = i
    BY <2>1, <2>2 DEF BookInv, IInv, MembersHaveRooms, RoomWithId
  <2>6. CASE req[w].op = "leave"
    <3>1. u = req[w].user
      BY <1>2, <2>6 DEF LoadedRoom
    <3>2. Book!Leave(w)
      BY <1>1, <1>2, <1>3, <2>4, <2>6, <3>1 DEF Book!Leave
    <3>. QED BY <1>1, <1>2, <3>2, SomethingHappens
  <2>7. CASE req[w].op = "kick"
    <3>1. r \in Book!Own(w)
      BY <1>2, <2>5, <2>7 DEF LoadedRoom, Book!Own
    <3>2. Book!Kick(w)
      BY <1>1, <1>2, <1>3, <2>4, <2>7, <3>1 DEF Book!Kick
    <3>. QED BY <1>1, <1>2, <3>2, SomethingHappens
  <2>. QED BY <1>1, <2>6, <2>7
<1>. QED BY <1>4, <1>5

\* The rooms a request may change, as the book finds them.
LEMMA OwnRooms ==
  ASSUME BookInv, NEW w \in Workers, req[w].op \in {"delete", "edit"}
  PROVE  Book!Own(w) = RoomWithId(req[w].room.id)
<1>1. /\ LoadedRoom(req[w]) /\ Asked[w].room = req[w].room.id /\ Asked[w].user = req[w].user
  BY LoadedInBook
<1>. QED BY <1>1 DEF Book!Own, RoomWithId, LoadedRoom

\* delete_room_entry, as a step of the book.
LEMMA DeleteInBook ==
  ASSUME BookInv, TypeInv', Postgres, NEW w \in Workers, DeleteCommit(w)
  PROVE  BookStep
<1>. DEFINE i == req[w].room.id
<1>1. /\ Finish(w) /\ UNCHANGED <<lastId, approvals>> /\ req[w].op = "delete"
      /\ rooms' = {r \in rooms : r.id # i}
      /\ members' = {m \in members : m.room # i}
  BY DEF DeleteCommit, At, ForeignKeys, Postgres
<1>2. /\ TypeInv /\ Asked[w] # Book!NoCall /\ Asked[w].room = i /\ Asked[w].op = "delete"
      /\ Book!Own(w) = RoomWithId(i)
  BY <1>1, LoadedInBook, OwnRooms
<1>3. CASE RoomWithId(i) = {}
  <2>1. rooms' = rooms /\ members' = members
    BY <1>1, <1>3 DEF RoomWithId, BookInv, IInv, MembersHaveRooms
  <2>2. Inside' = Inside /\ Approved' = Approved
    BY <1>1, <2>1, ApprovedStays DEF Inside, RoomWithId
  <2>3. Book!Nothing
    BY <1>1, <2>1, <2>2 DEF Book!Nothing
  <2>. QED BY <1>1, <1>2, <2>3, Refused
<1>4. CASE RoomWithId(i) # {}
  <2>1. rooms' = rooms \ Book!Own(w)
    BY <1>1, <1>2 DEF RoomWithId
  <2>2. Inside' = {p \in Inside : p[1] # i}
    BY <1>1 DEF Inside
  <2>3. Approved' = {p \in Approved : p[1] # i}
    BY <1>1 DEF Approved, RoomWithId
  <2>4. Book!Delete(w)
    BY <1>1, <1>2, <1>4, <2>1, <2>2, <2>3 DEF Book!Delete
  <2>. QED BY <1>1, <1>2, <2>4, SomethingHappens
<1>. QED BY <1>3, <1>4

\* edit_room_entry, as a step of the book.
LEMMA RenameInBook ==
  ASSUME BookInv, TypeInv', Postgres, NEW w \in Workers, EditCommit(w)
  PROVE  BookStep
<1>. DEFINE i == req[w].room.id
            new == req[w].name
<1>1. /\ Finish(w) /\ UNCHANGED <<members, apps, lastId, approvals>> /\ req[w].op = "edit"
      /\ \/ UNCHANGED rooms
         \/ /\ RoomWithId(i) # {} /\ RoomNamed(new) \subseteq RoomWithId(i)
            /\ rooms' = {IF r.id = i THEN [r EXCEPT !.name = new] ELSE r : r \in rooms}
  BY DEF EditCommit, At
<1>2. /\ TypeInv /\ Asked[w] # Book!NoCall /\ Asked[w].op = "rename" /\ Asked[w].name = new
      /\ Book!Own(w) = RoomWithId(i) /\ rooms \subseteq RoomRows
  BY <1>1, LoadedInBook, OwnRooms DEF TypeInv, RoomsOK
<1>3. CASE UNCHANGED rooms
  BY <1>1, <1>2, <1>3, BookUntouched, Refused DEF tables
<1>4. CASE rooms' # rooms
  <2>1. PICK r \in rooms : r.id = i
    BY <1>1, <1>4 DEF RoomWithId
  <2>2. \A q \in rooms : q.id = i => q = r
    BY <1>2, <2>1 DEF TypeInv, RoomsOK
  <2>3. RoomNamed(new) = {}
    <3>1. SUFFICES ASSUME NEW q \in rooms, q.name = new PROVE FALSE
      BY DEF RoomNamed
    <3>2. q = r
      BY <1>1, <1>4, <2>2, <3>1 DEF RoomNamed, RoomWithId
    <3>3. [r EXCEPT !.name = new] = r
      BY <1>2, <3>1, <3>2 DEF RoomRows
    <3>4. \A p \in rooms : (IF p.id = i THEN [p EXCEPT !.name = new] ELSE p) = p
      BY <2>2, <3>3
    <3>. QED BY <1>1, <1>4, <3>4
  <2>4. ~Book!NameTaken(new)
    BY <2>3 DEF Book!NameTaken, RoomNamed
  <2>5. rooms' = {IF q \in Book!Own(w) THEN [q EXCEPT !.name = new] ELSE q : q \in rooms}
    <3>1. \A q \in rooms : q.id = i <=> q \in Book!Own(w)
      BY <1>2 DEF RoomWithId
    <3>2. \A q \in rooms : (IF q.id = i THEN [q EXCEPT !.name = new] ELSE q)
                        = (IF q \in Book!Own(w) THEN [q EXCEPT !.name = new] ELSE q)
      BY <3>1
    <3>3. rooms' = {IF q.id = i THEN [q EXCEPT !.name = new] ELSE q : q \in rooms}
      BY <1>1, <1>4
    <3>. DEFINE there(q) == IF q.id = i THEN [q EXCEPT !.name = new] ELSE q
                here(q) == IF q \in Book!Own(w) THEN [q EXCEPT !.name = new] ELSE q
    <3>4. \A x : x \in rooms' <=> \E q \in rooms : x = there(q)
      BY <3>3
    <3>5. \A q \in rooms : there(q) = here(q)
      BY <3>2
    <3>. HIDE DEF there, here
    <3>6. rooms' = {here(q) : q \in rooms}
      BY <3>4, <3>5
    <3>. QED BY <3>6 DEF here
  <2>6. Inside' = Inside
    BY <1>1 DEF Inside
  <2>7. Approved' = Approved
    <3>1. \A q \in rooms : \A p \in {q, [q EXCEPT !.name = new]} : p.id = q.id
      BY <1>2 DEF RoomRows
    <3>2. \A k : (\E q \in rooms : q.id = k) <=> (\E q \in rooms' : q.id = k)
      <4>. DEFINE f(q) == IF q.id = i THEN [q EXCEPT !.name = new] ELSE q
      <4>1. \A q \in rooms : f(q).id = q.id
        BY <3>1
      <4>2. rooms' = {f(q) : q \in rooms}
        BY <1>1, <1>4
      <4>. HIDE DEF f
      <4>. QED BY <4>1, <4>2
    <3>3. \A k : RoomWithId(k) # {} <=> \E q \in rooms' : q.id = k
      BY <3>2 DEF RoomWithId
    <3>. QED BY <1>1, <3>3, ApprovedStays DEF RoomWithId
  <2>8. Book!Rename(w)
    BY <1>1, <1>2, <1>4, <2>4, <2>5, <2>6, <2>7 DEF Book!Rename
  <2>. QED BY <1>1, <1>2, <2>8, SomethingHappens
<1>. QED BY <1>3, <1>4

\* The book knows nothing of applications.
LEMMA ApplyInBook ==
  ASSUME BookInv, TypeInv', NEW w \in Workers, ApplyCommit(w)
  PROVE  BookStep
<1>1. TypeInv /\ Finish(w) /\ UNCHANGED <<rooms, members, approvals>>
  BY DEF BookInv, IInv, ApplyCommit
<1>2. lastId'["rooms"] = lastId["rooms"]
  BY <1>1, RoomIdsKept DEF ApplyCommit
<1>3. Book!Nothing
  BY <1>1, <1>2, ApprovedStays DEF Book!Nothing, Inside, RoomWithId
<1>. QED BY <1>1, <1>3, Refused

\* review_application, as a step of the book: a rejection is none, and neither
\* is an approval for a room that is gone.
LEMMA ReviewInBook ==
  ASSUME BookInv, TypeInv', Postgres, NEW w \in Workers, ReviewCommit(w)
  PROVE  BookStep
<1>. DEFINE i == req[w].row.room
            u == req[w].target
            admit == At(w, "review", "admit")
<1>1. /\ Finish(w) /\ UNCHANGED rooms
      /\ req[w].op = "review" /\ req[w].at \in {"admit", "commit"}
      /\ \/ UNCHANGED <<apps, approvals, members, lastId>>
         \/ /\ admit => MayInsertMember(i, u)
            /\ approvals' = IF req[w].approve THEN approvals \cup {<<i, u>>} ELSE approvals
            /\ \/ admit /\ InsertMember(i, u)
               \/ ~admit /\ UNCHANGED <<members, lastId>>
  BY DEF ReviewCommit, At
<1>2. TypeInv /\ Shape(req[w]) /\ req[w] # Idle
  BY <1>1, UnderWay DEF BookInv, IInv
<1>3. /\ i \in Nat /\ u \in Users
      /\ admit => req[w].approve
      /\ \A r \in rooms : r.id = i => r.owner = req[w].user
  BY <1>1, <1>2
  DEF Shape, AppRows, Requests, BookInv, IInv, KnownInv, Asking, LoadedInv, Loaded, LoadedApp, At
<1>4. CASE UNCHANGED <<apps, approvals, members, lastId>>
  BY <1>1, <1>2, <1>4, BookUntouched, Refused DEF tables
<1>5. CASE /\ admit => MayInsertMember(i, u)
           /\ approvals' = IF req[w].approve THEN approvals \cup {<<i, u>>} ELSE approvals
           /\ \/ admit /\ InsertMember(i, u)
              \/ ~admit /\ UNCHANGED <<members, lastId>>
  <2>1. lastId'["rooms"] = lastId["rooms"]
    BY <1>2, <1>5, RoomIdsKept DEF InsertMember
  <2>2. CASE ~req[w].approve
    <3>1. Book!Nothing
      BY <1>1, <1>3, <1>5, <2>1, <2>2, ApprovedStays DEF Book!Nothing, Inside, RoomWithId
    <3>. QED BY <1>1, <1>2, <3>1, Refused
  <2>3. CASE req[w].approve /\ RoomWithId(i) = {}
    <3>1. ~admit
      BY <1>5, <2>3 DEF MayInsertMember, RoomIdValid, ForeignKeys, Postgres
    <3>2. Approved' = Approved
      <4>1. approvals' = approvals \cup {<<i, u>>}
        BY <1>5, <2>3
      <4>2. Approved' = {p \in approvals' : RoomWithId(p[1]) # {}}
        BY <1>1 DEF Approved, RoomWithId
      <4>. QED BY <2>3, <4>1, <4>2 DEF Approved
    <3>3. Book!Nothing
      BY <1>1, <1>5, <2>1, <3>1, <3>2 DEF Book!Nothing, Inside
    <3>. QED BY <1>1, <1>2, <3>3, Refused
  <2>4. CASE req[w].approve /\ RoomWithId(i) # {}
    <3>1. /\ Asked[w] = AskedFor(req[w]) /\ Asked[w].op = "approve"
          /\ Asked[w].room = i /\ Asked[w].user = req[w].user /\ Asked[w].target = u
      BY <1>1, <2>4 DEF Asked, AskedFor
    <3>2. Book!Own(w) # {}
      BY <1>3, <2>4, <3>1 DEF Book!Own, RoomWithId
    <3>3. Approved' = Approved \cup {<<i, u>>}
      BY <1>1, <1>5, <2>4 DEF Approved, RoomWithId
    <3>4. Inside' \in {Inside, Inside \cup {<<i, u>>}}
      BY <1>5, InsideGrows DEF Inside
    <3>5. Book!Approve(w)
      BY <1>1, <2>1, <3>1, <3>2, <3>3, <3>4 DEF Book!Approve
    <3>6. Asked[w] # Book!NoCall
      BY <3>1 DEF Book!NoCall
    <3>. QED BY <1>1, <1>2, <3>5, <3>6, SomethingHappens
  <2>. QED BY <2>2, <2>3, <2>4
<1>. QED BY <1>1, <1>4, <1>5

\* Every step of the services is a step of the book, or leaves it alone.
LEMMA StepInBook ==
  ASSUME BookInv, Postgres, [Next]_vars
  PROVE  BookInv' /\ BookStep
<1>1. TypeInv /\ TypeInv' /\ IInv
  BY TypeStep DEF BookInv, IInv
<1>2. BookInv'
  BY <1>1, InvariantStep, KnownStep DEF BookInv
<1>3. CASE UNCHANGED vars
  <2>1. Asked' = Asked
    BY <1>3 DEF vars, Asked, AskedFor
  <2>2. Book!Nothing
    BY <1>3, BookUntouched DEF vars, tables
  <2>. QED BY <1>2, <2>1, <2>2 DEF BookStep, Book!book, Book!Nothing
<1>4. ASSUME NEW w \in Workers, Call(w) PROVE BookStep
  <2>1. CASE UNCHANGED vars
    BY <1>3, <2>1
  <2>2. CASE UNCHANGED tables /\ req[w] = Idle /\ \E r : req' = [req EXCEPT ![w] = r]
    BY <1>1, <2>2, BookUntouched, NothingHappens
  <2>. QED BY <1>4, <2>1, <2>2, CallsAsk
<1>5. ASSUME NEW w \in Workers,
             \/ JoinCheckMember(w) \/ JoinCheckStatus(w) \/ JoinRefuse(w)
             \/ LeaveLoadMembership(w) \/ KickLoadMembership(w)
             \/ DeleteLoadApps(w) \/ EditCheckName(w)
             \/ ApplyCheckMember(w) \/ ApplyLoadApp(w)
             \/ ReviewLoadRoom(w) \/ ReviewCheckMember(w)
      PROVE  BookStep
  <2>1. /\ UNCHANGED tables
        /\ Finish(w) \/ \E r : AskedFor(r) = AskedFor(req[w]) /\ req' = [req EXCEPT ![w] = r]
    BY <1>5, ReadsGoOn
  <2>. QED BY <1>1, <2>1, BookUntouched, NothingHappens, Refused
<1>6. ASSUME NEW w \in Workers,
             \/ CreateCommit(w) \/ JoinCommit(w) \/ LeaveCommit(w) \/ KickCommit(w)
             \/ DeleteCommit(w) \/ EditCommit(w) \/ ApplyCommit(w) \/ ReviewCommit(w)
      PROVE  BookStep
  BY <1>1, <1>6, CreateInBook, JoinInBook, RemoveInBook, DeleteInBook, RenameInBook,
     ApplyInBook, ReviewInBook
<1>. QED BY <1>2, <1>3, <1>4, <1>5, <1>6 DEF Next, Step

\* The services of rooms.py and applications.py, each request several statements
\* and what it read stale by the time it commits, implement the book in which a
\* request is one step, checked when it is taken.
THEOREM RoomsImplementBook ==
  ASSUME Postgres
  PROVE  Spec => ImplementsBook
<1>1. Init => IInv
  BY DEF Init, IInv, TypeInv, RoomsOK, MembersOK, AppsOK, Bounded, Tables, PositiveIds,
         MembersHaveRooms, ApprovedByOwner, PrivateAdmission, LoadedInv
<1>2. Init => BookInv
  BY <1>1 DEF Init, BookInv, KnownInv
<1>3. Init => Book!Init
  BY IdleAsksNothing DEF Init, Book!Init, Inside, Approved, Asked
<1>4. BookInv /\ [Next]_vars => BookInv' /\ [Book!Next]_(Book!book)
  BY StepInBook DEF BookStep
<1>5. ImplementsBook <=> Book!Init /\ [][Book!Next]_(Book!book)
  BY DEF ImplementsBook, Book!Spec
<1>. QED BY <1>2, <1>3, <1>4, <1>5, PTL DEF Spec

=============================================================================
