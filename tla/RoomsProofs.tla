----------------------------- MODULE RoomsProofs -----------------------------
(***************************************************************************)
(* Proofs about Rooms, for any users, names, operations, number of         *)
(* concurrent requests and bounds: on either database, types and keys, and *)
(* what applications are when requests come one at a time.                 *)
(* RoomsPostgresProofs goes on with what PostgreSQL adds.                  *)
(***************************************************************************)
EXTENDS Rooms, WellFoundedInduction, TLAPS

-----------------------------------------------------------------------------
(* Ids.                                                                    *)

\* A bounded set of numbers has a largest element, 0 counted.
LEMMA LargestExists ==
  ASSUME NEW S \in SUBSET Nat, NEW b \in Nat, \A m \in S : m <= b
  PROVE  \E n \in S \cup {0} : \A m \in S : m <= n
<1>. DEFINE U == {u \in Nat : \A m \in S : m <= u}
<1>. DEFINE R == OpToRel(<, Nat)
<1>1. IsWellFoundedOn(R, Nat)
  BY NatLessThanWellFounded
<1>2. \A x, y \in Nat : <<x, y>> \in R <=> x < y
  BY DEF OpToRel
<1>3. b \in U /\ U \subseteq Nat
  OBVIOUS
<1>. HIDE DEF R
<1>4. PICK u \in U : \A v \in U : <<v, u>> \notin R
  <2>1. IsWellFoundedOn(R, Nat) /\ U \subseteq Nat /\ U # {}
    BY <1>1, <1>3
  <2>. HIDE DEF U
  <2>2. \E u \in U : \A v \in U : <<v, u>> \notin R
    BY <2>1, WFMin
  <2>. QED BY <2>2
<1>5. u \in Nat /\ \A m \in S : m <= u
  BY <1>4
<1>6. \A v \in Nat : (\A m \in S : m <= v) => ~(v < u)
  BY <1>2, <1>4, <1>5
<1>7. u \in S \cup {0}
  <2>1. SUFFICES ASSUME u \notin S, u # 0 PROVE FALSE
    OBVIOUS
  <2>2. u - 1 \in Nat /\ u - 1 < u
    BY <1>5, <2>1
  <2>3. \A m \in S : m \in Nat /\ m <= u /\ m # u
    BY <1>5, <2>1
  <2>4. \A m \in S : m <= u - 1
    BY <1>5, <2>3
  <2>. QED BY <1>6, <2>2, <2>4
<1>. QED BY <1>5, <1>7

\* The ids of a table's rows are bounded: by the sequence where there is one.
Bounded(rows, last) ==
  IF Backend = "postgresql"
  THEN \A row \in rows : row.id <= last
  ELSE \E b \in Nat : \A row \in rows : row.id <= b

Tables == {"rooms", "members", "apps"}

\* A new row's id is new, whichever database chooses it.
LEMMA NewIdIsNew ==
  ASSUME NEW t \in Tables, NEW rows, \A row \in rows : row.id \in Nat,
         lastId \in [Tables -> Nat], Bounded(rows, lastId[t])
  PROVE  /\ NewId(t, rows) \in Nat /\ NewId(t, rows) > 0
         /\ \A row \in rows : row.id < NewId(t, rows)
<1>1. HighId(t, rows) \in Nat /\ \A row \in rows : row.id <= HighId(t, rows)
  <2>1. CASE Backend = "postgresql"
    BY <2>1 DEF HighId, Bounded
  <2>2. CASE Backend # "postgresql"
    <3>1. Ids(rows) \in SUBSET Nat
      BY DEF Ids
    <3>2. PICK b \in Nat : \A m \in Ids(rows) : m <= b
      BY <2>2 DEF Bounded, Ids
    <3>3. \E n \in Ids(rows) \cup {0} : \A m \in Ids(rows) : m <= n
      BY <3>1, <3>2, LargestExists
    <3>4. HighId(t, rows) = CHOOSE n \in Ids(rows) \cup {0} : \A m \in Ids(rows) : m <= n
      BY <2>2 DEF HighId
    <3>5. HighId(t, rows) \in Ids(rows) \cup {0} /\ \A m \in Ids(rows) : m <= HighId(t, rows)
      BY <3>3, <3>4
    <3>. QED BY <3>1, <3>5 DEF Ids
  <2>. QED BY <2>1, <2>2
<1>. QED BY <1>1 DEF NewId

\* Ids stay bounded when rows are dropped or changed and one row gets a new id.
LEMMA StillBounded ==
  ASSUME NEW old, NEW new, NEW last \in Nat, NEW last2 \in Nat, last <= last2,
         \A row \in old : row.id \in Nat, Bounded(old, last),
         NEW n \in Nat, Backend = "postgresql" => n <= last2,
         \A row \in new : row.id = n \/ \E o \in old : o.id = row.id
  PROVE  Bounded(new, last2)
<1>1. CASE Backend = "postgresql"
  BY <1>1 DEF Bounded
<1>2. CASE Backend # "postgresql"
  <2>1. PICK b \in Nat : \A row \in old : row.id <= b
    BY <1>2 DEF Bounded
  <2>2. \A row \in new : row.id <= b + n
    BY <2>1
  <2>. QED BY <1>2, <2>1, <2>2 DEF Bounded
<1>. QED BY <1>1, <1>2

\* A sequence that hands out an id has reached it.
LEMMA HandOutIds ==
  ASSUME lastId \in [Tables -> Nat], NEW ts \in SUBSET Tables
  PROVE  /\ HandOut(ts) \in [Tables -> Nat]
         /\ \A t \in Tables : lastId[t] <= HandOut(ts)[t]
         /\ \A t \in Tables \ ts : HandOut(ts)[t] = lastId[t]
         /\ \A t \in ts : \A rows : Backend = "postgresql" => HandOut(ts)[t] = NewId(t, rows)
<1>1. DOMAIN lastId = Tables
  OBVIOUS
<1>. QED BY <1>1 DEF HandOut, NewId, HighId

-----------------------------------------------------------------------------
(* Types and keys.                                                         *)

RoomsOK(R, last) ==
  /\ R \subseteq RoomRows /\ Bounded(R, last)
  /\ \A r, s \in R : r.id = s.id \/ r.name = s.name => r = s

MembersOK(M, last) ==
  /\ M \subseteq MemberRows /\ Bounded(M, last)
  /\ \A m, n \in M : m.id = n.id \/ (m.room = n.room /\ m.user = n.user) => m = n

AppsOK(A, last) ==
  /\ A \subseteq AppRows /\ Bounded(A, last)
  /\ \A a, b \in A : a.id = b.id => a = b

\* What a request has loaded is of the table it was loaded from.
Shape(r) ==
  /\ r \in Requests
  /\ r.op = "review" => r.row \in AppRows
  /\ r.op # "review" => r.room \in RoomRows
  /\ r.op \in {"leave", "kick"} /\ r.at = "commit" => r.row \in MemberRows
  /\ r.op = "apply" /\ r.row # NoRow => r.row \in AppRows
  /\ r.op = "edit" => r.name \in Names

TypeInv ==
  /\ RoomsOK(rooms, lastId["rooms"])
  /\ MembersOK(members, lastId["members"])
  /\ AppsOK(apps, lastId["apps"])
  /\ lastId \in [Tables -> Nat]
  /\ approvals \subseteq Nat \X Users
  /\ req \in [Workers -> Requests \cup {Idle}]
  /\ \A w \in Workers : req[w] # Idle => Shape(req[w])

\* A request under way has the shape of one.
LEMMA UnderWay ==
  ASSUME TypeInv, NEW w \in Workers, req[w].op # "idle"
  PROVE  Shape(req[w]) /\ req[w] # Idle /\ req[w] \in Requests
<1>1. req[w] # Idle
  BY DEF Idle
<1>. QED BY <1>1 DEF TypeInv, Shape

\* A step that reads, and moves one request on, keeps types.
LEMMA ReadKeepsTypes ==
  ASSUME TypeInv, UNCHANGED tables, NEW w \in Workers, NEW r, r = Idle \/ Shape(r),
         req' = [req EXCEPT ![w] = r]
  PROVE  TypeInv'
<1>1. req' \in [Workers -> Requests \cup {Idle}]
  BY DEF TypeInv, Shape
<1>2. \A v \in Workers : req'[v] # Idle => Shape(req'[v])
  BY DEF TypeInv
<1>. QED BY <1>1, <1>2 DEF TypeInv, tables, Idle

\* The locals every operation starts with.
LEMMA NewRequest ==
  ASSUME NEW op \in {"create", "join", "leave", "kick", "delete", "apply"},
         NEW u \in Users, NEW at \in Statements, NEW room \in RoomRows, NEW v \in Users,
         op = "create" \/ at # "commit"
  PROVE  Shape(Request(op, u, at, room, v))
BY DEF Request, Shape, Requests, NoRow

\* Every call starts with locals of the right types.
LEMMA CallKeepsTypes ==
  ASSUME TypeInv, NEW w \in Workers, Call(w)
  PROVE  TypeInv'
<1>. DEFINE Starts(op, r) == Shape(r) /\ req' = [req EXCEPT ![w] = r] /\ UNCHANGED tables
<1>1. \A n : RoomNamed(n) \subseteq RoomRows
  BY DEF TypeInv, RoomsOK, RoomNamed
<1>2. PICK u \in Users :
        \/ \E n \in Names, t \in RoomTypes : CreateCheck(w, u, n, t)
        \/ \E n \in Names : JoinLoadRoom(w, u, n) \/ LeaveLoadRoom(w, u, n)
                             \/ DeleteLoadRoom(w, u, n) \/ ApplyLoadRoom(w, u, n)
        \/ \E n \in Names, v \in Users : KickLoadRoom(w, u, n, v)
        \/ \E n, new \in Names : EditLoadRoom(w, u, n, new)
        \/ \E i \in 1 .. MaxId["apps"], approve \in BOOLEAN : ReviewLoadApp(w, u, i, approve)
  BY DEF Call
<1>3. ASSUME UNCHANGED vars PROVE TypeInv'
  BY <1>3 DEF TypeInv, vars
<1>4. ASSUME NEW n \in Names, NEW t \in RoomTypes, CreateCheck(w, u, n, t) PROVE TypeInv'
  <2>1. [id |-> 0, name |-> n, owner |-> u, type |-> t] \in RoomRows
    BY DEF RoomRows
  <2>. QED BY <1>3, <1>4, <2>1, NewRequest, ReadKeepsTypes DEF CreateCheck, Begin, Statements
<1>5. ASSUME NEW n \in Names, NEW v \in Users,
             \/ JoinLoadRoom(w, u, n) \/ LeaveLoadRoom(w, u, n)
             \/ DeleteLoadRoom(w, u, n) \/ ApplyLoadRoom(w, u, n)
             \/ KickLoadRoom(w, u, n, v)
      PROVE  TypeInv'
  BY <1>1, <1>3, <1>5, NewRequest, ReadKeepsTypes
  DEF JoinLoadRoom, LeaveLoadRoom, DeleteLoadRoom, ApplyLoadRoom, KickLoadRoom, Begin, Statements
<1>6. ASSUME NEW n \in Names, NEW new \in Names, EditLoadRoom(w, u, n, new) PROVE TypeInv'
  <2>1. ASSUME NEW r \in RoomNamed(n)
        PROVE  Shape([Request("edit", u, "name", r, u) EXCEPT !.name = new])
    <3>1. r \in RoomRows
      BY <1>1, <2>1
    <3>. QED BY <3>1 DEF Shape, Requests, Statements, Request, NoRow
  <2>. QED BY <1>3, <1>6, <2>1, ReadKeepsTypes DEF EditLoadRoom, Begin
<1>7. ASSUME NEW i, NEW approve \in BOOLEAN, ReviewLoadApp(w, u, i, approve) PROVE TypeInv'
  <2>1. ASSUME NEW a \in apps
        PROVE  Shape([Request("review", u, "room", NoRow, a.user)
                        EXCEPT !.row = a, !.approve = approve])
    <3>1. a \in AppRows /\ a.user \in Users
      BY DEF TypeInv, AppsOK, AppRows
    <3>. QED BY <3>1 DEF Shape, Requests, Statements, Request
  <2>. QED BY <1>3, <1>7, <2>1, ReadKeepsTypes DEF ReviewLoadApp, Begin
<1>. QED BY <1>2, <1>4, <1>5, <1>6, <1>7

\* The statements that only read keep types.
LEMMA ReadsKeepTypes ==
  ASSUME TypeInv, NEW w \in Workers,
         \/ JoinCheckMember(w) \/ JoinCheckStatus(w) \/ JoinRefuse(w)
         \/ LeaveLoadMembership(w) \/ KickLoadMembership(w)
         \/ DeleteLoadApps(w) \/ EditCheckName(w)
         \/ ApplyCheckMember(w) \/ ApplyLoadApp(w)
         \/ ReviewLoadRoom(w) \/ ReviewCheckMember(w)
  PROVE  TypeInv'
<1>1. /\ rooms \subseteq RoomRows /\ members \subseteq MemberRows /\ apps \subseteq AppRows
      /\ req \in [Workers -> Requests \cup {Idle}]
  BY DEF TypeInv, RoomsOK, MembersOK, AppsOK
<1>2. UNCHANGED tables
  BY DEF JoinCheckMember, JoinCheckStatus, JoinRefuse, Answer, LeaveLoadMembership,
         KickLoadMembership, LoadMembership, DeleteLoadApps, EditCheckName, ApplyCheckMember,
         ApplyLoadApp, ReviewLoadRoom, ReviewCheckMember
<1>3. Shape(req[w])
  BY UnderWay
  DEF JoinCheckMember, JoinCheckStatus, JoinRefuse, LeaveLoadMembership,
      KickLoadMembership, LoadMembership, DeleteLoadApps, EditCheckName, ApplyCheckMember,
      ApplyLoadApp, ReviewLoadRoom, ReviewCheckMember, At
<1>4. ASSUME Finish(w) PROVE TypeInv'
  BY <1>2, <1>4, ReadKeepsTypes DEF Finish
<1>5. ASSUME NEW at \in Statements, Goto(w, at),
             at = "commit" => req[w].op \notin {"leave", "kick"}
      PROVE  TypeInv'
  <2>1. Shape([req[w] EXCEPT !.at = at])
    BY <1>3, <1>5 DEF Shape, Requests
  <2>2. req' = [req EXCEPT ![w] = [req[w] EXCEPT !.at = at]]
    BY <1>5 DEF Goto
  <2>. QED BY <1>2, <2>1, <2>2, ReadKeepsTypes
<1>6. CASE JoinCheckMember(w) \/ JoinCheckStatus(w) \/ JoinRefuse(w)
  BY <1>4, <1>5, <1>6
  DEF JoinCheckMember, JoinCheckStatus, JoinRefuse, Answer, At, Statements
<1>7. CASE EditCheckName(w) \/ ApplyCheckMember(w) \/ ReviewCheckMember(w)
  BY <1>4, <1>5, <1>7
  DEF EditCheckName, ApplyCheckMember, ReviewCheckMember, At, Statements
<1>8. ASSUME NEW op \in {"leave", "kick"}, LoadMembership(w, op) PROVE TypeInv'
  <2>1. CASE Finish(w)
    BY <1>4, <2>1
  <2>2. ASSUME NEW m \in members, req' = [req EXCEPT ![w].at = "commit", ![w].row = m]
        PROVE  TypeInv'
    <3>1. Shape([req[w] EXCEPT !.at = "commit", !.row = m])
      BY <1>1, <1>3, <1>8 DEF Shape, Requests, Statements, LoadMembership, At
    <3>2. req' = [req EXCEPT ![w] = [req[w] EXCEPT !.at = "commit", !.row = m]]
      BY <1>1, <2>2
    <3>. QED BY <1>2, <3>1, <3>2, ReadKeepsTypes
  <2>. QED BY <1>8, <2>1, <2>2 DEF LoadMembership, Membership
<1>9. CASE DeleteLoadApps(w)
  <2>1. Ids({a \in apps : a.room = req[w].room.id}) \in SUBSET Nat
    BY <1>1 DEF Ids, AppRows
  <2>. DEFINE p == Ids({a \in apps : a.room = req[w].room.id})
  <2>2. req' = [req EXCEPT ![w] = [req[w] EXCEPT !.at = "commit", !.pending = p]]
    BY <1>1, <1>9 DEF DeleteLoadApps
  <2>. HIDE DEF p
  <2>3. p \in SUBSET Nat
    BY <2>1 DEF p
  <2>4. Shape([req[w] EXCEPT !.at = "commit", !.pending = p])
    BY <1>3, <1>9, <2>3 DEF Shape, Requests, Statements, DeleteLoadApps, At
  <2>. QED BY <1>2, <2>2, <2>4, ReadKeepsTypes
<1>10. CASE ApplyLoadApp(w)
  <2>. DEFINE found == Applications(req[w].room.id, req[w].user)
  <2>1. found \subseteq AppRows /\ Ids(found) \in SUBSET Nat
    BY <1>1 DEF Applications, Ids, AppRows
  <2>2. ASSUME NEW a \in found,
               req' = [req EXCEPT ![w].at = "commit", ![w].row = a, ![w].pending = Ids(found)]
        PROVE  TypeInv'
    <3>1. req' = [req EXCEPT ![w] = [req[w] EXCEPT !.at = "commit", !.row = a,
                                                   !.pending = Ids(found)]]
      BY <1>1, <2>2
    <3>. DEFINE p == Ids(found)
    <3>2. a \in AppRows /\ p \in SUBSET Nat
      BY <2>1, <2>2
    <3>. HIDE DEF p, found
    <3>3. Shape([req[w] EXCEPT !.at = "commit", !.row = a, !.pending = p])
      BY <1>3, <1>10, <3>2 DEF Shape, Requests, Statements, ApplyLoadApp, At
    <3>. QED BY <1>2, <3>1, <3>3, ReadKeepsTypes DEF p
  <2>. QED BY <1>4, <1>5, <1>10, <2>2 DEF ApplyLoadApp, At, Statements
<1>11. CASE ReviewLoadRoom(w)
  <2>1. ASSUME NEW r \in rooms,
               req' = [req EXCEPT ![w].room = r,
                                  ![w].at = IF req[w].approve THEN "member" ELSE "commit"]
        PROVE  TypeInv'
    <3>1. Shape([req[w] EXCEPT !.room = r,
                               !.at = IF req[w].approve THEN "member" ELSE "commit"])
      BY <1>1, <1>3, <1>11 DEF Shape, Requests, Statements, ReviewLoadRoom, At
    <3>2. req' = [req EXCEPT ![w] = [req[w] EXCEPT !.room = r,
                                       !.at = IF req[w].approve THEN "member" ELSE "commit"]]
      BY <1>1, <2>1
    <3>. QED BY <1>2, <3>1, <3>2, ReadKeepsTypes
  <2>. QED BY <1>4, <1>11, <2>1 DEF ReviewLoadRoom, RoomWithId
<1>. QED
  BY <1>6, <1>7, <1>8, <1>9, <1>10, <1>11 DEF LeaveLoadMembership, KickLoadMembership

\* A statement that ends its request keeps types if it keeps the tables'.
LEMMA CommitKeepsTypes ==
  ASSUME TypeInv, NEW w \in Workers, Finish(w),
         RoomsOK(rooms, lastId["rooms"])', MembersOK(members, lastId["members"])',
         AppsOK(apps, lastId["apps"])', lastId' \in [Tables -> Nat],
         approvals' \subseteq Nat \X Users
  PROVE  TypeInv'
<1>1. req' \in [Workers -> Requests \cup {Idle}]
  BY DEF TypeInv, Finish
<1>2. \A v \in Workers : req'[v] # Idle => Shape(req'[v])
  BY DEF TypeInv, Finish
<1>. QED BY <1>1, <1>2 DEF TypeInv, RoomsOK, MembersOK, AppsOK

\* Rows that are dropped leave types and keys as they are.
LEMMA FewerMembers ==
  ASSUME TypeInv, NEW M \in SUBSET members
  PROVE  MembersOK(M, lastId["members"])
<1>1. MembersOK(members, lastId["members"]) /\ lastId["members"] \in Nat
  BY DEF TypeInv, Tables
<1>2. Bounded(M, lastId["members"])
  BY <1>1 DEF MembersOK, Bounded
<1>. QED BY <1>1, <1>2 DEF MembersOK

\* An inserted membership has a new id, and its key is not taken.
LEMMA MemberInserted ==
  ASSUME TypeInv, NEW i \in Nat, NEW u \in Users, Membership(i, u) = {},
         NEW ts \in SUBSET Tables, "members" \in ts
  PROVE  MembersOK(members \cup {NewMember(i, u)}, HandOut(ts)["members"])
<1>. DEFINE n == NewId("members", members)
<1>. DEFINE M == members \cup {NewMember(i, u)}
<1>1. MembersOK(members, lastId["members"]) /\ lastId \in [Tables -> Nat] /\ "members" \in Tables
  BY DEF TypeInv, Tables
<1>2. \A m \in members : m.id \in Nat
  BY <1>1 DEF MembersOK, MemberRows
<1>3. n \in Nat /\ \A m \in members : m.id < n
  BY <1>1, <1>2, NewIdIsNew DEF MembersOK
<1>4. /\ HandOut(ts)["members"] \in Nat /\ lastId["members"] \in Nat
      /\ lastId["members"] <= HandOut(ts)["members"]
      /\ Backend = "postgresql" => HandOut(ts)["members"] = n
  BY <1>1, HandOutIds
<1>5. NewMember(i, u) = [id |-> n, room |-> i, user |-> u]
  BY DEF NewMember
<1>. HIDE DEF n
<1>6. M \subseteq MemberRows
  BY <1>1, <1>3, <1>5 DEF MembersOK, MemberRows
<1>7. \A m \in members : m.id # n /\ ~(m.room = i /\ m.user = u)
  BY <1>2, <1>3 DEF Membership
<1>8. \A m, k \in M : m.id = k.id \/ (m.room = k.room /\ m.user = k.user) => m = k
  BY <1>1, <1>5, <1>7 DEF MembersOK
<1>9. \A m \in M : m.id = n \/ \E o \in members : o.id = m.id
  BY <1>5
<1>. HIDE DEF M
<1>10. Bounded(M, HandOut(ts)["members"])
  <2>1. Backend = "postgresql" => n <= HandOut(ts)["members"]
    BY <1>3, <1>4
  <2>2. Bounded(members, lastId["members"])
    BY <1>1 DEF MembersOK
  <2>. QED BY <1>2, <1>3, <1>4, <1>9, <2>1, <2>2, StillBounded
<1>11. MembersOK(M, HandOut(ts)["members"])
  BY <1>6, <1>8, <1>10 DEF MembersOK
<1>. QED BY <1>11 DEF M

\* Changing applications in other columns than the id keeps their types.
LEMMA AppsChanged ==
  ASSUME TypeInv, NEW f, \A a \in apps : f[a] \in AppRows /\ f[a].id = a.id
  PROVE  AppsOK({f[a] : a \in apps}, lastId["apps"])
<1>1. AppsOK(apps, lastId["apps"]) /\ lastId["apps"] \in Nat
  BY DEF TypeInv, Tables
<1>. DEFINE A == {f[a] : a \in apps}
<1>2. A \subseteq AppRows /\ \A b \in A : \E a \in apps : b = f[a] /\ b.id = a.id
  OBVIOUS
<1>3. \A a, b \in A : a.id = b.id => a = b
  BY <1>1, <1>2 DEF AppsOK
<1>. HIDE DEF A
<1>4. \A a \in apps : a.id \in Nat
  BY <1>1 DEF AppsOK, AppRows
<1>5. \A b \in A : \E a \in apps : a.id = b.id
  BY <1>2
<1>6. Bounded(A, lastId["apps"])
  BY <1>1, <1>2, <1>4, <1>5 DEF AppsOK, Bounded
<1>7. AppsOK(A, lastId["apps"])
  BY <1>2, <1>3, <1>6 DEF AppsOK
<1>. QED BY <1>7 DEF A

\* create_room: both rows get new ids.
LEMMA CreateKeepsTypes ==
  ASSUME TypeInv, NEW w \in Workers, CreateCommit(w)
  PROVE  TypeInv'
<1>. DEFINE n == NewId("rooms", rooms)
<1>. DEFINE room == [req[w].room EXCEPT !.id = n]
<1>. DEFINE ok == RoomNamed(room.name) = {} /\ Membership(room.id, room.owner) = {}
<1>. DEFINE last == HandOut({"rooms", "members"})
<1>1. /\ RoomsOK(rooms, lastId["rooms"]) /\ MembersOK(members, lastId["members"])
      /\ AppsOK(apps, lastId["apps"]) /\ lastId \in [Tables -> Nat]
      /\ approvals \subseteq Nat \X Users /\ "rooms" \in Tables /\ "members" \in Tables
      /\ {"rooms", "members"} \in SUBSET Tables /\ "apps" \in Tables
  BY DEF TypeInv, Tables
<1>2. Finish(w) /\ UNCHANGED <<apps, approvals>>
  BY DEF CreateCommit
<1>3. CASE UNCHANGED <<rooms, members, lastId>>
  BY <1>1, <1>2, <1>3, CommitKeepsTypes
<1>4. ASSUME ok, rooms' = rooms \cup {room},
             members' = members \cup OwnerMembership(room.id, room.owner), lastId' = last
      PROVE  TypeInv'
  <2>1. \A r \in rooms : r.id \in Nat
    BY <1>1 DEF RoomsOK, RoomRows
  <2>2. n \in Nat /\ \A r \in rooms : r.id < n
    BY <1>1, <2>1, NewIdIsNew DEF RoomsOK
  <2>3. req[w].room \in RoomRows
    BY UnderWay DEF CreateCommit, At, Shape
  <2>. HIDE DEF n
  <2>4. room \in RoomRows /\ room.id = n /\ room.owner \in Users
    BY <2>2, <2>3 DEF RoomRows
  <2>5. /\ last \in [Tables -> Nat] /\ lastId["rooms"] <= last["rooms"]
        /\ last["apps"] = lastId["apps"]
        /\ Backend = "postgresql" => last["rooms"] = n
    BY <1>1, HandOutIds DEF n
  <2>6. RoomsOK(rooms', last["rooms"])
    <3>. HIDE DEF room, last
    <3>1. \A r \in rooms : r.id # room.id /\ r.name # room.name
      BY <1>4, <2>1, <2>2, <2>4 DEF RoomNamed
    <3>2. \A r, s \in rooms' : r.id = s.id \/ r.name = s.name => r = s
      BY <1>1, <1>4, <3>1 DEF RoomsOK
    <3>3. \A r \in rooms' : r.id = n \/ \E o \in rooms : o.id = r.id
      BY <1>4, <2>4
    <3>4. last["rooms"] \in Nat /\ lastId["rooms"] \in Nat
      BY <1>1, <2>5
    <3>5. Backend = "postgresql" => n <= last["rooms"]
      BY <2>2, <2>5
    <3>6. Bounded(rooms, lastId["rooms"])
      BY <1>1 DEF RoomsOK
    <3>7. Bounded(rooms', last["rooms"])
      BY <2>1, <2>2, <2>5, <3>3, <3>4, <3>5, <3>6, StillBounded
    <3>. QED BY <1>1, <1>4, <2>4, <3>2, <3>7 DEF RoomsOK
  <2>7. MembersOK(members', last["members"])
    <3>1. members' = members \cup {NewMember(room.id, room.owner)}
      BY <1>4 DEF OwnerMembership
    <3>2. Membership(room.id, room.owner) = {} /\ room.id \in Nat
      BY <1>4, <2>2, <2>4
    <3>. QED BY <1>1, <2>4, <3>1, <3>2, MemberInserted
  <2>. HIDE DEF last
  <2>8. AppsOK(apps', lastId'["apps"])
    BY <1>1, <1>2, <1>4, <2>5
  <2>. QED BY <1>1, <1>2, <1>4, <2>5, <2>6, <2>7, <2>8, CommitKeepsTypes
<1>. QED BY <1>3, <1>4 DEF CreateCommit

\* join_room.
LEMMA JoinKeepsTypes ==
  ASSUME TypeInv, NEW w \in Workers, JoinCommit(w)
  PROVE  TypeInv'
<1>. DEFINE i == req[w].room.id
<1>. DEFINE u == req[w].user
<1>1. /\ RoomsOK(rooms, lastId["rooms"]) /\ MembersOK(members, lastId["members"])
      /\ AppsOK(apps, lastId["apps"]) /\ lastId \in [Tables -> Nat]
      /\ approvals \subseteq Nat \X Users
      /\ {"members"} \in SUBSET Tables /\ "rooms" \in Tables /\ "apps" \in Tables
  BY DEF TypeInv, Tables
<1>2. Finish(w) /\ UNCHANGED <<rooms, apps, approvals>>
  BY DEF JoinCommit
<1>3. CASE UNCHANGED <<members, lastId>>
  BY <1>1, <1>2, <1>3, CommitKeepsTypes
<1>4. ASSUME MayInsertMember(i, u), InsertMember(i, u) PROVE TypeInv'
  <2>1. i \in Nat /\ u \in Users
    BY UnderWay DEF JoinCommit, At, Shape, Requests, RoomRows
  <2>2. MembersOK(members', lastId'["members"])
    BY <1>1, <1>4, <2>1, MemberInserted DEF MayInsertMember, InsertMember
  <2>3. lastId' \in [Tables -> Nat] /\ lastId'["rooms"] = lastId["rooms"]
        /\ lastId'["apps"] = lastId["apps"]
    BY <1>1, <1>4, HandOutIds DEF InsertMember
  <2>. QED BY <1>1, <1>2, <2>2, <2>3, CommitKeepsTypes
<1>. QED BY <1>3, <1>4 DEF JoinCommit

\* leave_room, kick_member.
LEMMA RemoveKeepsTypes ==
  ASSUME TypeInv, NEW w \in Workers, LeaveCommit(w) \/ KickCommit(w)
  PROVE  TypeInv'
<1>1. /\ Finish(w) /\ UNCHANGED <<rooms, apps, lastId, approvals>>
      /\ members' \in SUBSET members
  BY DEF LeaveCommit, KickCommit, DeleteMembership
<1>2. MembersOK(members', lastId["members"])
  BY <1>1, FewerMembers
<1>. QED BY <1>1, <1>2, CommitKeepsTypes DEF TypeInv

\* delete_room_entry.
LEMMA DeleteKeepsTypes ==
  ASSUME TypeInv, NEW w \in Workers, DeleteCommit(w)
  PROVE  TypeInv'
<1>. DEFINE i == req[w].room.id
<1>. DEFINE orphaned(a) == a.id \in req[w].pending \/ (ForeignKeys /\ a.room = i)
<1>. DEFINE f == [a \in apps |-> IF orphaned(a) THEN [a EXCEPT !.room = NoRoom] ELSE a]
<1>1. /\ Finish(w) /\ UNCHANGED <<lastId, approvals>>
      /\ members' \in SUBSET members /\ rooms' \in SUBSET rooms
  BY DEF DeleteCommit
<1>2. apps' = {f[a] : a \in apps}
  BY DEF DeleteCommit
<1>3. MembersOK(members', lastId["members"])
  BY <1>1, FewerMembers
<1>4. RoomsOK(rooms', lastId["rooms"])
  <2>1. RoomsOK(rooms, lastId["rooms"])
    BY DEF TypeInv
  <2>. QED BY <1>1, <2>1 DEF RoomsOK, Bounded
<1>5. \A a \in apps : f[a] \in AppRows /\ f[a].id = a.id
  BY DEF TypeInv, AppsOK, AppRows, NoRoom
<1>. HIDE DEF f
<1>6. AppsOK(apps', lastId["apps"])
  BY <1>2, <1>5, AppsChanged
<1>. QED BY <1>1, <1>3, <1>4, <1>6, CommitKeepsTypes DEF TypeInv

\* edit_room_entry.
LEMMA EditKeepsTypes ==
  ASSUME TypeInv, NEW w \in Workers, EditCommit(w)
  PROVE  TypeInv'
<1>. DEFINE i == req[w].room.id
<1>. DEFINE new == req[w].name
<1>1. Finish(w) /\ UNCHANGED <<members, apps, lastId, approvals>>
  BY DEF EditCommit
<1>2. RoomsOK(rooms, lastId["rooms"]) /\ lastId["rooms"] \in Nat
  BY DEF TypeInv, Tables
<1>3. RoomsOK(rooms', lastId["rooms"])
  <2>1. CASE UNCHANGED rooms
    BY <1>2, <2>1
  <2>2. ASSUME new # req[w].room.name, RoomNamed(new) \subseteq RoomWithId(i),
               rooms' = {IF r.id = i THEN [r EXCEPT !.name = new] ELSE r : r \in rooms},
               new \in Names
        PROVE  RoomsOK(rooms', lastId["rooms"])
    <3>. DEFINE g(r) == IF r.id = i THEN [r EXCEPT !.name = new] ELSE r
    <3>1. \A r \in rooms : g(r) \in RoomRows /\ g(r).id = r.id
      BY <1>2, <2>2 DEF RoomsOK, RoomRows
    <3>2. \A r \in rooms : (r.id = i => g(r).name = new) /\ (r.id # i => g(r) = r)
      BY <1>2 DEF RoomsOK, RoomRows
    <3>3. \A r \in rooms : r.name = new => r.id = i
      BY <2>2 DEF RoomNamed, RoomWithId
    <3>4. rooms' = {g(r) : r \in rooms}
      BY <2>2
    <3>. HIDE DEF g
    <3>5. \A r, s \in rooms : r.id = s.id => g(r) = g(s)
      BY <1>2 DEF RoomsOK
    <3>6. \A r, s \in rooms : g(r).name = g(s).name => r.id = s.id
      <4>. SUFFICES ASSUME NEW r \in rooms, NEW s \in rooms, g(r).name = g(s).name
                    PROVE  r.id = s.id
        OBVIOUS
      <4>1. CASE r.id = i /\ s.id = i
        BY <4>1
      <4>2. CASE r.id = i /\ s.id # i
        BY <3>2, <3>3, <4>2
      <4>3. CASE r.id # i /\ s.id = i
        BY <3>2, <3>3, <4>3
      <4>4. CASE r.id # i /\ s.id # i
        BY <1>2, <3>2, <4>4 DEF RoomsOK
      <4>. QED BY <4>1, <4>2, <4>3, <4>4
    <3>7. \A p, q \in rooms' : p.id = q.id \/ p.name = q.name => p = q
      BY <3>1, <3>4, <3>5, <3>6
    <3>8. Bounded(rooms', lastId["rooms"])
      BY <1>2, <3>1, <3>4 DEF RoomsOK, Bounded
    <3>. QED BY <3>1, <3>4, <3>7, <3>8 DEF RoomsOK
  <2>3. req[w].name \in Names
    BY UnderWay DEF EditCommit, At, Shape
  <2>. QED BY <2>1, <2>2, <2>3 DEF EditCommit
<1>. QED BY <1>1, <1>3, CommitKeepsTypes DEF TypeInv

\* apply_to_room.
LEMMA ApplyKeepsTypes ==
  ASSUME TypeInv, NEW w \in Workers, ApplyCommit(w)
  PROVE  TypeInv'
<1>. DEFINE i == req[w].room.id
<1>. DEFINE n == NewId("apps", apps)
<1>. DEFINE new == [id |-> n, room |-> i, user |-> req[w].user, status |-> "PENDING"]
<1>. DEFINE last == HandOut({"apps"})
<1>1. /\ RoomsOK(rooms, lastId["rooms"]) /\ MembersOK(members, lastId["members"])
      /\ AppsOK(apps, lastId["apps"]) /\ lastId \in [Tables -> Nat]
      /\ approvals \subseteq Nat \X Users
      /\ {"apps"} \in SUBSET Tables /\ "rooms" \in Tables /\ "members" \in Tables
      /\ "apps" \in Tables
  BY DEF TypeInv, Tables
<1>2. Finish(w) /\ UNCHANGED <<rooms, members, approvals>>
  BY DEF ApplyCommit
<1>3. CASE UNCHANGED <<apps, lastId>>
  BY <1>1, <1>2, <1>3, CommitKeepsTypes
<1>4. ASSUME apps' = apps \cup {new}, lastId' = last PROVE TypeInv'
  <2>1. i \in Nat /\ req[w].user \in Users
    BY UnderWay DEF ApplyCommit, At, Shape, Requests, RoomRows
  <2>2. \A a \in apps : a.id \in Nat
    BY <1>1 DEF AppsOK, AppRows
  <2>3. n \in Nat /\ \A a \in apps : a.id < n
    BY <1>1, <2>2, NewIdIsNew DEF AppsOK
  <2>4. /\ last \in [Tables -> Nat] /\ lastId["apps"] <= last["apps"]
        /\ last["rooms"] = lastId["rooms"] /\ last["members"] = lastId["members"]
        /\ Backend = "postgresql" => last["apps"] = n
    BY <1>1, HandOutIds
  <2>. HIDE DEF n, last
  <2>5. new \in AppRows
    BY <2>1, <2>3 DEF AppRows
  <2>6. \A a, b \in apps' : a.id = b.id => a = b
    BY <1>1, <1>4, <2>2, <2>3 DEF AppsOK
  <2>7. Bounded(apps', last["apps"])
    <3>1. last["apps"] \in Nat /\ lastId["apps"] \in Nat
      BY <1>1, <2>4
    <3>2. Bounded(apps, lastId["apps"])
      BY <1>1 DEF AppsOK
    <3>3. \A a \in apps' : a.id = n \/ \E o \in apps : o.id = a.id
      BY <1>4
    <3>4. Backend = "postgresql" => n <= last["apps"]
      BY <2>3, <2>4
    <3>. QED BY <2>2, <2>3, <2>4, <3>1, <3>2, <3>3, <3>4, StillBounded
  <2>8. AppsOK(apps', last["apps"])
    BY <1>1, <1>4, <2>5, <2>6, <2>7 DEF AppsOK
  <2>. QED BY <1>1, <1>2, <1>4, <2>4, <2>8, CommitKeepsTypes
<1>5. ASSUME UNCHANGED lastId,
             apps' = {IF a.id = req[w].row.id THEN [a EXCEPT !.status = "PENDING"] ELSE a
                      : a \in apps}
      PROVE  TypeInv'
  <2>. DEFINE f == [a \in apps |->
                      IF a.id = req[w].row.id THEN [a EXCEPT !.status = "PENDING"] ELSE a]
  <2>1. apps' = {f[a] : a \in apps}
    BY <1>5
  <2>2. \A a \in apps : f[a] \in AppRows /\ f[a].id = a.id
    BY <1>1 DEF AppsOK, AppRows
  <2>. HIDE DEF f
  <2>3. AppsOK(apps', lastId["apps"])
    BY <2>1, <2>2, AppsChanged
  <2>. QED BY <1>1, <1>2, <1>5, <2>3, CommitKeepsTypes
<1>. QED BY <1>3, <1>4, <1>5 DEF ApplyCommit

\* review_application.
LEMMA ReviewKeepsTypes ==
  ASSUME TypeInv, NEW w \in Workers, ReviewCommit(w)
  PROVE  TypeInv'
<1>. DEFINE i == req[w].row.room
<1>. DEFINE u == req[w].target
<1>. DEFINE verdict == Verdict(req[w].approve)
<1>. DEFINE f == [a \in apps |->
                    IF a.id = req[w].row.id THEN [a EXCEPT !.status = verdict] ELSE a]
<1>1. /\ RoomsOK(rooms, lastId["rooms"]) /\ MembersOK(members, lastId["members"])
      /\ AppsOK(apps, lastId["apps"]) /\ lastId \in [Tables -> Nat]
      /\ approvals \subseteq Nat \X Users
      /\ {"members"} \in SUBSET Tables /\ "rooms" \in Tables /\ "members" \in Tables
      /\ "apps" \in Tables
  BY DEF TypeInv, Tables
<1>2. Finish(w) /\ UNCHANGED rooms
  BY DEF ReviewCommit
<1>3. i \in Nat /\ u \in Users
  BY UnderWay DEF ReviewCommit, At, Shape, Requests, AppRows
<1>4. CASE UNCHANGED <<apps, approvals, members, lastId>>
  BY <1>1, <1>2, <1>4, CommitKeepsTypes
<1>5. ASSUME apps' = {f[a] : a \in apps},
             approvals' = IF req[w].approve THEN approvals \cup {<<i, u>>} ELSE approvals,
             \/ MayInsertMember(i, u) /\ InsertMember(i, u)
             \/ UNCHANGED <<members, lastId>>
      PROVE  TypeInv'
  <2>1. \A a \in apps : f[a] \in AppRows /\ f[a].id = a.id
    BY <1>1 DEF AppsOK, AppRows, Verdict
  <2>. HIDE DEF f
  <2>2. AppsOK(apps', lastId["apps"])
    BY <1>5, <2>1, AppsChanged
  <2>3. approvals' \subseteq Nat \X Users
    BY <1>1, <1>3, <1>5
  <2>4. /\ MembersOK(members', lastId'["members"]) /\ lastId' \in [Tables -> Nat]
        /\ lastId'["rooms"] = lastId["rooms"] /\ lastId'["apps"] = lastId["apps"]
    <3>1. CASE UNCHANGED <<members, lastId>>
      BY <1>1, <3>1
    <3>2. CASE MayInsertMember(i, u) /\ InsertMember(i, u)
      BY <1>1, <1>3, <3>2, MemberInserted, HandOutIds DEF MayInsertMember, InsertMember
    <3>. QED BY <1>5, <3>1, <3>2
  <2>. QED BY <1>1, <1>2, <2>2, <2>3, <2>4, CommitKeepsTypes
<1>. QED BY <1>4, <1>5 DEF ReviewCommit

\* Every step keeps types and keys.
LEMMA TypeStep ==
  ASSUME TypeInv, [Next]_vars
  PROVE  TypeInv'
<1>1. CASE UNCHANGED vars
  BY <1>1 DEF TypeInv, vars
<1>2. ASSUME NEW w \in Workers, Call(w) PROVE TypeInv'
  BY <1>2, CallKeepsTypes
<1>3. ASSUME NEW w \in Workers, Step(w) PROVE TypeInv'
  BY <1>3, ReadsKeepTypes, CreateKeepsTypes, JoinKeepsTypes, RemoveKeepsTypes,
     DeleteKeepsTypes, EditKeepsTypes, ApplyKeepsTypes, ReviewKeepsTypes
  DEF Step
<1>. QED BY <1>1, <1>2, <1>3 DEF Next

\* The typing invariant is inductive, on either database.
LEMMA TypeInvariance == Spec => []TypeInv
<1>1. Init => TypeInv
  BY DEF Init, TypeInv, RoomsOK, MembersOK, AppsOK, Bounded, Tables
<1>. QED BY <1>1, TypeStep, PTL DEF Spec

\* The tables keep the types and the unique keys of models.py, and every
\* request the locals its statements expect, on either database.
THEOREM TypeCorrect == Spec => []TypeOK
<1>1. TypeInv => TypeOK
  BY DEF TypeInv, TypeOK, RoomsOK, MembersOK, AppsOK, Tables
<1>. QED BY <1>1, TypeInvariance, PTL

\* create_room puts a room and its creator's membership in the database
\* together, and no other request makes a room.
THEOREM CreatorsAreMembers == Spec => CreatorIsMember
<1>. DEFINE HasCreator(r) ==
       RoomWithId(r.id) = {} => \E m \in members' \ members : m.room = r.id /\ m.user = r.owner
<1>1. ASSUME TypeInv, [Next]_vars, NEW r \in rooms' PROVE HasCreator(r)
  <2>1. /\ RoomsOK(rooms, lastId["rooms"]) /\ MembersOK(members, lastId["members"])
        /\ lastId \in [Tables -> Nat] /\ "members" \in Tables
    BY <1>1 DEF TypeInv, Tables
  <2>2. ASSUME rooms' \subseteq rooms PROVE HasCreator(r)
    BY <2>2 DEF RoomWithId
  <2>3. ASSUME NEW w \in Workers, CreateCommit(w) PROVE HasCreator(r)
    <3>1. CASE UNCHANGED rooms
      BY <2>2, <3>1
    <3>. DEFINE room == [req[w].room EXCEPT !.id = NewId("rooms", rooms)]
    <3>2. ASSUME rooms' = rooms \cup {room},
                 members' = members \cup {NewMember(room.id, room.owner)}
          PROVE  HasCreator(r)
      <4>1. \A m \in members : m.id \in Nat
        BY <2>1 DEF MembersOK, MemberRows
      <4>2. NewId("members", members) \in Nat /\ \A m \in members : m.id < NewId("members", members)
        BY <2>1, <4>1, NewIdIsNew DEF MembersOK
      <4>. HIDE DEF room
      <4>3. NewMember(room.id, room.owner) \notin members
        BY <4>1, <4>2 DEF NewMember
      <4>4. CASE r \in rooms
        BY <4>4 DEF RoomWithId
      <4>5. CASE r = room
        BY <3>2, <4>3, <4>5 DEF NewMember
      <4>. QED BY <1>1, <3>2, <4>4, <4>5
    <3>. QED BY <2>3, <3>1, <3>2 DEF CreateCommit, OwnerMembership
  <2>4. ASSUME NEW w \in Workers, EditCommit(w) PROVE HasCreator(r)
    <3>1. CASE UNCHANGED rooms
      BY <2>2, <3>1
    <3>2. CASE rooms' = {IF q.id = req[w].room.id THEN [q EXCEPT !.name = req[w].name] ELSE q
                         : q \in rooms}
      <4>1. \A q \in rooms : [q EXCEPT !.name = req[w].name].id = q.id
        BY <2>1 DEF RoomsOK, RoomRows
      <4>2. \E q \in rooms : r = q \/ r = [q EXCEPT !.name = req[w].name]
        BY <1>1, <3>2
      <4>. QED BY <4>1, <4>2 DEF RoomWithId
    <3>. QED BY <2>4, <3>1, <3>2 DEF EditCommit
  <2>5. ASSUME NEW w \in Workers, Step(w), ~CreateCommit(w), ~EditCommit(w)
        PROVE  rooms' \subseteq rooms
    BY <2>5
    DEF Step, JoinCheckMember, JoinCheckStatus, JoinRefuse, Answer, JoinCommit,
        LeaveLoadMembership, KickLoadMembership, LoadMembership, LeaveCommit, KickCommit,
        DeleteMembership, DeleteLoadApps, DeleteCommit, EditCheckName, ApplyCheckMember,
        ApplyLoadApp, ApplyCommit, ReviewLoadRoom, ReviewCheckMember, ReviewCommit, tables
  <2>6. ASSUME NEW w \in Workers, Call(w) PROVE rooms' = rooms
    BY <2>6 DEF Call, CreateCheck, JoinLoadRoom, LeaveLoadRoom, KickLoadRoom, DeleteLoadRoom,
                EditLoadRoom, ApplyLoadRoom, ReviewLoadApp, vars, tables
  <2>. HIDE DEF HasCreator
  <2>. QED BY <1>1, <2>2, <2>3, <2>4, <2>5, <2>6 DEF Next, vars
<1>2. TypeInv /\ [Next]_vars => [\A r \in rooms' : HasCreator(r)]_vars
  BY <1>1
<1>. QED BY <1>2, TypeInvariance, PTL DEF Spec, CreatorIsMember

-----------------------------------------------------------------------------
(* What the tables say of applications, when requests come one at a time,  *)
(* on either database.                                                     *)

OneAtATime == \A v, w \in Workers : v = w

RoomRead(r) ==
  /\ r.op \in {"join", "apply", "delete"} => r.room \in rooms
  /\ r.op = "review" /\ r.at # "room" => r.room \in rooms /\ r.room.id = r.row.room

AppRead(r) == r.op = "review" => r.row \in apps /\ r.target = r.row.user

Admitted(r) ==
  r.op = "join" /\ r.at = "commit" /\ r.room.type = "PRIVATE" =>
    \E a \in Applications(r.room.id, r.user) : a.status = "APPROVED"

\* apply_to_room inserts where there is no application, updates the one there
\* is, and has seen no membership.
Applying(r) ==
  r.op = "apply" =>
    /\ r.at # "member" => Membership(r.room.id, r.user) = {}
    /\ r.at # "commit" => r.row = NoRow
    /\ r.at = "commit" /\ r.row = NoRow => Applications(r.room.id, r.user) = {}
    /\ r.row # NoRow => r.row \in Applications(r.room.id, r.user)

Deleting(r) ==
  r.op = "delete" /\ r.at = "commit" => r.pending = Ids({a \in apps : a.room = r.room.id})

\* What a request has read so far is what the tables hold: nobody else runs.
Fresh(r) == RoomRead(r) /\ AppRead(r) /\ Admitted(r) /\ Applying(r) /\ Deleting(r)

FreshInv == \A w \in Workers : req[w] # Idle => Fresh(req[w])

TablesInv ==
  /\ \A r \in rooms : r.id > 0
  /\ \A a \in apps : a.room # NoRoom => RoomWithId(a.room) # {}
  /\ OneApplication
  /\ PendingIsOutside

SeqInv == TypeInv /\ TablesInv /\ FreshInv

-----------------------------------------------------------------------------
(* Reads.                                                                  *)

\* A step that only reads keeps the invariant if what it gives its request is
\* what the tables hold.
LEMMA ReadStep ==
  ASSUME OneAtATime, SeqInv, UNCHANGED tables, NEW w \in Workers, NEW r,
         r = Idle \/ Fresh(r), req' = [req EXCEPT ![w] = r]
  PROVE  TablesInv' /\ FreshInv'
<1>1. TablesInv'
  BY DEF SeqInv, TablesInv, tables, OneApplication, PendingIsOutside, RoomWithId, Membership
<1>2. \A v \in Workers : req'[v] = r
  BY DEF OneAtATime, SeqInv, TypeInv
<1>3. Fresh(r) => Fresh(r)'
  BY DEF Fresh, RoomRead, AppRead, Admitted, Applying, Deleting, tables, Applications,
         Membership, Ids
<1>4. ASSUME NEW v \in Workers, req'[v] # Idle PROVE Fresh(req[v])'
  BY <1>2, <1>3, <1>4
  DEF Fresh, RoomRead, AppRead, Admitted, Applying, Deleting, Applications, Membership, Ids
<1>. QED BY <1>1, <1>4 DEF FreshInv

\* Every call starts with what it has just read.
LEMMA CallStep ==
  ASSUME OneAtATime, SeqInv, NEW w \in Workers, Call(w)
  PROVE  TablesInv' /\ FreshInv'
<1>1. PICK u \in Users :
        \/ \E n \in Names, t \in RoomTypes : CreateCheck(w, u, n, t)
        \/ \E n \in Names : JoinLoadRoom(w, u, n) \/ LeaveLoadRoom(w, u, n)
                             \/ DeleteLoadRoom(w, u, n) \/ ApplyLoadRoom(w, u, n)
        \/ \E n \in Names, v \in Users : KickLoadRoom(w, u, n, v)
        \/ \E n, new \in Names : EditLoadRoom(w, u, n, new)
        \/ \E i \in 1 .. MaxId["apps"], approve \in BOOLEAN : ReviewLoadApp(w, u, i, approve)
  BY DEF Call
<1>2. ASSUME UNCHANGED vars PROVE TablesInv' /\ FreshInv'
  BY <1>2
  DEF SeqInv, TablesInv, vars, OneApplication, PendingIsOutside, RoomWithId, Membership,
      FreshInv, Fresh, RoomRead, AppRead, Admitted, Applying, Deleting, Applications, Ids
<1>3. ASSUME NEW n \in Names, NEW t \in RoomTypes, CreateCheck(w, u, n, t)
      PROVE  TablesInv' /\ FreshInv'
  <2>1. \A room : Fresh(Request("create", u, "commit", room, u))
    BY DEF Request, Fresh, RoomRead, AppRead, Admitted, Applying, Deleting
  <2>. QED BY <1>2, <1>3, <2>1, ReadStep DEF CreateCheck, Begin
<1>4. ASSUME NEW n \in Names, NEW v \in Users,
             \/ JoinLoadRoom(w, u, n) \/ LeaveLoadRoom(w, u, n)
             \/ DeleteLoadRoom(w, u, n) \/ ApplyLoadRoom(w, u, n)
             \/ KickLoadRoom(w, u, n, v)
      PROVE  TablesInv' /\ FreshInv'
  <2>1. ASSUME NEW r \in RoomNamed(n), NEW target, NEW op, NEW at,
               <<op, at>> \in {<<"join", "member">>, <<"leave", "row">>, <<"kick", "row">>,
                               <<"delete", "apps">>, <<"apply", "member">>}
        PROVE  Fresh(Request(op, u, at, r, target))
    <3>1. op \in {"join", "leave", "kick", "delete", "apply"} /\ at # "commit"
          /\ (op = "apply" => at = "member")
      BY <2>1
    <3>2. r \in rooms
      BY DEF RoomNamed
    <3>. QED BY <3>1, <3>2
             DEF Request, Fresh, RoomRead, AppRead, Admitted, Applying, Deleting
  <2>. QED BY <1>2, <1>4, <2>1, ReadStep
           DEF JoinLoadRoom, LeaveLoadRoom, DeleteLoadRoom, ApplyLoadRoom, KickLoadRoom, Begin
<1>5. ASSUME NEW n \in Names, NEW new \in Names, EditLoadRoom(w, u, n, new)
      PROVE  TablesInv' /\ FreshInv'
  <2>1. \A r : Fresh([Request("edit", u, "name", r, u) EXCEPT !.name = new])
    BY DEF Request, Fresh, RoomRead, AppRead, Admitted, Applying, Deleting
  <2>. QED BY <1>2, <1>5, <2>1, ReadStep DEF EditLoadRoom, Begin
<1>6. ASSUME NEW i, NEW approve \in BOOLEAN, ReviewLoadApp(w, u, i, approve)
      PROVE  TablesInv' /\ FreshInv'
  <2>1. \A a \in apps : Fresh([Request("review", u, "room", NoRow, a.user)
                                 EXCEPT !.row = a, !.approve = approve])
    BY DEF Request, Fresh, RoomRead, AppRead, Admitted, Applying, Deleting
  <2>. QED BY <1>2, <1>6, <2>1, ReadStep DEF ReviewLoadApp, Begin
<1>. QED BY <1>1, <1>3, <1>4, <1>5, <1>6

\* Every read adds what the tables hold.
LEMMA ReadsStep ==
  ASSUME OneAtATime, SeqInv, NEW w \in Workers,
         \/ JoinCheckMember(w) \/ JoinCheckStatus(w) \/ JoinRefuse(w)
         \/ LeaveLoadMembership(w) \/ KickLoadMembership(w)
         \/ DeleteLoadApps(w) \/ EditCheckName(w)
         \/ ApplyCheckMember(w) \/ ApplyLoadApp(w)
         \/ ReviewLoadRoom(w) \/ ReviewCheckMember(w)
  PROVE  TablesInv' /\ FreshInv'
<1>1. req \in [Workers -> Requests \cup {Idle}]
  BY DEF SeqInv, TypeInv
<1>2. UNCHANGED tables
  BY DEF JoinCheckMember, JoinCheckStatus, JoinRefuse, Answer, LeaveLoadMembership,
         KickLoadMembership, LoadMembership, DeleteLoadApps, EditCheckName, ApplyCheckMember,
         ApplyLoadApp, ReviewLoadRoom, ReviewCheckMember
<1>3. Shape(req[w]) /\ Fresh(req[w]) /\ req[w] \in Requests
  BY UnderWay
  DEF SeqInv, FreshInv, JoinCheckMember, JoinCheckStatus, JoinRefuse, LeaveLoadMembership,
      KickLoadMembership, LoadMembership, DeleteLoadApps, EditCheckName, ApplyCheckMember,
      ApplyLoadApp, ReviewLoadRoom, ReviewCheckMember, At
<1>4. ASSUME Finish(w) PROVE TablesInv' /\ FreshInv'
  BY <1>2, <1>4, ReadStep DEF Finish
<1>5. ASSUME NEW at, Goto(w, at), Fresh([req[w] EXCEPT !.at = at])
      PROVE  TablesInv' /\ FreshInv'
  <2>1. req' = [req EXCEPT ![w] = [req[w] EXCEPT !.at = at]]
    BY <1>5 DEF Goto
  <2>. QED BY <1>2, <1>5, <2>1, ReadStep
<1>6. CASE JoinCheckMember(w)
  <2>1. ASSUME NEW at, at = "commit" => req[w].room.type # "PRIVATE"
        PROVE  Fresh([req[w] EXCEPT !.at = at])
    BY <1>3, <1>6, <2>1
    DEF JoinCheckMember, At, Requests, Fresh, RoomRead, AppRead, Admitted, Applying, Deleting
  <2>. QED BY <1>4, <1>5, <1>6, <2>1 DEF JoinCheckMember
<1>7. CASE JoinCheckStatus(w)
  <2>1. ASSUME NEW at, at = "commit" =>
                 \E a \in Applications(req[w].room.id, req[w].user) : Admits(a)
        PROVE  Fresh([req[w] EXCEPT !.at = at])
    BY <1>3, <1>7, <2>1
    DEF JoinCheckStatus, At, Requests, Fresh, RoomRead, AppRead, Admitted, Applying,
        Deleting, Admits
  <2>. QED BY <1>5, <1>7, <2>1 DEF JoinCheckStatus
<1>8. CASE JoinRefuse(w)
  BY <1>4, <1>8 DEF JoinRefuse, Answer
<1>9. ASSUME NEW op \in {"leave", "kick"}, LoadMembership(w, op) PROVE TablesInv' /\ FreshInv'
  <2>1. ASSUME NEW m, req' = [req EXCEPT ![w].at = "commit", ![w].row = m]
        PROVE  TablesInv' /\ FreshInv'
    <3>1. Fresh([req[w] EXCEPT !.at = "commit", !.row = m])
      BY <1>3, <1>9
      DEF LoadMembership, At, Requests, Fresh, RoomRead, AppRead, Admitted, Applying, Deleting
    <3>2. req' = [req EXCEPT ![w] = [req[w] EXCEPT !.at = "commit", !.row = m]]
      BY <1>1, <2>1
    <3>. QED BY <1>2, <3>1, <3>2, ReadStep
  <2>. QED BY <1>4, <1>9, <2>1 DEF LoadMembership
<1>10. CASE DeleteLoadApps(w)
  <2>. DEFINE p == Ids({a \in apps : a.room = req[w].room.id})
  <2>1. req' = [req EXCEPT ![w] = [req[w] EXCEPT !.at = "commit", !.pending = p]]
    BY <1>1, <1>10 DEF DeleteLoadApps
  <2>2. Fresh([req[w] EXCEPT !.at = "commit", !.pending = p])
    BY <1>3, <1>10
    DEF DeleteLoadApps, At, Requests, Fresh, RoomRead, AppRead, Admitted, Applying, Deleting
  <2>. QED BY <1>2, <2>1, <2>2, ReadStep
<1>11. CASE EditCheckName(w)
  <2>1. Fresh([req[w] EXCEPT !.at = "commit"])
    BY <1>3, <1>11
    DEF EditCheckName, At, Requests, Fresh, RoomRead, AppRead, Admitted, Applying, Deleting
  <2>. QED BY <1>4, <1>5, <1>11, <2>1 DEF EditCheckName
<1>12. CASE ApplyCheckMember(w)
  <2>1. ASSUME Membership(req[w].room.id, req[w].user) = {}
        PROVE  Fresh([req[w] EXCEPT !.at = "app"])
    BY <1>3, <1>12, <2>1
    DEF ApplyCheckMember, At, Requests, Fresh, RoomRead, AppRead, Admitted, Applying, Deleting
  <2>. QED BY <1>4, <1>5, <1>12, <2>1 DEF ApplyCheckMember
<1>13. CASE ApplyLoadApp(w)
  <2>. DEFINE found == Applications(req[w].room.id, req[w].user)
  <2>1. ASSUME found = {} PROVE Fresh([req[w] EXCEPT !.at = "commit"])
    BY <1>3, <1>13, <2>1
    DEF ApplyLoadApp, At, Requests, Fresh, RoomRead, AppRead, Admitted, Applying, Deleting
  <2>2. ASSUME NEW a \in found, NEW p,
               req' = [req EXCEPT ![w].at = "commit", ![w].row = a, ![w].pending = p]
        PROVE  TablesInv' /\ FreshInv'
    <3>1. a # NoRow
      BY DEF Applications, SeqInv, TypeInv, AppsOK, AppRows, NoRow
    <3>2. Fresh([req[w] EXCEPT !.at = "commit", !.row = a, !.pending = p])
      BY <1>3, <1>13, <3>1
      DEF ApplyLoadApp, At, Requests, Fresh, RoomRead, AppRead, Admitted, Applying, Deleting
    <3>3. req' = [req EXCEPT ![w] = [req[w] EXCEPT !.at = "commit", !.row = a, !.pending = p]]
      BY <1>1, <2>2
    <3>. QED BY <1>2, <3>2, <3>3, ReadStep
  <2>. QED BY <1>4, <1>5, <1>13, <2>1, <2>2 DEF ApplyLoadApp
<1>14. CASE ReviewLoadRoom(w)
  <2>1. ASSUME NEW r \in RoomWithId(req[w].row.room),
               req' = [req EXCEPT ![w].room = r,
                                  ![w].at = IF req[w].approve THEN "member" ELSE "commit"]
        PROVE  TablesInv' /\ FreshInv'
    <3>. DEFINE at == IF req[w].approve THEN "member" ELSE "commit"
    <3>1. req' = [req EXCEPT ![w] = [req[w] EXCEPT !.room = r, !.at = at]]
      BY <1>1, <2>1
    <3>. HIDE DEF at
    <3>2. Fresh([req[w] EXCEPT !.room = r, !.at = at])
      BY <1>3, <1>14
      DEF ReviewLoadRoom, RoomWithId, At, Requests, Fresh, RoomRead, AppRead, Admitted,
          Applying, Deleting
    <3>. QED BY <1>2, <3>1, <3>2, ReadStep
  <2>. QED BY <1>4, <1>14, <2>1 DEF ReviewLoadRoom
<1>15. CASE ReviewCheckMember(w)
  <2>1. \A at \in {"admit", "commit"} : Fresh([req[w] EXCEPT !.at = at])
    BY <1>3, <1>15
    DEF ReviewCheckMember, At, Requests, Fresh, RoomRead, AppRead, Admitted, Applying, Deleting
  <2>. QED BY <1>5, <1>15, <2>1 DEF ReviewCheckMember
<1>. QED
  BY <1>6, <1>7, <1>8, <1>9, <1>10, <1>11, <1>12, <1>13, <1>14, <1>15
  DEF LeaveLoadMembership, KickLoadMembership

-----------------------------------------------------------------------------
(* Commits.                                                                *)

\* Once the only request has answered, none is under way.
LEMMA Answered ==
  ASSUME OneAtATime, SeqInv, NEW w \in Workers, Finish(w)
  PROVE  FreshInv'
<1>1. \A v \in Workers : req'[v] = Idle
  BY DEF OneAtATime, SeqInv, TypeInv, Finish
<1>. QED BY <1>1 DEF FreshInv

\* The types of the rows.
LEMMA Rows ==
  ASSUME SeqInv
  PROVE  /\ rooms \subseteq RoomRows /\ members \subseteq MemberRows /\ apps \subseteq AppRows
         /\ \A r, s \in rooms : r.id = s.id => r = s
         /\ \A a, b \in apps : a.id = b.id => a = b
         /\ lastId \in [Tables -> Nat]
BY DEF SeqInv, TypeInv, RoomsOK, MembersOK, AppsOK

\* What a committing request has read.
LEMMA Committing ==
  ASSUME SeqInv, NEW w \in Workers, req[w].op # "idle"
  PROVE  Shape(req[w]) /\ Fresh(req[w]) /\ req[w] \in Requests
BY UnderWay DEF SeqInv, FreshInv

\* create_room: no application names the new room, and no old room is joined.
LEMMA CreateStep ==
  ASSUME OneAtATime, SeqInv, NEW w \in Workers, CreateCommit(w)
  PROVE  TablesInv'
<1>. DEFINE n == NewId("rooms", rooms)
<1>. DEFINE room == [req[w].room EXCEPT !.id = n]
<1>1. CASE UNCHANGED <<rooms, members>>
  BY <1>1
  DEF CreateCommit, SeqInv, TablesInv, OneApplication, PendingIsOutside, RoomWithId, Membership
<1>2. ASSUME rooms' = rooms \cup {room},
             members' = members \cup {NewMember(room.id, room.owner)}
      PROVE  TablesInv'
  <2>1. \A r \in rooms : r.id \in Nat
    BY Rows DEF RoomRows
  <2>2. n \in Nat /\ n > 0 /\ \A r \in rooms : r.id < n
    <3>1. Bounded(rooms, lastId["rooms"]) /\ lastId \in [Tables -> Nat] /\ "rooms" \in Tables
      BY DEF SeqInv, TypeInv, RoomsOK, Tables
    <3>. QED BY <2>1, <3>1, NewIdIsNew
  <2>3. req[w].room \in RoomRows
    BY Committing DEF CreateCommit, At, Shape
  <2>. HIDE DEF n
  <2>4. room.id = n
    BY <2>3 DEF RoomRows
  <2>5. apps' = apps
    BY DEF CreateCommit
  <2>. HIDE DEF room
  <2>6. NewMember(room.id, room.owner).room = n
    BY <2>4 DEF NewMember
  <2>7. \A a \in apps : a.room # n
    BY <2>1, <2>2 DEF SeqInv, TablesInv, RoomWithId, NoRoom
  <2>8. (\A r \in rooms : r.id > 0)'
    BY <1>2, <2>2, <2>4 DEF SeqInv, TablesInv
  <2>9. (\A a \in apps : a.room # NoRoom => RoomWithId(a.room) # {})'
    BY <1>2, <2>5 DEF SeqInv, TablesInv, RoomWithId
  <2>10. PendingIsOutside'
    <3>. SUFFICES ASSUME NEW a \in apps, NEW r \in rooms', a.room = r.id,
                         r.type = "PRIVATE", a.status = "PENDING",
                         NEW m \in members', m.room = r.id, m.user = a.user
                  PROVE  FALSE
      BY <2>5 DEF PendingIsOutside, Membership
    <3>1. r \in rooms /\ r.id # n
      BY <1>2, <2>4, <2>7
    <3>2. m \in members
      BY <1>2, <2>6, <3>1
    <3>. QED BY <3>1, <3>2 DEF SeqInv, TablesInv, PendingIsOutside, Membership
  <2>. QED BY <2>5, <2>8, <2>9, <2>10 DEF SeqInv, TablesInv, OneApplication
<1>. QED BY <1>1, <1>2 DEF CreateCommit, OwnerMembership

\* join_room: whoever may join a private room has been approved, and has no
\* other application there.
LEMMA JoinStep ==
  ASSUME OneAtATime, SeqInv, NEW w \in Workers, JoinCommit(w)
  PROVE  TablesInv'
<1>. DEFINE i == req[w].room.id
<1>. DEFINE u == req[w].user
<1>1. rooms' = rooms /\ apps' = apps
  BY DEF JoinCommit
<1>2. req[w].room \in rooms /\ Admitted(req[w])
  BY Committing DEF JoinCommit, At, Fresh, RoomRead
<1>3. \A m \in members' : m \in members \/ (m.room = i /\ m.user = u)
  BY DEF JoinCommit, InsertMember, NewMember
<1>4. PendingIsOutside'
  <2>. SUFFICES ASSUME NEW a \in apps, NEW r \in rooms, a.room = r.id,
                       r.type = "PRIVATE", a.status = "PENDING",
                       NEW m \in members', m.room = r.id, m.user = a.user
                PROVE  FALSE
    BY <1>1 DEF PendingIsOutside, Membership
  <2>1. CASE m \in members
    BY <2>1 DEF SeqInv, TablesInv, PendingIsOutside, Membership
  <2>2. CASE m.room = i /\ m.user = u
    <3>1. r = req[w].room
      BY <1>2, <2>2, Rows
    <3>2. PICK b \in apps : b.room = i /\ b.user = u /\ b.status = "APPROVED"
      BY <1>2, <3>1 DEF JoinCommit, At, Admitted, Applications
    <3>3. a.room # NoRoom
      BY DEF SeqInv, TablesInv, NoRoom
    <3>4. a = b
      BY <2>2, <3>2, <3>3 DEF SeqInv, TablesInv, OneApplication
    <3>. QED BY <3>2, <3>4
  <2>. QED BY <1>3, <2>1, <2>2
<1>. QED BY <1>1, <1>4 DEF SeqInv, TablesInv, OneApplication, RoomWithId

\* leave_room, kick_member: memberships only go.
LEMMA RemoveStep ==
  ASSUME OneAtATime, SeqInv, NEW w \in Workers, LeaveCommit(w) \/ KickCommit(w)
  PROVE  TablesInv'
<1>1. rooms' = rooms /\ apps' = apps /\ members' \subseteq members
  BY DEF LeaveCommit, KickCommit, DeleteMembership
<1>. QED BY <1>1
         DEF SeqInv, TablesInv, OneApplication, PendingIsOutside, RoomWithId, Membership

\* delete_room_entry: the room's applications are orphaned with it, and no
\* other room's are.
LEMMA DeleteStep ==
  ASSUME OneAtATime, SeqInv, NEW w \in Workers, DeleteCommit(w)
  PROVE  TablesInv'
<1>. DEFINE i == req[w].room.id
<1>. DEFINE orphaned(a) == a.id \in req[w].pending \/ (ForeignKeys /\ a.room = i)
<1>. DEFINE f(a) == IF orphaned(a) THEN [a EXCEPT !.room = NoRoom] ELSE a
<1>1. /\ rooms' = {r \in rooms : r.id # i} /\ apps' = {f(a) : a \in apps}
      /\ members' \subseteq members
  BY DEF DeleteCommit
<1>2. req[w].pending = Ids({a \in apps : a.room = i})
  BY Committing DEF DeleteCommit, At, Fresh, Deleting
<1>3. \A a \in apps : orphaned(a) <=> a.room = i
  BY <1>2, Rows DEF Ids
<1>4. \A a \in apps :
        /\ a.room = i => f(a).room = NoRoom
        /\ a.room # i => f(a) = a
        /\ f(a).user = a.user
  BY <1>3, Rows DEF AppRows
<1>. HIDE DEF f, orphaned
<1>5. \A a \in apps' : a.room # NoRoom => a \in apps /\ a.room # i
  BY <1>1, <1>4
<1>6. (\A r \in rooms : r.id > 0)'
  BY <1>1 DEF SeqInv, TablesInv
<1>7. (\A a \in apps : a.room # NoRoom => RoomWithId(a.room) # {})'
  BY <1>1, <1>5 DEF SeqInv, TablesInv, RoomWithId
<1>8. OneApplication'
  BY <1>5 DEF SeqInv, TablesInv, OneApplication
<1>9. PendingIsOutside'
  <2>1. \A r \in rooms' : r \in rooms /\ r.id # NoRoom
    BY <1>1 DEF SeqInv, TablesInv, NoRoom
  <2>. QED BY <1>1, <1>5, <2>1 DEF SeqInv, TablesInv, PendingIsOutside, Membership
<1>. QED BY <1>6, <1>7, <1>8, <1>9 DEF TablesInv

\* edit_room_entry: a room keeps its id and its type.
LEMMA EditStep ==
  ASSUME OneAtATime, SeqInv, NEW w \in Workers, EditCommit(w)
  PROVE  TablesInv'
<1>. DEFINE g(r) == IF r.id = req[w].room.id THEN [r EXCEPT !.name = req[w].name] ELSE r
<1>1. apps' = apps /\ members' = members
  BY DEF EditCommit
<1>2. CASE rooms' = rooms
  BY <1>1, <1>2
  DEF SeqInv, TablesInv, OneApplication, PendingIsOutside, RoomWithId, Membership
<1>3. CASE rooms' = {g(r) : r \in rooms}
  <2>1. \A r \in rooms : g(r).id = r.id /\ g(r).type = r.type
    BY Rows DEF RoomRows
  <2>. HIDE DEF g
  <2>2. \A r \in rooms' : \E s \in rooms : r.id = s.id /\ r.type = s.type
    BY <1>3, <2>1
  <2>3. \A s \in rooms : \E r \in rooms' : r.id = s.id
    BY <1>3, <2>1
  <2>. QED BY <1>1, <2>2, <2>3
           DEF SeqInv, TablesInv, OneApplication, PendingIsOutside, RoomWithId, Membership
<1>. QED BY <1>2, <1>3 DEF EditCommit

\* apply_to_room: the caller has no membership, and the new application is the
\* only one, or the row made pending again is the one there was.
LEMMA ApplyStep ==
  ASSUME OneAtATime, SeqInv, NEW w \in Workers, ApplyCommit(w)
  PROVE  TablesInv'
<1>. DEFINE i == req[w].room.id
<1>. DEFINE u == req[w].user
<1>. DEFINE new == [id |-> NewId("apps", apps), room |-> i, user |-> u, status |-> "PENDING"]
<1>. DEFINE f(a) == IF a.id = req[w].row.id THEN [a EXCEPT !.status = "PENDING"] ELSE a
<1>1. rooms' = rooms /\ members' = members
  BY DEF ApplyCommit
<1>2. /\ req[w].room \in rooms /\ Membership(i, u) = {}
      /\ req[w].row = NoRow => Applications(i, u) = {}
      /\ req[w].row # NoRow => req[w].row \in Applications(i, u)
  BY Committing DEF ApplyCommit, At, Fresh, RoomRead, Applying
<1>3. CASE apps' = apps
  BY <1>1, <1>3
  DEF SeqInv, TablesInv, OneApplication, PendingIsOutside, RoomWithId, Membership
<1>4. ASSUME req[w].row = NoRow, apps' = apps \cup {new} PROVE TablesInv'
  <2>1. new.room = i /\ new.user = u
    OBVIOUS
  <2>. HIDE DEF new
  <2>2. \A a \in apps : ~(a.room = i /\ a.user = u)
    BY <1>2, <1>4 DEF Applications
  <2>3. OneApplication'
    BY <1>4, <2>1, <2>2 DEF SeqInv, TablesInv, OneApplication
  <2>4. PendingIsOutside'
    BY <1>1, <1>2, <1>4, <2>1 DEF SeqInv, TablesInv, PendingIsOutside, Membership
  <2>5. (\A a \in apps : a.room # NoRoom => RoomWithId(a.room) # {})'
    BY <1>1, <1>2, <1>4, <2>1 DEF SeqInv, TablesInv, RoomWithId
  <2>. QED BY <1>1, <2>3, <2>4, <2>5 DEF SeqInv, TablesInv
<1>5. ASSUME req[w].row # NoRow, apps' = {f(a) : a \in apps} PROVE TablesInv'
  <2>1. \A a \in apps : f(a).room = a.room /\ f(a).user = a.user
    BY Rows DEF AppRows
  <2>2. \A a \in apps : f(a) = a \/ a = req[w].row
    BY <1>2, <1>5, Rows DEF Applications
  <2>3. req[w].row \in apps /\ req[w].row.room = i /\ req[w].row.user = u
    BY <1>2, <1>5 DEF Applications
  <2>. HIDE DEF f
  <2>4. OneApplication'
    BY <1>5, <2>1 DEF SeqInv, TablesInv, OneApplication
  <2>5. (\A a \in apps : a.room # NoRoom => RoomWithId(a.room) # {})'
    BY <1>1, <1>5, <2>1 DEF SeqInv, TablesInv, RoomWithId
  <2>6. PendingIsOutside'
    <3>. SUFFICES ASSUME NEW a \in apps, NEW r \in rooms, f(a).room = r.id,
                         r.type = "PRIVATE", f(a).status = "PENDING",
                         NEW m \in members, m.room = r.id, m.user = f(a).user
                  PROVE  FALSE
      BY <1>1, <1>5 DEF PendingIsOutside, Membership
    <3>1. CASE f(a) = a
      BY <3>1 DEF SeqInv, TablesInv, PendingIsOutside, Membership
    <3>2. CASE a = req[w].row
      BY <1>2, <2>1, <2>3, <3>2 DEF Membership
    <3>. QED BY <2>2, <3>1, <3>2
  <2>. QED BY <1>1, <2>4, <2>5, <2>6 DEF SeqInv, TablesInv
<1>. QED BY <1>3, <1>4, <1>5 DEF ApplyCommit

\* review_application: the verdict leaves no pending application of the user
\* who is let in.
LEMMA ReviewStep ==
  ASSUME OneAtATime, SeqInv, NEW w \in Workers, ReviewCommit(w)
  PROVE  TablesInv'
<1>. DEFINE i == req[w].row.room
<1>. DEFINE u == req[w].target
<1>. DEFINE verdict == Verdict(req[w].approve)
<1>. DEFINE f(a) == IF a.id = req[w].row.id THEN [a EXCEPT !.status = verdict] ELSE a
<1>1. rooms' = rooms
  BY DEF ReviewCommit
<1>2. req[w].row \in apps /\ u = req[w].row.user /\ req[w].room \in rooms /\ req[w].room.id = i
  BY Committing DEF ReviewCommit, At, Fresh, RoomRead, AppRead
<1>3. CASE apps' = apps /\ members' = members
  BY <1>1, <1>3
  DEF SeqInv, TablesInv, OneApplication, PendingIsOutside, RoomWithId, Membership
<1>4. ASSUME apps' = {f(a) : a \in apps},
             \A m \in members' : m \in members \/ (m.room = i /\ m.user = u)
      PROVE  TablesInv'
  <2>1. \A a \in apps : f(a).room = a.room /\ f(a).user = a.user
    BY Rows DEF AppRows
  <2>2. \A a \in apps : f(a) = a \/ a = req[w].row
    BY <1>2, Rows
  <2>3. f(req[w].row).status # "PENDING"
    BY <1>2, Rows DEF AppRows, Verdict
  <2>. HIDE DEF f
  <2>4. OneApplication'
    BY <1>4, <2>1 DEF SeqInv, TablesInv, OneApplication
  <2>5. (\A a \in apps : a.room # NoRoom => RoomWithId(a.room) # {})'
    BY <1>1, <1>4, <2>1 DEF SeqInv, TablesInv, RoomWithId
  <2>6. PendingIsOutside'
    <3>. SUFFICES ASSUME NEW a \in apps, NEW r \in rooms, f(a).room = r.id,
                         r.type = "PRIVATE", f(a).status = "PENDING",
                         NEW m \in members', m.room = r.id, m.user = f(a).user
                  PROVE  FALSE
      BY <1>1, <1>4 DEF PendingIsOutside, Membership
    <3>1. a # req[w].row /\ f(a) = a
      BY <2>2, <2>3
    <3>2. CASE m \in members
      BY <3>1, <3>2 DEF SeqInv, TablesInv, PendingIsOutside, Membership
    <3>3. CASE m.room = i /\ m.user = u
      <4>1. a.room # NoRoom
        BY <2>1 DEF SeqInv, TablesInv, NoRoom
      <4>2. a = req[w].row
        BY <1>2, <2>1, <3>3, <4>1 DEF SeqInv, TablesInv, OneApplication
      <4>. QED BY <3>1, <4>2
    <3>. QED BY <1>4, <3>2, <3>3
  <2>. QED BY <1>1, <2>4, <2>5, <2>6 DEF SeqInv, TablesInv
<1>. QED BY <1>3, <1>4 DEF ReviewCommit, InsertMember, NewMember

-----------------------------------------------------------------------------

\* The invariant is inductive when there is one worker at most.
LEMMA SeqStep ==
  ASSUME OneAtATime, SeqInv, [Next]_vars
  PROVE  SeqInv'
<1>1. TypeInv'
  BY TypeStep DEF SeqInv
<1>2. CASE UNCHANGED vars
  BY <1>1, <1>2
  DEF SeqInv, TablesInv, vars, OneApplication, PendingIsOutside, RoomWithId, Membership,
      FreshInv, Fresh, RoomRead, AppRead, Admitted, Applying, Deleting, Applications, Ids
<1>3. ASSUME NEW w \in Workers, Call(w) PROVE SeqInv'
  BY <1>1, <1>3, CallStep DEF SeqInv
<1>4. ASSUME NEW w \in Workers, Step(w) PROVE SeqInv'
  <2>1. CASE CreateCommit(w) \/ JoinCommit(w) \/ LeaveCommit(w) \/ KickCommit(w)
             \/ DeleteCommit(w) \/ EditCommit(w) \/ ApplyCommit(w) \/ ReviewCommit(w)
    <3>1. FreshInv'
      BY <2>1, Answered
      DEF CreateCommit, JoinCommit, LeaveCommit, KickCommit, DeleteMembership, DeleteCommit,
          EditCommit, ApplyCommit, ReviewCommit
    <3>2. TablesInv'
      BY <2>1, CreateStep, JoinStep, RemoveStep, DeleteStep, EditStep, ApplyStep, ReviewStep
    <3>. QED BY <1>1, <3>1, <3>2 DEF SeqInv
  <2>. QED BY <1>1, <1>4, <2>1, ReadsStep DEF Step, SeqInv
<1>. QED BY <1>2, <1>3, <1>4 DEF Next

LEMMA SeqInvariance == ASSUME OneAtATime PROVE Spec => []SeqInv
<1>1. Init => SeqInv
  BY DEF Init, SeqInv, TypeInv, RoomsOK, MembersOK, AppsOK, Bounded, Tables, TablesInv,
         OneApplication, PendingIsOutside, FreshInv
<1>2. SeqInv /\ [Next]_vars => SeqInv'
  BY SeqStep
<1>. QED BY <1>1, <1>2, PTL DEF Spec

\* When requests come one at a time, apply_to_room never leaves a user with
\* two applications to one room, on either database.
THEOREM OneApplicationEach == ASSUME OneAtATime PROVE Spec => []OneApplication
<1>1. SeqInv => OneApplication
  BY DEF SeqInv, TablesInv
<1>. QED BY <1>1, SeqInvariance, PTL

\* When requests come one at a time, whoever waits for a verdict on a private
\* room is not in it: not by joining, by an approval or in a reused room id.
THEOREM PendingOutside == ASSUME OneAtATime PROVE Spec => []PendingIsOutside
<1>1. SeqInv => PendingIsOutside
  BY DEF SeqInv, TablesInv
<1>. QED BY <1>1, SeqInvariance, PTL
=============================================================================
