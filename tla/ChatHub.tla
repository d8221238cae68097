------------------------------- MODULE ChatHub -------------------------------
(***************************************************************************)
(* The WebSocket endpoint and ConnectionManager of app/core/websockets.py  *)
(* with add_message and retrieve_messages of app/chat/services/messages.py.*)
(*                                                                         *)
(* Each socket has a coroutine of its own, the endpoint; it is interleaved *)
(* with the others at its awaits.  A send hands its frame over before it   *)
(* suspends, so one send is one step.  Rooms and memberships change by the *)
(* REST services (module Rooms), here the actions of the environment.      *)
(*                                                                         *)
(* Left out: frames that change nothing (blank or long messages, malformed *)
(* JSON, rate_limited replies), and the avatars and names in a frame.      *)
(***************************************************************************)
EXTENDS Naturals, FiniteSets, Sequences

CONSTANTS
  Sockets,       \* WebSockets that may be opened
  Users,
  UserOf,        \* the user each socket authenticates as
  Names,         \* room names
  RestOps,       \* what the REST services do meanwhile, in this instance
  Cascades,      \* whether the database enforces foreign keys (PostgreSQL)
  OddFrames,     \* whether clients send JSON that is no chat frame
  Lobby,         \* the name of the room there is at the start, with everyone in it
  MaxRequests,   \* bound of the model: requests the REST services serve
  MaxMessages    \* bound of the model: messages ever saved

ASSUME HubAssumption ==
  /\ IsFiniteSet(Sockets)
  /\ UserOf \in [Sockets -> Users]
  /\ Cascades \in BOOLEAN /\ OddFrames \in BOOLEAN
  /\ Lobby \in Names
  /\ MaxRequests \in Nat /\ MaxMessages \in Nat

VARIABLES
  roomOf,        \* roomOf[n]: the id of the room named n, or NoRoom
  members,       \* <<room id, user>>: the memberships
  lastRoom,      \* the last room id handed out
  requests,      \* counts the requests served, for MaxRequests
  log,           \* every message saved, in commit order; a message is its index
  conns,         \* active_connections: the sockets registered under each name
  open,          \* the sockets whose connection is alive
  conn,          \* conn[s]: the locals of the endpoint of socket s
  shown,         \* shown[s]: the messages of the init frame s received
  heard          \* heard[s]: the messages broadcast to s

restVars == <<roomOf, members, lastRoom, requests>>
vars == <<roomOf, members, lastRoom, requests, log, conns, open, conn, shown, heard>>

NoRoom == 0

\* at: the next statement.  name: the path parameter.  room: the room loaded,
\* for the handshake or for the message in hand.  msg: the message in hand.
\* audience: history, who was registered when the message in hand was saved.
\* loop: the iteration of broadcast_to_room over the set registered under the
\* name: the set's size when it began, whether the set has been dropped from the
\* dictionary since, dead_sockets, and the sockets ahead, in the part of the hash
\* table not yet walked through.  moved is history: the set has been moved to
\* another table since.
NoLoop == [size |-> 0, dropped |-> FALSE, dead |-> {}, ahead |-> {}, moved |-> FALSE]

NewConn ==
  [at |-> "new", name |-> "", room |-> NoRoom, history |-> {}, msg |-> 0,
   audience |-> {}, loop |-> NoLoop]

At(s, at) == conn[s].at = at
Goto(s, at) == conn' = [conn EXCEPT ![s].at = at]

\* The messages a room has in the table.
Messages(r) == {i \in 1 .. Len(log) : log[i].room = r /\ log[i].stored}

IsMember(r, u) == <<r, u>> \in members

\* Where the locals of the handshake, or of a message, are not used again.
Fresh(s, at) == [NewConn EXCEPT !.at = at, !.name = conn[s].name]
GoFresh(s, at) == conn' = [conn EXCEPT ![s] = Fresh(s, at)]

\* The endpoint returns or raises: the server closes the connection.
End(s, how) == GoFresh(s, how) /\ open' = open \ {s}

-----------------------------------------------------------------------------
(* ConnectionManager.                                                      *)

\* disconnect() of the sockets gone from name n; the mutated ones remove nothing,
\* or drop the whole set.
KeepAll(n, gone) == conns[n]

DropAll(n, gone) == {}

Without(n, gone) == conns[n] \ gone

\* The endpoints in the middle of an iteration over the set registered under n.
Casting(n) == {s \in Sockets : At(s, "cast") /\ conn[s].name = n}

\* Their locals once only left are still in the set, the others having been
\* discarded: nobody moves, and an emptied set is dropped from the dictionary.
Discarded(n, left) ==
  [s \in Sockets |->
     IF s \in Casting(n)
     THEN [conn[s] EXCEPT !.loop.ahead = @ \cap left, !.loop.dropped = @ \/ left = {}]
     ELSE conn[s]]

\* What may be ahead of them once s is in the set too: s has taken a slot ahead
\* or behind, or all have been moved to a larger table and lie anywhere.
Added(n, s, moved) ==
  {ahead \in [Casting(n) -> SUBSET (conns[n] \cup {s})] :
     moved \/ \A c \in Casting(n) : ahead[c] \ {s} = conn[c].loop.ahead}

\* The loop over a set stops with RuntimeError when the set's size changed.
SizeChanged(s) ==
  conn[s].loop.dropped \/ Cardinality(conns[conn[s].name]) # conn[s].loop.size

-----------------------------------------------------------------------------
(* The handshake.                                                          *)

\* Authenticated and within the connect limit, or else refused; get_room.
Connect(s, n) ==
  /\ At(s, "new")
  /\ \/ End(s, "closed")
     \/ /\ roomOf[n] # NoRoom
        /\ conn' = [conn EXCEPT ![s].at = "member", ![s].name = n, ![s].room = roomOf[n]]
        /\ open' = open \cup {s}
  /\ UNCHANGED <<restVars, log, conns, shown, heard>>

CheckMember(s) ==
  /\ At(s, "member")
  /\ \/ IsMember(conn[s].room, UserOf[s]) /\ Goto(s, "history") /\ UNCHANGED open
     \/ ~IsMember(conn[s].room, UserOf[s]) /\ End(s, "closed")
  /\ UNCHANGED <<restVars, log, conns, shown, heard>>

\* retrieve_messages; the senders are loaded by statements that follow.
ReadHistory(s) ==
  /\ At(s, "history")
  /\ conn' = [conn EXCEPT ![s].at = "accept", ![s].history = Messages(conn[s].room)]
  /\ UNCHANGED <<restVars, log, conns, open, shown, heard>>

\* connect(): accept raises if the client has gone.
Accept(s) ==
  /\ At(s, "accept")
  /\ IF s \in open THEN Goto(s, "register") ELSE Goto(s, "failed")
  /\ UNCHANGED <<restVars, log, conns, open, shown, heard>>

\* connect() adds the socket, and init is sent before anything else can run.
\* Nothing removes the socket if that send raises.
Register(s) ==
  LET n == conn[s].name
      joined == conns[n] \cup {s}
  IN
  /\ At(s, "register")
  /\ conns' = [conns EXCEPT ![n] = joined]
  /\ \E moved \in BOOLEAN : \E ahead \in Added(n, s, moved) :
       conn' = [c \in Sockets |->
                  IF c = s THEN Fresh(s, IF s \in open THEN "loop" ELSE "failed")
                  ELSE IF c \in Casting(n)
                  THEN [conn[c] EXCEPT !.loop.ahead = ahead[c], !.loop.moved = @ \/ moved]
                  ELSE conn[c]]
  /\ shown' = [shown EXCEPT ![s] = IF s \in open THEN conn[s].history ELSE {}]
  /\ UNCHANGED <<restVars, log, open, heard>>

-----------------------------------------------------------------------------
(* The receive loop.                                                       *)

\* A chat message within the limit and the length, perhaps the last before the
\* client went away; add_message loads the room.
Receive(s) ==
  /\ At(s, "loop")
  /\ Len(log) + Cardinality({t \in Sockets : At(t, "check") \/ At(t, "save")}) < MaxMessages
  /\ \/ /\ roomOf[conn[s].name] # NoRoom
        /\ conn' = [conn EXCEPT ![s].at = "check", ![s].room = roomOf[conn[s].name]]
     \/ roomOf[conn[s].name] = NoRoom /\ UNCHANGED conn
  /\ UNCHANGED <<restVars, log, conns, open, shown, heard>>

\* JSON that is no object, or a message that is no text: AttributeError leaves
\* the endpoint past its only except clause.
ReceiveOdd(s) ==
  /\ OddFrames /\ At(s, "loop")
  /\ End(s, "failed")
  /\ UNCHANGED <<restVars, log, conns, shown, heard>>

\* add_message takes messages of members only.
CheckAuthor(s) ==
  /\ At(s, "check")
  /\ \/ IsMember(conn[s].room, UserOf[s]) /\ Goto(s, "save")
     \/ ~IsMember(conn[s].room, UserOf[s]) /\ GoFresh(s, "loop")
  /\ UNCHANGED <<restVars, log, conns, open, shown, heard>>

\* The INSERT fails where foreign keys are enforced and the room is gone:
\* add_message returns None.
Save(s) ==
  LET r == conn[s].room
      present == \E n \in Names : roomOf[n] = r
  IN
  /\ At(s, "save")
  /\ \/ /\ ~Cascades \/ present
        /\ log' = Append(log, [room |-> r, stored |-> TRUE])
        /\ conn' = [conn EXCEPT ![s].at = "refresh", ![s].msg = Len(log) + 1,
                                ![s].audience = conns[conn[s].name]]
     \/ /\ Cascades /\ ~present
        /\ GoFresh(s, "loop")
        /\ UNCHANGED log
  /\ UNCHANGED <<restVars, conns, open, shown, heard>>

\* The refresh fails if the row has been deleted with its room meanwhile.  If it
\* is there, broadcast_to_room begins its iteration.
Refresh(s) ==
  LET n == conn[s].name IN
  /\ At(s, "refresh")
  /\ \/ ~log[conn[s].msg].stored /\ GoFresh(s, "loop")
     \/ /\ log[conn[s].msg].stored /\ conns[n] = {}
        /\ GoFresh(s, "quota")
     \/ /\ log[conn[s].msg].stored /\ conns[n] # {}
        /\ conn' = [conn EXCEPT ![s].at = "cast",
                                ![s].loop = [NoLoop EXCEPT !.size = Cardinality(conns[n]),
                                                           !.ahead = conns[n]]]
  /\ UNCHANGED <<restVars, log, conns, open, shown, heard>>

\* The next socket of the iteration, one of those ahead since hashes are
\* arbitrary: the frame arrives, or the socket is dead.
BroadcastSend(s, t) ==
  /\ At(s, "cast") /\ ~SizeChanged(s)
  /\ t \in conn[s].loop.ahead
  /\ \/ /\ t \in open
        /\ heard' = [heard EXCEPT ![t] = @ \cup {conn[s].msg}]
        /\ conn' = [conn EXCEPT ![s].loop.ahead = @ \ {t}]
     \/ /\ t \notin open
        /\ conn' = [conn EXCEPT ![s].loop.ahead = @ \ {t}, ![s].loop.dead = @ \cup {t}]
        /\ UNCHANGED heard
  /\ UNCHANGED <<restVars, log, conns, open, shown>>

\* The rest of the table is empty: the iteration ends and the dead sockets are
\* evicted.
BroadcastDone(s) ==
  LET n == conn[s].name
      left == Without(n, conn[s].loop.dead)
  IN
  /\ At(s, "cast") /\ ~SizeChanged(s) /\ conn[s].loop.ahead = {}
  /\ conns' = [conns EXCEPT ![n] = left]
  /\ conn' = [Discarded(n, left) EXCEPT ![s] = Fresh(s, "quota")]
  /\ UNCHANGED <<restVars, log, open, shown, heard>>

\* "Set changed size during iteration" leaves the endpoint, nobody is evicted.
BroadcastFail(s) ==
  /\ At(s, "cast") /\ SizeChanged(s)
  /\ End(s, "failed")
  /\ UNCHANGED <<restVars, log, conns, shown, heard>>

\* WebSocketDisconnect, raised by a receive or by the quota_left send.
Disconnect(s) ==
  LET n == conn[s].name
      left == Without(n, {s})
  IN
  /\ At(s, "loop") \/ At(s, "quota")
  /\ s \notin open
  /\ conns' = [conns EXCEPT ![n] = left]
  /\ conn' = [Discarded(n, left) EXCEPT ![s] = Fresh(s, "closed")]
  /\ UNCHANGED <<restVars, log, open, shown, heard>>

SendQuota(s) ==
  /\ At(s, "quota") /\ s \in open
  /\ Goto(s, "loop")
  /\ UNCHANGED <<restVars, log, conns, open, shown, heard>>

-----------------------------------------------------------------------------
(* The environment: clients that go away, and the REST services.           *)

Ended(s) == conn[s].at \in {"new", "closed", "failed"}

ClientCloses(s) ==
  /\ s \in open
  /\ open' = open \ {s}
  /\ UNCHANGED <<restVars, log, conns, conn, shown, heard>>

hubVars == <<conns, open, conn, shown, heard>>

Served(op) ==
  /\ op \in RestOps /\ requests < MaxRequests
  /\ requests' = requests + 1

JoinRoom(r, u) ==
  /\ Served("join")
  /\ ~IsMember(r, u)
  /\ \E n \in Names : roomOf[n] = r
  /\ members' = members \cup {<<r, u>>}
  /\ UNCHANGED <<roomOf, lastRoom, log, hubVars>>

\* Leaving and being kicked; the sockets of the user are not touched.
LeaveRoom(r, u) ==
  /\ Served("leave")
  /\ IsMember(r, u)
  /\ members' = members \ {<<r, u>>}
  /\ UNCHANGED <<roomOf, lastRoom, log, hubVars>>

CreateRoom(n, u) ==
  /\ Served("create")
  /\ roomOf[n] = NoRoom
  /\ roomOf' = [roomOf EXCEPT ![n] = lastRoom + 1]
  /\ members' = members \cup {<<lastRoom + 1, u>>}
  /\ lastRoom' = lastRoom + 1
  /\ UNCHANGED <<log, hubVars>>

\* Members and messages go with their room where foreign keys are enforced.
DeleteRoom(n) ==
  /\ Served("delete")
  /\ roomOf[n] # NoRoom
  /\ roomOf' = [roomOf EXCEPT ![n] = NoRoom]
  /\ members' = {m \in members : Cascades => m[1] # roomOf[n]}
  /\ log' = [i \in DOMAIN log |->
               [log[i] EXCEPT !.stored = @ /\ (Cascades => log[i].room # roomOf[n])]]
  /\ UNCHANGED <<lastRoom, hubVars>>

RenameRoom(n, new) ==
  /\ Served("edit")
  /\ roomOf[n] # NoRoom /\ roomOf[new] = NoRoom
  /\ roomOf' = [roomOf EXCEPT ![n] = NoRoom, ![new] = roomOf[n]]
  /\ UNCHANGED <<members, lastRoom, log, hubVars>>

-----------------------------------------------------------------------------

\* No socket is open.
Init ==
  /\ roomOf = [n \in Names |-> IF n = Lobby THEN 1 ELSE NoRoom]
  /\ members = {1} \X Users
  /\ lastRoom = 1 /\ requests = 0
  /\ log = <<>>
  /\ conns = [n \in Names |-> {}]
  /\ open = {}
  /\ conn = [s \in Sockets |-> NewConn]
  /\ shown = [s \in Sockets |-> {}]
  /\ heard = [s \in Sockets |-> {}]

\* A coroutine that is not waiting for its client goes on.
Resume(s) ==
  \/ CheckMember(s) \/ ReadHistory(s) \/ Accept(s) \/ Register(s)
  \/ CheckAuthor(s) \/ Save(s) \/ Refresh(s)
  \/ (\E t \in Sockets : BroadcastSend(s, t))
  \/ BroadcastDone(s) \/ BroadcastFail(s)
  \/ SendQuota(s) \/ Disconnect(s)

Rest ==
  \/ \E r \in 1 .. lastRoom, u \in Users : JoinRoom(r, u) \/ LeaveRoom(r, u)
  \/ \E n \in Names, u \in Users : CreateRoom(n, u)
  \/ \E n \in Names : DeleteRoom(n)
  \/ \E n, new \in Names : RenameRoom(n, new)

Next ==
  \/ \E s \in Sockets :
       \/ \E n \in Names : Connect(s, n)
       \/ Receive(s) \/ ReceiveOdd(s) \/ ClientCloses(s)
       \/ Resume(s)
  \/ Rest

Spec == Init /\ [][Next]_vars

\* The event loop resumes every coroutine whose await has completed, and a
\* client that has gone leaves finitely many frames to be received before the
\* disconnect is.
FairSpec ==
  /\ Spec
  /\ \A s \in Sockets : WF_vars(Resume(s)) /\ SF_vars(Disconnect(s))

-----------------------------------------------------------------------------
(* Properties.                                                             *)

Statements ==
  {"new", "member", "history", "accept", "register", "loop", "check", "save",
   "refresh", "cast", "quota", "closed", "failed"}

Loops ==
  [size : Nat, dropped : BOOLEAN, dead : SUBSET Sockets, ahead : SUBSET Sockets,
   moved : BOOLEAN]

Conns ==
  [at : Statements, name : Names \cup {""}, room : Nat, history : SUBSET Nat, msg : Nat,
   audience : SUBSET Sockets, loop : Loops]

\* Type correctness: rooms and messages are ones there have been.  And the
\* registry's: a socket is registered under the name of its path only, and not
\* after its endpoint has returned in good order.
TypeOK ==
  /\ lastRoom \in Nat /\ requests \in 0 .. MaxRequests
  /\ roomOf \in [Names -> 0 .. lastRoom]
  /\ members \subseteq (1 .. lastRoom) \X Users
  /\ log \in Seq([room : Nat, stored : BOOLEAN])
  /\ conns \in [Names -> SUBSET Sockets]
  /\ open \subseteq Sockets
  /\ shown \in [Sockets -> SUBSET (1 .. Len(log))]
  /\ heard \in [Sockets -> SUBSET (1 .. Len(log))]
  /\ conn \in [Sockets -> Conns]
  /\ \A s \in Sockets :
       /\ conn[s].room <= lastRoom /\ conn[s].msg <= Len(log)
       /\ conn[s].history \subseteq 1 .. Len(log)
  /\ \A n \in Names : \A s \in conns[n] : conn[s].name = n /\ conn[s].at # "closed"

\* When broadcast_to_room returns, everyone who was registered when the message
\* was saved, and still has a connection, has been sent it: whoever else came,
\* went or was evicted meanwhile, by other broadcasts too, and whatever became
\* of the room and its name.  The exception is a set that an insertion moved to
\* another table in the middle of the iteration.
BroadcastReachesAll ==
  [][\A s \in Sockets :
       (At(s, "refresh") \/ At(s, "cast")) /\ conn'[s].at = "quota" /\ ~conn[s].loop.moved =>
         \A t \in conn[s].audience \cap open : conn[s].msg \in heard[t]]_vars

\* Whoever listens is registered: no disconnect or eviction of another socket
\* forgets a live listener.
ListenersRegistered ==
  \A s \in open : conn[s].at \in {"loop", "check", "save", "refresh", "cast", "quota"} =>
    s \in conns[conn[s].name]

\* A socket a broadcast found dead is evicted by that broadcast.
DeadEvicted ==
  [][\A s \in Sockets : At(s, "cast") /\ conn'[s].at # "cast" =>
       \A t \in conn[s].loop.dead : t \notin conns'[conn[s].name]]_vars

\* A client that went away is forgotten, unless its endpoint failed.
ClosedForgotten ==
  \A s \in Sockets :
    s \notin open /\ ~Ended(s) ~> conn[s].at = "failed" \/ \A n \in Names : s \notin conns[n]
=============================================================================
