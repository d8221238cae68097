--------------------------- MODULE ChatHubProofs ---------------------------
(***************************************************************************)
(* Proofs about ChatHub, for every set of sockets, users and names: its    *)
(* types, that whoever listens is registered, and that a broadcast reaches *)
(* everyone it should.                                                     *)
(***************************************************************************)
EXTENDS ChatHub, FiniteSetTheorems, SequenceTheorems, TLAPS

\* Where an endpoint is while its socket is registered, and while a message it
\* has saved is not yet broadcast.
Listening == {"loop", "check", "save", "refresh", "cast", "quota"}

Casts == {"refresh", "cast"}

\* A registered socket's endpoint listens, or failed.
RegisteredListen ==
  \A n \in Names : \A s \in conns[n] : conn[s].at \in Listening \cup {"failed"}

\* Only a new endpoint, or one refused at once, has no name.
Named ==
  \A s \in Sockets : /\ conn[s].at \notin {"new", "closed"} => conn[s].name \in Names
                     /\ conn[s].at \in Casts => conn[s].msg # 0

\* The sockets in dead_sockets are gone for good.
DeadGone == \A s \in Sockets : \A t \in conn[s].loop.dead : t \notin open /\ conn[t].at # "new"

\* And those ahead have been registered.
AheadKnown == \A s \in Sockets : \A t \in conn[s].loop.ahead : conn[t].at # "new"

\* Whoever was registered when a message was saved is so until it closes.
AudienceThere ==
  \A s \in Sockets : conn[s].at \in Casts =>
    \A t \in conn[s].audience : /\ conn[t].at # "new"
                                /\ t \in open => t \in conns[conn[s].name]

\* An iteration whose table has not been replaced has the rest of its audience
\* ahead of it.
AheadOrServed ==
  \A s \in Sockets : conn[s].at = "cast" /\ ~conn[s].loop.moved =>
    \A t \in conn[s].audience \cap open :
      conn[s].msg \in heard[t] \/ t \in conn[s].loop.ahead

HubInv ==
  TypeOK /\ ListenersRegistered /\ RegisteredListen /\ Named /\ DeadGone
    /\ AheadKnown /\ AudienceThere /\ AheadOrServed

-----------------------------------------------------------------------------
(* What a step of the endpoint, or of the client, of socket s may do.      *)

Entry == [room : Nat, stored : BOOLEAN]

\* The locals of the others' endpoints stay, their iterations apart; s does not
\* become new, and has a room and messages that there are.
Locals(s) ==
  /\ conn' \in [Sockets -> Conns]
  /\ \A t \in Sockets \ {s} :
       /\ conn'[t].at = conn[t].at /\ conn'[t].name = conn[t].name
       /\ conn'[t].room = conn[t].room /\ conn'[t].history = conn[t].history
       /\ conn'[t].msg = conn[t].msg /\ conn'[t].audience = conn[t].audience
       /\ conn'[t].loop.dead = conn[t].loop.dead
  /\ conn'[s].at = "new" => conn[s].at = "new"
  /\ conn'[s].at \notin {"new", "closed"} => conn'[s].name \in Names
  /\ conn'[s].at \in Casts => conn'[s].msg # 0
  /\ conn'[s].room <= lastRoom /\ conn'[s].msg <= Len(log')
  /\ conn'[s].history \subseteq 1 .. Len(log')

\* Messages are only added, and so are those that a socket heard.
Texts ==
  /\ UNCHANGED restVars
  /\ log' \in Seq(Entry) /\ Len(log) <= Len(log')
  /\ shown' \in [Sockets -> SUBSET (1 .. Len(log'))]
  /\ heard' \in [Sockets -> SUBSET (1 .. Len(log'))]
  /\ \A t \in Sockets : heard[t] \subseteq heard'[t]

\* Only s opens a connection, only s is added, and none that is open is removed.
Registry(s) ==
  /\ open' \subseteq open \cup {s} /\ (s \in open' => s \in open \/ conn[s].at = "new")
  /\ conns' \in [Names -> SUBSET Sockets]
  /\ \A n \in Names :
       /\ conns'[n] \subseteq conns[n] \cup {s}
       /\ conns[n] \cap open' \subseteq conns'[n]
       /\ s \in conns'[n] =>
            conn'[s].name = n /\ conn'[s].at \in Listening \cup {"failed"}
  /\ s \in open' /\ conn'[s].at \in Listening => s \in conns'[conn'[s].name]

\* The message in hand of s, and the iterations of everybody.
Iterations(s) ==
  /\ \A d \in conn'[s].loop.dead : d \in conn[s].loop.dead \/ (d \notin open /\ conn[d].at # "new")
  /\ \A t \in Sockets : \A u \in conn'[t].loop.ahead : conn[u].at # "new"
  /\ conn'[s].at \in Casts =>
       \/ conn[s].at \in Casts /\ conn'[s].name = conn[s].name
                               /\ conn'[s].audience = conn[s].audience
       \/ conn'[s].audience = conns[conn'[s].name]
  /\ \A t \in Sockets : conn'[t].at = "cast" /\ ~conn'[t].loop.moved =>
       \A u \in conn'[t].audience \cap open' :
         conn'[t].msg \in heard'[u] \/ u \in conn'[t].loop.ahead

StepOf(s) == Locals(s) /\ Texts /\ Registry(s) /\ Iterations(s)

\* Such steps keep the invariant.
LEMMA StepKeeps == ASSUME HubInv, NEW s \in Sockets, StepOf(s) PROVE HubInv'
<1>1. /\ conn \in [Sockets -> Conns] /\ conn' \in [Sockets -> Conns]
      /\ Len(log) \in Nat /\ Len(log') \in Nat /\ Len(log) <= Len(log')
      /\ log' \in Seq(Entry)
  BY DEF HubInv, TypeOK, StepOf, Locals, Texts, Entry
<1>2. \A t \in Sockets : t # s =>
        /\ conn'[t].at = conn[t].at /\ conn'[t].name = conn[t].name
        /\ conn'[t].room = conn[t].room /\ conn'[t].history = conn[t].history
        /\ conn'[t].msg = conn[t].msg /\ conn'[t].audience = conn[t].audience
        /\ conn'[t].loop.dead = conn[t].loop.dead
  BY DEF StepOf, Locals
<1>3. \A t \in Sockets : conn'[t].at = "new" => conn[t].at = "new"
  BY <1>2 DEF StepOf, Locals
<1>4. \A t \in Sockets : t \in open' => t \in open \/ conn[t].at = "new"
  BY DEF StepOf, Registry
<1>5. \A n \in Names : \A t \in conns'[n] : t \in Sockets /\ (t # s => t \in conns[n])
  BY DEF StepOf, Registry
<1>6. TypeOK'
  <2>1. ASSUME NEW t \in Sockets
        PROVE  /\ conn'[t].room <= lastRoom' /\ conn'[t].msg <= Len(log')
               /\ conn'[t].history \subseteq 1 .. Len(log')
    <3>1. CASE t = s
      BY <3>1 DEF StepOf, Locals, Texts, restVars
    <3>2. CASE t # s
      <4>1. /\ conn[t].room <= lastRoom /\ conn[t].msg <= Len(log) /\ conn[t].msg \in Nat
            /\ conn[t].history \subseteq 1 .. Len(log)
        BY <1>1 DEF HubInv, TypeOK, Conns
      <4>2. 1 .. Len(log) \subseteq 1 .. Len(log') /\ conn[t].msg <= Len(log')
        BY <1>1, <4>1
      <4>. QED BY <1>2, <3>2, <4>1, <4>2 DEF StepOf, Texts, restVars
    <3>. QED BY <3>1, <3>2
  <2>2. \A n \in Names : \A t \in conns'[n] : conn'[t].name = n /\ conn'[t].at # "closed"
    <3>1. ASSUME NEW n \in Names, NEW t \in conns'[n], t = s
          PROVE  conn'[t].name = n /\ conn'[t].at # "closed"
      <4>1. conn'[s].at \in Listening \cup {"failed"}
        BY <3>1 DEF StepOf, Registry
      <4>. QED BY <3>1, <4>1 DEF StepOf, Registry, Listening
    <3>2. ASSUME NEW n \in Names, NEW t \in conns'[n], t # s
          PROVE  conn'[t].name = n /\ conn'[t].at # "closed"
      BY <1>2, <1>5, <3>2 DEF HubInv, TypeOK
    <3>. QED BY <3>1, <3>2
  <2>3. open' \subseteq Sockets /\ conns' \in [Names -> SUBSET Sockets]
    BY DEF HubInv, TypeOK, StepOf, Registry
  <2>4. /\ lastRoom' \in Nat /\ requests' \in 0 .. MaxRequests
        /\ roomOf' \in [Names -> 0 .. lastRoom'] /\ members' \subseteq (1 .. lastRoom') \X Users
        /\ log' \in Seq([room : Nat, stored : BOOLEAN])
        /\ shown' \in [Sockets -> SUBSET (1 .. Len(log'))]
        /\ heard' \in [Sockets -> SUBSET (1 .. Len(log'))]
    BY DEF HubInv, TypeOK, StepOf, Texts, restVars, Entry
  <2>. QED BY <1>1, <2>1, <2>2, <2>3, <2>4 DEF TypeOK
<1>7. ListenersRegistered'
  <2>1. ASSUME NEW t \in open', conn'[t].at \in Listening PROVE t \in conns'[conn'[t].name]
    <3>1. CASE t = s
      BY <2>1, <3>1 DEF StepOf, Registry
    <3>2. CASE t # s
      <4>1. t \in open /\ t \in Sockets /\ conn[t].at \in Listening
        BY <1>2, <2>1, <3>2 DEF StepOf, Registry, HubInv, TypeOK
      <4>2. t \in conns[conn[t].name] /\ conn[t].name \in Names
        BY <4>1 DEF HubInv, ListenersRegistered, Named, Listening
      <4>. QED BY <1>2, <2>1, <3>2, <4>1, <4>2 DEF StepOf, Registry
    <3>. QED BY <3>1, <3>2
  <2>. QED BY <2>1 DEF ListenersRegistered, Listening
<1>8. RegisteredListen'
  <2>1. ASSUME NEW n \in Names, NEW t \in conns'[n] PROVE conn'[t].at \in Listening \cup {"failed"}
    <3>1. CASE t = s
      BY <2>1, <3>1 DEF StepOf, Registry
    <3>2. CASE t # s
      BY <1>2, <1>5, <3>2 DEF HubInv, RegisteredListen
    <3>. QED BY <3>1, <3>2
  <2>. QED BY <2>1 DEF RegisteredListen
<1>9. Named'
  <2>1. ASSUME NEW t \in Sockets
        PROVE  /\ conn'[t].at \notin {"new", "closed"} => conn'[t].name \in Names
               /\ conn'[t].at \in Casts => conn'[t].msg # 0
    <3>1. CASE t = s
      BY <3>1 DEF StepOf, Locals
    <3>2. CASE t # s
      BY <1>2, <3>2 DEF HubInv, Named
    <3>. QED BY <3>1, <3>2
  <2>. QED BY <2>1 DEF Named
<1>10. DeadGone'
  <2>1. ASSUME NEW t \in Sockets, NEW d \in conn'[t].loop.dead
        PROVE  d \notin open' /\ conn'[d].at # "new"
    <3>1. d \in Sockets
      BY <1>1 DEF Conns, Loops
    <3>2. d \notin open /\ conn[d].at # "new"
      <4>1. CASE t = s
        BY <4>1 DEF HubInv, DeadGone, StepOf, Iterations
      <4>2. CASE t # s
        BY <1>2, <4>2 DEF HubInv, DeadGone
      <4>. QED BY <4>1, <4>2
    <3>. QED BY <1>3, <1>4, <3>1, <3>2
  <2>. QED BY <2>1 DEF DeadGone
<1>13. AheadKnown'
  <2>1. \A t \in Sockets : \A u \in conn'[t].loop.ahead : u \in Sockets /\ conn[u].at # "new"
    BY <1>1 DEF StepOf, Iterations, Conns, Loops
  <2>. QED BY <1>3, <2>1 DEF AheadKnown
<1>11. AudienceThere'
  <2>1. ASSUME NEW t \in Sockets, conn'[t].at \in Casts, NEW u \in conn'[t].audience
        PROVE  conn'[u].at # "new" /\ (u \in open' => u \in conns'[conn'[t].name])
    <3>1. u \in Sockets /\ conn'[t].name \in Names
      BY <1>1, <1>9, <2>1 DEF Named, Casts, Conns
    <3>2. conn[u].at # "new" /\ (u \in open => u \in conns[conn'[t].name])
      <4>1. CASE t # s
        BY <1>2, <2>1, <4>1 DEF HubInv, AudienceThere
      <4>2. CASE /\ t = s /\ conn[s].at \in Casts /\ conn'[s].name = conn[s].name
                 /\ conn'[s].audience = conn[s].audience
        BY <2>1, <4>2 DEF HubInv, AudienceThere
      <4>3. CASE t = s /\ conn'[s].audience = conns[conn'[s].name]
        BY <2>1, <3>1, <4>3 DEF HubInv, RegisteredListen, Listening
      <4>. QED BY <2>1, <4>1, <4>2, <4>3 DEF StepOf, Iterations
    <3>. QED BY <1>3, <1>4, <3>1, <3>2 DEF StepOf, Registry
  <2>. QED BY <2>1 DEF AudienceThere
<1>12. AheadOrServed'
  BY DEF StepOf, Iterations, AheadOrServed
<1>. QED BY <1>6, <1>7, <1>8, <1>9, <1>10, <1>11, <1>12, <1>13 DEF HubInv

\* Every set of sockets has a size.
LEMMA Sizes == ASSUME NEW S \in SUBSET Sockets PROVE Cardinality(S) \in Nat
BY HubAssumption, FS_Subset, FS_CardinalityType DEF HubAssumption

\* The types of the parts of conn.
LEMMA ConnParts ==
  ASSUME HubInv, NEW s \in Sockets
  PROVE  /\ conn \in [Sockets -> Conns] /\ conn[s] \in Conns /\ conn[s].loop \in Loops
         /\ conn[s].room \in Nat /\ conn[s].msg \in Nat /\ conn[s].history \in SUBSET Nat
         /\ conn[s].audience \in SUBSET Sockets
         /\ conn[s].loop.size \in Nat /\ conn[s].loop.dropped \in BOOLEAN
         /\ conn[s].loop.moved \in BOOLEAN
         /\ conn[s].loop.dead \in SUBSET Sockets /\ conn[s].loop.ahead \in SUBSET Sockets
         /\ conn[s].room <= lastRoom /\ conn[s].msg <= Len(log)
         /\ conn[s].history \subseteq 1 .. Len(log)
         /\ conn[s].at \in Statements /\ conn[s].name \in Names \cup {""}
BY DEF HubInv, TypeOK, Conns, Loops

\* An endpoint that begins a message anew, or has ended.
LEMMA FreshFields ==
  ASSUME HubInv, NEW s \in Sockets, NEW at \in Statements
  PROVE  /\ Fresh(s, at) \in Conns
         /\ Fresh(s, at).at = at /\ Fresh(s, at).name = conn[s].name
         /\ Fresh(s, at).room = 0 /\ Fresh(s, at).history = {} /\ Fresh(s, at).msg = 0
         /\ Fresh(s, at).audience = {}
         /\ Fresh(s, at).loop.dead = {} /\ Fresh(s, at).loop.ahead = {}
<1>1. NoLoop \in Loops
  BY DEF NoLoop, Loops
<1>2. NewConn \in Conns
  BY <1>1 DEF NewConn, Conns, NoRoom, Statements
<1>3. conn[s].name \in Names \cup {""}
  BY ConnParts
<1>. QED BY <1>2, <1>3 DEF Fresh, NewConn, NoLoop, NoRoom, Conns

\* An endpoint goes on without touching a registration, an iteration or a
\* message; it may have opened or ended its connection.
LEMMA Quiet ==
  ASSUME HubInv, NEW s \in Sockets, NEW c \in Conns,
         conn' = [conn EXCEPT ![s] = c],
         UNCHANGED <<restVars, log, conns, shown, heard>>,
         open' \subseteq open \cup {s}, s \in open' => s \in open \/ conn[s].at = "new",
         c.at = "new" => conn[s].at = "new",
         c.at \notin {"new", "closed"} => c.name \in Names,
         c.at \notin Casts,
         c.room <= lastRoom, c.msg <= Len(log), c.history \subseteq 1 .. Len(log),
         c.loop.dead \subseteq conn[s].loop.dead, c.loop.ahead \subseteq conn[s].loop.ahead,
         conn[s].at \in Listening \cup {"failed"} =>
           c.at \in Listening \cup {"failed"} /\ c.name = conn[s].name,
         c.at \in Listening /\ s \in open' => conn[s].at \in Listening /\ s \in open
  PROVE  HubInv'
<1>1. conn \in [Sockets -> Conns] /\ log \in Seq(Entry)
  BY DEF HubInv, TypeOK, Entry
<1>2. conn' \in [Sockets -> Conns] /\ conn'[s] = c /\ \A t \in Sockets \ {s} : conn'[t] = conn[t]
  BY <1>1
<1>3. Locals(s)
  BY <1>2 DEF Locals
<1>4. Texts
  <2>. Len(log) <= Len(log')
    BY <1>1
  <2>. QED BY <1>1 DEF HubInv, TypeOK, Texts
<1>5. Registry(s)
  <2>1. s \in open' /\ c.at \in Listening => s \in conns'[c.name]
    BY DEF HubInv, ListenersRegistered, Listening
  <2>2. \A n \in Names : s \in conns[n] => c.name = n /\ c.at \in Listening \cup {"failed"}
    BY DEF HubInv, RegisteredListen, TypeOK
  <2>3. conns' \in [Names -> SUBSET Sockets] /\ conns' = conns
    BY DEF HubInv, TypeOK
  <2>. QED BY <1>2, <2>1, <2>2, <2>3 DEF Registry
<1>6. Iterations(s)
  <2>1. c.at # "cast"
    BY DEF Casts
  <2>2. ASSUME NEW t \in Sockets, conn'[t].at = "cast", ~conn'[t].loop.moved,
               NEW u \in conn'[t].audience \cap open'
        PROVE  conn'[t].msg \in heard'[u] \/ u \in conn'[t].loop.ahead
    <3>1. t # s /\ conn'[t] = conn[t]
      BY <1>2, <2>1, <2>2
    <3>2. u \in open
      <4>1. conn[u].at # "new"
        BY <2>2, <3>1 DEF HubInv, AudienceThere, Casts
      <4>. QED BY <2>2, <4>1
    <3>. QED BY <2>2, <3>1, <3>2 DEF HubInv, AheadOrServed
  <2>3. \A t \in Sockets : \A u \in conn'[t].loop.ahead : conn[u].at # "new"
    BY <1>2 DEF HubInv, AheadKnown
  <2>. QED BY <1>2, <2>2, <2>3 DEF Iterations
<1>. QED BY <1>3, <1>4, <1>5, <1>6, StepKeeps DEF StepOf

\* The same when the locals are reset.
LEMMA QuietFresh ==
  ASSUME HubInv, NEW s \in Sockets, NEW at \in {"loop", "quota", "closed", "failed"},
         GoFresh(s, at), conn[s].at # "new" \/ at = "closed",
         UNCHANGED <<restVars, log, conns, shown, heard>>,
         open' \in {open, open \ {s}},
         conn[s].at \in Listening \cup {"failed"} => at # "closed",
         at \in Listening => conn[s].at \in Listening,
         conn[s].at # "closed" \/ at = "closed"
  PROVE  HubInv'
<1>1. at \in Statements /\ at \notin Casts
  BY DEF Statements, Casts
<1>. DEFINE c == Fresh(s, at)
<1>2. /\ c \in Conns /\ c.at = at /\ c.name = conn[s].name /\ c.room = 0
      /\ c.history = {} /\ c.msg = 0 /\ c.loop.dead = {} /\ c.loop.ahead = {}
  BY <1>1, FreshFields
<1>3. conn' = [conn EXCEPT ![s] = c] /\ lastRoom \in Nat /\ Len(log) \in Nat
  BY DEF GoFresh, HubInv, TypeOK
<1>4. c.at \notin {"new", "closed"} => c.name \in Names
  BY <1>2 DEF HubInv, Named
<1>5. /\ c.at # "new" /\ c.at \notin Casts /\ c.room <= lastRoom /\ c.msg <= Len(log)
      /\ c.history \subseteq 1 .. Len(log) /\ c.loop.dead \subseteq conn[s].loop.dead
      /\ c.loop.ahead \subseteq conn[s].loop.ahead
  BY <1>1, <1>2, <1>3
<1>6. /\ conn[s].at \in Listening \cup {"failed"} => c.at \in Listening \cup {"failed"}
      /\ c.at \in Listening /\ s \in open' => conn[s].at \in Listening /\ s \in open
  BY <1>2 DEF Listening
<1>7. open' \subseteq open \cup {s} /\ (s \in open' => s \in open)
  OBVIOUS
<1>. HIDE DEF c
<1>. QED BY <1>2, <1>3, <1>4, <1>5, <1>6, <1>7, Quiet

\* The same when only the next statement changes, outside of an iteration.
LEMMA QuietGoto ==
  ASSUME HubInv, NEW s \in Sockets, NEW at \in Statements \ ({"new", "closed"} \cup Casts),
         Goto(s, at), conn[s].at \notin {"new", "closed"},
         UNCHANGED <<restVars, log, conns, open, shown, heard>>,
         conn[s].at \in Listening \cup {"failed"} => at \in Listening \cup {"failed"},
         at \in Listening => conn[s].at \in Listening
  PROVE  HubInv'
<1>. DEFINE c == [conn[s] EXCEPT !.at = at]
<1>1. conn \in [Sockets -> Conns] /\ conn[s] \in Conns
  BY ConnParts
<1>2. /\ c \in Conns /\ c.at = at /\ c.name = conn[s].name /\ c.room = conn[s].room
      /\ c.msg = conn[s].msg /\ c.history = conn[s].history /\ c.loop = conn[s].loop
  BY <1>1 DEF Conns
<1>3. conn' = [conn EXCEPT ![s] = c]
  BY <1>1 DEF Goto
<1>4. c.room <= lastRoom /\ c.msg <= Len(log) /\ c.history \subseteq 1 .. Len(log)
  BY <1>2 DEF HubInv, TypeOK
<1>5. c.name \in Names
  BY <1>2 DEF HubInv, Named
<1>6. c.at # "new" /\ c.at # "closed" /\ c.at \notin Casts
      /\ c.loop.dead \subseteq conn[s].loop.dead /\ c.loop.ahead \subseteq conn[s].loop.ahead
  BY <1>2
<1>7. c.at \in Listening /\ s \in open' => conn[s].at \in Listening /\ s \in open
  BY <1>2
<1>. HIDE DEF c
<1>. QED BY <1>2, <1>3, <1>4, <1>5, <1>6, <1>7, Quiet

-----------------------------------------------------------------------------
(* The steps that touch neither a registration nor an iteration.           *)

LEMMA ConnectStep ==
  ASSUME HubInv, NEW s \in Sockets, NEW n \in Names, Connect(s, n) PROVE HubInv'
<1>1. /\ conn \in [Sockets -> Conns] /\ conn[s] \in Conns
      /\ roomOf[n] \in 0 .. lastRoom /\ lastRoom \in Nat /\ roomOf[n] \in Nat
  BY DEF HubInv, TypeOK
<1>2. CASE End(s, "closed")
  <2>1. GoFresh(s, "closed") /\ open' \in {open, open \ {s}} /\ conn[s].at = "new"
    BY <1>2 DEF Connect, End, At
  <2>. QED BY <2>1, QuietFresh DEF Connect, Listening
<1>3. CASE /\ conn' = [conn EXCEPT ![s].at = "member", ![s].name = n, ![s].room = roomOf[n]]
           /\ open' = open \cup {s}
  <2>. DEFINE c == [conn[s] EXCEPT !.at = "member", !.name = n, !.room = roomOf[n]]
  <2>1. /\ c \in Conns /\ c.at = "member" /\ c.name = n /\ c.room = roomOf[n]
        /\ c.msg = conn[s].msg /\ c.history = conn[s].history /\ c.loop = conn[s].loop
    BY <1>1 DEF Conns, Statements
  <2>2. conn' = [conn EXCEPT ![s] = c] /\ conn[s].at = "new"
    BY <1>1, <1>3 DEF Connect, At
  <2>3. c.room <= lastRoom /\ c.msg <= Len(log) /\ c.history \subseteq 1 .. Len(log)
    BY <1>1, <2>1 DEF HubInv, TypeOK
  <2>4. c.at # "new" /\ c.at \notin Casts /\ c.at \notin Listening /\ c.name \in Names
    BY <2>1 DEF Casts, Listening
  <2>. HIDE DEF c
  <2>. QED BY <1>3, <2>1, <2>2, <2>3, <2>4, Quiet DEF Connect, Listening
<1>. QED BY <1>2, <1>3 DEF Connect

LEMMA ReadHistoryStep ==
  ASSUME HubInv, NEW s \in Sockets, ReadHistory(s) PROVE HubInv'
<1>. DEFINE c == [conn[s] EXCEPT !.at = "accept", !.history = Messages(conn[s].room)]
<1>1. conn \in [Sockets -> Conns] /\ conn[s] \in Conns
  BY ConnParts
<1>2. Messages(conn[s].room) \subseteq 1 .. Len(log) /\ Messages(conn[s].room) \in SUBSET Nat
  BY DEF Messages, HubInv, TypeOK
<1>3. /\ c \in Conns /\ c.at = "accept" /\ c.name = conn[s].name /\ c.room = conn[s].room
      /\ c.msg = conn[s].msg /\ c.history = Messages(conn[s].room) /\ c.loop = conn[s].loop
  BY <1>1, <1>2 DEF Conns, Statements
<1>4. conn' = [conn EXCEPT ![s] = c] /\ conn[s].at = "history" /\ conn[s].name \in Names
  BY <1>1 DEF ReadHistory, At, HubInv, Named
<1>5. c.room <= lastRoom /\ c.msg <= Len(log) /\ c.history \subseteq 1 .. Len(log)
  BY <1>2, <1>3, ConnParts
<1>6. c.at # "new" /\ c.at \notin Casts /\ c.at \notin Listening /\ c.name \in Names
  BY <1>3, <1>4 DEF Casts, Listening
<1>7. UNCHANGED <<restVars, log, conns, open, shown, heard>>
  BY DEF ReadHistory
<1>. HIDE DEF c
<1>. QED BY <1>3, <1>4, <1>5, <1>6, <1>7, Quiet DEF Listening

\* Nothing but connections may end.
LEMMA Still ==
  ASSUME HubInv, open' \subseteq open,
         UNCHANGED <<restVars, log, conns, conn, shown, heard>>
  PROVE  HubInv'
<1>1. TypeOK'
  BY DEF HubInv, TypeOK, restVars
<1>2. ListenersRegistered' /\ RegisteredListen' /\ Named' /\ DeadGone' /\ AheadKnown'
  BY DEF HubInv, ListenersRegistered, RegisteredListen, Named, DeadGone, AheadKnown
<1>3. AudienceThere' /\ AheadOrServed'
  BY DEF HubInv, AudienceThere, AheadOrServed
<1>. QED BY <1>1, <1>2, <1>3 DEF HubInv

LEMMA ReceiveStep ==
  ASSUME HubInv, NEW s \in Sockets, Receive(s) PROVE HubInv'
<1>1. /\ conn \in [Sockets -> Conns] /\ conn[s] \in Conns
      /\ conn[s].at = "loop" /\ conn[s].name \in Names
  BY DEF HubInv, Named, TypeOK, Receive, At
<1>2. /\ roomOf[conn[s].name] \in 0 .. lastRoom /\ lastRoom \in Nat
      /\ roomOf[conn[s].name] \in Nat
  BY <1>1 DEF HubInv, TypeOK
<1>3. UNCHANGED <<restVars, log, conns, open, shown, heard>>
  BY DEF Receive
<1>4. CASE UNCHANGED conn
  BY <1>3, <1>4, Still
<1>5. CASE conn' = [conn EXCEPT ![s].at = "check", ![s].room = roomOf[conn[s].name]]
  <2>. DEFINE c == [conn[s] EXCEPT !.at = "check", !.room = roomOf[conn[s].name]]
  <2>1. /\ c \in Conns /\ c.at = "check" /\ c.name = conn[s].name
        /\ c.room = roomOf[conn[s].name]
        /\ c.msg = conn[s].msg /\ c.history = conn[s].history /\ c.loop = conn[s].loop
    BY <1>1, <1>2 DEF Conns, Statements
  <2>2. conn' = [conn EXCEPT ![s] = c]
    BY <1>1, <1>5
  <2>3. c.room <= lastRoom /\ c.msg <= Len(log) /\ c.history \subseteq 1 .. Len(log)
    <3>1. c.room <= lastRoom
      BY <1>2, <2>1
    <3>. QED BY <2>1, <3>1, ConnParts
  <2>4. c.at # "new" /\ c.at \notin Casts /\ conn[s].at \in Listening /\ c.at \in Listening
    BY <1>1, <2>1 DEF Casts, Listening
  <2>. HIDE DEF c
  <2>. QED BY <1>1, <1>3, <2>1, <2>2, <2>3, <2>4, Quiet
<1>. QED BY <1>4, <1>5 DEF Receive

\* The steps that only go to another statement, or end the connection.
LEMMA GotoSteps ==
  ASSUME HubInv, NEW s \in Sockets,
         \/ CheckMember(s) \/ Accept(s) \/ ReceiveOdd(s) \/ CheckAuthor(s)
         \/ SendQuota(s) \/ BroadcastFail(s)
  PROVE  HubInv'
<1>1. CASE CheckMember(s)
  BY <1>1, QuietGoto, QuietFresh DEF CheckMember, End, At, Statements, Listening, Casts
<1>2. CASE Accept(s)
  BY <1>2, QuietGoto DEF Accept, At, Statements, Listening, Casts
<1>3. CASE ReceiveOdd(s)
  BY <1>3, QuietFresh DEF ReceiveOdd, End, At, Listening
<1>4. CASE CheckAuthor(s)
  BY <1>4, QuietGoto, QuietFresh DEF CheckAuthor, At, Statements, Listening, Casts
<1>5. CASE SendQuota(s)
  BY <1>5, QuietGoto DEF SendQuota, At, Statements, Listening, Casts
<1>6. CASE BroadcastFail(s)
  BY <1>6, QuietFresh DEF BroadcastFail, End, At, Listening
<1>. QED BY <1>1, <1>2, <1>3, <1>4, <1>5, <1>6

-----------------------------------------------------------------------------
(* Registrations.                                                          *)

\* A removal changes nothing of an iteration but what is ahead of it.
LEMMA DiscardedFields ==
  ASSUME HubInv, NEW n \in Names, NEW left \in SUBSET Sockets
  PROVE  /\ Discarded(n, left) \in [Sockets -> Conns]
         /\ \A t \in Sockets :
              LET d == Discarded(n, left)[t] IN
              /\ d.at = conn[t].at /\ d.name = conn[t].name /\ d.room = conn[t].room
              /\ d.history = conn[t].history /\ d.msg = conn[t].msg
              /\ d.audience = conn[t].audience
              /\ d.loop.dead = conn[t].loop.dead /\ d.loop.moved = conn[t].loop.moved
              /\ d.loop.ahead = IF t \in Casting(n) THEN conn[t].loop.ahead \cap left
                                ELSE conn[t].loop.ahead
<1>. DEFINE w(t) == [conn[t] EXCEPT !.loop.ahead = @ \cap left, !.loop.dropped = @ \/ left = {}]
            l(t) == [conn[t].loop EXCEPT !.ahead = conn[t].loop.ahead \cap left,
                                         !.dropped = conn[t].loop.dropped \/ left = {}]
<1>1. ASSUME NEW t \in Sockets
      PROVE  /\ w(t) \in Conns
             /\ w(t).at = conn[t].at /\ w(t).name = conn[t].name /\ w(t).room = conn[t].room
             /\ w(t).history = conn[t].history /\ w(t).msg = conn[t].msg
             /\ w(t).audience = conn[t].audience
             /\ w(t).loop.dead = conn[t].loop.dead /\ w(t).loop.moved = conn[t].loop.moved
             /\ w(t).loop.ahead = conn[t].loop.ahead \cap left
  <2>1. conn[t] \in Conns /\ conn[t].loop \in Loops
    BY ConnParts
  <2>2. w(t) = [conn[t] EXCEPT !.loop = l(t)]
    BY <2>1 DEF Conns, Loops
  <2>3. (conn[t].loop.dropped \/ left = {}) \in BOOLEAN /\ conn[t].loop.ahead \cap left \in SUBSET Sockets
    BY ConnParts
  <2>4. /\ l(t) \in Loops /\ l(t).dead = conn[t].loop.dead /\ l(t).moved = conn[t].loop.moved
        /\ l(t).ahead = conn[t].loop.ahead \cap left
    BY <2>1, <2>3 DEF Loops
  <2>. HIDE DEF w, l
  <2>. QED BY <2>1, <2>2, <2>4 DEF Conns
<1>2. \A t \in Sockets : Discarded(n, left)[t] = IF t \in Casting(n) THEN w(t) ELSE conn[t]
  BY DEF Discarded
<1>3. \A t \in Sockets : conn[t] \in Conns
  BY ConnParts
<1>4. \A t \in Sockets : Discarded(n, left)[t] \in Conns
  <2>. HIDE DEF w
  <2>. QED BY <1>1, <1>2, <1>3
<1>5. Discarded(n, left) = [t \in Sockets |-> Discarded(n, left)[t]]
  BY DEF Discarded
<1>6. Discarded(n, left) \in [Sockets -> Conns]
  BY <1>4, <1>5
<1>. DEFINE d(t) == Discarded(n, left)[t]
<1>7. ASSUME NEW t \in Sockets
      PROVE  /\ d(t).at = conn[t].at /\ d(t).name = conn[t].name /\ d(t).room = conn[t].room
             /\ d(t).history = conn[t].history /\ d(t).msg = conn[t].msg
             /\ d(t).audience = conn[t].audience
             /\ d(t).loop.dead = conn[t].loop.dead /\ d(t).loop.moved = conn[t].loop.moved
             /\ d(t).loop.ahead = IF t \in Casting(n) THEN conn[t].loop.ahead \cap left
                                  ELSE conn[t].loop.ahead
  <2>1. CASE t \in Casting(n)
    <3>1. d(t) = w(t)
      BY <1>2, <2>1
    <3>. HIDE DEF d, w
    <3>. QED BY <1>1, <2>1, <3>1
  <2>2. CASE t \notin Casting(n)
    <3>1. d(t) = conn[t]
      BY <1>2, <2>2
    <3>. HIDE DEF d
    <3>. QED BY <2>2, <3>1
  <2>. QED BY <2>1, <2>2
<1>. QED BY <1>6, <1>7

\* s discards sockets that are gone, from the set of its own name.
LEMMA Removal ==
  ASSUME HubInv, NEW s \in Sockets, conn[s].at \in Listening,
         NEW gone \in SUBSET Sockets, gone \cap open = {},
         NEW at \in {"quota", "closed"}, at = "closed" => s \in gone,
         conns' = [conns EXCEPT ![conn[s].name] = Without(conn[s].name, gone)],
         conn' = [Discarded(conn[s].name, Without(conn[s].name, gone)) EXCEPT ![s] = Fresh(s, at)],
         UNCHANGED <<restVars, log, open, shown, heard>>
  PROVE  HubInv'
<1>. DEFINE n == conn[s].name
            left == Without(n, gone)
            D == Discarded(n, left)
<1>1. /\ n \in Names /\ conns \in [Names -> SUBSET Sockets] /\ left = conns[n] \ gone
      /\ left \in SUBSET Sockets
  <2>1. n \in Names
    BY DEF HubInv, Named, Listening
  <2>. QED BY <2>1 DEF HubInv, TypeOK, Without
<1>2. /\ D \in [Sockets -> Conns]
      /\ \A t \in Sockets :
           /\ D[t].at = conn[t].at /\ D[t].name = conn[t].name /\ D[t].room = conn[t].room
           /\ D[t].history = conn[t].history /\ D[t].msg = conn[t].msg
           /\ D[t].audience = conn[t].audience
           /\ D[t].loop.dead = conn[t].loop.dead /\ D[t].loop.moved = conn[t].loop.moved
           /\ D[t].loop.ahead = IF t \in Casting(n) THEN conn[t].loop.ahead \cap left
                                ELSE conn[t].loop.ahead
  BY <1>1, DiscardedFields, ZenonT(40)
<1>3. at \in Statements /\ at \notin Casts /\ at # "new" /\ (at = "quota" => at \in Listening)
      /\ (at \in Listening => at = "quota")
  BY DEF Statements, Casts, Listening
<1>. DEFINE c == Fresh(s, at)
<1>4. /\ c \in Conns /\ c.at = at /\ c.name = n /\ c.room = 0 /\ c.history = {} /\ c.msg = 0
      /\ c.loop.dead = {} /\ c.loop.ahead = {}
  BY <1>3, FreshFields
<1>5. conn' = [D EXCEPT ![s] = c] /\ lastRoom \in Nat /\ Len(log) \in Nat /\ log \in Seq(Entry)
  BY DEF HubInv, TypeOK, Entry
<1>6. conns' = [conns EXCEPT ![n] = left]
  OBVIOUS
<1>. HIDE DEF D, c
<1>7. conn' \in [Sockets -> Conns] /\ conn'[s] = c /\ \A t \in Sockets \ {s} : conn'[t] = D[t]
  BY <1>2, <1>4, <1>5
<1>8. Locals(s)
  <2>1. ASSUME NEW t \in Sockets \ {s}
        PROVE  /\ conn'[t].at = conn[t].at /\ conn'[t].name = conn[t].name
               /\ conn'[t].room = conn[t].room /\ conn'[t].history = conn[t].history
               /\ conn'[t].msg = conn[t].msg /\ conn'[t].audience = conn[t].audience
               /\ conn'[t].loop.dead = conn[t].loop.dead
    <3>1. conn'[t] = D[t]
      BY <1>7
    <3>. QED BY <1>2, <3>1, ZenonT(40)
  <2>2. /\ c.at # "new" /\ c.name \in Names /\ c.at \notin Casts
        /\ c.room <= lastRoom /\ c.msg <= Len(log') /\ c.history \subseteq 1 .. Len(log')
    BY <1>1, <1>3, <1>4, <1>5
  <2>. QED BY <1>7, <2>1, <2>2 DEF Locals
<1>9. Texts
  <2>. Len(log) <= Len(log')
    BY <1>5
  <2>. QED BY <1>5 DEF HubInv, TypeOK, Texts
<1>. HIDE DEF left
<1>10. /\ conns' \in [Names -> SUBSET Sockets] /\ conns'[n] = conns[n] \ gone
       /\ \A m \in Names : m # n => conns'[m] = conns[m]
  BY <1>1, <1>6
<1>11. Registry(s)
  <2>1. \A m \in Names : conns'[m] \subseteq conns[m] /\ conns[m] \cap open \subseteq conns'[m]
    BY <1>10
  <2>2. ASSUME NEW m \in Names, s \in conns'[m]
        PROVE  conn'[s].name = m /\ conn'[s].at \in Listening \cup {"failed"}
    <3>1. n = m
      BY <2>1, <2>2 DEF HubInv, TypeOK
    <3>2. at = "quota"
      BY <1>10, <2>2, <3>1
    <3>. QED BY <1>3, <1>4, <1>7, <3>1, <3>2
  <2>3. ASSUME s \in open', conn'[s].at \in Listening PROVE s \in conns'[conn'[s].name]
    <3>1. s \in conns[n]
      BY <2>3 DEF HubInv, ListenersRegistered, Listening
    <3>. QED BY <1>1, <1>4, <1>7, <1>10, <2>3, <3>1
  <2>. QED BY <1>10, <2>1, <2>2, <2>3 DEF Registry
<1>12. Iterations(s)
  <2>1. conn'[s].loop.dead = {} /\ conn'[s].at \notin Casts
    BY <1>3, <1>4, <1>7
  <2>2. ASSUME NEW t \in Sockets, conn'[t].at = "cast", ~conn'[t].loop.moved,
               NEW u \in conn'[t].audience \cap open
        PROVE  conn'[t].msg \in heard[u] \/ u \in conn'[t].loop.ahead
    <3>1. t # s /\ conn'[t] = D[t]
      BY <1>7, <2>1, <2>2 DEF Casts
    <3>2. conn[t].at = "cast" /\ ~conn[t].loop.moved /\ u \in conn[t].audience
      BY <1>2, <2>2, <3>1
    <3>3. conn[t].msg \in heard[u] \/ u \in conn[t].loop.ahead
      BY <2>2, <3>2 DEF HubInv, AheadOrServed
    <3>4. t \in Casting(n) => u \in left
      <4>1. u \in conns[conn[t].name]
        BY <2>2, <3>2 DEF HubInv, AudienceThere, Casts
      <4>. QED BY <1>1, <2>2, <4>1 DEF Casting
    <3>. QED BY <1>2, <3>1, <3>3, <3>4, ZenonT(40)
  <2>3. ASSUME NEW t \in Sockets, NEW u \in conn'[t].loop.ahead PROVE conn[u].at # "new"
    <3>1. CASE t = s
      BY <1>4, <1>7, <2>3, <3>1
    <3>2. CASE t # s
      <4>1. conn'[t] = D[t]
        BY <1>7, <3>2
      <4>2. u \in conn[t].loop.ahead
        BY <1>2, <2>3, <4>1, ZenonT(40)
      <4>. QED BY <4>2 DEF HubInv, AheadKnown
    <3>. QED BY <3>1, <3>2
  <2>. QED BY <2>1, <2>2, <2>3 DEF Iterations
<1>. QED BY <1>8, <1>9, <1>11, <1>12, StepKeeps DEF StepOf

LEMMA RemovalSteps ==
  ASSUME HubInv, NEW s \in Sockets, BroadcastDone(s) \/ Disconnect(s) PROVE HubInv'
<1>1. CASE BroadcastDone(s)
  <2>1. conn[s].loop.dead \in SUBSET Sockets /\ conn[s].loop.dead \cap open = {}
    BY ConnParts DEF HubInv, DeadGone
  <2>2. conn[s].at \in Listening
    BY <1>1 DEF BroadcastDone, At, Listening
  <2>. QED BY <1>1, <2>1, <2>2, Removal DEF BroadcastDone
<1>2. CASE Disconnect(s)
  <2>1. {s} \in SUBSET Sockets /\ {s} \cap open = {} /\ conn[s].at \in Listening
    BY <1>2 DEF Disconnect, At, Listening
  <2>. QED BY <1>2, <2>1, Removal DEF Disconnect
<1>. QED BY <1>1, <1>2

\* An insertion changes nothing of an iteration but what is ahead of it.
Inserted(t, ahead, moved) ==
  [conn[t] EXCEPT !.loop.ahead = ahead, !.loop.moved = @ \/ moved]

LEMMA InsertedFields ==
  ASSUME HubInv, NEW t \in Sockets, NEW moved \in BOOLEAN, NEW ahead \in SUBSET Sockets
  PROVE  LET i == Inserted(t, ahead, moved) IN
         /\ i \in Conns
         /\ i.at = conn[t].at /\ i.name = conn[t].name /\ i.room = conn[t].room
         /\ i.history = conn[t].history /\ i.msg = conn[t].msg /\ i.audience = conn[t].audience
         /\ i.loop.dead = conn[t].loop.dead /\ i.loop.moved = (conn[t].loop.moved \/ moved)
         /\ i.loop.ahead = ahead
<1>. DEFINE i == Inserted(t, ahead, moved)
            l == [conn[t].loop EXCEPT !.ahead = ahead, !.moved = conn[t].loop.moved \/ moved]
<1>1. conn[t] \in Conns /\ conn[t].loop \in Loops
  BY ConnParts
<1>2. i = [conn[t] EXCEPT !.loop = l]
  BY <1>1 DEF Conns, Loops, Inserted
<1>3. (conn[t].loop.moved \/ moved) \in BOOLEAN
  OBVIOUS
<1>4. /\ l \in Loops /\ l.dead = conn[t].loop.dead /\ l.ahead = ahead
      /\ l.moved = (conn[t].loop.moved \/ moved)
  BY <1>1, <1>3 DEF Loops
<1>5. /\ i \in Conns
      /\ i.at = conn[t].at /\ i.name = conn[t].name /\ i.room = conn[t].room
      /\ i.history = conn[t].history /\ i.msg = conn[t].msg /\ i.audience = conn[t].audience
      /\ i.loop.dead = conn[t].loop.dead /\ i.loop.moved = (conn[t].loop.moved \/ moved)
      /\ i.loop.ahead = ahead
  <2>. HIDE DEF i, l
  <2>. QED BY <1>1, <1>2, <1>4 DEF Conns
<1>. QED BY <1>5

LEMMA RegisterStep == ASSUME HubInv, NEW s \in Sockets, Register(s) PROVE HubInv'
<1>. DEFINE n == conn[s].name
            joined == conns[n] \cup {s}
            at == IF s \in open THEN "loop" ELSE "failed"
            c == Fresh(s, at)
<1>1. /\ n \in Names /\ conn[s].at = "register" /\ conns \in [Names -> SUBSET Sockets]
      /\ lastRoom \in Nat /\ Len(log) \in Nat /\ log \in Seq(Entry)
  <2>1. conn[s].at = "register"
    BY DEF Register, At
  <2>2. n \in Names
    BY <2>1 DEF HubInv, Named
  <2>3. log \in Seq(Entry)
    BY DEF HubInv, TypeOK, Entry
  <2>. QED BY <2>1, <2>2, <2>3 DEF HubInv, TypeOK
<1>2. at \in Statements /\ at \in Listening \cup {"failed"} /\ at \notin Casts /\ at # "new"
  BY DEF Statements, Listening, Casts
<1>. HIDE DEF at
<1>3. /\ c \in Conns /\ c.at = at /\ c.name = n /\ c.room = 0 /\ c.history = {} /\ c.msg = 0
      /\ c.loop.dead = {} /\ c.loop.ahead = {}
  BY <1>2, FreshFields
<1>4. PICK moved \in BOOLEAN : \E ahead \in Added(n, s, moved) :
        conn' = [t \in Sockets |->
                   IF t = s THEN c
                   ELSE IF t \in Casting(n)
                   THEN [conn[t] EXCEPT !.loop.ahead = ahead[t], !.loop.moved = @ \/ moved]
                   ELSE conn[t]]
  BY DEF Register, at
<1>chosen. PICK ahead \in Added(n, s, moved) :
        conn' = [t \in Sockets |->
                   IF t = s THEN c
                   ELSE IF t \in Casting(n)
                   THEN [conn[t] EXCEPT !.loop.ahead = ahead[t], !.loop.moved = @ \/ moved]
                   ELSE conn[t]]
  <2>. HIDE DEF c
  <2>. QED BY <1>4
<1>5. /\ ahead \in [Casting(n) -> SUBSET joined]
      /\ moved \/ \A t \in Casting(n) : ahead[t] \ {s} = conn[t].loop.ahead
  BY DEF Added
<1>6. ASSUME NEW t \in Casting(n) PROVE ahead[t] \in SUBSET Sockets
  BY <1>1, <1>5 DEF Casting
<1>. DEFINE i(t) == Inserted(t, ahead[t], moved)
<1>7. ASSUME NEW t \in Casting(n)
      PROVE  /\ i(t) \in Conns
             /\ i(t).at = conn[t].at /\ i(t).name = conn[t].name /\ i(t).room = conn[t].room
             /\ i(t).history = conn[t].history /\ i(t).msg = conn[t].msg
             /\ i(t).audience = conn[t].audience
             /\ i(t).loop.dead = conn[t].loop.dead
             /\ i(t).loop.moved = (conn[t].loop.moved \/ moved)
             /\ i(t).loop.ahead = ahead[t]
  <2>. t \in Sockets
    BY DEF Casting
  <2>. QED BY <1>6, InsertedFields
<1>8. /\ conn'[s] = c
      /\ \A t \in Sockets \ {s} : conn'[t] = IF t \in Casting(n) THEN i(t) ELSE conn[t]
      /\ conn' = [t \in Sockets |-> conn'[t]]
  <2>. HIDE DEF c
  <2>. QED BY <1>chosen DEF Inserted
<1>. HIDE DEF i, c
<1>9. ASSUME NEW t \in Sockets \ {s}
      PROVE  /\ conn'[t] \in Conns
             /\ conn'[t].at = conn[t].at /\ conn'[t].name = conn[t].name
             /\ conn'[t].room = conn[t].room /\ conn'[t].history = conn[t].history
             /\ conn'[t].msg = conn[t].msg /\ conn'[t].audience = conn[t].audience
             /\ conn'[t].loop.dead = conn[t].loop.dead
             /\ ~conn'[t].loop.moved =>
                  ~conn[t].loop.moved /\ conn[t].loop.ahead \subseteq conn'[t].loop.ahead
             /\ conn'[t].loop.ahead \subseteq conn[t].loop.ahead \cup joined
  <2>1. CASE t \in Casting(n)
    <3>1. conn'[t] = i(t)
      BY <1>8, <2>1
    <3>2. ~i(t).loop.moved => ~conn[t].loop.moved /\ conn[t].loop.ahead \subseteq ahead[t]
      BY <1>5, <1>7, <2>1
    <3>3. ahead[t] \subseteq joined
      BY <1>5, <2>1
    <3>. HIDE DEF joined
    <3>. QED BY <1>7, <2>1, <3>1, <3>2, <3>3
  <2>2. CASE t \notin Casting(n)
    <3>1. conn'[t] = conn[t]
      BY <1>8, <2>2
    <3>. QED BY <3>1, ConnParts
  <2>. QED BY <2>1, <2>2
<1>10. conn' \in [Sockets -> Conns]
  <2>1. \A t \in Sockets : conn'[t] \in Conns
    BY <1>3, <1>8, <1>9
  <2>. QED BY <1>8, <2>1
<1>11. UNCHANGED <<restVars, log, open, heard>> /\ conns' = [conns EXCEPT ![n] = joined]
  BY DEF Register
<1>12. Locals(s)
  <2>1. /\ c.at # "new" /\ c.name \in Names /\ c.at \notin Casts
        /\ c.room <= lastRoom /\ c.msg <= Len(log') /\ c.history \subseteq 1 .. Len(log')
    BY <1>1, <1>2, <1>3, <1>11
  <2>. QED BY <1>8, <1>9, <1>10, <2>1 DEF Locals
<1>13. Texts
  <2>1. shown' \in [Sockets -> SUBSET (1 .. Len(log))]
    <3>1. shown' = [shown EXCEPT ![s] = IF s \in open THEN conn[s].history ELSE {}]
      BY DEF Register
    <3>2. conn[s].history \subseteq 1 .. Len(log) /\ shown \in [Sockets -> SUBSET (1 .. Len(log))]
      BY DEF HubInv, TypeOK
    <3>. QED BY <3>1, <3>2
  <2>2. Len(log) <= Len(log')
    BY <1>1, <1>11
  <2>. QED BY <1>1, <1>11, <2>1, <2>2 DEF HubInv, TypeOK, Texts
<1>14. Registry(s)
  <2>1. /\ conns' \in [Names -> SUBSET Sockets] /\ conns'[n] = joined
        /\ \A m \in Names : m # n => conns'[m] = conns[m]
    BY <1>1, <1>11
  <2>2. \A m \in Names : s \in conns[m] => m = n
    BY DEF HubInv, TypeOK
  <2>. QED BY <1>1, <1>2, <1>3, <1>8, <1>11, <2>1, <2>2 DEF Registry
<1>15. Iterations(s)
  <2>1. conn'[s].loop.dead = {} /\ conn'[s].at \notin Casts
    BY <1>2, <1>3, <1>8
  <2>2. ASSUME NEW t \in Sockets, conn'[t].at = "cast", ~conn'[t].loop.moved,
               NEW u \in conn'[t].audience \cap open
        PROVE  conn'[t].msg \in heard[u] \/ u \in conn'[t].loop.ahead
    <3>1. t # s
      BY <2>1, <2>2 DEF Casts
    <3>2. conn[t].msg \in heard[u] \/ u \in conn[t].loop.ahead
      BY <1>9, <2>2, <3>1 DEF HubInv, AheadOrServed
    <3>. QED BY <1>9, <2>2, <3>1, <3>2
  <2>3. ASSUME NEW t \in Sockets, NEW u \in conn'[t].loop.ahead PROVE conn[u].at # "new"
    <3>1. CASE t = s
      BY <1>3, <1>8, <2>3, <3>1
    <3>2. CASE u \in joined
      BY <1>1, <3>2 DEF HubInv, RegisteredListen, Listening
    <3>3. CASE t # s /\ u \in conn[t].loop.ahead
      BY <3>3 DEF HubInv, AheadKnown
    <3>. QED BY <1>9, <2>3, <3>1, <3>2, <3>3
  <2>. QED BY <1>11, <2>1, <2>2, <2>3 DEF Iterations
<1>. QED BY <1>12, <1>13, <1>14, <1>15, StepKeeps DEF StepOf

-----------------------------------------------------------------------------
(* Messages and broadcasts.                                                *)

\* A step of s that leaves the others' endpoints and every registration alone.
LEMMA OwnStep ==
  ASSUME HubInv, NEW s \in Sockets, NEW c \in Conns,
         conn' = [conn EXCEPT ![s] = c],
         UNCHANGED <<restVars, conns, open>>, Texts,
         conn[s].at \in Listening, c.at \in Listening, c.name = conn[s].name,
         c.at \in Casts => c.msg # 0,
         c.room <= lastRoom, c.msg <= Len(log'), c.history \subseteq 1 .. Len(log'),
         \A d \in c.loop.dead :
           d \in conn[s].loop.dead \/ (d \notin open /\ conn[d].at # "new"),
         \A u \in c.loop.ahead : conn[u].at # "new",
         c.at \in Casts =>
           \/ conn[s].at \in Casts /\ c.audience = conn[s].audience
           \/ c.audience = conns[c.name],
         c.at = "cast" /\ ~c.loop.moved =>
           \A u \in c.audience \cap open : c.msg \in heard'[u] \/ u \in c.loop.ahead
  PROVE  HubInv'
<1>1. conn \in [Sockets -> Conns] /\ conn[s].name \in Names
  BY DEF HubInv, TypeOK, Named, Listening
<1>2. conn' \in [Sockets -> Conns] /\ conn'[s] = c /\ \A t \in Sockets \ {s} : conn'[t] = conn[t]
  BY <1>1
<1>3. Locals(s)
  <2>1. c.at # "new"
    BY DEF Listening
  <2>. QED BY <1>1, <1>2, <2>1 DEF Locals
<1>4. Registry(s)
  <2>1. \A n \in Names : s \in conns[n] => c.name = n
    BY DEF HubInv, TypeOK
  <2>2. s \in open => s \in conns[c.name]
    BY DEF HubInv, ListenersRegistered, Listening
  <2>3. conns' \in [Names -> SUBSET Sockets]
    BY DEF HubInv, TypeOK
  <2>. QED BY <1>2, <2>1, <2>2, <2>3 DEF Registry
<1>5. Iterations(s)
  <2>1. ASSUME NEW t \in Sockets, conn'[t].at = "cast", ~conn'[t].loop.moved,
               NEW u \in conn'[t].audience \cap open'
        PROVE  conn'[t].msg \in heard'[u] \/ u \in conn'[t].loop.ahead
    <3>1. CASE t = s
      BY <1>2, <2>1, <3>1
    <3>2. CASE t # s
      <4>1. conn'[t] = conn[t] /\ u \in open /\ u \in Sockets
        BY <1>2, <2>1, <3>2 DEF HubInv, TypeOK
      <4>2. conn[t].msg \in heard[u] \/ u \in conn[t].loop.ahead
        BY <2>1, <4>1 DEF HubInv, AheadOrServed
      <4>. QED BY <4>1, <4>2 DEF Texts
    <3>. QED BY <3>1, <3>2
  <2>2. \A t \in Sockets : \A u \in conn'[t].loop.ahead : conn[u].at # "new"
    BY <1>2 DEF HubInv, AheadKnown
  <2>. QED BY <1>2, <2>1, <2>2 DEF Iterations
<1>. QED BY <1>3, <1>4, <1>5, StepKeeps DEF StepOf

\* When no message is saved and nobody hears one.
LEMMA SameTexts == ASSUME HubInv, UNCHANGED <<restVars, log, shown, heard>> PROVE Texts
<1>1. log \in Seq(Entry) /\ Len(log) \in Nat
  BY DEF HubInv, TypeOK, Entry
<1>2. Len(log) <= Len(log')
  BY <1>1
<1>. QED BY <1>1, <1>2 DEF HubInv, TypeOK, Texts

LEMMA SaveStep == ASSUME HubInv, NEW s \in Sockets, Save(s) PROVE HubInv'
<1>1. conn \in [Sockets -> Conns] /\ conn[s] \in Conns /\ conn[s].at = "save" /\ conn[s].name \in Names
  <2>1. conn[s].at = "save"
    BY DEF Save, At
  <2>. QED BY <2>1, ConnParts DEF HubInv, Named
<1>2. CASE GoFresh(s, "loop") /\ UNCHANGED log
  BY <1>1, <1>2, QuietFresh DEF Save, Listening
<1>3. CASE /\ log' = Append(log, [room |-> conn[s].room, stored |-> TRUE])
           /\ conn' = [conn EXCEPT ![s].at = "refresh", ![s].msg = Len(log) + 1,
                                   ![s].audience = conns[conn[s].name]]
  <2>. DEFINE c == [conn[s] EXCEPT !.at = "refresh", !.msg = Len(log) + 1,
                                   !.audience = conns[conn[s].name]]
  <2>1. log \in Seq(Entry) /\ Len(log) \in Nat /\ conns[conn[s].name] \in SUBSET Sockets
    BY <1>1 DEF HubInv, TypeOK, Entry
  <2>2. [room |-> conn[s].room, stored |-> TRUE] \in Entry
    BY ConnParts DEF Entry
  <2>3. log' \in Seq(Entry) /\ Len(log') = Len(log) + 1
    BY <1>3, <2>1, <2>2, AppendProperties
  <2>4. /\ c \in Conns /\ c.at = "refresh" /\ c.name = conn[s].name /\ c.room = conn[s].room
        /\ c.history = conn[s].history /\ c.msg = Len(log) + 1
        /\ c.audience = conns[c.name] /\ c.loop = conn[s].loop
    <3>1. Len(log) + 1 \in Nat /\ "refresh" \in Statements
      BY <2>1 DEF Statements
    <3>. QED BY <1>1, <2>1, <3>1 DEF Conns
  <2>5. conn' = [conn EXCEPT ![s] = c]
    BY <1>1, <1>3
  <2>6. 1 .. Len(log) \subseteq 1 .. Len(log') /\ Len(log) <= Len(log')
    BY <2>1, <2>3
  <2>7. Texts
    BY <2>3, <2>6 DEF Save, HubInv, TypeOK, Texts
  <2>8. /\ c.msg # 0 /\ c.msg <= Len(log') /\ c.room <= lastRoom
        /\ c.history \subseteq 1 .. Len(log')
    <3>1. c.msg # 0 /\ c.msg <= Len(log')
      BY <2>1, <2>3, <2>4
    <3>. QED BY <2>4, <2>6, <3>1, ConnParts
  <2>9. UNCHANGED <<restVars, conns, open>>
    BY DEF Save
  <2>10. c.at \in Listening /\ conn[s].at \in Listening /\ c.at # "cast"
    BY <1>1, <2>4 DEF Listening
  <2>11. \A u \in c.loop.ahead : conn[u].at # "new"
    BY <2>4 DEF HubInv, AheadKnown
  <2>. HIDE DEF c
  <2>. QED BY <2>4, <2>5, <2>7, <2>8, <2>9, <2>10, <2>11, OwnStep
<1>. QED BY <1>2, <1>3 DEF Save

LEMMA RefreshStep == ASSUME HubInv, NEW s \in Sockets, Refresh(s) PROVE HubInv'
<1>. DEFINE n == conn[s].name
<1>1. /\ conn \in [Sockets -> Conns] /\ conn[s] \in Conns /\ conn[s].at = "refresh"
      /\ n \in Names /\ conns[n] \in SUBSET Sockets
  <2>1. conn[s].at = "refresh"
    BY DEF Refresh, At
  <2>2. n \in Names
    BY <2>1 DEF HubInv, Named
  <2>. QED BY <2>1, <2>2, ConnParts DEF HubInv, TypeOK
<1>2. UNCHANGED <<restVars, log, conns, open, shown, heard>>
  BY DEF Refresh
<1>3. CASE GoFresh(s, "loop")
  BY <1>1, <1>2, <1>3, QuietFresh DEF Listening
<1>4. CASE GoFresh(s, "quota")
  BY <1>1, <1>2, <1>4, QuietFresh DEF Listening
<1>5. CASE conn' = [conn EXCEPT ![s].at = "cast",
                                ![s].loop = [NoLoop EXCEPT !.size = Cardinality(conns[n]),
                                                           !.ahead = conns[n]]]
  <2>. DEFINE l == [NoLoop EXCEPT !.size = Cardinality(conns[n]), !.ahead = conns[n]]
              c == [conn[s] EXCEPT !.at = "cast", !.loop = l]
  <2>1. Cardinality(conns[n]) \in Nat
    BY <1>1, Sizes
  <2>2. l \in Loops /\ l.dead = {} /\ l.ahead = conns[n]
    <3>. HIDE DEF n
    <3>. QED BY <1>1, <2>1 DEF Loops, NoLoop
  <2>. HIDE DEF l
  <2>3. /\ c \in Conns /\ c.at = "cast" /\ c.name = conn[s].name /\ c.room = conn[s].room
        /\ c.history = conn[s].history /\ c.msg = conn[s].msg
        /\ c.audience = conn[s].audience /\ c.loop = l
    BY <1>1, <2>2 DEF Conns, Statements
  <2>4. conn' = [conn EXCEPT ![s] = c]
    BY <1>1, <1>5 DEF l
  <2>5. \A u \in c.audience \cap open : u \in c.loop.ahead
    BY <1>1, <2>2, <2>3 DEF HubInv, AudienceThere, Casts
  <2>6. c.msg # 0
    BY <1>1, <2>3 DEF HubInv, Named, Casts
  <2>7. c.room <= lastRoom /\ c.msg <= Len(log') /\ c.history \subseteq 1 .. Len(log')
    BY <1>2, <2>3, ConnParts
  <2>8. Texts
    BY <1>2, SameTexts
  <2>9. c.loop.dead = {} /\ conn[s].at \in Casts /\ c.at \in Listening /\ conn[s].at \in Listening
    BY <1>1, <2>2, <2>3 DEF Casts, Listening
  <2>10. \A u \in c.loop.ahead : conn[u].at # "new"
    BY <1>1, <2>2, <2>3 DEF HubInv, RegisteredListen, Listening
  <2>. HIDE DEF c
  <2>. QED BY <1>2, <2>3, <2>4, <2>5, <2>10, <2>6, <2>7, <2>8, <2>9, OwnStep
<1>. QED BY <1>3, <1>4, <1>5 DEF Refresh

LEMMA BroadcastSendStep ==
  ASSUME HubInv, NEW s \in Sockets, NEW t \in Sockets, BroadcastSend(s, t) PROVE HubInv'
<1>1. /\ conn \in [Sockets -> Conns] /\ conn[s] \in Conns /\ conn[s].loop \in Loops
      /\ conn[s].at = "cast" /\ conn[s].msg \in 1 .. Len(log)
      /\ heard \in [Sockets -> SUBSET (1 .. Len(log))]
      /\ log \in Seq(Entry) /\ Len(log) \in Nat
  <2>1. conn[s].at = "cast"
    BY DEF BroadcastSend, At
  <2>2. conn[s].msg \in Nat /\ conn[s].msg <= Len(log) /\ conn[s].msg # 0
    BY <2>1, ConnParts DEF HubInv, Named, Casts
  <2>3. log \in Seq(Entry) /\ Len(log) \in Nat
    BY DEF HubInv, TypeOK, Entry
  <2>4. conn[s].msg \in 1 .. Len(log)
    BY <2>2, <2>3
  <2>. QED BY <2>1, <2>3, <2>4, ConnParts DEF HubInv, TypeOK
<1>2. UNCHANGED <<restVars, log, conns, open, shown>>
  BY DEF BroadcastSend
<1>3. conn[t].at # "new"
  <2>1. t \in conn[s].loop.ahead
    BY DEF BroadcastSend
  <2>. QED BY <2>1 DEF HubInv, AheadKnown
<1>4. PICK dead \in SUBSET Sockets :
        /\ conn' = [conn EXCEPT ![s].loop.ahead = @ \ {t}, ![s].loop.dead = dead]
        /\ \A d \in dead : d \in conn[s].loop.dead \/ (d \notin open /\ conn[d].at # "new")
        /\ heard' \in [Sockets -> SUBSET (1 .. Len(log))]
        /\ \A u \in Sockets : heard[u] \subseteq heard'[u]
        /\ t \in open => conn[s].msg \in heard'[t]
  <2>1. CASE /\ heard' = [heard EXCEPT ![t] = @ \cup {conn[s].msg}]
             /\ conn' = [conn EXCEPT ![s].loop.ahead = @ \ {t}]
    <3>1. conn' = [conn EXCEPT ![s].loop.ahead = @ \ {t}, ![s].loop.dead = conn[s].loop.dead]
      BY <1>1, <2>1 DEF Conns, Loops
    <3>2. /\ heard' \in [Sockets -> SUBSET (1 .. Len(log))] /\ conn[s].msg \in heard'[t]
          /\ \A u \in Sockets : heard[u] \subseteq heard'[u]
      BY <1>1, <2>1
    <3>. QED BY <3>1, <3>2, ConnParts
  <2>2. CASE /\ t \notin open /\ UNCHANGED heard
             /\ conn' = [conn EXCEPT ![s].loop.ahead = @ \ {t}, ![s].loop.dead = @ \cup {t}]
    <3>1. conn' = [conn EXCEPT ![s].loop.ahead = @ \ {t}, ![s].loop.dead = conn[s].loop.dead \cup {t}]
      BY <1>1, <2>2
    <3>2. conn[s].loop.dead \cup {t} \in SUBSET Sockets
      BY ConnParts
    <3>. QED BY <1>1, <1>3, <2>2, <3>1, <3>2
  <2>. QED BY <2>1, <2>2, ZenonT(40) DEF BroadcastSend
<1>. DEFINE l == [conn[s].loop EXCEPT !.ahead = conn[s].loop.ahead \ {t}, !.dead = dead]
            c == [conn[s] EXCEPT !.loop = l]
<1>5. /\ l \in Loops /\ l.dead = dead /\ l.ahead = conn[s].loop.ahead \ {t}
      /\ l.moved = conn[s].loop.moved
  BY <1>1 DEF Loops
<1>6. conn' = [conn EXCEPT ![s] = c]
  BY <1>1, <1>4 DEF Conns, Loops
<1>. HIDE DEF l
<1>7. /\ c \in Conns /\ c.at = "cast" /\ c.name = conn[s].name /\ c.room = conn[s].room
      /\ c.history = conn[s].history /\ c.msg = conn[s].msg /\ c.audience = conn[s].audience
      /\ c.loop = l
  BY <1>1, <1>5 DEF Conns
<1>8. Texts
  <2>. Len(log) <= Len(log')
    BY <1>1, <1>2
  <2>. QED BY <1>1, <1>2, <1>4 DEF HubInv, TypeOK, Texts
<1>9. ASSUME ~c.loop.moved, NEW u \in c.audience \cap open
      PROVE  c.msg \in heard'[u] \/ u \in c.loop.ahead
  <2>1. u \in Sockets /\ (conn[s].msg \in heard[u] \/ u \in conn[s].loop.ahead)
    BY <1>1, <1>5, <1>7, <1>9 DEF HubInv, TypeOK, AheadOrServed
  <2>. QED BY <1>4, <1>5, <1>7, <1>9, <2>1
<1>10. /\ c.msg # 0 /\ c.room <= lastRoom /\ c.msg <= Len(log')
       /\ c.history \subseteq 1 .. Len(log')
  <2>1. c.msg # 0 /\ c.msg <= Len(log)
    BY <1>1, <1>7
  <2>. QED BY <1>2, <1>7, <2>1, ConnParts DEF restVars
<1>11. /\ \A u \in c.loop.ahead : conn[u].at # "new"
       /\ \A d \in c.loop.dead :
            d \in conn[s].loop.dead \/ (d \notin open /\ conn[d].at # "new")
  BY <1>4, <1>5, <1>7 DEF HubInv, AheadKnown
<1>12. conn[s].at \in Listening /\ c.at \in Listening /\ conn[s].at \in Casts
  BY <1>1, <1>7 DEF Listening, Casts
<1>. HIDE DEF c
<1>. QED BY <1>2, <1>6, <1>7, <1>8, <1>9, <1>10, <1>11, <1>12, OwnStep

-----------------------------------------------------------------------------
(* The environment, and the theorems.                                      *)

LEMMA InitInv == Init => HubInv
<1>. SUFFICES ASSUME Init PROVE HubInv
  OBVIOUS
<1>1. NewConn \in Conns
  <2>1. NoLoop \in Loops
    BY DEF NoLoop, Loops
  <2>. QED BY <2>1 DEF NewConn, Conns, Statements, NoRoom
<1>2. conn \in [Sockets -> Conns] /\ \A s \in Sockets : conn[s] = NewConn
  BY <1>1 DEF Init
<1>3. \A s \in Sockets :
        /\ conn[s].at = "new" /\ conn[s].room = 0 /\ conn[s].msg = 0 /\ conn[s].history = {}
        /\ conn[s].loop.dead = {} /\ conn[s].loop.ahead = {}
  <2>1. /\ NewConn.at = "new" /\ NewConn.room = 0 /\ NewConn.msg = 0 /\ NewConn.history = {}
        /\ NewConn.loop = NoLoop
    BY DEF NewConn, NoRoom
  <2>2. NoLoop.dead = {} /\ NoLoop.ahead = {}
    BY DEF NoLoop
  <2>. QED BY <1>2, <2>1, <2>2
<1>4. /\ roomOf \in [Names -> 0 .. lastRoom] /\ lastRoom = 1
      /\ members \subseteq (1 .. lastRoom) \X Users /\ requests \in 0 .. MaxRequests
  BY HubAssumption DEF Init, NoRoom, HubAssumption
<1>5. TypeOK
  <2>1. log \in Seq([room : Nat, stored : BOOLEAN]) /\ Len(log) = 0
    BY DEF Init
  <2>2. /\ shown \in [Sockets -> SUBSET (1 .. Len(log))]
        /\ heard \in [Sockets -> SUBSET (1 .. Len(log))]
    BY DEF Init
  <2>3. \A s \in Sockets : /\ conn[s].room <= lastRoom /\ conn[s].msg <= Len(log)
                           /\ conn[s].history \subseteq 1 .. Len(log)
    BY <1>3, <1>4, <2>1
  <2>4. conns \in [Names -> SUBSET Sockets] /\ open \subseteq Sockets /\ \A n \in Names : conns[n] = {}
    BY DEF Init
  <2>. QED BY <1>2, <1>4, <2>1, <2>2, <2>3, <2>4 DEF TypeOK
<1>6. RegisteredListen /\ ListenersRegistered
  BY DEF Init, RegisteredListen, ListenersRegistered
<1>7. Named /\ DeadGone /\ AheadKnown /\ AudienceThere /\ AheadOrServed
  BY <1>3 DEF Named, DeadGone, AheadKnown, AudienceThere, AheadOrServed, Casts
<1>. QED BY <1>5, <1>6, <1>7 DEF HubInv

LEMMA RestSteps == ASSUME HubInv, Rest PROVE HubInv'
<1>1. ASSUME UNCHANGED hubVars, lastRoom' \in Nat, lastRoom <= lastRoom',
             requests' \in 0 .. MaxRequests,
             roomOf' \in [Names -> 0 .. lastRoom'],
             members' \subseteq (1 .. lastRoom') \X Users,
             log' \in Seq(Entry), Len(log') = Len(log)
      PROVE  HubInv'
  <2>1. TypeOK'
    <3>1. \A s \in Sockets : conn[s].room \in Nat
      BY ConnParts
    <3>2. lastRoom \in Nat /\ \A s \in Sockets : conn[s].room <= lastRoom
      BY DEF HubInv, TypeOK
    <3>3. \A s \in Sockets : conn[s].room <= lastRoom'
      BY <1>1, <3>1, <3>2
    <3>. QED BY <1>1, <3>3 DEF HubInv, TypeOK, hubVars, Entry
  <2>2. UNCHANGED <<conns, open, conn, shown, heard>>
    BY <1>1 DEF hubVars
  <2>3. ListenersRegistered' /\ RegisteredListen' /\ Named' /\ DeadGone' /\ AheadKnown'
    BY <2>2 DEF HubInv, ListenersRegistered, RegisteredListen, Named, DeadGone, AheadKnown
  <2>4. AudienceThere' /\ AheadOrServed'
    BY <2>2 DEF HubInv, AudienceThere, AheadOrServed
  <2>. QED BY <2>1, <2>3, <2>4 DEF HubInv
<1>2. /\ lastRoom \in Nat /\ roomOf \in [Names -> 0 .. lastRoom]
      /\ members \subseteq (1 .. lastRoom) \X Users /\ log \in Seq(Entry)
  BY DEF HubInv, TypeOK, Entry
<1>3. ASSUME NEW op, Served(op) PROVE requests' \in 0 .. MaxRequests
  BY <1>3, HubAssumption DEF HubInv, TypeOK, Served, HubAssumption
<1>4. ASSUME NEW r \in 1 .. lastRoom, NEW u \in Users, JoinRoom(r, u) PROVE HubInv'
  BY <1>1, <1>2, <1>3, <1>4 DEF JoinRoom
<1>5. ASSUME NEW r \in 1 .. lastRoom, NEW u \in Users, LeaveRoom(r, u) PROVE HubInv'
  BY <1>1, <1>2, <1>3, <1>5 DEF LeaveRoom
<1>6. ASSUME NEW n \in Names, NEW u \in Users, CreateRoom(n, u) PROVE HubInv'
  <2>1. /\ lastRoom' = lastRoom + 1 /\ log' = log /\ UNCHANGED hubVars
        /\ requests' \in 0 .. MaxRequests
    BY <1>3, <1>6 DEF CreateRoom
  <2>2. roomOf' \in [Names -> 0 .. lastRoom']
    <3>1. 0 .. lastRoom \subseteq 0 .. lastRoom' /\ lastRoom + 1 \in 0 .. lastRoom'
      BY <1>2, <2>1
    <3>. QED BY <1>2, <1>6, <3>1 DEF CreateRoom
  <2>3. members' \subseteq (1 .. lastRoom') \X Users
    <3>1. lastRoom + 1 \in 1 .. lastRoom' /\ 1 .. lastRoom \subseteq 1 .. lastRoom'
      BY <1>2, <2>1
    <3>. QED BY <1>2, <1>6, <3>1 DEF CreateRoom
  <2>. QED BY <1>1, <1>2, <2>1, <2>2, <2>3
<1>7. ASSUME NEW n \in Names, DeleteRoom(n) PROVE HubInv'
  <2>1. /\ roomOf' \in [Names -> 0 .. lastRoom] /\ members' \subseteq members
        /\ lastRoom' = lastRoom /\ UNCHANGED hubVars /\ requests' \in 0 .. MaxRequests
    BY <1>2, <1>3, <1>7 DEF DeleteRoom, NoRoom
  <2>2. log' \in Seq(Entry) /\ Len(log') = Len(log)
    <3>. DEFINE entry(i) == [log[i] EXCEPT !.stored = @ /\ (Cascades => log[i].room # roomOf[n])]
    <3>1. \A i \in DOMAIN log : entry(i) \in Entry
      <4>. SUFFICES ASSUME NEW i \in DOMAIN log PROVE entry(i) \in Entry
        OBVIOUS
      <4>1. log[i] \in Entry
        <5>1. i \in 1 .. Len(log)
          BY <1>2
        <5>. QED BY <1>2, <5>1, ElementOfSeq
      <4>. DEFINE still == log[i].stored /\ (Cascades => log[i].room # roomOf[n])
      <4>2. still \in BOOLEAN
        OBVIOUS
      <4>3. entry(i) = [log[i] EXCEPT !.stored = still]
        OBVIOUS
      <4>. HIDE DEF still, entry
      <4>. QED BY <4>1, <4>2, <4>3 DEF Entry
    <3>2. log' = [i \in DOMAIN log |-> entry(i)] /\ DOMAIN log = 1 .. Len(log) /\ Len(log) \in Nat
      BY <1>2, <1>7 DEF DeleteRoom
    <3>. HIDE DEF entry
    <3>3. log' \in [1 .. Len(log) -> Entry]
      BY <3>1, <3>2
    <3>. QED BY <3>2, <3>3
  <2>. QED BY <1>1, <1>2, <2>1, <2>2
<1>8. ASSUME NEW n \in Names, NEW new \in Names, RenameRoom(n, new) PROVE HubInv'
  BY <1>1, <1>2, <1>3, <1>8 DEF RenameRoom, NoRoom
<1>. QED BY <1>4, <1>5, <1>6, <1>7, <1>8 DEF Rest

LEMMA NextInv == HubInv /\ [Next]_vars => HubInv'
<1>. SUFFICES ASSUME HubInv, [Next]_vars PROVE HubInv'
  OBVIOUS
<1>1. CASE UNCHANGED vars
  BY <1>1, Still DEF vars, restVars
<1>2. ASSUME NEW s \in Sockets, ClientCloses(s) PROVE HubInv'
  <2>1. /\ UNCHANGED <<restVars, log, conns, conn, shown, heard>>
        /\ open' \subseteq open
    BY <1>2 DEF ClientCloses
  <2>. QED BY <2>1, Still
<1>. QED BY <1>1, <1>2, ConnectStep, ReceiveStep, GotoSteps, ReadHistoryStep, RegisterStep,
            SaveStep, RefreshStep, BroadcastSendStep, RemovalSteps, RestSteps
         DEF Next, Resume

\* The invariant of the registry and of the iterations over it is inductive.
LEMMA Invariance == Spec => []HubInv
BY InitInv, NextInv, PTL DEF Spec

\* Rooms, messages and sockets in every local of every endpoint are ones there
\* have been, and nobody is registered under another's name or after a good end.
THEOREM Types == Spec => []TypeOK
<1>1. HubInv => TypeOK
  BY DEF HubInv
<1>. QED BY Invariance, <1>1, PTL

\* Evictions and disconnects, each in the middle of others' iterations, never
\* forget a socket that still listens.
THEOREM Registered == Spec => []ListenersRegistered
<1>1. HubInv => ListenersRegistered
  BY DEF HubInv
<1>. QED BY Invariance, <1>1, PTL

\* A step of another endpoint leaves an endpoint at its statement.
LEMMA OthersStay ==
  ASSUME HubInv, NEW s \in Sockets, NEW t \in Sockets \ {s},
         \/ \E n \in Names : Connect(t, n)
         \/ Receive(t) \/ ReceiveOdd(t) \/ ClientCloses(t) \/ Resume(t)
  PROVE  conn'[s].at = conn[s].at
<1>1. conn \in [Sockets -> Conns] /\ s # t
  BY ConnParts
<1>2. ASSUME NEW at, GoFresh(t, at) \/ Goto(t, at) PROVE conn'[s] = conn[s]
  BY <1>1, <1>2 DEF GoFresh, Goto
<1>3. ASSUME NEW how, End(t, how) PROVE conn'[s] = conn[s]
  BY <1>2, <1>3 DEF End
<1>4. CASE \E n \in Names : Connect(t, n)
  BY <1>1, <1>3, <1>4 DEF Connect
<1>5. CASE CheckMember(t) \/ ReadHistory(t) \/ Accept(t)
  BY <1>1, <1>2, <1>3, <1>5 DEF CheckMember, ReadHistory, Accept
<1>6. CASE Receive(t) \/ ReceiveOdd(t) \/ ClientCloses(t) \/ CheckAuthor(t)
  BY <1>1, <1>2, <1>3, <1>6 DEF Receive, ReceiveOdd, ClientCloses, CheckAuthor
<1>7. CASE Save(t) \/ Refresh(t) \/ SendQuota(t) \/ BroadcastFail(t)
  BY <1>1, <1>2, <1>3, <1>7 DEF Save, Refresh, SendQuota, BroadcastFail
<1>8. CASE \E u \in Sockets : BroadcastSend(t, u)
  BY <1>1, <1>8 DEF BroadcastSend
<1>9. CASE Register(t)
  <2>1. PICK ahead, moved :
          \/ /\ conn'[s] = Inserted(s, ahead, moved)
             /\ moved \in BOOLEAN /\ ahead \in SUBSET Sockets
          \/ conn'[s] = conn[s]
    <3>. DEFINE n == conn[t].name
    <3>1. n \in Names /\ conns[n] \in SUBSET Sockets
      <4>1. conn[t].at = "register"
        BY <1>9 DEF Register, At
      <4>2. n \in Names
        BY <4>1 DEF HubInv, Named
      <4>. QED BY <4>2 DEF HubInv, TypeOK
    <3>2. PICK moved \in BOOLEAN : \E ahead \in Added(n, t, moved) :
            conn'[s] = IF s \in Casting(n)
                       THEN [conn[s] EXCEPT !.loop.ahead = ahead[s], !.loop.moved = @ \/ moved]
                       ELSE conn[s]
      BY <1>1, <1>9 DEF Register
    <3>3. PICK ahead \in Added(n, t, moved) :
            conn'[s] = IF s \in Casting(n)
                       THEN [conn[s] EXCEPT !.loop.ahead = ahead[s], !.loop.moved = @ \/ moved]
                       ELSE conn[s]
      BY <3>2
    <3>4. s \in Casting(n) => ahead[s] \in SUBSET Sockets
      BY <3>1, <3>3 DEF Added
    <3>. QED BY <3>3, <3>4 DEF Inserted
  <2>. QED BY <2>1, InsertedFields
<1>10. CASE BroadcastDone(t) \/ Disconnect(t)
  <2>. DEFINE n == conn[t].name
  <2>1. n \in Names /\ conns[n] \in SUBSET Sockets
    <3>1. conn[t].at \notin {"new", "closed"}
      BY <1>10 DEF BroadcastDone, Disconnect, At
    <3>2. n \in Names
      BY <3>1 DEF HubInv, Named
    <3>. QED BY <3>2 DEF HubInv, TypeOK
  <2>2. PICK gone : \E at : conn' = [Discarded(n, Without(n, gone)) EXCEPT ![t] = Fresh(t, at)]
    BY <1>10 DEF BroadcastDone, Disconnect
  <2>3. Without(n, gone) \in SUBSET Sockets
    BY <2>1 DEF Without
  <2>4. /\ Discarded(n, Without(n, gone)) \in [Sockets -> Conns]
        /\ Discarded(n, Without(n, gone))[s].at = conn[s].at
    BY <2>1, <2>3, DiscardedFields
  <2>. QED BY <1>1, <2>2, <2>4
<1>. QED BY <1>4, <1>5, <1>6, <1>7, <1>8, <1>9, <1>10 DEF Resume

\* Only the end of broadcast_to_room, or its return when nobody is registered,
\* takes an endpoint from the broadcast to the quota_left frame.
LEMMA CastEnds ==
  ASSUME HubInv, Next, NEW s \in Sockets, conn[s].at \in Casts, conn'[s].at = "quota"
  PROVE  \/ conn[s].at = "cast" /\ conn[s].loop.ahead = {}
         \/ conn[s].at = "refresh" /\ conns[conn[s].name] = {}
<1>1. conn \in [Sockets -> Conns] /\ conn[s] \in Conns /\ conn[s].loop \in Loops
      /\ conn[s].at \in {"refresh", "cast"}
  BY ConnParts DEF Casts
<1>2. ~Rest
  <2>1. Rest => conn' = conn
    BY DEF Rest, JoinRoom, LeaveRoom, CreateRoom, DeleteRoom, RenameRoom, hubVars
  <2>. QED BY <1>1, <2>1
<1>3. \/ \E n \in Names : Connect(s, n)
      \/ Receive(s) \/ ReceiveOdd(s) \/ ClientCloses(s) \/ Resume(s)
  BY <1>1, <1>2, OthersStay DEF Next
<1>4. ~ClientCloses(s)
  BY <1>1 DEF ClientCloses
<1>5. Refresh(s) \/ (\E t \in Sockets : BroadcastSend(s, t)) \/ BroadcastDone(s) \/ BroadcastFail(s)
  BY <1>1, <1>3, <1>4
  DEF Connect, Receive, ReceiveOdd, Resume, CheckMember, ReadHistory, Accept, Register,
      CheckAuthor, Save, SendQuota, Disconnect, At
<1>6. ASSUME NEW at \in Statements, GoFresh(s, at) PROVE at = "quota"
  <2>1. conn'[s] = Fresh(s, at)
    BY <1>1, <1>6 DEF GoFresh
  <2>. QED BY <2>1, FreshFields
<1>7. CASE Refresh(s)
  <2>1. ~GoFresh(s, "loop")
    BY <1>6 DEF Statements
  <2>2. ASSUME NEW l, conn' = [conn EXCEPT ![s].at = "cast", ![s].loop = l]
        PROVE  FALSE
    <3>1. conn'[s] = [conn[s] EXCEPT !.at = "cast", !.loop = l]
      BY <1>1, <2>2
    <3>. QED BY <1>1, <3>1 DEF Conns
  <2>3. conn[s].at = "refresh" /\ conns[conn[s].name] = {}
    BY <1>7, <2>1, <2>2 DEF Refresh, At
  <2>. QED BY <2>3
<1>8. CASE \E t \in Sockets : BroadcastSend(s, t)
  <2>1. conn[s].at = "cast" /\ conn'[s].at = conn[s].at
    <3>1. PICK l : conn'[s] = [conn[s] EXCEPT !.loop = l]
      <4>1. PICK t \in Sockets : BroadcastSend(s, t)
        BY <1>8
      <4>2. CASE conn' = [conn EXCEPT ![s].loop.ahead = @ \ {t}]
        <5>1. conn'[s] = [conn[s] EXCEPT !.loop = [@ EXCEPT !.ahead = @ \ {t}]]
          BY <1>1, <4>2
        <5>. QED BY <5>1
      <4>3. CASE conn' = [conn EXCEPT ![s].loop.ahead = @ \ {t}, ![s].loop.dead = @ \cup {t}]
        <5>1. conn'[s] = [conn[s] EXCEPT !.loop = [conn[s].loop EXCEPT !.ahead = @ \ {t},
                                                                      !.dead = @ \cup {t}]]
          BY <1>1, <4>3 DEF Conns, Loops
        <5>. QED BY <5>1
      <4>. QED BY <4>1, <4>2, <4>3 DEF BroadcastSend
    <3>. QED BY <1>1, <1>8, <3>1 DEF BroadcastSend, At, Conns
  <2>. QED BY <2>1
<1>9. CASE BroadcastFail(s)
  BY <1>6, <1>9 DEF BroadcastFail, End, Statements
<1>10. CASE BroadcastDone(s)
  BY <1>10 DEF BroadcastDone, At
<1>. QED BY <1>5, <1>7, <1>8, <1>9, <1>10

\* A broadcast that returns has reached everyone who was registered when its
\* message was saved and still has a connection, but for a table replaced in the
\* middle of the iteration.
THEOREM Reaches == Spec => BroadcastReachesAll
<1>. DEFINE reached ==
       \A s \in Sockets :
         (At(s, "refresh") \/ At(s, "cast")) /\ conn'[s].at = "quota" /\ ~conn[s].loop.moved =>
           \A t \in conn[s].audience \cap open : conn[s].msg \in heard[t]
<1>1. ASSUME HubInv, [Next]_vars PROVE [reached]_vars
  <2>. SUFFICES ASSUME Next, NEW s \in Sockets, conn[s].at \in Casts, conn'[s].at = "quota",
                       ~conn[s].loop.moved, NEW t \in conn[s].audience \cap open
                PROVE  conn[s].msg \in heard[t]
    BY <1>1 DEF At, Casts
  <2>1. t \in conns[conn[s].name]
    BY <1>1 DEF HubInv, AudienceThere
  <2>2. conn[s].at = "cast" /\ conn[s].loop.ahead = {}
    BY <1>1, <2>1, CastEnds
  <2>. QED BY <1>1, <2>2 DEF HubInv, AheadOrServed
<1>2. HubInv /\ [Next]_vars => [reached]_vars
  BY <1>1
<1>. QED BY Invariance, <1>2, PTL DEF BroadcastReachesAll, Spec

=============================================================================
