------------------------------ MODULE TabsProofs ------------------------------
(***************************************************************************)
(* Proofs about Tabs, for any rooms, instances, pages and bounds.          *)
(***************************************************************************)
EXTENDS Tabs, FiniteSetTheorems, WellFoundedInduction, TLAPS

-----------------------------------------------------------------------------
(* Induction, for a set of numbers.                                        *)

LEMMA SetInduction ==
  ASSUME NEW S \in SUBSET Nat, 0 \in S, \A n \in S : n + 1 \in S
  PROVE  \A n \in Nat : n \in S
<1>. DEFINE U == Nat \ S
<1>. DEFINE R == OpToRel(<, Nat)
<1>1. IsWellFoundedOn(R, Nat)
  BY NatLessThanWellFounded
<1>2. \A x, y \in Nat : <<x, y>> \in R <=> x < y
  BY DEF OpToRel
<1>. HIDE DEF R
<1>3. SUFFICES ASSUME U # {} PROVE FALSE
  OBVIOUS
<1>4. PICK u \in U : \A v \in U : <<v, u>> \notin R
  <2>1. IsWellFoundedOn(R, Nat) /\ U \subseteq Nat /\ U # {}
    BY <1>1, <1>3
  <2>. HIDE DEF U
  <2>. QED BY <2>1, WFMin
<1>5. u # 0 /\ u - 1 \in Nat /\ u - 1 < u
  BY <1>4
<1>6. u - 1 \in S
  BY <1>2, <1>4, <1>5
<1>7. u \in S
  <2>1. (u - 1) + 1 \in S
    BY <1>6
  <2>. QED BY <1>5, <2>1
<1>. QED BY <1>4, <1>7

-----------------------------------------------------------------------------
(* Filtered sequences.                                                     *)

\* What Kept has after n elements.
KeptUpTo(seq, S, kept, N) ==
  kept = [n \in 0 .. N |->
            IF n = 0 THEN <<>>
            ELSE IF seq[n] \in S THEN Append(kept[n - 1], seq[n]) ELSE kept[n - 1]]

\* The recursive function of Kept exists.
LEMMA KeptExists ==
  ASSUME NEW seq, NEW S
  PROVE  \A N \in Nat : \E kept : KeptUpTo(seq, S, kept, N)
<1>. DEFINE P == {N \in Nat : \E kept : KeptUpTo(seq, S, kept, N)}
<1>1. 0 \in P
  <2>1. KeptUpTo(seq, S, [n \in 0 .. 0 |-> <<>>], 0)
    BY DEF KeptUpTo
  <2>. QED BY <2>1
<1>2. ASSUME NEW N \in P PROVE N + 1 \in P
  <2>1. PICK kept : KeptUpTo(seq, S, kept, N)
    BY <1>2
  <2>. DEFINE last == IF seq[N + 1] \in S THEN Append(kept[N], seq[N + 1]) ELSE kept[N]
              more == [n \in 0 .. N + 1 |-> IF n = N + 1 THEN last ELSE kept[n]]
  <2>2. N \in Nat
    BY <1>2
  <2>3. ASSUME NEW n \in 0 .. N + 1
        PROVE  more[n] = IF n = 0 THEN <<>>
                         ELSE IF seq[n] \in S THEN Append(more[n - 1], seq[n])
                         ELSE more[n - 1]
    <3>1. CASE n = N + 1
      <4>1. n # 0 /\ n - 1 = N /\ n - 1 \in 0 .. N + 1 /\ n - 1 # N + 1
        BY <2>2, <3>1
      <4>2. more[n - 1] = kept[N] /\ more[n] = last
        BY <3>1, <4>1
      <4>. QED BY <3>1, <4>1, <4>2
    <3>2. CASE n # N + 1
      <4>1. n \in 0 .. N /\ more[n] = kept[n]
        BY <2>2, <3>2
      <4>2. n # 0 => n - 1 \in 0 .. N + 1 /\ n - 1 # N + 1
        BY <2>2, <4>1
      <4>3. n # 0 => more[n - 1] = kept[n - 1]
        BY <4>2
      <4>. HIDE DEF more
      <4>. QED BY <2>1, <4>1, <4>3 DEF KeptUpTo
    <3>. QED BY <3>1, <3>2
  <2>4. KeptUpTo(seq, S, more, N + 1)
    BY <2>3 DEF KeptUpTo
  <2>. QED BY <2>2, <2>4
<1>3. \A N \in Nat : N \in P
  <2>. HIDE DEF P
  <2>1. P \in SUBSET Nat
    BY DEF P
  <2>. QED BY <1>1, <1>2, <2>1, SetInduction
<1>. QED BY <1>3

LEMMA KeptIs ==
  ASSUME NEW seq, NEW S, Len(seq) \in Nat
  PROVE  \E kept : KeptUpTo(seq, S, kept, Len(seq)) /\ Kept(seq, S) = kept[Len(seq)]
<1>1. PICK kept : KeptUpTo(seq, S, kept, Len(seq))
  BY KeptExists
<1>. QED BY <1>1 DEF Kept, KeptUpTo

\* Kept has the elements asked for, in an order they had.
LEMMA KeptFacts ==
  ASSUME NEW T, NEW seq \in Seq(T), NEW S
  PROVE  /\ Kept(seq, S) \in Seq(T)
         /\ ToSet(Kept(seq, S)) = ToSet(seq) \cap S
         /\ \A R :
              (\A i, j \in 1 .. Len(seq) : i < j => <<seq[i], seq[j]>> \in R) =>
              \A i, j \in 1 .. Len(Kept(seq, S)) :
                i < j => <<Kept(seq, S)[i], Kept(seq, S)[j]>> \in R
<1>. DEFINE L == Len(seq)
<1>1. PICK kept : KeptUpTo(seq, S, kept, L) /\ Kept(seq, S) = kept[L]
  BY KeptIs
<1>2. L \in Nat /\ DOMAIN seq = 1 .. L /\ \A i \in 1 .. L : seq[i] \in T
  OBVIOUS
<1>. DEFINE Begun(n) == {seq[i] : i \in 1 .. n} \cap S
            Ordered(n, R) == \A i, j \in 1 .. Len(kept[n]) :
                               i < j => <<kept[n][i], kept[n][j]>> \in R
            Right(n) ==
              /\ kept[n] \in Seq(T)
              /\ {kept[n][i] : i \in 1 .. Len(kept[n])} = Begun(n)
              /\ \A R : (\A i, j \in 1 .. L : i < j => <<seq[i], seq[j]>> \in R) =>
                   Ordered(n, R)
            P == {n \in Nat : n <= L => Right(n)}
<1>3. 0 \in P
  <2>1. kept[0] = <<>>
    BY <1>1, <1>2 DEF KeptUpTo
  <2>2. Right(0)
    BY <2>1
  <2>. HIDE DEF Right
  <2>. QED BY <2>2
<1>4. ASSUME NEW n \in P PROVE n + 1 \in P
  <2>1. n \in Nat /\ n + 1 \in Nat
    BY <1>4
  <2>2. SUFFICES ASSUME n + 1 <= L PROVE Right(n + 1)
    <3>. HIDE DEF Right
    <3>. QED BY <2>1
  <2>3. n + 1 \in 1 .. L /\ n \in 0 .. L /\ n + 1 \in 0 .. L /\ (n + 1) - 1 = n /\ n + 1 # 0
    BY <1>2, <2>1, <2>2
  <2>4. /\ kept[n] \in Seq(T)
        /\ {kept[n][i] : i \in 1 .. Len(kept[n])} = Begun(n)
        /\ \A R : (\A i, j \in 1 .. L : i < j => <<seq[i], seq[j]>> \in R) => Ordered(n, R)
    <3>1. Right(n)
      <4>. HIDE DEF Right
      <4>. QED BY <1>4, <2>2, <2>1, <1>2
    <3>. QED BY <3>1
  <2>5. kept[n + 1] = IF seq[n + 1] \in S THEN Append(kept[n], seq[n + 1]) ELSE kept[n]
    BY <1>1, <2>3 DEF KeptUpTo
  <2>6. seq[n + 1] \in T
    BY <1>2, <2>3
  <2>7. {seq[i] : i \in 1 .. n + 1} = {seq[i] : i \in 1 .. n} \cup {seq[n + 1]}
    BY <2>1
  <2>8. CASE seq[n + 1] \in S
    <3>. DEFINE old == kept[n]
                new == kept[n + 1]
    <3>1. /\ new = Append(old, seq[n + 1]) /\ new \in Seq(T) /\ Len(new) = Len(old) + 1
          /\ Len(old) \in Nat /\ \A i \in 1 .. Len(old) : new[i] = old[i]
          /\ new[Len(old) + 1] = seq[n + 1]
      BY <2>4, <2>5, <2>6, <2>8
    <3>2. {new[i] : i \in 1 .. Len(new)} = {old[i] : i \in 1 .. Len(old)} \cup {seq[n + 1]}
      <4>. HIDE DEF old, new
      <4>. QED BY <3>1
    <3>3. {new[i] : i \in 1 .. Len(new)} = Begun(n + 1)
      BY <2>4, <2>7, <2>8, <3>2
    <3>4. ASSUME NEW R, \A i, j \in 1 .. L : i < j => <<seq[i], seq[j]>> \in R,
                 NEW i \in 1 .. Len(new), NEW j \in 1 .. Len(new), i < j
          PROVE  <<new[i], new[j]>> \in R
      <4>1. CASE j \in 1 .. Len(old)
        <5>1. i \in 1 .. Len(old) /\ new[i] = old[i] /\ new[j] = old[j]
          BY <3>1, <3>4, <4>1
        <5>2. <<old[i], old[j]>> \in R
          BY <2>4, <3>4, <4>1, <5>1
        <5>. QED BY <5>1, <5>2
      <4>2. CASE j \notin 1 .. Len(old)
        <5>1. j = Len(old) + 1 /\ i \in 1 .. Len(old)
          BY <3>1, <3>4, <4>2
        <5>2. old[i] \in Begun(n)
          BY <2>4, <5>1
        <5>3. PICK m \in 1 .. n : old[i] = seq[m]
          BY <5>2
        <5>4. m \in 1 .. L /\ m < n + 1
          BY <2>1, <2>3, <5>3
        <5>5. <<seq[m], seq[n + 1]>> \in R
          BY <2>3, <3>4, <5>4
        <5>6. new[i] = seq[m] /\ new[j] = seq[n + 1]
          BY <3>1, <5>1, <5>3
        <5>. QED BY <5>5, <5>6
      <4>. QED BY <4>1, <4>2
    <3>. QED BY <3>1, <3>3, <3>4
  <2>9. CASE seq[n + 1] \notin S
    <3>1. kept[n + 1] = kept[n]
      BY <2>5, <2>9
    <3>2. Begun(n + 1) = Begun(n)
      BY <2>7, <2>9
    <3>. QED BY <2>4, <3>1, <3>2
  <2>. QED BY <2>8, <2>9
<1>5. L \in P
  <2>1. P \in SUBSET Nat
    OBVIOUS
  <2>. HIDE DEF P
  <2>. QED BY <1>2, <1>3, <1>4, <2>1, SetInduction
<1>6. /\ kept[L] \in Seq(T)
      /\ {kept[L][i] : i \in 1 .. Len(kept[L])} = Begun(L)
      /\ \A R : (\A i, j \in 1 .. L : i < j => <<seq[i], seq[j]>> \in R) => Ordered(L, R)
  <2>1. Right(L)
    <3>. HIDE DEF Right
    <3>. QED BY <1>2, <1>5
  <2>. QED BY <2>1
<1>7. ToSet(Kept(seq, S)) = ToSet(seq) \cap S
  <2>1. DOMAIN kept[L] = 1 .. Len(kept[L])
    BY <1>6
  <2>. QED BY <1>1, <1>2, <1>6, <2>1 DEF ToSet
<1>. QED BY <1>1, <1>6, <1>7

LEMMA KeptInjective ==
  ASSUME NEW T, NEW seq \in Seq(T), NEW S, IsInjective(seq)
  PROVE  IsInjective(Kept(seq, S))
<1>. DEFINE R == {p \in T \X T : p[1] # p[2]}
            kept == Kept(seq, S)
<1>1. kept \in Seq(T)
  BY KeptFacts
<1>2. \A i, j \in 1 .. Len(seq) : i < j => <<seq[i], seq[j]>> \in R
  BY DEF IsInjective
<1>3. \A i, j \in 1 .. Len(kept) : i < j => <<kept[i], kept[j]>> \in R
  <2>. HIDE DEF R
  <2>. QED BY <1>2, KeptFacts
<1>4. \A i, j \in 1 .. Len(kept) : i < j => kept[i] # kept[j]
  BY <1>3
<1>. HIDE DEF kept
<1>5. DOMAIN kept = 1 .. Len(kept) /\ Len(kept) \in Nat
  BY <1>1
<1>6. \A i, j \in 1 .. Len(kept) : i # j => i < j \/ j < i
  BY <1>5
<1>. QED BY <1>4, <1>5, <1>6 DEF IsInjective, kept
-----------------------------------------------------------------------------
(* The inductive invariant, part by part.  It is about a record of the      *)
(* client, s, and the messages posted, p: a handler goes through several    *)
(* such records before it is done.                                          *)

TabRecords(n) ==
  [type : Types, room : Rooms \cup {NoRoom}, node : BOOLEAN, dirty : BOOLEAN,
   loaded : BOOLEAN, log : Seq(1 .. n)]

FrameRecords(n) ==
  [type : {"init"}, history : Seq(1 .. n)] \cup [type : {"chat_message"}, message : 1 .. n]

SocketRecords(n) ==
  [room : Rooms, tab : Slots, bound : BOOLEAN, open : BOOLEAN,
   since : 0 .. n, inbox : Seq(FrameRecords(n))]

\* The bags of elements of a set.
Copies(E) == UNION {[W -> Nat \ {0}] : W \in SUBSET E}

Waits == Copies(Slots \X Awaits)

\* There are no sockets, or socket 1.
Records(n) ==
  [tabs : Seq(Slots), tab : [Slots -> TabRecords(n)],
   active : Slots \cup {None}, mounted : Slots \cup {None},
   currentRoom : Rooms \cup {NoRoom}, chatSocket : {None, 1},
   sockets : [{} -> SocketRecords(n)] \cup [{1} -> SocketRecords(n)],
   ready : Seq(Slots), waiting : Waits]

\* The strip has different tabs, and the active one is among them.
Strip(s) ==
  IsInjective(s.tabs) /\ s.active \in ToSet(s.tabs) \cup {None}

\* The placeholder is alone, and what is keyed by its room is there once.
Distinct(s) ==
  \A t, u \in ToSet(s.tabs) : t # u =>
    /\ s.tab[t].type # "placeholder"
    /\ KeyedByRoom(s.tab[t].type) =>
         <<s.tab[t].type, s.tab[t].room>> # <<s.tab[u].type, s.tab[u].room>>

\* chatSocket is the only socket.  It is one of a room tab, to that tab's room,
\* which is the current one; what is mounted beside it is a tab of that room.
Line(s) ==
  /\ DOMAIN s.sockets = {s.chatSocket} \ {None}
  /\ s.chatSocket # None =>
       LET socket == s.sockets[1] IN
       /\ socket.room = s.currentRoom
       /\ s.tab[socket.tab].type = "room" /\ s.tab[socket.tab].room = socket.room
       /\ s.mounted # None =>
            s.tab[s.mounted].type = "room" /\ s.tab[s.mounted].room = socket.room

\* Only tabs that fetch data wait for data.
DataAwaited(s) ==
  \A t \in Slots : <<t, "data">> \in DOMAIN s.waiting => Fetching(s.tab[t].type)

\* Only room tabs, which have a room, have a log, of messages of that room, in order.
Increasing(seq) == \A i, j \in 1 .. Len(seq) : i < j => seq[i] < seq[j]
Within(seq, r, p) == \A i \in 1 .. Len(seq) : p[seq[i]] = r

Logs(s, p) ==
  \A t \in Slots :
    /\ s.tab[t].type = "room" => s.tab[t].room \in Rooms
    /\ s.tab[t].type # "room" => s.tab[t].log = <<>>
    /\ Within(s.tab[t].log, s.tab[t].room, p) /\ Increasing(s.tab[t].log)

\* What a socket has still to deliver goes on where its tab's log ends: the history
\* first, if it is still there, then messages posted since, in order; none is
\* missing.
InboxOf(socket, log, p) ==
  /\ \A i \in 1 .. Len(socket.inbox) : socket.inbox[i].type = "init" =>
       /\ i = 1
       /\ Within(socket.inbox[i].history, socket.room, p)
       /\ Increasing(socket.inbox[i].history)
       /\ \A j \in 1 .. Len(socket.inbox[i].history) : socket.inbox[i].history[j] <= socket.since
       /\ \A j \in 1 .. Len(log) : log[j] <= socket.since
  /\ \A i \in 1 .. Len(socket.inbox) : socket.inbox[i].type = "chat_message" =>
       /\ socket.since < socket.inbox[i].message
       /\ p[socket.inbox[i].message] = socket.room
       /\ \A j \in 1 .. Len(log) : log[j] < socket.inbox[i].message
       /\ \A j \in 1 .. Len(socket.inbox) : i < j => socket.inbox[i].message < socket.inbox[j].message
  /\ socket.open /\ socket.bound =>
       \A m \in 1 .. Len(p) : p[m] = socket.room /\ socket.since < m =>
         \/ \E j \in 1 .. Len(log) : log[j] = m
         \/ \E i \in 1 .. Len(socket.inbox) :
              socket.inbox[i] = [type |-> "chat_message", message |-> m]

Stream(s, p) ==
  s.chatSocket # None => InboxOf(s.sockets[1], s.tab[s.sockets[1].tab].log, p)

\* If nothing is awaited, the last activation that goes on is the active tab's.
LastReady(s) ==
  s.ready # <<>> /\ DOMAIN s.waiting = {} => s.ready[Len(s.ready)] = s.active

Kind(s, p) == Line(s) /\ DataAwaited(s) /\ Logs(s, p) /\ Stream(s, p)

Good(s, p) == s \in Records(Len(p)) /\ Strip(s) /\ Distinct(s) /\ Kind(s, p)

\* When no handler runs.
UiInv == Good(ui, posted) /\ LastReady(ui)

CallsInv == calls \in Copies(Questions)

PostedInv == posted \in Seq(Rooms) /\ Len(posted) <= MaxMessages

TabsInv == UiInv /\ CallsInv /\ PostedInv

-----------------------------------------------------------------------------
(* What the operators of the model do to a record.                         *)

\* One more copy of an element, and one less.
LEMMA CopiesMore ==
  ASSUME NEW E, NEW B \in Copies(E), NEW w \in E
  PROVE  /\ B (+) SetToBag({w}) \in Copies(E)
         /\ DOMAIN (B (+) SetToBag({w})) = DOMAIN B \cup {w}
<1>1. PICK W \in SUBSET E : B \in [W -> Nat \ {0}]
  BY DEF Copies
<1>. DEFINE more == [e \in W \cup {w} |-> (IF e \in W THEN B[e] ELSE 0)
                                           + (IF e \in {w} THEN SetToBag({w})[e] ELSE 0)]
<1>2. B (+) SetToBag({w}) = more
  BY <1>1 DEF (+), SetToBag
<1>3. ASSUME NEW e \in W \cup {w} PROVE more[e] \in Nat \ {0}
  <2>1. SetToBag({w})[w] = 1
    BY DEF SetToBag
  <2>. QED BY <1>1, <2>1
<1>4. more \in [W \cup {w} -> Nat \ {0}]
  <2>. HIDE DEF more
  <2>1. DOMAIN more = W \cup {w} /\ more = [e \in W \cup {w} |-> more[e]]
    BY DEF more
  <2>. QED BY <1>3, <2>1
<1>5. W \cup {w} \in SUBSET E
  BY <1>1
<1>. HIDE DEF more
<1>. QED BY <1>1, <1>2, <1>4, <1>5 DEF Copies

LEMMA CopiesLess ==
  ASSUME NEW E, NEW B \in Copies(E), NEW w \in E
  PROVE  /\ B (-) SetToBag({w}) \in Copies(E)
         /\ DOMAIN (B (-) SetToBag({w})) \subseteq DOMAIN B
<1>1. PICK W \in SUBSET E : B \in [W -> Nat \ {0}]
  BY DEF Copies
<1>. DEFINE less == [e \in W |-> IF e \in {w} THEN B[e] - SetToBag({w})[e] ELSE B[e]]
            left == {d \in W : less[d] > 0}
            rest == [e \in left |-> less[e]]
<1>2. B (-) SetToBag({w}) = rest
  BY <1>1 DEF (-), SetToBag
<1>3. ASSUME NEW e \in left PROVE less[e] \in Nat \ {0}
  <2>1. SetToBag({w})[w] = 1
    BY DEF SetToBag
  <2>. QED BY <1>1, <2>1
<1>4. rest \in [left -> Nat \ {0}]
  <2>. HIDE DEF less, left
  <2>. QED BY <1>3
<1>5. left \in SUBSET E /\ left \subseteq W
  BY <1>1
<1>6. DOMAIN rest \subseteq DOMAIN B
  BY <1>1, <1>4, <1>5
<1>. HIDE DEF less, left, rest
<1>7. rest \in Copies(E)
  BY <1>4, <1>5 DEF Copies
<1>. QED BY <1>2, <1>6, <1>7

\* A bag of a set is a bag.
LEMMA CopiesABag ==
  ASSUME NEW E, NEW B \in Copies(E)
  PROVE  IsABag(B) /\ BagToSet(B) \subseteq E
<1>1. PICK W \in SUBSET E : B \in [W -> Nat \ {0}]
  BY DEF Copies
<1>2. Nat \ {0} = {n \in Nat : n > 0}
  OBVIOUS
<1>. QED BY <1>1, <1>2 DEF IsABag, BagToSet

LEMMA NoCopies ==
  ASSUME NEW E
  PROVE  EmptyBag \in Copies(E) /\ DOMAIN EmptyBag = {}
<1>1. EmptyBag \in [{} -> Nat \ {0}]
  BY DEF EmptyBag, SetToBag
<1>. QED BY <1>1 DEF Copies

LEMMA DestroyedTab ==
  ASSUME NEW n \in Nat, NEW tab \in TabRecords(n)
  PROVE  /\ Destroyed(tab) \in TabRecords(n)
         /\ Destroyed(tab).type = tab.type /\ Destroyed(tab).room = tab.room
         /\ Destroyed(tab).log = tab.log
BY DEF Destroyed, TabRecords

LEMMA AwaitRecord ==
  ASSUME NEW n \in Nat, NEW s \in Records(n), NEW t \in Slots, NEW what \in Awaits
  PROVE  /\ Await(s, t, what) \in Records(n)
         /\ Await(s, t, what) = [s EXCEPT !.waiting = Await(s, t, what).waiting]
         /\ DOMAIN Await(s, t, what).waiting = DOMAIN s.waiting \cup {<<t, what>>}
<1>1. <<t, what>> \in Slots \X Awaits /\ s.waiting \in Waits
  BY DEF Records
<1>2. /\ s.waiting (+) SetToBag({<<t, what>>}) \in Waits
      /\ DOMAIN (s.waiting (+) SetToBag({<<t, what>>})) = DOMAIN s.waiting \cup {<<t, what>>}
  <2>. DEFINE E == Slots \X Awaits
  <2>1. Waits = Copies(E)
    BY DEF Waits
  <2>2. <<t, what>> \in E
    BY <1>1
  <2>. HIDE DEF E
  <2>3. ASSUME NEW B \in Copies(E), NEW w \in E
        PROVE  /\ B (+) SetToBag({w}) \in Copies(E)
               /\ DOMAIN (B (+) SetToBag({w})) = DOMAIN B \cup {w}
    BY CopiesMore
  <2>. QED BY <1>1, <2>1, <2>2, <2>3, Zenon
<1>. QED BY <1>2 DEF Await, Records

LEMMA CameRecord ==
  ASSUME NEW n \in Nat, NEW s \in Records(n), NEW t \in Slots, NEW what \in Awaits
  PROVE  /\ Came(s, t, what) \in Records(n)
         /\ Came(s, t, what) = [s EXCEPT !.waiting = Came(s, t, what).waiting]
         /\ DOMAIN Came(s, t, what).waiting \subseteq DOMAIN s.waiting
<1>1. <<t, what>> \in Slots \X Awaits /\ s.waiting \in Waits
  BY DEF Records
<1>2. /\ s.waiting (-) SetToBag({<<t, what>>}) \in Waits
      /\ DOMAIN (s.waiting (-) SetToBag({<<t, what>>})) \subseteq DOMAIN s.waiting
  <2>. DEFINE E == Slots \X Awaits
  <2>1. Waits = Copies(E)
    BY DEF Waits
  <2>2. <<t, what>> \in E
    BY <1>1
  <2>. HIDE DEF E
  <2>. QED BY <1>1, <2>1, <2>2, CopiesLess
<1>. QED BY <1>2 DEF Came, Records

\* activateTab takes the content away and marks the tab; it leaves the strip, the
\* chat and the current room alone, and of a tab it takes at most its content.
Activated(s, t, a) ==
  /\ a.tabs = s.tabs /\ a.active = t /\ a.mounted = None
  /\ a.sockets = s.sockets /\ a.chatSocket = s.chatSocket
  /\ a.currentRoom = s.currentRoom
  /\ \A u \in Slots : a.tab[u] = s.tab[u] \/ a.tab[u] = Destroyed(s.tab[u])
  /\ \/ a.ready = Append(s.ready, t) /\ DOMAIN a.waiting = DOMAIN s.waiting
     \/ /\ a.ready = s.ready
        /\ \E what \in {"template", "reload"} :
             DOMAIN a.waiting = DOMAIN s.waiting \cup {<<t, what>>}

LEMMA ActivateRecord ==
  ASSUME NEW n \in Nat, NEW s \in Records(n), NEW t \in Slots, NEW a, a = ActivateTab(s, t)
  PROVE  a \in Records(n) /\ Activated(s, t, a)
<1>. DEFINE left == IF s.active # None /\ NoCache(s.tab[s.active].type)
                    THEN [s EXCEPT !.tab[s.active] = Destroyed(@)] ELSE s
            shown == [left EXCEPT !.active = t, !.mounted = None]
<1>1. /\ left \in Records(n)
      /\ left.tabs = s.tabs /\ left.sockets = s.sockets /\ left.chatSocket = s.chatSocket
      /\ left.currentRoom = s.currentRoom /\ left.ready = s.ready /\ left.waiting = s.waiting
      /\ \A u \in Slots : left.tab[u] = s.tab[u] \/ left.tab[u] = Destroyed(s.tab[u])
  <2>1. CASE s.active # None
    <3>1. s.active \in Slots /\ s.tab \in [Slots -> TabRecords(n)]
      BY <2>1 DEF Records
    <3>2. Destroyed(s.tab[s.active]) \in TabRecords(n)
      BY <3>1, DestroyedTab
    <3>. QED BY <3>1, <3>2 DEF Records
  <2>2. CASE s.active = None
    BY <2>2
  <2>. QED BY <2>1, <2>2
<1>. HIDE DEF left
<1>2. /\ shown \in Records(n)
      /\ shown.tabs = s.tabs /\ shown.sockets = s.sockets /\ shown.chatSocket = s.chatSocket
      /\ shown.currentRoom = s.currentRoom /\ shown.ready = s.ready /\ shown.waiting = s.waiting
      /\ shown.active = t /\ shown.mounted = None /\ shown.tab = left.tab
  BY <1>1 DEF Records
<1>3. \/ a = Await(shown, t, "template") \/ a = Await(shown, t, "reload")
      \/ a = [shown EXCEPT !.ready = Append(@, t)]
  <2>1. /\ a = CASE ~shown.tab[t].node -> Await(shown, t, "template")
               [] shown.tab[t].node /\ shown.tab[t].dirty -> Await(shown, t, "reload")
               [] OTHER -> [shown EXCEPT !.ready = Append(@, t)]
    BY DEF ActivateTab, left
  <2>. HIDE DEF shown
  <2>. QED BY <2>1
<1>. HIDE DEF shown
<1>4. ASSUME NEW what \in {"template", "reload"}, a = Await(shown, t, what)
      PROVE  /\ a \in Records(n) /\ a = [shown EXCEPT !.waiting = a.waiting]
             /\ DOMAIN a.waiting = DOMAIN s.waiting \cup {<<t, what>>}
  <2>1. what \in Awaits
    BY DEF Awaits
  <2>. QED BY <1>2, <1>4, <2>1, AwaitRecord
<1>5. ASSUME NEW what \in {"template", "reload"}, a = Await(shown, t, what)
      PROVE  /\ a \in Records(n)
             /\ a.tabs = shown.tabs /\ a.active = shown.active /\ a.mounted = shown.mounted
             /\ a.sockets = shown.sockets /\ a.chatSocket = shown.chatSocket
             /\ a.currentRoom = shown.currentRoom /\ a.tab = shown.tab /\ a.ready = shown.ready
             /\ DOMAIN a.waiting = DOMAIN s.waiting \cup {<<t, what>>}
  BY <1>2, <1>4, <1>5 DEF Records
<1>6. CASE a = [shown EXCEPT !.ready = Append(@, t)]
  <2>1. Append(s.ready, t) \in Seq(Slots)
    BY DEF Records
  <2>2. /\ a \in Records(n)
        /\ a.tabs = shown.tabs /\ a.active = shown.active /\ a.mounted = shown.mounted
        /\ a.sockets = shown.sockets /\ a.chatSocket = shown.chatSocket
        /\ a.currentRoom = shown.currentRoom /\ a.tab = shown.tab
        /\ a.ready = Append(shown.ready, t) /\ a.waiting = shown.waiting
    BY <1>2, <1>6, <2>1 DEF Records
  <2>. QED BY <1>1, <1>2, <2>2 DEF Activated
<1>. QED BY <1>1, <1>2, <1>3, <1>5, <1>6 DEF Activated

\* A tab is what it was, as far as sockets and logs care.
Alike(x, y) ==
  y.type = x.type /\ y.log = x.log /\ (x.type = "room" => y.room = x.room)

\* A tab that has just been made.
Fresh(x) == x.log = <<>> /\ (x.type = "room" => x.room \in Rooms)

LEMMA Used ==
  ASSUME NEW n \in Nat, NEW s \in Records(n)
  PROVE  /\ ToSet(s.tabs) \subseteq InUse(s) /\ ToSet(s.ready) \subseteq InUse(s)
         /\ s.mounted \in InUse(s)
         /\ \A t \in Slots, what \in Awaits : <<t, what>> \in DOMAIN s.waiting => t \in InUse(s)
         /\ \A k \in DOMAIN s.sockets : s.sockets[k].tab \in InUse(s)
<1>1. ASSUME NEW t \in Slots, NEW what \in Awaits, <<t, what>> \in DOMAIN s.waiting
      PROVE  t \in InUse(s)
  <2>1. <<t, what>>[1] \in {w[1] : w \in BagToSet(s.waiting)}
    BY <1>1 DEF BagToSet
  <2>. QED BY <2>1 DEF InUse
<1>. QED BY <1>1 DEF InUse

\* Nothing that a socket, a log or an await depends on changes when instances in
\* use stay alike, new ones have no log, and the chat goes on or is hung up.
LEMMA KindKept ==
  ASSUME NEW p \in Seq(Rooms), NEW s \in Records(Len(p)), NEW b \in Records(Len(p)),
         DataAwaited(s), Logs(s, p),
         \/ b.chatSocket = None /\ DOMAIN b.sockets = {}
         \/ /\ Line(s) /\ Stream(s, p)
            /\ b.chatSocket = s.chatSocket /\ b.sockets = s.sockets
            /\ b.currentRoom = s.currentRoom /\ b.mounted \in {s.mounted, None},
         \A u \in Slots : Alike(s.tab[u], b.tab[u]) \/ (u \notin InUse(s) /\ Fresh(b.tab[u])),
         \A u \in Slots : <<u, "data">> \in DOMAIN b.waiting => <<u, "data">> \in DOMAIN s.waiting
  PROVE  Kind(b, p)
<1>. DEFINE n == Len(p)
<1>1. n \in Nat
  OBVIOUS
<1>2. \A u \in Slots \cap InUse(s) : Alike(s.tab[u], b.tab[u])
  OBVIOUS
<1>3. DataAwaited(b)
  <2>1. SUFFICES ASSUME NEW u \in Slots, <<u, "data">> \in DOMAIN b.waiting
                 PROVE  Fetching(b.tab[u].type)
    BY DEF DataAwaited
  <2>2. u \in InUse(s) /\ Fetching(s.tab[u].type)
    BY <1>1, <2>1, Used DEF Awaits, DataAwaited
  <2>. QED BY <1>2, <2>2 DEF Alike
<1>4. Logs(b, p)
  <2>1. SUFFICES ASSUME NEW u \in Slots
                 PROVE  /\ b.tab[u].type = "room" => b.tab[u].room \in Rooms
                        /\ b.tab[u].type # "room" => b.tab[u].log = <<>>
                        /\ Within(b.tab[u].log, b.tab[u].room, p) /\ Increasing(b.tab[u].log)
    BY DEF Logs
  <2>2. CASE Fresh(b.tab[u])
    BY <2>2 DEF Within, Increasing, Fresh
  <2>3. CASE Alike(s.tab[u], b.tab[u])
    <3>1. /\ s.tab[u].type = "room" => s.tab[u].room \in Rooms
          /\ s.tab[u].type # "room" => s.tab[u].log = <<>>
          /\ Within(s.tab[u].log, s.tab[u].room, p) /\ Increasing(s.tab[u].log)
      BY DEF Logs
    <3>2. CASE s.tab[u].type = "room"
      BY <2>3, <3>1, <3>2 DEF Alike
    <3>3. CASE s.tab[u].type # "room"
      BY <2>2, <2>3, <3>1, <3>3 DEF Alike, Fresh
    <3>. QED BY <3>2, <3>3
  <2>. QED BY <2>2, <2>3
<1>5. CASE b.chatSocket = None /\ DOMAIN b.sockets = {}
  BY <1>3, <1>4, <1>5 DEF Kind, Line, Stream
<1>6. CASE /\ Line(s) /\ Stream(s, p)
           /\ b.chatSocket = s.chatSocket /\ b.sockets = s.sockets
           /\ b.currentRoom = s.currentRoom /\ b.mounted \in {s.mounted, None}
  <2>1. DOMAIN b.sockets = {b.chatSocket} \ {None}
    BY <1>6 DEF Line
  <2>2. CASE s.chatSocket = None
    BY <1>3, <1>4, <1>6, <2>1, <2>2 DEF Kind, Line, Stream
  <2>3. CASE s.chatSocket # None
    <3>1. s.chatSocket = 1 /\ DOMAIN s.sockets = {1}
      BY <1>6, <2>3 DEF Records, Line
    <3>. DEFINE t == s.sockets[1].tab
    <3>2. s.sockets[1] \in SocketRecords(n) /\ t \in Slots
      <4>1. s.sockets \in [{1} -> SocketRecords(n)]
        BY <3>1 DEF Records
      <4>. QED BY <4>1 DEF SocketRecords
    <3>3. t \in InUse(s)
      BY <1>1, <3>1, Used
    <3>4. Alike(s.tab[t], b.tab[t])
      BY <1>2, <3>2, <3>3
    <3>5. /\ s.sockets[1].room = s.currentRoom
          /\ s.tab[t].type = "room" /\ s.tab[t].room = s.sockets[1].room
          /\ s.mounted # None =>
               s.tab[s.mounted].type = "room" /\ s.tab[s.mounted].room = s.sockets[1].room
          /\ InboxOf(s.sockets[1], s.tab[t].log, p)
      BY <1>6, <2>3 DEF Line, Stream
    <3>6. b.mounted # None =>
            b.tab[b.mounted].type = "room" /\ b.tab[b.mounted].room = b.sockets[1].room
      <4>1. SUFFICES ASSUME b.mounted # None PROVE
              b.tab[b.mounted].type = "room" /\ b.tab[b.mounted].room = b.sockets[1].room
        OBVIOUS
      <4>2. b.mounted = s.mounted /\ s.mounted \in Slots
        BY <1>6, <4>1 DEF Records
      <4>3. Alike(s.tab[s.mounted], b.tab[s.mounted])
        BY <1>1, <1>2, <4>2, Used
      <4>. QED BY <1>6, <3>5, <4>1, <4>2, <4>3 DEF Alike
    <3>7. Line(b)
      BY <1>6, <2>1, <3>4, <3>5, <3>6, SMTT(20) DEF Line, Alike
    <3>8. Stream(b, p)
      BY <1>6, <3>4, <3>5, SMTT(20) DEF Stream, Alike
    <3>. QED BY <1>3, <1>4, <3>7, <3>8 DEF Kind
  <2>. QED BY <2>2, <2>3
<1>. QED BY <1>5, <1>6

\* Closing or leaving some tabs, the others being what they were.
LEMMA DistinctKept ==
  ASSUME NEW s, NEW b, Distinct(s), ToSet(b.tabs) \subseteq ToSet(s.tabs),
         \A u \in ToSet(b.tabs) : b.tab[u].type = s.tab[u].type /\ b.tab[u].room = s.tab[u].room
  PROVE  Distinct(b)
BY DEF Distinct

\* activateTab, from a record that is good.
LEMMA ActivateGood ==
  ASSUME NEW p \in Seq(Rooms), NEW s, Good(s, p), NEW t \in ToSet(s.tabs),
         NEW a, a = ActivateTab(s, t)
  PROVE  Good(a, p) /\ LastReady(a) /\ Free(s) \subseteq Free(a)
<1>. DEFINE n == Len(p)
<1>1. n \in Nat /\ s \in Records(n) /\ Strip(s) /\ Distinct(s) /\ Kind(s, p)
  BY DEF Good
<1>2. t \in Slots /\ t \in InUse(s)
  <2>1. s.tabs \in Seq(Slots)
    BY <1>1 DEF Records
  <2>. QED BY <1>1, <2>1, Used DEF ToSet
<1>3. /\ a \in Records(n)
      /\ a.tabs = s.tabs /\ a.active = t /\ a.mounted = None
      /\ a.sockets = s.sockets /\ a.chatSocket = s.chatSocket
      /\ a.currentRoom = s.currentRoom
      /\ \A u \in Slots : a.tab[u] = s.tab[u] \/ a.tab[u] = Destroyed(s.tab[u])
      /\ \/ a.ready = Append(s.ready, t) /\ DOMAIN a.waiting = DOMAIN s.waiting
         \/ /\ a.ready = s.ready
            /\ \E what \in {"template", "reload"} :
                 DOMAIN a.waiting = DOMAIN s.waiting \cup {<<t, what>>}
  <2>1. a \in Records(n) /\ Activated(s, t, a)
    BY <1>1, <1>2, ActivateRecord
  <2>. QED BY <2>1 DEF Activated
<1>4. \A u \in Slots : s.tab[u] \in TabRecords(n)
  BY <1>1 DEF Records
<1>5. ASSUME NEW u \in Slots PROVE Alike(s.tab[u], a.tab[u]) /\ a.tab[u].room = s.tab[u].room
  BY <1>1, <1>3, <1>4, DestroyedTab DEF Alike
<1>6. Kind(a, p)
  BY <1>1, <1>3, <1>5, KindKept DEF Kind
<1>7. Strip(a)
  BY <1>1, <1>3 DEF Strip
<1>8. Distinct(a)
  <2>1. \A u \in ToSet(s.tabs) : u \in Slots
    BY <1>1 DEF Records, ToSet
  <2>. QED BY <1>1, <1>3, <1>5, <2>1, DistinctKept DEF Alike
<1>9. LastReady(a)
  <2>1. CASE a.ready = Append(s.ready, t)
    <3>1. s.ready \in Seq(Slots)
      BY <1>1 DEF Records
    <3>2. a.ready[Len(a.ready)] = t
      BY <1>2, <2>1, <3>1
    <3>. QED BY <1>3, <3>2 DEF LastReady
  <2>2. CASE a.ready # Append(s.ready, t)
    <3>1. DOMAIN a.waiting # {}
      BY <1>3, <2>2
    <3>. QED BY <3>1 DEF LastReady
  <2>. QED BY <2>1, <2>2
<1>10. InUse(a) \subseteq InUse(s) \cup {None}
  <2>1. ToSet(a.ready) \subseteq ToSet(s.ready) \cup {t}
    <3>1. s.ready \in Seq(Slots)
      BY <1>1 DEF Records
    <3>2. CASE a.ready = s.ready
      BY <3>2
    <3>3. CASE a.ready = Append(s.ready, t)
      <4>1. \A i \in DOMAIN a.ready : a.ready[i] = t \/ (i \in DOMAIN s.ready /\ a.ready[i] = s.ready[i])
        BY <1>2, <3>1, <3>3
      <4>. QED BY <4>1 DEF ToSet
    <3>. QED BY <1>3, <3>2, <3>3
  <2>2. {w[1] : w \in BagToSet(a.waiting)} \subseteq {w[1] : w \in BagToSet(s.waiting)} \cup {t}
    <3>1. DOMAIN a.waiting \subseteq DOMAIN s.waiting \cup {<<t, "template">>, <<t, "reload">>}
      BY <1>3
    <3>2. ASSUME NEW w \in DOMAIN a.waiting
          PROVE  w[1] \in {v[1] : v \in DOMAIN s.waiting} \cup {t}
      <4>1. CASE w \in DOMAIN s.waiting
        BY <4>1
      <4>2. CASE w \in {<<t, "template">>, <<t, "reload">>}
        BY <4>2
      <4>. QED BY <3>1, <4>1, <4>2
    <3>. QED BY <3>2 DEF BagToSet
  <2>3. ToSet(s.tabs) \subseteq InUse(s) /\ t \in InUse(s)
    BY <1>2 DEF InUse
  <2>. QED BY <1>3, <2>1, <2>2, <2>3 DEF InUse
<1>11. Free(s) \subseteq Free(a)
  BY <1>10, TabsAssumption DEF Free
<1>. QED BY <1>1, <1>3, <1>6, <1>7, <1>8, <1>9, <1>11 DEF Good

-----------------------------------------------------------------------------
(* openTab, closeTab and setTabMetadata.                                   *)

LEMMA TabsTyped ==
  ASSUME NEW p, NEW s, Good(s, p)
  PROVE  /\ s \in Records(Len(p)) /\ s.tabs \in Seq(Slots) /\ ToSet(s.tabs) \subseteq Slots
         /\ s.ready \in Seq(Slots) /\ s.active \in Slots \cup {None}
         /\ s.mounted \in Slots \cup {None}
         /\ \A t \in Slots : s.tab[t] \in TabRecords(Len(p))
BY DEF Good, Records, ToSet

\* Instances in use are still free once the strip is shorter.
LEMMA FreeKept ==
  ASSUME NEW s, NEW b, ToSet(b.tabs) \subseteq ToSet(s.tabs), b.ready = s.ready,
         b.waiting = s.waiting, b.mounted = s.mounted, b.sockets = s.sockets
  PROVE  Free(s) \subseteq Free(b)
BY DEF Free, InUse

\* A strip without some of its tabs: what Drop and closeTab leave, before they
\* activate another.
Fewer(s, b, S) ==
  /\ b.tabs = Kept(s.tabs, S)
  /\ b.active = None \/ (b.active = s.active /\ b.active \in S)
  /\ b.mounted = s.mounted /\ b.currentRoom = s.currentRoom
  /\ b.chatSocket = s.chatSocket /\ b.sockets = s.sockets
  /\ b.ready = s.ready /\ b.waiting = s.waiting
  /\ \A u \in Slots : Alike(s.tab[u], b.tab[u]) /\ b.tab[u].room = s.tab[u].room

LEMMA FewerGood ==
  ASSUME NEW p \in Seq(Rooms), NEW s, Good(s, p), NEW b \in Records(Len(p)),
         NEW S, Fewer(s, b, S)
  PROVE  Good(b, p) /\ ToSet(b.tabs) = ToSet(s.tabs) \cap S /\ Free(s) \subseteq Free(b)
<1>. USE DEF Fewer
<1>1. s \in Records(Len(p)) /\ s.tabs \in Seq(Slots) /\ ToSet(s.tabs) \subseteq Slots
  BY TabsTyped
<1>2. ToSet(b.tabs) = ToSet(s.tabs) \cap S
  BY <1>1, KeptFacts
<1>3. IsInjective(b.tabs)
  BY <1>1, KeptInjective DEF Good, Strip
<1>4. Strip(b)
  BY <1>2, <1>3 DEF Good, Strip
<1>5. Distinct(b)
  <2>1. Distinct(s)
    BY DEF Good
  <2>. QED BY <1>1, <1>2, <2>1, DistinctKept DEF Alike
<1>6. Kind(b, p)
  <2>1. DataAwaited(s) /\ Logs(s, p) /\ Line(s) /\ Stream(s, p)
    BY DEF Good, Kind
  <2>. QED BY <1>1, <2>1, KindKept
<1>7. Free(s) \subseteq Free(b)
  BY <1>2, FreeKept
<1>. QED BY <1>2, <1>4, <1>5, <1>6, <1>7 DEF Good

LEMMA DropGood ==
  ASSUME NEW p \in Seq(Rooms), NEW s, Good(s, p), NEW type, NEW b, b = Drop(s, type)
  PROVE  /\ Good(b, p) /\ Free(s) \subseteq Free(b)
         /\ ToSet(b.tabs) = {t \in ToSet(s.tabs) : s.tab[t].type # type}
         /\ b.tab = s.tab /\ b.ready = s.ready
<1>. DEFINE S == {t \in Slots : s.tab[t].type # type}
<1>1. /\ s \in Records(Len(p)) /\ s.tabs \in Seq(Slots) /\ ToSet(s.tabs) \subseteq Slots
      /\ s.active \in Slots \cup {None}
  BY TabsTyped
<1>2. Kept(s.tabs, S) \in Seq(Slots)
  BY <1>1, KeptFacts
<1>3. /\ b \in Records(Len(p)) /\ b.tabs = Kept(s.tabs, S)
      /\ b.active = (IF s.active # None /\ s.tab[s.active].type = type THEN None ELSE s.active)
      /\ b.mounted = s.mounted /\ b.currentRoom = s.currentRoom
      /\ b.chatSocket = s.chatSocket /\ b.sockets = s.sockets
      /\ b.ready = s.ready /\ b.waiting = s.waiting /\ b.tab = s.tab
  <2>. HIDE DEF S
  <2>1. b = [s EXCEPT !.tabs = Kept(@, S),
                      !.active = IF @ # None /\ s.tab[@].type = type THEN None ELSE @]
    BY DEF Drop, S
  <2>. QED BY <1>1, <1>2, <2>1 DEF Records
<1>4. b.active = None \/ (b.active = s.active /\ b.active \in S)
  BY <1>1, <1>3
<1>5. \A u \in Slots : Alike(s.tab[u], b.tab[u]) /\ b.tab[u].room = s.tab[u].room
  BY <1>3 DEF Alike
<1>6. Good(b, p) /\ ToSet(b.tabs) = ToSet(s.tabs) \cap S /\ Free(s) \subseteq Free(b)
  <2>. HIDE DEF S
  <2>1. b \in Records(Len(p)) /\ Fewer(s, b, S)
    BY <1>3, <1>4, <1>5 DEF Fewer
  <2>. QED BY <2>1, FewerGood
<1>. QED BY <1>1, <1>3, <1>6

LEMMA NewTabRecord ==
  ASSUME NEW n \in Nat, NEW type \in Types, NEW r \in Rooms \cup {NoRoom}
  PROVE  /\ NewTab(type, r) \in TabRecords(n)
         /\ NewTab(type, r).type = type /\ NewTab(type, r).room = r
         /\ NewTab(type, r).log = <<>>
<1>1. <<>> \in Seq(1 .. n)
  OBVIOUS
<1>. QED BY <1>1 DEF NewTab, TabRecords, Fetching

\* A new instance, in a strip that had it not.
More(s, b, m, type, r) ==
  /\ Strip(b) /\ ToSet(b.tabs) \subseteq ToSet(s.tabs) \cup {m}
  /\ b.mounted = s.mounted /\ b.currentRoom = s.currentRoom
  /\ b.chatSocket = s.chatSocket /\ b.sockets = s.sockets /\ b.waiting = s.waiting
  /\ b.tab = [s.tab EXCEPT ![m] = NewTab(type, r)]
  /\ \A t \in ToSet(b.tabs) \ {m} :
       /\ s.tab[t].type # "placeholder" /\ type # "placeholder"
       /\ KeyedByRoom(type) => <<s.tab[t].type, s.tab[t].room>> # <<type, r>>

LEMMA NewGood ==
  ASSUME NEW p \in Seq(Rooms), NEW s, Good(s, p), NEW b \in Records(Len(p)),
         NEW type \in Types, NEW r \in Rooms \cup {NoRoom}, type = "room" => r \in Rooms,
         NEW m \in Free(s), More(s, b, m, type, r)
  PROVE  Good(b, p)
<1>. USE DEF More
<1>1. /\ s \in Records(Len(p)) /\ ToSet(s.tabs) \subseteq Slots /\ Len(p) \in Nat
      /\ s.tab \in [Slots -> TabRecords(Len(p))]
  BY TabsTyped DEF Records
<1>2. m \in Slots /\ m \notin InUse(s) /\ m \notin ToSet(s.tabs)
  BY <1>1, Used DEF Free
<1>3. /\ b.tab[m].type = type /\ b.tab[m].room = r /\ b.tab[m].log = <<>>
      /\ \A u \in Slots \ {m} : b.tab[u] = s.tab[u]
  <2>1. b.tab[m] = NewTab(type, r) /\ \A u \in Slots \ {m} : b.tab[u] = s.tab[u]
    BY <1>1, <1>2
  <2>. QED BY <1>1, <2>1, NewTabRecord
<1>4. Kind(b, p)
  <2>1. DataAwaited(s) /\ Logs(s, p) /\ Line(s) /\ Stream(s, p)
    BY DEF Good, Kind
  <2>2. \A u \in Slots : Alike(s.tab[u], b.tab[u]) \/ (u \notin InUse(s) /\ Fresh(b.tab[u]))
    BY <1>2, <1>3 DEF Alike, Fresh
  <2>. QED BY <1>1, <2>1, <2>2, KindKept
<1>5. Distinct(b)
  <2>1. SUFFICES ASSUME NEW t \in ToSet(b.tabs), NEW u \in ToSet(b.tabs), t # u
                 PROVE  /\ b.tab[t].type # "placeholder"
                        /\ KeyedByRoom(b.tab[t].type) =>
                             <<b.tab[t].type, b.tab[t].room>> # <<b.tab[u].type, b.tab[u].room>>
    BY DEF Distinct
  <2>2. t \in Slots /\ u \in Slots
    BY <1>1, <1>2
  <2>3. CASE t = m
    <3>1. u # m /\ u \in ToSet(b.tabs) \ {m} /\ b.tab[u] = s.tab[u]
      BY <1>3, <2>1, <2>2, <2>3
    <3>. QED BY <1>3, <2>3, <3>1
  <2>4. CASE u = m
    <3>1. t # m /\ t \in ToSet(b.tabs) \ {m} /\ b.tab[t] = s.tab[t]
      BY <1>3, <2>1, <2>2, <2>4
    <3>. QED BY <1>3, <2>4, <3>1
  <2>5. CASE t # m /\ u # m
    <3>1. Distinct(s) /\ t \in ToSet(s.tabs) /\ u \in ToSet(s.tabs)
      BY <2>5 DEF Good
    <3>. QED BY <1>3, <2>1, <2>2, <2>5, <3>1 DEF Distinct
  <2>. QED BY <2>3, <2>4, <2>5
<1>. QED BY <1>4, <1>5 DEF Good

LEMMA SlotIsFree ==
  ASSUME NEW s, Free(s) # {}
  PROVE  NewSlot(s) \in Free(s)
BY DEF NewSlot

\* openTab takes the placeholder away, and then finds the tab or adds it.
LEMMA OpenGood ==
  ASSUME NEW p \in Seq(Rooms), NEW s, Good(s, p), NEW type \in Types,
         NEW r \in Rooms \cup {NoRoom}, type = "room" => r \in Rooms,
         type = "placeholder" => ToSet(s.tabs) = {}, Free(s) # {},
         NEW b, b = OpenTab(s, type, r)
  PROVE  Good(b, p) /\ LastReady(b)
<1>. DEFINE rest == IF type = "placeholder" THEN s ELSE Drop(s, "placeholder")
            existing == {t \in ToSet(rest.tabs) : Same(rest.tab[t], type, r)}
            m == NewSlot(rest)
            more == [rest EXCEPT !.tabs = Append(@, m), !.tab[m] = NewTab(type, r)]
<1>1. /\ Good(rest, p) /\ Free(s) \subseteq Free(rest)
      /\ \A t \in ToSet(rest.tabs) : rest.tab[t].type # "placeholder"
      /\ type = "placeholder" => ToSet(rest.tabs) = {}
  <2>1. CASE type = "placeholder"
    BY <2>1
  <2>2. CASE type # "placeholder"
    BY <2>2, DropGood
  <2>. QED BY <2>1, <2>2
<1>2. b = IF existing # {} THEN ActivateTab(rest, CHOOSE t \in existing : TRUE)
          ELSE ActivateTab(more, m)
  BY DEF OpenTab
<1>3. m \in Free(rest)
  BY <1>1, SlotIsFree
<1>. HIDE DEF rest, m
<1>4. CASE existing # {}
  <2>. DEFINE t == CHOOSE t \in existing : TRUE
  <2>1. t \in ToSet(rest.tabs)
    BY <1>4
  <2>. HIDE DEF t
  <2>2. b = ActivateTab(rest, t)
    BY <1>2, <1>4 DEF t
  <2>. QED BY <1>1, <2>1, <2>2, ActivateGood
<1>5. CASE existing = {}
  <2>1. /\ rest \in Records(Len(p)) /\ rest.tabs \in Seq(Slots) /\ ToSet(rest.tabs) \subseteq Slots
        /\ rest.tab \in [Slots -> TabRecords(Len(p))] /\ Strip(rest) /\ Len(p) \in Nat
    <3>1. Good(rest, p)
      BY <1>1
    <3>2. /\ rest \in Records(Len(p)) /\ rest.tabs \in Seq(Slots)
          /\ ToSet(rest.tabs) \subseteq Slots
      BY <3>1, TabsTyped
    <3>. QED BY <3>1, <3>2 DEF Records, Good
  <2>2. m \in Slots /\ m \notin ToSet(rest.tabs)
    BY <1>3, <2>1, Used DEF Free
  <2>3. NewTab(type, r) \in TabRecords(Len(p))
    BY <2>1, NewTabRecord
  <2>4. Append(rest.tabs, m) \in Seq(Slots)
    BY <2>1, <2>2
  <2>5. /\ more \in Records(Len(p)) /\ more.tabs = Append(rest.tabs, m)
        /\ more.active = rest.active
        /\ more.mounted = rest.mounted /\ more.currentRoom = rest.currentRoom
        /\ more.chatSocket = rest.chatSocket /\ more.sockets = rest.sockets
        /\ more.waiting = rest.waiting /\ more.tab = [rest.tab EXCEPT ![m] = NewTab(type, r)]
    BY <2>1, <2>2, <2>3, <2>4 DEF Records
  <2>. HIDE DEF more
  <2>6. /\ DOMAIN more.tabs = DOMAIN rest.tabs \cup {Len(rest.tabs) + 1}
        /\ more.tabs[Len(rest.tabs) + 1] = m /\ Len(rest.tabs) + 1 \notin DOMAIN rest.tabs
        /\ \A i \in DOMAIN rest.tabs : more.tabs[i] = rest.tabs[i]
    BY <2>1, <2>2, <2>5
  <2>7. ToSet(more.tabs) = ToSet(rest.tabs) \cup {m}
    BY <2>6 DEF ToSet
  <2>8. Strip(more)
    <3>1. \A i \in DOMAIN rest.tabs : rest.tabs[i] # m
      BY <2>2 DEF ToSet
    <3>2. IsInjective(rest.tabs) /\ rest.active \in ToSet(rest.tabs) \cup {None}
      BY <2>1 DEF Strip
    <3>3. IsInjective(more.tabs)
      BY <2>6, <3>1, <3>2 DEF IsInjective
    <3>. QED BY <2>5, <2>7, <3>2, <3>3 DEF Strip
  <2>9. ASSUME NEW t \in ToSet(more.tabs) \ {m}
        PROVE  /\ rest.tab[t].type # "placeholder" /\ type # "placeholder"
               /\ KeyedByRoom(type) => <<rest.tab[t].type, rest.tab[t].room>> # <<type, r>>
    <3>1. t \in ToSet(rest.tabs)
      BY <2>7
    <3>2. ~Same(rest.tab[t], type, r)
      BY <1>5, <3>1
    <3>. QED BY <1>1, <3>1, <3>2 DEF Same
  <2>10. Good(more, p)
    <3>1. Good(rest, p)
      BY <1>1
    <3>2. More(rest, more, m, type, r)
      BY <2>5, <2>7, <2>8, <2>9 DEF More
    <3>. QED BY <1>3, <2>5, <3>1, <3>2, NewGood
  <2>11. m \in ToSet(more.tabs) /\ b = ActivateTab(more, m)
    BY <1>2, <1>5, <2>7
  <2>. QED BY <2>10, <2>11, ActivateGood
<1>. QED BY <1>4, <1>5

\* A record that is good but for its socket, and one that hangs up.
Apart(s, p) ==
  /\ s \in Records(Len(p)) /\ Strip(s) /\ Distinct(s) /\ DataAwaited(s) /\ Logs(s, p)
  /\ DOMAIN s.sockets = {s.chatSocket} \ {None}

LEMMA HungGood ==
  ASSUME NEW p \in Seq(Rooms), NEW s, Apart(s, p), NEW h, h = CloseChat(s)
  PROVE  /\ Good(h, p) /\ h.chatSocket = None /\ DOMAIN h.sockets = {}
         /\ h.tabs = s.tabs /\ h.tab = s.tab /\ h.active = s.active /\ h.mounted = s.mounted
         /\ h.currentRoom = s.currentRoom /\ h.ready = s.ready /\ h.waiting = s.waiting
<1>1. s \in Records(Len(p)) /\ Strip(s) /\ Distinct(s) /\ DataAwaited(s) /\ Logs(s, p)
  BY DEF Apart
<1>. DEFINE none == Restrict(s.sockets, DOMAIN s.sockets \ {s.chatSocket})
<1>2. DOMAIN s.sockets \ {s.chatSocket} = {}
  BY DEF Apart
<1>3. none \in [{} -> SocketRecords(Len(p))] /\ DOMAIN none = {}
  BY <1>2 DEF Restrict
<1>4. h = [s EXCEPT !.sockets = none, !.chatSocket = None]
  BY DEF CloseChat
<1>. HIDE DEF none
<1>5. /\ h \in Records(Len(p)) /\ h.chatSocket = None /\ h.sockets = none
      /\ h.tabs = s.tabs /\ h.tab = s.tab /\ h.active = s.active /\ h.mounted = s.mounted
      /\ h.currentRoom = s.currentRoom /\ h.ready = s.ready /\ h.waiting = s.waiting
  BY <1>1, <1>3, <1>4 DEF Records
<1>6. Strip(h) /\ Distinct(h)
  BY <1>1, <1>5 DEF Strip, Distinct
<1>7. DOMAIN h.sockets = {} /\ \A u \in Slots : Alike(s.tab[u], h.tab[u])
  BY <1>3, <1>5 DEF Alike
<1>8. Kind(h, p)
  BY <1>1, <1>5, <1>7, KindKept
<1>. QED BY <1>5, <1>6, <1>7, <1>8 DEF Good

LEMMA GoodApart ==
  ASSUME NEW p, NEW s, Good(s, p)
  PROVE  Apart(s, p)
BY DEF Good, Kind, Line, Apart

\* closeTab.  An instance is needed for the placeholder, when the strip gets empty.
LEMMA CloseGood ==
  ASSUME NEW p \in Seq(Rooms), NEW s, Good(s, p), NEW t \in ToSet(s.tabs), Free(s) # {},
         NEW b, b = CloseTab(s, t)
  PROVE  /\ Good(b, p) /\ (LastReady(s) => LastReady(b))
         /\ ToSet(s.tabs) \ {t} \subseteq ToSet(b.tabs)
         /\ ToSet(s.tabs) # {t} => Free(b) # {}
<1>. DEFINE left == Kept(s.tabs, Slots \ {t})
            gone == [s EXCEPT !.tab[t] = Destroyed(@), !.tabs = left,
                              !.active = IF @ = t THEN None ELSE @]
            quit == [gone EXCEPT !.currentRoom = NoRoom]
            hung == CloseChat(quit)
<1>1. /\ s \in Records(Len(p)) /\ s.tabs \in Seq(Slots) /\ ToSet(s.tabs) \subseteq Slots
      /\ s.active \in Slots \cup {None} /\ Len(p) \in Nat
      /\ s.tab \in [Slots -> TabRecords(Len(p))]
  BY TabsTyped DEF Records
<1>2. left \in Seq(Slots) /\ Destroyed(s.tab[t]) \in TabRecords(Len(p))
  BY <1>1, KeptFacts, DestroyedTab
<1>3. b = CASE s.active # t -> gone
            [] s.active = t /\ gone.tabs # <<>> -> ActivateTab(gone, Last(gone.tabs))
            [] OTHER -> OpenTab(hung, "placeholder", NoRoom)
  BY DEF CloseTab
<1>. HIDE DEF left
<1>4. /\ gone \in Records(Len(p)) /\ gone.tabs = left
      /\ gone.active = (IF s.active = t THEN None ELSE s.active)
      /\ gone.mounted = s.mounted /\ gone.currentRoom = s.currentRoom
      /\ gone.chatSocket = s.chatSocket /\ gone.sockets = s.sockets
      /\ gone.ready = s.ready /\ gone.waiting = s.waiting
      /\ gone.tab = [s.tab EXCEPT ![t] = Destroyed(@)]
  BY <1>1, <1>2 DEF Records
<1>. HIDE DEF gone
<1>5. ASSUME NEW u \in Slots
      PROVE  Alike(s.tab[u], gone.tab[u]) /\ gone.tab[u].room = s.tab[u].room
  <2>1. gone.tab[u] = IF u = t THEN Destroyed(s.tab[u]) ELSE s.tab[u]
    BY <1>1, <1>4
  <2>2. s.tab[u] \in TabRecords(Len(p))
    BY <1>1
  <2>. QED BY <1>1, <2>1, <2>2, DestroyedTab DEF Alike
<1>6. Fewer(s, gone, Slots \ {t})
  BY <1>1, <1>4, <1>5 DEF Fewer, left
<1>7. /\ Good(gone, p) /\ ToSet(gone.tabs) = ToSet(s.tabs) \cap (Slots \ {t})
      /\ Free(s) \subseteq Free(gone)
  BY <1>4, <1>6, FewerGood
<1>8. ToSet(gone.tabs) = ToSet(s.tabs) \ {t}
  BY <1>1, <1>7
<1>9. CASE s.active # t
  <2>1. b = gone
    BY <1>3, <1>9
  <2>2. LastReady(s) => LastReady(b)
    BY <1>4, <1>9, <2>1 DEF LastReady
  <2>. QED BY <1>7, <1>8, <2>1, <2>2
<1>10. CASE s.active = t /\ gone.tabs # <<>>
  <2>. DEFINE last == Last(gone.tabs)
  <2>1. last \in ToSet(gone.tabs)
    <3>1. gone.tabs \in Seq(Slots)
      BY <1>7, TabsTyped
    <3>2. Len(gone.tabs) \in DOMAIN gone.tabs
      BY <1>10, <3>1
    <3>. QED BY <3>2 DEF Last, ToSet
  <2>2. b = ActivateTab(gone, last)
    BY <1>3, <1>10
  <2>. HIDE DEF last
  <2>3. Good(b, p) /\ LastReady(b) /\ Free(gone) \subseteq Free(b)
    BY <1>7, <2>1, <2>2, ActivateGood
  <2>4. b.tabs = gone.tabs
    <3>1. gone \in Records(Len(p)) /\ last \in Slots
      BY <1>4, <1>7, <2>1
    <3>2. Activated(gone, last, b)
      BY <1>1, <2>2, <3>1, ActivateRecord
    <3>. QED BY <3>2 DEF Activated
  <2>. QED BY <1>7, <1>8, <2>3, <2>4
<1>11. CASE s.active = t /\ gone.tabs = <<>>
  <2>1. b = OpenTab(hung, "placeholder", NoRoom)
    BY <1>3, <1>11
  <2>2. ToSet(gone.tabs) = {}
    BY <1>11 DEF ToSet
  <2>3. /\ quit \in Records(Len(p)) /\ quit.tabs = gone.tabs /\ quit.tab = gone.tab
        /\ quit.active = gone.active /\ quit.mounted = gone.mounted
        /\ quit.sockets = gone.sockets /\ quit.chatSocket = gone.chatSocket
        /\ quit.ready = gone.ready /\ quit.waiting = gone.waiting
    BY <1>4 DEF Records
  <2>. HIDE DEF quit
  <2>4. Apart(gone, p)
    BY <1>7, GoodApart
  <2>5. Apart(quit, p)
    BY <2>3, <2>4 DEF Apart, Strip, Distinct, DataAwaited, Logs
  <2>6. /\ Good(hung, p) /\ DOMAIN hung.sockets = {}
        /\ hung.tabs = gone.tabs /\ hung.mounted = gone.mounted
        /\ hung.ready = gone.ready /\ hung.waiting = gone.waiting
    BY <2>3, <2>5, HungGood
  <2>. HIDE DEF hung
  <2>7. Free(hung) # {} /\ ToSet(hung.tabs) = {}
    BY <1>7, <2>2, <2>6 DEF Free, InUse
  <2>8. Good(b, p) /\ LastReady(b)
    BY <2>1, <2>6, <2>7, OpenGood DEF Types
  <2>9. ToSet(s.tabs) = {t}
    BY <1>8, <2>2
  <2>. QED BY <2>8, <2>9
<1>. QED BY <1>9, <1>10, <1>11

\* The recursive function of CloseAll, and that it exists.
Closes(s, order, after, N) ==
  after = [n \in 0 .. N |-> IF n = 0 THEN s ELSE CloseTab(after[n - 1], order[n])]

LEMMA ClosesExists ==
  ASSUME NEW s, NEW order
  PROVE  \A N \in Nat : \E after : Closes(s, order, after, N)
<1>. DEFINE P == {N \in Nat : \E after : Closes(s, order, after, N)}
<1>1. 0 \in P
  <2>1. Closes(s, order, [n \in 0 .. 0 |-> s], 0)
    BY DEF Closes
  <2>. QED BY <2>1
<1>2. ASSUME NEW N \in P PROVE N + 1 \in P
  <2>1. PICK after : Closes(s, order, after, N)
    BY <1>2
  <2>. DEFINE more == [n \in 0 .. N + 1 |->
                         IF n = N + 1 THEN CloseTab(after[N], order[N + 1]) ELSE after[n]]
  <2>2. N \in Nat
    BY <1>2
  <2>3. ASSUME NEW n \in 0 .. N + 1
        PROVE  more[n] = IF n = 0 THEN s ELSE CloseTab(more[n - 1], order[n])
    <3>1. CASE n = N + 1
      <4>1. n # 0 /\ n - 1 = N /\ n - 1 \in 0 .. N + 1 /\ n - 1 # N + 1
        BY <2>2, <3>1
      <4>2. more[n - 1] = after[N] /\ more[n] = CloseTab(after[N], order[N + 1])
        BY <3>1, <4>1
      <4>. QED BY <3>1, <4>1, <4>2
    <3>2. CASE n # N + 1
      <4>1. n \in 0 .. N /\ more[n] = after[n]
        BY <2>2, <3>2
      <4>2. n # 0 => n - 1 \in 0 .. N + 1 /\ n - 1 # N + 1
        BY <2>2, <4>1
      <4>3. n # 0 => more[n - 1] = after[n - 1]
        BY <4>2
      <4>. HIDE DEF more
      <4>. QED BY <2>1, <4>1, <4>3 DEF Closes
    <3>. QED BY <3>1, <3>2
  <2>4. Closes(s, order, more, N + 1)
    BY <2>3 DEF Closes
  <2>. QED BY <2>2, <2>4
<1>3. \A N \in Nat : N \in P
  <2>1. P \in SUBSET Nat
    OBVIOUS
  <2>. HIDE DEF P
  <2>. QED BY <1>1, <1>2, <2>1, SetInduction
<1>. QED BY <1>3

\* closeTab of a snapshot of the strip: each of its tabs is still there when its
\* turn comes, and only the last of them can leave the strip empty.
LEMMA CloseAllGood ==
  ASSUME NEW p \in Seq(Rooms), NEW s, Good(s, p), LastReady(s), Free(s) # {},
         NEW doomed, NEW b, b = CloseAll(s, doomed)
  PROVE  Good(b, p) /\ LastReady(b)
<1>. DEFINE order == Kept(s.tabs, doomed)
            L == Len(order)
<1>1. /\ s.tabs \in Seq(Slots) /\ order \in Seq(Slots) /\ ToSet(order) \subseteq ToSet(s.tabs)
      /\ IsInjective(order)
  <2>1. s.tabs \in Seq(Slots)
    BY TabsTyped
  <2>2. IsInjective(s.tabs)
    BY DEF Good, Strip
  <2>. QED BY <2>1, <2>2, KeptFacts, KeptInjective
<1>. HIDE DEF order
<1>2. L \in Nat /\ DOMAIN order = 1 .. L /\ \A i \in 1 .. L : order[i] \in ToSet(s.tabs)
  <2>1. L \in Nat /\ DOMAIN order = 1 .. L
    BY <1>1
  <2>2. \A i \in DOMAIN order : order[i] \in ToSet(order)
    BY DEF ToSet
  <2>. QED BY <1>1, <2>1, <2>2
<1>3. PICK after : Closes(s, order, after, L) /\ b = after[L]
  <2>1. \E after : Closes(s, order, after, L)
    BY <1>2, ClosesExists
  <2>. QED BY <2>1 DEF CloseAll, Closes, order
<1>. HIDE DEF L
<1>. DEFINE Right(n) ==
              /\ Good(after[n], p) /\ LastReady(after[n])
              /\ n # L => Free(after[n]) # {}
              /\ \A i \in n + 1 .. L : order[i] \in ToSet(after[n].tabs)
            P == {n \in Nat : n <= L => Right(n)}
<1>4. 0 \in P
  <2>1. after[0] = s
    BY <1>2, <1>3 DEF Closes
  <2>. QED BY <1>2, <2>1
<1>5. ASSUME NEW n \in P PROVE n + 1 \in P
  <2>1. n \in Nat /\ n + 1 \in Nat
    BY <1>5
  <2>2. SUFFICES ASSUME n + 1 <= L PROVE Right(n + 1)
    <3>. HIDE DEF Right
    <3>. QED BY <2>1
  <2>. DEFINE t == order[n + 1]
  <2>3. Right(n)
    <3>. HIDE DEF Right
    <3>. QED BY <1>2, <1>5, <2>1, <2>2
  <2>4. n + 1 \in n + 1 .. L /\ n + 1 \in 1 .. L /\ n # L /\ n + 1 # 0 /\ (n + 1) - 1 = n
    BY <1>2, <2>1, <2>2
  <2>5. after[n + 1] = CloseTab(after[n], t)
    BY <1>2, <1>3, <2>4 DEF Closes
  <2>6. t \in ToSet(after[n].tabs) /\ Good(after[n], p) /\ LastReady(after[n])
        /\ Free(after[n]) # {}
    BY <2>3, <2>4
  <2>. HIDE DEF t
  <2>7. /\ Good(after[n + 1], p) /\ LastReady(after[n + 1])
        /\ ToSet(after[n].tabs) \ {t} \subseteq ToSet(after[n + 1].tabs)
        /\ ToSet(after[n].tabs) # {t} => Free(after[n + 1]) # {}
    BY <2>5, <2>6, CloseGood
  <2>8. ASSUME NEW i \in (n + 1) + 1 .. L
        PROVE  order[i] \in ToSet(after[n].tabs) \ {t}
    <3>1. i \in n + 1 .. L /\ i \in 1 .. L /\ i # n + 1
      BY <1>2, <2>1
    <3>2. order[i] # order[n + 1]
      BY <1>1, <1>2, <2>4, <3>1 DEF IsInjective
    <3>. QED BY <2>3, <3>1, <3>2 DEF t
  <2>9. ASSUME n + 1 # L PROVE Free(after[n + 1]) # {}
    <3>1. (n + 1) + 1 \in (n + 1) + 1 .. L
      BY <1>2, <2>1, <2>2, <2>9
    <3>2. ToSet(after[n].tabs) # {t}
      BY <2>8, <3>1
    <3>. QED BY <2>7, <3>2
  <2>. QED BY <2>7, <2>8, <2>9
<1>6. Right(L)
  <2>1. P \in SUBSET Nat
    OBVIOUS
  <2>2. L \in P
    <3>. HIDE DEF P
    <3>. QED BY <1>2, <1>4, <1>5, <2>1, SetInduction
  <2>. HIDE DEF Right
  <2>. QED BY <1>2, <2>2
<1>. QED BY <1>3, <1>6

\* setTabMetadata, with the types it is called with.
LEMMA MorphGood ==
  ASSUME NEW p \in Seq(Rooms), NEW s, Good(s, p), LastReady(s), Free(s) # {},
         NEW type \in {"new-tab", "room-creation", "apply-room"},
         NEW r \in Rooms \cup {NoRoom}, NEW b, b = Morph(s, type, r)
  PROVE  Good(b, p) /\ LastReady(b)
<1>. DEFINE a == s.active
            m == NewSlot(s)
            moved == [s EXCEPT !.tab[a].room = r]
            new == [s EXCEPT !.tabs = ReplaceAll(@, a, m), !.active = m,
                             !.tab[m] = NewTab(type, r)]
<1>1. /\ s \in Records(Len(p)) /\ s.tabs \in Seq(Slots) /\ ToSet(s.tabs) \subseteq Slots
      /\ a \in ToSet(s.tabs) \cup {None} /\ Len(p) \in Nat
      /\ s.tab \in [Slots -> TabRecords(Len(p))] /\ IsInjective(s.tabs)
  BY TabsTyped DEF Records, Good, Strip
<1>2. b = CASE a = None -> s
            [] a # None /\ s.tab[a].type = type -> ActivateTab(moved, a)
            [] OTHER -> ActivateTab(new, m)
  BY DEF Morph
<1>3. CASE a = None
  BY <1>2, <1>3
<1>4. CASE a # None /\ s.tab[a].type = type
  <2>. DEFINE tab == [s.tab EXCEPT ![a].room = r]
  <2>1. a \in Slots /\ s.tab[a] \in TabRecords(Len(p))
    BY <1>1, <1>4
  <2>2. /\ tab \in [Slots -> TabRecords(Len(p))]
        /\ \A u \in Slots : tab[u].type = s.tab[u].type /\ tab[u].log = s.tab[u].log
                            /\ (u # a => tab[u] = s.tab[u])
    BY <1>1, <2>1 DEF TabRecords
  <2>3. moved = [s EXCEPT !.tab = tab]
    BY <1>1 DEF Records
  <2>. HIDE DEF tab, moved
  <2>4. /\ moved \in Records(Len(p)) /\ moved.tabs = s.tabs /\ moved.active = s.active
        /\ moved.mounted = s.mounted /\ moved.currentRoom = s.currentRoom
        /\ moved.chatSocket = s.chatSocket /\ moved.sockets = s.sockets
        /\ moved.waiting = s.waiting /\ moved.tab = tab
    BY <1>1, <2>2, <2>3 DEF Records
  <2>5. \A u \in Slots : Alike(s.tab[u], moved.tab[u])
    BY <1>4, <2>2, <2>4 DEF Alike
  <2>6. Kind(moved, p)
    <3>1. DataAwaited(s) /\ Logs(s, p) /\ Line(s) /\ Stream(s, p)
      BY DEF Good, Kind
    <3>. QED BY <1>1, <2>4, <2>5, <3>1, KindKept
  <2>7. Distinct(moved)
    <3>1. SUFFICES ASSUME NEW t \in ToSet(s.tabs), NEW u \in ToSet(s.tabs), t # u
                   PROVE  /\ tab[t].type # "placeholder"
                          /\ KeyedByRoom(tab[t].type) =>
                               <<tab[t].type, tab[t].room>> # <<tab[u].type, tab[u].room>>
      BY <2>4 DEF Distinct
    <3>2. /\ s.tab[t].type # "placeholder"
          /\ KeyedByRoom(s.tab[t].type) =>
               <<s.tab[t].type, s.tab[t].room>> # <<s.tab[u].type, s.tab[u].room>>
      BY <3>1 DEF Good, Distinct
    <3>3. t \in Slots /\ u \in Slots
      BY <1>1
    <3>4. ~KeyedByRoom(type)
      BY DEF KeyedByRoom
    <3>5. CASE t = a
      BY <1>4, <2>2, <3>2, <3>3, <3>4, <3>5
    <3>6. CASE t # a /\ u = a
      <4>1. tab[t] = s.tab[t] /\ tab[u].type = type
        BY <1>4, <2>2, <3>3, <3>6
      <4>. QED BY <3>2, <3>4, <4>1
    <3>7. CASE t # a /\ u # a
      BY <2>2, <3>2, <3>3, <3>7
    <3>. QED BY <3>5, <3>6, <3>7
  <2>8. Good(moved, p) /\ a \in ToSet(moved.tabs) /\ b = ActivateTab(moved, a)
    BY <1>1, <1>2, <1>4, <2>4, <2>6, <2>7 DEF Good, Strip
  <2>. QED BY <2>8, ActivateGood
<1>5. CASE a # None /\ s.tab[a].type # type
  <2>1. m \in Free(s)
    BY SlotIsFree
  <2>. HIDE DEF m
  <2>2. m \in Slots /\ m \notin ToSet(s.tabs) /\ m # a /\ a \in ToSet(s.tabs)
    BY <1>1, <1>5, <2>1, Used DEF Free
  <2>3. NewTab(type, r) \in TabRecords(Len(p)) /\ type \in Types
    BY <1>1, NewTabRecord DEF Types
  <2>. DEFINE tabs == ReplaceAll(s.tabs, a, m)
  <2>4. /\ tabs \in Seq(Slots) /\ DOMAIN tabs = DOMAIN s.tabs
        /\ \A i \in DOMAIN s.tabs : tabs[i] = IF s.tabs[i] = a THEN m ELSE s.tabs[i]
    BY <1>1, <2>2 DEF ReplaceAll
  <2>. HIDE DEF tabs
  <2>5. /\ new \in Records(Len(p)) /\ new.tabs = tabs /\ new.active = m
        /\ new.mounted = s.mounted /\ new.currentRoom = s.currentRoom
        /\ new.chatSocket = s.chatSocket /\ new.sockets = s.sockets
        /\ new.waiting = s.waiting /\ new.tab = [s.tab EXCEPT ![m] = NewTab(type, r)]
    BY <1>1, <2>2, <2>3, <2>4 DEF Records, tabs
  <2>. HIDE DEF new
  <2>6. \A i \in DOMAIN s.tabs : s.tabs[i] # m
    BY <2>2 DEF ToSet
  <2>7. ToSet(new.tabs) = (ToSet(s.tabs) \ {a}) \cup {m}
    BY <2>2, <2>4, <2>5, <2>6 DEF ToSet
  <2>8. IsInjective(new.tabs)
    BY <1>1, <2>4, <2>5, <2>6 DEF IsInjective
  <2>9. ASSUME NEW t \in ToSet(new.tabs) \ {m}
        PROVE  s.tab[t].type # "placeholder"
    <3>1. t \in ToSet(s.tabs) /\ t # a
      BY <2>7
    <3>. QED BY <2>2, <3>1 DEF Good, Distinct
  <2>10. More(s, new, m, type, r)
    BY <2>5, <2>7, <2>8, <2>9 DEF More, Strip, KeyedByRoom
  <2>11. Good(new, p)
    BY <2>1, <2>3, <2>5, <2>10, NewGood
  <2>12. m \in ToSet(new.tabs) /\ b = ActivateTab(new, m)
    BY <1>2, <1>5, <2>7
  <2>. QED BY <2>11, <2>12, ActivateGood
<1>. QED BY <1>3, <1>4, <1>5

\* What nothing refers to is forgotten.
LEMMA CollectedRecord ==
  ASSUME NEW n \in Nat, NEW s \in Records(n), NEW b, b = Collected(s)
  PROVE  /\ b \in Records(n) /\ b.tabs = s.tabs /\ b.active = s.active
         /\ b.mounted = s.mounted /\ b.currentRoom = s.currentRoom
         /\ b.chatSocket = s.chatSocket /\ b.sockets = s.sockets
         /\ b.ready = s.ready /\ b.waiting = s.waiting
         /\ \A t \in Slots : t \in InUse(s) => b.tab[t] = s.tab[t]
         /\ \A t \in Slots : t \notin InUse(s) => Fresh(b.tab[t])
<1>. DEFINE used == InUse(s)
            tab == [t \in Slots |-> IF t \in used THEN s.tab[t] ELSE NewTab("placeholder", NoRoom)]
<1>1. s.tab \in [Slots -> TabRecords(n)]
  BY DEF Records
<1>2. /\ NewTab("placeholder", NoRoom) \in TabRecords(n)
      /\ Fresh(NewTab("placeholder", NoRoom))
  <2>1. "placeholder" \in Types /\ NoRoom \in Rooms \cup {NoRoom}
    BY DEF Types
  <2>. QED BY <2>1, NewTabRecord DEF Fresh
<1>. HIDE DEF used
<1>3. /\ tab \in [Slots -> TabRecords(n)]
      /\ \A t \in Slots : t \in used => tab[t] = s.tab[t]
      /\ \A t \in Slots : t \notin used => Fresh(tab[t])
  BY <1>1, <1>2
<1>4. b = [s EXCEPT !.tab = tab]
  BY DEF Collected, used
<1>. HIDE DEF tab
<1>5. /\ b \in Records(n) /\ b.tab = tab /\ b.tabs = s.tabs /\ b.active = s.active
      /\ b.mounted = s.mounted /\ b.currentRoom = s.currentRoom
      /\ b.chatSocket = s.chatSocket /\ b.sockets = s.sockets
      /\ b.ready = s.ready /\ b.waiting = s.waiting
  BY <1>3, <1>4 DEF Records
<1>. QED BY <1>3, <1>5 DEF used

LEMMA CollectedGood ==
  ASSUME NEW p \in Seq(Rooms), NEW s, Good(s, p), NEW b, b = Collected(s)
  PROVE  Good(b, p) /\ (LastReady(s) => LastReady(b))
<1>1. s \in Records(Len(p)) /\ ToSet(s.tabs) \subseteq Slots /\ Len(p) \in Nat
  BY TabsTyped
<1>2. /\ b \in Records(Len(p)) /\ b.tabs = s.tabs /\ b.active = s.active
      /\ b.mounted = s.mounted /\ b.currentRoom = s.currentRoom
      /\ b.chatSocket = s.chatSocket /\ b.sockets = s.sockets
      /\ b.ready = s.ready /\ b.waiting = s.waiting
      /\ \A t \in Slots : t \in InUse(s) => b.tab[t] = s.tab[t]
      /\ \A t \in Slots : t \notin InUse(s) => Fresh(b.tab[t])
  BY <1>1, CollectedRecord
<1>3. \A u \in Slots : Alike(s.tab[u], b.tab[u]) \/ (u \notin InUse(s) /\ Fresh(b.tab[u]))
  BY <1>2 DEF Alike
<1>4. Kind(b, p)
  <2>1. DataAwaited(s) /\ Logs(s, p) /\ Line(s) /\ Stream(s, p)
    BY DEF Good, Kind
  <2>. QED BY <1>1, <1>2, <1>3, <2>1, KindKept
<1>5. Distinct(b)
  <2>1. \A u \in ToSet(b.tabs) : b.tab[u] = s.tab[u]
    BY <1>1, <1>2, Used
  <2>. QED BY <1>2, <2>1, DistinctKept DEF Good
<1>6. Strip(b) /\ (LastReady(s) => LastReady(b))
  BY <1>2 DEF Good, Strip, LastReady
<1>. QED BY <1>2, <1>4, <1>5, <1>6 DEF Good

-----------------------------------------------------------------------------
(* The chat socket, and the end of an activation.                          *)

LEMMA HistoryFacts ==
  ASSUME posted \in Seq(Rooms), NEW r
  PROVE  /\ HistoryOf(r) \in Seq(1 .. Len(posted))
         /\ Within(HistoryOf(r), r, posted) /\ Increasing(HistoryOf(r))
         /\ ToSet(HistoryOf(r)) = {i \in 1 .. Len(posted) : posted[i] = r}
<1>. DEFINE n == Len(posted)
            all == [i \in DOMAIN posted |-> i]
            S == {i \in DOMAIN posted : posted[i] = r}
            R == {q \in Nat \X Nat : q[1] < q[2]}
            H == HistoryOf(r)
<1>1. /\ n \in Nat /\ DOMAIN posted = 1 .. n
      /\ all \in Seq(1 .. n) /\ Len(all) = n /\ \A i \in 1 .. n : all[i] = i
  OBVIOUS
<1>2. \A i, j \in 1 .. Len(all) : i < j => <<all[i], all[j]>> \in R
  BY <1>1
<1>3. H = Kept(all, S)
  BY DEF HistoryOf
<1>. HIDE DEF H, R, all
<1>4. /\ H \in Seq(1 .. n) /\ ToSet(H) = ToSet(all) \cap S
      /\ \A i, j \in 1 .. Len(H) : i < j => <<H[i], H[j]>> \in R
  BY <1>1, <1>2, <1>3, KeptFacts
<1>5. ToSet(H) = S
  <2>1. DOMAIN all = 1 .. n
    BY <1>1
  <2>. QED BY <1>1, <1>4, <2>1 DEF ToSet
<1>6. \A i \in 1 .. Len(H) : posted[H[i]] = r
  <2>1. \A i \in 1 .. Len(H) : H[i] \in ToSet(H)
    BY <1>4 DEF ToSet
  <2>. QED BY <1>5, <2>1
<1>7. Increasing(H)
  BY <1>4 DEF Increasing, R
<1>. QED BY <1>1, <1>4, <1>5, <1>6, <1>7 DEF Within, H

\* Room tabs of room r in the strip.
Own(s, r) == {t \in ToSet(s.tabs) : s.tab[t].type = "room" /\ s.tab[t].room = r}

\* f has the strip, the tabs and the awaits of s.
Settled(s, f) ==
  /\ f.tabs = s.tabs /\ f.tab = s.tab /\ f.active = s.active
  /\ f.ready = s.ready /\ f.waiting = s.waiting

\* A new socket starts with the history and misses nothing posted after it.
LEMMA CreateGood ==
  ASSUME posted \in Seq(Rooms), NEW s, Good(s, posted), s.chatSocket = None,
         NEW r \in Rooms, r = s.currentRoom,
         s.mounted # None => s.tab[s.mounted].type = "room" /\ s.tab[s.mounted].room = r,
         NEW b, b = CreateChatSocket(s, r)
  PROVE  /\ Good(b, posted) /\ Settled(s, b)
         /\ b.mounted = s.mounted /\ b.currentRoom = s.currentRoom
         /\ Own(s, r) # {} => b.chatSocket = 1 /\ b.sockets[1].tab \in Own(s, r)
<1>. DEFINE n == Len(posted)
            t == CHOOSE t \in Own(s, r) : TRUE
            socket == NewSocket(s, r, t)
            k == CHOOSE i \in 1 .. Cardinality(DOMAIN s.sockets) + 1 : i \notin DOMAIN s.sockets
<1>1. b = IF Own(s, r) = {} THEN s
          ELSE [s EXCEPT !.sockets = [i \in DOMAIN @ \cup {k} |-> IF i = k THEN socket ELSE @[i]],
                         !.chatSocket = k]
  BY DEF CreateChatSocket, Own
<1>2. CASE Own(s, r) = {}
  BY <1>1, <1>2 DEF Settled
<1>3. CASE Own(s, r) # {}
  <2>1. /\ s \in Records(n) /\ n \in Nat /\ ToSet(s.tabs) \subseteq Slots
        /\ s.tab \in [Slots -> TabRecords(n)]
    BY TabsTyped DEF Records
  <2>2. t \in Own(s, r)
    BY <1>3
  <2>. HIDE DEF t
  <2>3. t \in Slots /\ s.tab[t].type = "room" /\ s.tab[t].room = r /\ s.tab[t] \in TabRecords(n)
    BY <2>1, <2>2 DEF Own
  <2>4. DOMAIN s.sockets = {}
    BY DEF Good, Kind, Line
  <2>5. k = 1
    <3>1. 1 .. Cardinality({}) + 1 = {1}
      BY FS_EmptySet
    <3>. QED BY <2>4, <3>1
  <2>. HIDE DEF k
  <2>. DEFINE first == [type |-> "init", history |-> HistoryOf(r)]
  <2>6. first \in FrameRecords(n)
    BY HistoryFacts DEF FrameRecords
  <2>7. /\ socket = [room |-> r, tab |-> t, bound |-> s.tab[t].node, open |-> TRUE,
                     since |-> n, inbox |-> <<first>>]
    BY DEF NewSocket
  <2>8. <<first>> \in Seq(FrameRecords(n)) /\ Len(<<first>>) = 1 /\ <<first>>[1] = first
    <3>. HIDE DEF first
    <3>. QED BY <2>6
  <2>. HIDE DEF socket
  <2>9. socket \in SocketRecords(n)
    <3>. HIDE DEF first
    <3>. QED BY <2>1, <2>3, <2>7, <2>8 DEF SocketRecords, TabRecords
  <2>. DEFINE sockets == [i \in DOMAIN s.sockets \cup {1} |-> IF i = 1 THEN socket ELSE s.sockets[i]]
  <2>10. sockets \in [{1} -> SocketRecords(n)] /\ sockets[1] = socket /\ DOMAIN sockets = {1}
    BY <2>4, <2>9
  <2>. HIDE DEF sockets
  <2>11. b = [s EXCEPT !.sockets = sockets, !.chatSocket = 1]
    BY <1>1, <1>3, <2>5 DEF sockets
  <2>12. /\ b \in Records(n) /\ Settled(s, b) /\ b.chatSocket = 1 /\ b.sockets = sockets
         /\ b.mounted = s.mounted /\ b.currentRoom = s.currentRoom
    BY <2>1, <2>10, <2>11 DEF Records, Settled
  <2>13. Strip(b) /\ Distinct(b) /\ DataAwaited(b) /\ Logs(b, posted)
    BY <2>12 DEF Good, Kind, Settled, Strip, Distinct, DataAwaited, Logs
  <2>14. Line(b)
    <3>1. None # 1
      BY TabsAssumption
    <3>. QED BY <2>3, <2>7, <2>10, <2>12, <3>1 DEF Line, Settled
  <2>15. InboxOf(socket, s.tab[t].log, posted)
    <3>1. /\ socket.inbox = <<first>> /\ socket.since = n /\ socket.room = r
      BY <2>7
    <3>2. first.type = "init" /\ first.history = HistoryOf(r)
      OBVIOUS
    <3>. HIDE DEF first
    <3>3. /\ Within(HistoryOf(r), r, posted) /\ Increasing(HistoryOf(r))
          /\ \A j \in 1 .. Len(HistoryOf(r)) : HistoryOf(r)[j] <= n
      BY <2>1, HistoryFacts
    <3>4. \A j \in 1 .. Len(s.tab[t].log) : s.tab[t].log[j] <= n
      BY <2>1, <2>3 DEF TabRecords
    <3>5. \A i \in 1 .. Len(socket.inbox) : i = 1 /\ socket.inbox[i] = first
      BY <2>8, <3>1
    <3>6. \A m \in 1 .. n : ~(n < m)
      BY <2>1
    <3>. QED BY <3>1, <3>2, <3>3, <3>4, <3>5, <3>6 DEF InboxOf
  <2>16. Stream(b, posted)
    <3>1. b.sockets[1] = socket /\ socket.tab = t /\ b.tab = s.tab
      BY <2>7, <2>10, <2>12 DEF Settled
    <3>. QED BY <2>15, <3>1 DEF Stream
  <2>. QED BY <2>2, <2>7, <2>10, <2>12, <2>13, <2>14, <2>16 DEF Good, Kind
<1>. QED BY <1>2, <1>3

\* The end of an activation hangs up, and opens a socket for a room.
LEMMA FinishGood ==
  ASSUME posted \in Seq(Rooms), NEW s, Apart(s, posted), NEW t \in Slots,
         s.tab[t].type = "room" => s.tab[t].node, NEW f, f = Finish(s, t)
  PROVE  /\ Good(f, posted) /\ Settled(s, f)
         /\ f.mounted = (IF s.tab[t].node THEN t ELSE s.mounted)
         /\ f.currentRoom = CurrentRoom(s.tab[t])
         /\ s.tab[t].type = "room" /\ t \in ToSet(s.tabs) =>
              f.chatSocket = 1 /\ f.sockets[1].tab = t
<1>. DEFINE tab == s.tab[t]
            mounted == IF tab.node THEN t ELSE s.mounted
            now == [Attached(s, t) EXCEPT !.currentRoom = CurrentRoom(tab)]
            hung == CloseChat(now)
<1>1. s \in Records(Len(posted)) /\ tab \in TabRecords(Len(posted))
  BY DEF Apart, Records
<1>2. f = IF tab.type = "room" THEN CreateChatSocket(hung, tab.room) ELSE hung
  <2>1. now.tab = s.tab
    BY <1>1 DEF Attached, Records
  <2>. QED BY <2>1 DEF Finish, Connected
<1>3. mounted \in Slots \cup {None} /\ CurrentRoom(tab) \in Rooms \cup {NoRoom}
  BY <1>1 DEF Records, TabRecords, CurrentRoom
<1>4. /\ now \in Records(Len(posted)) /\ Settled(s, now) /\ now.mounted = mounted
      /\ now.currentRoom = CurrentRoom(tab)
      /\ now.sockets = s.sockets /\ now.chatSocket = s.chatSocket
  BY <1>1, <1>3 DEF Records, Attached, Settled
<1>5. Apart(now, posted)
  BY <1>4 DEF Apart, Settled, Strip, Distinct, DataAwaited, Logs
<1>. HIDE DEF now
<1>6. /\ Good(hung, posted) /\ hung.chatSocket = None /\ Settled(s, hung)
      /\ hung.mounted = mounted /\ hung.currentRoom = CurrentRoom(tab)
  BY <1>4, <1>5, HungGood DEF Settled
<1>. HIDE DEF hung
<1>7. CASE tab.type # "room"
  BY <1>2, <1>6, <1>7
<1>8. CASE tab.type = "room"
  <2>1. tab.room \in Rooms
    BY <1>8 DEF Apart, Logs
  <2>2. CurrentRoom(tab) = tab.room /\ mounted = t
    BY <1>8 DEF CurrentRoom
  <2>3. hung.tab = s.tab /\ hung.tabs = s.tabs
    BY <1>6 DEF Settled
  <2>4. hung.mounted # None =>
          hung.tab[hung.mounted].type = "room" /\ hung.tab[hung.mounted].room = tab.room
    BY <1>6, <1>8, <2>2, <2>3
  <2>5. f = CreateChatSocket(hung, tab.room)
    BY <1>2, <1>8
  <2>6. /\ Good(f, posted) /\ Settled(hung, f)
        /\ f.mounted = hung.mounted /\ f.currentRoom = hung.currentRoom
        /\ Own(hung, tab.room) # {} =>
             f.chatSocket = 1 /\ f.sockets[1].tab \in Own(hung, tab.room)
    <3>1. Good(hung, posted) /\ hung.chatSocket = None /\ tab.room = hung.currentRoom
      BY <1>6, <2>2
    <3>. HIDE DEF tab
    <3>. QED BY <2>1, <2>4, <2>5, <3>1, CreateGood
  <2>7. ASSUME t \in ToSet(s.tabs) PROVE Own(hung, tab.room) = {t}
    <3>1. t \in Own(hung, tab.room)
      BY <1>8, <2>3, <2>7 DEF Own
    <3>2. ASSUME NEW u \in Own(hung, tab.room), u # t PROVE FALSE
      <4>1. /\ u \in ToSet(s.tabs) /\ s.tab[u].type = "room" /\ s.tab[u].room = tab.room
        BY <2>3 DEF Own
      <4>2. KeyedByRoom("room")
        BY DEF KeyedByRoom
      <4>. QED BY <1>8, <2>7, <3>2, <4>1, <4>2 DEF Apart, Distinct
    <3>. QED BY <3>1, <3>2
  <2>8. Settled(s, f)
    BY <1>6, <2>6 DEF Settled
  <2>. QED BY <1>6, <2>6, <2>7, <2>8
<1>. QED BY <1>7, <1>8

\* An activation that goes on.
LEMMA ContinueGood ==
  ASSUME posted \in Seq(Rooms), NEW s, Good(s, posted), NEW t \in Slots,
         NEW c, c = Continue(s, t)
  PROVE  Good(c, posted) /\ (LastReady(s) => LastReady(c))
<1>1. s \in Records(Len(posted)) /\ Apart(s, posted) /\ Len(posted) \in Nat
      /\ s.tab[t] \in TabRecords(Len(posted))
  BY TabsTyped, GoodApart
<1>2. CASE s.tab[t].node /\ Fetching(s.tab[t].type)
  <2>1. c = Await(s, t, "data") /\ "data" \in Awaits
    BY <1>2 DEF Continue, Awaits
  <2>2. /\ c \in Records(Len(posted)) /\ c = [s EXCEPT !.waiting = c.waiting]
        /\ DOMAIN c.waiting = DOMAIN s.waiting \cup {<<t, "data">>}
    BY <1>1, <2>1, AwaitRecord
  <2>3. /\ c.tabs = s.tabs /\ c.tab = s.tab /\ c.active = s.active /\ c.mounted = s.mounted
        /\ c.currentRoom = s.currentRoom /\ c.chatSocket = s.chatSocket
        /\ c.sockets = s.sockets /\ c.ready = s.ready
    BY <1>1, <2>2 DEF Records
  <2>4. DataAwaited(c)
    <3>1. DataAwaited(s)
      BY DEF Good, Kind
    <3>. QED BY <1>2, <2>2, <2>3, <3>1 DEF DataAwaited
  <2>5. Good(c, posted)
    BY <2>2, <2>3, <2>4 DEF Good, Kind, Strip, Distinct, Line, Logs, Stream
  <2>6. LastReady(c)
    BY <2>2 DEF LastReady
  <2>. QED BY <2>5, <2>6
<1>3. CASE \/ s.tab[t].node /\ ~Fetching(s.tab[t].type)
           \/ ~s.tab[t].node /\ TakesNull(s.tab[t].type)
  <2>1. c = Finish(s, t)
    BY <1>3 DEF Continue
  <2>2. s.tab[t].type = "room" => s.tab[t].node
    BY <1>3 DEF TakesNull
  <2>3. Good(c, posted) /\ Settled(s, c)
    BY <1>1, <2>1, <2>2, FinishGood
  <2>. QED BY <2>3 DEF Settled, LastReady
<1>4. CASE ~s.tab[t].node /\ ~TakesNull(s.tab[t].type)
  <2>1. c = s
    BY <1>4 DEF Continue
  <2>. QED BY <2>1
<1>. QED BY <1>2, <1>3, <1>4

-----------------------------------------------------------------------------
(* Messages.                                                               *)

LEMMA SeqGrows ==
  ASSUME NEW S, NEW T, S \subseteq T
  PROVE  Seq(S) \subseteq Seq(T)
OBVIOUS

LEMMA RecordsGrow ==
  ASSUME NEW n \in Nat, NEW m \in Nat, n <= m
  PROVE  Records(n) \subseteq Records(m) /\ SocketRecords(n) \subseteq SocketRecords(m)
<1>1. 1 .. n \subseteq 1 .. m /\ 0 .. n \subseteq 0 .. m
  OBVIOUS
<1>2. Seq(1 .. n) \subseteq Seq(1 .. m)
  BY <1>1, SeqGrows
<1>3. TabRecords(n) \subseteq TabRecords(m)
  BY <1>2 DEF TabRecords
<1>4. FrameRecords(n) \subseteq FrameRecords(m)
  BY <1>1, <1>2 DEF FrameRecords
<1>5. Seq(FrameRecords(n)) \subseteq Seq(FrameRecords(m))
  BY <1>4, SeqGrows
<1>6. SocketRecords(n) \subseteq SocketRecords(m)
  BY <1>1, <1>5 DEF SocketRecords
<1>7. /\ [Slots -> TabRecords(n)] \subseteq [Slots -> TabRecords(m)]
      /\ [{} -> SocketRecords(n)] \subseteq [{} -> SocketRecords(m)]
      /\ [{1} -> SocketRecords(n)] \subseteq [{1} -> SocketRecords(m)]
  BY <1>3, <1>6
<1>. QED BY <1>6, <1>7 DEF Records

\* b is s with other logs, and other frames on its socket.
Rewired(s, b) ==
  /\ b.tabs = s.tabs /\ b.active = s.active /\ b.mounted = s.mounted
  /\ b.currentRoom = s.currentRoom /\ b.chatSocket = s.chatSocket
  /\ b.ready = s.ready /\ b.waiting = s.waiting
  /\ DOMAIN b.sockets = DOMAIN s.sockets
  /\ s.chatSocket # None =>
       b.sockets[1].room = s.sockets[1].room /\ b.sockets[1].tab = s.sockets[1].tab
  /\ \A u \in Slots : b.tab[u].type = s.tab[u].type /\ b.tab[u].room = s.tab[u].room

LEMMA RewiredGood ==
  ASSUME NEW p \in Seq(Rooms), NEW s, Good(s, p), NEW q \in Seq(Rooms),
         NEW b \in Records(Len(q)), Rewired(s, b), Logs(b, q), Stream(b, q)
  PROVE  Good(b, q) /\ (LastReady(s) => LastReady(b))
<1>1. s \in Records(Len(p)) /\ ToSet(s.tabs) \subseteq Slots /\ s.mounted \in Slots \cup {None}
  BY TabsTyped
<1>2. Strip(b) /\ (LastReady(s) => LastReady(b))
  BY DEF Rewired, Good, Strip, LastReady
<1>3. Distinct(b)
  BY <1>1, DistinctKept DEF Rewired, Good
<1>4. DataAwaited(b)
  BY DEF Rewired, Good, Kind, DataAwaited
<1>5. Line(b)
  <2>1. Line(s)
    BY DEF Good, Kind
  <2>2. CASE s.chatSocket = None
    BY <2>1, <2>2 DEF Rewired, Line
  <2>3. CASE s.chatSocket # None
    <3>1. s.chatSocket = 1 /\ DOMAIN s.sockets = {1}
      BY <1>1, <2>1, <2>3 DEF Records, Line
    <3>2. s.sockets[1].tab \in Slots
      <4>1. s.sockets \in [{1} -> SocketRecords(Len(p))]
        BY <1>1, <3>1 DEF Records
      <4>. QED BY <4>1 DEF SocketRecords
    <3>3. /\ b.tab[b.sockets[1].tab].type = "room"
          /\ b.tab[b.sockets[1].tab].room = b.sockets[1].room
          /\ b.sockets[1].room = b.currentRoom
      BY <2>1, <2>3, <3>2 DEF Rewired, Line
    <3>4. b.mounted # None =>
            b.tab[b.mounted].type = "room" /\ b.tab[b.mounted].room = b.sockets[1].room
      BY <1>1, <2>1, <2>3 DEF Rewired, Line
    <3>5. DOMAIN b.sockets = {b.chatSocket} \ {None}
      BY <2>1 DEF Rewired, Line
    <3>. QED BY <3>3, <3>4, <3>5 DEF Line
  <2>. QED BY <2>2, <2>3
<1>. QED BY <1>2, <1>3, <1>4, <1>5 DEF Good, Kind

\* The socket of a record that has one.
LEMMA TheSocket ==
  ASSUME NEW p, NEW s, Good(s, p), NEW k \in DOMAIN s.sockets
  PROVE  /\ k = 1 /\ s.chatSocket = 1 /\ DOMAIN s.sockets = {1} /\ s.chatSocket # None
         /\ s.sockets \in [{1} -> SocketRecords(Len(p))]
         /\ s.sockets[1] \in SocketRecords(Len(p)) /\ s.sockets[1].tab \in Slots
         /\ s.sockets[1].room \in Rooms
         /\ InboxOf(s.sockets[1], s.tab[s.sockets[1].tab].log, p)
         /\ s.tab[s.sockets[1].tab].type = "room"
         /\ s.tab[s.sockets[1].tab].room = s.sockets[1].room
<1>1. s \in Records(Len(p)) /\ Line(s) /\ Stream(s, p)
  BY DEF Good, Kind
<1>2. s.chatSocket \in {None, 1} /\ DOMAIN s.sockets = {s.chatSocket} \ {None}
  BY <1>1 DEF Records, Line
<1>3. k = 1 /\ s.chatSocket = 1 /\ DOMAIN s.sockets = {1} /\ s.chatSocket # None
  BY <1>2
<1>4. s.sockets \in [{1} -> SocketRecords(Len(p))]
  BY <1>1, <1>3 DEF Records
<1>5. /\ s.sockets[1] \in SocketRecords(Len(p)) /\ s.sockets[1].tab \in Slots
      /\ s.sockets[1].room \in Rooms
  BY <1>4 DEF SocketRecords
<1>. QED BY <1>1, <1>3, <1>4, <1>5 DEF Line, Stream

\* A lost connection delivers nothing more.
Lost(s, k) == [s EXCEPT !.sockets[k].open = FALSE, !.sockets[k].inbox = <<>>]

LEMMA LostGood ==
  ASSUME NEW p \in Seq(Rooms), NEW s, Good(s, p), NEW k \in DOMAIN s.sockets,
         NEW b, b = Lost(s, k)
  PROVE  Good(b, p) /\ (LastReady(s) => LastReady(b))
<1>. DEFINE old == s.sockets[1]
            new == [old EXCEPT !.open = FALSE, !.inbox = <<>>]
            sockets == [s.sockets EXCEPT ![1] = new]
<1>1. s \in Records(Len(p))
  BY TabsTyped
<1>2. /\ k = 1 /\ DOMAIN s.sockets = {1} /\ s.sockets \in [{1} -> SocketRecords(Len(p))]
      /\ old \in SocketRecords(Len(p))
  BY TheSocket
<1>3. /\ new \in SocketRecords(Len(p)) /\ new.room = old.room /\ new.tab = old.tab
      /\ new.open = FALSE /\ new.inbox = <<>>
  <2>1. <<>> \in Seq(FrameRecords(Len(p)))
    OBVIOUS
  <2>. QED BY <1>2, <2>1 DEF SocketRecords
<1>4. b = [s EXCEPT !.sockets = sockets]
  BY <1>1, <1>2 DEF Records, SocketRecords, Lost
<1>. HIDE DEF new
<1>5. /\ sockets \in [{1} -> SocketRecords(Len(p))] /\ sockets[1] = new
      /\ DOMAIN sockets = DOMAIN s.sockets
  BY <1>2, <1>3
<1>. HIDE DEF sockets
<1>6. /\ b \in Records(Len(p)) /\ Rewired(s, b) /\ b.sockets[1] = new /\ b.tab = s.tab
      /\ b.chatSocket = s.chatSocket
  BY <1>1, <1>3, <1>4, <1>5 DEF Records, Rewired
<1>7. Logs(b, p)
  BY <1>6 DEF Good, Kind, Logs
<1>8. Stream(b, p)
  <2>1. 1 .. Len(new.inbox) = {} /\ ~new.open
    BY <1>3
  <2>2. \A log : InboxOf(new, log, p)
    BY <2>1 DEF InboxOf
  <2>. QED BY <1>6, <2>2 DEF Stream
<1>. QED BY <1>6, <1>7, <1>8, RewiredGood

\* A message in a room goes to its socket, after everything it has had.
Sent(socket, r, frame) ==
  IF socket.room = r /\ socket.open
  THEN [socket EXCEPT !.inbox = Append(@, frame)] ELSE socket

Posted(s, p, r) ==
  LET frame == [type |-> "chat_message", message |-> Len(p) + 1] IN
  [s EXCEPT !.sockets = [k \in DOMAIN @ |-> Sent(@[k], r, frame)]]

LEMMA PostGood ==
  ASSUME NEW p \in Seq(Rooms), NEW s, Good(s, p), NEW r \in Rooms, NEW q, q = Append(p, r),
         NEW b, b = Posted(s, p, r)
  PROVE  Good(b, q) /\ (LastReady(s) => LastReady(b)) /\ q \in Seq(Rooms)
<1>. DEFINE n == Len(p)
            frame == [type |-> "chat_message", message |-> n + 1]
            sockets == [k \in DOMAIN s.sockets |-> Sent(s.sockets[k], r, frame)]
<1>1. s \in Records(n) /\ n \in Nat /\ s.tab \in [Slots -> TabRecords(n)]
  BY TabsTyped DEF Records
<1>2. /\ q \in Seq(Rooms) /\ Len(q) = n + 1 /\ q[n + 1] = r
      /\ \A i \in 1 .. n : q[i] = p[i]
  OBVIOUS
<1>3. s \in Records(n + 1) /\ SocketRecords(n) \subseteq SocketRecords(n + 1)
  BY <1>1, RecordsGrow
<1>4. frame \in FrameRecords(n + 1) /\ frame.type = "chat_message" /\ frame.message = n + 1
  BY <1>1 DEF FrameRecords
<1>5. b = [s EXCEPT !.sockets = sockets]
  BY DEF Posted
<1>. HIDE DEF sockets, frame
<1>6. ASSUME NEW seq \in Seq(1 .. n), NEW room, Within(seq, room, p)
      PROVE  Within(seq, room, q)
  <2>1. \A i \in 1 .. Len(seq) : seq[i] \in 1 .. n
    OBVIOUS
  <2>. QED BY <1>2, <1>6, <2>1 DEF Within
<1>7. ASSUME b \in Records(n + 1), b.tab = s.tab
      PROVE  Logs(b, q)
  <2>1. SUFFICES ASSUME NEW u \in Slots
                 PROVE  /\ s.tab[u].type = "room" => s.tab[u].room \in Rooms
                        /\ s.tab[u].type # "room" => s.tab[u].log = <<>>
                        /\ Within(s.tab[u].log, s.tab[u].room, q) /\ Increasing(s.tab[u].log)
    BY <1>7 DEF Logs
  <2>2. /\ s.tab[u].type = "room" => s.tab[u].room \in Rooms
        /\ s.tab[u].type # "room" => s.tab[u].log = <<>>
        /\ Within(s.tab[u].log, s.tab[u].room, p) /\ Increasing(s.tab[u].log)
    BY DEF Good, Kind, Logs
  <2>3. s.tab[u].log \in Seq(1 .. n)
    BY <1>1 DEF TabRecords
  <2>. QED BY <1>6, <2>2, <2>3
<1>8. CASE s.chatSocket = None
  <2>1. DOMAIN s.sockets = {}
    BY <1>8 DEF Good, Kind, Line
  <2>2. sockets \in [{} -> SocketRecords(n + 1)] /\ DOMAIN sockets = {}
    BY <2>1 DEF sockets
  <2>3. b \in Records(n + 1) /\ Rewired(s, b) /\ b.tab = s.tab /\ b.chatSocket = None
    BY <1>3, <1>5, <1>8, <2>1, <2>2 DEF Records, Rewired
  <2>4. Stream(b, q)
    BY <2>3 DEF Stream
  <2>. QED BY <1>2, <1>7, <2>3, <2>4, RewiredGood
<1>9. CASE s.chatSocket # None
  <2>. DEFINE old == s.sockets[1]
              log == s.tab[old.tab].log
              new == Sent(old, r, frame)
  <2>1. 1 \in DOMAIN s.sockets
    BY <1>1, <1>9 DEF Records, Good, Kind, Line
  <2>2. /\ DOMAIN s.sockets = {1} /\ old \in SocketRecords(n) /\ old.tab \in Slots
        /\ InboxOf(old, log, p)
    BY <2>1, TheSocket
  <2>3. old \in SocketRecords(n + 1) /\ old.inbox \in Seq(FrameRecords(n)) /\ old.since \in 0 .. n
        /\ log \in Seq(1 .. n)
    BY <1>1, <1>3, <2>2 DEF SocketRecords, TabRecords
  <2>4. old.inbox \in Seq(FrameRecords(n + 1))
    BY <2>3 DEF SocketRecords
  <2>5. /\ new \in SocketRecords(n + 1) /\ new.room = old.room /\ new.tab = old.tab
        /\ new.open = old.open /\ new.bound = old.bound /\ new.since = old.since
        /\ new.inbox = IF old.room = r /\ old.open THEN Append(old.inbox, frame) ELSE old.inbox
    <3>1. Append(old.inbox, frame) \in Seq(FrameRecords(n + 1))
      BY <1>4, <2>4
    <3>. QED BY <2>3, <3>1 DEF SocketRecords, Sent
  <2>6. sockets \in [{1} -> SocketRecords(n + 1)] /\ sockets[1] = new /\ DOMAIN sockets = {1}
    <3>1. sockets = [k \in {1} |-> new]
      BY <2>2 DEF sockets, new
    <3>. HIDE DEF new
    <3>. QED BY <2>5, <3>1
  <2>. HIDE DEF new, log
  <2>7. /\ b \in Records(n + 1) /\ Rewired(s, b) /\ b.tab = s.tab /\ b.sockets[1] = new
        /\ b.chatSocket = s.chatSocket
    BY <1>3, <1>5, <2>2, <2>5, <2>6 DEF Records, Rewired
  <2>8. ASSUME NEW i \in 1 .. Len(old.inbox)
        PROVE  /\ old.inbox[i] \in FrameRecords(n)
               /\ old.inbox[i].type = "init" => old.inbox[i].history \in Seq(1 .. n)
               /\ old.inbox[i].type = "chat_message" => old.inbox[i].message \in 1 .. n
    <3>1. old.inbox[i] \in FrameRecords(n)
      BY <2>3
    <3>. QED BY <3>1 DEF FrameRecords
  <2>9. \A j \in 1 .. Len(log) : log[j] \in 1 .. n
    <3>1. log \in Seq(1 .. n)
      BY <2>3
    <3>. HIDE DEF log
    <3>. QED BY <3>1
  \* What was on its way stays as it was.
  <2>10. ASSUME NEW i \in 1 .. Len(old.inbox)
         PROVE  /\ old.inbox[i].type = "init" =>
                     /\ i = 1
                     /\ Within(old.inbox[i].history, old.room, q)
                     /\ Increasing(old.inbox[i].history)
                     /\ \A j \in 1 .. Len(old.inbox[i].history) :
                          old.inbox[i].history[j] <= old.since
                     /\ \A j \in 1 .. Len(log) : log[j] <= old.since
                /\ old.inbox[i].type = "chat_message" =>
                     /\ old.since < old.inbox[i].message
                     /\ q[old.inbox[i].message] = old.room
                     /\ \A j \in 1 .. Len(log) : log[j] < old.inbox[i].message
                     /\ \A j \in 1 .. Len(old.inbox) :
                          i < j => old.inbox[i].message < old.inbox[j].message
    BY <1>2, <1>6, <2>2, <2>8 DEF InboxOf
  <2>11. CASE ~(old.room = r /\ old.open)
    <3>1. new = old
      BY <2>11 DEF new, Sent
    <3>2. ASSUME old.open, old.bound, NEW m \in 1 .. n + 1, q[m] = old.room, old.since < m
          PROVE  \/ \E j \in 1 .. Len(log) : log[j] = m
                 \/ \E i \in 1 .. Len(old.inbox) :
                      old.inbox[i] = [type |-> "chat_message", message |-> m]
      <4>1. m \in 1 .. n /\ p[m] = old.room
        BY <1>1, <1>2, <2>11, <3>2
      <4>. QED BY <2>2, <3>2, <4>1 DEF InboxOf
    <3>3. InboxOf(old, log, q)
      BY <1>2, <2>10, <3>2 DEF InboxOf
    <3>4. Stream(b, q)
      BY <2>7, <3>1, <3>3 DEF Stream, log
    <3>. QED BY <1>2, <1>7, <2>7, <3>4, RewiredGood
  <2>12. CASE old.room = r /\ old.open
    <3>. DEFINE inbox == Append(old.inbox, frame)
                l == Len(old.inbox)
    <3>1. /\ l \in Nat /\ Len(inbox) = l + 1 /\ inbox[l + 1] = frame
          /\ \A i \in 1 .. l : inbox[i] = old.inbox[i]
          /\ new.inbox = inbox
      <4>1. old.inbox \in Seq(FrameRecords(n)) /\ new.inbox = inbox
        BY <2>3, <2>5, <2>12
      <4>. HIDE DEF old
      <4>. QED BY <4>1
    <3>. HIDE DEF inbox, l
    <3>2. ASSUME NEW i \in 1 .. l + 1
          PROVE  /\ inbox[i].type = "init" =>
                      /\ i = 1
                      /\ Within(inbox[i].history, old.room, q)
                      /\ Increasing(inbox[i].history)
                      /\ \A j \in 1 .. Len(inbox[i].history) : inbox[i].history[j] <= old.since
                      /\ \A j \in 1 .. Len(log) : log[j] <= old.since
                 /\ inbox[i].type = "chat_message" =>
                      /\ old.since < inbox[i].message
                      /\ q[inbox[i].message] = old.room
                      /\ \A j \in 1 .. Len(log) : log[j] < inbox[i].message
                      /\ \A j \in 1 .. l + 1 : i < j => inbox[i].message < inbox[j].message
      <4>1. CASE i \in 1 .. l
        <5>1. inbox[i] = old.inbox[i] /\ i \in 1 .. Len(old.inbox)
          BY <3>1, <4>1 DEF l
        <5>2. ASSUME inbox[i].type = "chat_message", NEW j \in 1 .. l + 1, i < j
              PROVE  inbox[i].message < inbox[j].message
          <6>1. CASE j \in 1 .. l
            <7>1. j \in 1 .. Len(old.inbox) /\ inbox[j] = old.inbox[j]
              BY <3>1, <6>1 DEF l
            <7>. QED BY <2>10, <5>1, <5>2, <7>1
          <6>2. CASE j = l + 1
            <7>1. inbox[i].message \in 1 .. n
              BY <2>8, <5>1, <5>2
            <7>. QED BY <1>1, <1>4, <3>1, <6>2, <7>1
          <6>. QED BY <3>1, <6>1, <6>2
        <5>. QED BY <2>10, <5>1, <5>2
      <4>2. CASE i = l + 1
        <5>1. inbox[i].type = "chat_message" /\ inbox[i].message = n + 1
          BY <1>4, <3>1, <4>2
        <5>2. \A j \in 1 .. l + 1 : ~(i < j)
          BY <3>1, <4>2
        <5>3. q[n + 1] = old.room
          BY <1>2, <2>12
        <5>. QED BY <1>1, <2>3, <2>9, <5>1, <5>2, <5>3
      <4>3. i \in 1 .. l \/ i = l + 1
        BY <3>1
      <4>. QED BY <4>1, <4>2, <4>3
    <3>3. ASSUME old.bound, NEW m \in 1 .. n + 1, q[m] = old.room, old.since < m
          PROVE  \/ \E j \in 1 .. Len(log) : log[j] = m
                 \/ \E i \in 1 .. l + 1 : inbox[i] = [type |-> "chat_message", message |-> m]
      <4>1. CASE m = n + 1
        <5>1. inbox[l + 1] = [type |-> "chat_message", message |-> m] /\ l + 1 \in 1 .. l + 1
          BY <3>1, <4>1 DEF frame
        <5>. QED BY <5>1
      <4>2. CASE m # n + 1
        <5>1. m \in 1 .. n /\ p[m] = old.room
          BY <1>1, <1>2, <3>3, <4>2
        <5>2. \/ \E j \in 1 .. Len(log) : log[j] = m
              \/ \E i \in 1 .. Len(old.inbox) :
                   old.inbox[i] = [type |-> "chat_message", message |-> m]
          BY <2>2, <2>12, <3>3, <5>1 DEF InboxOf
        <5>3. ASSUME NEW i \in 1 .. l PROVE i \in 1 .. l + 1 /\ inbox[i] = old.inbox[i]
          BY <3>1
        <5>. QED BY <5>2, <5>3 DEF l
      <4>. QED BY <4>1, <4>2
    <3>4. InboxOf(new, log, q)
      <4>1. /\ new.inbox = inbox /\ Len(new.inbox) = l + 1 /\ new.room = old.room
            /\ new.since = old.since /\ new.open = old.open /\ new.bound = old.bound
            /\ Len(q) = n + 1
        BY <1>2, <2>5, <3>1
      <4>. HIDE DEF log
      <4>. QED BY <3>2, <3>3, <4>1 DEF InboxOf
    <3>5. Stream(b, q)
      BY <2>5, <2>7, <3>4 DEF Stream, log
    <3>. QED BY <1>2, <1>7, <2>7, <3>5, RewiredGood
  <2>. QED BY <2>11, <2>12
<1>. QED BY <1>8, <1>9

\* onmessage takes the first frame into the log: what is left still goes on where
\* the log ends, and the frame's message is now in the log.
Shown(tab, frame) ==
  IF frame.type = "init" THEN ShowHistory(tab, frame.history)
  ELSE [tab EXCEPT !.log = Append(@, frame.message)]

Written(s, k) ==
  LET socket == s.sockets[k]
      tab == s.tab[socket.tab]
  IN IF socket.bound THEN Shown(tab, Head(socket.inbox)) ELSE tab

Taken(s, k) ==
  [s EXCEPT !.sockets[k].inbox = Tail(@), !.tab[s.sockets[k].tab] = Written(s, k)]

LEMMA DeliverGood ==
  ASSUME NEW p \in Seq(Rooms), NEW s, Good(s, p), NEW k \in DOMAIN s.sockets,
         s.sockets[k].inbox # <<>>, NEW b, b = Taken(s, k)
  PROVE  Good(b, p) /\ (LastReady(s) => LastReady(b))
<1>. DEFINE n == Len(p)
            old == s.sockets[1]
            t == old.tab
            was == s.tab[t]
            tab == Written(s, k)
            inbox == old.inbox
            frame == inbox[1]
            rest == Tail(inbox)
            new == [old EXCEPT !.inbox = rest]
            sockets == [s.sockets EXCEPT ![1] = new]
            tabs == [s.tab EXCEPT ![t] = tab]
<1>1. /\ s \in Records(n) /\ n \in Nat /\ s.tab \in [Slots -> TabRecords(n)]
      /\ s.sockets[k] = old /\ k = 1
  BY TabsTyped, TheSocket DEF Records
<1>2. /\ DOMAIN s.sockets = {1} /\ s.sockets \in [{1} -> SocketRecords(n)]
      /\ old \in SocketRecords(n) /\ t \in Slots /\ old.room \in Rooms /\ s.chatSocket # None
      /\ InboxOf(old, was.log, p) /\ was.type = "room" /\ was.room = old.room
  BY TheSocket
<1>3. /\ was \in TabRecords(n) /\ was.log \in Seq(1 .. n) /\ inbox \in Seq(FrameRecords(n))
      /\ inbox # <<>>
  BY <1>1, <1>2, SMTT(20) DEF TabRecords, SocketRecords
<1>4. Within(was.log, was.room, p) /\ Increasing(was.log)
  BY <1>2, SMTT(20) DEF Good, Kind, Logs
<1>. HIDE DEF old
<1>5. /\ Len(inbox) \in Nat /\ Len(inbox) # 0 /\ 1 \in 1 .. Len(inbox)
      /\ rest \in Seq(FrameRecords(n)) /\ Len(rest) = Len(inbox) - 1
      /\ \A i \in 1 .. Len(rest) : i + 1 \in 1 .. Len(inbox) /\ rest[i] = inbox[i + 1]
      /\ Head(inbox) = frame /\ \A i \in 1 .. Len(inbox) : inbox[i] \in FrameRecords(n)
  <2>. HIDE DEF inbox
  <2>. QED BY <1>3
<1>6. tab = (IF old.bound THEN Shown(was, frame) ELSE was)
  BY <1>1, <1>5 DEF Written, inbox, was
<1>7. b = [s EXCEPT !.sockets = sockets, !.tab = tabs]
  <2>1. b = [s EXCEPT !.sockets[1].inbox = rest, !.tab[t] = tab]
    BY <1>1, <1>2 DEF Taken, old
  <2>. QED BY <1>1, <1>2, <2>1 DEF Records, old
<1>8. /\ new \in SocketRecords(n) /\ new.room = old.room /\ new.tab = t /\ new.inbox = rest
      /\ new.since = old.since /\ new.open = old.open /\ new.bound = old.bound
  BY <1>2, <1>5 DEF SocketRecords
<1>. HIDE DEF new, rest, inbox, was, tab
<1>9. /\ sockets \in [{1} -> SocketRecords(n)] /\ sockets[1] = new /\ DOMAIN sockets = {1}
  BY <1>2, <1>8
<1>. HIDE DEF sockets
<1>10. SUFFICES ASSUME NEW log, log = tab.log
                PROVE  /\ tab \in TabRecords(n) /\ tab.type = was.type /\ tab.room = was.room
                       /\ Within(log, was.room, p) /\ Increasing(log)
                       /\ InboxOf(new, log, p)
  <2>1. /\ tab \in TabRecords(n) /\ tab.type = was.type /\ tab.room = was.room
        /\ Within(tab.log, was.room, p) /\ Increasing(tab.log)
        /\ InboxOf(new, tab.log, p)
    BY <1>10
  <2>2. /\ tabs \in [Slots -> TabRecords(n)] /\ tabs[t] = tab
        /\ \A u \in Slots : u # t => tabs[u] = s.tab[u]
    BY <1>1, <1>2, <2>1
  <2>3. \A u \in Slots : tabs[u].type = s.tab[u].type /\ tabs[u].room = s.tab[u].room
    BY <2>1, <2>2 DEF was
  <2>. HIDE DEF tabs
  <2>4. /\ b \in Records(n) /\ b.tabs = s.tabs /\ b.active = s.active /\ b.mounted = s.mounted
        /\ b.currentRoom = s.currentRoom /\ b.chatSocket = s.chatSocket
        /\ b.ready = s.ready /\ b.waiting = s.waiting /\ b.sockets = sockets /\ b.tab = tabs
    BY <1>1, <1>7, <1>9, <2>2 DEF Records
  <2>5. Rewired(s, b)
    BY <1>2, <1>8, <1>9, <2>3, <2>4 DEF Rewired, old
  <2>6. Logs(b, p)
    <3>1. SUFFICES ASSUME NEW u \in Slots
                   PROVE  /\ tabs[u].type = "room" => tabs[u].room \in Rooms
                          /\ tabs[u].type # "room" => tabs[u].log = <<>>
                          /\ Within(tabs[u].log, tabs[u].room, p) /\ Increasing(tabs[u].log)
      BY <2>4 DEF Logs
    <3>2. CASE u = t
      BY <1>2, <2>1, <2>2, <3>2
    <3>3. CASE u # t
      <4>1. tabs[u] = s.tab[u]
        BY <2>2, <3>3
      <4>. QED BY <4>1 DEF Good, Kind, Logs
    <3>. QED BY <3>2, <3>3
  <2>7. Stream(b, p)
    <3>1. b.sockets[1] = new /\ b.tab[new.tab] = tab
      BY <1>8, <1>9, <2>2, <2>4
    <3>. QED BY <2>1, <3>1 DEF Stream
  <2>. QED BY <2>4, <2>5, <2>6, <2>7, RewiredGood
\* What is left is all messages, after the first one and after the history.
<1>11. ASSUME NEW i \in 1 .. Len(rest)
       PROVE  /\ rest[i].type = "chat_message" /\ rest[i].message \in 1 .. n
              /\ old.since < rest[i].message /\ p[rest[i].message] = old.room
              /\ \A j \in 1 .. Len(was.log) : was.log[j] < rest[i].message
              /\ \A j \in 1 .. Len(rest) : i < j => rest[i].message < rest[j].message
              /\ frame.type = "chat_message" => frame.message < rest[i].message
  <2>1. /\ i \in Nat /\ i + 1 # 1 /\ i + 1 \in 1 .. Len(inbox) /\ rest[i] = inbox[i + 1]
        /\ 1 < i + 1
    BY <1>5
  <2>2. rest[i].type = "chat_message" /\ rest[i].message \in 1 .. n
    <3>1. inbox[i + 1].type # "init"
      BY <1>2, <2>1 DEF InboxOf, inbox
    <3>2. inbox[i + 1] \in FrameRecords(n)
      BY <1>5, <2>1
    <3>. QED BY <2>1, <3>1, <3>2 DEF FrameRecords
  <2>3. /\ old.since < rest[i].message /\ p[rest[i].message] = old.room
        /\ \A j \in 1 .. Len(was.log) : was.log[j] < rest[i].message
        /\ \A j \in 1 .. Len(inbox) : i + 1 < j => rest[i].message < inbox[j].message
    BY <1>2, <2>1, <2>2 DEF InboxOf, inbox
  <2>4. ASSUME NEW j \in 1 .. Len(rest), i < j PROVE rest[i].message < rest[j].message
    <3>1. j + 1 \in 1 .. Len(inbox) /\ rest[j] = inbox[j + 1] /\ i + 1 < j + 1
      BY <1>5, <2>1, <2>4
    <3>. QED BY <2>3, <3>1
  <2>5. frame.type = "chat_message" => frame.message < rest[i].message
    BY <1>2, <1>5, <2>1 DEF InboxOf, inbox
  <2>. QED BY <2>2, <2>3, <2>4, <2>5
<1>12. ASSUME NEW m \in 1 .. n, old.open, old.bound, p[m] = old.room, old.since < m
       PROVE  \/ \E j \in 1 .. Len(was.log) : was.log[j] = m
              \/ frame = [type |-> "chat_message", message |-> m]
              \/ \E i \in 1 .. Len(rest) : rest[i] = [type |-> "chat_message", message |-> m]
  <2>1. \/ \E j \in 1 .. Len(was.log) : was.log[j] = m
        \/ \E i \in 1 .. Len(inbox) : inbox[i] = [type |-> "chat_message", message |-> m]
    BY <1>2, <1>12 DEF InboxOf, inbox
  <2>2. ASSUME NEW i \in 1 .. Len(inbox), i # 1
        PROVE  i - 1 \in 1 .. Len(rest) /\ rest[i - 1] = inbox[i]
    <3>1. i - 1 \in 1 .. Len(rest) /\ (i - 1) + 1 = i
      BY <1>5, <2>2
    <3>. QED BY <1>5, <3>1
  <2>. QED BY <2>1, <2>2
\* So it is enough that the new log ends before what is left, and has what is not.
<1>13. ASSUME \A i \in 1 .. Len(rest), j \in 1 .. Len(log) : log[j] < rest[i].message,
              \A m \in 1 .. n : old.open /\ old.bound /\ p[m] = old.room /\ old.since < m =>
                \/ \E j \in 1 .. Len(log) : log[j] = m
                \/ \E i \in 1 .. Len(rest) : rest[i] = [type |-> "chat_message", message |-> m]
       PROVE  InboxOf(new, log, p)
  BY <1>8, <1>11, <1>13 DEF InboxOf
<1>14. frame \in FrameRecords(n)
  BY <1>5
<1>15. CASE ~old.bound
  <2>1. tab = was
    BY <1>6, <1>15
  <2>. QED BY <1>3, <1>4, <1>10, <1>11, <1>13, <1>15, <2>1
<1>16. CASE old.bound /\ frame.type = "init"
  <2>. DEFINE history == frame.history
  <2>1. /\ history \in Seq(1 .. n) /\ Within(history, old.room, p) /\ Increasing(history)
        /\ \A j \in 1 .. Len(history) : history[j] <= old.since
        /\ \A j \in 1 .. Len(was.log) : was.log[j] <= old.since
    <3>1. history \in Seq(1 .. n)
      BY <1>14, <1>16 DEF FrameRecords
    <3>. QED BY <1>2, <1>5, <1>16, <3>1 DEF InboxOf, inbox
  <2>2. tab = IF was.loaded THEN was ELSE [was EXCEPT !.log = history, !.loaded = TRUE]
    BY <1>6, <1>16 DEF Shown, ShowHistory
  <2>3. /\ tab \in TabRecords(n) /\ tab.type = was.type /\ tab.room = was.room
        /\ tab.log = was.log \/ tab.log = history
    <3>. HIDE DEF history
    <3>. QED BY <1>3, <2>1, <2>2 DEF TabRecords
  <2>4. old.since \in Nat /\ \A i \in 1 .. Len(rest) : rest[i].message \in Nat
    <3>1. old.since \in 0 .. n
      BY <1>2 DEF SocketRecords
    <3>. QED BY <1>1, <1>11, <3>1
  <2>5. /\ \A j \in 1 .. Len(log) : log[j] \in Nat /\ log[j] <= old.since
        /\ Within(log, was.room, p) /\ Increasing(log)
    <3>1. \A seq \in Seq(1 .. n) : \A j \in 1 .. Len(seq) : seq[j] \in Nat
      OBVIOUS
    <3>. HIDE DEF history
    <3>. QED BY <1>2, <1>3, <1>4, <1>10, <2>1, <2>3, <3>1
  <2>6. \A i \in 1 .. Len(rest), j \in 1 .. Len(log) : log[j] < rest[i].message
    BY <1>11, <2>4, <2>5
  <2>7. ASSUME NEW m \in 1 .. n, old.open, old.bound, p[m] = old.room, old.since < m
        PROVE  \E i \in 1 .. Len(rest) : rest[i] = [type |-> "chat_message", message |-> m]
    <3>1. ~ \E j \in 1 .. Len(was.log) : was.log[j] = m
      BY <2>1, <2>4, <2>7
    <3>2. frame # [type |-> "chat_message", message |-> m]
      BY <1>16
    <3>. QED BY <1>12, <2>7, <3>1, <3>2
  <2>8. InboxOf(new, log, p)
    BY <1>13, <2>6, <2>7
  <2>. QED BY <2>3, <2>5, <2>8
<1>17. CASE old.bound /\ frame.type # "init"
  <2>. DEFINE message == frame.message
  <2>1. /\ frame.type = "chat_message" /\ message \in 1 .. n
        /\ frame = [type |-> "chat_message", message |-> message]
    BY <1>14, <1>17 DEF FrameRecords
  <2>2. /\ p[message] = old.room /\ \A j \in 1 .. Len(was.log) : was.log[j] < message
    BY <1>2, <1>5, <2>1 DEF InboxOf, inbox
  <2>3. tab = [was EXCEPT !.log = Append(was.log, message)]
    BY <1>6, <1>17 DEF Shown
  <2>. HIDE DEF frame
  <2>4. Append(was.log, message) \in Seq(1 .. n)
    BY <1>3, <2>1
  <2>5. /\ tab \in TabRecords(n) /\ tab.type = was.type /\ tab.room = was.room
        /\ log = Append(was.log, message)
    <3>. HIDE DEF message
    <3>. QED BY <1>3, <1>10, <2>3, <2>4 DEF TabRecords
  <2>. DEFINE l == Len(was.log)
  <2>6. /\ l \in Nat /\ Len(log) = l + 1 /\ log[l + 1] = message
        /\ \A j \in 1 .. l : log[j] = was.log[j] /\ was.log[j] \in Nat
    <3>. HIDE DEF message
    <3>. QED BY <1>3, <2>1, <2>5
  <2>. HIDE DEF l, message
  <2>7. \A j \in 1 .. l + 1 : j \in 1 .. l \/ j = l + 1
    BY <2>6
  <2>8. \A j \in 1 .. l : was.log[j] < message /\ p[was.log[j]] = old.room
    BY <1>2, <1>4, <2>2 DEF l, Within
  <2>9. Within(log, was.room, p)
    BY <1>2, <2>2, <2>6, <2>7, <2>8 DEF Within
  <2>10. Increasing(log)
    <3>1. ASSUME NEW i \in 1 .. l + 1, NEW j \in 1 .. l + 1, i < j PROVE log[i] < log[j]
      <4>1. i \in 1 .. l
        BY <2>6, <3>1
      <4>2. CASE j \in 1 .. l
        BY <1>4, <2>6, <3>1, <4>1, <4>2 DEF Increasing, l
      <4>3. CASE j = l + 1
        BY <2>6, <2>8, <4>1, <4>3
      <4>. QED BY <2>7, <4>2, <4>3
    <3>. QED BY <2>6, <3>1 DEF Increasing
  <2>11. ASSUME NEW i \in 1 .. Len(rest), NEW j \in 1 .. Len(log)
         PROVE  log[j] < rest[i].message
    <3>1. message < rest[i].message
      BY <1>11, <2>1 DEF message
    <3>2. CASE j \in 1 .. l
      BY <1>11, <2>6, <3>2 DEF l
    <3>3. CASE j = l + 1
      BY <2>6, <3>1, <3>3
    <3>. QED BY <2>6, <2>7, <3>2, <3>3
  <2>12. ASSUME NEW m \in 1 .. n, old.open, old.bound, p[m] = old.room, old.since < m
         PROVE  \/ \E j \in 1 .. Len(log) : log[j] = m
                \/ \E i \in 1 .. Len(rest) :
                     rest[i] = [type |-> "chat_message", message |-> m]
    <3>1. CASE \E j \in 1 .. l : was.log[j] = m
      <4>1. PICK j \in 1 .. l : was.log[j] = m
        BY <3>1
      <4>2. j \in 1 .. Len(log) /\ log[j] = m
        BY <2>6, <4>1
      <4>. QED BY <4>2
    <3>2. CASE frame = [type |-> "chat_message", message |-> m]
      <4>1. m = message
        BY <3>2 DEF message
      <4>2. l + 1 \in 1 .. Len(log) /\ log[l + 1] = m
        BY <2>6, <4>1
      <4>. QED BY <4>2
    <3>. QED BY <1>12, <2>12, <3>1, <3>2 DEF l
  <2>13. InboxOf(new, log, p)
    BY <1>13, <2>11, <2>12
  <2>. QED BY <2>5, <2>9, <2>10, <2>13
<1>. QED BY <1>15, <1>16, <1>17

-----------------------------------------------------------------------------
(* The handlers.                                                           *)

\* A handler that leaves a good record behind.
LEMMA Handled ==
  ASSUME NEW s, posted \in Seq(Rooms), posted' = posted,
         Good(s, posted), LastReady(s), ui' = Collected(s)
  PROVE  UiInv'
<1>1. Good(ui', posted) /\ LastReady(ui')
  BY CollectedGood
<1>. QED BY <1>1 DEF UiInv

LEMMA ActiveInStrip ==
  ASSUME UiInv, ui.active # None
  PROVE  ui.active \in ToSet(ui.tabs) /\ ui.active \in Slots
BY TabsTyped DEF UiInv, Good, Strip

LEMMA ClickStep ==
  ASSUME UiInv, posted \in Seq(Rooms), Click
  PROVE  UiInv' /\ UNCHANGED <<calls, posted>>
<1>1. ASSUME NEW t \in ToSet(ui.tabs), ui' = Collected(ActivateTab(ui, t)), posted' = posted
      PROVE  UiInv'
  <2>1. Good(ActivateTab(ui, t), posted) /\ LastReady(ActivateTab(ui, t))
    BY ActivateGood DEF UiInv
  <2>. QED BY <1>1, <2>1, Handled
<1>2. ASSUME NEW t \in ToSet(ui.tabs), ClickTab(t)
      PROVE  UiInv' /\ UNCHANGED <<calls, posted>>
  BY <1>1, <1>2 DEF ClickTab, Handle
<1>3. ASSUME NEW step \in {1, Len(ui.tabs) - 1}, CycleTab(step)
      PROVE  UiInv' /\ UNCHANGED <<calls, posted>>
  <2>. DEFINE n == Len(ui.tabs)
              here == IF ui.active = None THEN 1
                      ELSE CHOOSE i \in 1 .. n : ui.tabs[i] = ui.active
              next == ((here - 1 + step) % n) + 1
  <2>1. /\ n >= 2 /\ ui' = Collected(ActivateTab(ui, ui.tabs[next]))
        /\ UNCHANGED <<calls, posted>>
    BY <1>3 DEF CycleTab, Handle
  <2>2. ui.tabs \in Seq(Slots) /\ n \in Nat /\ DOMAIN ui.tabs = 1 .. n
    BY TabsTyped DEF UiInv
  <2>3. here \in 1 .. n
    <3>1. CASE ui.active = None
      BY <2>1, <2>2, <3>1
    <3>2. CASE ui.active # None
      <4>1. \E i \in 1 .. n : ui.tabs[i] = ui.active
        BY <2>2, <3>2, ActiveInStrip DEF ToSet
      <4>. QED BY <3>2, <4>1
    <3>. QED BY <3>1, <3>2
  <2>4. next \in 1 .. n
    <3>1. step \in Nat /\ here \in Nat /\ here - 1 + step \in Nat
      BY <2>1, <2>2, <2>3
    <3>. HIDE DEF here
    <3>2. (here - 1 + step) % n \in 0 .. n - 1
      <4>1. \A x \in Nat, m \in Nat \ {0} : x % m \in 0 .. m - 1
        OBVIOUS
      <4>2. n \in Nat \ {0} /\ here - 1 + step \in Nat
        BY <2>1, <2>2, <3>1
      <4>. HIDE DEF n
      <4>. QED BY <4>1, <4>2
    <3>. QED BY <2>2, <3>2
  <2>. HIDE DEF here, next
  <2>5. ui.tabs[next] \in ToSet(ui.tabs)
    BY <2>2, <2>4 DEF ToSet
  <2>. QED BY <1>1, <2>1, <2>5
<1>. QED BY <1>2, <1>3 DEF Click

\* A call begins, or is answered.
LEMMA CallMade ==
  ASSUME CallsInv, NEW op, NEW r, <<op, r>> \in Questions, Call(op, r)
  PROVE  CallsInv'
BY CopiesMore DEF Call, CallsInv, Questions

LEMMA CallAnswered ==
  ASSUME CallsInv, NEW op, NEW r, Answered(op, r)
  PROVE  CallsInv'
<1>1. <<op, r>> \in Questions
  BY CopiesABag DEF Answered, CallsInv, BagIn
<1>. QED BY <1>1, CopiesLess DEF Answered, CallsInv, Questions

\* What opens, morphs or closes tabs needs an instance.
LEMMA OpenStep ==
  ASSUME UiInv, CallsInv, posted \in Seq(Rooms), Free(ui) # {}, Open
  PROVE  UiInv' /\ CallsInv' /\ posted' = posted
<1>1. ASSUME NEW s, s = ui \/ (Good(s, posted) /\ LastReady(s)), ui' = Collected(s), posted' = posted
      PROVE  UiInv'
  BY <1>1, Handled DEF UiInv
<1>2. ASSUME NEW t \in ToSet(ui.tabs), ClickClose(t) PROVE UiInv' /\ CallsInv' /\ posted' = posted
  <2>1. Good(CloseTab(ui, t), posted) /\ LastReady(CloseTab(ui, t))
    BY CloseGood DEF UiInv
  <2>2. ui' = Collected(CloseTab(ui, t)) /\ UNCHANGED <<calls, posted>>
    BY <1>2 DEF ClickClose, Handle
  <2>. QED BY <1>1, <2>1, <2>2 DEF CallsInv
<1>3. ASSUME NEW type \in Types \ {"placeholder"}, NEW r \in Rooms \cup {NoRoom},
             type = "room" => r \in Rooms, Handle(OpenTab(ui, type, r)), posted' = posted
      PROVE  UiInv'
  <2>1. Good(OpenTab(ui, type, r), posted) /\ LastReady(OpenTab(ui, type, r))
    BY <1>3, OpenGood DEF UiInv
  <2>. QED BY <1>1, <1>3, <2>1 DEF Handle
<1>4. ASSUME NEW type \in Pages, NEW r \in Rooms \cup {NoRoom}, OpenPage(type, r)
      PROVE  UiInv' /\ CallsInv' /\ posted' = posted
  <2>1. /\ type \in {"new-tab", "search", "settings", "user-detail", "room-overview",
                     "review-applications"}
        /\ Handle(OpenTab(ui, type, r)) /\ UNCHANGED <<calls, posted>>
    BY <1>4 DEF OpenPage, Offered
  <2>2. type \in Types \ {"placeholder"} /\ type # "room"
    BY <2>1 DEF Types
  <2>. QED BY <1>3, <2>1, <2>2 DEF CallsInv
<1>5. ASSUME NEW type \in {"new-tab", "room-creation", "apply-room"},
             NEW r \in Rooms \cup {NoRoom}, Handle(Morph(ui, type, r)), posted' = posted
      PROVE  UiInv'
  <2>1. Good(Morph(ui, type, r), posted) /\ LastReady(Morph(ui, type, r))
    BY MorphGood DEF UiInv
  <2>. QED BY <1>1, <1>5, <2>1 DEF Handle
<1>6. ASSUME NEW doomed, Handle(CloseAll(ui, doomed)), posted' = posted
      PROVE  UiInv'
  <2>1. Good(CloseAll(ui, doomed), posted) /\ LastReady(CloseAll(ui, doomed))
    BY CloseAllGood DEF UiInv
  <2>. QED BY <1>1, <1>6, <2>1 DEF Handle
<1>7. CASE StartCreation
  BY <1>5, <1>7 DEF StartCreation, CallsInv
<1>8. CASE CancelCreation
  BY <1>6, <1>8 DEF CancelCreation, CallsInv
<1>9. CASE CancelApplication
  BY <1>5, <1>9 DEF CancelApplication, CallsInv
<1>10. ASSUME NEW r \in Rooms, Joined(r) PROVE UiInv' /\ CallsInv' /\ posted' = posted
  <2>1. "room" \in Types \ {"placeholder"} /\ Handle(OpenTab(ui, "room", r))
        /\ UNCHANGED <<calls, posted>>
    BY <1>10 DEF Joined, Types
  <2>. QED BY <1>3, <2>1 DEF CallsInv
<1>11. ASSUME NEW r \in Rooms, ApplicationRequired(r)
       PROVE  UiInv' /\ CallsInv' /\ posted' = posted
  BY <1>5, <1>11, CallAnswered DEF ApplicationRequired
<1>12. ASSUME NEW r \in Rooms, Gone(r) PROVE UiInv' /\ CallsInv' /\ posted' = posted
  BY <1>6, <1>12, CallAnswered DEF Gone
<1>. QED BY <1>2, <1>4, <1>7, <1>8, <1>9, <1>10, <1>11, <1>12 DEF Open

\* A message, to the socket of its room.
LEMMA PostStep ==
  ASSUME UiInv, PostedInv, NEW r \in Rooms, Post(r)
  PROVE  UiInv' /\ PostedInv' /\ calls' = calls
<1>. DEFINE s == Posted(ui, posted, r)
<1>1. /\ Len(posted) < MaxMessages /\ posted' = Append(posted, r) /\ calls' = calls
      /\ ui' = Collected(s)
  BY DEF Post, Handle, Sent, Posted
<1>2. Good(s, Append(posted, r)) /\ LastReady(s) /\ Append(posted, r) \in Seq(Rooms)
  BY PostGood DEF UiInv, PostedInv
<1>. HIDE DEF s
<1>3. Good(ui', posted') /\ LastReady(ui')
  BY <1>1, <1>2, CollectedGood
<1>4. PostedInv'
  BY <1>1, TabsAssumption DEF PostedInv
<1>. QED BY <1>1, <1>3, <1>4 DEF UiInv

LEMMA AskStep ==
  ASSUME UiInv, CallsInv, PostedInv, Ask
  PROVE  UiInv' /\ CallsInv' /\ PostedInv'
<1>1. ASSUME NEW r \in Rooms, AskEnter(r) \/ AskGone(r)
      PROVE  UiInv' /\ CallsInv' /\ PostedInv'
  <2>1. UNCHANGED <<ui, posted>> /\ (Call("enter", r) \/ Call("gone", r))
    BY <1>1 DEF AskEnter, AskGone
  <2>2. <<"enter", r>> \in Questions /\ <<"gone", r>> \in Questions
    BY <1>1 DEF Questions
  <2>. QED BY <2>1, <2>2, CallMade DEF UiInv, PostedInv
<1>2. CASE AskCreate
  <2>1. UNCHANGED <<ui, posted>> /\ Call("create", NoRoom)
    BY <1>2 DEF AskCreate
  <2>2. <<"create", NoRoom>> \in Questions
    BY DEF Questions
  <2>. QED BY <2>1, <2>2, CallMade DEF UiInv, PostedInv
<1>3. CASE SendMessage
  <2>1. ui.chatSocket # None /\ Post(ui.sockets[ui.chatSocket].room)
    BY <1>3 DEF SendMessage
  <2>2. ui.chatSocket \in DOMAIN ui.sockets
    BY <2>1 DEF UiInv, Good, Kind, Line
  <2>3. ui.sockets[ui.chatSocket].room \in Rooms
    BY <2>2, TheSocket DEF UiInv
  <2>. QED BY <2>1, <2>3, PostStep DEF CallsInv
<1>. QED BY <1>1, <1>2, <1>3 DEF Ask

-----------------------------------------------------------------------------
(* What awaits resume with.                                                *)

\* One await less.
LEMMA CameGood ==
  ASSUME NEW p \in Seq(Rooms), NEW s, Good(s, p), NEW t \in Slots, NEW what \in Awaits,
         NEW c, c = Came(s, t, what)
  PROVE  /\ Good(c, p) /\ c.ready = s.ready /\ c.tab = s.tab /\ c.tabs = s.tabs
         /\ c.active = s.active
<1>1. s \in Records(Len(p)) /\ Len(p) \in Nat
  BY TabsTyped
<1>2. /\ c \in Records(Len(p)) /\ c = [s EXCEPT !.waiting = c.waiting]
      /\ DOMAIN c.waiting \subseteq DOMAIN s.waiting
  BY <1>1, CameRecord
<1>3. /\ c.tabs = s.tabs /\ c.tab = s.tab /\ c.active = s.active /\ c.mounted = s.mounted
      /\ c.currentRoom = s.currentRoom /\ c.chatSocket = s.chatSocket
      /\ c.sockets = s.sockets /\ c.ready = s.ready
  BY <1>1, <1>2 DEF Records
<1>4. DataAwaited(c)
  BY <1>2, <1>3 DEF Good, Kind, DataAwaited
<1>. QED BY <1>2, <1>3, <1>4 DEF Good, Kind, Strip, Distinct, Line, Logs, Stream

\* The record of a tab whose template has come, before its activation goes on.
Filled(s, t, what) ==
  [Came(s, t, what) EXCEPT !.tab[t] =
     [s.tab[t] EXCEPT !.node = TRUE, !.log = <<>>, !.dirty = @ /\ what # "reload"]]

LEMMA FilledRecord ==
  ASSUME posted \in Seq(Rooms), NEW s, Good(s, posted), NEW t \in Slots, NEW what \in Awaits,
         NEW f, f = Filled(s, t, what)
  PROVE  /\ Apart(f, posted) /\ f.tabs = s.tabs /\ f.active = s.active /\ f.ready = s.ready
         /\ f.tab[t].node /\ f.tab[t].type = s.tab[t].type
         /\ s.tab[t].type # "room" => Good(f, posted)
<1>. DEFINE n == Len(posted)
            c == Came(s, t, what)
            tab == [s.tab[t] EXCEPT !.node = TRUE, !.log = <<>>, !.dirty = @ /\ what # "reload"]
            tabs == [s.tab EXCEPT ![t] = tab]
<1>1. /\ Good(c, posted) /\ c.ready = s.ready /\ c.tab = s.tab /\ c.tabs = s.tabs
      /\ c.active = s.active
  BY CameGood
<1>2. /\ s \in Records(n) /\ n \in Nat /\ s.tab \in [Slots -> TabRecords(n)]
      /\ ToSet(s.tabs) \subseteq Slots
  BY TabsTyped DEF Records
<1>3. /\ tab \in TabRecords(n) /\ tab.type = s.tab[t].type /\ tab.room = s.tab[t].room
      /\ tab.log = <<>> /\ tab.node
  <2>1. <<>> \in Seq(1 .. n) /\ s.tab[t] \in TabRecords(n)
    BY <1>2
  <2>2. (s.tab[t].dirty /\ what # "reload") \in BOOLEAN
    OBVIOUS
  <2>. QED BY <2>1, <2>2 DEF TabRecords
<1>. HIDE DEF tab
<1>4. /\ tabs \in [Slots -> TabRecords(n)] /\ tabs[t] = tab
      /\ \A u \in Slots : u # t => tabs[u] = s.tab[u]
  BY <1>2, <1>3
<1>5. c \in Records(n) /\ Apart(c, posted)
  BY <1>1, GoodApart, TabsTyped
<1>6. f = [c EXCEPT !.tab = tabs]
  BY <1>1, <1>5 DEF Filled, Records, tab
<1>. HIDE DEF tabs, c
<1>7. /\ f \in Records(n) /\ f.tab = tabs /\ f.tabs = s.tabs /\ f.active = s.active
      /\ f.ready = s.ready /\ f.mounted = c.mounted /\ f.currentRoom = c.currentRoom
      /\ f.chatSocket = c.chatSocket /\ f.sockets = c.sockets /\ f.waiting = c.waiting
  BY <1>1, <1>4, <1>5, <1>6 DEF Records
<1>8. \A u \in Slots : tabs[u].type = s.tab[u].type /\ tabs[u].room = s.tab[u].room
  BY <1>3, <1>4
<1>9. Strip(f)
  BY <1>1, <1>7 DEF Good, Strip
<1>10. Distinct(f)
  <2>1. \A u \in ToSet(f.tabs) :
          f.tab[u].type = s.tab[u].type /\ f.tab[u].room = s.tab[u].room
    BY <1>2, <1>7, <1>8
  <2>. QED BY <1>7, <2>1, DistinctKept DEF Good
<1>11. DataAwaited(f)
  BY <1>1, <1>7, <1>8 DEF Good, Kind, DataAwaited
<1>12. Logs(f, posted)
  <2>1. SUFFICES ASSUME NEW u \in Slots
                 PROVE  /\ tabs[u].type = "room" => tabs[u].room \in Rooms
                        /\ tabs[u].type # "room" => tabs[u].log = <<>>
                        /\ Within(tabs[u].log, tabs[u].room, posted) /\ Increasing(tabs[u].log)
    BY <1>7 DEF Logs
  <2>2. CASE u = t
    <3>1. tabs[u].log = <<>> /\ Within(<<>>, tabs[u].room, posted) /\ Increasing(<<>>)
      BY <1>3, <1>4, <2>2 DEF Within, Increasing
    <3>2. s.tab[u].type = "room" => s.tab[u].room \in Rooms
      BY DEF Good, Kind, Logs
    <3>. QED BY <1>8, <3>1, <3>2
  <2>3. CASE u # t
    <3>1. tabs[u] = s.tab[u]
      BY <1>4, <2>3
    <3>. QED BY <3>1 DEF Good, Kind, Logs
  <2>. QED BY <2>2, <2>3
<1>13. Apart(f, posted)
  BY <1>5, <1>7, <1>9, <1>10, <1>11, <1>12 DEF Apart
<1>14. ASSUME s.tab[t].type # "room" PROVE Good(f, posted)
  <2>1. s.tab[t].log = <<>>
    BY <1>14 DEF Good, Kind, Logs
  <2>2. \A u \in Slots : Alike(c.tab[u], f.tab[u])
    BY <1>1, <1>3, <1>4, <1>7, <2>1 DEF Alike
  <2>3. DataAwaited(c) /\ Logs(c, posted) /\ Line(c) /\ Stream(c, posted)
    BY <1>1 DEF Good, Kind
  <2>4. Kind(f, posted)
    BY <1>5, <1>7, <2>2, <2>3, KindKept
  <2>. QED BY <1>7, <1>9, <1>10, <2>4 DEF Good
<1>. QED BY <1>3, <1>4, <1>7, <1>8, <1>13, <1>14

LEMMA TemplateStep ==
  ASSUME UiInv, posted \in Seq(Rooms), ui.ready = <<>>,
         NEW t \in Slots, NEW what \in {"template", "reload"}, TemplateArrives(t, what)
  PROVE  UiInv' /\ UNCHANGED <<calls, posted>>
<1>. DEFINE f == Filled(ui, t, what)
<1>1. ui' = Collected(Continue(f, t)) /\ UNCHANGED <<calls, posted>>
  BY DEF TemplateArrives, Handle, Filled
<1>2. /\ Apart(f, posted) /\ f.ready = ui.ready /\ f.tab[t].node
      /\ f.tab[t].type = ui.tab[t].type
      /\ ui.tab[t].type # "room" => Good(f, posted)
  BY FilledRecord DEF UiInv, Awaits
<1>. HIDE DEF f
<1>3. Good(Continue(f, t), posted) /\ LastReady(Continue(f, t))
  <2>1. CASE ui.tab[t].type = "room"
    <3>. DEFINE tab == f.tab[t]
    <3>1. Continue(f, t) = Finish(f, t)
      <4>1. tab.node /\ tab.type = "room"
        BY <1>2, <2>1
      <4>2. Continue(f, t) =
              CASE tab.node /\ Fetching(tab.type) -> Await(f, t, "data")
                [] \/ tab.node /\ ~Fetching(tab.type)
                   \/ ~tab.node /\ TakesNull(tab.type) -> Finish(f, t)
                [] OTHER -> f
        BY DEF Continue
      <4>3. ~Fetching("room")
        BY DEF Fetching
      <4>. HIDE DEF tab
      <4>. QED BY <4>1, <4>2, <4>3
    <3>2. Good(Finish(f, t), posted) /\ Settled(f, Finish(f, t))
      BY <1>2, FinishGood
    <3>. QED BY <1>2, <3>1, <3>2 DEF Settled, LastReady
  <2>2. CASE ui.tab[t].type # "room"
    <3>1. Good(f, posted) /\ LastReady(f)
      BY <1>2, <2>2 DEF LastReady
    <3>. QED BY <3>1, ContinueGood
  <2>. QED BY <2>1, <2>2
<1>. QED BY <1>1, <1>3, Handled

LEMMA AnswerStep ==
  ASSUME UiInv, CallsInv, posted \in Seq(Rooms), ui.ready = <<>>, Answer
  PROVE  UiInv' /\ CallsInv' /\ posted' = posted
<1>1. ASSUME NEW call \in BagToSet(calls), CallEnds(call[1], call[2])
      PROVE  UiInv' /\ CallsInv' /\ posted' = posted
  BY <1>1, CallAnswered DEF CallEnds, UiInv
<1>2. CASE Created
  <2>1. /\ ui' = Collected(Drop(ui, "room-creation")) /\ posted' = posted /\ CallsInv'
    BY <1>2, CallAnswered DEF Created, Handle
  <2>2. /\ Good(Drop(ui, "room-creation"), posted) /\ LastReady(Drop(ui, "room-creation"))
    BY DropGood DEF UiInv, LastReady
  <2>. QED BY <2>1, <2>2, Handled
<1>3. ASSUME NEW t \in Slots, NEW what \in {"template", "reload"}, TemplateArrives(t, what)
      PROVE  UiInv' /\ CallsInv' /\ posted' = posted
  BY <1>3, TemplateStep DEF CallsInv
<1>4. ASSUME NEW t \in Slots, NEW what \in {"template", "reload"}, TemplateFails(t, what)
      PROVE  UiInv' /\ CallsInv' /\ posted' = posted
  <2>1. ui' = Collected(Came(ui, t, what)) /\ UNCHANGED <<calls, posted>> /\ what \in Awaits
    BY <1>4 DEF TemplateFails, Handle, Awaits
  <2>2. Good(Came(ui, t, what), posted) /\ LastReady(Came(ui, t, what))
    BY <2>1, CameGood DEF UiInv, LastReady
  <2>. QED BY <2>1, <2>2, Handled DEF CallsInv
<1>5. ASSUME NEW t \in Slots, DataArrives(t)
      PROVE  UiInv' /\ CallsInv' /\ posted' = posted
  <2>. DEFINE c == Came(ui, t, "data")
  <2>1. /\ ui' = Collected(Finish(c, t)) /\ UNCHANGED <<calls, posted>>
        /\ "data" \in Awaits /\ <<t, "data">> \in DOMAIN ui.waiting
    BY <1>5 DEF DataArrives, Handle, Awaits, BagIn, BagToSet
  <2>2. Good(c, posted) /\ c.ready = ui.ready /\ c.tab = ui.tab
    BY <2>1, CameGood DEF UiInv
  <2>. HIDE DEF c
  <2>3. c.tab[t].type # "room"
    BY <2>1, <2>2 DEF UiInv, Good, Kind, DataAwaited, Fetching
  <2>4. Good(Finish(c, t), posted) /\ Settled(c, Finish(c, t))
    BY <2>2, <2>3, GoodApart, FinishGood
  <2>5. LastReady(Finish(c, t))
    BY <2>2, <2>4 DEF Settled, LastReady
  <2>. QED BY <2>1, <2>4, <2>5, Handled DEF CallsInv
<1>. QED BY <1>1, <1>2, <1>3, <1>4, <1>5 DEF Answer

LEMMA ResumeStep ==
  ASSUME UiInv, posted \in Seq(Rooms), Resume
  PROVE  UiInv' /\ UNCHANGED <<calls, posted>>
<1>. DEFINE s == [ui EXCEPT !.ready = Tail(@)]
            t == Head(ui.ready)
<1>1. ui.ready # <<>> /\ ui' = Collected(Continue(s, t)) /\ UNCHANGED <<calls, posted>>
  BY DEF Resume
<1>2. Good(ui, posted) /\ LastReady(ui) /\ ui \in Records(Len(posted)) /\ ui.ready \in Seq(Slots)
  BY TabsTyped DEF UiInv
<1>3. /\ t \in Slots /\ Tail(ui.ready) \in Seq(Slots)
      /\ Tail(ui.ready) # <<>> =>
           Tail(ui.ready)[Len(Tail(ui.ready))] = ui.ready[Len(ui.ready)]
  BY <1>1, <1>2
<1>. HIDE DEF t
<1>4. /\ s \in Records(Len(posted)) /\ s.ready = Tail(ui.ready)
      /\ s.tabs = ui.tabs /\ s.tab = ui.tab /\ s.active = ui.active /\ s.mounted = ui.mounted
      /\ s.currentRoom = ui.currentRoom /\ s.chatSocket = ui.chatSocket
      /\ s.sockets = ui.sockets /\ s.waiting = ui.waiting
  BY <1>2, <1>3 DEF Records
<1>. HIDE DEF s
<1>5. Good(s, posted)
  BY <1>2, <1>4 DEF Good, Kind, Strip, Distinct, DataAwaited, Line, Logs, Stream
<1>6. LastReady(s)
  BY <1>1, <1>2, <1>3, <1>4 DEF LastReady
<1>7. Good(Continue(s, t), posted) /\ LastReady(Continue(s, t))
  BY <1>3, <1>5, <1>6, ContinueGood
<1>. QED BY <1>1, <1>7, Handled

LEMMA ServerStep ==
  ASSUME UiInv, PostedInv, Server
  PROVE  UiInv' /\ PostedInv' /\ calls' = calls
<1>1. ASSUME NEW k \in DOMAIN ui.sockets, SocketLost(k)
      PROVE  UiInv' /\ PostedInv' /\ calls' = calls
  <2>1. ui' = Collected(Lost(ui, k)) /\ UNCHANGED <<calls, posted>>
    BY <1>1 DEF SocketLost, Handle, Lost
  <2>2. Good(Lost(ui, k), posted) /\ LastReady(Lost(ui, k))
    BY LostGood DEF UiInv, PostedInv
  <2>. QED BY <2>1, <2>2, Handled DEF PostedInv
<1>2. ASSUME NEW k \in DOMAIN ui.sockets, Deliver(k)
      PROVE  UiInv' /\ PostedInv' /\ calls' = calls
  <2>1. /\ ui.sockets[k].inbox # <<>> /\ UNCHANGED <<calls, posted>>
        /\ ui' = Collected([ui EXCEPT !.sockets[k].inbox = Tail(@),
                   !.tab[ui.sockets[k].tab] =
                     IF ui.sockets[k].bound
                     THEN Shown(ui.tab[ui.sockets[k].tab], Head(ui.sockets[k].inbox)) ELSE @])
    BY <1>2 DEF Deliver, Handle, Shown
  <2>2. ui' = Collected(Taken(ui, k))
    BY <2>1 DEF Taken, Written
  <2>3. Good(Taken(ui, k), posted) /\ LastReady(Taken(ui, k))
    BY <2>1, DeliverGood DEF UiInv, PostedInv
  <2>. QED BY <2>1, <2>2, <2>3, Handled DEF PostedInv
<1>. QED BY <1>1, <1>2, PostStep DEF Server

-----------------------------------------------------------------------------
(* The invariant.                                                          *)

\* The page opens on an empty registry with the placeholder.
LEMMA InitInv == Init => TabsInv
<1>. SUFFICES ASSUME Init PROVE TabsInv
  OBVIOUS
<1>. DEFINE tab == [t \in Slots |-> NewTab("placeholder", NoRoom)]
            s == [tabs |-> <<>>, tab |-> tab, active |-> None, mounted |-> None,
                  currentRoom |-> NoRoom, chatSocket |-> None, sockets |-> <<>>,
                  ready |-> <<>>, waiting |-> EmptyBag]
<1>1. ui = Collected(OpenTab(s, "placeholder", NoRoom)) /\ calls = EmptyBag /\ posted = <<>>
  BY DEF Init
<1>2. posted \in Seq(Rooms) /\ Len(posted) = 0
  BY <1>1
<1>3. /\ NewTab("placeholder", NoRoom) \in TabRecords(0)
      /\ NewTab("placeholder", NoRoom).type = "placeholder"
      /\ NewTab("placeholder", NoRoom).log = <<>>
  <2>1. "placeholder" \in Types /\ NoRoom \in Rooms \cup {NoRoom}
    BY DEF Types
  <2>. QED BY <2>1, NewTabRecord
<1>4. tab \in [Slots -> TabRecords(0)] /\ \A t \in Slots : tab[t].type = "placeholder" /\ tab[t].log = <<>>
  BY <1>3
<1>. HIDE DEF tab
<1>5. EmptyBag \in Waits /\ DOMAIN EmptyBag = {}
  BY NoCopies DEF Waits
<1>6. s.sockets \in [{} -> SocketRecords(0)] /\ DOMAIN s.sockets = {}
  OBVIOUS
<1>7. /\ s \in Records(0) /\ s.tabs = <<>> /\ s.tab = tab /\ s.active = None
      /\ s.mounted = None /\ s.chatSocket = None /\ s.ready = <<>> /\ s.waiting = EmptyBag
  <2>1. <<>> \in Seq(Slots)
    OBVIOUS
  <2>. QED BY <1>4, <1>5, <1>6, <2>1 DEF Records
<1>. HIDE DEF s
<1>8. ToSet(s.tabs) = {} /\ ToSet(s.ready) = {}
  BY <1>7 DEF ToSet
<1>9. Good(s, posted)
  <2>1. Strip(s) /\ Distinct(s)
    BY <1>7, <1>8 DEF Strip, Distinct, IsInjective
  <2>2. Line(s) /\ DataAwaited(s) /\ Stream(s, posted)
    BY <1>5, <1>6, <1>7 DEF Line, DataAwaited, Stream
  <2>3. Logs(s, posted)
    BY <1>4, <1>7 DEF Logs, Within, Increasing
  <2>. QED BY <1>2, <1>7, <2>1, <2>2, <2>3 DEF Good, Kind
<1>10. Free(s) # {}
  <2>1. InUse(s) = {None}
    BY <1>5, <1>6, <1>7, <1>8 DEF InUse, BagToSet
  <2>. QED BY <2>1, TabsAssumption DEF Free
<1>11. /\ Good(OpenTab(s, "placeholder", NoRoom), posted)
       /\ LastReady(OpenTab(s, "placeholder", NoRoom))
  <2>1. "placeholder" \in Types /\ "placeholder" # "room" /\ NoRoom \in Rooms \cup {NoRoom}
    BY DEF Types
  <2>. QED BY <1>2, <1>8, <1>9, <1>10, <2>1, OpenGood
<1>12. UiInv
  BY <1>1, <1>2, <1>11, CollectedGood DEF UiInv
<1>. QED BY <1>1, <1>2, <1>12, NoCopies, TabsAssumption DEF TabsInv, CallsInv, PostedInv

LEMMA NextInv == TabsInv /\ [Next]_vars => TabsInv'
<1>. SUFFICES ASSUME TabsInv, [Next]_vars PROVE TabsInv'
  OBVIOUS
<1>. USE DEF TabsInv
<1>1. CASE UNCHANGED vars
  BY <1>1 DEF vars, UiInv, CallsInv, PostedInv
<1>2. posted \in Seq(Rooms)
  BY DEF PostedInv
<1>3. CASE Resume
  BY <1>2, <1>3, ResumeStep DEF CallsInv, PostedInv
<1>4. CASE Ask
  BY <1>4, AskStep
<1>5. CASE ui.ready = <<>> /\ Answer
  BY <1>2, <1>5, AnswerStep DEF PostedInv
<1>6. CASE Server
  BY <1>6, ServerStep DEF CallsInv
<1>7. CASE Click
  BY <1>2, <1>7, ClickStep DEF CallsInv, PostedInv
<1>8. CASE MayOpen /\ Open
  BY <1>2, <1>8, OpenStep DEF MayOpen, PostedInv
<1>. QED BY <1>1, <1>3, <1>4, <1>5, <1>6, <1>7, <1>8 DEF Next

\* The invariant of the registry, the chat socket and the logs is inductive.
LEMMA Invariance == Spec => []TabsInv
BY InitInv, NextInv, PTL DEF Spec

\* The only socket there can be is 1, which is chatSocket.
LEMMA TheConnection ==
  ASSUME TabsInv
  PROVE  /\ ui.chatSocket \in {None, 1}
         /\ DOMAIN ui.sockets = {ui.chatSocket} \ {None}
         /\ Line(ui) /\ Logs(ui, posted)
BY DEF TabsInv, UiInv, Good, Kind, Line, Records

\* Whatever the user opens, morphs and closes while activations are under way, the
\* strip of the registry has each instance once and marks one of them at most,
\* and the socket writes to a room tab.
THEOREM TabsTypes == Spec => []TypeOK
<1>1. ASSUME TabsInv PROVE TypeOK
  <2>1. /\ Good(ui, posted) /\ Strip(ui) /\ ui \in Records(Len(posted))
        /\ ToSet(ui.tabs) \subseteq Slots /\ ui.ready \in Seq(Slots)
    BY <1>1, TabsTyped DEF TabsInv, UiInv, Good
  <2>2. /\ ui.mounted \in Slots \cup {None} /\ ui.currentRoom \in Rooms \cup {NoRoom}
        /\ ui.waiting \in Waits
    BY <2>1 DEF Records
  <2>3. ui.chatSocket \in DOMAIN ui.sockets \cup {None}
    BY <1>1, TheConnection
  <2>4. ASSUME NEW k \in DOMAIN ui.sockets
        PROVE  ui.sockets[k] \in Sockets /\ ui.tab[ui.sockets[k].tab].type = "room"
    <3>1. SocketRecords(Len(posted)) = Sockets
      BY DEF SocketRecords, Sockets, FrameRecords, Frames
    <3>2. /\ k = 1 /\ ui.sockets[1] \in SocketRecords(Len(posted))
          /\ ui.tab[ui.sockets[1].tab].type = "room"
      BY <2>1, TheSocket
    <3>. QED BY <3>1, <3>2
  <2>5. ASSUME NEW t \in Slots
        PROVE  /\ ui.tab[t].type \in Types /\ ui.tab[t].room \in Rooms \cup {NoRoom}
               /\ {ui.tab[t].node, ui.tab[t].dirty, ui.tab[t].loaded} \subseteq BOOLEAN
               /\ ui.tab[t].log \in Seq(1 .. Len(posted))
    <3>1. ui.tab[t] \in TabRecords(Len(posted))
      BY <2>1, TabsTyped
    <3>. QED BY <3>1 DEF TabRecords
  <2>6. IsABag(ui.waiting) /\ BagToSet(ui.waiting) \subseteq Slots \X Awaits
    BY <2>2, CopiesABag DEF Waits
  <2>7. IsABag(calls) /\ BagToSet(calls) \subseteq Questions
    BY <1>1, CopiesABag DEF TabsInv, CallsInv
  <2>. QED BY <1>1, <2>1, <2>2, <2>3, <2>4, <2>5, <2>6, <2>7
           DEF TypeOK, TabsInv, Strip, PostedInv
<1>. QED BY <1>1, Invariance, PTL

\* Activations that overlap, a tab closed while its own is under way, or a room
\* deleted: a socket that is not chatSocket, or one to another room than the
\* current one, is never left behind.
THEOREM TabsConnection == Spec => []OneConnection
<1>1. ASSUME TabsInv PROVE OneConnection
  BY <1>1, TheConnection DEF OneConnection, Line
<1>. QED BY <1>1, Invariance, PTL

\* While there is a chat socket, the content before the user is a chat of the room
\* that socket sends to.
THEOREM TabsSend == Spec => []SentWhereShown
<1>1. ASSUME TabsInv PROVE SentWhereShown
  BY <1>1, TheConnection DEF SentWhereShown, SeesOf, Sees, Line
<1>. QED BY <1>1, Invariance, PTL

\* openTab finds the tab that is there already, whichever of the others opened,
\* morphed or closed since it was opened.
THEOREM TabsAreUnique == Spec => []TabsUnique
<1>1. ASSUME TabsInv PROVE TabsUnique
  BY <1>1 DEF TabsInv, UiInv, Good, Distinct, TabsUnique
<1>. QED BY <1>1, Invariance, PTL

\* A log that its tab fills over one socket after another has the messages of its
\* room in order, none twice, and loses none that is posted while it is open.
THEOREM TabsLogs == Spec => []LogsFaithful
<1>1. ASSUME TabsInv PROVE LogsFaithful
  <2>1. Good(ui, posted) /\ posted \in Seq(Rooms) /\ Logs(ui, posted)
    BY <1>1, TheConnection DEF TabsInv, UiInv, PostedInv
  <2>2. ASSUME NEW t \in Slots
        PROVE  /\ \A i \in DOMAIN ui.tab[t].log : posted[ui.tab[t].log[i]] = ui.tab[t].room
               /\ \A i, j \in DOMAIN ui.tab[t].log :
                    i < j => ui.tab[t].log[i] < ui.tab[t].log[j]
    <3>1. ui.tab[t].log \in Seq(1 .. Len(posted))
      BY <2>1, TabsTyped DEF TabRecords
    <3>2. DOMAIN ui.tab[t].log = 1 .. Len(ui.tab[t].log)
      BY <3>1
    <3>3. Within(ui.tab[t].log, ui.tab[t].room, posted) /\ Increasing(ui.tab[t].log)
      BY <2>1 DEF Logs
    <3>. QED BY <3>2, <3>3 DEF Within, Increasing
  <2>3. ASSUME NEW k \in DOMAIN ui.sockets, ui.sockets[k].open, ui.sockets[k].bound,
               NEW m \in ToSet(HistoryOf(ui.sockets[k].room))
        PROVE  \/ m <= ui.sockets[k].since
               \/ m \in ToSet(ui.tab[ui.sockets[k].tab].log)
               \/ [type |-> "chat_message", message |-> m] \in ToSet(ui.sockets[k].inbox)
    <3>. DEFINE socket == ui.sockets[k]
                log == ui.tab[socket.tab].log
    <3>1. /\ k = 1 /\ socket \in SocketRecords(Len(posted)) /\ socket.tab \in Slots
          /\ InboxOf(socket, log, posted)
      BY <2>1, TheSocket
    <3>2. /\ socket.inbox \in Seq(FrameRecords(Len(posted))) /\ socket.since \in Nat
          /\ log \in Seq(1 .. Len(posted))
      <4>1. ui.tab[socket.tab] \in TabRecords(Len(posted))
        BY <2>1, <3>1, TabsTyped
      <4>. QED BY <3>1, <4>1 DEF SocketRecords, TabRecords
    <3>3. m \in 1 .. Len(posted) /\ posted[m] = socket.room
      BY <2>1, HistoryFacts
    <3>. HIDE DEF socket, log
    <3>4. socket.open /\ socket.bound
      BY <2>3 DEF socket
    <3>5. \/ ~(socket.since < m)
          \/ \E j \in 1 .. Len(log) : log[j] = m
          \/ \E i \in 1 .. Len(socket.inbox) :
               socket.inbox[i] = [type |-> "chat_message", message |-> m]
      BY <3>1, <3>3, <3>4 DEF InboxOf
    <3>6. /\ DOMAIN log = 1 .. Len(log) /\ DOMAIN socket.inbox = 1 .. Len(socket.inbox)
          /\ ~(socket.since < m) => m <= socket.since
      BY <3>2, <3>3
    <3>7. \/ m <= socket.since \/ m \in ToSet(log)
          \/ [type |-> "chat_message", message |-> m] \in ToSet(socket.inbox)
      BY <3>5, <3>6 DEF ToSet
    <3>. QED BY <3>7 DEF socket, log
  <2>. QED BY <2>2, <2>3 DEF LogsFaithful
<1>. QED BY <1>1, Invariance, PTL

-----------------------------------------------------------------------------
(* The activation that ends last.                                          *)

Shows(s, t) ==
  /\ s.mounted = t
  /\ s.currentRoom = CurrentRoom(s.tab[t])
  /\ s.tab[t].type = "room" => s.chatSocket # None /\ s.sockets[s.chatSocket].tab = t

\* The active tab is in use.
LEMMA ActiveCollected ==
  ASSUME NEW n \in Nat, NEW s \in Records(n), Strip(s), NEW t \in Slots, s.active = t,
         NEW b, b = Collected(s)
  PROVE  t \in ToSet(s.tabs) /\ b.tab[t] = s.tab[t]
<1>1. t \in ToSet(s.tabs)
  BY TabsAssumption DEF Strip
<1>2. ToSet(s.tabs) \subseteq Slots
  BY DEF Records, ToSet
<1>3. t \in InUse(s)
  BY <1>1 DEF InUse
<1>. QED BY <1>1, <1>3, CollectedRecord

\* An activation that comes to its end for the active tab, which has its content.
LEMMA FinishShows ==
  ASSUME posted \in Seq(Rooms), NEW s, Apart(s, posted), NEW t \in Slots,
         s.active = t, s.tab[t].node, NEW b, b = Collected(Finish(s, t))
  PROVE  Shows(b, t)
<1>. DEFINE f == Finish(s, t)
<1>1. /\ Good(f, posted) /\ Settled(s, f)
      /\ f.mounted = t /\ f.currentRoom = CurrentRoom(s.tab[t])
      /\ s.tab[t].type = "room" /\ t \in ToSet(s.tabs) => f.chatSocket = 1 /\ f.sockets[1].tab = t
  BY FinishGood
<1>. HIDE DEF f
<1>2. Len(posted) \in Nat /\ f \in Records(Len(posted)) /\ Strip(f) /\ f.active = t
  BY <1>1, TabsTyped DEF Good, Settled
<1>3. t \in ToSet(f.tabs) /\ b.tab[t] = f.tab[t]
  BY <1>2, ActiveCollected DEF f
<1>4. /\ b.mounted = f.mounted /\ b.currentRoom = f.currentRoom
      /\ b.chatSocket = f.chatSocket /\ b.sockets = f.sockets
  BY <1>2, CollectedRecord DEF f
<1>5. b.tab[t] = s.tab[t] /\ t \in ToSet(s.tabs) /\ 1 # None
  BY <1>1, <1>3, TabsAssumption DEF Settled
<1>. QED BY <1>1, <1>4, <1>5 DEF Shows

\* One that leaves nothing under way was the only one there was.
LEMMA ContinueEnds ==
  ASSUME posted \in Seq(Rooms), NEW s, Apart(s, posted), NEW t \in Slots,
         NEW b, b = Collected(Continue(s, t)), Quiet(b)
  PROVE  /\ s.ready = <<>> /\ DOMAIN s.waiting = {} /\ b.active = s.active
         /\ \/ b = Collected(Finish(s, t)) /\ (s.tab[t].type = "room" => s.tab[t].node)
            \/ b = Collected(s) /\ ~s.tab[t].node
<1>1. s \in Records(Len(posted)) /\ Len(posted) \in Nat
  BY DEF Apart
<1>2. b.ready = <<>> /\ DOMAIN b.waiting = {}
  BY DEF Quiet, BagToSet
<1>3. CASE s.tab[t].node /\ Fetching(s.tab[t].type)
  <2>. DEFINE c == Await(s, t, "data")
  <2>1. b = Collected(c)
    BY <1>3 DEF Continue
  <2>2. c \in Records(Len(posted)) /\ <<t, "data">> \in DOMAIN c.waiting
    BY <1>1, AwaitRecord DEF Awaits
  <2>. HIDE DEF c
  <2>3. b.waiting = c.waiting
    BY <1>1, <2>1, <2>2, CollectedRecord
  <2>. QED BY <1>2, <2>2, <2>3
<1>4. CASE \/ s.tab[t].node /\ ~Fetching(s.tab[t].type)
           \/ ~s.tab[t].node /\ TakesNull(s.tab[t].type)
  <2>. DEFINE f == Finish(s, t)
  <2>1. b = Collected(f)
    BY <1>4 DEF Continue
  <2>2. s.tab[t].type = "room" => s.tab[t].node
    BY <1>4 DEF TakesNull
  <2>3. Good(f, posted) /\ Settled(s, f)
    BY <2>2, FinishGood
  <2>. HIDE DEF f
  <2>4. b.ready = f.ready /\ b.waiting = f.waiting /\ b.active = f.active
    BY <1>1, <2>1, <2>3, CollectedRecord, TabsTyped
  <2>. QED BY <1>2, <2>1, <2>2, <2>3, <2>4 DEF Settled, f
<1>5. CASE ~s.tab[t].node /\ ~TakesNull(s.tab[t].type)
  <2>1. b = Collected(s)
    BY <1>5 DEF Continue
  <2>2. b.ready = s.ready /\ b.waiting = s.waiting /\ b.active = s.active
    BY <1>1, <2>1, CollectedRecord
  <2>. QED BY <1>2, <1>5, <2>1, <2>2
<1>. QED BY <1>3, <1>4, <1>5

LEMMA ContinueShows ==
  ASSUME posted \in Seq(Rooms), NEW s, Apart(s, posted), NEW t \in Slots,
         NEW b, b = Collected(Continue(s, t)), Quiet(b), b.active = t, b.tab[t].node
  PROVE  Shows(b, t)
<1>1. s \in Records(Len(posted)) /\ Strip(s) /\ Len(posted) \in Nat
  BY DEF Apart
<1>2. s.active = t
  BY ContinueEnds
<1>3. CASE b = Collected(Finish(s, t)) /\ (s.tab[t].type = "room" => s.tab[t].node)
  <2>. DEFINE f == Finish(s, t)
  <2>1. Good(f, posted) /\ Settled(s, f)
    BY <1>3, FinishGood
  <2>2. f \in Records(Len(posted)) /\ Strip(f) /\ f.active = t
    BY <1>2, <2>1 DEF Good, Settled
  <2>3. b.tab[t] = f.tab[t]
    <3>. HIDE DEF f
    <3>. QED BY <1>1, <1>3, <2>2, ActiveCollected DEF f
  <2>4. s.tab[t].node
    BY <2>1, <2>3 DEF Settled
  <2>. QED BY <1>2, <1>3, <2>4, FinishShows
<1>4. CASE b = Collected(s) /\ ~s.tab[t].node
  BY <1>1, <1>2, <1>4, ActiveCollected
<1>. QED BY <1>3, <1>4, ContinueEnds

LEMMA EndShows ==
  ASSUME TabsInv, NEW t \in Slots, Ends(t)
  PROVE  Shows(ui', t)
<1>1. /\ Good(ui, posted) /\ LastReady(ui) /\ posted \in Seq(Rooms)
      /\ ui \in Records(Len(posted)) /\ ui.ready \in Seq(Slots) /\ Len(posted) \in Nat
  BY TabsTyped DEF TabsInv, UiInv, PostedInv
<1>2. ui'.active = t /\ ui'.tab[t].node /\ Quiet(ui')
  BY DEF Ends
<1>3. CASE DataArrives(t)
  <2>. DEFINE c == Came(ui, t, "data")
  <2>1. ui' = Collected(Finish(c, t)) /\ "data" \in Awaits /\ <<t, "data">> \in DOMAIN ui.waiting
    BY <1>3 DEF DataArrives, Handle, Awaits, BagIn, BagToSet
  <2>2. Good(c, posted) /\ c.tab = ui.tab
    BY <1>1, <2>1, CameGood
  <2>. HIDE DEF c
  <2>3. c.tab[t].type # "room"
    BY <1>1, <2>1, <2>2 DEF Good, Kind, DataAwaited, Fetching
  <2>4. Good(Finish(c, t), posted) /\ Settled(c, Finish(c, t)) /\ Apart(c, posted)
    BY <1>1, <2>2, <2>3, GoodApart, FinishGood
  <2>5. Finish(c, t) \in Records(Len(posted)) /\ Strip(Finish(c, t))
    BY <2>4 DEF Good
  <2>6. Finish(c, t).active = t
    BY <1>1, <1>2, <2>1, <2>5, CollectedRecord
  <2>7. c.active = t /\ c.tab[t].node
    BY <1>1, <1>2, <2>1, <2>4, <2>5, <2>6, ActiveCollected DEF Settled
  <2>. QED BY <1>1, <2>1, <2>4, <2>7, FinishShows
<1>4. CASE Resume
  <2>. DEFINE s == [ui EXCEPT !.ready = Tail(@)]
              h == Head(ui.ready)
  <2>1. ui.ready # <<>> /\ ui' = Collected(Continue(s, h))
    BY <1>4 DEF Resume
  <2>2. h \in Slots /\ Tail(ui.ready) \in Seq(Slots)
    BY <1>1, <2>1
  <2>3. Good(s, posted) /\ s.ready = Tail(ui.ready) /\ s.active = ui.active
        /\ s.waiting = ui.waiting
    <3>1. /\ s \in Records(Len(posted)) /\ s.ready = Tail(ui.ready)
          /\ s.tabs = ui.tabs /\ s.tab = ui.tab /\ s.active = ui.active
          /\ s.mounted = ui.mounted /\ s.currentRoom = ui.currentRoom
          /\ s.chatSocket = ui.chatSocket /\ s.sockets = ui.sockets /\ s.waiting = ui.waiting
      BY <1>1, <2>2 DEF Records
    <3>. HIDE DEF s
    <3>. QED BY <1>1, <3>1 DEF Good, Kind, Strip, Distinct, DataAwaited, Line, Logs, Stream
  <2>. HIDE DEF s, h
  <2>4. Apart(s, posted)
    BY <2>3, GoodApart
  <2>5. s.ready = <<>> /\ DOMAIN s.waiting = {} /\ s.active = t
    BY <1>1, <1>2, <2>1, <2>2, <2>4, ContinueEnds
  <2>6. h = t
    <3>1. Len(ui.ready) = 1 /\ h = ui.ready[1]
      <4>1. /\ Len(s.ready) = Len(ui.ready) - 1 /\ Len(ui.ready) \in Nat
        BY <1>1, <2>1, <2>3
      <4>2. Len(s.ready) = 0
        BY <2>5
      <4>3. Len(ui.ready) = 1
        <5>1. \A l \in Nat : l - 1 = 0 => l = 1
          OBVIOUS
        <5>2. Len(ui.ready) - 1 = 0
          BY <4>1, <4>2, Zenon
        <5>. QED BY <4>1, <5>1, <5>2, Zenon
      <4>4. h = ui.ready[1]
        BY <1>1, <2>1 DEF h
      <4>. QED BY <4>3, <4>4
    <3>. QED BY <1>1, <2>1, <2>3, <2>5, <3>1 DEF LastReady
  <2>. QED BY <1>1, <1>2, <2>1, <2>4, <2>6, ContinueShows
<1>5. ASSUME NEW what \in {"template", "reload"}, TemplateArrives(t, what)
      PROVE  Shows(ui', t)
  <2>1. ui' = Collected(Continue(Filled(ui, t, what), t))
    BY <1>5 DEF TemplateArrives, Handle, Filled
  <2>2. Apart(Filled(ui, t, what), posted)
    BY <1>1, FilledRecord DEF Awaits
  <2>. QED BY <1>1, <1>2, <2>1, <2>2, ContinueShows
<1>. QED BY <1>3, <1>4, <1>5 DEF Ends

\* The last activation to end, of those that overlap, leaves its own tab attached,
\* its room the current one, and its chat on a socket that writes to its log.
THEOREM TabsLastOne == Spec => LastOneShows
<1>1. TabsInv /\ [Next]_vars =>
        [\A t \in Slots : Ends(t) =>
           /\ ui'.mounted = t
           /\ ui'.currentRoom = CurrentRoom(ui'.tab[t])
           /\ ui'.tab[t].type = "room" =>
                ui'.chatSocket # None /\ ui'.sockets[ui'.chatSocket].tab = t]_vars
  BY EndShows DEF Shows
<1>. QED BY <1>1, Invariance, PTL DEF LastOneShows, Spec
=============================================================================
