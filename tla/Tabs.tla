--------------------------------- MODULE Tabs ---------------------------------
(***************************************************************************)
(* The browser client: the tab manager of static/chat/js/tabs/tabs.js with *)
(* core/mount.js, the chat socket of core/socket.js, and the handlers of   *)
(* core/ and tabs/ that open, morph and close tabs.                        *)
(*                                                                         *)
(* JavaScript runs one handler at a time, until it awaits.  "ui" is what   *)
(* the handlers share: the registry and its DOM, and state of              *)
(* core/state.js.  The functions of the client are operators from one such *)
(* record to the next, and an action is a handler, or what runs when an    *)
(* await has its answer.  Answers come in any order, or fail.  An await    *)
(* that waits for no answer goes on as a microtask, before any other       *)
(* handler ("ready").                                                      *)
(*                                                                         *)
(* The server is seen at its best: a connection opens at once and receives *)
(* the history and every later message, once and in order (ChatHub has     *)
(* what it really does).  It answers each request as it likes.             *)
(*                                                                         *)
(* Left out: titles, forms, listings and notices, confirmations, and the   *)
(* cooldown of the send button.                                            *)
(***************************************************************************)
EXTENDS Naturals, FiniteSets, Bags, SequencesExt

CONSTANTS
  Rooms,
  NoRoom,
  Slots,         \* bound of the model: the Tab instances alive at a time
  None,          \* null
  Pages,         \* the types of page the user opens, in this instance
  MaxTabs,       \* bound of the model: tabs open at a time
  MaxPending,    \* bound of the model: activations under way when one more begins
  MaxCalls,      \* bound of the model: API calls under way when one more begins
  MaxMessages    \* bound of the model: messages ever posted

ASSUME TabsAssumption ==
  /\ NoRoom \notin Rooms /\ None \notin Slots /\ None \notin Nat /\ Slots # {}
  /\ {MaxTabs, MaxPending, MaxCalls, MaxMessages} \subseteq Nat

VARIABLES
  ui,            \* what the handlers share
  calls,         \* the API calls under way, a bag of <<what is asked, room>>
  posted         \* the rooms of all messages saved; a message is its index

vars == <<ui, calls, posted>>

Awaits == {"template", "reload", "data"}

\* What a loop over a snapshot of the tabs leaves or picks: the elements of seq that
\* are in S, in their order.
Kept(seq, S) ==
  LET kept[n \in 0 .. Len(seq)] ==
        IF n = 0 THEN <<>>
        ELSE IF seq[n] \in S THEN Append(kept[n - 1], seq[n]) ELSE kept[n - 1]
  IN kept[Len(seq)]

-----------------------------------------------------------------------------
(* Tab instances.                                                          *)

Types ==
  {"new-tab", "room-creation", "room", "room-overview", "user-detail",
   "apply-room", "review-applications", "settings", "search", "placeholder"}

\* Types whose content is discarded when they are left.
NoCache(type) == type \notin {"room", "review-applications"}

\* Types that are dirty from the start, and whose activation awaits data after
\* the template.
Fetching(type) == type \in {"room-overview", "user-detail", "review-applications"}

\* Types whose activation does without its content, should it be gone.
TakesNull(type) == type \in {"room-overview", "user-detail", "search", "placeholder"}

\* node: whether contentNode is there.  log: the messages in its chat log.
\* loaded: roomLoaded.
NewTab(type, r) ==
  [type |-> type, room |-> r, node |-> FALSE, dirty |-> Fetching(type),
   loaded |-> FALSE, log |-> <<>>]

Destroyed(tab) == [tab EXCEPT !.node = FALSE, !.loaded = FALSE]

\* Instances that something refers to; the others are garbage.
InUse(s) ==
  ToSet(s.tabs) \cup ToSet(s.ready) \cup {w[1] : w \in BagToSet(s.waiting)}
    \cup {s.mounted} \cup {s.sockets[k].tab : k \in DOMAIN s.sockets}

Free(s) == Slots \ InUse(s)

\* Instances have no order: which one is taken makes no difference.
NewSlot(s) == CHOOSE t \in Free(s) : TRUE

Collected(s) ==
  LET used == InUse(s) IN
  [s EXCEPT !.tab = [t \in Slots |->
     IF t \in used THEN s.tab[t] ELSE NewTab("placeholder", NoRoom)]]

Pending(s) == BagCardinality(s.waiting)

Quiet(s) == s.ready = <<>> /\ BagToSet(s.waiting) = {}

-----------------------------------------------------------------------------
(* The chat socket.                                                        *)

\* close() and forget; the browser delivers nothing after close().  The mutated
\* one forgets to close.
CloseChatForgets(s) == [s EXCEPT !.chatSocket = None]

CloseChat(s) ==
  [s EXCEPT !.sockets = Restrict(@, DOMAIN @ \ {s.chatSocket}), !.chatSocket = None]

HistoryOf(r) == Kept([i \in DOMAIN posted |-> i], {i \in DOMAIN posted : posted[i] = r})

\* The socket writes to the content its tab has now, if any; the history is the
\* first frame.
NewSocket(s, r, t) ==
  [room |-> r, tab |-> t, bound |-> s.tab[t].node, open |-> TRUE, since |-> Len(posted),
   inbox |-> <<[type |-> "init", history |-> HistoryOf(r)]>>]

CreateChatSocket(s, r) ==
  LET own == {t \in ToSet(s.tabs) : s.tab[t].type = "room" /\ s.tab[t].room = r}
      new == NewSocket(s, r, CHOOSE t \in own : TRUE)
      k == CHOOSE i \in 1 .. Cardinality(DOMAIN s.sockets) + 1 : i \notin DOMAIN s.sockets
  IN IF own = {} THEN s
     ELSE [s EXCEPT !.sockets = [i \in DOMAIN @ \cup {k} |-> IF i = k THEN new ELSE @[i]],
                    !.chatSocket = k]

-----------------------------------------------------------------------------
(* activateTab.                                                            *)

Await(s, t, what) == [s EXCEPT !.waiting = @ (+) SetToBag({<<t, what>>})]

Came(s, t, what) == [s EXCEPT !.waiting = @ (-) SetToBag({<<t, what>>})]

\* Up to the first await: mark the tab, destroy what is left, take the content
\* away, and ask for a template where there is none or it is dirty.
ActivateTab(s, t) ==
  LET prev == s.active
      left == IF prev # None /\ NoCache(s.tab[prev].type)
              THEN [s EXCEPT !.tab[prev] = Destroyed(@)] ELSE s
      shown == [left EXCEPT !.active = t, !.mounted = None]
  IN CASE ~shown.tab[t].node -> Await(shown, t, "template")
       [] shown.tab[t].node /\ shown.tab[t].dirty -> Await(shown, t, "reload")
       [] OTHER -> [shown EXCEPT !.ready = Append(@, t)]

\* Attach the content, if there is any.
Attached(s, t) == [s EXCEPT !.mounted = IF s.tab[t].node THEN t ELSE @]

CurrentRoom(tab) ==
  IF tab.type \in {"room", "room-overview"} THEN tab.room ELSE NoRoom

Connected(s, t) ==
  LET hung == CloseChat(s) IN
  IF s.tab[t].type = "room" THEN CreateChatSocket(hung, s.tab[t].room) ELSE hung

\* After the last await.  The mutated ones attach beside what is there, or keep a
\* socket that is there.
FinishBeside(s, t) ==
  Connected([(IF s.mounted = None THEN Attached(s, t) ELSE s)
               EXCEPT !.currentRoom = CurrentRoom(s.tab[t])], t)

FinishOnOldSocket(s, t) ==
  LET now == [Attached(s, t) EXCEPT !.currentRoom = CurrentRoom(s.tab[t])] IN
  IF s.chatSocket = None THEN Connected(now, t) ELSE now

Finish(s, t) ==
  Connected([Attached(s, t) EXCEPT !.currentRoom = CurrentRoom(s.tab[t])], t)

\* What the subclass does once it has its template: fetch data or be done.  A
\* handler that closed the tab meanwhile took its content: a TypeError.
Continue(s, t) ==
  LET tab == s.tab[t] IN
  CASE tab.node /\ Fetching(tab.type) -> Await(s, t, "data")
    [] (tab.node /\ ~Fetching(tab.type)) \/ (~tab.node /\ TakesNull(tab.type)) -> Finish(s, t)
    [] OTHER -> s

-----------------------------------------------------------------------------
(* openTab, closeTab, setTabMetadata.                                      *)

\* Tabs of a type, removed from the DOM and the registry and not destroyed; the
\* mutated one leaves the mark of the active tab.
DropKeepingMark(s, type) ==
  [s EXCEPT !.tabs = Kept(@, {t \in Slots : s.tab[t].type # type})]

Drop(s, type) ==
  [s EXCEPT !.tabs = Kept(@, {t \in Slots : s.tab[t].type # type}),
            !.active = IF @ # None /\ s.tab[@].type = type THEN None ELSE @]

Single(type) == type \in {"settings", "search", "placeholder"}
KeyedByRoom(type) == type \in {"room", "room-overview", "review-applications"}

\* The tab openTab takes for the one asked for; the mutated one ignores uniqueKey.
SameUnkeyed(tab, type, r) == tab.type = type /\ Single(type)

Same(tab, type, r) ==
  /\ tab.type = type
  /\ Single(type) \/ (KeyedByRoom(type) /\ tab.room = r)

OpenTab(s, type, r) ==
  LET rest == IF type = "placeholder" THEN s ELSE Drop(s, "placeholder")
      existing == {t \in ToSet(rest.tabs) : Same(rest.tab[t], type, r)}
      n == NewSlot(rest)
  IN IF existing # {} THEN ActivateTab(rest, CHOOSE t \in existing : TRUE)
     ELSE ActivateTab([rest EXCEPT !.tabs = Append(@, n), !.tab[n] = NewTab(type, r)], n)

CloseTab(s, t) ==
  LET gone == [s EXCEPT !.tab[t] = Destroyed(@), !.tabs = Kept(@, Slots \ {t}),
                        !.active = IF @ = t THEN None ELSE @]
  IN CASE s.active # t -> gone
       [] s.active = t /\ gone.tabs # <<>> -> ActivateTab(gone, Last(gone.tabs))
       [] OTHER -> OpenTab(CloseChat([gone EXCEPT !.currentRoom = NoRoom]), "placeholder", NoRoom)

\* closeTab of the tabs of a snapshot, in order.
CloseAll(s, doomed) ==
  LET order == Kept(s.tabs, doomed)
      after[n \in 0 .. Len(order)] ==
        IF n = 0 THEN s ELSE CloseTab(after[n - 1], order[n])
  IN after[Len(order)]

\* setTabMetadata of the active tab, whichever that is: a change of type puts
\* another instance in its place.  Then activateTab.
Morph(s, type, r) ==
  LET a == s.active
      n == NewSlot(s)
  IN CASE a = None -> s
       [] a # None /\ s.tab[a].type = type -> ActivateTab([s EXCEPT !.tab[a].room = r], a)
       [] OTHER -> ActivateTab([s EXCEPT !.tabs = ReplaceAll(@, a, n), !.active = n,
                                         !.tab[n] = NewTab(type, r)], n)

-----------------------------------------------------------------------------
(* What the user does.                                                     *)

\* A handler leaves its garbage behind; the model stops before a tab too many.
Handle(s) == Len(s.tabs) <= MaxTabs /\ ui' = Collected(s)

\* The bounds: activations under way, and an instance for one more tab.
MayActivate == Pending(ui) < MaxPending
MayOpen == MayActivate /\ Free(ui) # {}

\* The user sees the content of a tab of this type.
Sees(type) == ui.mounted # None /\ ui.tab[ui.mounted].type = type
SeesOf(type, r) == Sees(type) /\ ui.tab[ui.mounted].room = r

ActiveIs(type) == ui.active # None /\ ui.tab[ui.active].type = type

Call(op, r) ==
  /\ BagCardinality(calls) < MaxCalls
  /\ calls' = calls (+) SetToBag({<<op, r>>})

ClickTab(t) ==
  /\ Handle(ActivateTab(ui, t))
  /\ UNCHANGED <<calls, posted>>

\* Alt+1 and Alt+2: the neighbour in the strip, around its ends; the first
\* tab's, if none is active.
CycleTab(step) ==
  LET n == Len(ui.tabs)
      here == IF ui.active = None THEN 1 ELSE CHOOSE i \in 1 .. n : ui.tabs[i] = ui.active
  IN
  /\ n >= 2
  /\ Handle(ActivateTab(ui, ui.tabs[((here - 1 + step) % n) + 1]))
  /\ UNCHANGED <<calls, posted>>

ClickClose(t) ==
  /\ Handle(CloseTab(ui, t))
  /\ UNCHANGED <<calls, posted>>

\* Buttons and keys that open a page: anywhere, in a room's log, by Alt+5 for the
\* current room (an active overview is activated again), or in a room's overview.
Offered(type, r) ==
  \/ type \in {"new-tab", "search", "settings"} /\ r = NoRoom
  \/ type = "user-detail" /\ r = NoRoom /\ Sees("room")
  \/ type = "room-overview" /\ r # NoRoom /\ SeesOf("room", r)
  \/ type = "room-overview" /\ r # NoRoom /\ r = ui.currentRoom /\ ~ActiveIs(type)
  \/ type = "review-applications" /\ r # NoRoom /\ SeesOf("room-overview", r)

OpenPage(type, r) ==
  /\ Offered(type, r)
  /\ Handle(OpenTab(ui, type, r))
  /\ UNCHANGED <<calls, posted>>

\* joinRoomAndOpen, from the form of a new tab.
AskEnter(r) ==
  /\ Sees("new-tab") /\ Call("enter", r)
  /\ UNCHANGED <<ui, posted>>

\* The other button of a new tab, if it is still the active one.
StartCreation ==
  /\ Sees("new-tab") /\ ActiveIs("new-tab")
  /\ Handle(Morph(ui, "room-creation", NoRoom))
  /\ UNCHANGED <<calls, posted>>

AskCreate ==
  /\ Sees("room-creation") /\ Call("create", NoRoom)
  /\ UNCHANGED <<ui, posted>>

CancelCreation ==
  /\ Sees("room-creation")
  /\ Handle(CloseAll(ui, {t \in Slots : ui.tab[t].type = "room-creation"}))
  /\ UNCHANGED <<calls, posted>>

CancelApplication ==
  /\ Sees("apply-room")
  /\ Handle(Morph(ui, "new-tab", NoRoom))
  /\ UNCHANGED <<calls, posted>>

\* Leave or delete a room, from its overview.
AskGone(r) ==
  /\ SeesOf("room-overview", r) /\ Call("gone", r)
  /\ UNCHANGED <<ui, posted>>

-----------------------------------------------------------------------------
(* What awaits resume with.                                                *)

Answered(op, r) ==
  /\ BagIn(<<op, r>>, calls)
  /\ calls' = calls (-) SetToBag({<<op, r>>})

\* An error changes nothing but a notice; nor does a join from a new tab that
\* succeeds, but that openChatTab joins once more.
CallEnds(op, r) ==
  /\ Answered(op, r)
  /\ UNCHANGED <<ui, posted>>

\* openChatTab has joined.  It is called from the list of rooms, a search, an
\* overview, and after entering or creating a room, so one may always be waiting.
Joined(r) ==
  /\ Handle(OpenTab(ui, "room", r))
  /\ UNCHANGED <<calls, posted>>

\* app_required: the tab that is active now becomes the application form.
ApplicationRequired(r) ==
  /\ Answered("enter", r)
  /\ Handle(Morph(ui, "apply-room", r))
  /\ UNCHANGED posted

\* The forms go and no tab is activated; 100 ms later openChatTab is called.
Created ==
  /\ Answered("create", NoRoom)
  /\ Handle(Drop(ui, "room-creation"))
  /\ UNCHANGED posted

\* closeRoomTabs.
Gone(r) ==
  /\ Answered("gone", r)
  /\ Handle(CloseAll(ui, {t \in Slots :
       ui.tab[t].type \in {"room", "room-overview"} /\ ui.tab[t].room = r}))
  /\ UNCHANGED posted

\* render() returns a fresh node.
TemplateArrives(t, what) ==
  LET node == [ui.tab[t] EXCEPT !.node = TRUE, !.log = <<>>, !.dirty = @ /\ what # "reload"]
  IN
  /\ BagIn(<<t, what>>, ui.waiting)
  /\ Handle(Continue([Came(ui, t, what) EXCEPT !.tab[t] = node], t))
  /\ UNCHANGED <<calls, posted>>

\* render() throws, and activateTab with it.
TemplateFails(t, what) ==
  /\ BagIn(<<t, what>>, ui.waiting)
  /\ Handle(Came(ui, t, what))
  /\ UNCHANGED <<calls, posted>>

\* The data, or an error that is shown in its place.
DataArrives(t) ==
  /\ BagIn(<<t, "data">>, ui.waiting)
  /\ Handle(Finish(Came(ui, t, "data"), t))
  /\ UNCHANGED <<calls, posted>>

\* The microtask of an activation that needed no template.
Resume ==
  /\ ui.ready # <<>>
  /\ ui' = Collected(Continue([ui EXCEPT !.ready = Tail(@)], Head(ui.ready)))
  /\ UNCHANGED <<calls, posted>>

-----------------------------------------------------------------------------
(* Messages.                                                               *)

\* The connection is refused or lost; chatSocket stays.
SocketLost(k) ==
  /\ ui.sockets[k].open
  /\ Handle([ui EXCEPT !.sockets[k].open = FALSE, !.sockets[k].inbox = <<>>])
  /\ UNCHANGED <<calls, posted>>

\* Somebody posts a message; the server sends it to the sockets of the room.
Post(r) ==
  LET frame == [type |-> "chat_message", message |-> Len(posted) + 1]
      sent(socket) == IF socket.room = r /\ socket.open
                      THEN [socket EXCEPT !.inbox = Append(@, frame)] ELSE socket
  IN
  /\ Len(posted) < MaxMessages
  /\ posted' = Append(posted, r)
  /\ Handle([ui EXCEPT !.sockets = [k \in DOMAIN @ |-> sent(@[k])]])
  /\ UNCHANGED calls

\* The user posts, over whatever chatSocket is.
SendMessage ==
  /\ Sees("room") /\ ui.chatSocket # None
  /\ ui.sockets[ui.chatSocket].open
  /\ Post(ui.sockets[ui.chatSocket].room)

\* init fills a log that was never loaded; the mutated one adds to every log.
ShowAlways(tab, history) == [tab EXCEPT !.log = @ \o history, !.loaded = TRUE]

ShowHistory(tab, history) ==
  IF tab.loaded THEN tab ELSE [tab EXCEPT !.log = history, !.loaded = TRUE]

\* onmessage.
Deliver(k) ==
  LET socket == ui.sockets[k]
      frame == Head(socket.inbox)
      tab == ui.tab[socket.tab]
      written == IF frame.type = "init" THEN ShowHistory(tab, frame.history)
                 ELSE [tab EXCEPT !.log = Append(@, frame.message)]
  IN
  /\ socket.inbox # <<>>
  /\ Handle([ui EXCEPT !.sockets[k].inbox = Tail(@),
                       !.tab[socket.tab] = IF socket.bound THEN written ELSE @])
  /\ UNCHANGED <<calls, posted>>

-----------------------------------------------------------------------------

\* initApp: the page opens with the placeholder.
Init ==
  /\ ui = Collected(OpenTab(
       [tabs |-> <<>>, tab |-> [t \in Slots |-> NewTab("placeholder", NoRoom)],
        active |-> None, mounted |-> None, currentRoom |-> NoRoom,
        chatSocket |-> None, sockets |-> <<>>,
        ready |-> <<>>, waiting |-> EmptyBag],
       "placeholder", NoRoom))
  /\ calls = EmptyBag
  /\ posted = <<>>

Click ==
  \/ \E t \in ToSet(ui.tabs) : ClickTab(t)
  \/ \E step \in {1, Len(ui.tabs) - 1} : CycleTab(step)

Open ==
  \/ \E t \in ToSet(ui.tabs) : ClickClose(t)
  \/ \E type \in Pages, r \in Rooms \cup {NoRoom} : OpenPage(type, r)
  \/ StartCreation \/ CancelCreation \/ CancelApplication
  \/ \E r \in Rooms : Joined(r) \/ ApplicationRequired(r) \/ Gone(r)

Ask ==
  \/ \E r \in Rooms : AskEnter(r) \/ AskGone(r)
  \/ AskCreate \/ SendMessage

Answer ==
  \/ \E call \in BagToSet(calls) : CallEnds(call[1], call[2])
  \/ Created
  \/ \E t \in Slots, what \in {"template", "reload"} :
       TemplateArrives(t, what) \/ TemplateFails(t, what)
  \/ \E t \in Slots : DataArrives(t)

Server ==
  \/ \E r \in Rooms : Post(r)
  \/ \E k \in DOMAIN ui.sockets : SocketLost(k) \/ Deliver(k)

\* A handler runs when no other does.
Next ==
  \/ Resume
  \/ ui.ready = <<>> /\ (Ask \/ Answer \/ Server)
  \/ ui.ready = <<>> /\ MayActivate /\ Click
  \/ ui.ready = <<>> /\ MayOpen /\ Open

Spec == Init /\ [][Next]_vars
-----------------------------------------------------------------------------
(* Properties.                                                             *)

Frames ==
  [type : {"init"}, history : Seq(1 .. Len(posted))]
    \cup [type : {"chat_message"}, message : 1 .. Len(posted)]

Questions == ({"enter", "gone"} \X Rooms) \cup {<<"create", NoRoom>>}

Sockets ==
  [room : Rooms, tab : Slots, bound : BOOLEAN, open : BOOLEAN,
   since : 0 .. Len(posted), inbox : Seq(Frames)]

\* Type correctness, and the registry's: the tabs are different instances, at
\* most one of them is marked active, and every socket belongs to a room tab.
TypeOK ==
  /\ ToSet(ui.tabs) \subseteq Slots /\ IsInjective(ui.tabs)
  /\ ui.active \in ToSet(ui.tabs) \cup {None}
  /\ ui.mounted \in Slots \cup {None} /\ ui.currentRoom \in Rooms \cup {NoRoom}
  /\ ui.chatSocket \in DOMAIN ui.sockets \cup {None}
  /\ \A k \in DOMAIN ui.sockets :
       /\ ui.sockets[k] \in Sockets
       /\ ui.tab[ui.sockets[k].tab].type = "room"
  /\ \A t \in Slots :
       /\ ui.tab[t].type \in Types /\ ui.tab[t].room \in Rooms \cup {NoRoom}
       /\ {ui.tab[t].node, ui.tab[t].dirty, ui.tab[t].loaded} \subseteq BOOLEAN
       /\ ui.tab[t].log \in Seq(1 .. Len(posted))
  /\ ui.ready \in Seq(Slots) /\ IsABag(ui.waiting) /\ BagToSet(ui.waiting) \subseteq Slots \X Awaits
  /\ IsABag(calls) /\ BagToSet(calls) \subseteq Questions
  /\ posted \in Seq(Rooms) /\ Len(posted) <= MaxMessages

\* However activations overlap, there is one connection at most, chatSocket, and
\* it is one to the current room.
OneConnection ==
  /\ DOMAIN ui.sockets \subseteq {ui.chatSocket}
  /\ ui.chatSocket # None => ui.sockets[ui.chatSocket].room = ui.currentRoom

\* What the user writes goes to the room whose log is before them, even when
\* the tabs they opened were attached out of order: sendMessage takes whatever
\* chatSocket there is.
SentWhereShown ==
  ui.mounted # None /\ ui.chatSocket # None =>
    SeesOf("room", ui.sockets[ui.chatSocket].room)

\* openTab never opens a room, its overview or its applications twice, and the
\* placeholder is only there alone.
TabsUnique ==
  \A t, u \in ToSet(ui.tabs) : t # u =>
    /\ ui.tab[t].type # "placeholder"
    /\ KeyedByRoom(ui.tab[t].type) =>
         <<ui.tab[t].type, ui.tab[t].room>> # <<ui.tab[u].type, ui.tab[u].room>>

\* A chat log has messages of its room only, in order and none twice, however
\* often its tab reconnects, and none posted since its socket opened is lost.
LogsFaithful ==
  /\ \A t \in Slots : LET log == ui.tab[t].log IN
       /\ \A i \in DOMAIN log : posted[log[i]] = ui.tab[t].room
       /\ \A i, j \in DOMAIN log : i < j => log[i] < log[j]
  /\ \A k \in DOMAIN ui.sockets : LET socket == ui.sockets[k] IN
       socket.open /\ socket.bound =>
         \A m \in ToSet(HistoryOf(socket.room)) :
           \/ m <= socket.since
           \/ m \in ToSet(ui.tab[socket.tab].log)
           \/ [type |-> "chat_message", message |-> m] \in ToSet(socket.inbox)

\* An activation of t ends in this step, t has its content (the template of another
\* activation of it may have failed), and no other is under way.
Ends(t) ==
  /\ ui'.active = t /\ ui'.tab[t].node /\ Quiet(ui') /\ ~Quiet(ui)
  /\ \/ DataArrives(t) \/ Resume
     \/ \E what \in {"template", "reload"} : TemplateArrives(t, what)

\* When the activation that ends last is the active tab's, the tab shows its own
\* content, is in its own room and, if it is a chat, on a socket that writes to
\* its log, whatever other activations did in between.
LastOneShows ==
  [][\A t \in Slots : Ends(t) =>
       /\ ui'.mounted = t
       /\ ui'.currentRoom = CurrentRoom(ui'.tab[t])
       /\ ui'.tab[t].type = "room" =>
            ui'.chatSocket # None /\ ui'.sockets[ui'.chatSocket].tab = t]_vars
=============================================================================
