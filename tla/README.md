# Verification of Chattd

Chattd is a chat server: FastAPI routes and WebSocket endpoints over an async
SQLAlchemy session per request, with a vanilla JavaScript client. This
directory holds TLA+ models of its core, the TLC configurations that check
them, and machine-checked proofs. Every definition is translated from the
code; `PROJECT.json` gives the lines.

- `tlc -config X.cfg M` checks a run (`runs` in `PROJECT.json`),
- `tlapm M.tla` checks the proofs of a module `*Proofs`.

## The system

| Part | State | Operations | Module |
|---|---|---|---|
| Sliding-window limiter, `app/core/ws_ratelimit.py` | per key, a deque of the times granted | `allow`, `status`, `quota_left`, `retry_after` | `SlidingWindowLimiter`, abstractly `IdealWindow` |
| Rooms and applications, `app/chat/services/rooms.py`, `applications.py`, `models.py` | tables chatrooms, room_memberships, room_applications; the locals of the requests in flight | create, join, leave, kick, delete, edit, apply, review | `Rooms`, abstractly `MembershipBook` |
| Authentication, `app/core/auth.py`, `token_blacklist.py` | table revoked_tokens; `_cleanup_in_progress`, `_last_cleanup`; requests and cleanup tasks in flight | log in, authenticate, log out, the purge and its batches | `TokenBlacklist` |
| Chat hub, `app/core/websockets.py`, `services/messages.py` | `active_connections`; table messages; the endpoint coroutine of each socket | handshake, history, register, receive, save, broadcast, evict, disconnect | `ChatHub` |
| Database engine and sessions, `app/core/database.py` | one session per request; SQLite by default, PostgreSQL by `DATABASE_URL`, as docs/DATABASE.md and docs/DEPLOYMENT.md advise for production (no driver of it is among the requirements) | begin, flush, commit, roll back; row locks, foreign keys, ids | the database section of `Rooms` |
| Accounts, `services/auth.py`, `services/users.py` and their routes | table users, the avatar files; the locals of the requests in flight | register, log in, rename, upload an avatar | `Accounts`, abstractly `UserDirectory` |
| CSRF, the middlewares and the pages, `app/core/csrf.py`, `routers/fe/` | the browser's two cookies, the token in each tab's page; nothing on the server | load a page, submit a form, call the API; issue, verify, refuse | `Session` |
| Frontend, `static/chat/js/` | the tab registry and its DOM, `currentRoom`, one chat socket; handlers that await | open, activate, morph, close tabs; join, create, leave rooms; send, receive | `Tabs` |
| Assembly and configuration | none | the order of the middlewares | in `Session`; constants of the other modules |
| Errors, schemas, migrations, development scripts | none | | not modelled: no state of their own |

How they interact. A REST request authenticates (one SELECT of the
blacklist), then runs a service whose awaited statements interleave with every
other request. The WebSocket endpoint authenticates once, checks its limit,
loads the room and membership once, reads the history, registers its socket
under the room's *name* in a process-wide dictionary, and from then on saves
and broadcasts messages in its own coroutine; each message re-checks
membership, the handshake's checks are never repeated. Rooms and sockets are
joined by nothing but that name: the REST services do not know of the sockets.
The limiters are called without awaiting, so they are atomic. Every request passes
the authentication middleware first and the CSRF middleware second; a page carries the
CSRF token of the cookie its request brought. The client opens
one chat socket, for the room of the tab it shows, and closes it with every tab
it activates; everything else it does is a REST request.

What is hard about it:

- every service is *check, await, act*: the row it checked may be gone,
  changed, or (SQLite) its id given to another row when it acts;
- correctness is left to unique keys, foreign keys and row locks, and the
  default database enforces no foreign keys and ignores row locks;
- a purge runs in the background beside the requests that schedule it, against
  two clocks and a JWT library that rounds;
- a broadcast iterates over a live set across awaits, while coroutines of other
  sockets add to it and remove from it;
- an avatar is a file, replaced before the commit that records it and outside its
  transaction;
- the tabs of a browser share two cookies, which any answer may replace or the
  clock remove, and each keeps the CSRF token of the moment its page was asked for;
- the client marks a tab active, awaits its template and data, and only then
  shows it and connects: what was clicked later may be ready earlier.

`PROJECT.json` lists these hazards line by line, with the properties that
cover each.

## The modules

### SlidingWindowLimiter, IdealWindow

`events[k]` is the deque, `now` the monotonic clock; each public method is an
action, and `Cleanup` is what every one does first. `granted` (all grants ever
made) and `told` (what a client was last told) are history. `IdealWindow` has
no deque: it decides from the whole log of grants, and `ImplementsIdeal` says
the deque forgets nothing that counts. Seconds are ticks, `Unit` of them in a
hundredth of a second, to which `status` rounds `reset` (`Rounded`: to the nearest,
halves to the even one); the promise of `IdealWindow` is half a unit off at most
(`Reported`).

- `WindowBound`: any `MaxEvents + 1` consecutive grants span a window.
- `HonestStatus`: a client that relies on `remaining`, or waits for `reset` and half a
  hundredth of a second more, is not refused. To wait for `reset` alone is not enough.

### Rooms, MembershipBook

A worker is one request in flight and `req[w]` its locals: the statement it is
at, the room object and row it loaded, the verdict it carries. Each SELECT is an
action and so is each commit, which applies the flush or, when a constraint
fails, nothing. Sessions do not autoflush, so nothing is written before
the commit (`create_room` flushes, but in the transaction that commits). The
constant `Backend` chooses the database:

| | SQLite | PostgreSQL |
|---|---|---|
| foreign keys, ON DELETE | not enforced (no `PRAGMA foreign_keys`) | enforced |
| `SELECT ... FOR UPDATE` | ignored | blocks updates and other locks of the rows found |
| a new id | one more than the largest present | one more than the last handed out |

`Call(w)` is the first statement of each operation, `Step(w)` the rest; `Ops`
selects the operations an instance calls. `approvals` is history. Roles are
stored but never consulted, so they are left out, with timestamps and listings.
A refusal whose wording depends on one more SELECT keeps that SELECT
(`JoinRefuse`).

- `TypeOK` includes the unique keys of the schema.
- `PrivateAdmission`: a member of a private room created it or was approved.
- `MembersHaveRooms`: no membership without its room.
- `RemovalsAuthorised`, `RoomsKeptByOwner`: who may remove a membership, or
  rename or delete a room, holds at the instant of the commit, not only when
  it was checked.
- `ApprovalsStand`: a re-application never overwrites an approval.
- `CreatorIsMember`: a room appears together with its creator's membership.
- `OneApplication`, `PendingIsOutside`: the tables agree on who is waiting.
- `ImplementsBook`: on PostgreSQL the services implement `MembershipBook`, where a
  request in flight is answered in one step, which does what its caller may do at that
  instant, or nothing. The mapping forgets applications but for approvals (`Approved`,
  of rooms that are there) and of each request's locals all but what was asked
  (`AskedFor`). The book lets in whoever was approved once: `join_room` reads the
  status in one statement and commits in another, and a rejection may come between.
  SQLite implements no such book, since it gives ids again.

### TokenBlacklist

`exp[t]` is the token's expiry, `rows` the table, `req[w]` a request, `task[c]`
a `_run_cleanup` task. The clock counts fractions of a second (`Second` ticks
each), since jose encodes and compares whole seconds while `is_revoked` compares
instants. `Monotonic` is the wall clock plus `Uptime`, the value of
`time.monotonic()` at start-up, so that the cooldown may already have passed or
not. The lock of `_run_cleanup` is never held across an await, so
testing and raising the flag are one step. Any statement may fail
(`DatabaseFails`). A failed commit in `revoke` is swallowed like a duplicate,
as in the code. The ghosts `stored`, `revoked` and `due` record what had been
stored when a request began and what a purge has to remove.

- `RevokedRefused`: once the row is stored, no later request is let in with the
  token before its expiry, although purges delete rows all the while.
- `SingleFlight`: one purge at a time, and the flag is up exactly during it.
- `PurgeIsComplete`: a purge removes everything that had expired when it began,
  in however many batches.
- `FlagComesDown` (liveness): a purge that fails does not block the next.

### Accounts, UserDirectory

A worker is again one request in flight. `users[i]` is the row of account `i`,
`files[i][f]` the upload that lies in `avatars/user_{i}.{f}`; an upload is its number.
`register_user` looks the name up and inserts it in two statements, each an action;
`update_user_settings` checks the new name, reads the file, replaces the old one and
commits the columns that differ from what it loaded (`Updated`, since the UPDATE of
SQLAlchemy has only those). Removing the old file and writing the new one is one step,
there is no await between them, but the removal may fail unnoticed, and the write with
an error. `Abort` is a failed commit, or the death of the process before it: the session
is lost, the files stay. A death after the commit is a disjunct of `EditCommit`, without
an answer. The ghosts record what the user was last told (`accepted`) and whether that
may be off (`torn`, `overlapped`). `UserDirectory` knows names only and gives or changes
one in a single step.

- `ImplementsDirectory`: the two-step checks, with the unique key behind them, hand out
  names like that directory, whatever interleaves or fails.
- `AvatarServed`: unless the last upload failed half way, was never answered or ran
  beside another of the same user, the link of the profile leads to the upload last
  answered with success. What it excepts does go wrong in the code.

### Session

One browser, whose tabs share `csrf` and `access`, the two cookies; `page[t]` is what
tab `t` shows with the token in its form or meta tag, `call[t]` its request in flight.
The server stores nothing of this, so its answer and the arrival of that answer are
one step, of any tab in any order. Of a random token all that matters is whether it is
the cookie's now (`"cookie"`), an earlier one (`"old"`) or empty. A request compares
token and cookie as it sent them. The answer to a GET that brought no cookie sets a
new one, so that two fresh tabs overtake each other; the page itself is rendered with
what the request brought. The authentication middleware is outermost: a cookie jose
cannot decode (`"dead"`: `Restart` with another key) is a 400 to everything.
Connections may break, cookies expire. What a handler finds out about names and
passwords is a choice.

- `OnlyMovedRefused`: a page's form is admitted unless the cookie changed since that
  page was asked for, the pages that repeat a form included.
- `RefusalsEnd` (liveness): a user whose login form was turned away gets it read by
  reloading and submitting again.

### ChatHub

`conns` is `active_connections`, `conn[s]` the locals of the endpoint of socket
`s`; every await is a step boundary. `open` holds the connections alive, and a
client may go at any time (`ClientCloses`). A broadcast is one step per send:
`loop.ahead` is what lies in the part of the hash table it has not walked through, and
it ends where nothing does. CPython stops an iteration over a set with `RuntimeError`
when the set's size differs from what it was; `SizeChanged` models that test. An
addition balanced by a removal passes it. The socket added takes a slot ahead of the
iteration or behind it, or it makes the set move to a larger table, after which anything
may lie ahead, sockets already met too (`Added`; `loop.moved` records it). A removal
moves nobody (`Discarded`), but a set it empties is dropped from the dictionary and the
iteration goes on over the old one (`loop.dropped`). `audience` is history: who was
registered when the message in hand was saved. The REST services are the environment,
each one step: their own interleavings are the subject of `Rooms`. Frames that change
nothing (blank, too long, rate limited, malformed) are left out; JSON that is no object,
which raises past the only `except` clause, is `ReceiveOdd`.

- `ListenersRegistered`: no disconnect or eviction forgets a live listener.
- `BroadcastReachesAll` (an action property): when `broadcast_to_room` returns, whoever
  was registered when the message was saved and is still connected has been sent it,
  whatever other coroutines and the REST services did in between, unless the set was
  moved to a larger table meanwhile. The code of the loop says nothing of this: it holds
  since nobody but the dead and the gone is removed between the save and the last send.
- `ClosedForgotten` (liveness): a socket whose client is gone leaves the
  registry, unless its endpoint failed.

### Tabs

`ui` is what the handlers of the client share: the strip (`tabs`, in DOM order)
with the tab marked `active`, the `Tab` instances (`tab`), the instance whose
content is in the page (`mounted`), `currentRoom`, `chatSocket` and the open
sockets, and the activations under way: `waiting` is the bag of those that await a
template, its reload or data, `ready` the queue of those that go on as microtasks. The
functions of the client are operators on this record, since they call each other:
`CloseTab` calls `ActivateTab` or `OpenTab`, which calls `ActivateTab`. An action
is a handler up to its first await, or what follows an await. `Continue` and
`Finish` are the code after the awaits of `activateTab`; they go by the instance
they began with, which may have left the strip since, or lost its content.
Answers to REST calls (`calls`, a bag) arrive in any order; a join may answer at any time,
as a room can be opened from lists, searches and overviews. The log of
a chat is a sequence of messages; `NewTab`, `Destroyed` and `render` decide when it
starts anew.

The server is the one the client can hope for: a socket opens at once and gets the
history and then every message. So what goes wrong here is the client's doing; what the
server does is the subject of `ChatHub`, whose history may overlap with what is
broadcast next: such a message a log would show twice. Kinds of page whose handlers do
nothing to tabs differ in three ways only (`NoCache`, `Fetching`, `TakesNull`), and
`Pages` selects those an instance opens.

- `OneConnection`: one socket at most, to the current room.
- `SentWhereShown`: what is sent goes to the room whose log is shown, or the
  chat is not shown.
- `TabsUnique`: one tab per room, per overview and per list of applications,
  and the placeholder alone.
- `LogsFaithful`: a log repeats nothing and mixes no rooms, however often its tab
  reconnects, and a connected tab loses no later message.
- `LastOneShows` (an action property): when the activation of the active tab ends
  last, its content, room and socket are all its own.

## The runs

| Run | Instance | What it shows |
|---|---|---|
| `limiter` | 2 keys, 2 events per 4 ticks, which are one hundredth, 6 ticks | the four properties of the limiter |
| `rooms_postgres` | 2 users, 2 names, 2 requests at once, 2 private rooms | admission, removal, cascade, approval and ownership, every interleaving of two requests, each as good as one step of the book |
| `rooms_sequential` | SQLite, 3 users, one request at a time | applications and memberships agree over long sequences of calls |
| `blacklist` | 2 tokens, 2 requests, 2 cleanup tasks, batches of one | revocation, singleflight, complete purges, and the flag comes down |
| `hub` | 2 sockets of one user, 2 names, 2 messages, 2 REST requests of any kind, odd frames | registration and broadcast, and clients that go are forgotten |
| `accounts` | 2 ids, 2 names, 2 formats, 2 requests, 3 uploads | names as if handed out by single steps, and the avatar served is the one accepted |
| `session` | 2 tabs, home, login and register pages | forms refused only if the cookie moved, and no user is locked out for good |
| `tabs` | 2 rooms, 2 tabs and an instance that left the strip, 2 activations at once, 1 REST call, 1 message | the six properties of the client |
| `rooms_sqlite_orphans` | SQLite | *violated*: a deleted room leaves its memberships |
| `rooms_two_applications` | PostgreSQL, 2 requests | *violated*: two applications of one user |
| `blacklist_prune` | busy clients | *violated*: the row of an expired token stays |
| `hub_eviction` | 3 sockets | *violated*: a failed broadcast evicts nobody |

Bounds, and why they are enough. `MaxId` bounds the ids a table hands out: two rooms are
what it takes for a deleted room and its successor, four memberships for the two
creators, a member and one who comes back. One application in `rooms_postgres` is
rejected and sent again; two applications are the subject of the other runs. Two
requests are enough for every check-then-act race, which is between the one that checked
and one that interferes; three users are an owner, an applicant and a bystander. In
`hub_eviction`, three sockets are the sender, a dead one and one that comes or goes.
`hub` has two, each the sender, the one that goes and the one that stays in turn, so
that all REST services, odd frames and liveness fit in one run. Two REST requests are a
delete and a create, that is, a name used again, or a kick and a new membership; they
start from a room (`Lobby`) with its member in it, and the sockets are of one user, in
several browser tabs, so that a membership that ends concerns both. `MaxMessages = 2`
lets two broadcasts overlap. An addition balanced by a removal during one iteration
needs three sockets, and is covered by the proof; the configuration with three sockets,
`MaxRequests = 0`, `SPECIFICATION Spec` and without the liveness property (11 million
states) passes too, and fails when `BroadcastReachesAll` is stated without its
exception. In `limiter` the four ticks of a hundredth make waits that are rounded up,
down and from half way. In `accounts`, three uploads are one to be replaced and two that
overlap or follow; two formats make the replaced file have the new one's name, or
another. In `session`, two tabs are what it takes to overtake; one opens the home page,
the other the register form, and both the login form, where everything ends. In `tabs`,
two tabs and two activations are what an overtaking takes, and the third instance is one
that was closed or replaced while it waited (closing several tabs at once may begin
more); one message is enough to be repeated or lost, but not to come out of order: that
part of `LogsFaithful` is left to the proof (and to `MaxMessages = 2`: 5 million states,
too many for a run, no error). `new-tab` leads to all forms, and `room-overview` is the
page that awaits twice; settings, search, user details and the list of applications,
which have the same three features in other combinations, are left to larger instances.
Ticks of half a second, tokens of one second and a cooldown of one second let tokens
expire while requests are in flight and a second purge start after the first one's
cooldown. Safety runs use symmetry over users, ids, workers, sockets, names, formats,
rooms and tab instances, none of which the definitions distinguish; the runs with
liveness use none. Deadlock is checked except in `ChatHub`, where a socket is opened
once, so the system ends when all are closed.

Fairness. `TokenBlacklist!FairSpec` is weak fairness of time and of each coroutine:
the event loop resumes whatever its database answered. `BusySpec` adds clients who
keep presenting their tokens, to be generous to the claim it refutes.
`ChatHub!FairSpec` is weak fairness of each coroutine that does not wait for its
client, and strong fairness of `Disconnect`: a client that has gone has sent finitely
many frames, so the receive that raises does come. No fairness is assumed of its
clients or of failures. `Session!FairSpec` is weak fairness of arriving answers and of
the hour after which a browser drops its access cookie, and, of the user who was
turned away, strong fairness of asking for the login page and submitting it: the
promise is made to one who tries again. `RefusalsEnd` claims something only once
`calm` holds, that is, connections, the key and the CSRF cookie last; before, any of
them could spoil every attempt.

Every property has a mutant in `PROJECT.json`: a definition of the model changed
the way a bug would change the code (a dropped guard, a forgotten reset, a loop
that ends early), with which the run fails. The mutated forms stand beside the
originals in the modules.

### Where the code and its documents disagree

1. **Orphan memberships** (`rooms_sqlite_orphans`). docs/DATABASE.md says that a
   deleted room cascades to its members. On SQLite, the default, no foreign key is
   enforced. Since ids are reused, the next room *has* those members, and a private
   one lets them in; and a creator who was a member of the deleted room gets
   CREATE_FAILED, because the unique key of the orphan row refuses theirs.
2. **Two applications** (`rooms_two_applications`). `FOR UPDATE` locks no row when
   there is none, and no unique key forbids a second application.
3. **Expired rows stay** (`blacklist_prune`). A purge is only scheduled when
   `is_revoked` meets an expired row, and from the second after expiry on
   `jwt.decode` refuses the token before the table is asked.
4. **No eviction** (`hub_eviction`). When a socket comes or goes during a broadcast,
   the loop raises `RuntimeError` and the sockets found dead are not evicted.

### Behaviour to know of, which no text of the repository contradicts or which has no run

- dev/notes/tab_system_analysis.md chose to reconnect on activation because the `init`
  frame brings what was missed. The frame comes, but `roomLoaded` (core/socket.js) is
  still true and it is ignored: after a look at another tab, a chat lacks what was
  posted meanwhile.
- A rename that loses the race for its name fails in the commit with a 500; so does
  the register form of a name already taken, whose handler then returns nothing.
- An upload that fails after the old file was removed leaves the profile without an
  avatar, or with a file no row names; so does one whose commit fails; two uploads at
  once may leave the link of either. An old file that cannot be removed stays.
- The first page a browser loads carries an empty token, so its form is refused.
- A dead access cookie is a 400 to every page, the login page too, until its hour is
  over.
- A user approved between the two status queries of `join_room` is refused as if
  pending; the owner may leave the room and still owns it; a kicked member who was
  approved may join again.
- The limiter's dictionary keeps a deque for every key it has ever seen.
- `status` rounds `reset` to hundredths, so `retry_after`, by which docs/FRONTEND.md
  tells clients to back off, may be up to 5 ms short: who comes back at once is then
  refused again.
- On SQLite a kick or leave deletes by a loaded id that may have been given to a
  newcomer meanwhile; on PostgreSQL `RemovalsAuthorised` excludes it.
- In the whole second of its expiry a logged-out token is accepted again: jose still
  accepts it, and its row no longer counts. `RevokedRefused` ends at the instant of
  expiry for this reason.
- `revoke_token` returns True when the commit failed for another reason than a
  duplicate; nothing is stored. `RevokedRefused` is about stored rows.
- A member who is kicked, or leaves, keeps hearing the room on open sockets, and a
  message of theirs between the check and the commit is still saved.
- Sockets of a deleted or renamed room hear the next room of the old name.
- When one socket registers and another is removed between two sends of a broadcast,
  CPython does not notice; had the set to move to a larger table, the broadcast may skip
  a socket, or send to one twice.
- A message saved between the history query and the registration is in neither the
  history nor a broadcast the new socket hears, or, broadcast later, in both.
- The page may show a tab that is not the active one: the activation of a tab left, or
  closed, while it waited puts its content there when it ends.
  (dev/notes/tab_refactor_tasks.md:244 expects each tab to show its own log.)
- The overview of a closed tab, when its data arrives, still sets `currentRoom`.
  `kickMember` names `state.currentRoom`, so a kick from the overview shown then goes
  to the other room. `Tabs` reaches this, with `SeesOf("room-overview", r)` and
  `currentRoom` another room.
- Activating a room's tab twice while its template is loading leaves its log empty:
  the second node is fresh and `roomLoaded` already true.
- `app_required` turns the tab that is active when it arrives into the application
  form, be it a chat.
- After a room is created its form is removed and no tab activated; when opening the
  room fails, the strip stays empty, without placeholder.
- What is sent on a socket the server has closed is lost, and nothing reconnects it.
- PostgreSQL may abort a review or a delete as a deadlock victim inside a flush; the
  model's commits are atomic, and such an abort is a commit that did nothing.

## The proofs

TLAPS proves, for every value of the constants:

| Module | Theorem | States |
|---|---|---|
| `SlidingWindowLimiterProofs` | `TypeCorrect`, `WindowBoundHolds`, `HonestStatusHolds`, `LimiterImplementsIdeal` | all four properties of the run `limiter` |
| `TokenBlacklistProofs` | `TypeCorrect`, `OnePurgeAtATime`, `LogoutHolds`, `PurgesComplete` | all safety properties of the run `blacklist` |
| `RoomsProofs` | `TypeCorrect`, `CreatorsAreMembers`, `OneApplicationEach`, `PendingOutside` | types, unique keys, creation, and both properties of `rooms_sequential`, on either database |
| `RoomsPostgresProofs` | `PrivateRoomsClosed`, `NoOrphans`, `NobodyRemovedByStrangers`, `OnlyOwnersChangeRooms`, `ApprovalsNotOverwritten`, `RoomsImplementBook` | on PostgreSQL, all properties of `rooms_postgres`, the refinement included (creation by `RoomsProofs`) |
| `ChatHubProofs` | `Types`, `Registered`, `Reaches` | all safety properties of the run `hub` |
| `AccountsProofs` | `Types`, `NamesHandedOut`, `AvatarsServed` | all three properties of `accounts`, the refinement included |
| `SessionProofs` | `Types`, `FormsAdmitted` | both safety properties of `session` |
| `TabsProofs` | `TabsTypes`, `TabsConnection`, `TabsSend`, `TabsAreUnique`, `TabsLogs`, `TabsLastOne` | all six properties of `tabs` |

**Limiter.** The invariant says that each deque is a suffix of the log of grants, that
what was cut off has expired, and that times are ordered and not in the future. From it
the deque after `Cleanup` is exactly the set `Recent` of the abstract specification, of
which the refinement follows step by step; `WindowBound` holds since a grant needs fewer
than `MaxEvents` live events; `HonestStatus` needs that what a client was told stays a
lower bound on the free slots, and that `Rounded` is off by half a unit at most
(`RoundedIsNear`). Assumed: `MaxEvents` positive (with 0, `retry_after` indexes an empty
deque).

**Blacklist.** `RevokedRefused` is not inductive. `IInv` adds: only issued tokens
have rows, so an expiry does not change (`OnlyIssued`); a stored row is there until
it has expired (`RowsOutlive`), which needs that a cutoff is never in the future
(`DueIsOld`); and a request that did not find a stored row looked after the expiry
(`MissedIsExpired`). `PurgeIsComplete` needs `SingleFlight`: nobody else removes
rows during a purge, so a short batch is the rest of what was due. Nothing is
assumed beyond `BlacklistAssumption`, that times and sizes are naturals.

**Rooms.** Types are proved for both databases: `TypeInv` adds to `TypeOK` that the
ids in use are bounded, by the sequence or by their largest (`Bounded`, whence
`NewIdIsNew`), and which locals each operation carries (`Shape`).
`RoomsPostgresProofs` assumes `Postgres`, and fails without it. It rests on one lemma,
`StepMoves`: every commit leaves what identifies a row alone (a room's owner and type,
a membership, an application's applicant) and gives new rows ids above all earlier
ones. So whatever a request loaded is, at its commit, still what the table holds under
that id, if it holds anything (`Loaded`, `LoadedStays`), and the owner or the approval
it checked still counts. `PrivateAdmission` is inductive only together with this, with
`MembersHaveRooms` (a new room must find no members waiting for its id) and with
`ApprovedByOwner` (an APPROVED row means an owner approved it).
`ApprovalsNotOverwritten` needs `LockInv`: an application about to be made pending
again is locked, and not approved. The refinement needs more of what was read
(`KnownInv`): an application names no room whose id is yet to be given, and a review
past its owner check is one by the owner of that room, if it is still there. A read
leaves `AskedFor` as it is (`ReadsGoOn`), and each commit has a lemma that it is the step
of the book its request asked for, or, the row or room it is about being gone, nothing
(`CreateInBook`, ..., `ReviewInBook`).

The last two theorems of `RoomsProofs` assume `OneAtATime`, on either database; with two
requests `OneApplication` is false, as `rooms_two_applications` shows. `SeqInv` adds
that what the one request has read is what the tables still hold (`Fresh`), that an
application's room exists or is `NoRoom`, and that room ids are positive: so no
application waits for the id of a new room, though SQLite gives ids again and leaves
memberships behind. The two properties need each other: who joins a private room has
an approved application, and by `OneApplication` no pending one.

**Chat hub.** `HubInv` adds to the properties where the endpoint of a registered
socket is (`RegisteredListen`), that every endpoint past the handshake has a name, and
one that broadcasts a message (`Named`), that sockets in `dead_sockets` are gone for
good (`DeadGone`) and that what lies ahead has been registered (`AheadKnown`).
`BroadcastReachesAll` needs two more. Whoever was registered when a message was saved is
so until its connection ends (`AudienceThere`): every removal, by the coroutine of
another socket too, must be of sockets that are gone, which is `DeadGone` for evictions.
So the audience is ahead when the iteration begins; and from then on the rest of it is
ahead or has the message (`AheadOrServed`), since what is discarded is gone and an
insertion that does not move the table takes no one away. The steps of the other sockets
are the work: `StepOf` says what a step of one socket may do to the locals and
iterations of the others and to the registry, `StepKeeps` that this keeps the invariant,
and each action has a lemma that it is such a step. `Reaches` adds that only the end of
an iteration, or an empty registry, takes an endpoint on (`CastEnds`). Assumed:
`HubAssumption`, with finitely many sockets.

**Accounts.** The refinement maps `holders` to the sets of accounts by name. Its
invariant is that a name has one holder at most; the unique key, not the earlier
SELECT, keeps it, and makes each commit a step of the directory or a stutter.
`AvatarServed` is inductive with `UploadsAlone` (a request that is not marked as
overlapped is the only upload of its account, so the row and files it loaded are the
ones there are) and `NobodyAccepted` (an id without a row has had no upload accepted).

**Session.** `SessionInv` says of each page and request alone, and of the cookie, that
if the cookie has not moved since, page or request have the cookie's token
(`GoodPage`, `GoodCall`); every answer moves the cookie for all tabs at once or for
none.

**Tabs.** The functions of the client call each other, so what is inductive is a
property of the record `ui` and not of single actions: each operator (`Drop`,
`OpenTab`, `CloseTab`, `CloseAll`, `Morph`, `ActivateTab`, `CreateChatSocket`, `Finish`,
`Continue`) has a lemma that it takes a good record to a good one, and the proof of a
handler follows its calls. A good record has `Line` (the only socket is that of a room
tab of the current room, and what is mounted beside it is a tab of that room), of which
`OneConnection` and `SentWhereShown` are consequences; `Stream` (what has yet to arrive
on the socket continues where the log of its tab ends), without which `LogsFaithful` is
not inductive; and `DataAwaited` (only tabs that fetch data wait for data).
Between a fresh template and the `Finish` of the same step the record is good but for
its socket (`Apart`). `LastOneShows` needs `LastReady`: once nothing is awaited, the last
activation that goes on is the active tab's. `Kept` and `CloseAll` recurse over
the strip; the induction over its length is one lemma (`SetInduction`), stated for a
set of numbers, which the provers can instantiate, and not for a predicate, which
they cannot. Assumed: `TabsAssumption`, that there are instances to hand out and that
`None` is not one of them.

Model-checked only: liveness (`FlagComesDown`, `ClosedForgotten`, `RefusalsEnd`), which
is out of the prover's reach.

## The plan

1. Done: the checks of all modules named above; the proofs of all safety properties
   that passing runs check; three refinements, `IdealWindow`,
   `MembershipBook` and `UserDirectory`.
2. Next to model: the limiter in front of `ChatHub`'s receive loop, as a composition;
   the settings form and the review of applications in `Tabs`.
3. Abstract specifications worth stating and proved implemented: the blacklist as a
   set of tokens that are refused until they expire; the hub as a log per room of which
   every listener hears what comes after it was registered.

## Not modelled

- HTTP rate limits: slowapi, a library in front of the handlers that only refuses.
- Password hashing and verification: a login is right or refused.
- Listings, search, profiles of others: they read and change nothing.
- Error envelopes and schemas: pure data; what they refuse never reaches a handler.
- Engine start-up, pooling and table creation; migrations, run once and offline.
- What pages look like: templates, styling, wording; the send button's cooldown.
- Development scripts that rewrite source text, and Docker files.
