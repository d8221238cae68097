------------------------------ MODULE Accounts ------------------------------
(***************************************************************************)
(* Accounts: registration and login (app/chat/services/auth.py), profiles, *)
(* renaming and avatars (app/chat/services/users.py), behind the routes of *)
(* app/chat/routers/api/{auth,users,frontend}.py.                          *)
(*                                                                         *)
(* A worker is one request in flight, a coroutine with a session of its    *)
(* own; every awaited statement is a step.  Avatars are files beside the   *)
(* table, written before the commit and outside of its transaction.        *)
(*                                                                         *)
(* Left out: passwords (a login gives the right one or is refused), the    *)
(* expiry and revocation of tokens (module TokenBlacklist), and what the   *)
(* schemas refuse before the handler runs.                                 *)
(***************************************************************************)
EXTENDS Naturals, FiniteSets

CONSTANTS
  Ids,          \* bound of the model: ids the users table may hand out
  Names,        \* user names
  Formats,      \* the extensions an avatar may have
  Workers,      \* requests that may be in flight at once
  MaxUploads,   \* bound of the model: avatars ever stored
  None          \* no row, no name, no avatar

ASSUME AccountsAssumption ==
  /\ None \notin Names /\ None \notin Formats /\ "bad" \notin Formats \cup {None}
  /\ None \notin [name : Names, avatar : Formats \cup {None}]
  /\ MaxUploads \in Nat

VARIABLES
  users,        \* users[i]: the row [name, avatar] of account i, or None
  files,        \* files[i][f]: the upload in avatars/user_{i}.{f}, 0 if no file
  tokens,       \* the accounts somebody has a token of
  req,          \* req[w]: the locals of the request worker w runs
  uploads,      \* history: avatars stored so far; an upload is its number
  accepted,     \* history: accepted[i]: the upload last answered with success
  overlapped,   \* history: workers whose upload ran beside another of its user
  torn          \* history: accounts whose last upload overlapped another, failed half
                \* way or was never answered

history == <<accepted, overlapped, torn>>
vars == <<users, files, tokens, req, uploads, accepted, overlapped, torn>>

-----------------------------------------------------------------------------
(* The table, the files and the requests.                                  *)

Accounts == {i \in Ids : users[i] # None}

\* SELECT ... WHERE username = n, and the profile by name.
Named(n) == {i \in Accounts : users[i].name = n}

\* The unique key on username, checked when a row is written; the mutated
\* schema has none.
NoUniqueKey(i, n) == i \in Ids

MayBear(i, n) == Named(n) \subseteq {i}

\* The avatar a profile links to, and the upload found behind the link.
AvatarLink(i) == users[i].avatar

Served(i) == IF AvatarLink(i) = None THEN 0 ELSE files[i][AvatarLink(i)]

Idle == [op |-> "idle"]

Free(w) == req[w] = Idle

At(w, at) == req[w] # Idle /\ req[w].at = at

Begin(w, r) == req' = [req EXCEPT ![w] = r]
Goto(w, at) == req' = [req EXCEPT ![w].at = at]
Finish(w) == req' = [req EXCEPT ![w] = Idle]

\* The uploads of account i in flight.
Uploading(i) == {w \in Workers : req[w].op = "edit" /\ req[w].user = i /\ req[w].file \in Formats}

-----------------------------------------------------------------------------
(* POST /api/auth/register and /api/auth/login.                            *)

Registering == {w \in Workers : req[w].op = "register"}

\* A name with a control character is refused like one that is taken.
RegisterCheck(w, n) ==
  /\ Free(w)
  /\ \/ UNCHANGED req
     \/ /\ Named(n) = {}
        /\ Cardinality(Accounts) + Cardinality(Registering) < Cardinality(Ids)
        /\ Begin(w, [op |-> "register", at |-> "commit", name |-> n])
  /\ UNCHANGED <<users, files, tokens, uploads, history>>

\* The INSERT fails, a 500, if the name was taken since it was looked up.
RegisterCommit(w) ==
  /\ At(w, "commit") /\ req[w].op = "register"
  /\ \/ \E i \in Ids \ Accounts :
          /\ MayBear(i, req[w].name)
          /\ users' = [users EXCEPT ![i] = [name |-> req[w].name, avatar |-> None]]
     \/ Named(req[w].name) # {} /\ UNCHANGED users
  /\ Finish(w)
  /\ UNCHANGED <<files, tokens, uploads, history>>

\* The token names the account by its id, and outlives its name.
Login(n) ==
  /\ tokens' = tokens \cup Named(n)
  /\ UNCHANGED <<users, files, req, uploads, history>>

-----------------------------------------------------------------------------
(* POST /api/settings/edit: update_user_settings.                          *)

\* get_current_user loads the row that the rest of the request works with.
\* new may be None; file is None, a format, or "bad" (too large, wrong format).
EditLoad(w, i, new, file) ==
  LET rivals == Uploading(i) IN
  /\ Free(w) /\ i \in tokens
  /\ file \in Formats =>
       uploads + Cardinality({v \in Workers : req[v].op = "edit" /\ req[v].file \in Formats})
         < MaxUploads
  /\ Begin(w, [op |-> "edit", user |-> i, old |-> users[i], new |-> new, file |-> file,
               at |-> IF new \notin {None, users[i].name} THEN "name" ELSE "avatar",
               upload |-> 0])
  /\ overlapped' = IF file \in Formats /\ rivals # {}
                   THEN overlapped \cup rivals \cup {w}
                   ELSE overlapped \ {w}
  /\ UNCHANGED <<users, files, tokens, uploads, accepted, torn>>

Renames(w) == req[w].new \notin {None, req[w].old.name}

EditCheckName(w) ==
  /\ At(w, "name")
  /\ \/ Named(req[w].new) # {} /\ Finish(w)
     \/ Named(req[w].new) = {} /\ Goto(w, "avatar")
  /\ UNCHANGED <<users, files, tokens, uploads, history>>

\* No avatar: there may be nothing to change.  A bad one: the new name, set in
\* the session only, is forgotten with it.
EditNoAvatar(w) ==
  /\ At(w, "avatar") /\ req[w].file \notin Formats
  /\ IF req[w].file = None /\ Renames(w) THEN Goto(w, "commit") ELSE Finish(w)
  /\ UNCHANGED <<users, files, tokens, uploads, history>>

\* The files of account i without the one its loaded row names.
Without(i, old) == [f \in Formats |-> IF f = old THEN 0 ELSE files[i][f]]

\* The new file is written beside those left; the mutated code removes the old
\* one last, even if it is the new one.
StoreThenRemove(left, old, new, n) ==
  [f \in Formats |-> IF f = old THEN 0 ELSE IF f = new THEN n ELSE left[f]]

Stored(left, old, new, n) == [left EXCEPT ![new] = n]

\* The old file is removed, if it can be, and the new one written with no await
\* between them.  If the write fails, a 500, what there was may be gone already.
EditStoreAvatar(w) ==
  LET i == req[w].user
      old == req[w].old.avatar
      new == req[w].file
  IN
  /\ At(w, "avatar") /\ new \in Formats
  /\ \E left \in {files[i], Without(i, old)} :
       \/ /\ files' = [files EXCEPT ![i] = Stored(left, old, new, uploads + 1)]
          /\ uploads' = uploads + 1
          /\ Begin(w, [req[w] EXCEPT !.at = "commit", !.upload = uploads + 1])
          /\ UNCHANGED torn
       \/ /\ files' \in {[files EXCEPT ![i] = left],
                       [files EXCEPT ![i] = Stored(left, old, new, 0)]}
          /\ Finish(w)
          /\ torn' = torn \cup {i}
          /\ UNCHANGED uploads
  /\ UNCHANGED <<users, tokens, accepted, overlapped>>

\* The mutated code takes a name that was not sent for an empty one.
UpdatedAlways(w) ==
  [name |-> req[w].new,
   avatar |-> IF req[w].file \in Formats THEN req[w].file ELSE users[req[w].user].avatar]

\* The UPDATE has the columns whose value is not the one loaded.
Updated(w) ==
  [name |-> IF Renames(w) THEN req[w].new ELSE users[req[w].user].name,
   avatar |-> IF req[w].file \in Formats /\ req[w].file # req[w].old.avatar
              THEN req[w].file ELSE users[req[w].user].avatar]

\* The process may die between the commit and the answer.
EditCommit(w) ==
  LET i == req[w].user IN
  /\ At(w, "commit") /\ req[w].op = "edit"
  /\ Renames(w) => MayBear(i, req[w].new)
  /\ users' = [users EXCEPT ![i] = Updated(w)]
  /\ \/ req[w].file \notin Formats /\ UNCHANGED <<accepted, torn>>
     \/ /\ req[w].file \in Formats
        /\ accepted' = [accepted EXCEPT ![i] = req[w].upload]
        /\ torn' = IF w \in overlapped THEN torn \cup {i} ELSE torn \ {i}
     \/ /\ req[w].file \in Formats
        /\ torn' = torn \cup {i}
        /\ UNCHANGED accepted
  /\ Finish(w)
  /\ UNCHANGED <<files, tokens, uploads, overlapped>>

\* The commit fails (the name was taken meanwhile, the database is locked or
\* gone) or the process dies: the session is lost, the files are not.
Abort(w) ==
  /\ ~Free(w)
  /\ torn' = IF req[w].op = "edit" /\ req[w].file \in Formats /\ At(w, "commit")
             THEN torn \cup {req[w].user} ELSE torn
  /\ Finish(w)
  /\ UNCHANGED <<users, files, tokens, uploads, accepted, overlapped>>

-----------------------------------------------------------------------------

Init ==
  /\ users = [i \in Ids |-> None]
  /\ files = [i \in Ids |-> [f \in Formats |-> 0]]
  /\ tokens = {}
  /\ req = [w \in Workers |-> Idle]
  /\ uploads = 0
  /\ accepted = [i \in Ids |-> 0]
  /\ overlapped = {} /\ torn = {}

Next ==
  \/ \E n \in Names : Login(n)
  \/ \E w \in Workers :
       \/ \E n \in Names : RegisterCheck(w, n)
       \/ \E i \in Accounts, new \in Names \cup {None}, file \in Formats \cup {None, "bad"} :
            EditLoad(w, i, new, file)
       \/ RegisterCommit(w) \/ EditCheckName(w) \/ EditNoAvatar(w)
       \/ EditStoreAvatar(w) \/ EditCommit(w) \/ Abort(w)

Spec == Init /\ [][Next]_vars

-----------------------------------------------------------------------------
(* Properties.                                                             *)

Rows == [name : Names, avatar : Formats \cup {None}]

Requests ==
  [op : {"register"}, at : {"commit"}, name : Names]
    \cup
  [op : {"edit"}, user : Ids, old : Rows, new : Names \cup {None},
   file : Formats \cup {None, "bad"}, at : {"name", "avatar", "commit"}, upload : Nat]

\* Type correctness; an edit is of an account there is.
TypeOK ==
  /\ users \in [Ids -> Rows \cup {None}]
  /\ files \in [Ids -> [Formats -> Nat]]
  /\ tokens \subseteq Accounts
  /\ req \in [Workers -> Requests \cup {Idle}]
  /\ \A w \in Workers : req[w].op = "edit" => req[w].user \in Accounts
  /\ uploads \in Nat /\ accepted \in [Ids -> Nat]
  /\ overlapped \subseteq Workers /\ torn \subseteq Ids

\* Registrations and renames, checked in one statement and written in another,
\* hand out names as if each were a single step: no name has two holders,
\* however the requests interleave or fail.
Directory == INSTANCE UserDirectory
               WITH Names <- Names, Ids <- Ids, holders <- [n \in Names |-> Named(n)]
ImplementsDirectory == Directory!Spec

\* The file and the row that names it are written by no common transaction.
\* Yet a user whose last upload was answered, did not fail half way and did not
\* run beside another is served the upload last answered with success.
AvatarServed ==
  \A i \in Accounts \ torn :
    (\A w \in Uploading(i) : ~At(w, "commit")) => Served(i) = accepted[i]
=============================================================================
