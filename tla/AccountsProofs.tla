--------------------------- MODULE AccountsProofs ---------------------------
(***************************************************************************)
(* Proofs about Accounts, for every set of ids, names, formats and         *)
(* workers: its types, that it implements the directory of user names, and *)
(* that the avatar served is the one last accepted.                        *)
(***************************************************************************)
EXTENDS Accounts, TLAPS

Registrations == [op : {"register"}, at : {"commit"}, name : Names]

Edits ==
  [op : {"edit"}, user : Ids, old : Rows, new : Names \cup {None},
   file : Formats \cup {None, "bad"}, at : {"name", "avatar", "commit"}, upload : Nat]

\* r is an upload for account i.
IsUpload(r, i) == r.op = "edit" /\ r.user = i /\ r.file \in Formats

\* No name has two holders.
NamesUnique == \A i, j \in Accounts : users[i].name = users[j].name => i = j

\* An upload no other ran beside is the only one of its user: the row it loaded
\* names the avatar there is, and the file it stored is still there.
UploadsAlone ==
  \A i \in Ids : \A w \in Uploading(i) \ overlapped :
    /\ Uploading(i) = {w}
    /\ req[w].old.avatar = users[i].avatar
    /\ At(w, "commit") => files[i][req[w].file] = req[w].upload

\* Nothing has been accepted from nobody.
NobodyAccepted == \A i \in Ids \ Accounts : accepted[i] = 0

LEMMA Kinds ==
  ASSUME TypeOK, NEW w \in Workers
  PROVE  /\ req[w] \in Requests \cup {Idle}
         /\ req[w].op = "edit" => req[w] \in Edits /\ req[w] # Idle
         /\ req[w] # Idle => req[w] \in Edits \/ req[w] \in Registrations
         /\ req[w] # Idle /\ req[w].op # "register" => req[w] \in Edits
         /\ At(w, "name") \/ At(w, "avatar") => req[w] \in Edits
<1>1. req[w] \in Requests \cup {Idle}
  BY DEF TypeOK
<1>2. req[w] = Idle \/ req[w] \in Edits \/ req[w] \in Registrations
  BY <1>1 DEF Requests, Edits, Registrations
<1>3. CASE req[w] = Idle
  BY <1>1, <1>3 DEF Idle, At
<1>4. CASE req[w] \in Edits
  <2>1. req[w] # Idle
    BY <1>4 DEF Edits, Idle
  <2>. QED BY <1>1, <1>4, <2>1
<1>5. CASE req[w] \in Registrations
  <2>1. req[w].op = "register" /\ req[w].at = "commit"
    BY <1>5 DEF Registrations
  <2>. QED BY <1>1, <1>5, <2>1 DEF At
<1>. QED BY <1>2, <1>3, <1>4, <1>5

-----------------------------------------------------------------------------
(* Types.                                                                  *)

\* The absent row is none.
LEMMA NoneIsNoRow == ASSUME NEW r \in Rows PROVE r # None
BY AccountsAssumption DEF Rows, AccountsAssumption

LEMMA TypeInit == Init => TypeOK
BY AccountsAssumption DEF Init, TypeOK, Accounts, Idle, AccountsAssumption

\* A request is replaced by one of its type.
LEMMA TypeReq ==
  ASSUME TypeOK, NEW w \in Workers, NEW r \in Requests \cup {Idle},
         r.op = "edit" => r.user \in Accounts',
         req' = [req EXCEPT ![w] = r], Accounts \subseteq Accounts'
  PROVE  /\ req' \in [Workers -> Requests \cup {Idle}]
         /\ \A v \in Workers : req'[v].op = "edit" => req'[v].user \in Accounts'
         /\ tokens \subseteq Accounts'
BY DEF TypeOK

\* The steps that leave the table and the files alone.
LEMMA TypePlain ==
  ASSUME TypeOK, NEW w \in Workers, NEW r \in Requests \cup {Idle},
         r.op = "edit" => r.user \in Accounts,
         req' = [req EXCEPT ![w] = r], UNCHANGED <<users, files, tokens, uploads, accepted>>,
         overlapped' \subseteq Workers, torn' \subseteq Ids
  PROVE  TypeOK'
<1>1. Accounts' = Accounts
  BY DEF Accounts
<1>2. /\ req' \in [Workers -> Requests \cup {Idle}]
      /\ \A v \in Workers : req'[v].op = "edit" => req'[v].user \in Accounts'
      /\ tokens \subseteq Accounts'
  BY <1>1, TypeReq
<1>. QED BY <1>2 DEF TypeOK

LEMMA IdleTyped == Idle \in Requests \cup {Idle} /\ Idle.op # "edit"
BY DEF Idle

\* An edit in flight that goes on.
LEMMA MovedEdit ==
  ASSUME TypeOK, NEW w \in Workers, req[w] \in Edits, NEW at \in {"avatar", "commit"}, Goto(w, at)
  PROVE  \E r \in Edits :
           /\ req' = [req EXCEPT ![w] = r] /\ r \in Requests \cup {Idle}
           /\ r.at = at /\ r.user = req[w].user /\ r.old = req[w].old /\ r.file = req[w].file
           /\ r.op = "edit" /\ r.user \in Accounts
<1>. DEFINE r == [req[w] EXCEPT !.at = at]
<1>1. /\ r \in Edits /\ r.at = at /\ r.user = req[w].user /\ r.old = req[w].old
      /\ r.file = req[w].file /\ r.op = "edit" /\ req[w].op = "edit"
  BY DEF Edits
<1>2. req' = [req EXCEPT ![w] = r]
  BY DEF Goto, TypeOK
<1>3. Edits \subseteq Requests
  BY DEF Edits, Requests
<1>4. req[w].user \in Accounts
  BY <1>1 DEF TypeOK
<1>. HIDE DEF r
<1>. QED BY <1>1, <1>2, <1>3, <1>4

LEMMA TypeRegister ==
  ASSUME TypeOK, NEW w \in Workers,
         (\E n \in Names : RegisterCheck(w, n)) \/ RegisterCommit(w)
  PROVE  TypeOK'
<1>1. ASSUME NEW n \in Names, RegisterCheck(w, n) PROVE TypeOK'
  <2>. DEFINE r == [op |-> "register", at |-> "commit", name |-> n]
  <2>1. CASE UNCHANGED req
    BY <1>1, <2>1 DEF RegisterCheck, TypeOK, Accounts, history
  <2>2. CASE Begin(w, r)
    <3>1. r \in Requests \cup {Idle} /\ r.op # "edit"
      BY DEF Requests
    <3>2. /\ req' = [req EXCEPT ![w] = r] /\ UNCHANGED <<users, files, tokens, uploads, accepted>>
          /\ overlapped' \subseteq Workers /\ torn' \subseteq Ids
      BY <1>1, <2>2 DEF RegisterCheck, Begin, TypeOK, history
    <3>. HIDE DEF r
    <3>. QED BY <3>1, <3>2, TypePlain
  <2>. QED BY <1>1, <2>1, <2>2 DEF RegisterCheck
<1>2. CASE RegisterCommit(w)
  <2>1. req[w].name \in Names
    <3>1. req[w] \in Registrations
      <4>1. req[w].op # "edit"
        BY <1>2 DEF RegisterCommit
      <4>2. req[w] \notin Edits
        BY <4>1 DEF Edits
      <4>. QED BY <1>2, <4>2, Kinds DEF RegisterCommit, At
    <3>. QED BY <3>1 DEF Registrations
  <2>2. users' \in [Ids -> Rows \cup {None}] /\ Accounts \subseteq Accounts'
    <3>1. CASE UNCHANGED users
      BY <3>1 DEF TypeOK, Accounts
    <3>2. CASE \E i \in Ids \ Accounts : users' = [users EXCEPT ![i] = [name |-> req[w].name, avatar |-> None]]
      <4>1. [name |-> req[w].name, avatar |-> None] \in Rows
        BY <2>1 DEF Rows
      <4>. QED BY <3>2, <4>1 DEF TypeOK, Accounts
    <3>. QED BY <1>2, <3>1, <3>2 DEF RegisterCommit
  <2>3. req' = [req EXCEPT ![w] = Idle] /\ UNCHANGED <<files, tokens, uploads, history>>
    BY <1>2 DEF RegisterCommit, Finish
  <2>4. /\ req' \in [Workers -> Requests \cup {Idle}]
        /\ \A v \in Workers : req'[v].op = "edit" => req'[v].user \in Accounts'
        /\ tokens \subseteq Accounts'
    BY <2>2, <2>3, TypeReq, IdleTyped
  <2>. QED BY <2>2, <2>3, <2>4 DEF TypeOK, history
<1>. QED BY <1>1, <1>2

\* The row an edit writes.
LEMMA UpdatedRow ==
  ASSUME TypeOK, NEW w \in Workers, req[w] \in Edits
  PROVE  /\ req[w].user \in Accounts /\ users[req[w].user] \in Rows
         /\ Updated(w) \in Rows
<1>1. req[w].op = "edit" /\ req[w].user \in Ids
  BY DEF Edits
<1>2. req[w].user \in Accounts /\ users[req[w].user] \in Rows
  BY <1>1 DEF TypeOK, Accounts
<1>3. Renames(w) => req[w].new \in Names
  BY DEF Renames, Edits
<1>4. IF Renames(w) THEN req[w].new \in Names ELSE users[req[w].user].name \in Names
  BY <1>2, <1>3 DEF Rows
<1>5. users[req[w].user].avatar \in Formats \cup {None}
  BY <1>2 DEF Rows
<1>. QED BY <1>2, <1>4, <1>5 DEF Updated, Rows

LEMMA TypeLoad ==
  ASSUME TypeOK, NEW w \in Workers, NEW i \in Accounts, NEW new \in Names \cup {None},
         NEW file \in Formats \cup {None, "bad"}, EditLoad(w, i, new, file)
  PROVE  TypeOK'
<1>. DEFINE at == IF new \notin {None, users[i].name} THEN "name" ELSE "avatar"
            r == [op |-> "edit", user |-> i, old |-> users[i], new |-> new, file |-> file,
                  at |-> at, upload |-> 0]
<1>1. users[i] \in Rows /\ i \in Ids
  BY DEF Accounts, TypeOK
<1>2. r \in Requests \cup {Idle} /\ r.user \in Accounts
  <2>1. at \in {"name", "avatar", "commit"}
    OBVIOUS
  <2>. HIDE DEF at
  <2>. QED BY <1>1, <2>1 DEF Requests
<1>3. /\ req' = [req EXCEPT ![w] = r] /\ UNCHANGED <<users, files, tokens, uploads, accepted, torn>>
      /\ overlapped' \subseteq Workers
  BY DEF EditLoad, Begin, TypeOK, Uploading
<1>4. torn' \subseteq Ids
  BY <1>3 DEF TypeOK
<1>. HIDE DEF r
<1>. QED BY <1>2, <1>3, <1>4, TypePlain

\* A request that ends and leaves the table and the files alone.
LEMMA TypeFinish ==
  ASSUME TypeOK, NEW w \in Workers, Finish(w), torn' \subseteq Ids,
         UNCHANGED <<users, files, tokens, uploads, accepted, overlapped>>
  PROVE  TypeOK'
<1>1. overlapped' \subseteq Workers
  BY DEF TypeOK
<1>. QED BY <1>1, IdleTyped, TypePlain DEF Finish

LEMMA TypeMoved ==
  ASSUME TypeOK, NEW w \in Workers, req[w] \in Edits, NEW at \in {"avatar", "commit"}, Goto(w, at),
         UNCHANGED <<users, files, tokens, uploads, history>>
  PROVE  TypeOK'
<1>1. overlapped' \subseteq Workers /\ torn' \subseteq Ids /\ accepted' = accepted
  BY DEF TypeOK, history
<1>. QED BY <1>1, MovedEdit, TypePlain

LEMMA TypeStore ==
  ASSUME TypeOK, NEW w \in Workers, EditStoreAvatar(w) PROVE TypeOK'
<1>. DEFINE i == req[w].user
            old == req[w].old.avatar
            n == uploads + 1
            r == [req[w] EXCEPT !.at = "commit", !.upload = n]
<1>1. req[w] \in Edits /\ i \in Accounts /\ i \in Ids /\ n \in Nat
  <2>1. req[w] \in Edits
    BY Kinds DEF EditStoreAvatar
  <2>2. req[w].op = "edit" /\ i \in Ids
    BY <2>1 DEF Edits
  <2>. QED BY <2>1, <2>2 DEF TypeOK
<1>2. PICK left \in {files[i], Without(i, old)} :
        \/ /\ files' = [files EXCEPT ![i] = Stored(left, old, req[w].file, n)]
           /\ uploads' = n /\ Begin(w, r) /\ UNCHANGED torn
        \/ /\ files' \in {[files EXCEPT ![i] = left],
                        [files EXCEPT ![i] = Stored(left, old, req[w].file, 0)]}
           /\ Finish(w) /\ torn' = torn \cup {i} /\ UNCHANGED uploads
  BY DEF EditStoreAvatar
<1>3. left \in [Formats -> Nat]
  <2>1. files[i] \in [Formats -> Nat]
    BY <1>1 DEF TypeOK
  <2>2. Without(i, old) \in [Formats -> Nat]
    BY <2>1 DEF Without
  <2>. QED BY <2>1, <2>2
<1>4. \A m \in Nat : Stored(left, old, req[w].file, m) \in [Formats -> Nat]
  BY <1>3 DEF Stored
<1>5. Accounts' = Accounts
  BY DEF EditStoreAvatar, Accounts
<1>6. CASE /\ files' = [files EXCEPT ![i] = Stored(left, old, req[w].file, n)]
           /\ uploads' = n /\ Begin(w, r) /\ UNCHANGED torn
  <2>1. r \in Requests \cup {Idle} /\ r.user \in Accounts
    BY <1>1 DEF Edits, Requests
  <2>2. req' = [req EXCEPT ![w] = r]
    BY <1>6 DEF Begin
  <2>3. /\ req' \in [Workers -> Requests \cup {Idle}]
        /\ \A v \in Workers : req'[v].op = "edit" => req'[v].user \in Accounts'
        /\ tokens \subseteq Accounts'
    <3>. HIDE DEF r
    <3>. QED BY <1>5, <2>1, <2>2, TypeReq
  <2>4. files' \in [Ids -> [Formats -> Nat]]
    BY <1>1, <1>4, <1>6 DEF TypeOK
  <2>. QED BY <1>1, <1>6, <2>3, <2>4 DEF TypeOK, EditStoreAvatar
<1>7. CASE /\ files' \in {[files EXCEPT ![i] = left],
                        [files EXCEPT ![i] = Stored(left, old, req[w].file, 0)]}
           /\ Finish(w) /\ torn' = torn \cup {i} /\ UNCHANGED uploads
  <2>1. req' = [req EXCEPT ![w] = Idle]
    BY <1>7 DEF Finish
  <2>2. /\ req' \in [Workers -> Requests \cup {Idle}]
        /\ \A v \in Workers : req'[v].op = "edit" => req'[v].user \in Accounts'
        /\ tokens \subseteq Accounts'
    BY <1>5, <2>1, TypeReq, IdleTyped
  <2>3. files' \in [Ids -> [Formats -> Nat]]
    <3>1. PICK after \in [Formats -> Nat] : files' = [files EXCEPT ![i] = after]
      BY <1>3, <1>4, <1>7
    <3>. QED BY <1>1, <3>1 DEF TypeOK
  <2>. QED BY <1>1, <1>7, <2>2, <2>3 DEF TypeOK, EditStoreAvatar
<1>. QED BY <1>2, <1>6, <1>7

LEMMA TypeCommit ==
  ASSUME TypeOK, NEW w \in Workers, EditCommit(w) PROVE TypeOK' /\ Accounts' = Accounts
<1>. DEFINE i == req[w].user
<1>1. req[w] \in Edits
  BY Kinds DEF EditCommit
<1>2. i \in Accounts /\ i \in Ids /\ Updated(w) \in Rows /\ req[w].upload \in Nat
  BY <1>1, UpdatedRow DEF Edits
<1>3. Updated(w) # None
  BY <1>2, NoneIsNoRow
<1>4. users' = [users EXCEPT ![i] = Updated(w)] /\ req' = [req EXCEPT ![w] = Idle]
  BY DEF EditCommit, Finish
<1>5. users' \in [Ids -> Rows \cup {None}] /\ Accounts' = Accounts
  BY <1>2, <1>3, <1>4 DEF TypeOK, Accounts
<1>6. /\ req' \in [Workers -> Requests \cup {Idle}]
      /\ \A v \in Workers : req'[v].op = "edit" => req'[v].user \in Accounts'
      /\ tokens \subseteq Accounts'
  BY <1>4, <1>5, TypeReq, IdleTyped
<1>7. accepted' \in [Ids -> Nat] /\ torn' \subseteq Ids
  BY <1>2 DEF TypeOK, EditCommit
<1>. QED BY <1>5, <1>6, <1>7 DEF TypeOK, EditCommit

LEMMA TypeNext == TypeOK /\ [Next]_vars => TypeOK'
<1>. SUFFICES ASSUME TypeOK, [Next]_vars PROVE TypeOK'
  OBVIOUS
<1>1. CASE UNCHANGED vars
  BY <1>1 DEF vars, TypeOK, Accounts
<1>2. ASSUME NEW n \in Names, Login(n) PROVE TypeOK'
  BY <1>2 DEF Login, TypeOK, Accounts, Named, history
<1>3. ASSUME NEW w \in Workers, EditCheckName(w) PROVE TypeOK'
  <2>1. req[w] \in Edits
    BY <1>3, Kinds DEF EditCheckName
  <2>2. torn' \subseteq Ids
    BY <1>3 DEF EditCheckName, history, TypeOK
  <2>. QED BY <1>3, <2>1, <2>2, TypeFinish, TypeMoved DEF EditCheckName, history
<1>4. ASSUME NEW w \in Workers, EditNoAvatar(w) PROVE TypeOK'
  <2>1. req[w] \in Edits
    BY <1>4, Kinds DEF EditNoAvatar
  <2>2. torn' \subseteq Ids
    BY <1>4 DEF EditNoAvatar, history, TypeOK
  <2>. QED BY <1>4, <2>1, <2>2, TypeFinish, TypeMoved DEF EditNoAvatar, history
<1>5. ASSUME NEW w \in Workers, Abort(w) PROVE TypeOK'
  <2>1. torn' \subseteq Ids
    BY <1>5, Kinds DEF Abort, TypeOK, Edits
  <2>. QED BY <1>5, <2>1, TypeFinish DEF Abort
<1>. QED BY <1>1, <1>2, <1>3, <1>4, <1>5, TypeRegister, TypeLoad, TypeStore, TypeCommit DEF Next
-----------------------------------------------------------------------------
(* Names.                                                                  *)

holders == [n \in Names |-> Named(n)]

\* A row is written: its account bears the row's name, and no other's changes.
LEMMA RowWritten ==
  ASSUME TypeOK, NEW i \in Ids, NEW row \in Rows, users' = [users EXCEPT ![i] = row]
  PROVE  /\ Accounts' = Accounts \cup {i}
         /\ \A n \in Names : Named(n)' = IF n = row.name THEN Named(n) \cup {i} ELSE Named(n) \ {i}
         /\ users'[i] = row /\ \A j \in Accounts \ {i} : users'[j] = users[j]
<1>1. users'[i] = row /\ \A j \in Ids \ {i} : users'[j] = users[j]
  BY DEF TypeOK
<1>2. row # None
  BY NoneIsNoRow
<1>3. Accounts' = Accounts \cup {i}
  BY <1>1, <1>2 DEF Accounts
<1>4. \A n \in Names : Named(n)' = IF n = row.name THEN Named(n) \cup {i} ELSE Named(n) \ {i}
  BY <1>1, <1>3 DEF Named, Accounts
<1>. QED BY <1>1, <1>3, <1>4 DEF Accounts

\* An account the name of whose row nobody else bears keeps names unique.
LEMMA StaysUnique ==
  ASSUME TypeOK, NamesUnique, NEW i \in Ids, NEW row \in Rows, users' = [users EXCEPT ![i] = row],
         Named(row.name) \subseteq {i}
  PROVE  NamesUnique'
<1>1. /\ Accounts' = Accounts \cup {i}
      /\ users'[i] = row /\ \A j \in Accounts \ {i} : users'[j] = users[j]
  BY RowWritten
<1>2. \A j \in Accounts : users[j].name = row.name => j = i
  BY DEF Named
<1>. QED BY <1>1, <1>2 DEF NamesUnique

LEMMA SameUsers ==
  ASSUME UNCHANGED users PROVE holders' = holders /\ (NamesUnique => NamesUnique')
BY DEF holders, Named, Accounts, NamesUnique

LEMMA RegisterNames ==
  ASSUME TypeOK, NamesUnique, NEW w \in Workers, RegisterCommit(w)
  PROVE  NamesUnique' /\ [Directory!Next]_holders
<1>. DEFINE n == req[w].name
<1>1. CASE UNCHANGED users
  BY <1>1, SameUsers
<1>2. ASSUME NEW i \in Ids \ Accounts, MayBear(i, n),
             users' = [users EXCEPT ![i] = [name |-> n, avatar |-> None]]
      PROVE  NamesUnique' /\ [Directory!Next]_holders
  <2>. DEFINE row == [name |-> n, avatar |-> None]
  <2>1. n \in Names
    <3>1. req[w].op # "edit" /\ req[w] \notin Edits
      BY DEF RegisterCommit, Edits
    <3>2. req[w] \in Registrations
      BY <3>1, Kinds DEF RegisterCommit, At
    <3>. QED BY <3>2 DEF Registrations
  <2>2. row \in Rows /\ row.name = n
    BY <2>1 DEF Rows
  <2>3. users' = [users EXCEPT ![i] = row] /\ Named(n) = {} /\ Named(row.name) \subseteq {i}
    BY <1>2 DEF MayBear, Named
  <2>. HIDE DEF n, row
  <2>4. NamesUnique'
    BY <2>2, <2>3, StaysUnique
  <2>5. \A m \in Names : Named(m)' = IF m = n THEN Named(m) \cup {i} ELSE Named(m) \ {i}
    <3>1. \A m \in Names :
            Named(m)' = IF m = row.name THEN Named(m) \cup {i} ELSE Named(m) \ {i}
      BY <2>2, <2>3, RowWritten, Zenon
    <3>. QED BY <2>2, <3>1
  <2>6. \A m \in Names : i \notin Named(m)
    BY DEF Named
  <2>7. \A m \in Names : Named(m)' = IF m = n THEN {i} ELSE Named(m)
    BY <2>3, <2>5, <2>6
  <2>8. holders' = [holders EXCEPT ![n] = {i}]
    BY <2>1, <2>7 DEF holders
  <2>9. Directory!Register(i, n)
    BY <2>1, <2>3, <2>6, <2>8 DEF holders, Directory!Register, Directory!Nameless
  <2>. QED BY <2>1, <2>4, <2>9 DEF Directory!Next
<1>. QED BY <1>1, <1>2 DEF RegisterCommit

LEMMA EditNames ==
  ASSUME TypeOK, NamesUnique, NEW w \in Workers, EditCommit(w)
  PROVE  NamesUnique' /\ [Directory!Next]_holders
<1>. DEFINE i == req[w].user
            row == Updated(w)
            n == users[i].name
<1>1. req[w] \in Edits
  BY Kinds DEF EditCommit
<1>2. i \in Accounts /\ i \in Ids /\ row \in Rows /\ users[i] \in Rows
  BY <1>1, UpdatedRow DEF Edits
<1>3. n \in Names /\ row.name \in Names /\ users' = [users EXCEPT ![i] = row]
  BY <1>2 DEF Rows, EditCommit
<1>4. i \in Named(n) /\ \A m \in Names : m # n => i \notin Named(m)
  BY <1>2, <1>3 DEF Named
<1>5. Named(n) \subseteq {i}
  BY <1>2 DEF Named, NamesUnique
<1>6. row.name # n => Named(row.name) \subseteq {i}
  <2>. SUFFICES ASSUME row.name # n PROVE Named(row.name) \subseteq {i}
    OBVIOUS
  <2>1. Renames(w) /\ row.name = req[w].new
    BY DEF Updated
  <2>. QED BY <2>1 DEF EditCommit, MayBear
<1>. HIDE DEF i, row, n
<1>7. NamesUnique'
  BY <1>2, <1>3, <1>5, <1>6, StaysUnique
<1>8. \A m \in Names : Named(m)' = IF m = row.name THEN Named(m) \cup {i} ELSE Named(m) \ {i}
  BY <1>2, <1>3, RowWritten
<1>9. CASE row.name = n
  <2>1. \A m \in Names : Named(m)' = Named(m)
    BY <1>4, <1>8, <1>9
  <2>. QED BY <1>7, <2>1 DEF holders
<1>10. CASE row.name # n
  <2>1. Named(n) = {i} /\ Named(row.name) = {}
    BY <1>3, <1>4, <1>5, <1>6, <1>10
  <2>2. \A m \in Names : Named(m)' = IF m = row.name THEN {i} ELSE IF m = n THEN {} ELSE Named(m)
    BY <1>4, <1>8, <1>10, <2>1
  <2>3. holders' = [holders EXCEPT ![n] = {}, ![row.name] = {i}]
    BY <1>3, <1>10, <2>2 DEF holders
  <2>4. Directory!Rename(i, n, row.name)
    BY <1>3, <2>1, <2>3 DEF holders, Directory!Rename
  <2>. QED BY <1>2, <1>3, <1>7, <2>4 DEF Directory!Next
<1>. QED BY <1>9, <1>10

LEMMA NamesNext ==
  ASSUME TypeOK, NamesUnique, [Next]_vars PROVE NamesUnique' /\ [Directory!Next]_holders
<1>1. CASE UNCHANGED users
  BY <1>1, SameUsers
<1>2. CASE \E w \in Workers : RegisterCommit(w) \/ EditCommit(w)
  BY <1>2, RegisterNames, EditNames
<1>3. UNCHANGED users \/ \E w \in Workers : RegisterCommit(w) \/ EditCommit(w)
  BY ZenonT(40)
    DEF Next, vars, Login, RegisterCheck, EditLoad, EditCheckName, EditNoAvatar, EditStoreAvatar, Abort
<1>. QED BY <1>1, <1>2, <1>3

-----------------------------------------------------------------------------
(* Avatars.                                                                *)

AvatarsInv == UploadsAlone /\ NobodyAccepted /\ AvatarServed

\* The uploads of an account are those of the other requests, and perhaps w's.
LEMMA UploadsAfter ==
  ASSUME TypeOK, NEW w \in Workers, NEW r, req' = [req EXCEPT ![w] = r], NEW i
  PROVE  /\ \A v \in Workers : v # w => (v \in Uploading(i)' <=> v \in Uploading(i))
         /\ w \in Uploading(i)' <=> IsUpload(r, i)
         /\ w \in Uploading(i) <=> IsUpload(req[w], i)
         /\ Uploading(i) \subseteq Workers /\ Uploading(i)' \subseteq Workers
         /\ req'[w] = r /\ \A v \in Workers : v # w => req'[v] = req[v]
<1>1. req'[w] = r /\ \A v \in Workers : v # w => req'[v] = req[v]
  BY DEF TypeOK
<1>. QED BY <1>1 DEF Uploading, IsUpload

\* The uploads in flight when the request of w ends.
LEMMA UploadEnds ==
  ASSUME TypeOK, NEW w \in Workers, req' = [req EXCEPT ![w] = Idle], NEW i
  PROVE  /\ \A v \in Uploading(i)' :
              /\ v # w /\ v \in Workers /\ v \in Uploading(i) /\ req'[v] = req[v]
              /\ Uploading(i) = {v} => Uploading(i)' = {v}
         /\ \A v \in Uploading(i) \ {w} : v \in Workers /\ v \in Uploading(i)' /\ req'[v] = req[v]
<1>1. ~IsUpload(Idle, i)
  BY DEF IsUpload, Idle
<1>2. /\ \A v \in Workers : v # w => (v \in Uploading(i)' <=> v \in Uploading(i))
      /\ w \notin Uploading(i)'
      /\ Uploading(i) \subseteq Workers /\ Uploading(i)' \subseteq Workers
      /\ \A v \in Workers : v # w => req'[v] = req[v]
  BY <1>1, UploadsAfter
<1>. QED BY <1>2

\* A step of w that stores and loads no avatar: its upload, if it was one, goes
\* on towards its files, or ends; one that ends after storing leaves the account
\* torn.
LEMMA NoUpload ==
  ASSUME TypeOK, AvatarsInv, NEW w \in Workers, NEW r, req' = [req EXCEPT ![w] = r],
         UNCHANGED <<files, accepted, overlapped>>, torn \subseteq torn',
         \A i \in Ids : IsUpload(r, i) =>
           IsUpload(req[w], i) /\ r.old = req[w].old /\ r.at # "commit",
         \A i \in Ids : IsUpload(req[w], i) /\ req[w].at = "commit" => i \in torn',
         Accounts \subseteq Accounts',
         \A i \in Accounts : users'[i].avatar = users[i].avatar,
         \A i \in Accounts' \ Accounts : users'[i].avatar = None
  PROVE  AvatarsInv'
<1>1. ASSUME NEW i \in Ids, NEW v \in Uploading(i)' \ overlapped'
      PROVE  /\ Uploading(i)' = {v} /\ req'[v].old.avatar = users'[i].avatar
             /\ At(v, "commit")' => files'[i][req'[v].file] = req'[v].upload
  <2>1. v \in Uploading(i) \ overlapped /\ v \in Workers
    BY UploadsAfter
  <2>2. /\ Uploading(i) = {v} /\ req[v].old.avatar = users[i].avatar
        /\ At(v, "commit") => files[i][req[v].file] = req[v].upload
    BY <2>1 DEF AvatarsInv, UploadsAlone
  <2>3. i \in Accounts
    BY <2>1 DEF Uploading, TypeOK
  <2>4. Uploading(i)' = {v}
    BY <2>1, <2>2, UploadsAfter, ZenonT(40)
  <2>5. CASE v = w
    <3>1. req'[v] = r /\ IsUpload(r, i)
      BY <2>5, UploadsAfter, ZenonT(40)
    <3>. QED BY <2>2, <2>3, <2>4, <2>5, <3>1 DEF At
  <2>6. CASE v # w
    <3>1. req'[v] = req[v]
      BY <2>1, <2>6, UploadsAfter
    <3>. QED BY <2>2, <2>3, <2>4, <3>1 DEF At
  <2>. QED BY <2>5, <2>6
<1>2. NobodyAccepted'
  BY DEF AvatarsInv, NobodyAccepted
<1>3. ASSUME NEW i \in Accounts', i \notin torn', \A v \in Uploading(i)' : ~At(v, "commit")'
      PROVE  Served(i)' = accepted'[i]
  <2>1. CASE i \in Accounts
    <3>1. \A v \in Uploading(i) : ~At(v, "commit")
      <4>. SUFFICES ASSUME NEW v \in Uploading(i), At(v, "commit") PROVE FALSE
        OBVIOUS
      <4>1. i \in Ids /\ v \in Workers
        BY <2>1 DEF Accounts, Uploading
      <4>2. CASE v = w
        BY <1>3, <4>1, <4>2, UploadsAfter DEF At
      <4>3. CASE v # w
        <5>1. req'[v] = req[v] /\ v \in Uploading(i)'
          BY <4>1, <4>3, UploadsAfter
        <5>. QED BY <1>3, <5>1 DEF At
      <4>. QED BY <4>2, <4>3
    <3>2. i \notin torn
      BY <1>3
    <3>3. Served(i) = accepted[i]
      BY <2>1, <3>1, <3>2 DEF AvatarsInv, AvatarServed
    <3>. QED BY <2>1, <3>3 DEF Served, AvatarLink
  <2>2. CASE i \notin Accounts
    <3>1. accepted[i] = 0 /\ users'[i].avatar = None
      BY <1>3, <2>2 DEF AvatarsInv, NobodyAccepted, Accounts
    <3>. QED BY <3>1 DEF Served, AvatarLink
  <2>. QED BY <2>1, <2>2
<1>4. UploadsAlone'
  BY <1>1 DEF UploadsAlone
<1>5. AvatarServed'
  BY <1>3 DEF AvatarServed
<1>. QED BY <1>2, <1>4, <1>5 DEF AvatarsInv

\* A step that touches no account, upload or history.
LEMMA NoAvatar ==
  ASSUME TypeOK, AvatarsInv, UNCHANGED <<users, files, req, history>> PROVE AvatarsInv'
BY DEF AvatarsInv, UploadsAlone, NobodyAccepted, AvatarServed, Uploading, At, Accounts, Served,
       AvatarLink, history

LEMMA AvatarsLoad ==
  ASSUME TypeOK, AvatarsInv, NEW w \in Workers, NEW i \in Accounts, NEW new \in Names \cup {None},
         NEW file \in Formats \cup {None, "bad"}, EditLoad(w, i, new, file)
  PROVE  AvatarsInv'
<1>. DEFINE r == [op |-> "edit", user |-> i, old |-> users[i], new |-> new, file |-> file,
                  at |-> IF new \notin {None, users[i].name} THEN "name" ELSE "avatar",
                  upload |-> 0]
            rivals == Uploading(i)
<1>1. /\ req' = [req EXCEPT ![w] = r] /\ UNCHANGED <<users, files, accepted, torn>>
      /\ req[w] = Idle
      /\ overlapped' = IF file \in Formats /\ rivals # {}
                       THEN overlapped \cup rivals \cup {w} ELSE overlapped \ {w}
  BY DEF EditLoad, Begin, Free
<1>2. /\ r.op = "edit" /\ r.user = i /\ r.file = file /\ r.at # "commit" /\ r.old = users[i]
      /\ \A j : ~IsUpload(req[w], j)
      /\ \A j : IsUpload(r, j) <=> j = i /\ file \in Formats
  BY <1>1 DEF IsUpload, Idle
<1>. HIDE DEF r
<1>3. ASSUME NEW j \in Ids, NEW v \in Uploading(j)' \ overlapped'
      PROVE  /\ Uploading(j)' = {v} /\ req'[v].old.avatar = users'[j].avatar
             /\ At(v, "commit")' => files'[j][req'[v].file] = req'[v].upload
  <2>1. v \in Workers
    BY <1>1, UploadsAfter
  <2>2. CASE v = w
    <3>1. IsUpload(r, j) /\ req'[v] = r /\ w \notin Uploading(j)
      BY <1>1, <1>2, <1>3, <2>2, UploadsAfter
    <3>2. j = i /\ file \in Formats /\ rivals = {}
      BY <1>1, <1>2, <1>3, <2>2, <3>1
    <3>3. Uploading(j)' = {v}
      BY <1>1, <1>3, <2>2, <3>2, UploadsAfter, ZenonT(40)
    <3>. QED BY <1>1, <1>2, <3>1, <3>2, <3>3 DEF At
  <2>3. CASE v # w
    <3>1. v \in Uploading(j) \ overlapped /\ req'[v] = req[v]
      BY <1>1, <1>3, <2>1, <2>3, UploadsAfter
    <3>2. /\ Uploading(j) = {v} /\ req[v].old.avatar = users[j].avatar
          /\ At(v, "commit") => files[j][req[v].file] = req[v].upload
      BY <3>1 DEF AvatarsInv, UploadsAlone
    <3>3. ~IsUpload(r, j)
      BY <1>1, <1>2, <1>3, <3>1
    <3>4. Uploading(j)' = {v}
      BY <1>1, <2>1, <2>3, <3>2, <3>3, UploadsAfter, ZenonT(40)
    <3>. QED BY <1>1, <3>1, <3>2, <3>4 DEF At
  <2>. QED BY <2>2, <2>3
<1>4. NobodyAccepted'
  BY <1>1 DEF AvatarsInv, NobodyAccepted, Accounts
<1>5. ASSUME NEW j \in Accounts', j \notin torn', \A v \in Uploading(j)' : ~At(v, "commit")'
      PROVE  Served(j)' = accepted'[j]
  <2>1. \A v \in Uploading(j) : ~At(v, "commit")
    <3>. SUFFICES ASSUME NEW v \in Uploading(j), At(v, "commit") PROVE FALSE
      OBVIOUS
    <3>1. v \in Workers /\ v # w
      BY <1>1, <1>2, UploadsAfter, ZenonT(40)
    <3>2. req'[v] = req[v] /\ v \in Uploading(j)'
      BY <1>1, <3>1, UploadsAfter
    <3>. QED BY <1>5, <3>2 DEF At
  <2>2. j \in Accounts /\ j \notin torn
    BY <1>1, <1>5 DEF Accounts
  <2>3. Served(j) = accepted[j]
    BY <2>1, <2>2 DEF AvatarsInv, AvatarServed
  <2>. QED BY <1>1, <2>3 DEF Served, AvatarLink
<1>6. UploadsAlone' /\ AvatarServed'
  BY <1>3, <1>5 DEF UploadsAlone, AvatarServed
<1>. QED BY <1>4, <1>6 DEF AvatarsInv
\* The file is stored: one who stores it alone finds it there to commit.
LEMMA AvatarsStore ==
  ASSUME TypeOK, AvatarsInv, NEW w \in Workers, req[w] \in Edits, req[w].at = "avatar",
         req[w].file \in Formats, NEW n \in Nat,
         NEW left \in {files[req[w].user], Without(req[w].user, req[w].old.avatar)},
         files' = [files EXCEPT ![req[w].user] =
                     Stored(left, req[w].old.avatar, req[w].file, n)],
         Begin(w, [req[w] EXCEPT !.at = "commit", !.upload = n]),
         UNCHANGED <<users, accepted, overlapped, torn>>
  PROVE  AvatarsInv'
<1>. DEFINE r == [req[w] EXCEPT !.at = "commit", !.upload = n]
<1>0. PICK i \in Ids : i = req[w].user
  BY DEF Edits
<1>1. /\ req' = [req EXCEPT ![w] = r]
      /\ r.op = req[w].op /\ r.user = i /\ r.file = req[w].file /\ r.at = "commit"
      /\ r.old = req[w].old /\ r.upload = n /\ req[w].op = "edit"
  BY <1>0 DEF Begin, Edits
<1>2. /\ files'[i][r.file] = n /\ \A j \in Ids \ {i} : files'[j] = files[j]
  <2>1. files[i] \in [Formats -> Nat]
    BY DEF TypeOK
  <2>2. left = [f \in Formats |-> left[f]]
    BY <1>0, <2>1 DEF Without
  <2>3. Stored(left, req[w].old.avatar, r.file, n)[r.file] = n
    BY <1>1, <2>2 DEF Stored
  <2>. QED BY <1>0, <1>1, <2>3 DEF TypeOK
<1>. HIDE DEF r
<1>3. \A j : IsUpload(r, j) <=> IsUpload(req[w], j)
  BY <1>0, <1>1 DEF IsUpload
<1>4. ASSUME NEW j PROVE Uploading(j)' = Uploading(j)
  <2>1. /\ \A v \in Workers : v # w => (v \in Uploading(j)' <=> v \in Uploading(j))
        /\ w \in Uploading(j)' <=> w \in Uploading(j)
        /\ Uploading(j) \subseteq Workers /\ Uploading(j)' \subseteq Workers
    BY <1>1, <1>3, UploadsAfter
  <2>. QED BY <2>1
<1>5. w \in Uploading(i)' /\ w \in Uploading(i) /\ req'[w] = r
  BY <1>0, <1>1, <1>4, UploadsAfter DEF IsUpload
<1>6. ASSUME NEW j \in Ids, NEW v \in Uploading(j)' \ overlapped'
      PROVE  /\ Uploading(j)' = {v} /\ req'[v].old.avatar = users'[j].avatar
             /\ At(v, "commit")' => files'[j][req'[v].file] = req'[v].upload
  <2>1. /\ Uploading(j)' = {v} /\ req[v].old.avatar = users[j].avatar /\ v \in Workers
        /\ At(v, "commit") => files[j][req[v].file] = req[v].upload
    BY <1>4, <1>6 DEF AvatarsInv, UploadsAlone, Uploading
  <2>2. CASE v = w
    <3>1. j = i
      BY <1>1, <1>6, <2>2, UploadsAfter DEF IsUpload
    <3>. QED BY <1>1, <1>2, <1>5, <2>1, <2>2, <3>1
  <2>3. CASE v # w
    <3>1. req'[v] = req[v]
      BY <1>1, <2>1, <2>3, UploadsAfter
    <3>2. j # i
      BY <1>5, <2>1, <2>3
    <3>. QED BY <1>2, <2>1, <3>1, <3>2 DEF At
  <2>. QED BY <2>2, <2>3
<1>7. NobodyAccepted'
  BY DEF AvatarsInv, NobodyAccepted, Accounts
<1>8. ASSUME NEW j \in Accounts', j \notin torn', \A v \in Uploading(j)' : ~At(v, "commit")'
      PROVE  Served(j)' = accepted'[j]
  <2>1. j # i
    <3>1. At(w, "commit")'
      BY <1>1, <1>5 DEF At, Idle
    <3>. QED BY <1>5, <1>8, <3>1
  <2>2. ASSUME NEW v \in Uploading(j), At(v, "commit") PROVE FALSE
    <3>1. v \in Workers /\ v # w
      <4>1. v \in Workers
        BY <2>2 DEF Uploading
      <4>2. v # w
        BY <1>0, <2>1, <2>2 DEF Uploading
      <4>. QED BY <4>1, <4>2
    <3>2. req'[v] = req[v] /\ v \in Uploading(j)'
      BY <1>1, <1>4, <2>2, <3>1, UploadsAfter
    <3>. QED BY <1>8, <2>2, <3>2 DEF At
  <2>3. j \in Accounts /\ j \notin torn /\ j \in Ids
    BY <1>8 DEF Accounts
  <2>4. Served(j) = accepted[j]
    BY <2>2, <2>3 DEF AvatarsInv, AvatarServed
  <2>5. files'[j] = files[j]
    BY <1>2, <2>1, <2>3
  <2>. QED BY <2>4, <2>5 DEF Served, AvatarLink
<1>9. UploadsAlone' /\ AvatarServed'
  BY <1>6, <1>8 DEF UploadsAlone, AvatarServed
<1>. QED BY <1>7, <1>9 DEF AvatarsInv

\* The write fails: the account is torn, and whoever still uploads beside it was
\* overlapped.
LEMMA AvatarsLose ==
  ASSUME TypeOK, AvatarsInv, NEW w \in Workers, req[w] \in Edits, req[w].file \in Formats,
         \A j \in Ids \ {req[w].user} : files'[j] = files[j],
         Finish(w), torn' = torn \cup {req[w].user}, UNCHANGED <<users, accepted, overlapped>>
  PROVE  AvatarsInv'
<1>0. PICK i \in Ids : i = req[w].user
  BY DEF Edits
<1>1. req' = [req EXCEPT ![w] = Idle] /\ w \in Uploading(i)
  BY <1>0 DEF Finish, Edits, Uploading
<1>2. \A j : ~IsUpload(Idle, j) /\ (IsUpload(req[w], j) => j = i)
  BY <1>0 DEF IsUpload, Idle
<1>3. ASSUME NEW j \in Ids, NEW v \in Uploading(j)' \ overlapped'
      PROVE  /\ Uploading(j)' = {v} /\ req'[v].old.avatar = users'[j].avatar
             /\ At(v, "commit")' => files'[j][req'[v].file] = req'[v].upload
  <2>1. v # w /\ v \in Workers /\ v \in Uploading(j) \ overlapped /\ req'[v] = req[v]
    BY <1>1, <1>3, UploadEnds, ZenonT(40)
  <2>2. /\ Uploading(j) = {v} /\ req[v].old.avatar = users[j].avatar
        /\ At(v, "commit") => files[j][req[v].file] = req[v].upload
    BY <2>1 DEF AvatarsInv, UploadsAlone
  <2>3. j # i
    BY <1>1, <2>1, <2>2
  <2>4. Uploading(j)' = {v}
    BY <1>1, <1>3, <2>2, UploadEnds
  <2>5. files'[j] = files[j]
    BY <1>0, <2>3
  <2>. QED BY <2>1, <2>2, <2>4, <2>5 DEF At
<1>4. NobodyAccepted'
  BY DEF AvatarsInv, NobodyAccepted, Accounts
<1>5. ASSUME NEW j \in Accounts', j \notin torn', \A v \in Uploading(j)' : ~At(v, "commit")'
      PROVE  Served(j)' = accepted'[j]
  <2>1. j # i /\ j \in Accounts /\ j \notin torn /\ j \in Ids
    BY <1>0, <1>5 DEF Accounts
  <2>2. ASSUME NEW v \in Uploading(j), At(v, "commit") PROVE FALSE
    <3>1. v \in Workers /\ v # w
      BY <1>1, <1>2, <2>1, <2>2, UploadsAfter
    <3>2. req'[v] = req[v] /\ v \in Uploading(j)'
      BY <1>1, <2>2, <3>1, UploadsAfter
    <3>. QED BY <1>5, <2>2, <3>2 DEF At
  <2>3. Served(j) = accepted[j]
    BY <2>1, <2>2 DEF AvatarsInv, AvatarServed
  <2>4. files'[j] = files[j]
    BY <1>0, <2>1
  <2>. QED BY <2>3, <2>4 DEF Served, AvatarLink
<1>6. UploadsAlone' /\ AvatarServed'
  BY <1>3, <1>5 DEF UploadsAlone, AvatarServed
<1>. QED BY <1>4, <1>6 DEF AvatarsInv

\* The commit of an upload: one made alone and answered is served, another leaves
\* the account torn.
LEMMA AvatarsCommit ==
  ASSUME TypeOK, AvatarsInv, NEW w \in Workers, EditCommit(w), req[w].file \in Formats
  PROVE  AvatarsInv'
<1>0. req[w] \in Edits
  BY Kinds DEF EditCommit
<1>. PICK i \in Ids : i = req[w].user
  BY <1>0 DEF Edits
<1>1. /\ req[w] \in Edits /\ req[w].at = "commit" /\ At(w, "commit")
      /\ i \in Ids /\ i \in Accounts /\ Updated(w) \in Rows /\ w \in Uploading(i)
  <2>1. req[w] \in Edits /\ req[w].at = "commit" /\ At(w, "commit")
    BY Kinds DEF EditCommit, At
  <2>2. i \in Ids /\ i \in Accounts /\ Updated(w) \in Rows
    BY <2>1, UpdatedRow DEF Edits
  <2>3. w \in Uploading(i)
    BY <2>1 DEF Uploading, Edits
  <2>. QED BY <2>1, <2>2, <2>3
<1>2. /\ req' = [req EXCEPT ![w] = Idle] /\ users' = [users EXCEPT ![i] = Updated(w)]
      /\ \/ /\ accepted' = [accepted EXCEPT ![i] = req[w].upload]
            /\ torn' = IF w \in overlapped THEN torn \cup {i} ELSE torn \ {i}
         \/ UNCHANGED accepted /\ torn' = torn \cup {i}
      /\ UNCHANGED <<files, overlapped>>
  BY DEF EditCommit, Finish
<1>3. /\ Accounts' = Accounts /\ users'[i] = Updated(w)
      /\ \A j \in Accounts \ {i} : users'[j] = users[j]
  <2>1. /\ Accounts' = Accounts \cup {i} /\ users'[i] = Updated(w)
        /\ \A j \in Accounts \ {i} : users'[j] = users[j]
    <3>. HIDE DEF Updated
    <3>. QED BY <1>1, <1>2, RowWritten, ZenonT(40)
  <2>. QED BY <1>1, <2>1
<1>4. /\ i \notin torn' => accepted'[i] = req[w].upload
      /\ \A j \in Ids \ {i} : accepted'[j] = accepted[j]
  BY <1>1, <1>2 DEF TypeOK
<1>5. \A j : ~IsUpload(Idle, j) /\ (IsUpload(req[w], j) => j = i)
  BY DEF IsUpload, Idle
<1>6. Updated(w).avatar = IF req[w].file # req[w].old.avatar THEN req[w].file ELSE users[i].avatar
  BY DEF Updated
<1>7. ASSUME NEW j \in Ids, NEW v \in Uploading(j)' \ overlapped'
      PROVE  /\ Uploading(j)' = {v} /\ req'[v].old.avatar = users'[j].avatar
             /\ At(v, "commit")' => files'[j][req'[v].file] = req'[v].upload
  <2>1. v # w /\ v \in Workers /\ v \in Uploading(j) \ overlapped /\ req'[v] = req[v]
    BY <1>2, <1>7, UploadEnds
  <2>2. /\ Uploading(j) = {v} /\ req[v].old.avatar = users[j].avatar
        /\ At(v, "commit") => files[j][req[v].file] = req[v].upload
    BY <2>1 DEF AvatarsInv, UploadsAlone
  <2>3. j # i /\ j \in Accounts
    BY <1>1, <2>1, <2>2 DEF Uploading, TypeOK
  <2>4. Uploading(j)' = {v}
    BY <1>2, <1>7, <2>2, UploadEnds
  <2>5. users'[j] = users[j]
    BY <1>3, <2>3
  <2>. QED BY <1>2, <2>1, <2>2, <2>4, <2>5 DEF At
<1>8. NobodyAccepted'
  BY <1>1, <1>3, <1>4 DEF AvatarsInv, NobodyAccepted
<1>9. ASSUME NEW j \in Accounts', j \notin torn', \A v \in Uploading(j)' : ~At(v, "commit")'
      PROVE  Served(j)' = accepted'[j]
  <2>1. CASE j = i
    <3>1. w \notin overlapped
      BY <1>2, <1>9, <2>1
    <3>2. req[w].old.avatar = users[i].avatar /\ files[i][req[w].file] = req[w].upload
      BY <1>1, <3>1 DEF AvatarsInv, UploadsAlone
    <3>3. users'[i].avatar = req[w].file
      BY <1>3, <1>6, <3>2
    <3>4. req[w].file # None
      BY AccountsAssumption DEF AccountsAssumption
    <3>. QED BY <1>2, <1>4, <1>9, <2>1, <3>2, <3>3, <3>4 DEF Served, AvatarLink
  <2>2. CASE j # i
    <3>1. j \in Accounts /\ j \notin torn /\ j \in Ids
      BY <1>2, <1>3, <1>9, <2>2 DEF Accounts
    <3>2. ASSUME NEW v \in Uploading(j), At(v, "commit") PROVE FALSE
      <4>1. v \in Workers /\ v # w
        BY <1>2, <1>5, <2>2, <3>2, UploadsAfter
      <4>2. req'[v] = req[v] /\ v \in Uploading(j)'
        BY <1>2, <3>2, <4>1, UploadsAfter
      <4>. QED BY <1>9, <3>2, <4>2 DEF At
    <3>3. Served(j) = accepted[j]
      BY <3>1, <3>2 DEF AvatarsInv, AvatarServed
    <3>4. users'[j] = users[j] /\ accepted'[j] = accepted[j] /\ files' = files
      BY <1>2, <1>3, <1>4, <2>2, <3>1
    <3>. QED BY <3>3, <3>4 DEF Served, AvatarLink
  <2>. QED BY <2>1, <2>2
<1>10. UploadsAlone' /\ AvatarServed'
  BY <1>7, <1>9 DEF UploadsAlone, AvatarServed
<1>. QED BY <1>8, <1>10 DEF AvatarsInv
LEMMA AvatarsNext ==
  ASSUME TypeOK, AvatarsInv, [Next]_vars PROVE AvatarsInv'
<1>1. CASE UNCHANGED vars
  BY <1>1, NoAvatar DEF vars, history
<1>2. ASSUME NEW n \in Names, Login(n) PROVE AvatarsInv'
  BY <1>2, NoAvatar DEF Login
<1>3. ASSUME NEW w \in Workers, NEW n \in Names, RegisterCheck(w, n) PROVE AvatarsInv'
  <2>. DEFINE r == [op |-> "register", at |-> "commit", name |-> n]
  <2>1. CASE UNCHANGED req
    BY <1>3, <2>1, NoAvatar DEF RegisterCheck
  <2>2. CASE Begin(w, r)
    <3>1. /\ req' = [req EXCEPT ![w] = r] /\ UNCHANGED <<users, files, history>> /\ req[w] = Idle
          /\ \A i : ~IsUpload(r, i) /\ ~IsUpload(req[w], i)
      BY <1>3, <2>2 DEF RegisterCheck, Begin, Free, IsUpload, Idle
    <3>2. Accounts' = Accounts
      BY <3>1 DEF Accounts
    <3>. HIDE DEF r
    <3>. QED BY <3>1, <3>2, NoUpload DEF history
  <2>. QED BY <1>3, <2>1, <2>2 DEF RegisterCheck
<1>4. ASSUME NEW w \in Workers, RegisterCommit(w) PROVE AvatarsInv'
  <2>1. /\ req' = [req EXCEPT ![w] = Idle] /\ UNCHANGED <<files, history>>
        /\ \A i : ~IsUpload(Idle, i) /\ ~IsUpload(req[w], i)
    BY <1>4 DEF RegisterCommit, Finish, IsUpload, Idle
  <2>2. /\ Accounts \subseteq Accounts' /\ \A i \in Accounts : users'[i].avatar = users[i].avatar
        /\ \A i \in Accounts' \ Accounts : users'[i].avatar = None
    <3>1. CASE UNCHANGED users
      BY <3>1 DEF Accounts
    <3>2. ASSUME NEW i \in Ids \ Accounts,
                 users' = [users EXCEPT ![i] = [name |-> req[w].name, avatar |-> None]]
          PROVE  /\ Accounts \subseteq Accounts' /\ \A j \in Accounts : users'[j].avatar = users[j].avatar
                 /\ \A j \in Accounts' \ Accounts : users'[j].avatar = None
      <4>1. users'[i].avatar = None /\ \A j \in Ids \ {i} : users'[j] = users[j]
        BY <3>2 DEF TypeOK
      <4>. QED BY <4>1 DEF Accounts
    <3>. QED BY <1>4, <3>1, <3>2 DEF RegisterCommit
  <2>. QED BY <2>1, <2>2, NoUpload DEF history
<1>5. ASSUME NEW w \in Workers, EditCheckName(w) PROVE AvatarsInv'
  <2>1. req[w] \in Edits /\ req[w].at = "name" /\ UNCHANGED <<users, files, history>>
    BY <1>5, Kinds DEF EditCheckName, At
  <2>2. Accounts' = Accounts /\ \A i : ~IsUpload(Idle, i)
    BY <2>1 DEF Accounts, IsUpload, Idle
  <2>3. CASE Finish(w)
    BY <2>1, <2>2, <2>3, NoUpload DEF history, Finish
  <2>4. CASE Goto(w, "avatar")
    <3>1. PICK r \in Edits : /\ req' = [req EXCEPT ![w] = r] /\ r.at = "avatar"
                             /\ r.user = req[w].user /\ r.old = req[w].old /\ r.file = req[w].file
      BY <2>1, <2>4, MovedEdit
    <3>2. \A i : IsUpload(r, i) => IsUpload(req[w], i)
      BY <2>1, <3>1 DEF IsUpload, Edits
    <3>. QED BY <2>1, <2>2, <3>1, <3>2, NoUpload DEF history
  <2>. QED BY <1>5, <2>3, <2>4 DEF EditCheckName
<1>6. ASSUME NEW w \in Workers, EditNoAvatar(w) PROVE AvatarsInv'
  <2>1. /\ req[w] \in Edits /\ req[w].file \notin Formats /\ UNCHANGED <<users, files, history>>
        /\ \A i : ~IsUpload(req[w], i)
    BY <1>6, Kinds DEF EditNoAvatar, At, IsUpload
  <2>2. Accounts' = Accounts /\ \A i : ~IsUpload(Idle, i)
    BY <2>1 DEF Accounts, IsUpload, Idle
  <2>3. CASE Finish(w)
    BY <2>1, <2>2, <2>3, NoUpload DEF history, Finish
  <2>4. CASE Goto(w, "commit")
    <3>1. PICK r \in Edits : req' = [req EXCEPT ![w] = r] /\ r.file = req[w].file
      BY <2>1, <2>4, MovedEdit
    <3>2. \A i : ~IsUpload(r, i)
      BY <2>1, <3>1 DEF IsUpload
    <3>. QED BY <2>1, <2>2, <3>1, <3>2, NoUpload DEF history
  <2>. QED BY <1>6, <2>3, <2>4 DEF EditNoAvatar
<1>7. ASSUME NEW w \in Workers, EditStoreAvatar(w) PROVE AvatarsInv'
  <2>1. /\ req[w] \in Edits /\ req[w].at = "avatar" /\ req[w].file \in Formats
        /\ UNCHANGED <<users, accepted, overlapped>> /\ uploads + 1 \in Nat
    BY <1>7, Kinds DEF EditStoreAvatar, At, TypeOK
  <2>2. PICK left \in {files[req[w].user], Without(req[w].user, req[w].old.avatar)} :
          \/ /\ files' = [files EXCEPT ![req[w].user] =
                            Stored(left, req[w].old.avatar, req[w].file, uploads + 1)]
             /\ Begin(w, [req[w] EXCEPT !.at = "commit", !.upload = uploads + 1])
             /\ UNCHANGED torn
          \/ /\ files' \in {[files EXCEPT ![req[w].user] = left],
                          [files EXCEPT ![req[w].user] =
                             Stored(left, req[w].old.avatar, req[w].file, 0)]}
             /\ Finish(w) /\ torn' = torn \cup {req[w].user}
    BY <1>7 DEF EditStoreAvatar
  <2>3. \A j \in Ids \ {req[w].user} : files'[j] = files[j]
    BY <2>2 DEF TypeOK
  <2>. QED BY <2>1, <2>2, <2>3, AvatarsStore, AvatarsLose
<1>8. ASSUME NEW w \in Workers, EditCommit(w) PROVE AvatarsInv'
  <2>1. CASE req[w].file \in Formats
    BY <1>8, <2>1, AvatarsCommit
  <2>2. CASE req[w].file \notin Formats
    <3>1. req[w] \in Edits
      BY <1>8, Kinds DEF EditCommit
    <3>2. /\ req' = [req EXCEPT ![w] = Idle] /\ UNCHANGED <<files, history>>
          /\ \A i : ~IsUpload(Idle, i) /\ ~IsUpload(req[w], i)
      BY <1>8, <2>2 DEF EditCommit, Finish, history, IsUpload, Idle
    <3>3. /\ req[w].user \in Ids /\ req[w].user \in Accounts /\ Updated(w) \in Rows
          /\ users' = [users EXCEPT ![req[w].user] = Updated(w)]
      BY <1>8, <3>1, UpdatedRow DEF Edits, EditCommit
    <3>4. Updated(w).avatar = users[req[w].user].avatar
      BY <2>2 DEF Updated
    <3>5. Accounts' = Accounts
      BY <1>8, TypeCommit
    <3>6. \A i \in Accounts : users'[i].avatar = users[i].avatar
      BY <3>3, <3>4 DEF Accounts, TypeOK
    <3>. QED BY <3>2, <3>5, <3>6, NoUpload DEF history
  <2>. QED BY <2>1, <2>2
<1>9. ASSUME NEW w \in Workers, Abort(w) PROVE AvatarsInv'
  <2>1. req' = [req EXCEPT ![w] = Idle] /\ UNCHANGED <<users, files, accepted, overlapped>> /\ torn \subseteq torn'
    BY <1>9 DEF Abort, Finish
  <2>2. Accounts' = Accounts /\ \A i : ~IsUpload(Idle, i)
    BY <2>1 DEF Accounts, IsUpload, Idle
  <2>3. \A i \in Ids : IsUpload(req[w], i) /\ req[w].at = "commit" => i \in torn'
    BY <1>9 DEF Abort, IsUpload, At, Free
  <2>. QED BY <2>1, <2>2, <2>3, NoUpload
<1>. QED BY <1>1, <1>2, <1>3, <1>4, <1>5, <1>6, <1>7, <1>8, <1>9, AvatarsLoad DEF Next

-----------------------------------------------------------------------------
(* The theorems.                                                           *)

\* Every row, request and file is one of the program's, and every edit of an
\* account there is.
THEOREM Types == Spec => []TypeOK
BY TypeInit, TypeNext, PTL DEF Spec

\* Registrations and renames, checked in one statement and written in another,
\* implement the directory in which each is a single step.
THEOREM NamesHandedOut == Spec => ImplementsDirectory
<1>1. Init => NamesUnique
  BY DEF Init, NamesUnique, Accounts
<1>2. Init => Directory!Init
  BY DEF Init, Directory!Init, Named, Accounts
<1>3. TypeOK /\ NamesUnique /\ [Next]_vars => NamesUnique' /\ [Directory!Next]_holders
  BY NamesNext
<1>4. ImplementsDirectory <=> Directory!Init /\ [][Directory!Next]_holders
  BY DEF ImplementsDirectory, Directory!Spec, holders
<1>. QED BY <1>1, <1>2, <1>3, <1>4, TypeInit, TypeNext, PTL DEF Spec

\* A user whose last upload neither failed half way nor ran beside another is
\* served the one last accepted, though file and row share no transaction.
THEOREM AvatarsServed == Spec => []AvatarServed
<1>1. Init => AvatarsInv
  BY DEF Init, AvatarsInv, UploadsAlone, NobodyAccepted, AvatarServed, Uploading, Accounts, Idle
<1>2. TypeOK /\ AvatarsInv /\ [Next]_vars => AvatarsInv'
  BY AvatarsNext
<1>3. AvatarsInv => AvatarServed
  BY DEF AvatarsInv
<1>. QED BY <1>1, <1>2, <1>3, TypeInit, TypeNext, PTL DEF Spec
=============================================================================
