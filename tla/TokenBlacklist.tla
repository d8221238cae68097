--------------------------- MODULE TokenBlacklist ---------------------------
(***************************************************************************)
(* Logging in, authenticating and logging out with a JWT                   *)
(* (app/core/auth.py) over the table of revoked tokens and its background  *)
(* purge (app/core/token_blacklist.py).                                    *)
(*                                                                         *)
(* A worker is one request in flight; time passes between its awaited      *)
(* statements.  The clock counts fractions of a second, because a JWT's    *)
(* "exp" is a whole number of seconds and "now" is not.                    *)
(***************************************************************************)
EXTENDS Naturals, FiniteSets

CONSTANTS
  Tokens,          \* the tokens that may be issued, each with a jti
  Workers,         \* requests that may be in flight at once
  Cleaners,        \* bound of the model: cleanup tasks alive at once
  Lifetime,        \* ACCESS_TOKEN_EXPIRE_MINUTES, in ticks
  Second,          \* ticks in a second
  Cooldown,        \* CLEANUP_COOLDOWN_SECONDS, in ticks
  BatchSize,       \* PURGE_BATCH_SIZE
  Uptime,          \* time.monotonic() when the process starts, in ticks
  DatabaseFails,   \* whether a statement may fail
  MaxTime          \* bound of the model: the clock stops here

ASSUME BlacklistAssumption ==
  /\ Lifetime \in Nat /\ Cooldown \in Nat /\ Uptime \in Nat /\ MaxTime \in Nat
  /\ Second \in Nat \ {0} /\ BatchSize \in Nat \ {0}
  /\ DatabaseFails \in BOOLEAN

VARIABLES
  now,             \* the clock
  exp,             \* exp[t]: the instant in the token's "exp", 0 until issued
  rows,            \* revoked_tokens: the tokens that have a row
  req,             \* req[w]: the locals of the request worker w runs
  task,            \* task[c]: the locals of a _run_cleanup task
  cleaning,        \* _cleanup_in_progress
  lastCleanup,     \* _last_cleanup
  stored           \* history: tokens whose row a logout has committed

tokenVars == <<exp, rows, stored>>
cleanupVars == <<task, cleaning, lastCleanup>>
vars == <<now, exp, rows, req, task, cleaning, lastCleanup, stored>>

Idle == [op |-> "idle"]
NoTask == [at |-> "none"]

Monotonic == Uptime + now

Issued(t) == exp[t] > 0

\* A token's row carries the token's own "exp" as expires_at; the mutated test
\* deletes a row one tick early.
ExpiredSoon(t, when) == exp[t] <= when + 1

Expired(t, when) == exp[t] <= when

\* jwt.decode compares whole seconds: "exp < now" is refused.
JwtAccepts(t) == exp[t] \div Second >= now \div Second

Finish(w) == req' = [req EXCEPT ![w] = Idle]

-----------------------------------------------------------------------------
(* Requests.                                                               *)

\* jose encodes "exp" as a whole number of seconds; the mutated one does not.
AsItIs(instant) == instant

WholeSeconds(instant) == (instant \div Second) * Second

\* create_access_token.
Login(t) ==
  /\ ~Issued(t)
  /\ exp' = [exp EXCEPT ![t] = WholeSeconds(now + Lifetime)]
  /\ UNCHANGED <<now, rows, req, cleanupVars, stored>>

\* "revoked", a ghost, records whether a logout with the token had stored its
\* row when the request began.
Request(op, t) ==
  [op |-> op, token |-> t, at |-> IF op = "auth" THEN "lookup" ELSE "commit",
   found |-> FALSE, revoked |-> t \in stored]

\* authenticate_token up to is_revoked; a token that does not decode raises.
AuthDecode(w, t) ==
  /\ req[w] = Idle /\ Issued(t)
  /\ \/ JwtAccepts(t) /\ req' = [req EXCEPT ![w] = Request("auth", t)]
     \/ ~JwtAccepts(t) /\ UNCHANGED req
  /\ UNCHANGED <<now, tokenVars, cleanupVars>>

At(w, op, at) == req[w].op = op /\ req[w].at = at

\* is_revoked: the SELECT by jti (a failed one is a 500) ...
AuthLookup(w) ==
  /\ At(w, "auth", "lookup")
  /\ \/ req' = [req EXCEPT ![w].at = "decide", ![w].found = req[w].token \in rows]
     \/ DatabaseFails /\ Finish(w)
  /\ UNCHANGED <<now, tokenVars, cleanupVars>>

\* ... and, once it has answered, the comparison with the clock.
AuthRefuse(w) ==
  /\ At(w, "auth", "decide")
  /\ req[w].found /\ ~Expired(req[w].token, now)
  /\ Finish(w)
  /\ UNCHANGED <<now, tokenVars, cleanupVars>>

\* _schedule_cleanup starts a task of its own.
Schedule(c) ==
  /\ task[c] = NoTask
  /\ task' = [task EXCEPT ![c] = [at |-> "gate", cutoff |-> 0, due |-> {}]]

AuthAccept(w) ==
  /\ At(w, "auth", "decide")
  /\ \/ /\ ~req[w].found
        /\ UNCHANGED task
     \/ /\ req[w].found /\ Expired(req[w].token, now)
        /\ \E c \in Cleaners : Schedule(c)
  /\ Finish(w)
  /\ UNCHANGED <<now, tokenVars, cleaning, lastCleanup>>

\* revoke_token decodes the token, expired or not, for its jti and exp.
LogoutDecode(w, t) ==
  /\ req[w] = Idle /\ Issued(t)
  /\ req' = [req EXCEPT ![w] = Request("logout", t)]
  /\ UNCHANGED <<now, tokenVars, cleanupVars>>

\* revoke: an exception of the commit is swallowed, whatever it was.
LogoutCommit(w) ==
  LET t == req[w].token IN
  /\ At(w, "logout", "commit")
  /\ \/ /\ t \notin rows
        /\ rows' = rows \cup {t}
        /\ stored' = stored \cup {t}
     \/ /\ t \in rows \/ DatabaseFails
        /\ UNCHANGED <<rows, stored>>
  /\ Finish(w)
  /\ UNCHANGED <<now, exp, cleanupVars>>

-----------------------------------------------------------------------------
(* _run_cleanup and purge_expired.                                         *)

\* The gate tests the flag and the cooldown; the mutated one forgets the flag.
RestedOnly == Monotonic >= lastCleanup + Cooldown

MayClean == ~cleaning /\ Monotonic >= lastCleanup + Cooldown

CleanupSkip(c) ==
  /\ task[c].at = "gate" /\ ~MayClean
  /\ task' = [task EXCEPT ![c] = NoTask]
  /\ UNCHANGED <<now, tokenVars, req, cleaning, lastCleanup>>

\* The lock is never held across an await, so passing the gate is one step.
\* "due", a ghost, is what this purge has to remove.
CleanupStart(c) ==
  /\ task[c].at = "gate" /\ MayClean
  /\ cleaning' = TRUE
  /\ task' = [task EXCEPT ![c].at = "cutoff", ![c].due = {t \in rows : Expired(t, now)}]
  /\ UNCHANGED <<now, tokenVars, req, lastCleanup>>

PurgeCutoff(c) ==
  /\ task[c].at = "cutoff"
  /\ task' = [task EXCEPT ![c].at = "delete", ![c].cutoff = now]
  /\ UNCHANGED <<now, tokenVars, req, cleaning, lastCleanup>>

\* Whether a round removed so little that the loop ends; the mutated loop ends
\* after a full batch too.
OneRound(removed) == removed <= BatchSize

LastRound(removed) == removed < BatchSize

\* One round deletes up to a batch of the rows that expired by the cutoff, in
\* no given order, and commits.
PurgeBatch(c) ==
  LET old == {t \in rows : Expired(t, task[c].cutoff)} IN
  /\ task[c].at = "delete"
  /\ \E gone \in SUBSET old :
       /\ Cardinality(gone) = BatchSize \/ (gone = old /\ Cardinality(old) < BatchSize)
       /\ rows' = rows \ gone
       /\ task' = [task EXCEPT
            ![c].at = IF LastRound(Cardinality(gone)) THEN "done" ELSE "cutoff",
            ![c].due = @ \ gone]
  /\ UNCHANGED <<now, exp, stored, req, cleaning, lastCleanup>>

CleanupDone(c) ==
  /\ task[c].at = "done"
  /\ lastCleanup' = Monotonic
  /\ cleaning' = FALSE
  /\ task' = [task EXCEPT ![c] = NoTask]
  /\ UNCHANGED <<now, tokenVars, req>>

\* The "finally" of _run_cleanup; the mutated body has none.
FlagKept == TRUE

FlagAfterFailure == FALSE

\* A failed purge leaves _last_cleanup as it was.
CleanupFail(c) ==
  /\ DatabaseFails /\ task[c].at \in {"cutoff", "delete"}
  /\ cleaning' = FlagAfterFailure
  /\ task' = [task EXCEPT ![c] = NoTask]
  /\ UNCHANGED <<now, tokenVars, req, lastCleanup>>

-----------------------------------------------------------------------------

Init ==
  /\ now = 0
  /\ exp = [t \in Tokens |-> 0]
  /\ rows = {} /\ stored = {}
  /\ req = [w \in Workers |-> Idle]
  /\ task = [c \in Cleaners |-> NoTask]
  /\ cleaning = FALSE /\ lastCleanup = 0

Tick ==
  /\ now < MaxTime
  /\ now' = now + 1
  /\ UNCHANGED <<tokenVars, req, cleanupVars>>

Answering(w) == AuthLookup(w) \/ AuthRefuse(w) \/ AuthAccept(w) \/ LogoutCommit(w)

Cleanup(c) ==
  \/ CleanupSkip(c) \/ CleanupStart(c)
  \/ PurgeCutoff(c) \/ PurgeBatch(c)
  \/ CleanupDone(c) \/ CleanupFail(c)

Next ==
  \/ Tick
  \/ \E t \in Tokens : Login(t)
  \/ \E w \in Workers, t \in Tokens : AuthDecode(w, t) \/ LogoutDecode(w, t)
  \/ \E w \in Workers : Answering(w)
  \/ \E c \in Cleaners : Cleanup(c)

Spec == Init /\ [][Next]_vars

\* Time passes and the event loop resumes whatever its database answered.
FairSpec ==
  /\ Spec
  /\ WF_vars(Tick)
  /\ \A w \in Workers : WF_vars(Answering(w))
  /\ \A c \in Cleaners : WF_vars(Cleanup(c))

\* Moreover, clients go on presenting every token they were issued.
BusySpec ==
  /\ FairSpec
  /\ \A t \in Tokens : WF_vars(Login(t))
  /\ \A t \in Tokens : SF_vars(\E w \in Workers : req[w] = Idle /\ AuthDecode(w, t))

-----------------------------------------------------------------------------
(* Properties.                                                             *)

Requests ==
  [op : {"auth", "logout"}, token : Tokens, at : {"lookup", "decide", "commit"},
   found : BOOLEAN, revoked : BOOLEAN]

CleanupTasks ==
  [at : {"gate", "cutoff", "delete", "done"}, cutoff : Nat, due : SUBSET Tokens]

\* Type correctness; every "exp" is a whole number of seconds.
TypeOK ==
  /\ now \in Nat /\ now <= MaxTime
  /\ exp \in [Tokens -> Nat] /\ \A t \in Tokens : exp[t] % Second = 0
  /\ rows \subseteq Tokens /\ stored \subseteq Tokens
  /\ req \in [Workers -> Requests \cup {Idle}]
  /\ task \in [Cleaners -> CleanupTasks \cup {NoTask}]
  /\ cleaning \in BOOLEAN
  /\ lastCleanup \in Nat

\* A logged-out token is out: once a logout has stored the row, no request
\* that begins later is let in with the token before the token's own expiry,
\* although purges delete rows all the while.
RevokedRefused ==
  [][\A w \in Workers :
       AuthAccept(w) /\ req[w].revoked => exp[req[w].token] <= now]_vars

\* Purges are coalesced: the flag is up exactly while one task is purging, and
\* never are there two.
Purging == {c \in Cleaners : task[c].at \in {"cutoff", "delete", "done"}}

SingleFlight ==
  /\ cleaning <=> Purging # {}
  /\ \A c, d \in Purging : c = d

\* A purge that completes has removed every row that had expired when it
\* began, in however many batches.
PurgeIsComplete == [][\A c \in Cleaners : CleanupDone(c) => task[c].due = {}]_vars

\* No purge blocks the next one for ever: the flag keeps coming down, even if
\* the database fails, unless logouts with expired tokens for ever refill the
\* batches the purge's loop removes.
FlagComesDown ==
  \/ []<>(~cleaning)
  \/ []<><<\E w \in Workers : LogoutCommit(w)>>_vars

\* The row of an expired token is pruned.
ExpiredPruned == \A t \in Tokens : t \in rows ~> t \notin rows
=============================================================================
