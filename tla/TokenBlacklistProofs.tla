----------------------- MODULE TokenBlacklistProofs -----------------------
(***************************************************************************)
(* What the runs of MCTokenBlacklist check of the safety of TokenBlacklist, *)
(* proved for any tokens, requests, cleanup tasks, times and batch size.   *)
(***************************************************************************)
EXTENDS TokenBlacklist, TLAPS

-----------------------------------------------------------------------------
(* The inductive invariant.                                                *)

\* A token that has a row, had one, or is in a request was issued: its "exp"
\* will not change.
OnlyIssued ==
  /\ \A t \in rows \cup stored : Issued(t)
  /\ \A w \in Workers : req[w] # Idle => Issued(req[w].token)

\* A stored row stays until its token expires.
RowsOutlive == \A t \in stored : t \in rows \/ Expired(t, now)

\* A request that began after the row was stored and did not find it began, or
\* looked, after the token's expiry.
MissedIsExpired ==
  \A w \in Workers :
    /\ req[w] # Idle /\ req[w].revoked => req[w].token \in stored
    /\ At(w, "auth", "decide") /\ req[w].revoked /\ ~req[w].found =>
         Expired(req[w].token, now)

\* What a purge has to remove is still there, and expired by its cutoff.
DueIsOld ==
  \A c \in Cleaners :
    /\ task[c].at \in {"cutoff", "delete"} =>
         \A t \in task[c].due : t \in rows /\ Expired(t, now)
    /\ task[c].at = "delete" =>
         /\ task[c].cutoff <= now
         /\ \A t \in task[c].due : Expired(t, task[c].cutoff)
    /\ task[c].at = "done" => task[c].due = {}

IInv == TypeOK /\ SingleFlight /\ OnlyIssued /\ RowsOutlive /\ MissedIsExpired /\ DueIsOld

-----------------------------------------------------------------------------

\* Whole seconds: rounding an instant down gives a multiple of Second.
LEMMA WholeSecondsMultiple ==
  ASSUME NEW n \in Nat
  PROVE  WholeSeconds(n) \in Nat /\ WholeSeconds(n) % Second = 0
<1>1. Second \in Nat /\ Second > 0
  BY BlacklistAssumption
<1>2. n \div Second \in Nat
  BY <1>1
<1>. DEFINE q == n \div Second
<1>3. q \in Nat
  BY <1>2
<1>. HIDE DEF q
<1>4. q * Second \in Nat /\ (q * Second) % Second = 0
  BY <1>1, <1>3
<1>. QED BY <1>4 DEF WholeSeconds, q

-----------------------------------------------------------------------------
(* Types.                                                                  *)

\* A request that is not idle is a record of Requests, a task under way one of
\* CleanupTasks.
LEMMA Records ==
  ASSUME TypeOK
  PROVE  /\ \A w \in Workers : req[w] # Idle => req[w] \in Requests
         /\ \A w \in Workers : req[w].op # "idle" => req[w] \in Requests
         /\ \A c \in Cleaners : task[c].at # "none" => task[c] \in CleanupTasks
         /\ \A c \in Cleaners : task[c] = NoTask <=> task[c].at = "none"
BY DEF TypeOK, Requests, CleanupTasks, Idle, NoTask

\* Every step keeps the types.
LEMMA TypeStep ==
  ASSUME TypeOK, [Next]_vars
  PROVE  TypeOK'
<1>. USE DEF tokenVars, cleanupVars
<1>1. CASE UNCHANGED vars
  BY <1>1 DEF TypeOK, vars, Requests, CleanupTasks
<1>2. CASE Tick
  BY <1>2, BlacklistAssumption DEF TypeOK, Tick, Requests, CleanupTasks
<1>3. ASSUME NEW t \in Tokens, Login(t) PROVE TypeOK'
  <2>1. now + Lifetime \in Nat
    BY BlacklistAssumption DEF TypeOK
  <2>2. WholeSeconds(now + Lifetime) \in Nat /\ WholeSeconds(now + Lifetime) % Second = 0
    BY <2>1, WholeSecondsMultiple
  <2>3. exp' = [exp EXCEPT ![t] = WholeSeconds(now + Lifetime)]
    BY <1>3 DEF Login
  <2>4. exp' \in [Tokens -> Nat] /\ \A u \in Tokens : exp'[u] % Second = 0
    BY <2>2, <2>3 DEF TypeOK
  <2>. QED BY <1>3, <2>4 DEF TypeOK, Login, Requests, CleanupTasks
<1>4. ASSUME NEW w \in Workers, NEW t \in Tokens, AuthDecode(w, t) \/ LogoutDecode(w, t)
      PROVE  TypeOK'
  <2>1. Request("auth", t) \in Requests /\ Request("logout", t) \in Requests
    BY DEF Request, Requests
  <2>2. req' \in [Workers -> Requests \cup {Idle}]
    BY <1>4, <2>1 DEF TypeOK, AuthDecode, LogoutDecode
  <2>. QED BY <1>4, <2>2 DEF TypeOK, AuthDecode, LogoutDecode, CleanupTasks
<1>5. ASSUME NEW w \in Workers, Answering(w) PROVE TypeOK'
  <2>1. req[w] \in Requests
    BY <1>5, Records DEF Answering, AuthLookup, AuthRefuse, AuthAccept, LogoutCommit, At
  <2>2. req' \in [Workers -> Requests \cup {Idle}]
    BY <1>5, <2>1
    DEF TypeOK, Answering, AuthLookup, AuthRefuse, AuthAccept, LogoutCommit, Finish, Requests
  <2>3. task' \in [Cleaners -> CleanupTasks \cup {NoTask}]
    BY <1>5 DEF TypeOK, Answering, AuthLookup, AuthRefuse, AuthAccept, LogoutCommit,
                Schedule, CleanupTasks
  <2>4. rows' \subseteq Tokens /\ stored' \subseteq Tokens
    BY <1>5, <2>1
    DEF TypeOK, Answering, AuthLookup, AuthRefuse, AuthAccept, LogoutCommit, Requests
  <2>. QED
    BY <1>5, <2>2, <2>3, <2>4
    DEF TypeOK, Answering, AuthLookup, AuthRefuse, AuthAccept, LogoutCommit
<1>6. ASSUME NEW c \in Cleaners, Cleanup(c) PROVE TypeOK'
  <2>1. task[c] \in CleanupTasks
    BY <1>6, Records DEF Cleanup, CleanupSkip, CleanupStart, PurgeCutoff, PurgeBatch,
                         CleanupDone, CleanupFail
  <2>2. task' \in [Cleaners -> CleanupTasks \cup {NoTask}]
    <3>1. CASE CleanupSkip(c) \/ CleanupDone(c) \/ CleanupFail(c)
      BY <3>1 DEF TypeOK, CleanupSkip, CleanupDone, CleanupFail
    <3>2. CASE CleanupStart(c)
      <4>1. {t \in rows : Expired(t, now)} \in SUBSET Tokens
        BY DEF TypeOK
      <4>2. [task[c] EXCEPT !.at = "cutoff", !.due = {t \in rows : Expired(t, now)}]
              \in CleanupTasks
        BY <2>1, <4>1 DEF CleanupTasks
      <4>. QED BY <3>2, <4>2 DEF TypeOK, CleanupStart
    <3>3. CASE PurgeCutoff(c)
      <4>1. [task[c] EXCEPT !.at = "delete", !.cutoff = now] \in CleanupTasks
        BY <2>1 DEF TypeOK, CleanupTasks
      <4>. QED BY <3>3, <4>1 DEF TypeOK, PurgeCutoff
    <3>4. CASE PurgeBatch(c)
      <4>1. PICK gone : task' = [task EXCEPT
                           ![c].at = IF LastRound(Cardinality(gone)) THEN "done" ELSE "cutoff",
                           ![c].due = @ \ gone]
        BY <3>4 DEF PurgeBatch
      <4>2. \A at \in {"done", "cutoff"} :
              [task[c] EXCEPT !.at = at, !.due = @ \ gone] \in CleanupTasks
        BY <2>1 DEF CleanupTasks
      <4>. QED BY <4>1, <4>2 DEF TypeOK
    <3>. QED BY <1>6, <3>1, <3>2, <3>3, <3>4 DEF Cleanup
  <2>3. rows' \subseteq Tokens
    BY <1>6 DEF TypeOK, Cleanup, CleanupSkip, CleanupStart, PurgeCutoff, PurgeBatch,
                CleanupDone, CleanupFail
  <2>4. cleaning' \in BOOLEAN
    BY <1>6, ZenonT(30)
    DEF TypeOK, Cleanup, CleanupSkip, CleanupStart, PurgeCutoff, PurgeBatch,
        CleanupDone, CleanupFail, FlagAfterFailure
  <2>5. lastCleanup' \in Nat
    BY <1>6, BlacklistAssumption
    DEF TypeOK, Cleanup, CleanupSkip, CleanupStart, PurgeCutoff, PurgeBatch,
        CleanupDone, CleanupFail, Monotonic
  <2>. QED
    BY <1>6, <2>2, <2>3, <2>4, <2>5
    DEF TypeOK, Cleanup, CleanupSkip, CleanupStart, PurgeCutoff, PurgeBatch,
        CleanupDone, CleanupFail, Requests
<1>. QED BY <1>1, <1>2, <1>3, <1>4, <1>5, <1>6 DEF Next

-----------------------------------------------------------------------------
(* One purge at a time.                                                    *)

\* A step of anything but a cleanup task leaves the purges as they are.
LEMMA OthersDoNotPurge ==
  ASSUME TypeOK, SingleFlight,
         Purging' = Purging, UNCHANGED cleaning
  PROVE  SingleFlight'
BY DEF SingleFlight

\* Every step keeps the flag up for the one purge there is.
LEMMA SingleFlightStep ==
  ASSUME TypeOK, SingleFlight, [Next]_vars
  PROVE  SingleFlight'
<1>. USE DEF tokenVars, cleanupVars
<1>1. CASE UNCHANGED vars
  BY <1>1 DEF vars, SingleFlight, Purging
<1>2. CASE Tick
  BY <1>2 DEF Tick, SingleFlight, Purging
<1>3. ASSUME NEW t \in Tokens, Login(t) PROVE SingleFlight'
  BY <1>3 DEF Login, SingleFlight, Purging
<1>4. ASSUME NEW w \in Workers, NEW t \in Tokens, AuthDecode(w, t) \/ LogoutDecode(w, t)
      PROVE  SingleFlight'
  BY <1>4 DEF AuthDecode, LogoutDecode, SingleFlight, Purging
<1>5. ASSUME NEW w \in Workers, Answering(w) PROVE SingleFlight'
  <2>1. Purging' = Purging /\ UNCHANGED cleaning
    BY <1>5 DEF TypeOK, Answering, AuthLookup, AuthRefuse, AuthAccept, LogoutCommit,
                Schedule, Purging, NoTask
  <2>. QED BY <2>1, OthersDoNotPurge
<1>6. ASSUME NEW c \in Cleaners, Cleanup(c) PROVE SingleFlight'
  <2>1. CASE CleanupSkip(c)
    <3>1. Purging' = Purging /\ UNCHANGED cleaning
      BY <2>1 DEF TypeOK, CleanupSkip, Purging, NoTask
    <3>. QED BY <3>1, OthersDoNotPurge
  <2>2. CASE CleanupStart(c)
    <3>1. Purging = {}
      BY <2>2 DEF CleanupStart, MayClean, SingleFlight
    <3>2. Purging' = {c} /\ cleaning'
      BY <2>2, <3>1 DEF TypeOK, CleanupStart, Purging
    <3>. QED BY <3>2 DEF SingleFlight
  <2>3. CASE PurgeCutoff(c)
    <3>1. Purging' = Purging /\ UNCHANGED cleaning
      BY <2>3 DEF TypeOK, PurgeCutoff, Purging
    <3>. QED BY <3>1, OthersDoNotPurge
  <2>4. CASE PurgeBatch(c)
    <3>1. /\ task[c].at = "delete" /\ UNCHANGED cleaning
          /\ \A d \in Cleaners \ {c} : task'[d] = task[d]
          /\ task'[c].at \in {"done", "cutoff"}
      <4>1. PICK gone : task' = [task EXCEPT
                           ![c].at = IF LastRound(Cardinality(gone)) THEN "done" ELSE "cutoff",
                           ![c].due = @ \ gone]
        BY <2>4 DEF PurgeBatch
      <4>2. task[c] \in CleanupTasks
        BY <2>4, Records DEF PurgeBatch
      <4>3. task'[c].at \in {"done", "cutoff"}
        BY <4>1, <4>2 DEF TypeOK, CleanupTasks
      <4>. QED BY <2>4, <4>1, <4>3 DEF TypeOK, PurgeBatch
    <3>2. Purging' = Purging
      BY <3>1 DEF Purging
    <3>. QED BY <3>1, <3>2, OthersDoNotPurge
  <2>5. CASE CleanupDone(c) \/ CleanupFail(c)
    <3>1. c \in Purging
      BY <2>5 DEF CleanupDone, CleanupFail, Purging
    <3>2. Purging' = {} /\ ~cleaning'
      BY <2>5, <3>1
      DEF TypeOK, SingleFlight, CleanupDone, CleanupFail, FlagAfterFailure, Purging, NoTask
    <3>. QED BY <3>2 DEF SingleFlight
  <2>. QED BY <1>6, <2>1, <2>2, <2>3, <2>4, <2>5 DEF Cleanup
<1>. QED BY <1>1, <1>2, <1>3, <1>4, <1>5, <1>6 DEF Next

-----------------------------------------------------------------------------
(* Revocation.                                                             *)

\* An issued token's expiry does not change, and the clock goes forward.
LEMMA ExpiryStands ==
  ASSUME TypeOK, [Next]_vars
  PROVE  /\ now' \in Nat /\ now <= now'
         /\ \A t \in Tokens : Issued(t) => exp'[t] = exp[t]
         /\ \A t \in Tokens : Issued(t) => Issued(t)'
         /\ \A t \in Tokens : Issued(t) /\ Expired(t, now) => Expired(t, now)'
<1>. USE DEF tokenVars, cleanupVars
<1>1. now \in Nat /\ (now' = now \/ now' = now + 1)
  BY DEF TypeOK, Next, vars, Tick, Login, AuthDecode, LogoutDecode, Answering, AuthLookup,
         AuthRefuse, AuthAccept, LogoutCommit, Cleanup, CleanupSkip, CleanupStart,
         PurgeCutoff, PurgeBatch, CleanupDone, CleanupFail
<1>2. exp' = exp \/ \E t \in Tokens : ~Issued(t) /\ exp' = [exp EXCEPT ![t] = exp'[t]]
  <2>1. ASSUME NEW t \in Tokens, Login(t)
        PROVE  ~Issued(t) /\ exp' = [exp EXCEPT ![t] = exp'[t]]
    BY <2>1 DEF Login, TypeOK
  <2>. QED
    BY <2>1
    DEF Next, vars, Tick, AuthDecode, LogoutDecode, Answering, AuthLookup,
        AuthRefuse, AuthAccept, LogoutCommit, Cleanup, CleanupSkip, CleanupStart,
        PurgeCutoff, PurgeBatch, CleanupDone, CleanupFail
<1>3. now' \in Nat /\ now <= now'
  BY <1>1
<1>4. \A t \in Tokens : Issued(t) => exp'[t] = exp[t]
  BY <1>2 DEF TypeOK
<1>5. \A t \in Tokens : exp[t] \in Nat
  BY DEF TypeOK
<1>. QED BY <1>1, <1>3, <1>4, <1>5 DEF Issued, Expired

\* What a step does to the rows: a logout adds its token's, a purge takes
\* rows that had expired by its cutoff.
LEMMA RowsStep ==
  ASSUME TypeOK, DueIsOld, [Next]_vars
  PROVE  /\ stored \subseteq stored'
         /\ \A t \in rows' \ rows : t \in stored'
         /\ \A t \in (rows' \ rows) \cup (stored' \ stored) :
              t \in rows' /\ \E w \in Workers : req[w] # Idle /\ req[w].token = t
         /\ \A t \in rows \ rows' : Expired(t, now)
<1>. USE DEF tokenVars, cleanupVars
<1>1. ASSUME NEW w \in Workers, LogoutCommit(w)
      PROVE  /\ stored \subseteq stored' /\ rows \subseteq rows'
             /\ \A t \in rows' \ rows : t \in stored' /\ req[w] # Idle /\ req[w].token = t
             /\ \A t \in stored' \ stored : t \in rows' /\ req[w] # Idle /\ req[w].token = t
  BY <1>1 DEF LogoutCommit, At, Idle
<1>2. ASSUME NEW c \in Cleaners, PurgeBatch(c)
      PROVE  /\ stored' = stored /\ rows' \subseteq rows
             /\ \A t \in rows \ rows' : Expired(t, now)
  <2>1. task[c].cutoff \in Nat /\ task[c].cutoff <= now
    BY <1>2, Records DEF PurgeBatch, CleanupTasks, DueIsOld
  <2>2. \A t \in rows : Expired(t, task[c].cutoff) => Expired(t, now)
    BY <2>1 DEF Expired, TypeOK
  <2>3. PICK gone \in SUBSET {t \in rows : Expired(t, task[c].cutoff)} : rows' = rows \ gone
    BY <1>2 DEF PurgeBatch
  <2>. QED BY <1>2, <2>2, <2>3 DEF PurgeBatch
<1>3. \/ UNCHANGED <<rows, stored>>
      \/ \E w \in Workers : LogoutCommit(w)
      \/ \E c \in Cleaners : PurgeBatch(c)
  BY DEF Next, vars, Tick, Login, AuthDecode, LogoutDecode, Answering, AuthLookup,
         AuthRefuse, AuthAccept, Cleanup, CleanupSkip, CleanupStart,
         PurgeCutoff, CleanupDone, CleanupFail
<1>. QED BY <1>1, <1>2, <1>3

\* What a step does to a request: it begins, with "revoked" telling whether the
\* row was stored, it looks its token up, it ends, or it waits.
LEMMA RequestStep ==
  ASSUME TypeOK, [Next]_vars, NEW w \in Workers, req'[w] # Idle
  PROVE  \/ req'[w] = req[w]
         \/ \E t \in Tokens, op \in {"auth", "logout"} :
              /\ Issued(t) /\ req'[w] = Request(op, t) /\ UNCHANGED stored
         \/ /\ At(w, "auth", "lookup")
            /\ req'[w] = [req[w] EXCEPT !.at = "decide", !.found = req[w].token \in rows]
            /\ UNCHANGED stored
<1>. USE DEF tokenVars, cleanupVars
<1>1. ASSUME NEW v \in Workers, NEW t \in Tokens, AuthDecode(v, t)
      PROVE  req' = req \/ (Issued(t) /\ req' = [req EXCEPT ![v] = Request("auth", t)])
  BY <1>1 DEF AuthDecode
<1>2. ASSUME NEW v \in Workers, NEW t \in Tokens, LogoutDecode(v, t)
      PROVE  Issued(t) /\ req' = [req EXCEPT ![v] = Request("logout", t)]
  BY <1>2 DEF LogoutDecode
<1>3. ASSUME NEW v \in Workers, AuthLookup(v)
      PROVE  \/ /\ At(v, "auth", "lookup")
                /\ req' = [req EXCEPT ![v] = [req[v] EXCEPT !.at = "decide",
                                                            !.found = req[v].token \in rows]]
             \/ req' = [req EXCEPT ![v] = Idle]
  BY <1>3 DEF AuthLookup, Finish
<1>4. ASSUME NEW v \in Workers, AuthRefuse(v) \/ AuthAccept(v) \/ LogoutCommit(v)
      PROVE  req' = [req EXCEPT ![v] = Idle]
  BY <1>4 DEF AuthRefuse, AuthAccept, LogoutCommit, Finish
<1>5. \/ UNCHANGED req
      \/ \E v \in Workers, t \in Tokens : AuthDecode(v, t) \/ LogoutDecode(v, t)
      \/ \E v \in Workers : Answering(v)
  BY DEF Next, vars, Tick, Login, Cleanup, CleanupSkip, CleanupStart,
         PurgeCutoff, PurgeBatch, CleanupDone, CleanupFail
<1>6. CASE UNCHANGED req
  BY <1>6
<1>7. ASSUME NEW v \in Workers, NEW t \in Tokens, AuthDecode(v, t) \/ LogoutDecode(v, t)
      PROVE  \/ req'[w] = req[w]
             \/ \E op \in {"auth", "logout"} :
                  Issued(t) /\ req'[w] = Request(op, t) /\ UNCHANGED stored
  BY <1>1, <1>2, <1>7 DEF TypeOK, AuthDecode, LogoutDecode
<1>8. ASSUME NEW v \in Workers, Answering(v)
      PROVE  \/ req'[w] = req[w]
             \/ /\ At(w, "auth", "lookup")
                /\ req'[w] = [req[w] EXCEPT !.at = "decide", !.found = req[w].token \in rows]
                /\ UNCHANGED stored
  BY <1>3, <1>4, <1>8 DEF TypeOK, Answering, AuthLookup
<1>. QED BY <1>5, <1>6, <1>7, <1>8

\* Every step keeps the rows of the tokens that could still be presented, and
\* tells the requests that look them up.
LEMMA RevocationStep ==
  ASSUME IInv, [Next]_vars
  PROVE  OnlyIssued' /\ RowsOutlive' /\ MissedIsExpired'
<1>1. /\ TypeOK /\ OnlyIssued /\ RowsOutlive /\ MissedIsExpired /\ DueIsOld
      /\ stored \subseteq Tokens /\ rows \subseteq Tokens
  BY DEF IInv, TypeOK
<1>2. OnlyIssued'
  <2>1. \A t \in rows \cup stored : t \in Tokens /\ Issued(t)
    BY <1>1 DEF OnlyIssued
  <2>2. \A w \in Workers : req[w] # Idle => req[w].token \in Tokens /\ Issued(req[w].token)
    BY <1>1, Records DEF OnlyIssued, Requests
  <2>3. \A t \in rows' \cup stored' : Issued(t)'
    BY <2>1, <2>2, <1>1, RowsStep, ExpiryStands
  <2>4. ASSUME NEW w \in Workers, req'[w] # Idle PROVE Issued(req[w].token)'
    <3>1. \E t \in Tokens : Issued(t) /\ req'[w].token = t
      <4>1. CASE req'[w] = req[w]
        BY <2>2, <2>4, <4>1
      <4>2. ASSUME NEW t \in Tokens, NEW op \in {"auth", "logout"},
                   Issued(t), req'[w] = Request(op, t)
            PROVE  Issued(t) /\ req'[w].token = t
        BY <4>2 DEF Request
      <4>3. CASE /\ At(w, "auth", "lookup")
                 /\ req'[w] = [req[w] EXCEPT !.at = "decide", !.found = req[w].token \in rows]
        <5>1. req[w] \in Requests /\ req[w] # Idle
          BY <4>3, <1>1, Records DEF At, Idle
        <5>2. req'[w].token = req[w].token
          BY <4>3, <5>1 DEF Requests
        <5>. QED BY <2>2, <5>1, <5>2
      <4>. QED BY <2>4, <4>1, <4>2, <4>3, <1>1, RequestStep
    <3>. QED BY <3>1, <1>1, ExpiryStands
  <2>. QED BY <2>3, <2>4 DEF OnlyIssued, Idle
<1>3. RowsOutlive'
  <2>1. ASSUME NEW t \in stored', t \notin rows' PROVE Expired(t, now)'
    <3>1. t \in stored /\ Issued(t) /\ t \in Tokens
      BY <2>1, <1>1, RowsStep DEF OnlyIssued
    <3>2. Expired(t, now)
      BY <2>1, <3>1, <1>1, RowsStep DEF RowsOutlive
    <3>. QED BY <3>1, <3>2, <1>1, ExpiryStands
  <2>. QED BY <2>1 DEF RowsOutlive
<1>4. ASSUME NEW w \in Workers, req'[w] # Idle, req'[w].revoked
      PROVE  /\ req'[w].token \in stored'
             /\ req'[w].op = "auth" /\ req'[w].at = "decide" /\ ~req'[w].found =>
                  Expired(req[w].token, now)'
  <2>1. CASE req'[w] = req[w]
    <3>1. req[w] # Idle /\ req[w].revoked
      BY <1>4, <2>1
    <3>2. req[w].token \in stored /\ req[w].token \in Tokens /\ Issued(req[w].token)
      BY <3>1, <1>1 DEF MissedIsExpired, OnlyIssued
    <3>3. /\ req[w].op = "auth" /\ req[w].at = "decide" /\ ~req[w].found =>
                Expired(req[w].token, now)
      BY <3>1, <1>1 DEF MissedIsExpired, At
    <3>. QED BY <2>1, <3>2, <3>3, <1>1, RowsStep, ExpiryStands
  <2>2. ASSUME NEW t \in Tokens, NEW op \in {"auth", "logout"},
               req'[w] = Request(op, t), UNCHANGED stored
        PROVE  req'[w].token \in stored' /\ req'[w].at # "decide"
    <3>1. /\ Request(op, t).token = t /\ Request(op, t).at # "decide"
          /\ Request(op, t).revoked <=> t \in stored
      BY DEF Request
    <3>2. Request(op, t).revoked
      BY <1>4, <2>2
    <3>. QED BY <2>2, <3>1, <3>2
  <2>3. CASE /\ At(w, "auth", "lookup")
             /\ req'[w] = [req[w] EXCEPT !.at = "decide", !.found = req[w].token \in rows]
             /\ UNCHANGED stored
    <3>1. req[w] \in Requests /\ req[w] # Idle
      BY <2>3, <1>1, Records DEF At, Idle
    <3>2. /\ req'[w].token = req[w].token /\ req'[w].revoked = req[w].revoked
          /\ req'[w].found = (req[w].token \in rows)
      BY <2>3, <3>1 DEF Requests
    <3>3. req[w].token \in stored /\ req[w].token \in Tokens /\ Issued(req[w].token)
      BY <1>4, <3>1, <3>2, <1>1 DEF MissedIsExpired, OnlyIssued
    <3>4. ~req'[w].found => Expired(req[w].token, now)
      BY <3>2, <3>3, <1>1 DEF RowsOutlive
    <3>. QED BY <2>3, <3>2, <3>3, <3>4, <1>1, ExpiryStands
  <2>. QED BY <1>1, <1>4, <2>1, <2>2, <2>3, RequestStep
<1>5. MissedIsExpired'
  BY <1>4 DEF MissedIsExpired, At, Idle
<1>. QED BY <1>2, <1>3, <1>5

-----------------------------------------------------------------------------
(* Purging.                                                                *)

\* What a step of its own does to a purge: it begins with the expired rows to
\* remove, draws its cutoff, deletes, or it ends.
LEMMA BatchRemoves ==
  ASSUME IInv, NEW c \in Cleaners, PurgeBatch(c)
  PROVE  /\ UNCHANGED <<now, exp>>
         /\ \A d \in Cleaners \ {c} : task'[d] = task[d]
         /\ task'[c].due \subseteq rows' \cap task[c].due
         /\ task'[c].at = "cutoff" \/ (task'[c].at = "done" /\ task'[c].due = {})
<1>. DEFINE old == {t \in rows : Expired(t, task[c].cutoff)}
<1>1. TypeOK /\ DueIsOld /\ BatchSize \in Nat
  BY BlacklistAssumption DEF IInv
<1>2. task[c] \in CleanupTasks /\ task[c].at = "delete"
  BY <1>1, Records DEF PurgeBatch
<1>3. task[c].due \subseteq old
  BY <1>1, <1>2 DEF DueIsOld
<1>4. PICK gone \in SUBSET old :
        /\ Cardinality(gone) = BatchSize \/ (gone = old /\ Cardinality(old) < BatchSize)
        /\ rows' = rows \ gone
        /\ task' = [task EXCEPT
                      ![c].at = IF LastRound(Cardinality(gone)) THEN "done" ELSE "cutoff",
                      ![c].due = @ \ gone]
  BY DEF PurgeBatch
<1>5. LastRound(Cardinality(gone)) => gone = old
  BY <1>1, <1>4 DEF LastRound
<1>. HIDE DEF old
<1>6. /\ task'[c].at = IF LastRound(Cardinality(gone)) THEN "done" ELSE "cutoff"
      /\ task'[c].due = task[c].due \ gone
      /\ \A d \in Cleaners \ {c} : task'[d] = task[d]
  BY <1>1, <1>2, <1>4 DEF TypeOK, CleanupTasks
<1>7. UNCHANGED <<now, exp>>
  BY DEF PurgeBatch
<1>8. task[c].due \subseteq rows
  BY <1>3 DEF old
<1>. QED BY <1>3, <1>4, <1>5, <1>6, <1>7, <1>8

\* Every step keeps what a purge has to remove old enough to be removed.
LEMMA PurgeStep ==
  ASSUME IInv, [Next]_vars
  PROVE  DueIsOld'
<1>. USE DEF tokenVars, cleanupVars
<1>1. /\ TypeOK /\ SingleFlight /\ OnlyIssued /\ DueIsOld /\ now \in Nat
      /\ rows \subseteq Tokens /\ \A t \in Tokens : exp[t] \in Nat
  BY DEF IInv, TypeOK
<1>2. ASSUME UNCHANGED task, rows \subseteq rows' PROVE DueIsOld'
  <2>1. \A t \in rows : t \in Tokens /\ Issued(t)
    BY <1>1 DEF OnlyIssued
  <2>2. ASSUME NEW c \in Cleaners, NEW t \in task[c].due,
               task[c].at \in {"cutoff", "delete"}
        PROVE  t \in rows' /\ Expired(t, now)' /\ exp'[t] = exp[t]
    BY <1>1, <1>2, <2>1, <2>2, ExpiryStands DEF DueIsOld
  <2>3. ASSUME NEW c \in Cleaners, task[c].at = "delete" PROVE task[c].cutoff <= now'
    <3>1. task[c].cutoff \in Nat /\ task[c].cutoff <= now /\ now' \in Nat /\ now <= now'
      BY <2>3, <1>1, Records, ExpiryStands DEF DueIsOld, CleanupTasks
    <3>. QED BY <3>1, <1>1
  <2>. QED BY <1>1, <1>2, <2>2, <2>3 DEF DueIsOld, Expired
<1>3. ASSUME NEW c \in Cleaners, UNCHANGED <<now, exp>>,
             \A d \in Cleaners \ {c} : task'[d] = task[d],
             \A d \in Cleaners \ {c} : task[d].at \in {"cutoff", "delete"} => rows \subseteq rows',
             task'[c].at \in {"cutoff", "delete"} =>
               \A t \in task'[c].due : t \in rows' /\ Expired(t, now),
             task'[c].at = "delete" => task'[c].cutoff = now,
             task'[c].at = "done" => task'[c].due = {}
      PROVE  DueIsOld'
  BY <1>1, <1>3 DEF DueIsOld, Expired
<1>4. CASE UNCHANGED vars
  BY <1>2, <1>4 DEF vars
<1>5. CASE Tick
  BY <1>2, <1>5 DEF Tick
<1>6. ASSUME NEW t \in Tokens, Login(t) PROVE DueIsOld'
  BY <1>2, <1>6 DEF Login
<1>7. ASSUME NEW w \in Workers, NEW t \in Tokens, AuthDecode(w, t) \/ LogoutDecode(w, t)
      PROVE  DueIsOld'
  BY <1>2, <1>7 DEF AuthDecode, LogoutDecode
<1>8. ASSUME NEW w \in Workers, Answering(w) PROVE DueIsOld'
  <2>1. CASE UNCHANGED task
    BY <1>2, <1>8, <2>1 DEF Answering, AuthLookup, AuthRefuse, AuthAccept, LogoutCommit
  <2>2. ASSUME NEW c \in Cleaners, AuthAccept(w), Schedule(c) PROVE DueIsOld'
    <3>1. task'[c].at = "gate" /\ UNCHANGED <<now, exp, rows>>
          /\ \A d \in Cleaners \ {c} : task'[d] = task[d]
      BY <2>2, <1>1 DEF AuthAccept, Schedule, TypeOK
    <3>. QED BY <1>3, <3>1
  <2>. QED BY <1>8, <2>1, <2>2 DEF Answering, AuthLookup, AuthRefuse, AuthAccept, LogoutCommit
<1>9. ASSUME NEW c \in Cleaners, Cleanup(c) PROVE DueIsOld'
  <2>1. task[c] \in CleanupTasks
    BY <1>1, <1>9, Records DEF Cleanup, CleanupSkip, CleanupStart, PurgeCutoff, PurgeBatch,
                               CleanupDone, CleanupFail
  <2>2. CASE CleanupSkip(c) \/ CleanupDone(c) \/ CleanupFail(c)
    <3>1. task'[c].at = "none" /\ UNCHANGED <<now, exp, rows>>
          /\ \A d \in Cleaners \ {c} : task'[d] = task[d]
      BY <2>2, <1>1 DEF CleanupSkip, CleanupDone, CleanupFail, TypeOK, NoTask
    <3>. QED BY <1>3, <3>1
  <2>3. CASE CleanupStart(c)
    <3>1. /\ task'[c].at = "cutoff" /\ task'[c].due = {t \in rows : Expired(t, now)}
          /\ UNCHANGED <<now, exp, rows>> /\ \A d \in Cleaners \ {c} : task'[d] = task[d]
      BY <2>1, <2>3, <1>1 DEF CleanupStart, TypeOK, CleanupTasks
    <3>. QED BY <1>3, <3>1
  <2>4. CASE PurgeCutoff(c)
    <3>1. /\ task[c].at = "cutoff" /\ task'[c].at = "delete" /\ task'[c].cutoff = now
          /\ task'[c].due = task[c].due
          /\ UNCHANGED <<now, exp, rows>> /\ \A d \in Cleaners \ {c} : task'[d] = task[d]
      BY <2>1, <2>4, <1>1 DEF PurgeCutoff, TypeOK, CleanupTasks
    <3>2. \A t \in task[c].due : t \in rows /\ Expired(t, now)
      BY <3>1, <1>1 DEF DueIsOld
    <3>. QED BY <1>3, <3>1, <3>2
  <2>5. CASE PurgeBatch(c)
    <3>1. task[c].at = "delete"
      BY <2>5 DEF PurgeBatch
    <3>2. \A d \in Cleaners \ {c} : task[d].at \notin {"cutoff", "delete"}
      BY <3>1, <1>1 DEF SingleFlight, Purging
    <3>3. \A t \in task[c].due : Expired(t, now)
      BY <3>1, <1>1 DEF DueIsOld
    <3>. QED BY <1>3, <2>5, <3>2, <3>3, BatchRemoves
  <2>. QED BY <1>9, <2>2, <2>3, <2>4, <2>5 DEF Cleanup
<1>. QED BY <1>4, <1>5, <1>6, <1>7, <1>8, <1>9 DEF Next

-----------------------------------------------------------------------------
(* The theorems.                                                           *)

\* The invariant is inductive.
THEOREM Invariance == Spec => []IInv
<1>1. Init => IInv
  <2>. SUFFICES ASSUME Init PROVE IInv
    OBVIOUS
  <2>1. TypeOK
    <3>1. 0 % Second = 0
      BY BlacklistAssumption
    <3>2. cleaning \in BOOLEAN
      BY DEF Init
    <3>3. req \in [Workers -> Requests \cup {Idle}] /\ task \in [Cleaners -> CleanupTasks \cup {NoTask}]
      BY DEF Init
    <3>. QED BY <3>1, <3>2, <3>3, BlacklistAssumption DEF Init, TypeOK
  <2>2. SingleFlight
    BY DEF Init, SingleFlight, Purging, NoTask
  <2>3. OnlyIssued /\ RowsOutlive /\ MissedIsExpired /\ DueIsOld
    BY DEF Init, OnlyIssued, RowsOutlive, MissedIsExpired, DueIsOld, Idle, NoTask, At
  <2>. QED BY <2>1, <2>2, <2>3 DEF IInv
<1>2. IInv /\ [Next]_vars => IInv'
  BY TypeStep, SingleFlightStep, RevocationStep, PurgeStep DEF IInv
<1>. QED BY <1>1, <1>2, PTL DEF Spec

\* The state of the blacklist is well typed, and every "exp" that jose encodes
\* is a whole number of seconds.
THEOREM TypeCorrect == Spec => []TypeOK
<1>1. IInv => TypeOK
  BY DEF IInv
<1>. QED BY <1>1, Invariance, PTL

\* However many requests schedule a cleanup, one task purges at a time, and the
\* flag of _run_cleanup is up exactly while it does.
THEOREM OnePurgeAtATime == Spec => []SingleFlight
<1>1. IInv => SingleFlight
  BY DEF IInv
<1>. QED BY <1>1, Invariance, PTL

\* is_revoked lets nobody in whose token's row was stored before the request,
\* until the token's own expiry.
THEOREM LogoutHolds == Spec => RevokedRefused
<1>1. ASSUME IInv, [Next]_vars, NEW w \in Workers, AuthAccept(w), req[w].revoked
      PROVE  exp[req[w].token] <= now
  BY <1>1 DEF IInv, MissedIsExpired, AuthAccept, At, Idle, Expired
<1>2. IInv /\ [Next]_vars =>
        [\A w \in Workers : AuthAccept(w) /\ req[w].revoked => exp[req[w].token] <= now]_vars
  BY <1>1
<1>. QED BY <1>2, Invariance, PTL DEF Spec, RevokedRefused

\* purge_expired leaves no row behind that had expired when it began.
THEOREM PurgesComplete == Spec => PurgeIsComplete
<1>1. IInv => \A c \in Cleaners : CleanupDone(c) => task[c].due = {}
  BY DEF IInv, DueIsOld, CleanupDone
<1>2. IInv /\ [Next]_vars => [\A c \in Cleaners : CleanupDone(c) => task[c].due = {}]_vars
  BY <1>1
<1>. QED BY <1>2, Invariance, PTL DEF Spec, PurgeIsComplete
===========================================================================
