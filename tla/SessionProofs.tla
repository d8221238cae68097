--------------------------- MODULE SessionProofs ---------------------------
(***************************************************************************)
(* Proofs about Session, for any number of tabs and whatever each of them  *)
(* opens: its types, and that no form is refused but one the CSRF cookie   *)
(* has moved away from.                                                    *)
(***************************************************************************)
EXTENDS Session, TLAPS

PageRecords == [kind : Pages, csrf : {"none", "cookie", "old"}, moved : BOOLEAN]

\* The invariant, tab by tab.  With the cookie k: a page the cookie has not moved
\* away from has its token.
GoodPage(p, k) ==
  /\ p \in PageRecords
  /\ k = "none" => p.csrf # "cookie"
  /\ p.kind # "blank" /\ ~p.moved => k = "cookie" /\ p.csrf = "cookie"

\* A request the cookie has not moved away from brought the cookie there is, and
\* a form that passed the middleware brought a cookie.
GoodCall(c, k) ==
  /\ c \in Requests \cup {Idle}
  /\ c # Idle =>
       /\ k = "none" => c.cookie # "cookie"
       /\ ~c.moved => c.cookie = k
       /\ ~Safe(c.op) /\ c.admitted => c.cookie # "none"

SessionInv ==
  /\ csrf \in {"none", "cookie"} /\ access \in {"good", "dead"}
  /\ stuck \subseteq Tabs /\ calm \in BOOLEAN
  /\ page = [t \in Tabs |-> page[t]] /\ call = [t \in Tabs |-> call[t]]
  /\ \A t \in Tabs : GoodPage(page[t], csrf) /\ GoodCall(call[t], csrf)

-----------------------------------------------------------------------------
(* The pages and the requests of one tab.                                  *)

LEMMA GoodBlank == ASSUME NEW k PROVE GoodPage(Blank, k) /\ GoodCall(Idle, k)
BY DEF GoodPage, GoodCall, Blank, PageRecords, Pages

\* A page the cookie moves away from is good, whatever the cookie is now.
LEMMA GoodOutdated ==
  ASSUME NEW p \in PageRecords, NEW k PROVE GoodPage(Outdated(p), k)
<1>1. CASE p = Blank
  BY <1>1, GoodBlank DEF Outdated
<1>2. CASE p # Blank
  <2>. DEFINE q == [p EXCEPT !.csrf = Aged(@), !.moved = TRUE]
  <2>1. Aged(p.csrf) \in {"none", "old"}
    BY DEF Aged, PageRecords
  <2>2. q \in PageRecords /\ q.csrf # "cookie" /\ q.moved
    BY <2>1 DEF PageRecords
  <2>. QED BY <1>2, <2>2 DEF Outdated, GoodPage
<1>. QED BY <1>1, <1>2

LEMMA GoodOvertaken ==
  ASSUME NEW c, NEW k, NEW k2, GoodCall(c, k) PROVE GoodCall(Overtaken(c), k2)
<1>1. CASE c = Idle
  BY <1>1, GoodBlank DEF Overtaken
<1>2. CASE c # Idle
  <2>. DEFINE d == [c EXCEPT !.moved = TRUE, !.cookie = Aged(@)]
  <2>1. c \in Requests
    BY <1>2 DEF GoodCall
  <2>2. Aged(c.cookie) \in {"none", "old"} /\ (c.cookie # "none" => Aged(c.cookie) # "none")
    BY <2>1 DEF Aged, Requests
  <2>3. /\ d \in Requests /\ d.cookie = Aged(c.cookie) /\ d.moved
        /\ d.op = c.op /\ d.admitted = c.admitted
    BY <2>1, <2>2 DEF Requests
  <2>4. Overtaken(c) = d
    BY <1>2 DEF Overtaken
  <2>. HIDE DEF d
  <2>. QED BY <1>2, <2>2, <2>3, <2>4 DEF GoodCall
<1>. QED BY <1>1, <1>2

\* A request that is sent.
LEMMA GoodRequest ==
  ASSUME SessionInv, NEW op \in {"page", "login", "register", "logout"} \cup Calls,
         NEW want \in Pages, NEW auth, NEW admitted \in BOOLEAN,
         ~Safe(op) /\ admitted => csrf = "cookie"
  PROVE  GoodCall(Request(op, want, csrf, admitted, auth), csrf)
<1>. DEFINE c == Request(op, want, csrf, admitted, auth)
<1>1. csrf \in {"none", "cookie"}
  BY DEF SessionInv, TypeOK
<1>2. c \in Requests /\ c.cookie = csrf /\ ~c.moved /\ c.op = op /\ c.admitted = admitted
  BY <1>1 DEF Request, Requests
<1>. QED BY <1>1, <1>2 DEF GoodCall

\* A page that arrives with the cookie it was asked with.
LEMMA GoodArrival ==
  ASSUME SessionInv, NEW t \in Tabs, Handled(t), ~SetsCookie(call[t]),
         call[t].op \in {"page", "login", "register"}
  PROVE  GoodPage(Arrived(t), csrf)
<1>1. /\ GoodCall(call[t], csrf) /\ call[t] \in Requests /\ call[t] # Idle
      /\ csrf \in {"none", "cookie"}
  BY DEF SessionInv, GoodCall, Handled, Busy
<1>2. Arrived(t) = [kind |-> call[t].want, csrf |-> call[t].cookie, moved |-> call[t].moved]
  BY DEF Arrived, Rendered
<1>3. call[t].cookie # "none"
  BY <1>1 DEF GoodCall, SetsCookie, Handled, Safe
<1>4. call[t].want \in Pages /\ call[t].cookie \in {"none", "cookie", "old"} /\ call[t].moved \in BOOLEAN
  BY <1>1 DEF Requests
<1>5. /\ csrf = "none" => call[t].cookie # "cookie"
      /\ ~call[t].moved => call[t].cookie = csrf
  BY <1>1 DEF GoodCall
<1>. QED BY <1>1, <1>2, <1>3, <1>4, <1>5 DEF GoodPage, PageRecords

-----------------------------------------------------------------------------
(* The steps.                                                              *)

\* A step of one tab that leaves the cookie as it is.
LEMMA OneTab ==
  ASSUME SessionInv, NEW t \in Tabs, UNCHANGED <<csrf, calm>>, access' \in {"good", "dead"},
         stuck' \subseteq Tabs, NEW p, GoodPage(p, csrf), NEW c, GoodCall(c, csrf),
         page' = [page EXCEPT ![t] = p], call' = [call EXCEPT ![t] = c]
  PROVE  SessionInv'
<1>1. \A u \in Tabs : GoodPage(page'[u], csrf') /\ GoodCall(call'[u], csrf')
  BY DEF SessionInv
<1>. QED BY <1>1 DEF SessionInv

LEMMA SendStep ==
  ASSUME SessionInv, NEW t \in Tabs, NEW op \in {"page", "login", "register", "logout"} \cup Calls,
         NEW want \in Pages, Send(t, op, want)
  PROVE  SessionInv'
<1>. DEFINE c == Request(op, want, csrf, Admitted(op, page[t].csrf), access)
<1>1. GoodCall(c, csrf)
  <2>1. Admitted(op, page[t].csrf) \in BOOLEAN
    BY DEF Admitted
  <2>2. ~Safe(op) /\ Admitted(op, page[t].csrf) => csrf = "cookie"
    BY DEF Admitted
  <2>. QED BY <2>1, <2>2, GoodRequest
<1>2. /\ call' = [call EXCEPT ![t] = c] /\ page' = [page EXCEPT ![t] = page[t]]
      /\ UNCHANGED <<csrf, access, stuck, calm>>
  BY DEF SessionInv, Send
<1>3. GoodPage(page[t], csrf) /\ access' \in {"good", "dead"} /\ stuck' \subseteq Tabs
  BY <1>2 DEF SessionInv
<1>. HIDE DEF c
<1>. QED BY <1>1, <1>2, <1>3, OneTab

\* An answer that leaves the page, or one that is good.
LEMMA DoneStep ==
  ASSUME SessionInv, NEW t \in Tabs, Done(t), UNCHANGED <<csrf, access, calm>>,
         stuck' \subseteq Tabs, NEW p, GoodPage(p, csrf), page' = [page EXCEPT ![t] = p]
  PROVE  SessionInv'
<1>1. GoodCall(Idle, csrf) /\ access' \in {"good", "dead"}
  BY GoodBlank DEF SessionInv
<1>. QED BY <1>1, OneTab DEF Done

LEMMA GoodReplaced == ASSUME SessionInv, NEW t \in Tabs PROVE GoodPage(Replaced(t), csrf)
BY GoodBlank DEF SessionInv, Replaced

LEMMA ReceiveStep == ASSUME SessionInv, NEW t \in Tabs, Receive(t) PROVE SessionInv'
<1>1. stuck \subseteq Tabs /\ csrf \in {"none", "cookie"} /\ access \in {"good", "dead"}
  BY DEF SessionInv
<1>2. CASE Locked(t) \/ Forbidden(t)
  <2>1. stuck' \subseteq Tabs
    BY <1>1, <1>2 DEF Locked, Forbidden, TurnAway
  <2>. QED BY <1>2, <2>1, GoodReplaced, DoneStep DEF Locked, Forbidden, TurnAway
<1>3. CASE ArriveWithCookie(t)
  <2>1. \A u \in Tabs : GoodPage(page[u], csrf) /\ GoodCall(call[u], csrf)
    BY DEF SessionInv
  <2>2. Arrived(t) \in PageRecords
    <3>1. call[t] \in Requests /\ page[t] \in PageRecords
      BY <1>3, <2>1 DEF ArriveWithCookie, Handled, Busy, GoodCall, GoodPage
    <3>. QED BY <3>1 DEF Arrived, Rendered, Requests, PageRecords
  <2>3. ASSUME NEW u \in Tabs PROVE GoodPage(page'[u], csrf')
    <3>1. page[u] \in PageRecords
      BY <2>1 DEF GoodPage
    <3>2. page'[u] = Outdated(IF u = t THEN Arrived(t) ELSE page[u])
      BY <1>3 DEF ArriveWithCookie
    <3>. QED BY <2>2, <3>1, <3>2, GoodOutdated
  <2>4. ASSUME NEW u \in Tabs PROVE GoodCall(call'[u], csrf')
    <3>1. call'[u] = IF u = t THEN Idle ELSE Overtaken(call[u])
      BY <1>3 DEF ArriveWithCookie
    <3>. QED BY <2>1, <3>1, GoodOvertaken, GoodBlank
  <2>5. /\ csrf' = "cookie" /\ UNCHANGED <<access, stuck, calm>>
        /\ page' = [u \in Tabs |-> page'[u]] /\ call' = [u \in Tabs |-> call'[u]]
    BY <1>3 DEF ArriveWithCookie
  <2>. QED BY <2>3, <2>4, <2>5 DEF SessionInv
<1>4. CASE ArrivePage(t)
  <2>1. stuck' \subseteq Tabs /\ GoodPage(Arrived(t), csrf)
    BY <1>1, <1>4, GoodArrival DEF ArrivePage
  <2>. QED BY <1>4, <2>1, DoneStep DEF ArrivePage
<1>5. CASE ArriveOther(t)
  BY <1>1, <1>5, GoodReplaced, DoneStep DEF ArriveOther
<1>6. CASE ArriveRedirect(t)
  <2>. DEFINE op == call[t].op
              c == Request("page", Target(op), csrf, TRUE, NewAccess(op))
  <2>1. GoodCall(c, csrf)
    <3>1. Target(op) \in Pages /\ "page" \in {"page", "login", "register", "logout"} \cup Calls /\ Safe("page")
      BY DEF Target, Pages, Safe
    <3>. HIDE DEF op
    <3>. QED BY <3>1, GoodRequest
  <2>2. GoodPage(page[t], csrf) /\ page' = [page EXCEPT ![t] = page[t]]
    BY <1>6 DEF SessionInv, ArriveRedirect
  <2>3. stuck' \subseteq Tabs /\ access' \in {"good", "dead"}
    BY <1>1, <1>6 DEF ArriveRedirect, NewAccess
  <2>4. call' = [call EXCEPT ![t] = c] /\ UNCHANGED <<csrf, calm>>
    BY <1>6 DEF ArriveRedirect
  <2>. HIDE DEF c
  <2>. QED BY <2>1, <2>2, <2>3, <2>4, OneTab
<1>. QED BY <1>2, <1>3, <1>4, <1>5, <1>6 DEF Receive

LEMMA BrowserSteps ==
  ASSUME SessionInv, NEW t \in Tabs,
         \/ \E kind \in Opens[t] \cup {"login"} : Visit(t, kind)
         \/ SubmitLogin(t) \/ SubmitRegister(t) \/ SubmitLogout(t) \/ CallApi(t)
         \/ Lose(t)
  PROVE  SessionInv'
<1>1. ASSUME NEW kind \in Opens[t] \cup {"login"}, Visit(t, kind) PROVE SessionInv'
  BY <1>1, SendStep, SessionAssumption DEF Visit, SessionAssumption, Pages
<1>2. CASE SubmitLogin(t) \/ SubmitRegister(t) \/ SubmitLogout(t) \/ CallApi(t)
  <2>1. {"login", "register", "home"} \subseteq Pages
    BY DEF Pages
  <2>. QED BY <1>2, <2>1, SendStep DEF SubmitLogin, SubmitRegister, SubmitLogout, CallApi
<1>3. CASE Lose(t)
  <2>1. stuck' \subseteq Tabs
    BY <1>3 DEF SessionInv, Lose
  <2>. QED BY <1>3, <2>1, GoodReplaced, DoneStep DEF Lose
<1>. QED BY <1>1, <1>2, <1>3

LEMMA EnvironmentSteps ==
  ASSUME SessionInv, Restart \/ CsrfExpires \/ AccessExpires \/ CalmDown PROVE SessionInv'
<1>1. \A t \in Tabs : GoodPage(page[t], csrf) /\ GoodCall(call[t], csrf)
  BY DEF SessionInv
<1>2. CASE Restart
  <2>1. \A t \in Tabs : GoodPage(page'[t], csrf') /\ GoodCall(call'[t], csrf')
    BY <1>2, GoodReplaced, GoodBlank DEF Restart
  <2>2. /\ access' = "dead" /\ UNCHANGED <<csrf, stuck, calm>>
        /\ page' = [u \in Tabs |-> page'[u]] /\ call' = [u \in Tabs |-> call'[u]]
    BY <1>2 DEF Restart
  <2>. QED BY <2>1, <2>2 DEF SessionInv
<1>3. CASE CsrfExpires
  <2>1. ASSUME NEW t \in Tabs PROVE GoodPage(page'[t], csrf') /\ GoodCall(call'[t], csrf')
    <3>1. page'[t] = Outdated(page[t]) /\ call'[t] = Overtaken(call[t])
      BY <1>3 DEF CsrfExpires
    <3>2. page[t] \in PageRecords
      BY <1>1 DEF GoodPage
    <3>. QED BY <1>1, <3>1, <3>2, GoodOutdated, GoodOvertaken
  <2>2. /\ csrf' = "none" /\ UNCHANGED <<access, stuck, calm>>
        /\ page' = [u \in Tabs |-> page'[u]] /\ call' = [u \in Tabs |-> call'[u]]
    BY <1>3 DEF CsrfExpires
  <2>. QED BY <2>1, <2>2 DEF SessionInv
<1>4. CASE AccessExpires
  BY <1>4 DEF SessionInv, AccessExpires
<1>5. CASE CalmDown
  BY <1>5 DEF SessionInv, CalmDown
<1>. QED BY <1>2, <1>3, <1>4, <1>5

-----------------------------------------------------------------------------
(* The theorems.                                                           *)

LEMMA InitInv == Init => SessionInv
<1>. SUFFICES ASSUME Init PROVE SessionInv
  OBVIOUS
<1>1. \A t \in Tabs : GoodPage(page[t], csrf) /\ GoodCall(call[t], csrf)
  BY GoodBlank DEF Init
<1>. QED BY <1>1 DEF SessionInv, Init

LEMMA NextInv == SessionInv /\ [Next]_vars => SessionInv'
<1>. SUFFICES ASSUME SessionInv, [Next]_vars PROVE SessionInv'
  OBVIOUS
<1>1. CASE UNCHANGED vars
  BY <1>1 DEF SessionInv, vars
<1>. QED BY <1>1, ReceiveStep, BrowserSteps, EnvironmentSteps DEF Next

\* The invariant of the pages and requests is inductive.
LEMMA Invariance == Spec => []SessionInv
BY InitInv, NextInv, PTL DEF Spec

\* Redirects lead to pages there are, and nobody holds the cookie's token when
\* there is no cookie.
THEOREM Types == Spec => []TypeOK
<1>1. SessionInv => TypeOK
  BY DEF SessionInv, TypeOK, GoodPage, GoodCall, PageRecords, Busy
<1>. QED BY Invariance, <1>1, PTL

\* With any number of tabs sharing the cookie, a form is refused only if the
\* cookie has changed since its page was asked for.
THEOREM FormsAdmitted == Spec => []OnlyMovedRefused
<1>1. SessionInv => OnlyMovedRefused
  BY DEF SessionInv, OnlyMovedRefused, GoodPage, Admitted
<1>. QED BY Invariance, <1>1, PTL
=============================================================================
