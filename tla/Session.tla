------------------------------ MODULE Session ------------------------------
(***************************************************************************)
(* A browser and the server's pages: the CSRF cookie and its middleware    *)
(* (app/core/csrf.py), the authentication middleware in front of it        *)
(* (app/core/auth.py, app/main.py), the home, login and register pages     *)
(* (app/chat/routers/fe_router.py, fe/login.py, fe/register.py) and the    *)
(* logout route.                                                           *)
(*                                                                         *)
(* The tabs of the browser share its cookies.  A request takes the cookies *)
(* it finds when it is sent; its answer may change them when it arrives,   *)
(* after those of other tabs.  A CSRF token is random: all that matters of *)
(* one is whether it is the one in the browser's cookie now ("cookie"), or *)
(* an earlier one ("old"), or empty ("none").  The server keeps nothing of *)
(* these exchanges, an answer depends on its request alone: it is given    *)
(* and arrives in one step.                                                *)
(*                                                                         *)
(* Left out: what the handlers find out about accounts and tokens (modules *)
(* Accounts and TokenBlacklist), and the rate limit.                       *)
(***************************************************************************)
CONSTANTS
  Tabs,
  Opens      \* Opens[t]: the pages the user opens in tab t, besides the login page

VARIABLES
  csrf,      \* the browser's csrf_token cookie: "cookie", or "none"
  access,    \* its access_token cookie: "good" (decodable, or absent) or "dead"
  page,      \* page[t]: the page tab t shows, the token in its form or meta tag, and
             \* (history) whether csrf has changed since the page was asked for
  call,      \* call[t]: the request of tab t in flight
  stuck,     \* history: tabs whose last login form was turned away unread
  calm       \* whether connections, keys and the CSRF cookie last from now on

vars == <<csrf, access, page, call, stuck, calm>>

Pages == {"blank", "home", "login", "register"}
Calls == {"read", "write"}     \* of the API, by the scripts of the home page

ASSUME SessionAssumption == Opens \in [Tabs -> SUBSET (Pages \ {"blank"})]

Idle == [op |-> "idle"]
Blank == [kind |-> "blank", csrf |-> "none", moved |-> FALSE]

-----------------------------------------------------------------------------
(* The browser sends.                                                      *)

Safe(op) == op \in {"page", "read"}

\* Header or form field, the token must be there and be the cookie's; a GET
\* needs none.  Both travel in one request: they are compared as they were sent.
Admitted(op, token) == Safe(op) \/ (csrf = "cookie" /\ token = "cookie")

Request(op, want, cookie, admitted, auth) ==
  [op |-> op, want |-> want, cookie |-> cookie, admitted |-> admitted,
   dead |-> auth = "dead", moved |-> FALSE]

Send(t, op, want) ==
  /\ call[t] = Idle
  /\ call' = [call EXCEPT ![t] = Request(op, want, csrf, Admitted(op, page[t].csrf), access)]
  /\ UNCHANGED <<csrf, access, page, stuck, calm>>

Visit(t, kind) == Send(t, "page", kind)

SubmitLogin(t) == page[t].kind = "login" /\ Send(t, "login", "login")
SubmitRegister(t) == page[t].kind = "register" /\ Send(t, "register", "register")
SubmitLogout(t) == page[t].kind = "home" /\ Send(t, "logout", "home")
CallApi(t) == page[t].kind = "home" /\ \E op \in Calls : Send(t, op, "home")

-----------------------------------------------------------------------------
(* The answers of the middlewares.                                         *)

Busy(t) == call[t] # Idle

Done(t) == call' = [call EXCEPT ![t] = Idle]

\* An answer that is not a page replaces the page, but not when a script gets it.
Replaced(t) == IF ~Busy(t) \/ call[t].op \in Calls THEN page[t] ELSE Blank

\* The form of tab t was turned away before anyone read it.
TurnAway(t) ==
  /\ Done(t)
  /\ page' = [page EXCEPT ![t] = Replaced(t)]
  /\ stuck' = IF call[t].op = "login" THEN stuck \cup {t} ELSE stuck
  /\ UNCHANGED <<csrf, access, calm>>

\* AuthenticationMiddleware is outermost: JWTError is a 400 to any request.
Locked(t) == Busy(t) /\ call[t].dead /\ TurnAway(t)

\* CSRFMiddleware's 403.
Forbidden(t) == Busy(t) /\ ~call[t].dead /\ ~call[t].admitted /\ TurnAway(t)

\* A new cookie goes with the answer to a GET that brought none.  The mutated
\* middleware sends one with every GET.
SetAlways(r) == Safe(r.op)

SetsCookie(r) == Safe(r.op) /\ r.cookie = "none"

\* What had the cookie's token has an old one when the cookie changes.
Aged(x) == IF x = "cookie" THEN "old" ELSE x

Outdated(p) == IF p = Blank THEN Blank ELSE [p EXCEPT !.csrf = Aged(@), !.moved = TRUE]

Overtaken(r) == IF r = Idle THEN Idle ELSE [r EXCEPT !.moved = TRUE, !.cookie = Aged(@)]

-----------------------------------------------------------------------------
(* The answers of the handlers.                                            *)

Handled(t) == Busy(t) /\ ~call[t].dead /\ call[t].admitted

\* Pages are rendered with the cookie the request brought, not with the one its
\* answer sets.  The mutated handler repeats a form without its token.
RenderedOnGet(r) == IF Safe(r.op) THEN r.cookie ELSE "none"

Rendered(r) == r.cookie

Arrived(t) ==
  CASE call[t].op = "read" -> page[t]
    [] OTHER -> [kind |-> call[t].want, csrf |-> Rendered(call[t]), moved |-> call[t].moved]

\* The answer to a GET that brought no cookie: the pages have aged, this one too.
ArriveWithCookie(t) ==
  /\ Handled(t) /\ SetsCookie(call[t])
  /\ csrf' = "cookie"
  /\ page' = [u \in Tabs |-> Outdated(IF u = t THEN Arrived(t) ELSE page[u])]
  /\ call' = [u \in Tabs |-> IF u = t THEN Idle ELSE Overtaken(call[u])]
  /\ UNCHANGED <<access, stuck, calm>>

\* A page asked for, or the one of a form that is not valid, or of a login with
\* the wrong name or password.
ArrivePage(t) ==
  /\ Handled(t) /\ ~SetsCookie(call[t]) /\ call[t].op \in {"page", "login", "register"}
  /\ page' = [page EXCEPT ![t] = Arrived(t)]
  /\ stuck' = IF call[t].op = "login" THEN stuck \ {t} ELSE stuck
  /\ Done(t)
  /\ UNCHANGED <<csrf, access, calm>>

\* What a script gets; and the 500 a register form gets if its name is taken.
ArriveOther(t) ==
  /\ Handled(t) /\ ~SetsCookie(call[t]) /\ call[t].op \in Calls \cup {"register"}
  /\ page' = [page EXCEPT ![t] = Replaced(t)]
  /\ Done(t)
  /\ UNCHANGED <<csrf, access, stuck, calm>>

\* The mutated logout leads to a page there is none of.
ToLogout(op) == IF op = "logout" THEN "logout" ELSE "home"

Target(op) == IF op = "login" THEN "home" ELSE "login"

\* A login sets the cookie, a logout deletes it.
NewAccess(op) == IF op \in {"login", "logout"} THEN "good" ELSE access

\* A form was accepted: the browser follows the redirect at once.
ArriveRedirect(t) ==
  LET op == call[t].op IN
  /\ Handled(t) /\ op \in {"login", "register", "logout"}
  /\ access' = NewAccess(op)
  /\ call' = [call EXCEPT ![t] = Request("page", Target(op), csrf, TRUE, NewAccess(op))]
  /\ stuck' = IF op = "login" THEN stuck \ {t} ELSE stuck
  /\ UNCHANGED <<csrf, page, calm>>

Receive(t) ==
  \/ Locked(t) \/ Forbidden(t)
  \/ ArriveWithCookie(t) \/ ArrivePage(t) \/ ArriveOther(t) \/ ArriveRedirect(t)

-----------------------------------------------------------------------------
(* The environment.                                                        *)

\* The connection breaks before the answer arrives.
Lose(t) ==
  /\ ~calm /\ Busy(t) /\ Done(t)
  /\ page' = [page EXCEPT ![t] = Replaced(t)]
  /\ UNCHANGED <<csrf, access, stuck, calm>>

\* A restart with another SECRET_KEY, when there is an access cookie.
Restart ==
  /\ ~calm /\ access = "good" /\ access' = "dead"
  /\ call' = [t \in Tabs |-> Idle]
  /\ page' = [t \in Tabs |-> Replaced(t)]
  /\ UNCHANGED <<csrf, stuck, calm>>

\* max_age of the cookies: CSRF_MAX_AGE, and an hour.
CsrfExpires ==
  /\ ~calm /\ csrf = "cookie" /\ csrf' = "none"
  /\ page' = [t \in Tabs |-> Outdated(page[t])]
  /\ call' = [t \in Tabs |-> Overtaken(call[t])]
  /\ UNCHANGED <<access, stuck, calm>>

CalmDown == ~calm /\ calm' = TRUE /\ UNCHANGED <<csrf, access, page, call, stuck>>

AccessExpires ==
  /\ access = "dead" /\ access' = "good"
  /\ UNCHANGED <<csrf, page, call, stuck, calm>>

-----------------------------------------------------------------------------

Init ==
  /\ csrf = "none" /\ access = "good"
  /\ page = [t \in Tabs |-> Blank]
  /\ call = [t \in Tabs |-> Idle]
  /\ stuck = {} /\ calm = FALSE

Next ==
  \/ \E t \in Tabs :
       \/ \E kind \in Opens[t] \cup {"login"} : Visit(t, kind)
       \/ SubmitLogin(t) \/ SubmitRegister(t) \/ SubmitLogout(t) \/ CallApi(t)
       \/ Receive(t) \/ Lose(t)
  \/ Restart \/ CsrfExpires \/ AccessExpires \/ CalmDown

Spec == Init /\ [][Next]_vars

\* Answers arrive, the hour of an access cookie passes, and a user who was turned
\* away asks for the login page again and submits it.
FairSpec ==
  /\ Spec
  /\ WF_vars(AccessExpires)
  /\ \A t \in Tabs :
       /\ WF_vars(Receive(t))
       /\ SF_vars(t \in stuck /\ Visit(t, "login"))
       /\ SF_vars(t \in stuck /\ SubmitLogin(t))

-----------------------------------------------------------------------------
(* Properties.                                                             *)

Requests ==
  [op : {"page", "login", "register", "logout"} \cup Calls, want : Pages,
   cookie : {"none", "cookie", "old"}, admitted : BOOLEAN, dead : BOOLEAN, moved : BOOLEAN]

\* Type correctness: every redirect leads to a page there is, and a token in a
\* request or a page is the cookie's only while there is a cookie.
TypeOK ==
  /\ csrf \in {"none", "cookie"} /\ access \in {"good", "dead"}
  /\ page \in [Tabs -> [kind : Pages, csrf : {"none", "cookie", "old"}, moved : BOOLEAN]]
  /\ call \in [Tabs -> Requests \cup {Idle}]
  /\ stuck \subseteq Tabs /\ calm \in BOOLEAN
  /\ csrf = "none" => \A t \in Tabs : /\ page[t].csrf # "cookie"
                                      /\ Busy(t) => call[t].cookie # "cookie"

\* The form of a page is admitted unless the browser's CSRF cookie has changed
\* since that page was asked for, whatever the other tabs do: every page, the
\* ones that repeat a form included, is rendered with the token that counts.
OnlyMovedRefused ==
  \A t \in Tabs : page[t].kind # "blank" /\ ~page[t].moved => Admitted("login", page[t].csrf)

\* Nobody is locked out for good.  Once connections, keys and cookies last, a
\* user whose login form was turned away (the first page of a browser has an
\* empty token, a stale tab an old one, a dead access cookie a 400 to everything)
\* gets it read by reloading and submitting it again.
RefusalsEnd == \A t \in Tabs : calm /\ t \in stuck ~> t \notin stuck
=============================================================================
