------------------------------ MODULE Sessions ------------------------------
(***************************************************************************)
(* The sessions of one user: login, rotation of the refresh token, access  *)
(* tokens and logout, at the API, in the database and in a browser whose   *)
(* tabs share one cookie.                                                  *)
(*                                                                         *)
(* A refresh token lives in the cookie jar and, as a hash, in one row; an  *)
(* access token lives in the memory of one tab.  A refresh exchanges the   *)
(* refresh token for a new one (auth/service.go:134).  A tab sends as many *)
(* requests at a time as it has queries, and each may end in a refresh     *)
(* (providers.tsx:40), so refreshes with one cookie overlap.               *)
(*                                                                         *)
(* Abstractions: the fifteen minutes of an access token and the thirty     *)
(* days of a session may pass at any moment; the cookie lives longer than  *)
(* its session.  Ids of rows and tokens are taken anew once nothing refers *)
(* to them.  A page uses the access token of its tab's latest answer.      *)
(* Registration is a login.                                                *)
(***************************************************************************)
CONSTANTS
    Rows,       \* ids of sessions
    Tokens,     \* refresh tokens
    Tabs,       \* tabs of the browser
    Requests,   \* requests in progress at one time
    Null

ASSUME NullAssumption == /\ Null \notin Rows /\ Null \notin Tokens
                         /\ Null \notin Tabs

VARIABLES
    hash,       \* sessions: refresh_token_hash, Null where there is no row
    revoked,    \* rows with revoked_at
    expired,    \* rows past expires_at
    cookie,     \* nox_refresh
    tab,        \* state of Providers in each tab
    request,    \* requests in progress
    spent,      \* history: refresh tokens that were exchanged for another
                \* and that somebody still has
    left,       \* history: rows of sessions a tab signed out of, the API
                \* answering
    calm        \* history: the cookie was in one request at a time, and no
                \* answer that concerns it was lost

vars == <<hash, revoked, expired, cookie, tab, request, spent, left, calm>>
db == <<hash, revoked, expired, spent>>
browser == <<cookie, tab, left>>

-----------------------------------------------------------------------------
TabState == [page: {"loading", "out", "in"}, access: Rows \cup {Null}]

(* sess: the session of the access token, of the row found or inserted.    *)
(* late: the session of the refresh token had expired.                     *)
RequestState == [pc: {"idle", "arrived", "lock", "rotate", "revoke", "reply"},
                 kind: {"refresh", "login", "logout", "use"},
                 tab: Tabs \cup {Null}, token: Tokens \cup {Null},
                 sess: Rows \cup {Null}, late: BOOLEAN,
                 answer: {"none", "ok", "refused", "error"},
                 gives: Tokens \cup {Null}]

IdleRequest == [pc |-> "idle", kind |-> "use", tab |-> Null, token |-> Null, sess |-> Null,
                late |-> FALSE, answer |-> "none", gives |-> Null]

TypeOK ==
    /\ hash \in [Rows -> Tokens \cup {Null}]
    /\ \A t \in Tabs : tab[t].page = "in" <=> tab[t].access # Null
    /\ revoked \subseteq Rows /\ expired \subseteq Rows
    /\ cookie \in Tokens \cup {Null}
    /\ tab \in [Tabs -> TabState]
    /\ request \in [Requests -> RequestState]
    /\ spent \subseteq Tokens /\ left \subseteq Rows /\ calm \in BOOLEAN

(* The tabs are open and the browser has no cookie. *)
Init ==
    /\ hash = [s \in Rows |-> Null]
    /\ revoked = {} /\ expired = {}
    /\ cookie = Null
    /\ tab = [t \in Tabs |-> [page |-> "out", access |-> Null]]
    /\ request = [h \in Requests |-> IdleRequest]
    /\ spent = {} /\ left = {} /\ calm = TRUE

-----------------------------------------------------------------------------
(* The browser.                                                            *)

Goto(h, pc) == request' = [request EXCEPT ![h].pc = pc]

(* A request of tab t with the cookie of now and the claims of the tab. *)
NewRequest(kind, t) ==
    [pc |-> "arrived", kind |-> kind, tab |-> t,
     token |-> IF kind = "refresh" THEN cookie ELSE Null,
     sess |-> IF kind \in {"use", "logout"} THEN tab[t].access ELSE Null,
     late |-> FALSE, answer |-> "none", gives |-> Null]

Send(h, kind, t) ==
    /\ request[h].pc = "idle"
    /\ request' = [request EXCEPT ![h] = NewRequest(kind, t)]

(* Requests whose answers may change the cookie. *)
ForCookie(h) == request[h].pc # "idle" /\ request[h].kind # "use"
Alone(h) == \A g \in Requests \ {h} : ~ForCookie(g)

(* A tab is opened or reloaded; the requests it had are given up. *)
Open(t, h) ==
    /\ request[h].pc = "idle"
    /\ tab' = [tab EXCEPT ![t] = [page |-> "loading", access |-> Null]]
    /\ request' = [g \in Requests |->
                      IF g = h THEN NewRequest("refresh", t)
                      ELSE IF request[g].tab = t THEN [request[g] EXCEPT !.tab = Null]
                      ELSE request[g]]
    /\ calm' = (calm /\ Alone(h))
    /\ UNCHANGED <<db, cookie, left>>

LogIn(t, h) ==
    /\ tab[t].page = "out"
    /\ \A g \in Requests : ~(request[g].tab = t /\ request[g].kind = "login")
    /\ Send(h, "login", t)
    /\ calm' = (calm /\ Alone(h))
    /\ UNCHANGED <<db, browser>>

(* Any request of a page, with the access token of the tab. *)
Use(t, h) ==
    /\ tab[t].page = "in"
    /\ Send(h, "use", t)
    /\ UNCHANGED <<db, browser, calm>>

SignOut(t, h) ==
    /\ tab[t].page = "in"
    /\ Send(h, "logout", t)
    /\ calm' = (calm /\ Alone(h))
    /\ UNCHANGED <<db, browser>>

-----------------------------------------------------------------------------
(* The API.                                                                *)

(* An answer to a page concerns neither tab nor cookie, unless it refuses. *)
Answer(h, answer, s, gives) ==
    request' = [request EXCEPT ![h] =
                   IF @.kind = "use" /\ answer # "refused" THEN IdleRequest
                   ELSE [@ EXCEPT !.pc = "reply", !.answer = answer, !.sess = s,
                                  !.gives = gives, !.late = FALSE]]
Refuse(h) == Answer(h, "refused", request[h].sess, Null)
Break(h) ==
    request' = [request EXCEPT ![h] =
                   IF @.kind = "use" THEN IdleRequest
                   ELSE [@ EXCEPT !.pc = "reply", !.answer = "error", !.token = Null,
                                  !.sess = Null, !.gives = Null, !.late = FALSE]]

(* The token is of no request and not in the browser. *)
Unknown(k) ==
    /\ k # cookie
    /\ \A h \in Requests : request[h].token # k /\ request[h].gives # k

Fresh(n) == Unknown(n) /\ \A s \in Rows : hash[s] # n

FreeRow(s) ==
    /\ hash[s] = Null
    /\ \A t \in Tabs : tab[t].access # s
    /\ \A h \in Requests : request[h].sess # s

(* ValidateAccess. *)
Valid(s) == hash[s] # Null /\ s \notin revoked \cup expired

WithAccess(h) == request[h].pc = "arrived" /\ request[h].kind \in {"use", "logout"}

Admit(h) ==
    /\ WithAccess(h) /\ Valid(request[h].sess)
    /\ IF request[h].kind = "use" THEN Answer(h, "ok", request[h].sess, Null)
                                  ELSE Goto(h, "revoke")
    /\ UNCHANGED <<db, browser, calm>>

(* The session is not valid, the access token is past its fifteen minutes  *)
(* or the query fails: one answer for all.                                 *)
RefuseAccess(h) ==
    /\ WithAccess(h)
    /\ Refuse(h)
    /\ UNCHANGED <<db, browser, calm>>

(* A request that holds the row of s, until its commit. *)
Holds(g, s) == request[g].pc = "rotate" /\ request[g].sess = s

Revoke(h) ==
    /\ request[h].pc = "revoke"
    /\ \A g \in Requests : ~Holds(g, request[h].sess)
    /\ revoked' = IF hash[request[h].sess] # Null
                  THEN revoked \cup {request[h].sess} ELSE revoked
    /\ Answer(h, "ok", request[h].sess, Null)
    /\ UNCHANGED <<hash, expired, spent, browser, calm>>

(* The SELECT is issued; it compares expires_at with the clock of now. *)
Begin(h) ==
    /\ request[h].pc = "arrived" /\ request[h].kind = "refresh"
    /\ IF request[h].token = Null THEN Refuse(h)
       ELSE request' = [request EXCEPT
                            ![h].pc = "lock",
                            ![h].late = \E s \in expired : hash[s] = request[h].token]
    /\ UNCHANGED <<db, browser, calm>>

(* FOR UPDATE takes the rows of both tables, so a refresh that finds a row *)
(* waits for any other refresh of the user, and compares the row again.    *)
Waits_Never == FALSE
Waits == \E g \in Requests : request[g].pc = "rotate"

Matches(h, s) ==
    /\ hash[s] = request[h].token /\ s \notin revoked
    /\ ~request[h].late

Lock(h, s) ==
    /\ request[h].pc = "lock" /\ ~Waits
    /\ Matches(h, s)
    /\ request' = [request EXCEPT ![h].pc = "rotate", ![h].sess = s]
    /\ UNCHANGED <<db, browser, calm>>

RefuseRefresh(h) ==
    /\ request[h].pc = "lock"
    /\ \A s \in Rows : ~Matches(h, s)
    /\ Refuse(h)
    /\ UNCHANGED <<db, browser, calm>>

Rotate(h, n) ==
    /\ request[h].pc = "rotate" /\ Fresh(n)
    /\ hash' = [hash EXCEPT ![request[h].sess] = n]
    /\ spent' = {k \in spent \cup {request[h].token} : ~Unknown(k)}
    /\ Answer(h, "ok", request[h].sess, n)
    /\ UNCHANGED <<revoked, expired, browser, calm>>

(* createSession; the foreign key waits for a refresh of the same user. *)
CreateSession(h, s, n) ==
    /\ request[h].pc = "arrived" /\ request[h].kind = "login" /\ ~Waits
    /\ FreeRow(s) /\ Fresh(n)
    /\ hash' = [hash EXCEPT ![s] = n]
    /\ spent' = spent \ {n}
    /\ Answer(h, "ok", s, n)
    /\ UNCHANGED <<revoked, expired, browser, calm>>

WrongPassword(h) ==
    /\ request[h].pc = "arrived" /\ request[h].kind = "login"
    /\ Refuse(h)
    /\ UNCHANGED <<db, browser, calm>>

(* The request does not arrive, or a statement fails: nothing is written.  *)
Fail(h) ==
    /\ request[h].pc \notin {"idle", "reply"}
    /\ Break(h)
    /\ UNCHANGED <<db, browser, calm>>

(* The answer does not reach the browser, or the API does not learn of its *)
(* commit.                                                                 *)
Lose(h) ==
    /\ request[h].pc = "reply" /\ request[h].answer # "error"
    /\ Break(h)
    /\ calm' = (calm /\ ~ForCookie(h))
    /\ UNCHANGED <<db, browser>>

-----------------------------------------------------------------------------
(* What an answer does in the browser.                                     *)

Sets_AtLogin(r) == r.answer = "ok" /\ r.kind = "login"
Sets_Unchecked(r) == r.kind \in {"login", "refresh"}
Sets(r) == r.answer = "ok" /\ r.kind \in {"login", "refresh"}

Clears_OnError(r) ==
    \/ r.answer \in {"refused", "error"} /\ r.kind = "refresh"
    \/ r.answer = "ok" /\ r.kind = "logout"
Clears(r) ==
    \/ r.answer = "refused" /\ r.kind = "refresh" /\ r.token # Null
    \/ r.answer = "ok" /\ r.kind = "logout"

CookieAfter(r) == IF Sets(r) THEN r.gives ELSE IF Clears(r) THEN Null ELSE cookie

(* setSession(null). *)
Out(x) == [page |-> "out", access |-> Null]

TabAfter(x, r) ==
    CASE Sets(r) -> [page |-> "in", access |-> r.sess]
      [] r.kind = "logout" -> Out(x)
      [] r.kind = "refresh" /\ ~Sets(r) /\ x.page = "loading" -> Out(x)
      [] OTHER -> x

Deliver(h) ==
    LET r == request[h]
    IN  /\ r.pc = "reply" /\ r.tab # Null
        /\ r.kind # "use"
        /\ cookie' = CookieAfter(r)
        /\ tab' = [tab EXCEPT ![r.tab] = TabAfter(@, r)]
        /\ left' = IF r.kind = "logout" /\ r.answer # "error" /\ hash[r.sess] # Null
                   THEN left \cup {r.sess} ELSE left
        /\ request' = [request EXCEPT ![h] = IdleRequest]
        /\ UNCHANGED <<db, calm>>

(* A refused request is followed by a refresh, in the same call.           *)
Retry(h) ==
    LET r == request[h]
    IN  /\ r.pc = "reply" /\ r.tab # Null
        /\ r.kind = "use"
        /\ request' = [request EXCEPT ![h] = NewRequest("refresh", r.tab)]
        /\ calm' = (calm /\ Alone(h))
        /\ UNCHANGED <<db, browser>>

(* The tab gave the request up: only its cookie may still be taken.        *)
Drop(h) ==
    LET r == request[h]
    IN  /\ r.pc = "reply" /\ r.tab = Null
        /\ cookie' \in {cookie, CookieAfter(r)}
        /\ request' = [request EXCEPT ![h] = IdleRequest]
        /\ UNCHANGED <<db, tab, left, calm>>

-----------------------------------------------------------------------------
(* Time and retention.                                                     *)

(* Thirty days after the login: rotation does not extend a session. *)
Expire(s) ==
    /\ hash[s] # Null /\ s \notin expired
    /\ expired' = expired \cup {s}
    /\ UNCHANGED <<hash, revoked, spent, browser, request, calm>>

Purge(s) ==
    /\ s \in expired \cup revoked
    /\ \A g \in Requests : ~Holds(g, s)
    /\ hash' = [hash EXCEPT ![s] = Null]
    /\ revoked' = revoked \ {s} /\ expired' = expired \ {s}
    /\ left' = left \ {s}
    /\ UNCHANGED <<spent, cookie, tab, request, calm>>

-----------------------------------------------------------------------------
Act(t, h) == Open(t, h) \/ LogIn(t, h) \/ Use(t, h) \/ SignOut(t, h)

Serve(h) ==
    \/ Admit(h) \/ RefuseAccess(h) \/ Revoke(h)
    \/ Begin(h) \/ RefuseRefresh(h) \/ WrongPassword(h)
    \/ \E s \in Rows : Lock(h, s)
    \/ \E n \in Tokens : Rotate(h, n)
    \/ \E s \in Rows, n \in Tokens : CreateSession(h, s, n)
    \/ Deliver(h) \/ Retry(h) \/ Drop(h)

Fault(h) == Fail(h) \/ Lose(h)

Next ==
    \/ \E t \in Tabs, h \in Requests : Act(t, h)
    \/ \E h \in Requests : Serve(h) \/ Fault(h)
    \/ \E s \in Rows : Expire(s) \/ Purge(s)

Spec == Init /\ [][Next]_vars

-----------------------------------------------------------------------------
(* A refresh token is exchanged once: whoever is about to exchange it      *)
(* still has the token of the row, and the session is neither revoked nor  *)
(* deleted meanwhile (auth/service.go:145, 157).                           *)
UsedOnce ==
    \A h \in Requests : request[h].pc = "rotate" =>
        LET s == request[h].sess
        IN  /\ request[h].token \notin spent
            /\ hash[s] = request[h].token /\ s \notin revoked

(* While one request at a time is about the cookie and no answer is lost,  *)
(* the browser never keeps a spent token, unless the answer with the new   *)
(* one is on its way (auth/handler.go:106).                                *)
CookieSurvives ==
    calm => \/ cookie \notin spent
            \/ \E h \in Requests : /\ request[h].pc = "reply" /\ request[h].answer = "ok"
                                   /\ request[h].kind = "refresh" /\ request[h].token = cookie

Usable(k) == \E s \in Rows : hash[s] = k /\ Valid(s)

SignsOut(h) == request[h].kind = "logout" /\ request[h].answer = "ok"

(* Nor is a cookie that still works taken away, but by a sign-out in one   *)
(* of the tabs (auth/handler.go:98, 116).                                  *)
CookieKept ==
    [][calm' /\ cookie # Null /\ cookie' = Null
          => ~Usable(cookie) \/ \E h \in Requests : SignsOut(h)]_vars

(* docs/production.md:51: a session is revoked by logging out.             *)
SignOutRevokes ==
    left \subseteq revoked \cup expired
=============================================================================
