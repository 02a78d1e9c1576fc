--------------------------- MODULE BrowserSession ---------------------------
(***************************************************************************)
(* The session of one browser (frontend lib/api.ts and lib/auth.tsx, the   *)
(* cookie of controllers/auth.controller.ts) against the server of         *)
(* AuthService: tabs that share a cookie and nothing else, each with an    *)
(* access token, a user on show and at most one refresh under way.         *)
(*                                                                         *)
(* A call to the API is a slot of AuthService with a fetch around it: it   *)
(* is sent with what the browser holds at that moment, served some time    *)
(* later, and its answer is taken later still, or lost.  Calls that only   *)
(* read are not here: what matters of them is that their 401 starts a      *)
(* refresh, which may come at any time.  Users of this browser type the    *)
(* right password, so no login is answered 401.                            *)
(***************************************************************************)
EXTENDS AuthService

CONSTANTS
    Tabs,   \* pages of the application open in the browser
    NoTab,  \* a page that is gone
    MayLose \* whether calls and answers may get lost

ASSUME BrowserAssumption == NoTab \notin Tabs /\ MayLose \in BOOLEAN

VARIABLES
    cookie,  \* the refresh cookie
    tab,     \* what each page keeps in memory
    fetch,   \* the calls under way, by the slot that serves them
    ended,   \* history: the family the last logout ended
    mishaps  \* history: what went wrong or met something else

browserVars == <<cookie, tab, fetch, ended, mishaps>>
allVars == <<vars, browserVars>>

-----------------------------------------------------------------------------
(* State                                                                   *)

\* page: AuthProvider.isLoading; refreshing: there is a refreshPromise.
Tab == [page: {"loading", "ready"}, token: Pairs \cup {NoPair},
        user: Users \cup {NoUser}, refreshing: BOOLEAN]
NewTab ==
    [page |-> "loading", token |-> NoPair, user |-> NoUser, refreshing |-> FALSE]

\* cookie and access are what the call carries; pair is what it is answered.
Fetch ==
    [call: {"none", "login", "refresh", "logout"},
     phase: {"sent", "served", "answered"}, tab: Tabs \cup {NoTab},
     user: Users \cup {NoUser}, cookie: Pairs \cup {NoPair},
     access: Pairs \cup {NoPair}, ok: BOOLEAN, pair: Pairs \cup {NoPair}]
NoFetch ==
    [call |-> "none", phase |-> "sent", tab |-> NoTab, user |-> NoUser,
     cookie |-> NoPair, access |-> NoPair, ok |-> FALSE, pair |-> NoPair]

Mishap == {"two pages", "lost", "crossed"}

BrowserTypeOK ==
    /\ TypeOK
    /\ cookie \in Pairs \cup {NoPair}
    /\ tab \in [Tabs -> Tab]
    /\ fetch \in [Requests -> Fetch]
    /\ ended \in Pairs \cup {NoPair}
    /\ mishaps \in SUBSET Mishap

\* Everybody has an account; nobody has opened the application yet.
BrowserInit ==
    /\ Init /\ \A u \in Users : password[u] \in Passwords
    /\ cookie = NoPair
    /\ tab = [b \in Tabs |-> NewTab]
    /\ fetch = [s \in Requests |-> NoFetch]
    /\ ended = NoPair
    /\ mishaps = {}

Speaks(t) == t # NoPair /\ session[t].access = "valid"
Flying(s, phase) == fetch[s].call # "none" /\ fetch[s].phase = phase
Met(what, condition) == IF condition THEN {what} ELSE {}

-----------------------------------------------------------------------------
(* Calls                                                                   *)

\* fetch() with credentials: 'include'.  One slot serves one call, and calls
\* are given the slots that are free.
Send(s, call, b, u, access) ==
    /\ fetch[s] = NoFetch
    /\ fetch' = [fetch EXCEPT ![s] = [NoFetch EXCEPT
            !.call = call, !.tab = b, !.user = u, !.cookie = cookie,
            !.access = access]]

\* refreshAccessToken, at the mount of a page or after a 401, unless one is
\* under way in this page: then the caller awaits that one.
MayRefresh_Again(b) == TRUE
MayRefresh(b) == ~tab[b].refreshing

\* A page asks at its mount, and after a 401.  While a user is on show a 401
\* may come at any time: of a token that ran out or was denied, or late, of
\* the token before this one.
AsksRefresh(b) ==
    \/ tab[b].user # NoUser
    \/ tab[b].page = "loading" /\ ~Speaks(tab[b].token)

SendRefresh(b, s) ==
    /\ MayRefresh(b)
    /\ AsksRefresh(b)
    /\ Send(s, "refresh", b, NoUser, NoPair)
    /\ tab' = [tab EXCEPT ![b].refreshing = TRUE]
    /\ mishaps' = mishaps \cup Met("two pages",
            \E r \in Requests : fetch[r].call = "refresh" /\ fetch[r].tab # b)
    /\ UNCHANGED <<vars, cookie, ended>>

\* The login form, once it is known that there is no session to restore.
ShowsLogin(b) == tab[b].page = "ready" /\ tab[b].user = NoUser
Submitting(b) == \E s \in Requests : fetch[s].call = "login" /\ fetch[s].tab = b

SendLogin(b, s, u) ==
    /\ ShowsLogin(b) /\ ~Submitting(b)
    /\ Send(s, "login", b, u, tab[b].token)
    /\ UNCHANGED <<vars, cookie, tab, ended, mishaps>>

SendLogout(b, s) ==
    /\ tab[b].user # NoUser
    /\ \A r \in Requests : fetch[r].call = "logout" => fetch[r].tab # b
    /\ Send(s, "logout", b, NoUser, tab[b].token)
    /\ UNCHANGED <<vars, cookie, tab, ended, mishaps>>

\* F5, or the tab is closed and another opened: what is in memory is gone,
\* and nobody waits for the answers of the old page.
Orphan(f) == IF f.call = "none" THEN f ELSE [f EXCEPT !.tab = NoTab]

Reload(b) ==
    /\ tab[b] # NewTab
    /\ tab' = [tab EXCEPT ![b] = NewTab]
    /\ fetch' = [s \in Requests |->
            IF fetch[s].tab = b THEN Orphan(fetch[s]) ELSE fetch[s]]
    /\ UNCHANGED <<vars, cookie, ended, mishaps>>

-----------------------------------------------------------------------------
(* The server                                                              *)

\* What the call carried is forgotten when nothing depends on it any more.
Served(s) ==
    fetch' = [fetch EXCEPT ![s].phase = "served", ![s].access = NoPair,
            ![s].cookie = IF fetch[s].call = "logout" THEN @ ELSE NoPair]
Answered(s, ok, t) ==
    fetch' = [fetch EXCEPT ![s].phase = "answered", ![s].access = NoPair,
            ![s].cookie = IF fetch[s].call = "logout" /\ ok THEN @ ELSE NoPair,
            ![s].ok = ok, ![s].pair = t]

\* readAccessTokenClaims: to a logout, a token that ran out is no token.
ReadAccessTokenClaims(f) ==
    IF f.access # NoPair /\ session[f.access].access = "expired"
    THEN NoPair ELSE f.access

\* A refresh with no cookie, or with one that is refused, changes nothing; a
\* logout is answered 204 whatever it carries.
Arrive(s) ==
    /\ Flying(s, "sent")
    /\ LET f == fetch[s]
           known == f.cookie # NoPair
           a == ReadAccessTokenClaims(f)
       IN  \/ /\ f.call = "refresh"
              /\ IF known /\ ~Refused(f.cookie)
                 THEN PresentToken(s, f.cookie) /\ Served(s)
                 ELSE Answered(s, FALSE, NoPair) /\ UNCHANGED vars
           \/ /\ f.call = "login"
              /\ CheckAttempts(s, f.user, password[f.user]) /\ Served(s)
           \/ /\ f.call = "logout"
              /\ IF known \/ a # NoPair
                 THEN AskLogout(s, f.cookie, a) /\ Served(s)
                 ELSE Answered(s, TRUE, NoPair) /\ UNCHANGED vars
    /\ UNCHANGED <<cookie, tab, ended, mishaps>>

\* A refresh of the family has been let through and has not rotated yet.
Rotating(t) ==
    \E s \in Requests :
        At(s, "rotate") /\ session[req[s].pair].family = session[t].family

\* The steps of AuthService that end a request, with what it is answered.
Serve(s) ==
    /\ Flying(s, "served")
    /\ \/ Verify(s) /\ UNCHANGED fetch
       \/ (ClearFailures(s) \/ UpgradeHash(s)) /\ UNCHANGED fetch
       \/ \E t \in Pairs : (OpenSession(s, t) \/ Rotate(s, t)) /\ Answered(s, TRUE, t)
       \/ RaiseAlarm(s) /\ Answered(s, FALSE, NoPair)
       \/ /\ EndFamily(s)
          /\ IF req'[s] = Idle THEN Answered(s, TRUE, NoPair) ELSE UNCHANGED fetch
       \/ DenyAccess(s) /\ Answered(s, TRUE, NoPair)
    /\ mishaps' = mishaps \cup Met("crossed", At(s, "end") /\ Rotating(req[s].pair))
    /\ UNCHANGED <<cookie, tab, ended>>

\* 503.  (To the browser a 500 is a call that is lost.)
ServerBusy(s) ==
    /\ Flying(s, "served")
    /\ Busy(s)
    /\ Answered(s, FALSE, NoPair)
    /\ UNCHANGED <<cookie, tab, ended, mishaps>>

-----------------------------------------------------------------------------
(* Answers                                                                 *)

Done(s) == fetch' = [fetch EXCEPT ![s] = NoFetch]

\* Set-Cookie of login and refresh, clearCookie of logout; a failure leaves
\* the cookie alone.
CookieAfter(f) == IF f.ok THEN f.pair ELSE cookie

\* The end of refreshAccessToken, and of restoreSession if it waits for it.
AfterRefresh(v, f) ==
    [v EXCEPT !.token = f.pair, !.refreshing = FALSE,
              !.page = IF f.ok THEN @ ELSE "ready"]

AfterLogin(v, f) ==
    IF f.ok THEN [v EXCEPT !.token = f.pair, !.user = f.user] ELSE v

\* `finally`: also when the call failed.
AfterLogout(v) == [v EXCEPT !.token = NoPair, !.user = NoUser]

After(v, f) ==
    CASE f.call = "refresh" -> AfterRefresh(v, f)
      [] f.call = "login"   -> AfterLogin(v, f)
      [] f.call = "logout"  -> AfterLogout(v)

ToTab(f) == IF f.tab = NoTab THEN tab ELSE [tab EXCEPT ![f.tab] = After(@, f)]

TakeAnswer(s) ==
    LET f == fetch[s]
    IN  /\ Flying(s, "answered")
        /\ cookie' = CookieAfter(f)
        /\ tab' = ToTab(f)
        /\ ended' = CASE f.call = "logout" /\ f.ok /\ f.cookie # NoPair ->
                            session[f.cookie].family
                      [] f.call = "login" /\ f.ok -> NoPair
                      [] OTHER -> ended
        /\ Done(s)
        /\ UNCHANGED <<vars, mishaps>>

\* The connection breaks, before the call arrives or after it is served: for
\* the page a failure like any other, and the cookie is not written.
LoseAnswer(s) ==
    LET f == [fetch[s] EXCEPT !.ok = FALSE, !.pair = NoPair]
    IN  /\ MayLose
        /\ Flying(s, "sent") \/ Flying(s, "answered")
        /\ tab' = ToTab(f)
        /\ Done(s)
        /\ mishaps' = mishaps \cup {"lost"}
        /\ UNCHANGED <<vars, cookie, ended>>

\* restoreSession asks /auth/me whose token it got.
LoadUser(b) ==
    /\ tab[b].page = "loading" /\ ~tab[b].refreshing
    /\ Speaks(tab[b].token)
    /\ tab' = [tab EXCEPT ![b].page = "ready",
                          ![b].user = session[tab[b].token].user]
    /\ UNCHANGED <<vars, cookie, fetch, ended, mishaps>>

\* That call failed, for whatever reason.
GiveUp(b) ==
    /\ MayLose
    /\ tab[b].page = "loading" /\ ~tab[b].refreshing
    /\ tab[b].token # NoPair
    /\ tab' = [tab EXCEPT ![b].page = "ready", ![b].token = NoPair]
    /\ UNCHANGED <<vars, cookie, fetch, ended, mishaps>>

-----------------------------------------------------------------------------

\* Nobody notices when another token runs out.
Held(t) ==
    \/ \E b \in Tabs : tab[b].token = t
    \/ \E s \in Requests : fetch[s].access = t \/ req[s].access = t

BrowserNext ==
    \/ \E b \in Tabs :
        \/ \E s \in Requests :
            \/ SendRefresh(b, s)
            \/ \E u \in Users : SendLogin(b, s, u)
            \/ SendLogout(b, s)
        \/ Reload(b)
        \/ LoadUser(b) \/ GiveUp(b)
    \/ \E s \in Requests :
        Arrive(s) \/ Serve(s) \/ ServerBusy(s) \/ TakeAnswer(s) \/ LoseAnswer(s)
    \/ \E t \in Pairs : Held(t) /\ AccessExpires(t) /\ UNCHANGED browserVars

BrowserSpec == BrowserInit /\ [][BrowserNext]_allVars

-----------------------------------------------------------------------------
(* What must hold                                                          *)

\* It takes two pages that refresh at once, which no page knows of the other
\* (a page reloaded while it refreshes is two), or an answer that got lost,
\* for an honest browser to present a spent token and be taken for a thief:
\* one page alone never does.
HonestRaisesNoAlarm ==
    {"two pages", "lost"} \cap mishaps = {} => \A t \in Pairs : alarms[t] = 0

\* After a logout that was answered, whatever cookie an answer still under
\* way writes is of a family that is dead: the next person at the computer
\* finds no session to restore.  Only a rotation the logout crossed saves one.
LogoutSticks ==
    ended # NoPair /\ "crossed" \notin mishaps =>
        \A t \in Members(ended) : session[t].revoked

-----------------------------------------------------------------------------
(* What the repository says and the code does not do                       *)

\* "A legitimate client therefore never presents a spent token - it always
\* holds the newest one" (auth.service.ts:203-204): with two pages open it
\* may, though nothing is lost.
LegitimateNeverSpent == \A t \in Pairs : alarms[t] = 0
=============================================================================
