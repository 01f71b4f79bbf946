----------------------------- MODULE PageSession ----------------------------
(***************************************************************************)
(* The session as the tabs of one browser see it (web/src: app/App,        *)
(* api/client, features/auth/AuthPages, app/startupSnapshot and the        *)
(* handlers of features/settings/SettingsPage that begin or end a session).*)
(*                                                                         *)
(* A call is sent with the cookie and the token of that moment, served     *)
(* later, and its answer arrives later still; calls of one or several tabs *)
(* overlap, and an answer can be lost after the server has acted.  The     *)
(* tabs share the cookie and the storage, nothing else.                    *)
(***************************************************************************)
EXTENDS Integers, FiniteSets

CONSTANTS
    Tabs,
    SessionIds,
    CallIds,      \* bound: calls under way at the same time
    MaxTokens,    \* bound: how often the server issues a CSRF token
    NoTab,
    NoSession

\* A snapshot is told by the tab that saved it.
NoSnapshot == "none"
Unreadable == "unreadable"

\* What the query for the session has: nothing, what a snapshot held, with an empty
\* csrfToken, or the answer of the server.
NoData == "none"
Cached == "cached"

ASSUME PageSessionAssumption ==
    /\ {NoTab, NoSnapshot, Unreadable} \cap Tabs = {}
    /\ {NoSession, NoData, Cached} \cap SessionIds = {}
    /\ MaxTokens \in Nat

VARIABLES
    installed,  \* the server has been set up
    server,     \* the sessions of the server, with the token each asks for
    cookie,     \* the session cookie of the browser
    stored,     \* the startup snapshot in localStorage
    tabs,
    calls,
    issued      \* how many tokens the server has issued

sessionVars == <<installed, server, cookie, stored, tabs, calls, issued>>

NoToken == 0

\* holder (history): the tab that asked for the newest token and has not lost it.
ServerSession == [status : {"none", "open", "ended"}, token : 0..MaxTokens, holder : Tabs \cup {NoTab}]

\* data, failed: of the query for the session, whose error matters as long as there are
\* no data; today: the cache holds the day.
Tab == [meta : {"unknown", "new", "set"},
        data : {NoData, Cached} \cup SessionIds,
        failed : BOOLEAN, forced : BOOLEAN,
        csrf : 0..MaxTokens, today : BOOLEAN, on : {"today", "other"}]

Closed == [meta |-> "closed"]

IsOpen(t) == tabs[t] # Closed

Free == [kind |-> "free"]

\* session: the query; refresh: the same request made by refreshSession, which
\* no later one cancels.
Kinds == {"session", "refresh", "today", "patch", "logout", "login", "setup", "password", "restore"}
Unsafe == {"patch", "logout", "password", "restore"}
Renewing == {"session", "refresh"}

\* A 401 of authorize, with which the cookie goes: there is no open session, or the
\* store could not read it.  The page sees no difference; "wrong" is the 401 of a
\* password.
Denials == {"unauthorized", "unread"}

Call == {Free}
    \cup [kind : Kinds, tab : Tabs \cup {NoTab}, cookie : SessionIds \cup {NoSession},
          answer : {"none"}, token : 0..MaxTokens]
    \cup [kind : Kinds, tab : Tabs, cookie : SessionIds \cup {NoSession},
          answer : Denials \cup {"ok", "wrong", "refused"},
          token : 0..MaxTokens, session : SessionIds \cup {NoSession}]

SessionTypeOK ==
    /\ installed \in BOOLEAN
    /\ server \in [SessionIds -> ServerSession]
    /\ cookie \in SessionIds \cup {NoSession}
    /\ stored \in Tabs \cup {NoSnapshot, Unreadable}
    /\ tabs \in [Tabs -> Tab \cup {Closed}]
    /\ calls \in [CallIds -> Call]
    /\ issued \in 0..MaxTokens
    /\ \A c \in CallIds : calls[c] # Free /\ calls[c].tab # NoTab =>
          /\ IsOpen(calls[c].tab)
          /\ calls[c].kind = "today" => tabs[calls[c].tab].on = "today"

Unopened == [status |-> "none", token |-> NoToken, holder |-> NoTab]

\* A storage that another program version, or nobody, has written.
SessionInit ==
    /\ installed \in BOOLEAN
    /\ server = [s \in SessionIds |-> Unopened]
    /\ cookie = NoSession
    /\ stored \in {NoSnapshot, Unreadable}
    /\ tabs = [t \in Tabs |-> Closed]
    /\ calls = [c \in CallIds |-> Free]
    /\ issued = 0

-----------------------------------------------------------------------------
(* What a tab shows, and what it lets the user do *)

\* A query that was answered 401 has set forcedUnauthenticated too.
View(tab) ==
    IF tab.meta = "unknown" THEN "loading"
    ELSE IF tab.meta = "new" THEN "setup"
    ELSE IF tab.data = NoData /\ ~tab.failed THEN "loading"
    ELSE IF tab.forced THEN "login"
    ELSE IF tab.data = NoData THEN "failed"
    ELSE "app"

Shows(t, view) == IsOpen(t) /\ View(tabs[t]) = view

\* The frame is inert until the session is verified.
Usable(t) == Shows(t, "app") /\ tabs[t].data \in SessionIds

Under(c) == calls[c] # Free

\* Calls that tab t has under way.
Pending(t, kinds) == \E c \in CallIds : Under(c) /\ calls[c].tab = t /\ calls[c].kind \in kinds

\* A call nobody waits for any more; one that is not served yet may still be, which
\* makes a difference if it issues a token or sets the server up.  (One that ends a
\* session does what EndElsewhere does, and a login opens a session that nobody has.)
Orphan(k) ==
    IF k.answer = "none" /\ k.kind \in Renewing \cup {"setup"}
    THEN [k EXCEPT !.kind = IF @ = "refresh" THEN "session" ELSE @, !.tab = NoTab] ELSE Free

\* Tab t stops waiting for its calls of kinds.
Orphaned(table, t, kinds) ==
    [c \in CallIds |->
        IF table[c] # Free /\ table[c].tab = t /\ table[c].kind \in kinds
        THEN Orphan(table[c]) ELSE table[c]]

\* request: every call carries the cookie, which login and setup do not look at, and one
\* that changes something the token.
Sent(t, kind) ==
    [kind |-> kind, tab |-> t, answer |-> "none",
     cookie |-> IF kind \in {"login", "setup"} THEN NoSession ELSE cookie,
     token |-> IF kind \in Unsafe THEN tabs[t].csrf ELSE NoToken]

Send(c, t, kind) == calls' = [calls EXCEPT ![c] = Sent(t, kind)]

-----------------------------------------------------------------------------
(* Loading *)

\* A new page without a snapshot, and with one: hydrateStartupSnapshot.  today: it is
\* of the current day.
Blank == [meta |-> "unknown", data |-> NoData, failed |-> FALSE, forced |-> FALSE,
          csrf |-> NoToken, today |-> FALSE, on |-> "other"]

Hydrated(today) == [Blank EXCEPT !.meta = "set", !.data = Cached, !.today = today, !.on = "today"]

\* A tab is opened or loaded anew.  loadStartupSnapshot removes what it cannot
\* read, and what has expired by the clock of the browser.
Load(t) ==
    /\ \/ /\ stored' = NoSnapshot
          /\ tabs' = [tabs EXCEPT ![t] = Blank]
       \/ /\ stored \in Tabs
          /\ \E today \in BOOLEAN : tabs' = [tabs EXCEPT ![t] = Hydrated(today)]
          /\ UNCHANGED stored
    /\ calls' = Orphaned(calls, t, Kinds)
    /\ UNCHANGED <<installed, server, cookie, issued>>

\* The query of the metadata is answered.
LearnMeta(t) ==
    /\ IsOpen(t)
    /\ tabs[t].meta = "unknown"
    /\ tabs' = [tabs EXCEPT ![t].meta = IF installed THEN "set" ELSE "new"]
    /\ stored' = IF installed THEN stored ELSE NoSnapshot
    /\ UNCHANGED <<installed, server, cookie, calls, issued>>

\* The query of the session is sent: after the metadata, by the button of the error
\* and of the banner, and when the network is back.  One under way is cancelled
\* if there are data, and awaited otherwise.
FetchSession(c, t) ==
    /\ ~Under(c)
    /\ IsOpen(t)
    /\ tabs[t].meta = "set"
    /\ \/ View(tabs[t]) \in {"loading", "failed"} /\ ~Pending(t, {"session"})
       \/ View(tabs[t]) = "app"
    /\ calls' = [Orphaned(calls, t, {"session"}) EXCEPT ![c] = Sent(t, "session")]
    /\ tabs' = [tabs EXCEPT ![t].failed = FALSE]
    /\ UNCHANGED <<installed, server, cookie, stored, issued>>

\* saveTodayStartupSnapshot, for the tab as it is then.
Saved(t, tab) ==
    IF View(tab) = "app" /\ tab.on = "today" /\ tab.today /\ tab.data \in SessionIds
    THEN t ELSE stored

\* The user goes to the page of today, whose data are fetched, or leaves it.
GoToday(c, t) ==
    /\ ~Under(c)
    /\ Usable(t)
    /\ tabs[t].on = "other"
    /\ tabs' = [tabs EXCEPT ![t].on = "today"]
    /\ stored' = Saved(t, tabs'[t])
    /\ Send(c, t, "today")
    /\ UNCHANGED <<installed, server, cookie, issued>>

\* Faulty variant: the fetch goes on without the page it is for.
LeaveFetching(t) ==
    /\ Usable(t)
    /\ tabs[t].on = "today"
    /\ tabs' = [tabs EXCEPT ![t].on = "other"]
    /\ UNCHANGED <<installed, server, cookie, stored, calls, issued>>

Leave(t) ==
    /\ Usable(t)
    /\ tabs[t].on = "today"
    /\ tabs' = [tabs EXCEPT ![t].on = "other"]
    /\ calls' = Orphaned(calls, t, {"today"})
    /\ UNCHANGED <<installed, server, cookie, stored, issued>>

\* Midnight: what is cached is of another day.
NextDay(t) ==
    /\ IsOpen(t)
    /\ tabs[t].today
    /\ tabs' = [tabs EXCEPT ![t].today = FALSE]
    /\ UNCHANGED <<installed, server, cookie, stored, calls, issued>>

-----------------------------------------------------------------------------
(* What the user submits *)

\* A button that shows its call under way does nothing; two patches can overlap,
\* since the choice of the theme stays enabled.
Submit(c, t, kind) ==
    /\ ~Under(c)
    /\ CASE kind = "setup" -> Shows(t, "setup")
         [] kind = "login" -> Shows(t, "login")
         [] OTHER -> Usable(t) /\ tabs[t].on = "other"
    /\ kind = "patch" \/ ~Pending(t, {kind})
    /\ Send(c, t, kind)
    /\ UNCHANGED <<installed, server, cookie, stored, tabs, issued>>

-----------------------------------------------------------------------------
(* The server *)

\* authorize, if Authenticate can read the session and the credential.
Authorized(k) == k.cookie # NoSession /\ server[k.cookie].status = "open"

Answer(c, answer, s, token) ==
    calls' = [calls EXCEPT ![c] =
        IF @.tab = NoTab THEN Free
        ELSE [kind |-> @.kind, tab |-> @.tab, cookie |-> @.cookie, answer |-> answer,
              token |-> token, session |-> s]]

Fail(c, answer) ==
    /\ Answer(c, answer, NoSession, NoToken)
    /\ UNCHANGED <<installed, server, issued>>

Issue == issued < MaxTokens /\ issued' = issued + 1

\* The token of a session that is not open any more is of no use.
Over == [status |-> "ended", token |-> NoToken, holder |-> NoTab]

Ended(table, ended) ==
    [s \in SessionIds |-> IF s \in ended THEN Over ELSE table[s]]

Others(s) == {r \in SessionIds \ {s} : server[r].status = "open"}

\* A session with a new token is opened by Login, or by the first Setup.
ServeOpening(c) ==
    LET k == calls[c] IN
    /\ k.kind \in {"login", "setup"} /\ k.answer = "none"
    /\ \/ /\ k.kind = "login" <=> installed
          /\ Issue
          /\ \E s \in SessionIds :
                /\ server[s].status = "none"
                /\ server' = [server EXCEPT ![s] = [status |-> "open", token |-> issued',
                                                   holder |-> k.tab]]
                /\ Answer(c, "ok", s, issued')
          /\ installed' = TRUE
       \/ k.kind = "login" /\ Fail(c, "wrong")
       \/ k.kind = "setup" /\ installed /\ Fail(c, "refused")
    /\ UNCHANGED <<cookie, stored, tabs>>

\* Authenticate, whose every error of the store is answered like the end of the session.
Deny(c) ==
    \/ ~Authorized(calls[c]) /\ Fail(c, "unauthorized")
    \/ Authorized(calls[c]) /\ Fail(c, "unread")

\* RefreshSession.  Two requests of one tab that can both be answered leave it
\* with the token of the later answer, not of the later request.
ServeRenewing(c) ==
    LET k == calls[c]
        rival == \E d \in CallIds \ {c} :
                    Under(d) /\ calls[d].tab = k.tab /\ calls[d].kind \in Renewing
    IN
    /\ k.kind \in Renewing /\ k.answer = "none"
    /\ \/ /\ Authorized(k)
          /\ Issue
          /\ server' = [server EXCEPT ![k.cookie].token = issued',
                                      ![k.cookie].holder = IF rival THEN NoTab ELSE k.tab]
          /\ Answer(c, "ok", k.cookie, issued')
          /\ UNCHANGED installed
       \/ Deny(c)
    /\ UNCHANGED <<cookie, stored, tabs>>

\* The sessions that a call which is carried out ends.
Ends(k) ==
    CASE k.kind = "logout" -> {k.cookie}
      [] k.kind = "password" -> Others(k.cookie)
      [] k.kind = "restore" -> Others(k.cookie) \cup {k.cookie}
      [] OTHER -> {}

\* The other calls: authorization, the token, the password if there is one, the
\* handler.
ServeOther(c) ==
    LET k == calls[c] IN
    /\ k.kind \in Unsafe \cup {"today"} /\ k.answer = "none"
    /\ \/ Deny(c)
       \/ /\ Authorized(k) /\ k.kind \in Unsafe /\ k.token # server[k.cookie].token
          /\ Fail(c, "refused")
       \/ /\ Authorized(k) /\ (k.kind \in Unsafe => k.token = server[k.cookie].token)
          /\ \/ /\ server' = Ended(server, Ends(k))
                /\ Answer(c, "ok", NoSession, NoToken)
                /\ UNCHANGED <<installed, issued>>
             \/ k.kind = "password" /\ Fail(c, "wrong")
    /\ UNCHANGED <<cookie, stored, tabs>>

\* Another device, the command line or time ends a session.
EndElsewhere(s) ==
    /\ server[s].status = "open"
    /\ server' = Ended(server, {s})
    /\ UNCHANGED <<installed, cookie, stored, tabs, calls, issued>>

-----------------------------------------------------------------------------
(* The answers *)

Answered(c, answer, kinds) ==
    /\ Under(c)
    /\ calls[c].answer = answer
    /\ calls[c].kind \in kinds

Taken(c) == [calls EXCEPT ![c] = Free]

\* Faulty variant: the snapshot outlives the session.
ArriveUnauthorizedKeepingSnapshot(c) ==
    LET t == calls[c].tab IN
    /\ \E answer \in Denials \cup {"wrong"} : Answered(c, answer, Kinds)
    /\ cookie' = IF calls[c].answer \in Denials /\ calls[c].cookie # NoSession
                 THEN NoSession ELSE cookie
    /\ tabs' = [tabs EXCEPT ![t].csrf = NoToken, ![t].forced = TRUE, ![t].on = "other",
                            ![t].failed = @ \/ (calls[c].kind = "session" /\ tabs[t].data = NoData)]
    /\ calls' = Orphaned(Taken(c), t, {"today"})
    /\ UNCHANGED <<installed, server, stored, issued>>

\* Faulty variant: a wrong password takes the cookie away too.
ArriveUnauthorizedDroppingCookie(c) ==
    LET t == calls[c].tab IN
    /\ \E answer \in Denials \cup {"wrong"} : Answered(c, answer, Kinds)
    /\ cookie' = NoSession
    /\ stored' = NoSnapshot
    /\ tabs' = [tabs EXCEPT ![t].csrf = NoToken, ![t].forced = TRUE, ![t].on = "other",
                            ![t].failed = @ \/ (calls[c].kind = "session" /\ tabs[t].data = NoData)]
    /\ calls' = Orphaned(Taken(c), t, {"today"})
    /\ UNCHANGED <<installed, server, issued>>

\* onUnauthorized, for whichever call is answered 401.  authorize has taken the
\* cookie away if it was one; a wrong password leaves it.  What the frame had
\* mounted goes, with the queries of it.
ArriveUnauthorized(c) ==
    LET t == calls[c].tab IN
    /\ \E answer \in Denials \cup {"wrong"} : Answered(c, answer, Kinds)
    /\ cookie' = IF calls[c].answer \in Denials /\ calls[c].cookie # NoSession
                 THEN NoSession ELSE cookie
    /\ stored' = NoSnapshot
    /\ tabs' = [tabs EXCEPT ![t].csrf = NoToken, ![t].forced = TRUE, ![t].on = "other",
                            ![t].failed = @ \/ (calls[c].kind = "session" /\ tabs[t].data = NoData)]
    /\ calls' = Orphaned(Taken(c), t, {"today"})
    /\ UNCHANGED <<installed, server, issued>>

\* 403 or 409: the form shows it, and nothing else happens.
ArriveRefused(c) ==
    /\ Answered(c, "refused", Kinds)
    /\ calls' = Taken(c)
    /\ UNCHANGED <<installed, server, cookie, stored, tabs, issued>>

\* Faulty variant: the token is taken over at the first verification only.
ArriveSessionFirst(c) ==
    LET k == calls[c] IN
    /\ Answered(c, "ok", Renewing)
    /\ tabs' = [tabs EXCEPT ![k.tab].data = k.session,
                            ![k.tab].failed = FALSE, ![k.tab].forced = FALSE,
                            ![k.tab].csrf = IF @ = NoToken THEN k.token ELSE @]
    /\ stored' = Saved(k.tab, tabs'[k.tab])
    /\ calls' = Taken(c)
    /\ UNCHANGED <<installed, server, cookie, issued>>

\* The effect on the data of the session, and refreshSession: token and settings
\* are taken over, and a page of today that is shown saves the snapshot again.
ArriveSession(c) ==
    LET k == calls[c] IN
    /\ Answered(c, "ok", Renewing)
    /\ tabs' = [tabs EXCEPT ![k.tab].data = k.session,
                            ![k.tab].failed = FALSE, ![k.tab].forced = FALSE,
                            ![k.tab].csrf = k.token]
    /\ stored' = Saved(k.tab, tabs'[k.tab])
    /\ calls' = Taken(c)
    /\ UNCHANGED <<installed, server, cookie, issued>>

ArriveToday(c) ==
    LET t == calls[c].tab IN
    /\ Answered(c, "ok", {"today"})
    /\ tabs' = [tabs EXCEPT ![t].today = TRUE]
    /\ stored' = Saved(t, tabs'[t])
    /\ calls' = Taken(c)
    /\ UNCHANGED <<installed, server, cookie, issued>>

\* The settings were changed: the session is requested again, by no query.
ArrivePatch(c) ==
    /\ Answered(c, "ok", {"patch"})
    /\ calls' = [calls EXCEPT ![c] = Sent(calls[c].tab, "refresh")]
    /\ UNCHANGED <<installed, server, cookie, stored, tabs, issued>>

ArrivePassword(c) ==
    /\ Answered(c, "ok", {"password"})
    /\ calls' = Taken(c)
    /\ UNCHANGED <<installed, server, cookie, stored, tabs, issued>>

\* The result of LoginPage and SetupPage: the query of the session is sent again,
\* and after it the entry page is shown.
ArriveOpened(c) ==
    LET k == calls[c] IN
    /\ Answered(c, "ok", {"login", "setup"})
    /\ cookie' = k.session
    /\ tabs' = [tabs EXCEPT ![k.tab].csrf = k.token, ![k.tab].meta = "set", ![k.tab].on = "other",
                            ![k.tab].failed = FALSE]
    /\ calls' = [Orphaned(Taken(c), k.tab, {"session", "today"}) EXCEPT ![c] =
                    [kind |-> "session", tab |-> k.tab, cookie |-> k.session, answer |-> "none",
                     token |-> NoToken]]
    /\ UNCHANGED <<installed, server, stored, issued>>

\* The cache is emptied, and metadata and session are loaded again.
ArriveLogout(c) ==
    LET t == calls[c].tab IN
    /\ Answered(c, "ok", {"logout"})
    /\ cookie' = NoSession
    /\ stored' = NoSnapshot
    /\ tabs' = [tabs EXCEPT ![t].meta = "unknown", ![t].data = NoData, ![t].failed = FALSE,
                            ![t].today = FALSE, ![t].on = "other"]
    /\ calls' = Orphaned(Taken(c), t, {"session", "today"})
    /\ UNCHANGED <<installed, server, issued>>

\* The same after a restore, which loads the page anew.
ArriveRestore(c) ==
    LET t == calls[c].tab IN
    /\ Answered(c, "ok", {"restore"})
    /\ cookie' = NoSession
    /\ stored' = NoSnapshot
    /\ tabs' = [tabs EXCEPT ![t] = Blank]
    /\ calls' = Orphaned(Taken(c), t, Kinds)
    /\ UNCHANGED <<installed, server, issued>>

\* The network fails, or the time for the answer is over; the server may have
\* acted, or act still.
Lose(c) ==
    LET k == calls[c] IN
    /\ Under(c) /\ k.tab # NoTab
    /\ tabs' = IF k.kind = "session" /\ tabs[k.tab].data = NoData
               THEN [tabs EXCEPT ![k.tab].failed = TRUE] ELSE tabs
    /\ calls' = [calls EXCEPT ![c] = Orphan(k)]
    /\ server' = [s \in SessionIds |->
                    IF server[s].holder = k.tab /\ k.kind \in Renewing \cup {"login", "setup"}
                    THEN [server[s] EXCEPT !.holder = NoTab] ELSE server[s]]
    /\ UNCHANGED <<installed, cookie, stored, issued>>

-----------------------------------------------------------------------------

SessionNext ==
    \/ \E t \in Tabs : Load(t) \/ LearnMeta(t) \/ Leave(t) \/ NextDay(t)
    \/ \E s \in SessionIds : EndElsewhere(s)
    \/ \E c \in CallIds :
          \/ \E t \in Tabs :
                \/ FetchSession(c, t) \/ GoToday(c, t)
                \/ \E kind \in Unsafe \cup {"login", "setup"} : Submit(c, t, kind)
          \/ ServeOpening(c) \/ ServeRenewing(c) \/ ServeOther(c)
          \/ ArriveUnauthorized(c) \/ ArriveRefused(c) \/ ArriveSession(c) \/ ArriveToday(c)
          \/ ArrivePatch(c) \/ ArrivePassword(c) \/ ArriveOpened(c) \/ ArriveLogout(c)
          \/ ArriveRestore(c) \/ Lose(c)

SessionSpec == SessionInit /\ [][SessionNext]_sessionVars

-----------------------------------------------------------------------------
(* Properties *)

\* A tab that asks for the password has left no snapshot of the ledger behind,
\* whichever answer, of whichever of its calls, told it that the session is over.
\* (Another tab that has not been told yet may save one again.)
NoSnapshotBehindLogin ==
    \A t \in Tabs : Shows(t, "login") => stored # t

\* A tab that waits for no answer, and was the last to have its token renewed, is
\* able to write: it holds the token the server asks for.  Out of this are a lost
\* answer and two renewals of one tab that overlapped.
QuietTabCanWrite ==
    \A t \in Tabs, s \in SessionIds :
        /\ Usable(t) /\ ~Pending(t, Kinds)
        /\ tabs[t].data = s
        /\ server[s].status = "open" /\ server[s].holder = t
        => tabs[t].csrf = server[s].token

\* A browser loses the cookie of a session that is still open only by logging out
\* or in, by a restore, by a read of that session that failed, or by the late answer
\* to a call made with the cookie of an earlier login.  A wrong password, a call made
\* without a cookie, and the end of another session do not cost it.
LoginIsKept ==
    [][ cookie # NoSession /\ server[cookie].status = "open" /\ cookie' # cookie =>
            \E c \in CallIds :
                /\ calls[c] # Free /\ calls'[c] # calls[c]
                /\ \/ /\ calls[c].answer = "ok"
                      /\ calls[c].kind \in {"logout", "login", "setup", "restore"}
                   \/ calls[c].answer = "unread"
                   \/ /\ calls[c].answer = "unauthorized"
                      /\ calls[c].cookie \notin {cookie, NoSession} ]_sessionVars
=============================================================================
