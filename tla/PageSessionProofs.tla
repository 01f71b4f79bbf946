-------------------------- MODULE PageSessionProofs -------------------------
(***************************************************************************)
(* For any number of tabs, sessions, calls and tokens: the state is well   *)
(* typed, a tab that asks for the password leaves no snapshot behind, a    *)
(* quiet tab holds the token the server asks for, and the cookie of an     *)
(* open session is kept.                                                   *)
(***************************************************************************)
EXTENDS PageSession, TLAPS

(* The invariant: what a call and a tab have to do with the server *)

Known(s, sv) == s = NoSession \/ sv[s].status # "none"

\* An answer names the session it renewed.  A 401 for a reason other than a failed
\* read goes only to a cookie whose session has ended for good.
Told(k, sv) ==
    /\ Known(k.session, sv)
    /\ k.answer = "ok" /\ k.kind \in Renewing => k.session \in SessionIds
    /\ k.answer = "refused" => k.kind \notin Renewing
    /\ k.answer = "unauthorized" /\ k.cookie # NoSession => sv[k.cookie].status = "ended"

Attended(k, tb) ==
    k.tab # NoTab => tb[k.tab] # Closed /\ (k.kind = "today" => tb[k.tab].on = "today")

CallOK(k, sv, tb) ==
    /\ k \in Call
    /\ k # Free => /\ Known(k.cookie, sv)
                   /\ Attended(k, tb)
                   /\ k.answer # "none" => Told(k, sv)

\* A tab that was told that the session is over has no snapshot, whether or not it
\* shows the login already.
TabOK(tab, t, sv, snapshot) ==
    /\ tab # Closed /\ tab.forced => snapshot # t
    /\ tab # Closed => tab.data \notin SessionIds \/ sv[tab.data].status # "none"

SessionInv ==
    /\ installed \in BOOLEAN
    /\ server \in [SessionIds -> ServerSession]
    /\ cookie \in SessionIds \cup {NoSession} /\ Known(cookie, server)
    /\ stored \in Tabs \cup {NoSnapshot, Unreadable}
    /\ issued \in 0..MaxTokens
    /\ tabs \in [Tabs -> Tab \cup {Closed}]
    /\ calls \in [CallIds -> Call]
    /\ \A t \in Tabs : TabOK(tabs[t], t, server, stored)
    /\ \A c \in CallIds : CallOK(calls[c], server, tabs)

\* A session is opened once, and over for good when it is over.
Onward(sv, next) ==
    \A s \in SessionIds :
        /\ sv[s].status # "none" => next[s].status # "none"
        /\ sv[s].status = "ended" => next[s].status = "ended"

-----------------------------------------------------------------------------
(* Lemmas about calls and tabs *)

LEMMA CallShape ==
    ASSUME NEW k \in Call
    PROVE  /\ k # Free =>
                /\ k.kind \in Kinds
                /\ k.tab \in Tabs \cup {NoTab}
                /\ k.cookie \in SessionIds \cup {NoSession}
                /\ k.answer \in Denials \cup {"none", "ok", "wrong", "refused"}
                /\ k.token \in 0..MaxTokens
                /\ k.answer # "none" =>
                      k.tab \in Tabs /\ k.session \in SessionIds \cup {NoSession}
                /\ k.answer = "none" =>
                      k \in [kind : Kinds, tab : Tabs \cup {NoTab},
                             cookie : SessionIds \cup {NoSession}, answer : {"none"},
                             token : 0..MaxTokens]
           /\ k.kind \in Kinds => k # Free
           /\ k # Free => k.kind \in Kinds
BY DEF Call, Free, Kinds, Denials

LEMMA NoTabIsNone == NoTab \notin Tabs /\ NoSession \notin SessionIds
BY PageSessionAssumption

\* What becomes of a call nobody waits for any more: it belongs to no tab.
LEMMA OrphanOK ==
    ASSUME NEW k, NEW sv, NEW tb, CallOK(k, sv, tb), k # Free, NEW next
    PROVE  CallOK(Orphan(k), sv, next)
<1>1. CASE k.answer = "none" /\ k.kind \in Renewing \cup {"setup"}
  <2>1. k \in [kind : Kinds, tab : Tabs \cup {NoTab}, cookie : SessionIds \cup {NoSession},
               answer : {"none"}, token : 0..MaxTokens]
      BY <1>1, CallShape DEF CallOK
  <2>2. /\ Orphan(k) \in Call
        /\ Orphan(k).tab = NoTab /\ Orphan(k).cookie = k.cookie /\ Orphan(k).answer = "none"
      BY <1>1, <2>1 DEF Orphan, Call, Kinds
  <2> QED  BY <2>2 DEF CallOK, Attended
<1>2. CASE ~(k.answer = "none" /\ k.kind \in Renewing \cup {"setup"})
    BY <1>2 DEF Orphan, CallOK, Call
<1> QED  BY <1>1, <1>2

LEMMA CallKept ==
    ASSUME NEW k, NEW sv, NEW tb, CallOK(k, sv, tb), NEW next, Onward(sv, next),
           NEW new, k # Free => Attended(k, new)
    PROVE  CallOK(k, next, new)
BY CallShape DEF CallOK, Told, Known, Onward

\* Tab t goes on as tab, and its calls of kinds are orphaned, if any.
LEMMA OrphanedOK ==
    ASSUME NEW table, NEW sv, NEW tb, \A c \in CallIds : CallOK(table[c], sv, tb),
           NEW t \in Tabs, NEW kinds, NEW new,
           \A u \in Tabs : u # t => new[u] = tb[u],
           new[t] # Closed,
           \/ Kinds \subseteq kinds
           \/ "today" \in kinds
           \/ new[t].on \in {tb[t].on, "today"}
    PROVE  /\ \A c \in CallIds : CallOK(Orphaned(table, t, kinds)[c], sv, new)
           /\ \A c \in CallIds : table[c] = Free => Orphaned(table, t, kinds)[c] = Free
           /\ Orphaned(table, t, kinds) \in [CallIds -> Call]
<1>1. ASSUME NEW c \in CallIds PROVE CallOK(Orphaned(table, t, kinds)[c], sv, new)
  <2>1. CASE table[c] # Free /\ table[c].tab = t /\ table[c].kind \in kinds
      BY <2>1, OrphanOK DEF Orphaned
  <2>2. CASE ~(table[c] # Free /\ table[c].tab = t /\ table[c].kind \in kinds)
    <3>1. Orphaned(table, t, kinds)[c] = table[c]
        BY <2>2 DEF Orphaned
    <3>2. table[c] # Free => Attended(table[c], new)
        BY <2>2, CallShape DEF CallOK, Attended
    <3> QED  BY <3>1, <3>2, CallKept DEF Onward
  <2> QED  BY <2>1, <2>2
<1> QED  BY <1>1 DEF Orphaned, CallOK

LEMMA SentOK ==
    ASSUME SessionInv, NEW t \in Tabs, IsOpen(t), NEW kind \in Kinds, NEW new,
           new[t] # Closed, kind = "today" => new[t].on = "today"
    PROVE  /\ CallOK(Sent(t, kind), server, new)
           /\ Sent(t, kind) # Free
           /\ Sent(t, kind).tab = t /\ Sent(t, kind).kind = kind /\ Sent(t, kind).answer = "none"
<1>1. tabs[t].csrf \in 0..MaxTokens /\ NoToken \in 0..MaxTokens
    BY PageSessionAssumption DEF SessionInv, IsOpen, Tab, NoToken
<1>2. Sent(t, kind) \in [kind : Kinds, tab : Tabs \cup {NoTab},
                         cookie : SessionIds \cup {NoSession}, answer : {"none"},
                         token : 0..MaxTokens]
    BY <1>1 DEF Sent, SessionInv
<1>3. Sent(t, kind) \in Call
    BY <1>2 DEF Call
<1>4. /\ Sent(t, kind).tab = t /\ Sent(t, kind).kind = kind /\ Sent(t, kind).answer = "none"
      /\ Sent(t, kind).cookie \in {NoSession, cookie}
    BY DEF Sent
<1> QED  BY <1>2, <1>3, <1>4, CallShape DEF CallOK, Attended, Known, SessionInv

LEMMA CallsKept ==
    ASSUME SessionInv, NEW t \in Tabs, NEW new, \A u \in Tabs : u # t => new[u] = tabs[u],
           new[t] # Closed, new[t].on \in {tabs[t].on, "today"}
    PROVE  \A c \in CallIds : CallOK(calls[c], server, new)
<1> SUFFICES ASSUME NEW c \in CallIds PROVE CallOK(calls[c], server, new)
    OBVIOUS
<1>1. CallOK(calls[c], server, tabs)
    BY DEF SessionInv
<1>2. calls[c] # Free => Attended(calls[c], new)
    BY <1>1, CallShape DEF CallOK, Attended
<1> QED  BY <1>1, <1>2, CallKept DEF Onward

LEMMA FreeOK ==
    ASSUME NEW sv, NEW tb PROVE CallOK(Free, sv, tb)
BY DEF CallOK, Call

LEMMA ViewShows ==
    ASSUME NEW tab \in Tab, View(tab) = "app"
    PROVE  tab.meta = "set" /\ ~tab.forced
BY DEF View, Tab

\* The snapshot is saved for a tab that was not told that the session is over.
LEMMA SavedShows ==
    ASSUME NEW t, NEW tab \in Tab
    PROVE  Saved(t, tab) \in {stored, t} /\ (tab.forced => Saved(t, tab) = stored)
BY ViewShows DEF Saved

LEMMA FreshTab ==
    ASSUME NEW today \in BOOLEAN
    PROVE  /\ Blank \in Tab /\ Hydrated(today) \in Tab
           /\ \A tab \in {Blank, Hydrated(today)} :
                 tab # Closed /\ ~tab.forced /\ tab.data \notin SessionIds
<1>1. NoToken \in 0..MaxTokens
    BY PageSessionAssumption DEF NoToken
<1>2. /\ Blank \in Tab /\ Blank.data = NoData /\ Blank.forced = FALSE /\ Blank.meta = "unknown"
      /\ Hydrated(today) \in Tab /\ Hydrated(today).data = Cached
      /\ Hydrated(today).forced = FALSE /\ Hydrated(today).meta = "set"
    BY <1>1 DEF Blank, Hydrated, Tab
<1> QED  BY <1>2, PageSessionAssumption DEF Closed

LEMMA TabIsOpen ==
    ASSUME NEW tab \in Tab PROVE tab # Closed
BY DEF Tab, Closed

-----------------------------------------------------------------------------
(* Every action keeps the invariant *)

\* Only tab t changes, with the snapshot, the cookie and the calls.
LEMMA TabStep ==
    ASSUME SessionInv, NEW t \in Tabs, NEW tab \in Tab,
           tabs' \in [Tabs -> Tab \cup {Closed}], tabs'[t] = tab,
           \A u \in Tabs : u # t => tabs'[u] = tabs[u],
           UNCHANGED <<installed, server, issued>>,
           cookie' \in SessionIds \cup {NoSession}, Known(cookie', server),
           stored' \in {stored, NoSnapshot, t}, tab.forced => stored' # t,
           tab.data \notin SessionIds \/ server[tab.data].status # "none",
           calls' \in [CallIds -> Call],
           \A c \in CallIds : CallOK(calls'[c], server, tabs')
    PROVE  SessionInv'
<1>1. stored' \in Tabs \cup {NoSnapshot, Unreadable} /\ NoSnapshot \notin Tabs
    BY PageSessionAssumption DEF SessionInv
<1>2. ASSUME NEW u \in Tabs PROVE TabOK(tabs'[u], u, server', stored')
  <2>1. CASE u = t
      BY <2>1 DEF TabOK
  <2>2. CASE u # t
    <3>1. TabOK(tabs[u], u, server, stored) /\ tabs'[u] = tabs[u]
        BY <2>2 DEF SessionInv
    <3>2. stored' = u => stored = u
        BY <1>1, <2>2
    <3> QED  BY <3>1, <3>2 DEF TabOK
  <2> QED  BY <2>1, <2>2
<1>3. Known(cookie', server')
    BY DEF Known
<1>4. \A c \in CallIds : CallOK(calls'[c], server', tabs')
    OBVIOUS
<1> QED  BY <1>1, <1>2, <1>3, <1>4 DEF SessionInv

\* Only the server and the calls change.
LEMMA ServerStep ==
    ASSUME SessionInv, UNCHANGED <<cookie, stored, tabs>>,
           installed' \in BOOLEAN, issued' \in 0..MaxTokens,
           server' \in [SessionIds -> ServerSession], Onward(server, server'),
           calls' \in [CallIds -> Call],
           \A c \in CallIds : calls'[c] = calls[c] \/ CallOK(calls'[c], server', tabs)
    PROVE  SessionInv'
<1>1. ASSUME NEW c \in CallIds PROVE CallOK(calls'[c], server', tabs')
  <2>1. CallOK(calls[c], server, tabs)
      BY DEF SessionInv
  <2>2. CallOK(calls[c], server', tabs)
      BY <2>1, CallKept DEF CallOK
  <2> QED  BY <2>2
<1>2. Known(cookie', server')
    BY DEF SessionInv, Known, Onward
<1>3. ASSUME NEW t \in Tabs PROVE TabOK(tabs'[t], t, server', stored')
    BY DEF SessionInv, TabOK, Onward
<1> QED  BY <1>1, <1>2, <1>3 DEF SessionInv

LEMMA LoadInv ==
    ASSUME SessionInv, NEW t \in Tabs, Load(t) PROVE SessionInv'
<1>1. PICK tab : /\ tabs' = [tabs EXCEPT ![t] = tab]
                 /\ tab \in {Blank} \cup {Hydrated(today) : today \in BOOLEAN}
                 /\ stored' \in {stored, NoSnapshot}
                 /\ calls' = Orphaned(calls, t, Kinds)
                 /\ UNCHANGED <<installed, server, cookie, issued>>
    BY DEF Load
<1>2. tab \in Tab /\ tab # Closed /\ ~tab.forced /\ tab.data \notin SessionIds
    BY <1>1, FreshTab
<1>3. /\ tabs' \in [Tabs -> Tab \cup {Closed}] /\ tabs'[t] = tab
      /\ \A u \in Tabs : u # t => tabs'[u] = tabs[u]
    BY <1>1, <1>2 DEF SessionInv
<1>4. calls' \in [CallIds -> Call] /\ \A c \in CallIds : CallOK(calls'[c], server, tabs')
  <2>1. \A c \in CallIds : CallOK(calls[c], server, tabs)
      BY DEF SessionInv
  <2>2. /\ tabs'[t] # Closed /\ Kinds \subseteq Kinds
        /\ \A u \in Tabs : u # t => tabs'[u] = tabs[u]
      BY <1>2, <1>3
  <2>3. /\ Orphaned(calls, t, Kinds) \in [CallIds -> Call]
        /\ \A c \in CallIds : CallOK(Orphaned(calls, t, Kinds)[c], server, tabs')
    <3> HIDE DEF Kinds
    <3> QED  BY <2>1, <2>2, OrphanedOK
  <2> QED  BY <1>1, <2>3
<1> QED  BY <1>1, <1>2, <1>3, <1>4, TabStep DEF SessionInv

LEMMA LearnMetaInv ==
    ASSUME SessionInv, NEW t \in Tabs, LearnMeta(t) PROVE SessionInv'
<1>1. PICK meta \in {"unknown", "new", "set"} : tabs' = [tabs EXCEPT ![t].meta = meta]
    BY DEF LearnMeta
<1> DEFINE tab == [tabs[t] EXCEPT !.meta = meta]
<1>2. /\ tab \in Tab /\ tab.on = tabs[t].on
      /\ tab.forced = tabs[t].forced /\ tab.data = tabs[t].data
    BY <1>1 DEF LearnMeta, SessionInv, IsOpen, Tab
<1>3. /\ tabs' \in [Tabs -> Tab \cup {Closed}] /\ tabs'[t] = tab
      /\ \A u \in Tabs : u # t => tabs'[u] = tabs[u]
    BY <1>1, <1>2 DEF SessionInv
<1> HIDE DEF tab
<1>4. /\ UNCHANGED <<installed, server, issued, cookie, calls>>
      /\ stored' \in {stored, NoSnapshot} /\ tabs[t] # Closed
    BY DEF LearnMeta, IsOpen
<1>5. \A c \in CallIds : CallOK(calls[c], server, tabs')
    BY <1>2, <1>3, TabIsOpen, CallsKept
<1>6. tab.forced => stored' # t
    BY <1>2, <1>4, PageSessionAssumption DEF SessionInv, TabOK
<1>7. tab.data \notin SessionIds \/ server[tab.data].status # "none"
    BY <1>2, <1>4 DEF SessionInv, TabOK
<1> QED  BY <1>2, <1>3, <1>4, <1>5, <1>6, <1>7, TabStep DEF SessionInv

LEMMA FetchSessionInv ==
    ASSUME SessionInv, NEW c \in CallIds, NEW t \in Tabs, FetchSession(c, t) PROVE SessionInv'
<1> DEFINE tab == [tabs[t] EXCEPT !.failed = FALSE]
<1>1. /\ IsOpen(t) /\ UNCHANGED <<installed, server, issued, cookie, stored>>
      /\ tabs' = [tabs EXCEPT ![t].failed = FALSE]
      /\ calls' = [Orphaned(calls, t, {"session"}) EXCEPT ![c] = Sent(t, "session")]
    BY DEF FetchSession
<1>2. /\ tab \in Tab /\ tab.on = tabs[t].on
      /\ tab.forced = tabs[t].forced /\ tab.data = tabs[t].data
    BY <1>1 DEF SessionInv, IsOpen, Tab
<1>3. /\ tabs' \in [Tabs -> Tab \cup {Closed}] /\ tabs'[t] = tab
      /\ \A u \in Tabs : u # t => tabs'[u] = tabs[u]
    BY <1>1, <1>2 DEF SessionInv
<1> HIDE DEF tab
<1>4. tabs'[t] # Closed
    BY <1>2, <1>3, TabIsOpen
<1>5. /\ Orphaned(calls, t, {"session"}) \in [CallIds -> Call]
      /\ \A d \in CallIds : CallOK(Orphaned(calls, t, {"session"})[d], server, tabs')
  <2>1. \A d \in CallIds : CallOK(calls[d], server, tabs)
      BY DEF SessionInv
  <2> QED  BY <1>2, <1>3, <1>4, <2>1, OrphanedOK
<1>6. CallOK(Sent(t, "session"), server, tabs')
  <2>1. "session" \in Kinds
      BY DEF Kinds
  <2> QED  BY <1>1, <1>4, <2>1, SentOK
<1>7. calls' \in [CallIds -> Call] /\ \A d \in CallIds : CallOK(calls'[d], server, tabs')
    BY <1>1, <1>5, <1>6 DEF CallOK
<1>8. /\ tab.forced => stored' # t
      /\ tab.data \notin SessionIds \/ server[tab.data].status # "none"
    BY <1>1, <1>2 DEF SessionInv, TabOK, IsOpen
<1>9. /\ tab \in Tab /\ UNCHANGED <<installed, server, issued>>
      /\ stored' \in {stored, NoSnapshot, t}
      /\ cookie' \in SessionIds \cup {NoSession} /\ Known(cookie', server)
    BY <1>1, <1>2 DEF SessionInv
<1> QED  BY <1>3, <1>7, <1>8, <1>9, TabStep

LEMMA GoTodayInv ==
    ASSUME SessionInv, NEW c \in CallIds, NEW t \in Tabs, GoToday(c, t) PROVE SessionInv'
<1> DEFINE tab == [tabs[t] EXCEPT !.on = "today"]
<1>1. /\ IsOpen(t) /\ UNCHANGED <<installed, server, issued, cookie>>
      /\ View(tabs[t]) = "app"
      /\ tabs' = [tabs EXCEPT ![t].on = "today"]
      /\ stored' = Saved(t, tabs'[t])
      /\ calls' = [calls EXCEPT ![c] = Sent(t, "today")]
    BY DEF GoToday, Usable, Shows, Send
<1>2. /\ tab \in Tab /\ tab.on = "today"
      /\ tab.forced = tabs[t].forced /\ tab.data = tabs[t].data
    BY <1>1 DEF SessionInv, IsOpen, Tab
<1>3. /\ tabs' \in [Tabs -> Tab \cup {Closed}] /\ tabs'[t] = tab
      /\ \A u \in Tabs : u # t => tabs'[u] = tabs[u]
    BY <1>1, <1>2 DEF SessionInv
<1> HIDE DEF tab
<1>4. tabs'[t] # Closed
    BY <1>2, <1>3, TabIsOpen
<1>5. \A d \in CallIds : CallOK(calls[d], server, tabs')
    BY <1>2, <1>3, <1>4, CallsKept
<1>6. CallOK(Sent(t, "today"), server, tabs')
  <2>1. "today" \in Kinds
      BY DEF Kinds
  <2> QED  BY <1>1, <1>2, <1>3, <1>4, <2>1, SentOK
<1>7. calls' \in [CallIds -> Call] /\ \A d \in CallIds : CallOK(calls'[d], server, tabs')
    BY <1>1, <1>5, <1>6 DEF CallOK, SessionInv
<1>8. ~tab.forced /\ stored' \in {stored, t}
    BY <1>1, <1>2, <1>3, ViewShows, SavedShows DEF SessionInv, IsOpen
<1>9. tab.data \notin SessionIds \/ server[tab.data].status # "none"
    BY <1>1, <1>2 DEF SessionInv, TabOK, IsOpen
<1>10. /\ tab \in Tab /\ UNCHANGED <<installed, server, issued>>
       /\ stored' \in {stored, NoSnapshot, t}
       /\ cookie' \in SessionIds \cup {NoSession} /\ Known(cookie', server)
    BY <1>1, <1>2, <1>8 DEF SessionInv
<1> QED  BY <1>3, <1>7, <1>8, <1>9, <1>10, TabStep

LEMMA LeaveInv ==
    ASSUME SessionInv, NEW t \in Tabs, Leave(t) PROVE SessionInv'
<1> DEFINE tab == [tabs[t] EXCEPT !.on = "other"]
<1>1. /\ IsOpen(t) /\ UNCHANGED <<installed, server, issued, cookie, stored>>
      /\ tabs' = [tabs EXCEPT ![t].on = "other"]
      /\ calls' = Orphaned(calls, t, {"today"})
    BY DEF Leave, Usable, Shows
<1>2. /\ tab \in Tab /\ tab.forced = tabs[t].forced /\ tab.data = tabs[t].data
    BY <1>1 DEF SessionInv, IsOpen, Tab
<1>3. /\ tabs' \in [Tabs -> Tab \cup {Closed}] /\ tabs'[t] = tab
      /\ \A u \in Tabs : u # t => tabs'[u] = tabs[u]
    BY <1>1, <1>2 DEF SessionInv
<1> HIDE DEF tab
<1>4. calls' \in [CallIds -> Call] /\ \A c \in CallIds : CallOK(calls'[c], server, tabs')
  <2>1. tabs'[t] # Closed /\ \A c \in CallIds : CallOK(calls[c], server, tabs)
      BY <1>2, <1>3, TabIsOpen DEF SessionInv
  <2>2. /\ Orphaned(calls, t, {"today"}) \in [CallIds -> Call]
        /\ \A c \in CallIds : CallOK(Orphaned(calls, t, {"today"})[c], server, tabs')
      BY <1>3, <2>1, OrphanedOK
  <2> QED  BY <1>1, <2>2
<1>5. /\ tab.forced => stored' # t
      /\ tab.data \notin SessionIds \/ server[tab.data].status # "none"
    BY <1>1, <1>2 DEF SessionInv, TabOK, IsOpen
<1>6. /\ tab \in Tab /\ UNCHANGED <<installed, server, issued>>
      /\ stored' \in {stored, NoSnapshot, t}
      /\ cookie' \in SessionIds \cup {NoSession} /\ Known(cookie', server)
    BY <1>1, <1>2 DEF SessionInv
<1> QED  BY <1>3, <1>4, <1>5, <1>6, TabStep

LEMMA NextDayInv ==
    ASSUME SessionInv, NEW t \in Tabs, NextDay(t) PROVE SessionInv'
<1> DEFINE tab == [tabs[t] EXCEPT !.today = FALSE]
<1>1. /\ IsOpen(t) /\ UNCHANGED <<installed, server, issued, cookie, stored, calls>>
      /\ tabs' = [tabs EXCEPT ![t].today = FALSE]
    BY DEF NextDay
<1>2. /\ tab \in Tab /\ tab.on = tabs[t].on
      /\ tab.forced = tabs[t].forced /\ tab.data = tabs[t].data
    BY <1>1 DEF SessionInv, IsOpen, Tab
<1>3. /\ tabs' \in [Tabs -> Tab \cup {Closed}] /\ tabs'[t] = tab
      /\ \A u \in Tabs : u # t => tabs'[u] = tabs[u]
    BY <1>1, <1>2 DEF SessionInv
<1> HIDE DEF tab
<1>4. \A c \in CallIds : CallOK(calls[c], server, tabs')
    BY <1>2, <1>3, TabIsOpen, CallsKept
<1>5. /\ tab.forced => stored' # t
      /\ tab.data \notin SessionIds \/ server[tab.data].status # "none"
    BY <1>1, <1>2 DEF SessionInv, TabOK, IsOpen
<1>6. /\ tab \in Tab /\ UNCHANGED <<installed, server, issued>>
      /\ stored' \in {stored, NoSnapshot, t}
      /\ cookie' \in SessionIds \cup {NoSession} /\ Known(cookie', server)
    BY <1>1, <1>2 DEF SessionInv
<1>7. calls' \in [CallIds -> Call] /\ \A c \in CallIds : CallOK(calls'[c], server, tabs')
    BY <1>1, <1>4 DEF SessionInv
<1> QED  BY <1>3, <1>5, <1>6, <1>7, TabStep

LEMMA SubmitInv ==
    ASSUME SessionInv, NEW c \in CallIds, NEW t \in Tabs,
           NEW kind \in Unsafe \cup {"login", "setup"}, Submit(c, t, kind)
    PROVE  SessionInv'
<1>1. /\ IsOpen(t) /\ UNCHANGED <<installed, server, issued, cookie, stored, tabs>>
      /\ calls' = [calls EXCEPT ![c] = Sent(t, kind)]
    BY DEF Submit, Send, Usable, Shows
<1>2. kind \in Kinds /\ kind # "today"
    BY DEF Unsafe, Kinds
<1>3. CallOK(Sent(t, kind), server, tabs)
    BY <1>1, <1>2, SentOK DEF IsOpen
<1>4. /\ calls' \in [CallIds -> Call]
      /\ \A d \in CallIds : calls'[d] = calls[d] \/ CallOK(calls'[d], server', tabs)
    BY <1>1, <1>3 DEF SessionInv, CallOK
<1>5. Onward(server, server')
    BY <1>1 DEF Onward
<1> QED  BY <1>1, <1>4, <1>5, ServerStep DEF SessionInv

-----------------------------------------------------------------------------
(* The server *)

\* An answer is made of the call it is for, unless nobody waits for it.
LEMMA AnswerOK ==
    ASSUME SessionInv, NEW c \in CallIds, calls[c] # Free,
           NEW answer \in Denials \cup {"ok", "wrong", "refused"},
           NEW s \in SessionIds \cup {NoSession}, NEW token \in 0..MaxTokens,
           Answer(c, answer, s, token), Onward(server, server'),
           Known(s, server'),
           answer = "ok" /\ calls[c].kind \in Renewing => s \in SessionIds,
           answer = "refused" => calls[c].kind \notin Renewing,
           answer = "unauthorized" /\ calls[c].cookie # NoSession =>
               server'[calls[c].cookie].status = "ended"
    PROVE  /\ calls' \in [CallIds -> Call]
           /\ \A d \in CallIds : calls'[d] = calls[d] \/ CallOK(calls'[d], server', tabs)
<1> DEFINE k == [kind |-> calls[c].kind, tab |-> calls[c].tab, cookie |-> calls[c].cookie,
                 answer |-> answer, token |-> token, session |-> s]
<1>1. calls' = [calls EXCEPT ![c] = IF calls[c].tab = NoTab THEN Free ELSE k]
    BY DEF Answer, SessionInv
<1>2. ASSUME calls[c].tab # NoTab PROVE CallOK(k, server', tabs)
  <2>1. /\ calls[c].kind \in Kinds /\ calls[c].tab \in Tabs
        /\ calls[c].cookie \in SessionIds \cup {NoSession}
        /\ CallOK(calls[c], server, tabs)
      BY <1>2, CallShape DEF SessionInv
  <2>2. k \in Call
      BY <2>1 DEF Call
  <2>3. Known(k.cookie, server') /\ Attended(k, tabs) /\ Told(k, server')
      BY <2>1 DEF CallOK, Known, Onward, Attended, Told
  <2> QED  BY <2>2, <2>3 DEF CallOK
<1> HIDE DEF k
<1> QED  BY <1>1, <1>2, FreeOK DEF SessionInv, CallOK

LEMMA FailInv ==
    ASSUME SessionInv, NEW c \in CallIds, calls[c] # Free,
           NEW answer \in Denials \cup {"wrong", "refused"}, Fail(c, answer),
           answer = "refused" => calls[c].kind \notin Renewing,
           answer = "unauthorized" => ~Authorized(calls[c]),
           UNCHANGED <<cookie, stored, tabs>>
    PROVE  SessionInv'
<1>1. /\ Answer(c, answer, NoSession, NoToken) /\ UNCHANGED <<installed, server, issued>>
      /\ Onward(server, server') /\ Known(NoSession, server') /\ NoToken \in 0..MaxTokens
    BY PageSessionAssumption DEF Fail, Onward, Known, NoToken
<1>2. answer = "unauthorized" /\ calls[c].cookie # NoSession =>
          server'[calls[c].cookie].status = "ended"
    BY <1>1, CallShape DEF SessionInv, CallOK, Known, Authorized, ServerSession
<1>3. /\ calls' \in [CallIds -> Call]
      /\ \A d \in CallIds : calls'[d] = calls[d] \/ CallOK(calls'[d], server', tabs)
    BY <1>1, <1>2, AnswerOK DEF Denials
<1> QED  BY <1>1, <1>3, ServerStep DEF SessionInv

LEMMA IssueTyped ==
    ASSUME SessionInv, Issue PROVE issued' \in 0..MaxTokens
BY PageSessionAssumption DEF SessionInv, Issue

LEMMA ServeOpeningInv ==
    ASSUME SessionInv, NEW c \in CallIds, ServeOpening(c) PROVE SessionInv'
<1>1. /\ UNCHANGED <<cookie, stored, tabs>> /\ calls[c] # Free
      /\ calls[c].kind \in {"login", "setup"} /\ calls[c].kind \notin Renewing
    BY DEF ServeOpening, Free, Renewing
<1>2. ASSUME Issue, NEW s \in SessionIds, server[s].status = "none",
             server' = [server EXCEPT ![s] = [status |-> "open", token |-> issued',
                                              holder |-> calls[c].tab]],
             Answer(c, "ok", s, issued'), installed' = TRUE
      PROVE  SessionInv'
  <2>1. calls[c].tab \in Tabs \cup {NoTab} /\ issued' \in 0..MaxTokens
      BY <1>1, <1>2, CallShape, IssueTyped DEF SessionInv
  <2>2. server' \in [SessionIds -> ServerSession] /\ Onward(server, server')
        /\ Known(s, server')
      BY <1>2, <2>1 DEF SessionInv, ServerSession, Onward, Known
  <2>3. /\ calls' \in [CallIds -> Call]
        /\ \A d \in CallIds : calls'[d] = calls[d] \/ CallOK(calls'[d], server', tabs)
      BY <1>1, <1>2, <2>1, <2>2, AnswerOK
  <2> QED  BY <1>1, <1>2, <2>1, <2>2, <2>3, ServerStep
<1>3. CASE Fail(c, "wrong") \/ Fail(c, "refused")
    BY <1>1, <1>3, FailInv
<1> QED  BY <1>2, <1>3 DEF ServeOpening

LEMMA ServeRenewingInv ==
    ASSUME SessionInv, NEW c \in CallIds, ServeRenewing(c) PROVE SessionInv'
<1>1. /\ UNCHANGED <<cookie, stored, tabs>> /\ calls[c] # Free
      /\ calls[c].kind \in Renewing
    BY DEF ServeRenewing, Free, Renewing
<1>2. CASE Deny(c)
    BY <1>1, <1>2, FailInv DEF Deny, Denials
<1>3. CASE ~Deny(c)
  <2>1. PICK holder \in {NoTab, calls[c].tab} :
            server' = [server EXCEPT ![calls[c].cookie].token = issued',
                                     ![calls[c].cookie].holder = holder]
      BY <1>3 DEF ServeRenewing
  <2>2. /\ Authorized(calls[c]) /\ Issue /\ UNCHANGED installed
        /\ Answer(c, "ok", calls[c].cookie, issued')
      BY <1>3 DEF ServeRenewing
  <2>3. /\ holder \in Tabs \cup {NoTab} /\ issued' \in 0..MaxTokens
        /\ calls[c].cookie \in SessionIds /\ server[calls[c].cookie].status = "open"
      BY <1>1, <2>2, CallShape, IssueTyped DEF SessionInv, Authorized
  <2>4. server' \in [SessionIds -> ServerSession] /\ Onward(server, server')
        /\ Known(calls[c].cookie, server')
      BY <2>1, <2>3 DEF SessionInv, ServerSession, Onward, Known
  <2>5. /\ calls' \in [CallIds -> Call]
        /\ \A d \in CallIds : calls'[d] = calls[d] \/ CallOK(calls'[d], server', tabs)
      BY <1>1, <2>2, <2>3, <2>4, AnswerOK
  <2> QED  BY <1>1, <2>2, <2>3, <2>4, <2>5, ServerStep DEF SessionInv
<1> QED  BY <1>2, <1>3

\* Ending open sessions is going on, too.
LEMMA EndedOnward ==
    ASSUME SessionInv, NEW ended,
           \A s \in SessionIds \cap ended : server[s].status # "none",
           server' = Ended(server, ended)
    PROVE  server' \in [SessionIds -> ServerSession] /\ Onward(server, server')
<1>1. Over \in ServerSession /\ Over.status = "ended"
    BY PageSessionAssumption DEF Over, ServerSession, NoToken
<1> QED  BY <1>1 DEF Ended, SessionInv, Onward

LEMMA ServeOtherInv ==
    ASSUME SessionInv, NEW c \in CallIds, ServeOther(c) PROVE SessionInv'
<1>1. /\ UNCHANGED <<cookie, stored, tabs>> /\ calls[c] # Free
      /\ calls[c].kind \notin Renewing
    BY DEF ServeOther, Free, Unsafe, Renewing
<1>2. CASE Deny(c) \/ Fail(c, "refused") \/ Fail(c, "wrong")
    BY <1>1, <1>2, FailInv DEF Deny, Denials
<1>3. CASE /\ Authorized(calls[c]) /\ server' = Ended(server, Ends(calls[c]))
           /\ Answer(c, "ok", NoSession, NoToken) /\ UNCHANGED <<installed, issued>>
  <2>1. \A s \in SessionIds \cap Ends(calls[c]) : server[s].status # "none"
      BY <1>3 DEF Authorized, Ends, Others
  <2>2. server' \in [SessionIds -> ServerSession] /\ Onward(server, server')
      BY <1>3, <2>1, EndedOnward
  <2>3. Known(NoSession, server') /\ NoToken \in 0..MaxTokens
      BY PageSessionAssumption DEF Known, NoToken
  <2>4. /\ calls' \in [CallIds -> Call]
        /\ \A d \in CallIds : calls'[d] = calls[d] \/ CallOK(calls'[d], server', tabs)
      BY <1>1, <1>3, <2>2, <2>3, AnswerOK
  <2> QED  BY <1>1, <1>3, <2>2, <2>4, ServerStep DEF SessionInv
<1> QED  BY <1>2, <1>3 DEF ServeOther

LEMMA EndElsewhereInv ==
    ASSUME SessionInv, NEW s \in SessionIds, EndElsewhere(s) PROVE SessionInv'
<1>1. server' = Ended(server, {s}) /\ server[s].status = "open"
      /\ UNCHANGED <<installed, cookie, stored, tabs, calls, issued>>
    BY DEF EndElsewhere
<1>2. server' \in [SessionIds -> ServerSession] /\ Onward(server, server')
    BY <1>1, EndedOnward
<1> QED  BY <1>1, <1>2, ServerStep DEF SessionInv

-----------------------------------------------------------------------------
(* The answers *)

\* An answer is for a tab that is open.
LEMMA AnswerHolds ==
    ASSUME SessionInv, NEW c \in CallIds, NEW answer, NEW kinds, Answered(c, answer, kinds),
           answer # "none"
    PROVE  /\ calls[c].tab \in Tabs /\ tabs[calls[c].tab] \in Tab
           /\ IsOpen(calls[c].tab)
           /\ calls[c].session \in SessionIds \cup {NoSession}
           /\ calls[c].token \in 0..MaxTokens
           /\ calls[c].cookie \in SessionIds \cup {NoSession}
           /\ Told(calls[c], server) /\ calls[c] # Free
<1>1. calls[c] # Free /\ CallOK(calls[c], server, tabs) /\ calls[c].answer # "none"
    BY DEF SessionInv, Answered, Under
<1>2. calls[c].tab \in Tabs
    BY <1>1, CallShape DEF CallOK
<1>3. tabs[calls[c].tab] # Closed
    BY <1>1, <1>2, NoTabIsNone DEF CallOK, Attended
<1> QED  BY <1>1, <1>2, <1>3, CallShape DEF SessionInv, CallOK, IsOpen

LEMMA TakenOK ==
    ASSUME SessionInv, NEW c \in CallIds
    PROVE  /\ Taken(c) \in [CallIds -> Call]
           /\ \A d \in CallIds : CallOK(Taken(c)[d], server, tabs)
           /\ Taken(c)[c] = Free
           /\ \A d \in CallIds : d # c => Taken(c)[d] = calls[d]
BY FreeOK DEF Taken, SessionInv, CallOK

\* The answer is taken, and tab t stops waiting for its calls of kinds.
LEMMA TakenOrphanedOK ==
    ASSUME SessionInv, NEW c \in CallIds, NEW t \in Tabs, NEW kinds, NEW new,
           \A u \in Tabs : u # t => new[u] = tabs[u], new[t] # Closed,
           "today" \in kinds
    PROVE  /\ Orphaned(Taken(c), t, kinds) \in [CallIds -> Call]
           /\ \A d \in CallIds : CallOK(Orphaned(Taken(c), t, kinds)[d], server, new)
<1> DEFINE taken == Taken(c)
<1>1. \A d \in CallIds : CallOK(taken[d], server, tabs)
    BY TakenOK
<1> HIDE DEF taken
<1>2. \A d \in CallIds : CallOK(Orphaned(taken, t, kinds)[d], server, new)
    BY <1>1, OrphanedOK
<1>3. Orphaned(taken, t, kinds) \in [CallIds -> Call]
    BY <1>2 DEF Orphaned, CallOK
<1> QED  BY <1>2, <1>3 DEF taken

\* The answer is taken, and the page stays where it is.
LEMMA TakenKeptOK ==
    ASSUME SessionInv, NEW c \in CallIds, NEW t \in Tabs, NEW new,
           \A u \in Tabs : u # t => new[u] = tabs[u],
           new[t] # Closed, new[t].on \in {tabs[t].on, "today"}
    PROVE  \A d \in CallIds : CallOK(Taken(c)[d], server, new)
<1>1. \A d \in CallIds : CallOK(calls[d], server, new)
    BY CallsKept
<1> QED  BY <1>1, TakenOK, FreeOK

LEMMA NobodyKnown == Known(NoSession, server)
BY DEF Known

LEMMA ArriveUnauthorizedInv ==
    ASSUME SessionInv, NEW c \in CallIds, ArriveUnauthorized(c) PROVE SessionInv'
<1> DEFINE t == calls[c].tab
           failed == tabs[t].failed \/ (calls[c].kind = "session" /\ tabs[t].data = NoData)
           tab == [tabs[t] EXCEPT !.csrf = NoToken, !.forced = TRUE, !.on = "other",
                                  !.failed = failed]
<1>0. PICK answer \in Denials \cup {"wrong"} : Answered(c, answer, Kinds)
    BY DEF ArriveUnauthorized
<1>1. t \in Tabs /\ tabs[t] \in Tab /\ IsOpen(t)
    BY <1>0, AnswerHolds DEF Denials
<1>2. /\ UNCHANGED <<installed, server, issued>>
      /\ stored' = NoSnapshot /\ cookie' \in {cookie, NoSession}
      /\ tabs' = [tabs EXCEPT ![t].csrf = NoToken, ![t].forced = TRUE, ![t].on = "other",
                              ![t].failed = failed]
      /\ calls' = Orphaned(Taken(c), t, {"today"})
    BY <1>1 DEF ArriveUnauthorized, SessionInv
<1> HIDE DEF t
<1>3. tab \in Tab /\ tab.data = tabs[t].data
  <2>1. NoToken \in 0..MaxTokens
      BY PageSessionAssumption DEF NoToken
  <2>2. failed \in BOOLEAN
      BY <1>1 DEF Tab
  <2> HIDE DEF failed
  <2> QED  BY <1>1, <2>1, <2>2 DEF Tab
<1>4. /\ tabs' \in [Tabs -> Tab \cup {Closed}] /\ tabs'[t] = tab
      /\ \A u \in Tabs : u # t => tabs'[u] = tabs[u]
  <2> HIDE DEF failed
  <2> QED  BY <1>1, <1>2, <1>3 DEF SessionInv
<1> HIDE DEF tab, failed
<1>5. /\ Orphaned(Taken(c), t, {"today"}) \in [CallIds -> Call]
      /\ \A d \in CallIds : CallOK(Orphaned(Taken(c), t, {"today"})[d], server, tabs')
  <2>1. tabs'[t] # Closed
      BY <1>3, <1>4, TabIsOpen
  <2> QED  BY <1>1, <1>4, <2>1, TakenOrphanedOK
<1>6. tab.data \notin SessionIds \/ server[tab.data].status # "none"
    BY <1>1, <1>3 DEF SessionInv, TabOK, IsOpen
<1>7. stored' # t /\ Known(cookie', server) /\ cookie' \in SessionIds \cup {NoSession}
    BY <1>1, <1>2, NobodyKnown, PageSessionAssumption DEF SessionInv
<1>8. calls' \in [CallIds -> Call] /\ \A d \in CallIds : CallOK(calls'[d], server, tabs')
    BY <1>2, <1>5
<1>9. /\ tab \in Tab /\ UNCHANGED <<installed, server, issued>>
      /\ stored' \in {stored, NoSnapshot, t}
      /\ cookie' \in SessionIds \cup {NoSession} /\ Known(cookie', server)
    BY <1>2, <1>3, <1>7
<1> QED  BY <1>1, <1>4, <1>6, <1>7, <1>8, <1>9, TabStep

LEMMA ArriveRefusedInv ==
    ASSUME SessionInv, NEW c \in CallIds, ArriveRefused(c) \/ ArrivePassword(c)
    PROVE  SessionInv'
<1>1. calls' = Taken(c) /\ UNCHANGED <<installed, server, cookie, stored, tabs, issued>>
    BY DEF ArriveRefused, ArrivePassword
<1>2. calls' \in [CallIds -> Call] /\ \A d \in CallIds : CallOK(calls'[d], server, tabs)
    BY <1>1, TakenOK
<1> QED  BY <1>1, <1>2, ServerStep DEF SessionInv, Onward

LEMMA ArriveSessionInv ==
    ASSUME SessionInv, NEW c \in CallIds, ArriveSession(c) PROVE SessionInv'
<1> DEFINE t == calls[c].tab
           tab == [tabs[t] EXCEPT !.data = calls[c].session, !.failed = FALSE,
                                  !.forced = FALSE, !.csrf = calls[c].token]
<1>0. Answered(c, "ok", Renewing)
    BY DEF ArriveSession
<1>1. /\ t \in Tabs /\ tabs[t] \in Tab /\ IsOpen(t)
      /\ calls[c].session \in SessionIds /\ calls[c].token \in 0..MaxTokens
      /\ server[calls[c].session].status # "none"
    BY <1>0, AnswerHolds, NoTabIsNone DEF Told, Answered, Known
<1>2. /\ UNCHANGED <<installed, server, issued, cookie>>
      /\ stored' = Saved(t, tabs'[t])
      /\ tabs' = [tabs EXCEPT ![t].data = calls[c].session, ![t].failed = FALSE,
                              ![t].forced = FALSE, ![t].csrf = calls[c].token]
      /\ calls' = Taken(c)
    BY DEF ArriveSession
<1> HIDE DEF t
<1>3. /\ tab \in Tab /\ tab.data = calls[c].session /\ ~tab.forced /\ tab.on = tabs[t].on
    BY <1>1 DEF Tab
<1>4. /\ tabs' \in [Tabs -> Tab \cup {Closed}] /\ tabs'[t] = tab
      /\ \A u \in Tabs : u # t => tabs'[u] = tabs[u]
    BY <1>1, <1>2, <1>3 DEF SessionInv
<1> HIDE DEF tab
<1>5. \A d \in CallIds : CallOK(Taken(c)[d], server, tabs')
    BY <1>1, <1>3, <1>4, TabIsOpen, TakenKeptOK
<1>6. stored' \in {stored, t}
    BY <1>2, <1>3, <1>4, SavedShows
<1>7. calls' \in [CallIds -> Call] /\ \A d \in CallIds : CallOK(calls'[d], server, tabs')
    BY <1>2, <1>5, TakenOK
<1>8. tab.data \notin SessionIds \/ server[tab.data].status # "none"
    BY <1>1, <1>3
<1>9. cookie' \in SessionIds \cup {NoSession} /\ Known(cookie', server)
    BY <1>2 DEF SessionInv
<1>10. /\ tab \in Tab /\ UNCHANGED <<installed, server, issued>>
       /\ stored' \in {stored, NoSnapshot, t}
       /\ cookie' \in SessionIds \cup {NoSession} /\ Known(cookie', server)
    BY <1>2, <1>3, <1>6, <1>9
<1> QED  BY <1>1, <1>3, <1>4, <1>7, <1>8, <1>10, TabStep

LEMMA ArriveTodayInv ==
    ASSUME SessionInv, NEW c \in CallIds, ArriveToday(c) PROVE SessionInv'
<1> DEFINE t == calls[c].tab
           tab == [tabs[t] EXCEPT !.today = TRUE]
<1>0. Answered(c, "ok", {"today"})
    BY DEF ArriveToday
<1>1. t \in Tabs /\ tabs[t] \in Tab /\ IsOpen(t)
    BY <1>0, AnswerHolds
<1>2. /\ UNCHANGED <<installed, server, issued, cookie>>
      /\ stored' = Saved(t, tabs'[t])
      /\ tabs' = [tabs EXCEPT ![t].today = TRUE]
      /\ calls' = Taken(c)
    BY DEF ArriveToday
<1> HIDE DEF t
<1>3. /\ tab \in Tab /\ tab.data = tabs[t].data /\ tab.forced = tabs[t].forced
      /\ tab.on = tabs[t].on
    BY <1>1 DEF Tab
<1>4. /\ tabs' \in [Tabs -> Tab \cup {Closed}] /\ tabs'[t] = tab
      /\ \A u \in Tabs : u # t => tabs'[u] = tabs[u]
    BY <1>1, <1>2, <1>3 DEF SessionInv
<1> HIDE DEF tab
<1>5. \A d \in CallIds : CallOK(Taken(c)[d], server, tabs')
    BY <1>1, <1>3, <1>4, TabIsOpen, TakenKeptOK
<1>6. stored' \in {stored, t} /\ (tab.forced => stored' = stored)
    BY <1>2, <1>3, <1>4, SavedShows
<1>7. /\ tab.forced => stored' # t
      /\ tab.data \notin SessionIds \/ server[tab.data].status # "none"
    BY <1>1, <1>3, <1>6 DEF SessionInv, TabOK, IsOpen
<1>8. calls' \in [CallIds -> Call] /\ \A d \in CallIds : CallOK(calls'[d], server, tabs')
    BY <1>2, <1>5, TakenOK
<1>9. cookie' \in SessionIds \cup {NoSession} /\ Known(cookie', server)
    BY <1>2 DEF SessionInv
<1> QED  BY <1>1, <1>2, <1>3, <1>4, <1>6, <1>7, <1>8, <1>9, TabStep

LEMMA ArrivePatchInv ==
    ASSUME SessionInv, NEW c \in CallIds, ArrivePatch(c) PROVE SessionInv'
<1>1. calls[c].tab \in Tabs /\ IsOpen(calls[c].tab)
    BY AnswerHolds DEF ArrivePatch
<1>2. /\ calls' = [calls EXCEPT ![c] = Sent(calls[c].tab, "refresh")]
      /\ UNCHANGED <<installed, server, cookie, stored, tabs, issued>>
    BY DEF ArrivePatch
<1>3. CallOK(Sent(calls[c].tab, "refresh"), server, tabs)
  <2>1. "refresh" \in Kinds
      BY DEF Kinds
  <2> QED  BY <1>1, <2>1, SentOK DEF IsOpen
<1>4. /\ calls' \in [CallIds -> Call]
      /\ \A d \in CallIds : calls'[d] = calls[d] \/ CallOK(calls'[d], server', tabs)
    BY <1>2, <1>3 DEF SessionInv, CallOK
<1> QED  BY <1>2, <1>4, ServerStep DEF SessionInv, Onward

\* A session call with the cookie of the session just opened.
LEMMA OpenedCallOK ==
    ASSUME NEW t \in Tabs, NEW s \in SessionIds \cup {NoSession}, NEW sv, Known(s, sv),
           NEW new, new[t] # Closed
    PROVE  CallOK([kind |-> "session", tab |-> t, cookie |-> s, answer |-> "none",
                   token |-> NoToken], sv, new)
<1> DEFINE k == [kind |-> "session", tab |-> t, cookie |-> s, answer |-> "none",
                 token |-> NoToken]
<1>1. NoToken \in 0..MaxTokens
    BY PageSessionAssumption DEF NoToken
<1>2. k \in Call /\ k.answer = "none" /\ k.cookie = s /\ k.tab = t /\ k.kind # "today"
    BY <1>1 DEF Call, Kinds
<1> HIDE DEF k
<1>3. CallOK(k, sv, new)
    BY <1>2 DEF CallOK, Attended
<1> QED  BY <1>3 DEF k

LEMMA ArriveOpenedInv ==
    ASSUME SessionInv, NEW c \in CallIds, ArriveOpened(c) PROVE SessionInv'
<1> DEFINE t == calls[c].tab
           tab == [tabs[t] EXCEPT !.csrf = calls[c].token, !.meta = "set", !.on = "other",
                                  !.failed = FALSE]
           table == Orphaned(Taken(c), t, {"session", "today"})
           k == [kind |-> "session", tab |-> t, cookie |-> calls[c].session,
                 answer |-> "none", token |-> NoToken]
<1>0. Answered(c, "ok", {"login", "setup"})
    BY DEF ArriveOpened
<1>1. /\ t \in Tabs /\ tabs[t] \in Tab /\ IsOpen(t)
      /\ calls[c].session \in SessionIds \cup {NoSession} /\ calls[c].token \in 0..MaxTokens
      /\ Known(calls[c].session, server)
    BY <1>0, AnswerHolds DEF Told
<1>2. /\ UNCHANGED <<installed, server, issued, stored>> /\ cookie' = calls[c].session
      /\ tabs' = [tabs EXCEPT ![t].csrf = calls[c].token, ![t].meta = "set",
                              ![t].on = "other", ![t].failed = FALSE]
      /\ calls' = [table EXCEPT ![c] = k]
    BY DEF ArriveOpened
<1> HIDE DEF t
<1>3. tab \in Tab /\ tab.data = tabs[t].data /\ tab.forced = tabs[t].forced
    BY <1>1 DEF Tab
<1>4. /\ tabs' \in [Tabs -> Tab \cup {Closed}] /\ tabs'[t] = tab
      /\ \A u \in Tabs : u # t => tabs'[u] = tabs[u]
    BY <1>1, <1>2, <1>3 DEF SessionInv
<1> HIDE DEF tab
<1>5. tabs'[t] # Closed
    BY <1>3, <1>4, TabIsOpen
<1>6. table \in [CallIds -> Call] /\ \A d \in CallIds : CallOK(table[d], server, tabs')
    BY <1>1, <1>4, <1>5, TakenOrphanedOK
<1>7. CallOK(k, server, tabs')
    BY <1>1, <1>5, OpenedCallOK
<1> HIDE DEF table, k
<1>8. calls' \in [CallIds -> Call] /\ \A d \in CallIds : CallOK(calls'[d], server, tabs')
    BY <1>2, <1>6, <1>7 DEF CallOK
<1>9. /\ tab.forced => stored' # t
      /\ tab.data \notin SessionIds \/ server[tab.data].status # "none"
    BY <1>1, <1>2, <1>3 DEF SessionInv, TabOK, IsOpen
<1>10. /\ tab \in Tab /\ UNCHANGED <<installed, server, issued>>
       /\ stored' \in {stored, NoSnapshot, t}
       /\ cookie' \in SessionIds \cup {NoSession} /\ Known(cookie', server)
    BY <1>1, <1>2, <1>3
<1> QED  BY <1>1, <1>4, <1>8, <1>9, <1>10, TabStep

LEMMA ArriveLogoutInv ==
    ASSUME SessionInv, NEW c \in CallIds, ArriveLogout(c) PROVE SessionInv'
<1> DEFINE t == calls[c].tab
           tab == [tabs[t] EXCEPT !.meta = "unknown", !.data = NoData, !.failed = FALSE,
                                  !.today = FALSE, !.on = "other"]
<1>1. t \in Tabs /\ tabs[t] \in Tab
    BY AnswerHolds DEF ArriveLogout
<1>2. /\ UNCHANGED <<installed, server, issued>> /\ cookie' = NoSession /\ stored' = NoSnapshot
      /\ tabs' = [tabs EXCEPT ![t].meta = "unknown", ![t].data = NoData, ![t].failed = FALSE,
                              ![t].today = FALSE, ![t].on = "other"]
      /\ calls' = Orphaned(Taken(c), t, {"session", "today"})
    BY DEF ArriveLogout
<1> HIDE DEF t
<1>3. tab \in Tab /\ tab.data = NoData
    BY <1>1 DEF Tab
<1>4. /\ tabs' \in [Tabs -> Tab \cup {Closed}] /\ tabs'[t] = tab
      /\ \A u \in Tabs : u # t => tabs'[u] = tabs[u]
    BY <1>1, <1>2, <1>3 DEF SessionInv
<1> HIDE DEF tab
<1>5. /\ Orphaned(Taken(c), t, {"session", "today"}) \in [CallIds -> Call]
      /\ \A d \in CallIds :
            CallOK(Orphaned(Taken(c), t, {"session", "today"})[d], server, tabs')
    BY <1>1, <1>3, <1>4, TabIsOpen, TakenOrphanedOK
<1>6. /\ tab.data \notin SessionIds /\ stored' # t
      /\ cookie' \in SessionIds \cup {NoSession} /\ Known(cookie', server)
    BY <1>1, <1>2, <1>3, NobodyKnown, PageSessionAssumption
<1>7. calls' \in [CallIds -> Call] /\ \A d \in CallIds : CallOK(calls'[d], server, tabs')
    BY <1>2, <1>5
<1> QED  BY <1>1, <1>2, <1>3, <1>4, <1>6, <1>7, TabStep

LEMMA ArriveRestoreInv ==
    ASSUME SessionInv, NEW c \in CallIds, ArriveRestore(c) PROVE SessionInv'
<1> DEFINE t == calls[c].tab
<1>1. t \in Tabs /\ tabs[t] \in Tab
    BY AnswerHolds DEF ArriveRestore
<1>2. /\ UNCHANGED <<installed, server, issued>> /\ cookie' = NoSession /\ stored' = NoSnapshot
      /\ tabs' = [tabs EXCEPT ![t] = Blank]
      /\ calls' = Orphaned(Taken(c), t, Kinds)
    BY DEF ArriveRestore
<1> HIDE DEF t
<1>3. Blank \in Tab /\ Blank # Closed /\ ~Blank.forced /\ Blank.data \notin SessionIds
    BY FreshTab
<1>4. /\ tabs' \in [Tabs -> Tab \cup {Closed}] /\ tabs'[t] = Blank
      /\ \A u \in Tabs : u # t => tabs'[u] = tabs[u]
    BY <1>1, <1>2, <1>3 DEF SessionInv
<1>5. /\ Orphaned(Taken(c), t, Kinds) \in [CallIds -> Call]
      /\ \A d \in CallIds : CallOK(Orphaned(Taken(c), t, Kinds)[d], server, tabs')
  <2>1. "today" \in Kinds
      BY DEF Kinds
  <2> QED  BY <1>1, <1>3, <1>4, <2>1, TakenOrphanedOK
<1>6. cookie' \in SessionIds \cup {NoSession} /\ Known(cookie', server)
    BY <1>2, NobodyKnown
<1>7. calls' \in [CallIds -> Call] /\ \A d \in CallIds : CallOK(calls'[d], server, tabs')
    BY <1>2, <1>5
<1> QED  BY <1>1, <1>2, <1>3, <1>4, <1>6, <1>7, TabStep

LEMMA LoseInv ==
    ASSUME SessionInv, NEW c \in CallIds, Lose(c) PROVE SessionInv'
<1> DEFINE t == calls[c].tab
           renews == calls[c].kind \in Renewing \cup {"login", "setup"}
<1>1. /\ calls[c] # Free /\ t # NoTab /\ UNCHANGED <<installed, cookie, stored, issued>>
      /\ calls' = [calls EXCEPT ![c] = Orphan(calls[c])]
      /\ server' = [s \in SessionIds |->
                      IF server[s].holder = t /\ renews
                      THEN [server[s] EXCEPT !.holder = NoTab] ELSE server[s]]
      /\ tabs' = IF calls[c].kind = "session" /\ tabs[t].data = NoData
                 THEN [tabs EXCEPT ![t].failed = TRUE] ELSE tabs
    BY DEF Lose, Under
<1>2. /\ CallOK(calls[c], server, tabs) /\ t \in Tabs /\ tabs[t] # Closed /\ tabs[t] \in Tab
    BY <1>1, CallShape, NoTabIsNone DEF SessionInv, CallOK, Attended
<1> HIDE DEF t, renews
<1>3. /\ server' \in [SessionIds -> ServerSession]
      /\ \A s \in SessionIds : server'[s].status = server[s].status
    BY <1>1 DEF SessionInv, ServerSession
<1>4. Onward(server, server')
    BY <1>3 DEF Onward
<1>5. PICK failed \in BOOLEAN : tabs' = [tabs EXCEPT ![t].failed = failed]
  <2>1. tabs[t].failed \in BOOLEAN /\ tabs = [tabs EXCEPT ![t].failed = tabs[t].failed]
      BY <1>2 DEF SessionInv, Tab
  <2> QED  BY <1>1, <2>1
<1>6. /\ tabs' \in [Tabs -> Tab \cup {Closed}] /\ tabs'[t] \in Tab
      /\ tabs'[t].forced = tabs[t].forced /\ tabs'[t].data = tabs[t].data
      /\ tabs'[t].on = tabs[t].on
      /\ \A u \in Tabs : u # t => tabs'[u] = tabs[u]
    BY <1>2, <1>5 DEF SessionInv, Tab
<1>7. ASSUME NEW u \in Tabs PROVE TabOK(tabs'[u], u, server', stored')
  <2>1. TabOK(tabs[u], u, server, stored)
      BY DEF SessionInv
  <2> QED  BY <1>1, <1>2, <1>3, <1>6, <2>1 DEF TabOK
<1>8. ASSUME NEW d \in CallIds PROVE calls'[d] \in Call /\ CallOK(calls'[d], server', tabs')
  <2>1. CASE d = c
    <3>1. CallOK(Orphan(calls[c]), server, tabs')
        BY <1>1, <1>2, OrphanOK
    <3>2. Orphan(calls[c]) # Free => Attended(Orphan(calls[c]), tabs')
        BY <3>1 DEF CallOK
    <3>3. CallOK(Orphan(calls[c]), server', tabs')
        BY <1>4, <3>1, <3>2, CallKept
    <3> QED  BY <1>1, <2>1, <3>3 DEF SessionInv, CallOK
  <2>2. CASE d # c
    <3>1. CallOK(calls[d], server, tabs')
        BY <1>2, <1>6, TabIsOpen, CallsKept
    <3>2. calls[d] # Free => Attended(calls[d], tabs')
        BY <3>1 DEF CallOK
    <3>3. CallOK(calls[d], server', tabs')
        BY <1>4, <3>1, <3>2, CallKept
    <3> QED  BY <1>1, <2>2, <3>3 DEF SessionInv, CallOK
  <2> QED  BY <2>1, <2>2
<1>9. calls' \in [CallIds -> Call]
    BY <1>1, <1>8 DEF SessionInv
<1>10. Known(cookie', server')
    BY <1>1, <1>3 DEF SessionInv, Known
<1> QED  BY <1>1, <1>3, <1>6, <1>7, <1>8, <1>9, <1>10 DEF SessionInv

LEMMA SessionInvKept == SessionInv /\ [SessionNext]_sessionVars => SessionInv'
<1> SUFFICES ASSUME SessionInv, [SessionNext]_sessionVars PROVE SessionInv'
    OBVIOUS
<1>1. CASE UNCHANGED sessionVars
    BY <1>1 DEF sessionVars, SessionInv, TabOK, CallOK, Told, Attended, Known
<1>2. ASSUME NEW t \in Tabs, Load(t) \/ LearnMeta(t) \/ Leave(t) \/ NextDay(t)
      PROVE  SessionInv'
    BY <1>2, LoadInv, LearnMetaInv, LeaveInv, NextDayInv
<1>3. ASSUME NEW c \in CallIds, NEW t \in Tabs, FetchSession(c, t) \/ GoToday(c, t)
      PROVE  SessionInv'
    BY <1>3, FetchSessionInv, GoTodayInv
<1>4. ASSUME NEW c \in CallIds, NEW t \in Tabs, NEW kind \in Unsafe \cup {"login", "setup"},
             Submit(c, t, kind)
      PROVE  SessionInv'
    BY <1>4, SubmitInv
<1>5. ASSUME NEW c \in CallIds, ServeOpening(c) \/ ServeRenewing(c) \/ ServeOther(c)
      PROVE  SessionInv'
    BY <1>5, ServeOpeningInv, ServeRenewingInv, ServeOtherInv
<1>6. ASSUME NEW c \in CallIds,
             \/ ArriveUnauthorized(c) \/ ArriveRefused(c) \/ ArriveSession(c) \/ ArriveToday(c)
             \/ ArrivePatch(c) \/ ArrivePassword(c) \/ ArriveOpened(c) \/ ArriveLogout(c)
             \/ ArriveRestore(c) \/ Lose(c)
      PROVE  SessionInv'
    BY <1>6, ArriveUnauthorizedInv, ArriveRefusedInv, ArriveSessionInv, ArriveTodayInv,
       ArrivePatchInv, ArriveOpenedInv, ArriveLogoutInv, ArriveRestoreInv, LoseInv
<1> QED  BY <1>1, <1>2, <1>3, <1>4, <1>5, <1>6, EndElsewhereInv DEF SessionNext

LEMMA InitSessionInv == SessionInit => SessionInv
<1> SUFFICES ASSUME SessionInit PROVE SessionInv
    OBVIOUS
<1>1. Unopened \in ServerSession /\ 0 \in 0..MaxTokens
    BY PageSessionAssumption DEF Unopened, ServerSession, NoToken
<1>2. \A t \in Tabs : TabOK(tabs[t], t, server, stored)
    BY DEF SessionInit, TabOK
<1>3. \A c \in CallIds : CallOK(calls[c], server, tabs)
    BY FreeOK DEF SessionInit
<1>4. calls \in [CallIds -> Call]
    BY DEF SessionInit, Call
<1> QED  BY <1>1, <1>2, <1>3, <1>4, NobodyKnown DEF SessionInit, SessionInv

LEMMA AlwaysSessionInv == SessionSpec => []SessionInv
BY InitSessionInv, SessionInvKept, PTL DEF SessionSpec

-----------------------------------------------------------------------------
(* A quiet tab can write *)

\* An answer on its way to tab t that says that session s was renewed.
Brings(c, t, s) ==
    Answered(c, "ok", Renewing) /\ calls[c].tab = t /\ calls[c].session = s

Behind(t, s) == IsOpen(t) /\ tabs[t].data = s /\ ~tabs[t].forced

\* While t is the last to have had the token of s renewed, every answer about s that
\* is on its way to t has this token, and if t does not hold it, such an answer, or
\* one that makes it known to t, is yet to come.
Writes(t, s) ==
    server[s].status = "open" /\ server[s].holder = t =>
        /\ \A c \in CallIds : Brings(c, t, s) => calls[c].token = server[s].token
        /\ Behind(t, s) => tabs[t].csrf = server[s].token \/ Pending(t, Renewing)

AllWrite == \A t \in Tabs, s \in SessionIds : Writes(t, s)

LEMMA WritesKept ==
    ASSUME AllWrite, NEW t \in Tabs, NEW s \in SessionIds,
           server'[s].status = "open" /\ server'[s].holder = t => server'[s] = server[s],
           \A c \in CallIds : Brings(c, t, s)' => calls'[c] = calls[c],
           Behind(t, s)' =>
               \/ Pending(t, Renewing)'
               \/ /\ Behind(t, s) /\ tabs'[t].csrf = tabs[t].csrf
                  /\ ~Pending(t, Renewing)
    PROVE  Writes(t, s)'
<1> SUFFICES ASSUME server'[s].status = "open", server'[s].holder = t
             PROVE  /\ \A c \in CallIds : Brings(c, t, s)' => calls'[c].token = server'[s].token
                    /\ Behind(t, s)' =>
                           tabs'[t].csrf = server'[s].token \/ Pending(t, Renewing)'
    BY DEF Writes
<1>1. server[s].status = "open" /\ server[s].holder = t /\ server'[s] = server[s]
    OBVIOUS
<1>2. Writes(t, s)
    BY DEF AllWrite
<1>3. ASSUME NEW c \in CallIds, Brings(c, t, s)' PROVE calls'[c].token = server'[s].token
  <2>1. Brings(c, t, s)
      BY <1>3 DEF Brings, Answered, Under
  <2> QED  BY <1>1, <1>2, <1>3, <2>1 DEF Writes
<1>4. Behind(t, s)' => tabs'[t].csrf = server'[s].token \/ Pending(t, Renewing)'
    BY <1>1, <1>2 DEF Writes
<1> QED  BY <1>3, <1>4

\* The calls of renewal that tab t waits for are the same, or more.
Waits(t) ==
    \A c \in CallIds :
        Under(c) /\ calls[c].tab = t /\ calls[c].kind \in Renewing =>
            calls'[c].tab = t /\ calls'[c].kind \in Renewing /\ calls'[c] # Free

\* A step of the page: the server goes on as it is.
LEMMA PageStepWrites ==
    ASSUME AllWrite, UNCHANGED server,
           \A c \in CallIds :
               \/ calls'[c] = calls[c]
               \/ calls'[c] = Free
               \/ calls'[c].answer = "none",
           \A t \in Tabs :
               \/ ~IsOpen(t)' \/ tabs'[t].data \notin SessionIds \/ tabs'[t].forced
               \/ Pending(t, Renewing)'
               \/ /\ IsOpen(t) /\ tabs'[t].data = tabs[t].data
                  /\ tabs'[t].forced = tabs[t].forced /\ tabs'[t].csrf = tabs[t].csrf
                  /\ Waits(t)
    PROVE  AllWrite'
<1> SUFFICES ASSUME NEW t \in Tabs, NEW s \in SessionIds PROVE Writes(t, s)'
    BY DEF AllWrite
<1>1. \A c \in CallIds : Brings(c, t, s)' => calls'[c] = calls[c]
    BY DEF Brings, Answered, Under
<1>2. Behind(t, s)' => \/ Pending(t, Renewing)'
                       \/ /\ Behind(t, s) /\ tabs'[t].csrf = tabs[t].csrf
                          /\ ~Pending(t, Renewing)
  <2>1. Waits(t) /\ Pending(t, Renewing) => Pending(t, Renewing)'
      BY DEF Waits, Pending, Under
  <2> QED  BY <2>1 DEF Behind, IsOpen
<1> QED  BY <1>1, <1>2, WritesKept

\* What orphaning leaves: other calls as they are, and no answers.
LEMMA OrphanedLeaves ==
    ASSUME NEW table, NEW t, NEW kinds, NEW c \in CallIds
    PROVE  /\ \/ Orphaned(table, t, kinds)[c] = table[c]
              \/ Orphaned(table, t, kinds)[c] = Free
              \/ Orphaned(table, t, kinds)[c].answer = "none"
           /\ table[c].tab # t \/ table[c].kind \notin kinds =>
                 Orphaned(table, t, kinds)[c] = table[c]
           /\ table[c] = Free => Orphaned(table, t, kinds)[c] = Free
<1>1. table[c].answer = "none" =>
          Orphan(table[c]) = Free \/ Orphan(table[c]).answer = "none"
  <2>1. CASE table[c].kind \in Renewing \cup {"setup"} /\ table[c].answer = "none"
    <3> DEFINE kind == IF table[c].kind = "refresh" THEN "session" ELSE table[c].kind
    <3>1. Orphan(table[c]) = [table[c] EXCEPT !.kind = kind, !.tab = NoTab]
        BY <2>1 DEF Orphan
    <3>2. [table[c] EXCEPT !.kind = kind, !.tab = NoTab].answer = table[c].answer
        OBVIOUS
    <3> QED  BY <2>1, <3>1, <3>2
  <2> QED  BY <2>1 DEF Orphan
<1>2. table[c].answer # "none" => Orphan(table[c]) = Free
    BY DEF Orphan
<1> QED  BY <1>1, <1>2 DEF Orphaned

LEMMA OneTabWrites ==
    ASSUME AllWrite, UNCHANGED server, NEW t \in Tabs,
           \A u \in Tabs : u # t => tabs'[u] = tabs[u] /\ Waits(u),
           \A c \in CallIds :
               \/ calls'[c] = calls[c]
               \/ calls'[c] = Free
               \/ calls'[c].answer = "none",
           \/ tabs'[t].data \notin SessionIds \/ tabs'[t].forced
           \/ Pending(t, Renewing)'
           \/ /\ IsOpen(t) /\ tabs'[t].data = tabs[t].data
              /\ tabs'[t].forced = tabs[t].forced /\ tabs'[t].csrf = tabs[t].csrf
              /\ Waits(t)
    PROVE  AllWrite'
BY PageStepWrites DEF IsOpen

\* A field of an open tab changes that does not matter here.
LEMMA SameSession ==
    ASSUME SessionInv, NEW t \in Tabs, IsOpen(t),
           \/ \E meta : tabs' = [tabs EXCEPT ![t].meta = meta]
           \/ \E on : tabs' = [tabs EXCEPT ![t].on = on]
           \/ \E today : tabs' = [tabs EXCEPT ![t].today = today]
           \/ UNCHANGED tabs
    PROVE  /\ tabs'[t].data = tabs[t].data
           /\ tabs'[t].forced = tabs[t].forced /\ tabs'[t].csrf = tabs[t].csrf
           /\ \A u \in Tabs : u # t => tabs'[u] = tabs[u]
<1>1. tabs[t] \in Tab /\ tabs \in [Tabs -> Tab \cup {Closed}]
    BY DEF SessionInv, IsOpen
<1> QED  BY <1>1 DEF Tab

LEMMA MovesWrite ==
    ASSUME SessionInv, AllWrite, NEW t \in Tabs,
           LearnMeta(t) \/ Leave(t) \/ NextDay(t)
    PROVE  AllWrite'
<1>1. IsOpen(t) /\ UNCHANGED server
    BY DEF LearnMeta, Leave, NextDay, Usable, Shows
<1>2. /\ tabs'[t].data = tabs[t].data
      /\ tabs'[t].forced = tabs[t].forced /\ tabs'[t].csrf = tabs[t].csrf
      /\ \A u \in Tabs : u # t => tabs'[u] = tabs[u]
  <2>1. CASE LearnMeta(t)
      BY <1>1, <2>1, SameSession DEF LearnMeta
  <2>2. CASE Leave(t)
      BY <1>1, <2>2, SameSession DEF Leave
  <2>3. CASE NextDay(t)
      BY <1>1, <2>3, SameSession DEF NextDay
  <2> QED  BY <2>1, <2>2, <2>3
<1>3. calls' = calls \/ calls' = Orphaned(calls, t, {"today"})
    BY DEF LearnMeta, Leave, NextDay
<1>4. \A c \in CallIds : /\ \/ calls'[c] = calls[c]
                            \/ calls'[c] = Free
                            \/ calls'[c].answer = "none"
                         /\ calls[c].kind \in Renewing => calls'[c] = calls[c]
    BY <1>3, OrphanedLeaves DEF Renewing
<1>5. \A u \in Tabs : Waits(u)
    BY <1>4 DEF Waits, Under
<1> QED  BY <1>1, <1>2, <1>4, <1>5, OneTabWrites

LEMMA LoadWrites ==
    ASSUME SessionInv, AllWrite, NEW t \in Tabs, Load(t) PROVE AllWrite'
<1>1. PICK tab \in {Blank} \cup {Hydrated(today) : today \in BOOLEAN} :
          /\ tabs' = [tabs EXCEPT ![t] = tab]
          /\ calls' = Orphaned(calls, t, Kinds)
          /\ UNCHANGED server
    BY DEF Load
<1>2. tab.data \notin SessionIds
    BY FreshTab
<1>3. /\ tabs'[t].data \notin SessionIds
      /\ \A u \in Tabs : u # t => tabs'[u] = tabs[u]
    BY <1>1, <1>2 DEF SessionInv
<1>4. \A c \in CallIds : /\ \/ calls'[c] = calls[c]
                            \/ calls'[c] = Free
                            \/ calls'[c].answer = "none"
                         /\ calls[c].tab # t => calls'[c] = calls[c]
    BY <1>1, OrphanedLeaves
<1>5. \A u \in Tabs : u # t => Waits(u)
    BY <1>4 DEF Waits, Under
<1> QED  BY <1>1, <1>3, <1>4, <1>5, OneTabWrites

\* A call that was sent is none that was answered.
LEMMA SentShape ==
    ASSUME NEW t, NEW kind
    PROVE  /\ Sent(t, kind).answer = "none" /\ Sent(t, kind).tab = t
           /\ Sent(t, kind).kind = kind
           /\ kind \in Kinds => Sent(t, kind) # Free
<1>1. /\ Sent(t, kind).answer = "none" /\ Sent(t, kind).tab = t
      /\ Sent(t, kind).kind = kind
    BY DEF Sent
<1>2. kind \in Kinds => Sent(t, kind) # Free
    BY <1>1 DEF Free, Kinds
<1> QED  BY <1>1, <1>2

LEMMA FetchSessionWrites ==
    ASSUME SessionInv, AllWrite, NEW c \in CallIds, NEW t \in Tabs, FetchSession(c, t)
    PROVE  AllWrite'
<1> DEFINE table == Orphaned(calls, t, {"session"})
<1>1. /\ calls[c] = Free /\ UNCHANGED server
      /\ tabs' = [tabs EXCEPT ![t].failed = FALSE]
      /\ calls' = [table EXCEPT ![c] = Sent(t, "session")]
    BY DEF FetchSession, Under
<1>2. \A u \in Tabs : u # t => tabs'[u] = tabs[u]
    BY <1>1 DEF SessionInv
<1>3. DOMAIN table = CallIds
    BY DEF Orphaned
<1>4. ASSUME NEW d \in CallIds
      PROVE  /\ \/ table[d] = calls[d]
                \/ table[d] = Free
                \/ table[d].answer = "none"
             /\ calls[d].tab # t => table[d] = calls[d]
    BY OrphanedLeaves
<1> HIDE DEF table
<1>5. calls'[c] = Sent(t, "session") /\ \A d \in CallIds : d # c => calls'[d] = table[d]
    BY <1>1, <1>3
<1>6. \A d \in CallIds : \/ calls'[d] = calls[d]
                         \/ calls'[d] = Free
                         \/ calls'[d].answer = "none"
    BY <1>4, <1>5, SentShape
<1>7. \A u \in Tabs : u # t => Waits(u)
    BY <1>1, <1>4, <1>5 DEF Waits, Under
<1>8. Pending(t, Renewing)'
  <2>1. "session" \in Kinds /\ "session" \in Renewing
      BY DEF Kinds, Renewing
  <2> QED  BY <1>5, <2>1, SentShape DEF Pending, Under
<1> QED  BY <1>1, <1>2, <1>6, <1>7, <1>8, OneTabWrites

LEMMA SentWrites ==
    ASSUME SessionInv, AllWrite, NEW c \in CallIds, NEW t \in Tabs,
           GoToday(c, t) \/ \E kind \in Unsafe \cup {"login", "setup"} : Submit(c, t, kind)
    PROVE  AllWrite'
<1>1. PICK kind \in Kinds : calls[c] = Free /\ calls' = [calls EXCEPT ![c] = Sent(t, kind)]
    BY DEF GoToday, Submit, Send, Under, Unsafe, Kinds
<1>2. IsOpen(t) /\ UNCHANGED server
    BY DEF GoToday, Submit, Usable, Shows
<1>3. /\ tabs'[t].data = tabs[t].data
      /\ tabs'[t].forced = tabs[t].forced /\ tabs'[t].csrf = tabs[t].csrf
      /\ \A u \in Tabs : u # t => tabs'[u] = tabs[u]
    BY <1>2, SameSession DEF GoToday, Submit
<1>4. calls'[c] = Sent(t, kind) /\ \A d \in CallIds : d # c => calls'[d] = calls[d]
    BY <1>1 DEF SessionInv
<1>5. \A d \in CallIds : calls'[d] = calls[d] \/ calls'[d].answer = "none"
    BY <1>4, SentShape
<1>6. \A u \in Tabs : Waits(u)
    BY <1>1, <1>4 DEF Waits, Under
<1> QED  BY <1>2, <1>3, <1>5, <1>6, OneTabWrites

\* What is left when the answer to c, a call of tab t, is taken: the other tabs wait
\* for what they waited for.
LEMMA TakenLeaves ==
    ASSUME SessionInv, NEW c \in CallIds, NEW t, calls[c].tab = t, NEW kinds,
           calls' = Taken(c) \/ calls' = Orphaned(Taken(c), t, kinds)
    PROVE  /\ \A d \in CallIds : \/ calls'[d] = calls[d]
                                 \/ calls'[d] = Free
                                 \/ calls'[d].answer = "none"
           /\ \A d \in CallIds : d # c /\ (calls[d].tab # t \/ calls[d].kind \notin kinds) =>
                 calls'[d] = calls[d]
           /\ \A u \in Tabs : u # t => Waits(u)
<1> DEFINE taken == Taken(c)
<1>1. taken[c] = Free /\ \A d \in CallIds : d # c => taken[d] = calls[d]
    BY TakenOK
<1> HIDE DEF taken
<1>2. ASSUME NEW d \in CallIds
      PROVE  /\ \/ Orphaned(taken, t, kinds)[d] = taken[d]
                \/ Orphaned(taken, t, kinds)[d] = Free
                \/ Orphaned(taken, t, kinds)[d].answer = "none"
             /\ taken[d].tab # t \/ taken[d].kind \notin kinds =>
                   Orphaned(taken, t, kinds)[d] = taken[d]
             /\ taken[d] = Free => Orphaned(taken, t, kinds)[d] = Free
    BY OrphanedLeaves
<1>3. calls' = taken \/ calls' = Orphaned(taken, t, kinds)
    BY DEF taken
<1>4. \A d \in CallIds : \/ calls'[d] = calls[d]
                         \/ calls'[d] = Free
                         \/ calls'[d].answer = "none"
    BY <1>1, <1>2, <1>3
<1>5. \A d \in CallIds : d # c /\ (calls[d].tab # t \/ calls[d].kind \notin kinds) =>
          calls'[d] = calls[d]
    BY <1>1, <1>2, <1>3
<1> QED  BY <1>4, <1>5 DEF Waits, Under

LEMMA ArriveUnauthorizedWrites ==
    ASSUME SessionInv, AllWrite, NEW c \in CallIds, ArriveUnauthorized(c) PROVE AllWrite'
<1> DEFINE t == calls[c].tab
<1>0. PICK answer \in Denials \cup {"wrong"} : Answered(c, answer, Kinds)
    BY DEF ArriveUnauthorized
<1>1. t \in Tabs /\ tabs[t] \in Tab
    BY <1>0, AnswerHolds DEF Denials
<1>2. PICK failed :
          /\ tabs' = [tabs EXCEPT ![t].csrf = NoToken, ![t].forced = TRUE, ![t].on = "other",
                                  ![t].failed = failed]
          /\ calls' = Orphaned(Taken(c), t, {"today"})
          /\ UNCHANGED server
    BY <1>1 DEF ArriveUnauthorized, SessionInv
<1>3. /\ tabs'[t].forced
      /\ \A u \in Tabs : u # t => tabs'[u] = tabs[u]
    BY <1>1, <1>2 DEF SessionInv, Tab
<1>4. /\ \A d \in CallIds : \/ calls'[d] = calls[d]
                            \/ calls'[d] = Free
                            \/ calls'[d].answer = "none"
      /\ \A u \in Tabs : u # t => Waits(u)
    BY <1>2, TakenLeaves
<1> HIDE DEF t
<1> QED  BY <1>1, <1>2, <1>3, <1>4, OneTabWrites

\* An answer that renews nothing, and tells nothing about the session.
LEMMA PlainAnswerWrites ==
    ASSUME SessionInv, AllWrite, NEW c \in CallIds,
           ArriveRefused(c) \/ ArrivePassword(c) \/ ArriveToday(c)
    PROVE  AllWrite'
<1> DEFINE t == calls[c].tab
<1>0. PICK answer \in {"ok", "refused"}, kinds \in {Kinds, {"password"}, {"today"}} :
          Answered(c, answer, kinds)
    BY DEF ArriveRefused, ArrivePassword, ArriveToday
<1>1. /\ t \in Tabs /\ tabs[t] \in Tab /\ IsOpen(t) /\ Told(calls[c], server)
      /\ UNCHANGED server /\ calls' = Taken(c)
    BY <1>0, AnswerHolds DEF ArriveRefused, ArrivePassword, ArriveToday
<1>2. calls[c].kind \notin Renewing
    BY <1>1 DEF ArriveRefused, ArrivePassword, ArriveToday, Answered, Told, Renewing
<1>3. /\ tabs'[t].data = tabs[t].data
      /\ tabs'[t].forced = tabs[t].forced /\ tabs'[t].csrf = tabs[t].csrf
      /\ \A u \in Tabs : u # t => tabs'[u] = tabs[u]
    BY <1>1, SameSession DEF ArriveRefused, ArrivePassword, ArriveToday
<1>4. /\ \A d \in CallIds : \/ calls'[d] = calls[d]
                            \/ calls'[d] = Free
                            \/ calls'[d].answer = "none"
      /\ \A d \in CallIds : d # c => calls'[d] = calls[d]
      /\ \A u \in Tabs : u # t => Waits(u)
    BY <1>1, TakenLeaves, TakenOK
<1>5. Waits(t)
    BY <1>2, <1>4 DEF Waits, Under
<1> HIDE DEF t
<1> QED  BY <1>1, <1>3, <1>4, <1>5, OneTabWrites

LEMMA ArrivePatchWrites ==
    ASSUME SessionInv, AllWrite, NEW c \in CallIds, ArrivePatch(c) PROVE AllWrite'
<1>1. /\ calls[c].tab \in Tabs /\ IsOpen(calls[c].tab)
      /\ calls' = [calls EXCEPT ![c] = Sent(calls[c].tab, "refresh")]
      /\ UNCHANGED <<server, tabs>> /\ calls[c].kind = "patch"
    BY AnswerHolds DEF ArrivePatch, Answered
<1>2. /\ calls'[c] = Sent(calls[c].tab, "refresh")
      /\ \A d \in CallIds : d # c => calls'[d] = calls[d]
    BY <1>1 DEF SessionInv
<1>3. \A d \in CallIds : calls'[d] = calls[d] \/ calls'[d].answer = "none"
    BY <1>2, SentShape
<1>4. \A u \in Tabs : Waits(u)
    BY <1>1, <1>2 DEF Waits, Under, Renewing
<1> QED  BY <1>1, <1>3, <1>4, OneTabWrites

LEMMA ArriveOpenedWrites ==
    ASSUME SessionInv, AllWrite, NEW c \in CallIds, ArriveOpened(c), NEW t, calls[c].tab = t
    PROVE  AllWrite'
<1> DEFINE kinds == {"session", "today"}
           k == [kind |-> "session", tab |-> t, cookie |-> calls[c].session,
                 answer |-> "none", token |-> NoToken]
           taken == Taken(c)
           table == Orphaned(taken, t, kinds)
<1>1. /\ t \in Tabs /\ tabs[t] \in Tab /\ UNCHANGED server
      /\ calls' = [table EXCEPT ![c] = k]
      /\ tabs' = [tabs EXCEPT ![t].csrf = calls[c].token, ![t].meta = "set",
                              ![t].on = "other", ![t].failed = FALSE]
    BY AnswerHolds DEF ArriveOpened
<1>2. \A u \in Tabs : u # t => tabs'[u] = tabs[u]
    BY <1>1 DEF SessionInv
<1>3. k.kind = "session" /\ k.tab = t /\ k.answer = "none" /\ k # Free
    BY DEF Free
<1>4. DOMAIN table = CallIds
    BY DEF Orphaned
<1> HIDE DEF k
<1>5. \A d \in CallIds : d # c => taken[d] = calls[d]
    BY TakenOK
<1> HIDE DEF taken
<1>6. ASSUME NEW d \in CallIds
      PROVE  /\ \/ table[d] = taken[d] \/ table[d] = Free \/ table[d].answer = "none"
             /\ taken[d].tab # t => table[d] = taken[d]
    BY OrphanedLeaves
<1> HIDE DEF table
<1>7. calls'[c] = k /\ \A d \in CallIds : d # c => calls'[d] = table[d]
    BY <1>1, <1>4
<1>8. \A d \in CallIds : \/ calls'[d] = calls[d]
                         \/ calls'[d] = Free
                         \/ calls'[d].answer = "none"
    BY <1>3, <1>5, <1>6, <1>7
<1>9. \A u \in Tabs : u # t => Waits(u)
    BY <1>5, <1>6, <1>7 DEF Waits, Under
<1>10. Pending(t, Renewing)'
  <2>1. "session" \in Renewing
      BY DEF Renewing
  <2> QED  BY <1>3, <1>7, <2>1 DEF Pending, Under
<1> QED  BY <1>1, <1>2, <1>8, <1>9, <1>10, OneTabWrites

\* The tab begins anew.
LEMMA EmptiedWrites ==
    ASSUME SessionInv, AllWrite, NEW c \in CallIds, ArriveLogout(c) \/ ArriveRestore(c)
    PROVE  AllWrite'
<1> DEFINE t == calls[c].tab
<1>1. t \in Tabs /\ tabs[t] \in Tab /\ UNCHANGED server
    BY AnswerHolds DEF ArriveLogout, ArriveRestore
<1>2. /\ tabs'[t].data = NoData
      /\ \A u \in Tabs : u # t => tabs'[u] = tabs[u]
    BY <1>1 DEF ArriveLogout, ArriveRestore, SessionInv, Tab, Blank
<1>3. PICK kinds : calls' = Orphaned(Taken(c), t, kinds)
    BY DEF ArriveLogout, ArriveRestore
<1>4. /\ \A d \in CallIds : \/ calls'[d] = calls[d]
                            \/ calls'[d] = Free
                            \/ calls'[d].answer = "none"
      /\ \A u \in Tabs : u # t => Waits(u)
    BY <1>3, TakenLeaves
<1>5. NoData \notin SessionIds
    BY PageSessionAssumption
<1> HIDE DEF t
<1> QED  BY <1>1, <1>2, <1>4, <1>5, OneTabWrites

\* The answer of a renewal brings the token the server asks for.
LEMMA ArriveSessionWrites ==
    ASSUME SessionInv, AllWrite, NEW c \in CallIds, ArriveSession(c), NEW t, calls[c].tab = t
    PROVE  AllWrite'
<1>0. Answered(c, "ok", Renewing)
    BY DEF ArriveSession
<1>1. t \in Tabs /\ tabs[t] \in Tab
    BY <1>0, AnswerHolds
<1>2. /\ tabs' = [tabs EXCEPT ![t].data = calls[c].session, ![t].failed = FALSE,
                              ![t].forced = FALSE, ![t].csrf = calls[c].token]
      /\ calls' = Taken(c) /\ UNCHANGED server
    BY DEF ArriveSession
<1>3. /\ tabs'[t].data = calls[c].session /\ tabs'[t].csrf = calls[c].token
      /\ \A u \in Tabs : u # t => tabs'[u] = tabs[u]
    BY <1>1, <1>2 DEF SessionInv, Tab
<1>4. /\ calls'[c] = Free
      /\ \A d \in CallIds : d # c => calls'[d] = calls[d]
      /\ \A u \in Tabs : u # t => Waits(u)
    BY <1>2, TakenLeaves, TakenOK
<1>5. ASSUME NEW u \in Tabs, NEW s \in SessionIds PROVE Writes(u, s)'
  <2>1. \A d \in CallIds : Brings(d, u, s)' => calls'[d] = calls[d]
      BY <1>4 DEF Brings, Answered, Under
  <2>2. CASE u # t
    <3>1. Pending(u, Renewing) => Pending(u, Renewing)'
        BY <1>4, <2>2 DEF Waits, Pending, Under
    <3>2. Behind(u, s)' => Behind(u, s) /\ tabs'[u].csrf = tabs[u].csrf
        BY <1>3, <2>2 DEF Behind, IsOpen
    <3> QED  BY <1>2, <2>1, <3>1, <3>2, WritesKept
  <2>3. CASE u = t /\ s # calls[c].session
    <3>1. ~Behind(u, s)'
        BY <1>3, <2>3 DEF Behind
    <3> QED  BY <1>2, <2>1, <3>1, WritesKept
  <2>4. CASE u = t /\ s = calls[c].session
    <3>1. Brings(c, u, s) /\ Writes(u, s)
        BY <1>0, <2>4 DEF Brings, AllWrite
    <3>2. tabs'[u].csrf = calls[c].token
        BY <1>3, <2>4
    <3>3. \A d \in CallIds : Brings(d, u, s)' => Brings(d, u, s)
        BY <2>1 DEF Brings, Answered, Under
    <3> QED  BY <1>2, <2>1, <3>1, <3>2, <3>3 DEF Writes
  <2> QED  BY <2>2, <2>3, <2>4
<1> QED  BY <1>5 DEF AllWrite

\* A loss makes nobody wait for less, except the tab that lost a renewal.
LEMMA LoseWrites ==
    ASSUME SessionInv, AllWrite, NEW c \in CallIds, Lose(c), NEW t, calls[c].tab = t
    PROVE  AllWrite'
<1> DEFINE renews == calls[c].kind \in Renewing \cup {"login", "setup"}
<1>1. /\ calls[c] # Free /\ t # NoTab
      /\ calls' = [calls EXCEPT ![c] = Orphan(calls[c])]
      /\ server' = [s \in SessionIds |->
                      IF server[s].holder = t /\ renews
                      THEN [server[s] EXCEPT !.holder = NoTab] ELSE server[s]]
      /\ tabs' = IF calls[c].kind = "session" /\ tabs[t].data = NoData
                 THEN [tabs EXCEPT ![t].failed = TRUE] ELSE tabs
    BY DEF Lose, Under
<1>2. t \in Tabs /\ tabs[t] # Closed /\ tabs[t] \in Tab
    BY <1>1, CallShape, NoTabIsNone DEF SessionInv, CallOK, Attended
<1>3. ASSUME NEW u \in Tabs
      PROVE  /\ IsOpen(u)' => IsOpen(u)
             /\ tabs'[u].data = tabs[u].data /\ tabs'[u].forced = tabs[u].forced
             /\ tabs'[u].csrf = tabs[u].csrf
    BY <1>1, <1>2 DEF SessionInv, Tab, IsOpen
<1>4. Orphan(calls[c]) = Free \/ Orphan(calls[c]).answer = "none"
  <2> DEFINE kind == IF calls[c].kind = "refresh" THEN "session" ELSE calls[c].kind
  <2>1. [calls[c] EXCEPT !.kind = kind, !.tab = NoTab].answer = calls[c].answer
    <3>1. calls[c].answer = "none" =>
              calls[c] \in [kind : Kinds, tab : Tabs \cup {NoTab},
                            cookie : SessionIds \cup {NoSession}, answer : {"none"},
                            token : 0..MaxTokens]
        BY <1>1, CallShape DEF SessionInv
    <3> QED  OBVIOUS
  <2>2. CASE calls[c].answer = "none" /\ calls[c].kind \in Renewing \cup {"setup"}
    <3>1. Orphan(calls[c]) = [calls[c] EXCEPT !.kind = kind, !.tab = NoTab]
        BY <2>2 DEF Orphan
    <3> QED  BY <2>1, <2>2, <3>1
  <2>3. CASE ~(calls[c].answer = "none" /\ calls[c].kind \in Renewing \cup {"setup"})
      BY <2>3 DEF Orphan
  <2> QED  BY <2>2, <2>3
<1>5. /\ calls'[c] = Free \/ calls'[c].answer = "none"
      /\ \A d \in CallIds : d # c => calls'[d] = calls[d]
    BY <1>1, <1>4 DEF SessionInv
<1>6. ASSUME NEW u \in Tabs, NEW s \in SessionIds PROVE Writes(u, s)'
  <2>1. \A d \in CallIds : Brings(d, u, s)' => calls'[d] = calls[d]
      BY <1>5 DEF Brings, Answered, Under
  <2>2. CASE u = t /\ renews
    <3>1. server'[s].holder # u
        BY <1>1, <1>2, <2>2, NoTabIsNone DEF SessionInv, ServerSession
    <3> QED  BY <3>1 DEF Writes
  <2>3. CASE ~(u = t /\ renews)
    <3>1. server'[s].holder = u => server'[s] = server[s]
        BY <1>1, <1>2, NoTabIsNone DEF SessionInv, ServerSession
    <3>2. Waits(u)
        BY <1>5, <2>3 DEF Waits, Under
    <3>3. Pending(u, Renewing) => Pending(u, Renewing)'
        BY <3>2 DEF Waits, Pending, Under
    <3>4. Behind(u, s)' => Behind(u, s) /\ tabs'[u].csrf = tabs[u].csrf
        BY <1>3 DEF Behind
    <3> QED  BY <2>1, <3>1, <3>3, <3>4, WritesKept
  <2> QED  BY <2>2, <2>3
<1> QED  BY <1>6 DEF AllWrite

\* To answer takes no call away from a tab that waits for it.
LEMMA AnswerWaits ==
    ASSUME SessionInv, NEW c \in CallIds, calls[c] # Free, NEW answer, NEW session, NEW token,
           Answer(c, answer, session, token)
    PROVE  /\ \A d \in CallIds : d # c => calls'[d] = calls[d]
           /\ \A t \in Tabs : Waits(t)
           /\ \A t \in Tabs : calls[c].tab = t =>
                 calls'[c] = [kind |-> calls[c].kind, tab |-> t, cookie |-> calls[c].cookie,
                              answer |-> answer, token |-> token, session |-> session]
           /\ Under(c)' => calls'[c].kind = calls[c].kind /\ calls'[c].session = session
                           /\ calls'[c].answer = answer /\ calls'[c].tab = calls[c].tab
<1> DEFINE k == [kind |-> calls[c].kind, tab |-> calls[c].tab, cookie |-> calls[c].cookie,
                 answer |-> answer, token |-> token, session |-> session]
<1>1. /\ calls'[c] = IF calls[c].tab = NoTab THEN Free ELSE k
      /\ \A d \in CallIds : d # c => calls'[d] = calls[d]
    BY DEF Answer, SessionInv
<1>2. /\ k.kind = calls[c].kind /\ k.tab = calls[c].tab /\ k.answer = answer
      /\ k.session = session
    OBVIOUS
<1>3. calls[c].kind \in Kinds => k # Free
  <2>1. "free" \notin Kinds /\ Free.kind = "free"
      BY DEF Kinds, Free
  <2> QED  BY <1>2, <2>1
<1>4. calls[c].kind \in Kinds
    BY CallShape DEF SessionInv
<1>5. \A t \in Tabs : calls[c].tab = t => calls'[c] = k
    BY <1>1, NoTabIsNone
<1>6. \A t \in Tabs : calls[c].tab = t =>
          k = [kind |-> calls[c].kind, tab |-> t, cookie |-> calls[c].cookie,
               answer |-> answer, token |-> token, session |-> session]
    OBVIOUS
<1> HIDE DEF k
<1>7. \A t \in Tabs : Waits(t)
    BY <1>1, <1>2, <1>3, <1>4, <1>5 DEF Waits, Under
<1>8. Under(c)' => calls'[c] = k
    BY <1>1 DEF Under
<1> QED  BY <1>1, <1>2, <1>5, <1>6, <1>7, <1>8

\* The server answers, and no tab is told yet.  What is to be shown is about the
\* sessions that are open and not what they were.
LEMMA ServerStepWrites ==
    ASSUME SessionInv, AllWrite, UNCHANGED tabs, \A t \in Tabs : Waits(t),
           \A t \in Tabs, s \in SessionIds :
               \/ Writes(t, s)'
               \/ /\ server'[s].status = "open" => server'[s] = server[s]
                  /\ \A c \in CallIds : Brings(c, t, s)' => calls'[c] = calls[c]
    PROVE  AllWrite'
<1> SUFFICES ASSUME NEW t \in Tabs, NEW s \in SessionIds, ~Writes(t, s)' PROVE FALSE
    BY DEF AllWrite
<1>1. Pending(t, Renewing) => Pending(t, Renewing)'
    BY DEF Waits, Pending, Under
<1>2. Behind(t, s)' => Behind(t, s) /\ tabs'[t].csrf = tabs[t].csrf
    BY DEF Behind, IsOpen
<1> QED  BY <1>1, <1>2, WritesKept

LEMMA FailWrites ==
    ASSUME SessionInv, AllWrite, NEW c \in CallIds, calls[c] # Free, UNCHANGED tabs,
           NEW answer \in Denials \cup {"wrong", "refused"}, Fail(c, answer)
    PROVE  AllWrite'
<1>1. Answer(c, answer, NoSession, NoToken) /\ UNCHANGED server /\ answer # "ok"
    BY DEF Fail, Denials
<1>2. /\ \A d \in CallIds : d # c => calls'[d] = calls[d]
      /\ \A t \in Tabs : Waits(t)
      /\ Under(c)' => calls'[c].answer # "ok"
    BY <1>1, AnswerWaits
<1>3. \A t \in Tabs, s \in SessionIds, d \in CallIds :
          Brings(d, t, s)' => calls'[d] = calls[d]
    BY <1>2 DEF Brings, Answered
<1> QED  BY <1>1, <1>2, <1>3, ServerStepWrites

LEMMA ServeOpeningWrites ==
    ASSUME SessionInv, AllWrite, NEW c \in CallIds, ServeOpening(c) PROVE AllWrite'
<1>1. /\ UNCHANGED tabs /\ calls[c] # Free
      /\ calls[c].kind \in {"login", "setup"} /\ calls[c].kind \notin Renewing
    BY DEF ServeOpening, Free, Renewing
<1>2. ASSUME NEW new \in SessionIds, server[new].status = "none",
             server' = [server EXCEPT ![new] = [status |-> "open", token |-> issued',
                                                holder |-> calls[c].tab]],
             Answer(c, "ok", new, issued')
      PROVE  AllWrite'
  <2>1. /\ \A d \in CallIds : d # c => calls'[d] = calls[d]
        /\ \A t \in Tabs : Waits(t)
        /\ Under(c)' => calls'[c].kind = calls[c].kind
      BY <1>1, <1>2, AnswerWaits
  <2>2. \A t \in Tabs, s \in SessionIds, d \in CallIds :
            Brings(d, t, s)' => calls'[d] = calls[d] /\ Brings(d, t, s)
      BY <1>1, <2>1 DEF Brings, Answered, Under
  <2>3. \A s \in SessionIds : s # new => server'[s] = server[s]
      BY <1>2 DEF SessionInv
  <2>4. ASSUME NEW t \in Tabs PROVE Writes(t, new)'
    <3>1. ASSUME NEW d \in CallIds PROVE ~Brings(d, t, new)'
      <4> SUFFICES ASSUME Brings(d, t, new) PROVE FALSE
          BY <2>2
      <4>1. Told(calls[d], server) /\ calls[d].session = new
          BY AnswerHolds DEF Brings
      <4> QED  BY <1>2, <4>1, NoTabIsNone DEF Told, Known
    <3>2. ~Behind(t, new)'
        BY <1>1, <1>2 DEF SessionInv, TabOK, Behind, IsOpen
    <3> QED  BY <3>1, <3>2 DEF Writes
  <2> QED  BY <1>1, <2>1, <2>2, <2>3, <2>4, ServerStepWrites
<1>3. CASE Fail(c, "wrong") \/ Fail(c, "refused")
    BY <1>1, <1>3, FailWrites
<1> QED  BY <1>2, <1>3 DEF ServeOpening

\* A renewal whose tab waits for no other one: its answer is the only one about the
\* session, and has the new token.
LEMMA ServeRenewingWrites ==
    ASSUME SessionInv, AllWrite, NEW c \in CallIds, ServeRenewing(c) PROVE AllWrite'
<1> DEFINE rival == \E d \in CallIds \ {c} :
                       Under(d) /\ calls[d].tab = calls[c].tab /\ calls[d].kind \in Renewing
<1>1. UNCHANGED tabs /\ calls[c] # Free /\ calls[c].kind \in Renewing
    BY DEF ServeRenewing, Free, Renewing
<1>2. CASE Deny(c)
    BY <1>1, <1>2, FailWrites DEF Deny, Denials
<1>3. CASE ~Deny(c)
  <2>1. PICK renewed, token :
            /\ renewed \in SessionIds
            /\ renewed = calls[c].cookie /\ token = issued'
            /\ server' = [server EXCEPT ![renewed].token = token,
                                        ![renewed].holder = IF rival THEN NoTab ELSE calls[c].tab]
            /\ Answer(c, "ok", renewed, token)
      BY <1>1, <1>3, CallShape DEF ServeRenewing, Authorized, SessionInv
  <2>2. /\ renewed \in SessionIds
        /\ \A s \in SessionIds : s # renewed => server'[s] = server[s]
        /\ server'[renewed].token = token
        /\ server'[renewed].holder = IF rival THEN NoTab ELSE calls[c].tab
      BY <2>1 DEF SessionInv, ServerSession
  <2>3. /\ \A d \in CallIds : d # c => calls'[d] = calls[d]
        /\ \A t \in Tabs : Waits(t)
        /\ \A t \in Tabs : calls[c].tab = t =>
              calls'[c] = [kind |-> calls[c].kind, tab |-> t, cookie |-> calls[c].cookie,
                           answer |-> "ok", token |-> token, session |-> renewed]
        /\ Under(c)' => calls'[c].session = renewed
      BY <1>1, <2>1, AnswerWaits
  <2>4. ASSUME NEW t \in Tabs, NEW s \in SessionIds, s # renewed
        PROVE  /\ server'[s] = server[s]
               /\ \A d \in CallIds : Brings(d, t, s)' => calls'[d] = calls[d]
      BY <2>2, <2>3, <2>4 DEF Brings, Answered
  <2>5. ASSUME NEW t \in Tabs PROVE Writes(t, renewed)'
    <3> SUFFICES ASSUME server'[renewed].holder = t
                 PROVE  /\ \A d \in CallIds :
                               Brings(d, t, renewed)' => calls'[d].token = server'[renewed].token
                        /\ Pending(t, Renewing)'
        BY DEF Writes
    <3>1. ~rival /\ calls[c].tab = t
        BY <2>2, NoTabIsNone
    <3>2. \A d \in CallIds : Brings(d, t, renewed)' => d = c
        BY <2>3, <3>1 DEF Brings, Answered, Under
    <3>3. calls'[c].token = token
      <4>1. calls'[c] = [kind |-> calls[c].kind, tab |-> t, cookie |-> calls[c].cookie,
                         answer |-> "ok", token |-> token, session |-> renewed]
          BY <2>3, <3>1
      <4> QED  BY <4>1
    <3>4. Pending(t, Renewing)'
        BY <1>1, <2>3, <3>1 DEF Waits, Pending, Under
    <3> QED  BY <2>2, <3>2, <3>3, <3>4
  <2>6. \A t \in Tabs, s \in SessionIds :
            \/ Writes(t, s)'
            \/ /\ server'[s].status = "open" => server'[s] = server[s]
               /\ \A d \in CallIds : Brings(d, t, s)' => calls'[d] = calls[d]
    <3> TAKE t \in Tabs, s \in SessionIds
    <3>1. CASE s = renewed
        BY <2>5, <3>1
    <3>2. CASE s # renewed
        BY <2>4, <3>2
    <3> QED  BY <3>1, <3>2
  <2> QED  BY <1>1, <2>3, <2>6, ServerStepWrites
<1> QED  BY <1>2, <1>3

LEMMA EndedWrites ==
    ASSUME SessionInv, AllWrite, UNCHANGED tabs, \A t \in Tabs : Waits(t),
           NEW ended, server' = Ended(server, ended),
           \A t \in Tabs, s \in SessionIds, c \in CallIds :
               Brings(c, t, s)' => calls'[c] = calls[c]
    PROVE  AllWrite'
<1>1. \A s \in SessionIds : server'[s].status = "open" => server'[s] = server[s]
  <2>1. Over.status # "open"
      BY DEF Over
  <2> QED  BY <2>1 DEF Ended
<1> QED  BY <1>1, ServerStepWrites

LEMMA ServeOtherWrites ==
    ASSUME SessionInv, AllWrite, NEW c \in CallIds, ServeOther(c) PROVE AllWrite'
<1>1. UNCHANGED tabs /\ calls[c] # Free /\ calls[c].kind \notin Renewing
    BY DEF ServeOther, Free, Unsafe, Renewing
<1>2. CASE Deny(c) \/ Fail(c, "refused") \/ Fail(c, "wrong")
    BY <1>1, <1>2, FailWrites DEF Deny, Denials
<1>3. CASE server' = Ended(server, Ends(calls[c])) /\ Answer(c, "ok", NoSession, NoToken)
  <2>1. /\ \A d \in CallIds : d # c => calls'[d] = calls[d]
        /\ \A t \in Tabs : Waits(t)
        /\ Under(c)' => calls'[c].kind = calls[c].kind
      BY <1>1, <1>3, AnswerWaits
  <2>2. \A t \in Tabs, s \in SessionIds, d \in CallIds :
            Brings(d, t, s)' => calls'[d] = calls[d]
      BY <1>1, <2>1 DEF Brings, Answered
  <2> QED  BY <1>1, <1>3, <2>1, <2>2, EndedWrites
<1> QED  BY <1>2, <1>3 DEF ServeOther

LEMMA EndElsewhereWrites ==
    ASSUME SessionInv, AllWrite, NEW s \in SessionIds, EndElsewhere(s) PROVE AllWrite'
<1>1. server' = Ended(server, {s}) /\ UNCHANGED <<tabs, calls>>
    BY DEF EndElsewhere
<1>2. \A t \in Tabs : Waits(t)
    BY <1>1 DEF Waits, Under
<1> QED  BY <1>1, <1>2, EndedWrites

LEMMA AllWriteKept == SessionInv /\ AllWrite /\ [SessionNext]_sessionVars => AllWrite'
<1> SUFFICES ASSUME SessionInv, AllWrite, [SessionNext]_sessionVars PROVE AllWrite'
    OBVIOUS
<1>1. CASE UNCHANGED sessionVars
    BY <1>1 DEF sessionVars, AllWrite, Writes, Brings, Answered, Under, Behind, IsOpen, Pending
<1>2. ASSUME NEW t \in Tabs, Load(t) \/ LearnMeta(t) \/ Leave(t) \/ NextDay(t)
      PROVE  AllWrite'
    BY <1>2, LoadWrites, MovesWrite
<1>3. ASSUME NEW c \in CallIds, NEW t \in Tabs,
             \/ FetchSession(c, t) \/ GoToday(c, t)
             \/ \E kind \in Unsafe \cup {"login", "setup"} : Submit(c, t, kind)
      PROVE  AllWrite'
    BY <1>3, FetchSessionWrites, SentWrites
<1>4. ASSUME NEW c \in CallIds, ServeOpening(c) \/ ServeRenewing(c) \/ ServeOther(c)
      PROVE  AllWrite'
    BY <1>4, ServeOpeningWrites, ServeRenewingWrites, ServeOtherWrites
<1>5. ASSUME NEW c \in CallIds,
             \/ ArriveUnauthorized(c) \/ ArriveRefused(c) \/ ArriveSession(c) \/ ArriveToday(c)
             \/ ArrivePatch(c) \/ ArrivePassword(c) \/ ArriveOpened(c) \/ ArriveLogout(c)
             \/ ArriveRestore(c) \/ Lose(c)
      PROVE  AllWrite'
    BY <1>5, ArriveUnauthorizedWrites, PlainAnswerWrites, ArriveSessionWrites,
       ArrivePatchWrites, ArriveOpenedWrites, EmptiedWrites, LoseWrites
<1> QED  BY <1>1, <1>2, <1>3, <1>4, <1>5, EndElsewhereWrites DEF SessionNext

LEMMA InitAllWrite == SessionInit => AllWrite
BY DEF SessionInit, AllWrite, Writes, Unopened

LEMMA AlwaysAllWrite == SessionSpec => []AllWrite
BY AlwaysSessionInv, InitAllWrite, AllWriteKept, PTL DEF SessionSpec

-----------------------------------------------------------------------------
(* What the user can rely on *)

\* Tabs, calls, storage and server keep their shape whatever is answered, lost or
\* cancelled: a call that is waited for has an open tab, and one for the day has a tab
\* that shows the day.
THEOREM TypesKept == SessionSpec => []SessionTypeOK
<1>1. SessionInv => SessionTypeOK
  <2> SUFFICES ASSUME SessionInv PROVE SessionTypeOK
      OBVIOUS
  <2>1. \A c \in CallIds : calls[c] # Free /\ calls[c].tab # NoTab =>
            /\ IsOpen(calls[c].tab)
            /\ calls[c].kind = "today" => tabs[calls[c].tab].on = "today"
      BY DEF SessionInv, CallOK, Attended, IsOpen
  <2> QED  BY <2>1 DEF SessionInv, SessionTypeOK
<1> QED  BY <1>1, AlwaysSessionInv, PTL

\* A tab that was told by a 401 that the session is over, and shows the login, has no
\* snapshot of the ledger left in the storage: onUnauthorized removes it, and nothing
\* that comes later for this tab saves one before it is logged in again.
THEOREM LoginHidesTheLedger == SessionSpec => []NoSnapshotBehindLogin
<1>1. SessionInv => NoSnapshotBehindLogin
  <2> SUFFICES ASSUME SessionInv, NEW t \in Tabs, Shows(t, "login") PROVE stored # t
      BY DEF NoSnapshotBehindLogin
  <2>1. tabs[t] # Closed /\ tabs[t].forced
      BY DEF Shows, IsOpen, View
  <2> QED  BY <2>1 DEF SessionInv, TabOK
<1> QED  BY <1>1, AlwaysSessionInv, PTL

\* However the renewals of the CSRF token by the query, by refreshSession and by the
\* login overlap, a tab that has all its answers and asked for the newest token holds
\* the token that the server asks for.
THEOREM QuietTabsWrite == SessionSpec => []QuietTabCanWrite
<1>1. SessionInv /\ AllWrite => QuietTabCanWrite
  <2> SUFFICES ASSUME SessionInv, AllWrite, NEW t \in Tabs, NEW s \in SessionIds,
                      Usable(t), ~Pending(t, Kinds), tabs[t].data = s,
                      server[s].status = "open", server[s].holder = t
               PROVE  tabs[t].csrf = server[s].token
      BY DEF QuietTabCanWrite
  <2>1. tabs[t] # Closed /\ tabs[t] \in Tab /\ View(tabs[t]) = "app"
      BY DEF Usable, Shows, IsOpen, SessionInv
  <2>2. Behind(t, s)
      BY <2>1, ViewShows DEF Behind, IsOpen
  <2>3. ~Pending(t, Renewing)
    <3>1. Renewing \subseteq Kinds
        BY DEF Renewing, Kinds
    <3> QED  BY <3>1 DEF Pending
  <2> QED  BY <2>2, <2>3 DEF AllWrite, Writes
<1> QED  BY <1>1, AlwaysSessionInv, AlwaysAllWrite, PTL

\* What LoginIsKept lets an answered call take the cookie for.
Excuse(c) ==
    \/ calls[c].answer = "ok" /\ calls[c].kind \in {"logout", "login", "setup", "restore"}
    \/ calls[c].answer = "unread"
    \/ calls[c].answer = "unauthorized" /\ calls[c].cookie \notin {cookie, NoSession}

LEMMA CookieStep ==
    ASSUME SessionInv, SessionNext, cookie # NoSession, server[cookie].status = "open",
           cookie' # cookie
    PROVE  \E c \in CallIds :
               /\ calls[c] # Free /\ calls'[c] # calls[c]
               /\ Excuse(c)
<1>1. PICK c \in CallIds : \/ ArriveUnauthorized(c) \/ ArriveOpened(c)
                           \/ ArriveLogout(c) \/ ArriveRestore(c)
  <2>1. \A t \in Tabs : ~(Load(t) \/ LearnMeta(t) \/ Leave(t) \/ NextDay(t))
      BY DEF Load, LearnMeta, Leave, NextDay
  <2>2. \A s \in SessionIds : ~EndElsewhere(s)
      BY DEF EndElsewhere
  <2>3. \A c \in CallIds, t \in Tabs :
            /\ ~FetchSession(c, t) /\ ~GoToday(c, t)
            /\ \A kind \in Unsafe \cup {"login", "setup"} : ~Submit(c, t, kind)
      BY DEF FetchSession, GoToday, Submit
  <2>4. \A c \in CallIds : ~(ServeOpening(c) \/ ServeRenewing(c) \/ ServeOther(c))
      BY DEF ServeOpening, ServeRenewing, ServeOther
  <2>5. \A c \in CallIds :
            ~(\/ ArriveRefused(c) \/ ArriveSession(c) \/ ArriveToday(c) \/ ArrivePatch(c)
              \/ ArrivePassword(c) \/ Lose(c))
      BY DEF ArriveRefused, ArriveSession, ArriveToday, ArrivePatch, ArrivePassword, Lose
  <2> QED  BY <2>1, <2>2, <2>3, <2>4, <2>5 DEF SessionNext
<1>2. calls[c] # Free /\ Told(calls[c], server) /\ calls[c].tab \in Tabs
    BY <1>1, AnswerHolds DEF ArriveUnauthorized, ArriveOpened, ArriveLogout, ArriveRestore,
       Answered, Denials
<1> DEFINE taken == Taken(c)
<1>3. taken[c] = Free
    BY TakenOK
<1> HIDE DEF taken
<1>4. \A t, kinds : Orphaned(taken, t, kinds)[c] = Free
    BY <1>3, OrphanedLeaves
<1>5. CASE ArriveUnauthorized(c)
  <2>1. calls'[c] = Free
      BY <1>4, <1>5 DEF ArriveUnauthorized, taken
  <2>2. calls[c].answer \in Denials /\ calls[c].cookie # NoSession
      BY <1>5 DEF ArriveUnauthorized
  <2>3. calls[c].answer = "unauthorized" => calls[c].cookie # cookie
      BY <1>2, <2>2 DEF Told
  <2>4. calls'[c] # calls[c]
      BY <1>2, <2>1
  <2> QED  BY <1>2, <2>2, <2>3, <2>4 DEF Excuse, Denials
<1>6. CASE ArriveLogout(c) \/ ArriveRestore(c)
  <2>1. \/ calls' = Orphaned(taken, calls[c].tab, {"session", "today"})
        \/ calls' = Orphaned(taken, calls[c].tab, Kinds)
      BY <1>6 DEF ArriveLogout, ArriveRestore, taken
  <2>2. calls'[c] = Free
      BY <1>4, <2>1
  <2>3. calls[c].kind \in {"logout", "restore"} /\ calls[c].answer = "ok"
      BY <1>6 DEF ArriveLogout, ArriveRestore, Answered
  <2> QED  BY <1>2, <2>2, <2>3 DEF Excuse
<1>7. CASE ArriveOpened(c)
  <2> DEFINE table == Orphaned(taken, calls[c].tab, {"session", "today"})
             k == [kind |-> "session", tab |-> calls[c].tab, cookie |-> calls[c].session,
                   answer |-> "none", token |-> NoToken]
  <2>1. /\ calls' = [table EXCEPT ![c] = k]
        /\ calls[c].kind \in {"login", "setup"} /\ calls[c].answer = "ok"
      BY <1>7 DEF ArriveOpened, Answered, taken
  <2>2. k.answer = "none" /\ DOMAIN table = CallIds
      BY DEF Orphaned
  <2> HIDE DEF table, k
  <2>3. calls'[c].answer = "none"
      BY <2>1, <2>2
  <2> QED  BY <1>2, <2>1, <2>3 DEF Excuse
<1> QED  BY <1>1, <1>5, <1>6, <1>7

\* The browser keeps the cookie of a session that is open, unless an answer takes it
\* away that ends or begins a session, that comes of a failed read, or that is a 401
\* about an earlier cookie.
THEOREM CookieOfAnOpenSession == SessionSpec => LoginIsKept
<1> DEFINE A == cookie # NoSession /\ server[cookie].status = "open" /\ cookie' # cookie =>
                    \E c \in CallIds :
                        /\ calls[c] # Free /\ calls'[c] # calls[c]
                        /\ \/ /\ calls[c].answer = "ok"
                              /\ calls[c].kind \in {"logout", "login", "setup", "restore"}
                           \/ calls[c].answer = "unread"
                           \/ /\ calls[c].answer = "unauthorized"
                              /\ calls[c].cookie \notin {cookie, NoSession}
<1>1. SessionInv /\ [SessionNext]_sessionVars => [A]_sessionVars
    BY CookieStep DEF sessionVars, Excuse
<1>2. LoginIsKept <=> [][A]_sessionVars
    BY DEF LoginIsKept
<1> HIDE DEF A
<1> QED  BY <1>1, <1>2, AlwaysSessionInv, PTL DEF SessionSpec
=============================================================================
