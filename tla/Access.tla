------------------------------- MODULE Access -------------------------------
(***************************************************************************)
(* The one account of an installation: its set-up, the password, the       *)
(* sessions and the login limiter (internal/service/service, limiter;      *)
(* internal/store/store).                                                  *)
(*                                                                         *)
(* A handler is split at its store calls: hashing takes long, so other     *)
(* requests run between a read and the write that rests on it.  A WithTx   *)
(* body is one step, and so are a read and the verdict that rests on it    *)
(* alone.  Hashes are the secrets they are made from.                      *)
(***************************************************************************)
EXTENDS Integers, FiniteSets

CONSTANTS
    Clients,      \* requests that run at the same time
    Secrets,      \* passwords
    SessionIds,   \* row ids of sessions
    NoCredential,
    NoSecret,
    Threshold,    \* failures that are free of a block: the code blocks from 5 on
    MaxDelay,     \* the longest block, in units of five seconds
    ResetAfter,   \* the pause after which failures are forgotten, in the same unit
    MaxVersion,   \* bound on changes of the password
    MaxClock      \* bound on the time that passes

ASSUME AccessAssumption ==
    /\ IsFiniteSet(Clients)
    /\ SessionIds \subseteq Nat \ {0}
    /\ NoSecret \notin Secrets
    /\ NoCredential \notin [secret : Secrets, version : Nat, current : BOOLEAN]
    /\ Threshold \in Nat \ {0}
    /\ MaxDelay \in Nat \ {0}
    /\ ResetAfter \in Nat
    /\ MaxVersion \in Nat \ {0}
    /\ MaxClock \in Nat

VARIABLES
    credential,  \* auth_credentials, with app_settings.initialized_at
    sessions,    \* the rows of sessions by id
    request,     \* what the request of each client has read
    attempt,     \* the limiter's entry for the address all requests come from
    now,         \* the clock
    known,       \* (history) the secret last given for each session
    lapsed       \* (history) a late rehash or a reused row id has undone a change

vars == <<credential, sessions, request, attempt, now, known, lapsed>>

\* current: the hash was made with the parameters the server now asks for.
Credential == [secret : Secrets, version : 1..MaxVersion, current : BOOLEAN]

\* none: no row.
Session == [status : {"none", "open", "expired", "revoked"}, version : 0..MaxVersion]

NoRow == [status |-> "none", version |-> 0]

Idle == [op |-> "idle"]

\* orphan (history): the row that session names was deleted meanwhile.
SessionRequest ==
    [op : {"logout", "revoke-others"}, session : SessionIds, orphan : BOOLEAN]
    \cup [op : {"change"}, step : {"verify", "write"}, session : SessionIds,
          version : 1..MaxVersion, given : Secrets, new : Secrets, orphan : BOOLEAN]

Request ==
    {Idle}
    \cup [op : {"setup"}, given : Secrets]
    \cup [op : {"login"}, step : {"verify"}, given : Secrets]
    \cup [op : {"login"}, step : {"rehash", "create"}, given : Secrets, version : 1..MaxVersion]
    \cup SessionRequest

\* first (history): when the failures counted now began.
Attempt == [failures : Nat, until : Nat, last : Nat, first : Nat]

NoAttempt == [failures |-> 0, until |-> 0, last |-> 0, first |-> 0]

Installed == credential # NoCredential

AccessTypeOK ==
    /\ credential \in Credential \cup {NoCredential}
    /\ sessions \in [SessionIds -> Session]
    /\ request \in [Clients -> Request]
    /\ attempt \in Attempt
    /\ now \in 0..MaxClock
    /\ known \in [SessionIds -> Secrets \cup {NoSecret}]
    /\ lapsed \in BOOLEAN

\* A new installation, or one whose hash parameters were raised since.
Init ==
    /\ credential \in {NoCredential} \cup [secret : Secrets, version : {1}, current : {FALSE}]
    /\ sessions = [s \in SessionIds |-> NoRow]
    /\ request = [c \in Clients |-> Idle]
    /\ attempt = NoAttempt
    /\ now = 0
    /\ known = [s \in SessionIds |-> NoSecret]
    /\ lapsed = FALSE

Exists(s) == sessions[s].status # "none"

\* What Authenticate accepts.
Valid(s) ==
    /\ Installed
    /\ sessions[s].status = "open"
    /\ sessions[s].version = credential.version

Accept(c, r) == request[c] = Idle /\ request' = [request EXCEPT ![c] = r]
Continue(c, r) == request' = [request EXCEPT ![c] = r]
Done(c) == request' = [request EXCEPT ![c] = Idle]

\* SQLite gives a new row the id after the largest there is, so the id of a
\* deleted last row comes back.
NextId(s) ==
    /\ \A t \in SessionIds : Exists(t) => t < s
    /\ s = 1 \/ \E t \in SessionIds : Exists(t) /\ s = t + 1

\* The rows after CreateSession by somebody who gave secret p.
Opened(c, s, version, p) ==
    /\ NextId(s)
    /\ sessions' = [sessions EXCEPT ![s] = [status |-> "open", version |-> version]]
    /\ known' = [known EXCEPT ![s] = p]

-----------------------------------------------------------------------------
(* Setup                                                                    *)

SetupCheck(c, p) ==
    /\ ~Installed
    /\ Accept(c, [op |-> "setup", given |-> p])
    /\ UNCHANGED <<credential, sessions, attempt, now, known, lapsed>>

\* The primary keys of the settings and the credential admit one set-up.
SetupInsert(c) ==
    LET r == request[c] IN
    /\ r.op = "setup"
    /\ \/ /\ ~Installed
          /\ credential' = [secret |-> r.given, version |-> 1, current |-> TRUE]
          /\ \E s \in SessionIds : Opened(c, s, 1, r.given)
       \/ /\ Installed
          /\ UNCHANGED <<credential, sessions, known>>
    /\ Done(c)
    /\ UNCHANGED <<attempt, now, lapsed>>

-----------------------------------------------------------------------------
(* Login                                                                    *)

Allowed == now >= attempt.until

Lower(a, b) == IF a < b THEN a ELSE b

\* Faulty variant: the block begins one failure late.
DelayFromZero(failures) == Lower(failures - Threshold, MaxDelay)

\* Five seconds for the first blocked failure, then five more for each.
Delay(failures) == Lower(failures - Threshold + 1, MaxDelay)

Failure ==
    LET forgotten == now - attempt.last > ResetAfter
        n == (IF forgotten THEN 0 ELSE attempt.failures) + 1 IN
    attempt' = [failures |-> n,
                until |-> IF n >= Threshold THEN now + Delay(n) ELSE attempt.until,
                last |-> now,
                first |-> IF n = 1 THEN now ELSE attempt.first]

Success == attempt' = NoAttempt

\* CleanupExpiredSessions: expired rows, and rows revoked a day ago.
Removable(s) == sessions[s].status = "expired"
LongRevoked(s) == sessions[s].status = "revoked"

Orphaned(r, gone) ==
    IF r \in SessionRequest /\ r.session \in gone THEN [r EXCEPT !.orphan = TRUE] ELSE r

LoginStart(c, p) ==
    /\ request[c] = Idle
    /\ \E old \in SUBSET {s \in SessionIds : LongRevoked(s)} :
          LET gone == {s \in SessionIds : Removable(s)} \cup old IN
          /\ sessions' = [s \in SessionIds |-> IF s \in gone THEN NoRow ELSE sessions[s]]
          /\ request' = [d \in Clients |->
                IF d # c THEN Orphaned(request[d], gone)
                ELSE IF Allowed THEN [op |-> "login", step |-> "verify", given |-> p]
                ELSE Idle]
    /\ UNCHANGED <<credential, attempt, now, known, lapsed>>

\* GetCredential and verifyPassword.
LoginVerify(c) ==
    LET r == request[c] IN
    /\ r.op = "login" /\ r.step = "verify"
    /\ \/ /\ Installed
          /\ r.given = credential.secret
          /\ Success
          /\ Continue(c, [op |-> "login", given |-> r.given, version |-> credential.version,
                          step |-> IF credential.current THEN "create" ELSE "rehash"])
       \/ /\ Installed => r.given # credential.secret
          /\ Failure
          /\ Done(c)
    /\ UNCHANGED <<credential, sessions, now, known, lapsed>>

\* RehashPassword keeps the version, whatever it has become meanwhile.
LoginRehash(c) ==
    LET r == request[c] IN
    /\ r.op = "login" /\ r.step = "rehash"
    /\ credential' = [credential EXCEPT !.secret = r.given, !.current = TRUE]
    /\ lapsed' = (lapsed \/ credential.version # r.version)
    /\ Continue(c, [r EXCEPT !.step = "create"])
    /\ UNCHANGED <<sessions, attempt, now, known>>

\* EnsureOccurrences may fail, and the login with it.
LoginFails(c) ==
    LET r == request[c] IN
    /\ r.op = "login" /\ r.step = "create"
    /\ Done(c)
    /\ UNCHANGED <<credential, sessions, attempt, now, known, lapsed>>

\* Faulty variant: the session gets the version that is stored by now.
LoginCreateWithNewestVersion(c) ==
    LET r == request[c] IN
    /\ r.op = "login" /\ r.step = "create"
    /\ \E s \in SessionIds : Opened(c, s, credential.version, r.given)
    /\ Done(c)
    /\ UNCHANGED <<credential, attempt, now, lapsed>>

\* CreateSession with the version of the credential that was read.
LoginCreate(c) ==
    LET r == request[c] IN
    /\ r.op = "login" /\ r.step = "create"
    /\ \E s \in SessionIds : Opened(c, s, r.version, r.given)
    /\ Done(c)
    /\ UNCHANGED <<credential, attempt, now, lapsed>>

-----------------------------------------------------------------------------
(* Requests of a session                                                    *)

\* A request that Authenticate lets through to its handler.
Authorized(c, s, r) ==
    /\ Valid(s)
    /\ Accept(c, r)
    /\ UNCHANGED <<credential, sessions, attempt, now, known, lapsed>>

LogoutStart(c, s, op) == Authorized(c, s, [op |-> op, session |-> s, orphan |-> FALSE])

ChangeStart(c, s, p, q) ==
    Authorized(c, s, [op |-> "change", step |-> "verify", session |-> s, given |-> p, new |-> q,
                      version |-> credential.version, orphan |-> FALSE])

\* Store.RevokeSession, RevokeOtherSessions, RevokeAllSessions: COALESCE keeps a revoked row.
Revoked(those) ==
    [s \in SessionIds |->
        IF s \in those /\ sessions[s].status = "open"
        THEN [sessions[s] EXCEPT !.status = "revoked"] ELSE sessions[s]]

Logout(c) ==
    LET r == request[c] IN
    /\ r.op = "logout"
    /\ sessions' = Revoked({r.session})
    /\ Done(c)
    /\ UNCHANGED <<credential, attempt, now, known, lapsed>>

RevokeOthers(c) ==
    LET r == request[c] IN
    /\ r.op = "revoke-others"
    /\ sessions' = Revoked(SessionIds \ {r.session})
    /\ Done(c)
    /\ UNCHANGED <<credential, attempt, now, known, lapsed>>

\* Faulty variant: neither password is looked at.
ChangeUnverified(c) ==
    LET r == request[c] IN
    /\ r.op = "change" /\ r.step = "verify"
    /\ Continue(c, [r EXCEPT !.step = "write"])
    /\ UNCHANGED <<credential, sessions, attempt, now, known, lapsed>>

ChangeVerify(c) ==
    LET r == request[c] IN
    /\ r.op = "change" /\ r.step = "verify"
    /\ \/ /\ r.given = credential.secret
          /\ r.given # r.new
          /\ Continue(c, [r EXCEPT !.step = "write"])
       \/ /\ r.given # credential.secret \/ r.given = r.new
          /\ Done(c)
    /\ UNCHANGED <<credential, sessions, attempt, now, known, lapsed>>

\* The rows after UpdateSessionPasswordVersion.
Kept(s, others, version) ==
    [others EXCEPT ![s] = IF @.status = "none" THEN @ ELSE [@ EXCEPT !.version = version]]

\* Faulty variant: other sessions are left to their old version.
ChangeWriteKeepingOthers(c) ==
    LET r == request[c]
        version == credential.version + 1 IN
    /\ r.op = "change" /\ r.step = "write"
    /\ credential.version < MaxVersion
    /\ credential' = [secret |-> r.new, version |-> version, current |-> TRUE]
    /\ sessions' = Kept(r.session, sessions, version)
    /\ known' = IF r.orphan THEN known ELSE [known EXCEPT ![r.session] = r.new]
    /\ lapsed' = (r.orphan /\ sessions[r.session].status = "open")
    /\ Done(c)
    /\ UNCHANGED <<attempt, now>>

\* One transaction: the password, the other sessions, this session's version.
ChangeWrite(c) ==
    LET r == request[c]
        version == credential.version + 1 IN
    /\ r.op = "change" /\ r.step = "write"
    /\ credential.version < MaxVersion
    /\ credential' = [secret |-> r.new, version |-> version, current |-> TRUE]
    /\ sessions' = Kept(r.session, Revoked(SessionIds \ {r.session}), version)
    /\ known' = IF r.orphan THEN known ELSE [known EXCEPT ![r.session] = r.new]
    /\ lapsed' = (r.orphan /\ sessions[r.session].status = "open")
    /\ Done(c)
    /\ UNCHANGED <<attempt, now>>

-----------------------------------------------------------------------------
(* The command line, and time                                               *)

ResetPassword(p) ==
    /\ Installed
    /\ credential.version < MaxVersion
    /\ credential' = [secret |-> p, version |-> credential.version + 1, current |-> TRUE]
    /\ sessions' = Revoked(SessionIds)
    /\ lapsed' = FALSE
    /\ UNCHANGED <<request, attempt, now, known>>

Expire(s) ==
    /\ sessions[s].status = "open"
    /\ sessions' = [sessions EXCEPT ![s].status = "expired"]
    /\ UNCHANGED <<credential, request, attempt, now, known, lapsed>>

Tick ==
    /\ now < MaxClock
    /\ now' = now + 1
    /\ UNCHANGED <<credential, sessions, request, attempt, known, lapsed>>

Next ==
    \/ \E c \in Clients :
        \/ \E p \in Secrets : SetupCheck(c, p) \/ LoginStart(c, p)
        \/ SetupInsert(c)
        \/ LoginVerify(c) \/ LoginRehash(c) \/ LoginFails(c) \/ LoginCreate(c)
        \/ \E s \in SessionIds :
            \/ \E op \in {"logout", "revoke-others"} : LogoutStart(c, s, op)
            \/ \E p, q \in Secrets : ChangeStart(c, s, p, q)
        \/ Logout(c) \/ RevokeOthers(c) \/ ChangeVerify(c) \/ ChangeWrite(c)
    \/ \E p \in Secrets : ResetPassword(p)
    \/ \E s \in SessionIds : Expire(s)
    \/ Tick

Spec == Init /\ [][Next]_vars

-----------------------------------------------------------------------------
(* Properties                                                               *)

\* Whoever holds a session that Authenticate accepts has given the password
\* that is stored now, at the login or as the new one of a change: neither
\* logins that were under way when the password changed nor changes that
\* overlap leave a session behind that rests on an older password.  lapsed
\* names the exceptions: a rehash (store.go:222) or a change that came after
\* the row or the password it had read was replaced.
HoldersKnowThePassword ==
    ~lapsed => \A s \in SessionIds : Valid(s) => known[s] = credential.secret

Refused(s) == Exists(s) /\ ~Valid(s)

\* A session that was revoked, has expired or belongs to an older password is
\* never accepted again, whatever requests of it are still running
\* (UpdateSessionPasswordVersion, service.go:241): only a change that outlived
\* its own row can bring up the row that took its id.
RefusedStaysRefused ==
    [][\A s \in SessionIds :
          Refused(s) => \/ ~Valid(s)'
                        \/ \E c \in Clients : request[c].op = "change" /\ request[c].orphan]_vars

\* The password is replaced only by the command line, by the set-up, or by a
\* request that had been given the stored one, unless the version has moved on
\* since the request read it (service.go:213 and 136) or a late rehash has undone
\* a change before.
ReplacedKnowingly ==
    [][Installed /\ credential.secret' # credential.secret =>
          \/ \E p \in Secrets : ResetPassword(p)
          \/ \E c \in Clients :
                LET r == request[c] IN
                \/ /\ ChangeWrite(c)
                   /\ \/ r.given = credential.secret
                      \/ r.version # credential.version
                      \/ lapsed
                \/ /\ LoginRehash(c)
                   /\ r.version # credential.version \/ lapsed]_vars

\* Failures come no faster than one for each request and unit of time once the
\* free ones are used up: requests let in together before the block (limiter.go
\* 26, 33) overrun it by their number and no more.
GuessesAreThrottled ==
    attempt.failures > 0 =>
        attempt.failures <= (Threshold - 1) + Cardinality(Clients) * (now - attempt.first + 1)
=============================================================================
