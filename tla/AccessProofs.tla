---------------------------- MODULE AccessProofs ----------------------------
(***************************************************************************)
(* Proofs about Access: whoever holds a session knows the password, what   *)
(* is refused stays refused, and the password is replaced knowingly.       *)
(***************************************************************************)
EXTENDS Access, FiniteSetTheorems, TLAPS

-----------------------------------------------------------------------------
(* The shapes of requests *)

Setting == [op : {"setup"}, given : Secrets]

Verifying == [op : {"login"}, step : {"verify"}, given : Secrets]

LoggingIn == [op : {"login"}, step : {"rehash", "create"}, given : Secrets, version : 1..MaxVersion]

Ending == [op : {"logout", "revoke-others"}, session : SessionIds, orphan : BOOLEAN]

Changing == [op : {"change"}, step : {"verify", "write"}, session : SessionIds,
             version : 1..MaxVersion, given : Secrets, new : Secrets, orphan : BOOLEAN]

LEMMA RequestShapes ==
    ASSUME NEW r \in Request
    PROVE  /\ r.op = "setup" => r \in Setting
           /\ r.op = "login" /\ r.step = "verify" => r \in Verifying
           /\ r.op = "login" /\ r.step # "verify" => r \in LoggingIn
           /\ r.op \in {"logout", "revoke-others"} => r \in Ending
           /\ r.op = "change" => r \in Changing
BY DEF Request, SessionRequest, Idle, Setting, Verifying, LoggingIn, Ending, Changing

LEMMA ShapesTyped ==
    /\ Idle \in Request /\ Setting \subseteq Request /\ Verifying \subseteq Request
    /\ LoggingIn \subseteq Request /\ Ending \subseteq Request /\ Changing \subseteq Request
    /\ SessionRequest = Ending \cup Changing
BY DEF Request, SessionRequest, Idle, Setting, Verifying, LoggingIn, Ending, Changing

LEMMA NoCredentialIsNone == NoCredential \notin Credential
<1>1. 1..MaxVersion \subseteq Nat
    BY AccessAssumption
<1> QED  BY <1>1, AccessAssumption DEF Credential

-----------------------------------------------------------------------------
(* The invariant *)

\* Before the set-up nobody has a session.
Fresh == ~Installed => \A s \in SessionIds : sessions[s] = NoRow

\* What a login or a change has read is the password of that version, which is
\* the one now or an older one.
Read(r) ==
    /\ Installed
    /\ r.version <= credential.version
    /\ r.version = credential.version /\ r.step # "verify" /\ ~lapsed => r.given = credential.secret

Reads == \A c \in Clients : request[c] \in LoggingIn \cup Changing => Read(request[c])

\* The session of a request is there and has not become an older one, unless it
\* was revoked, expired or removed.
Keep(r) ==
    /\ Installed
    /\ ~r.orphan => /\ Exists(r.session)
                    /\ sessions[r.session].status = "open" =>
                          sessions[r.session].version = credential.version

Keeps == \A c \in Clients : request[c] \in SessionRequest => Keep(request[c])

Inv == AccessTypeOK /\ Fresh /\ Reads /\ Keeps /\ HoldersKnowThePassword

LEMMA InitInv == Init => Inv
<1> SUFFICES ASSUME Init PROVE Inv
    OBVIOUS
<1>1. 1 \in 1..MaxVersion /\ 0 \in 0..MaxVersion
    BY AccessAssumption
<1>2. AccessTypeOK
  <2>1. credential \in Credential \cup {NoCredential}
      BY <1>1 DEF Init, Credential
  <2>2. sessions \in [SessionIds -> Session] /\ known \in [SessionIds -> Secrets \cup {NoSecret}]
      BY <1>1 DEF Init, Session, NoRow
  <2>3. request \in [Clients -> Request]
      BY ShapesTyped DEF Init
  <2>4. attempt \in Attempt
      BY DEF Init, Attempt, NoAttempt
  <2>5. 0 \in 0..MaxClock
      BY AccessAssumption
  <2>6. now \in 0..MaxClock /\ lapsed \in BOOLEAN
      BY <2>5 DEF Init
  <2> QED  BY <2>1, <2>2, <2>3, <2>4, <2>6 DEF AccessTypeOK
<1>3. Idle \notin LoggingIn \cup Changing \cup SessionRequest
    BY DEF Idle, LoggingIn, Changing, SessionRequest
<1>4. Fresh /\ Reads /\ Keeps
    BY <1>3 DEF Init, Fresh, Reads, Keeps
<1>5. HoldersKnowThePassword
    BY DEF Init, HoldersKnowThePassword, Valid, NoRow
<1> QED  BY <1>2, <1>4, <1>5 DEF Inv

-----------------------------------------------------------------------------
(* Types *)

LEMMA OpenedTyped ==
    ASSUME AccessTypeOK, NEW c \in Clients, NEW s \in SessionIds,
           NEW version \in 1..MaxVersion, NEW p \in Secrets, Opened(c, s, version, p)
    PROVE  sessions' \in [SessionIds -> Session] /\ known' \in [SessionIds -> Secrets \cup {NoSecret}]
BY AccessAssumption DEF AccessTypeOK, Opened, Session

LEMMA RevokedTyped ==
    ASSUME AccessTypeOK, NEW those
    PROVE  Revoked(those) \in [SessionIds -> Session]
BY DEF AccessTypeOK, Revoked, Session

LEMMA OrphanedTyped ==
    ASSUME NEW r \in Request, NEW gone
    PROVE  /\ Orphaned(r, gone) \in Request
           /\ Orphaned(r, gone).op = r.op
           /\ r \notin SessionRequest => Orphaned(r, gone) = r
           /\ r \in Ending => Orphaned(r, gone) \in Ending
           /\ r \in Changing => /\ Orphaned(r, gone) \in Changing
                                /\ Orphaned(r, gone).version = r.version
                                /\ Orphaned(r, gone).step = r.step
                                /\ Orphaned(r, gone).given = r.given
           /\ r \in SessionRequest => /\ Orphaned(r, gone).session = r.session
                                      /\ Orphaned(r, gone).orphan = (r.orphan \/ r.session \in gone)
<1>1. r \in Ending => [r EXCEPT !.orphan = TRUE] \in Ending
    BY DEF Ending
<1>2. r \in Changing => [r EXCEPT !.orphan = TRUE] \in Changing
    BY DEF Changing
<1>3. r \in Ending => /\ [r EXCEPT !.orphan = TRUE].op = r.op
                      /\ [r EXCEPT !.orphan = TRUE].session = r.session
                      /\ [r EXCEPT !.orphan = TRUE].orphan = TRUE
                      /\ r.orphan \in BOOLEAN
    BY DEF Ending
<1>4. r \in Changing => /\ [r EXCEPT !.orphan = TRUE].op = r.op
                        /\ [r EXCEPT !.orphan = TRUE].session = r.session
                        /\ [r EXCEPT !.orphan = TRUE].version = r.version
                        /\ [r EXCEPT !.orphan = TRUE].step = r.step
                        /\ [r EXCEPT !.orphan = TRUE].given = r.given
                        /\ [r EXCEPT !.orphan = TRUE].orphan = TRUE
                        /\ r.orphan \in BOOLEAN
    BY DEF Changing
<1>5. CASE r \in SessionRequest /\ r.session \in gone
  <2>1. Orphaned(r, gone) = [r EXCEPT !.orphan = TRUE]
      BY <1>5 DEF Orphaned
  <2> QED  BY <2>1, <1>1, <1>2, <1>3, <1>4, <1>5, ShapesTyped
<1>6. CASE ~(r \in SessionRequest /\ r.session \in gone)
  <2>1. Orphaned(r, gone) = r
      BY <1>6 DEF Orphaned
  <2> QED  BY <2>1, <1>3, <1>4, <1>6, ShapesTyped
<1> QED  BY <1>5, <1>6

\* The request of client c becomes r, the others stay.
LEMMA RequestTyped ==
    ASSUME AccessTypeOK, NEW c \in Clients, NEW r \in Request,
           request' = [request EXCEPT ![c] = r]
    PROVE  request' \in [Clients -> Request]
BY DEF AccessTypeOK

LEMMA TypeStep ==
    ASSUME Inv, [Next]_vars
    PROVE  AccessTypeOK'
<1> USE DEF Inv
<1>0. 1..MaxVersion \subseteq Nat /\ 1 \in 1..MaxVersion /\ Idle \in Request
    BY AccessAssumption, ShapesTyped
<1>1. ASSUME NEW c \in Clients, NEW p \in Secrets, SetupCheck(c, p) PROVE AccessTypeOK'
  <2>1. [op |-> "setup", given |-> p] \in Request
      BY ShapesTyped DEF Setting
  <2> QED  BY <1>1, <2>1, RequestTyped DEF SetupCheck, Accept, AccessTypeOK
<1>2. ASSUME NEW c \in Clients, SetupInsert(c) PROVE AccessTypeOK'
  <2>1. request' \in [Clients -> Request]
      BY <1>0, <1>2, RequestTyped DEF SetupInsert, Done
  <2>2. request[c].given \in Secrets
      BY <1>2, RequestShapes DEF SetupInsert, AccessTypeOK, Setting
  <2>3. CASE Installed
      BY <1>2, <2>1, <2>3 DEF SetupInsert, AccessTypeOK
  <2>4. CASE ~Installed
    <3>0. /\ credential' = [secret |-> request[c].given, version |-> 1, current |-> TRUE]
          /\ \E s \in SessionIds : Opened(c, s, 1, request[c].given)
        BY <1>2, <2>4 DEF SetupInsert
    <3>1. credential' \in Credential
        BY <1>0, <2>2, <3>0 DEF Credential
    <3>2. PICK s \in SessionIds : Opened(c, s, 1, request[c].given)
        BY <3>0
    <3>3. sessions' \in [SessionIds -> Session] /\ known' \in [SessionIds -> Secrets \cup {NoSecret}]
        BY <1>0, <2>2, <3>2, OpenedTyped
    <3> QED  BY <1>2, <2>1, <3>1, <3>3 DEF SetupInsert, AccessTypeOK
  <2> QED  BY <2>3, <2>4
<1>3. ASSUME NEW c \in Clients, NEW p \in Secrets, LoginStart(c, p) PROVE AccessTypeOK'
  <2>1. PICK old \in SUBSET {s \in SessionIds : LongRevoked(s)} :
            LET gone == {s \in SessionIds : Removable(s)} \cup old IN
            /\ sessions' = [s \in SessionIds |-> IF s \in gone THEN NoRow ELSE sessions[s]]
            /\ request' = [d \in Clients |->
                  IF d # c THEN Orphaned(request[d], gone)
                  ELSE IF Allowed THEN [op |-> "login", step |-> "verify", given |-> p]
                  ELSE Idle]
      BY <1>3 DEF LoginStart
  <2> DEFINE gone == {s \in SessionIds : Removable(s)} \cup old
  <2>2. NoRow \in Session
      BY AccessAssumption DEF NoRow, Session
  <2>3. sessions' \in [SessionIds -> Session]
      BY <2>1, <2>2 DEF AccessTypeOK
  <2>4. [op |-> "login", step |-> "verify", given |-> p] \in Request
      BY ShapesTyped DEF Verifying
  <2>5. \A d \in Clients : Orphaned(request[d], gone) \in Request
      BY OrphanedTyped DEF AccessTypeOK
  <2> HIDE DEF gone
  <2>6. request' = [d \in Clients |->
                  IF d # c THEN Orphaned(request[d], gone)
                  ELSE IF Allowed THEN [op |-> "login", step |-> "verify", given |-> p]
                  ELSE Idle]
      BY <2>1 DEF gone
  <2>7. request' \in [Clients -> Request]
      BY <1>0, <2>4, <2>5, <2>6
  <2> QED  BY <1>3, <2>3, <2>7 DEF LoginStart, AccessTypeOK
<1>4. ASSUME NEW c \in Clients, LoginVerify(c) PROVE AccessTypeOK'
  <2>1. request[c].given \in Secrets
      BY <1>4, RequestShapes DEF LoginVerify, AccessTypeOK, Verifying
  <2>2. CASE /\ Installed
             /\ Success
             /\ Continue(c, [op |-> "login", given |-> request[c].given,
                             version |-> credential.version,
                             step |-> IF credential.current THEN "create" ELSE "rehash"])
    <3>1. [op |-> "login", given |-> request[c].given, version |-> credential.version,
           step |-> IF credential.current THEN "create" ELSE "rehash"] \in Request
        BY <2>1, <2>2, ShapesTyped DEF LoggingIn, Installed, AccessTypeOK, Credential
    <3>2. NoAttempt \in Attempt
        BY DEF NoAttempt, Attempt
    <3> QED  BY <1>4, <2>2, <3>1, <3>2, RequestTyped
              DEF LoginVerify, Continue, Success, AccessTypeOK
  <2>3. CASE Failure /\ Done(c)
    <3>1. attempt' \in Attempt
      <4>1. now \in Nat /\ attempt.failures \in Nat /\ attempt.until \in Nat /\ attempt.first \in Nat
          BY AccessAssumption DEF AccessTypeOK, Attempt
      <4> DEFINE n == (IF now - attempt.last > ResetAfter THEN 0 ELSE attempt.failures) + 1
      <4>2. n \in Nat
          BY <4>1
      <4> HIDE DEF n
      <4>3. n >= Threshold => now + Delay(n) \in Nat
          BY <4>1, <4>2, AccessAssumption DEF Delay, Lower
      <4>4. attempt' = [failures |-> n,
                        until |-> IF n >= Threshold THEN now + Delay(n) ELSE attempt.until,
                        last |-> now,
                        first |-> IF n = 1 THEN now ELSE attempt.first]
          BY <2>3 DEF Failure, n
      <4> QED  BY <4>1, <4>2, <4>3, <4>4 DEF Attempt
    <3> QED  BY <1>0, <1>4, <2>3, <3>1, RequestTyped DEF LoginVerify, Done, AccessTypeOK
  <2> QED  BY <1>4, <2>2, <2>3 DEF LoginVerify
<1>5. ASSUME NEW c \in Clients, LoginRehash(c) PROVE AccessTypeOK'
  <2>1. request[c] \in LoggingIn
      BY <1>5, RequestShapes DEF LoginRehash, AccessTypeOK
  <2>2. [request[c] EXCEPT !.step = "create"] \in Request
      BY <2>1, ShapesTyped DEF LoggingIn
  <2>3. request' \in [Clients -> Request]
      BY <1>5, <2>2, RequestTyped DEF LoginRehash, Continue
  <2>4. Installed
      BY <2>1 DEF Reads, Read
  <2>5. credential' \in Credential
      BY <1>5, <2>1, <2>4 DEF LoginRehash, Installed, AccessTypeOK, Credential, LoggingIn
  <2>6. lapsed' \in BOOLEAN
      BY <1>5 DEF LoginRehash, AccessTypeOK
  <2> QED  BY <1>5, <2>3, <2>5, <2>6 DEF LoginRehash, AccessTypeOK
<1>6. ASSUME NEW c \in Clients, LoginFails(c) PROVE AccessTypeOK'
    BY <1>0, <1>6, RequestTyped DEF LoginFails, Done, AccessTypeOK
<1>7. ASSUME NEW c \in Clients, LoginCreate(c) PROVE AccessTypeOK'
  <2>1. request[c] \in LoggingIn
      BY <1>7, RequestShapes DEF LoginCreate, AccessTypeOK
  <2>2. PICK s \in SessionIds : Opened(c, s, request[c].version, request[c].given)
      BY <1>7 DEF LoginCreate
  <2>3. request[c].version \in 1..MaxVersion /\ request[c].given \in Secrets
      BY <2>1 DEF LoggingIn
  <2>4. sessions' \in [SessionIds -> Session] /\ known' \in [SessionIds -> Secrets \cup {NoSecret}]
      BY <2>2, <2>3, OpenedTyped
  <2> QED  BY <1>0, <1>7, <2>4, RequestTyped DEF LoginCreate, Done, AccessTypeOK
<1>8. ASSUME NEW c \in Clients, NEW s \in SessionIds, NEW op \in {"logout", "revoke-others"},
             LogoutStart(c, s, op)
      PROVE  AccessTypeOK'
  <2>1. [op |-> op, session |-> s, orphan |-> FALSE] \in Request
      BY ShapesTyped DEF Ending
  <2> QED  BY <1>8, <2>1, RequestTyped DEF LogoutStart, Authorized, Accept, AccessTypeOK
<1>9. ASSUME NEW c \in Clients, NEW s \in SessionIds, NEW p \in Secrets, NEW q \in Secrets,
             ChangeStart(c, s, p, q)
      PROVE  AccessTypeOK'
  <2>1. credential.version \in 1..MaxVersion
      BY <1>9 DEF ChangeStart, Authorized, Valid, Installed, AccessTypeOK, Credential
  <2>2. [op |-> "change", step |-> "verify", session |-> s, given |-> p, new |-> q,
         version |-> credential.version, orphan |-> FALSE] \in Request
      BY <2>1, ShapesTyped DEF Changing
  <2> QED  BY <1>9, <2>2, RequestTyped DEF ChangeStart, Authorized, Accept, AccessTypeOK
<1>10. ASSUME NEW c \in Clients, Logout(c) \/ RevokeOthers(c) PROVE AccessTypeOK'
    BY <1>0, <1>10, RequestTyped, RevokedTyped DEF Logout, RevokeOthers, Done, AccessTypeOK
<1>11. ASSUME NEW c \in Clients, ChangeVerify(c) PROVE AccessTypeOK'
  <2>1. request[c] \in Changing
      BY <1>11, RequestShapes DEF ChangeVerify, AccessTypeOK
  <2>2. [request[c] EXCEPT !.step = "write"] \in Request
      BY <2>1, ShapesTyped DEF Changing
  <2>3. request' \in [Clients -> Request]
      BY <1>0, <1>11, <2>2, RequestTyped DEF ChangeVerify, Continue, Done
  <2> QED  BY <1>11, <2>3 DEF ChangeVerify, AccessTypeOK
<1>12. ASSUME NEW c \in Clients, ChangeWrite(c) PROVE AccessTypeOK'
  <2>1. request[c] \in Changing
      BY <1>12, RequestShapes DEF ChangeWrite, AccessTypeOK
  <2>2. request[c].session \in SessionIds /\ request[c].new \in Secrets /\ request[c].orphan \in BOOLEAN
      BY <2>1 DEF Changing
  <2>3. Installed
      BY <2>1 DEF Reads, Read
  <2>4. credential.version \in Nat /\ credential.version + 1 \in 1..MaxVersion
      BY <1>12, <2>3, AccessAssumption DEF ChangeWrite, Installed, AccessTypeOK, Credential
  <2>5. credential' \in Credential
      BY <1>12, <2>2, <2>4 DEF ChangeWrite, Credential
  <2>6. sessions' \in [SessionIds -> Session]
    <3> DEFINE others == Revoked(SessionIds \ {request[c].session})
    <3>1. others \in [SessionIds -> Session]
        BY RevokedTyped
    <3>2. credential.version + 1 \in 0..MaxVersion
        BY <2>4
    <3>3. sessions' = Kept(request[c].session, others, credential.version + 1)
        BY <1>12 DEF ChangeWrite
    <3> HIDE DEF others
    <3> QED  BY <2>2, <3>1, <3>2, <3>3 DEF Kept, Session
  <2>7. known' \in [SessionIds -> Secrets \cup {NoSecret}] /\ lapsed' \in BOOLEAN
      BY <1>12, <2>2 DEF ChangeWrite, AccessTypeOK
  <2>8. request' \in [Clients -> Request]
      BY <1>0, <1>12, RequestTyped DEF ChangeWrite, Done
  <2> QED  BY <1>12, <2>5, <2>6, <2>7, <2>8 DEF ChangeWrite, AccessTypeOK
<1>13. ASSUME NEW p \in Secrets, ResetPassword(p) PROVE AccessTypeOK'
  <2>1. credential.version + 1 \in 1..MaxVersion
      BY <1>13, AccessAssumption DEF ResetPassword, Installed, AccessTypeOK, Credential
  <2>2. credential' \in Credential
      BY <1>13, <2>1 DEF ResetPassword, Credential
  <2> QED  BY <1>13, <2>2, RevokedTyped DEF ResetPassword, AccessTypeOK
<1>14. ASSUME NEW s \in SessionIds, Expire(s) PROVE AccessTypeOK'
    BY <1>14 DEF Expire, AccessTypeOK, Session
<1>15. CASE Tick
    BY <1>15, AccessAssumption DEF Tick, AccessTypeOK
<1>16. CASE UNCHANGED vars
    BY <1>16 DEF vars, AccessTypeOK
<1> QED
    BY <1>1, <1>2, <1>3, <1>4, <1>5, <1>6, <1>7, <1>8, <1>9, <1>10, <1>11, <1>12, <1>13, <1>14,
       <1>15, <1>16 DEF Next

-----------------------------------------------------------------------------
(* The credential and what has been read of it *)

LEMMA ShapesApart ==
    /\ \A r \in {Idle} \cup Setting \cup Verifying : r \notin LoggingIn \cup Changing \cup SessionRequest
    /\ \A r \in LoggingIn : r \notin SessionRequest
    /\ \A r \in Ending : r \notin LoggingIn \cup Changing
BY DEF Idle, Setting, Verifying, LoggingIn, Changing, Ending, SessionRequest

LEMMA MadeIsInstalled ==
    ASSUME NEW p \in Secrets, NEW n \in Nat, NEW b \in BOOLEAN
    PROVE  [secret |-> p, version |-> n, current |-> b] # NoCredential
<1>1. [secret |-> p, version |-> n, current |-> b] \in [secret : Secrets, version : Nat, current : BOOLEAN]
    OBVIOUS
<1> QED  BY <1>1, AccessAssumption

\* The version of the password never falls, and while it stays the secret
\* changes only by a late rehash.
LEMMA CredentialStep ==
    ASSUME Inv, [Next]_vars, Installed
    PROVE  /\ Installed'
           /\ credential'.version >= credential.version
           /\ credential'.version = credential.version =>
                 /\ lapsed => lapsed'
                 /\ credential'.secret = credential.secret \/ lapsed'
<1> USE DEF Inv
<1> DEFINE Goal == /\ Installed'
                   /\ credential'.version >= credential.version
                   /\ credential'.version = credential.version =>
                         /\ lapsed => lapsed'
                         /\ credential'.secret = credential.secret \/ lapsed'
<1>1. credential \in Credential /\ credential.version \in Nat /\ credential.version + 1 \in Nat
    BY AccessAssumption DEF Installed, AccessTypeOK, Credential
<1>2. ASSUME UNCHANGED <<credential, lapsed>> PROVE Goal
    BY <1>1, <1>2 DEF Installed
<1>3. ASSUME NEW c \in Clients, LoginRehash(c) PROVE Goal
  <2>1. request[c] \in LoggingIn /\ request[c].step = "rehash"
      BY <1>3, RequestShapes DEF LoginRehash, AccessTypeOK
  <2>2. /\ credential'.version = credential.version
        /\ credential'.secret = request[c].given
        /\ credential' \in Credential
      BY <1>1, <1>3, <2>1 DEF LoginRehash, Credential, LoggingIn
  <2>3. request[c].version = credential.version /\ ~lapsed => request[c].given = credential.secret
      BY <2>1 DEF Reads, Read
  <2>4. /\ lapsed => lapsed'
        /\ credential.version # request[c].version => lapsed'
      BY <1>3 DEF LoginRehash
  <2>5. credential'.secret = credential.secret \/ lapsed'
      BY <2>2, <2>3, <2>4
  <2>6. Installed'
      BY <2>2, NoCredentialIsNone DEF Installed
  <2> QED  BY <1>1, <2>2, <2>4, <2>5, <2>6
<1>4. ASSUME NEW c \in Clients, ChangeWrite(c) PROVE Goal
  <2>1. credential' = [secret |-> request[c].new, version |-> credential.version + 1, current |-> TRUE]
      BY <1>4 DEF ChangeWrite
  <2>3. request[c].new \in Secrets
      BY <1>4, RequestShapes DEF ChangeWrite, AccessTypeOK, Changing
  <2>2. Installed'
    <3>1. [secret |-> request[c].new, version |-> credential.version + 1, current |-> TRUE] # NoCredential
        BY <1>1, <2>3, MadeIsInstalled, Zenon
    <3> QED  BY <2>1, <3>1 DEF Installed
  <2> QED  BY <1>1, <2>1, <2>2
<1>5. ASSUME NEW p \in Secrets, ResetPassword(p) PROVE Goal
  <2>1. credential' = [secret |-> p, version |-> credential.version + 1, current |-> TRUE]
      BY <1>5 DEF ResetPassword
  <2>2. [secret |-> p, version |-> credential.version + 1, current |-> TRUE] # NoCredential
      BY <1>1, MadeIsInstalled, Zenon
  <2> QED  BY <1>1, <2>1, <2>2 DEF Installed
<1>6. UNCHANGED <<credential, lapsed>>
      \/ (\E c \in Clients : LoginRehash(c) \/ ChangeWrite(c))
      \/ \E p \in Secrets : ResetPassword(p)
    BY DEF Next, vars, SetupCheck, SetupInsert, LoginStart, LoginVerify, LoginFails, LoginCreate,
           LogoutStart, ChangeStart, Authorized, Logout, RevokeOthers, ChangeVerify, Expire, Tick
<1> QED  BY <1>2, <1>3, <1>4, <1>5, <1>6

LEMMA FreshStep ==
    ASSUME Inv, [Next]_vars
    PROVE  Fresh'
<1> USE DEF Inv
<1> SUFFICES ASSUME ~Installed', NEW s \in SessionIds PROVE sessions'[s] = NoRow
    BY DEF Fresh
<1>1. ~Installed
    BY CredentialStep
<1>2. sessions[s] = NoRow /\ sessions[s].status = "none" /\ sessions \in [SessionIds -> Session]
    BY <1>1 DEF Fresh, NoRow, AccessTypeOK
<1>3. \A c \in Clients : request[c] \notin LoggingIn \cup Changing
    BY <1>1 DEF Reads, Read
<1>4. ASSUME NEW c \in Clients, SetupInsert(c) PROVE FALSE
  <2>1. credential' = [secret |-> request[c].given, version |-> 1, current |-> TRUE]
      BY <1>1, <1>4 DEF SetupInsert
  <2>2. request[c].given \in Secrets
      BY <1>4, RequestShapes DEF SetupInsert, AccessTypeOK, Setting
  <2> QED  BY <2>1, <2>2, MadeIsInstalled DEF Installed
<1>5. ASSUME NEW c \in Clients, NEW p \in Secrets, LoginStart(c, p) PROVE sessions'[s] = NoRow
    BY <1>2, <1>5 DEF LoginStart
<1>6. ASSUME NEW c \in Clients, LoginCreate(c) PROVE FALSE
    BY <1>3, <1>6, RequestShapes DEF LoginCreate, AccessTypeOK
<1>7. ASSUME NEW c \in Clients, Logout(c) \/ RevokeOthers(c) PROVE sessions'[s] = NoRow
    BY <1>2, <1>7 DEF Logout, RevokeOthers, Revoked
<1>8. ASSUME NEW c \in Clients, ChangeWrite(c) PROVE FALSE
    BY <1>3, <1>8, RequestShapes DEF ChangeWrite, AccessTypeOK
<1>9. ASSUME NEW t \in SessionIds, Expire(t) PROVE sessions'[s] = NoRow
    BY <1>2, <1>9 DEF Expire
<1>10. CASE UNCHANGED sessions
    BY <1>2, <1>10
<1> QED
    BY <1>1, <1>4, <1>5, <1>6, <1>7, <1>8, <1>9, <1>10
    DEF Next, vars, SetupCheck, LoginVerify, LoginRehash, LoginFails, LogoutStart, ChangeStart,
        Authorized, ChangeVerify, ResetPassword, Tick

\* A reading that went on as it was is still one.
LEMMA ReadOn ==
    ASSUME Inv, [Next]_vars, NEW d \in Clients,
           request[d] \in LoggingIn \cup Changing, request'[d] \in LoggingIn \cup Changing,
           request'[d].version = request[d].version, request'[d].given = request[d].given,
           \/ request'[d].step = "verify"
           \/ request[d].step # "verify"
           \/ /\ UNCHANGED credential
              /\ request[d].given = credential.secret
    PROVE  Read(request[d])'
<1>1. Read(request[d])
    BY DEF Inv, Reads
<1>2. request[d].version \in Nat
    BY AccessAssumption DEF LoggingIn, Changing
<1>3. credential.version \in Nat /\ credential'.version \in Nat
    BY <1>1, CredentialStep, TypeStep, AccessAssumption DEF Inv, AccessTypeOK, Credential, Read, Installed
<1>4. /\ Installed'
      /\ credential'.version >= credential.version
      /\ credential'.version = credential.version =>
            /\ lapsed => lapsed'
            /\ credential'.secret = credential.secret \/ lapsed'
    BY <1>1, CredentialStep DEF Read
<1> QED  BY <1>1, <1>2, <1>3, <1>4 DEF Read

LEMMA ReadsStep ==
    ASSUME Inv, [Next]_vars
    PROVE  Reads'
<1> USE DEF Inv
<1> SUFFICES ASSUME NEW d \in Clients, request'[d] \in LoggingIn \cup Changing
             PROVE  Read(request[d])'
    BY DEF Reads
<1>0. request \in [Clients -> Request] /\ request[d] \in Request
    BY DEF AccessTypeOK
<1>1. CASE request'[d] = request[d]
    BY <1>1, ReadOn
<1>2. ASSUME NEW c \in Clients, NEW p \in Secrets, SetupCheck(c, p) PROVE Read(request[d])'
  <2>1. [op |-> "setup", given |-> p] \in Setting
      BY DEF Setting
  <2>2. d # c
      BY <1>0, <1>2, <2>1, ShapesApart DEF SetupCheck, Accept
  <2> QED  BY <1>0, <1>1, <1>2, <2>2 DEF SetupCheck, Accept
<1>3. ASSUME NEW c \in Clients, request' = [request EXCEPT ![c] = Idle] PROVE Read(request[d])'
    BY <1>0, <1>1, <1>3, ShapesApart
<1>4. ASSUME NEW c \in Clients, NEW p \in Secrets, LoginStart(c, p) PROVE Read(request[d])'
  <2>1. PICK gone : d # c => request'[d] = Orphaned(request[d], gone)
      BY <1>4 DEF LoginStart
  <2>2. [op |-> "login", step |-> "verify", given |-> p] \in Verifying
      BY DEF Verifying
  <2>3. d # c
      BY <1>4, <2>2, ShapesApart DEF LoginStart
  <2>4. CASE request[d] \in Changing
      BY <1>0, <2>1, <2>3, <2>4, OrphanedTyped, ReadOn
  <2>5. CASE request[d] \in Ending
      BY <1>0, <2>1, <2>3, <2>5, OrphanedTyped, ShapesApart
  <2>6. CASE request[d] \notin SessionRequest
      BY <1>0, <1>1, <2>1, <2>3, <2>6, OrphanedTyped
  <2> QED  BY <2>4, <2>5, <2>6, ShapesTyped
<1>5. ASSUME NEW c \in Clients, LoginVerify(c) PROVE Read(request[d])'
  <2>1. CASE /\ Installed
             /\ request[c].given = credential.secret
             /\ Continue(c, [op |-> "login", given |-> request[c].given,
                             version |-> credential.version,
                             step |-> IF credential.current THEN "create" ELSE "rehash"])
    <3>1. CASE d # c
        BY <1>0, <1>1, <2>1, <3>1 DEF Continue
    <3>2. CASE d = c
      <4>1. /\ request'[d].version = credential.version
            /\ request'[d].given = credential.secret
          BY <1>0, <2>1, <3>2 DEF Continue
      <4>2. credential' = credential /\ credential.version \in Nat
          BY <1>5, <2>1, AccessAssumption DEF LoginVerify, Installed, AccessTypeOK, Credential
      <4> QED  BY <2>1, <4>1, <4>2 DEF Read, Installed
    <3> QED  BY <3>1, <3>2
  <2> QED  BY <1>3, <1>5, <2>1 DEF LoginVerify, Done
<1>6. ASSUME NEW c \in Clients, LoginRehash(c) PROVE Read(request[d])'
  <2>1. request[c] \in LoggingIn /\ request[c].step = "rehash"
      BY <1>6, RequestShapes DEF LoginRehash, AccessTypeOK
  <2>2. request' = [request EXCEPT ![c] = [request[c] EXCEPT !.step = "create"]]
      BY <1>6 DEF LoginRehash, Continue
  <2>3. CASE d # c
      BY <1>0, <1>1, <2>2, <2>3
  <2>4. CASE d = c
    <3>1. request'[d].version = request[d].version /\ request'[d].given = request[d].given
        BY <1>0, <2>1, <2>2, <2>4 DEF LoggingIn
    <3> QED  BY <2>1, <2>4, <3>1, ReadOn
  <2> QED  BY <2>3, <2>4
<1>7. ASSUME NEW c \in Clients, NEW s \in SessionIds, NEW op \in {"logout", "revoke-others"},
             LogoutStart(c, s, op)
      PROVE  Read(request[d])'
  <2>1. [op |-> op, session |-> s, orphan |-> FALSE] \in Ending
      BY DEF Ending
  <2>2. d # c
      BY <1>0, <1>7, <2>1, ShapesApart DEF LogoutStart, Authorized, Accept
  <2> QED  BY <1>0, <1>1, <1>7, <2>2 DEF LogoutStart, Authorized, Accept
<1>8. ASSUME NEW c \in Clients, NEW s \in SessionIds, NEW p \in Secrets, NEW q \in Secrets,
             ChangeStart(c, s, p, q)
      PROVE  Read(request[d])'
  <2>1. CASE d # c
      BY <1>0, <1>1, <1>8, <2>1 DEF ChangeStart, Authorized, Accept
  <2>2. CASE d = c
    <3>1. request'[d].version = credential.version /\ request'[d].step = "verify"
        BY <1>0, <1>8, <2>2 DEF ChangeStart, Authorized, Accept
    <3>2. Installed /\ credential' = credential /\ credential.version \in Nat
        BY <1>8, AccessAssumption
        DEF ChangeStart, Authorized, Valid, Installed, AccessTypeOK, Credential
    <3> QED  BY <3>1, <3>2 DEF Read, Installed
  <2> QED  BY <2>1, <2>2
<1>9. ASSUME NEW c \in Clients, ChangeVerify(c) PROVE Read(request[d])'
  <2>1. request[c] \in Changing
      BY <1>9, RequestShapes DEF ChangeVerify, AccessTypeOK
  <2>2. CASE /\ request[c].given = credential.secret
             /\ Continue(c, [request[c] EXCEPT !.step = "write"])
    <3>1. CASE d # c
        BY <1>0, <1>1, <2>2, <3>1 DEF Continue
    <3>2. CASE d = c
      <4>1. request'[d].version = request[d].version /\ request'[d].given = request[d].given
          BY <1>0, <2>1, <2>2, <3>2 DEF Continue, Changing
      <4>2. UNCHANGED credential
          BY <1>9 DEF ChangeVerify
      <4> QED  BY <2>1, <2>2, <3>2, <4>1, <4>2, ReadOn
    <3> QED  BY <3>1, <3>2
  <2> QED  BY <1>3, <1>9, <2>2 DEF ChangeVerify, Done
<1>10. CASE UNCHANGED request
    BY <1>1, <1>10
<1>11. \/ UNCHANGED request
       \/ \E c \in Clients : request' = [request EXCEPT ![c] = Idle]
       \/ \E c \in Clients :
            \/ \E p \in Secrets : SetupCheck(c, p) \/ LoginStart(c, p)
            \/ LoginVerify(c) \/ LoginRehash(c) \/ ChangeVerify(c)
            \/ \E s \in SessionIds :
                \/ \E op \in {"logout", "revoke-others"} : LogoutStart(c, s, op)
                \/ \E p, q \in Secrets : ChangeStart(c, s, p, q)
    BY DEF Next, vars, SetupInsert, LoginFails, LoginCreate, Logout, RevokeOthers, ChangeWrite,
           Done, ResetPassword, Expire, Tick
<1> QED
    BY <1>2, <1>3, <1>4, <1>5, <1>6, <1>7, <1>8, <1>9, <1>10, <1>11

-----------------------------------------------------------------------------
(* The sessions *)

LEMMA SessionRequestParts ==
    ASSUME NEW r \in SessionRequest
    PROVE  r.session \in SessionIds /\ r.orphan \in BOOLEAN
BY DEF SessionRequest

\* A request that went on for a session whose row and whose password did not
\* change, or whose row only stopped being open.
LEMMA KeptOn ==
    ASSUME Inv, [Next]_vars, NEW d \in Clients,
           request[d] \in SessionRequest,
           request'[d].session = request[d].session,
           request[d].orphan => request'[d].orphan,
           ~request'[d].orphan =>
              \/ sessions'[request[d].session] = sessions[request[d].session]
              \/ sessions'[request[d].session].status \in {"expired", "revoked"},
           Installed => credential'.version = credential.version
    PROVE  Keep(request[d])'
<1>1. Keep(request[d])
    BY DEF Inv, Keeps
<1>2. Installed'
    BY <1>1, CredentialStep DEF Keep
<1> QED  BY <1>1, <1>2 DEF Keep, Exists

LEMMA KeepsStep ==
    ASSUME Inv, [Next]_vars
    PROVE  Keeps'
<1> USE DEF Inv
<1> SUFFICES ASSUME NEW d \in Clients, request'[d] \in SessionRequest
             PROVE  Keep(request[d])'
    BY DEF Keeps
<1>0. /\ request \in [Clients -> Request] /\ request[d] \in Request
      /\ sessions \in [SessionIds -> Session]
    BY DEF AccessTypeOK
<1>1. CASE /\ request'[d] = request[d]
           /\ UNCHANGED sessions
           /\ Installed => credential'.version = credential.version
    BY <1>1, KeptOn
<1>2. ASSUME NEW c \in Clients, NEW p \in Secrets, SetupCheck(c, p) PROVE Keep(request[d])'
  <2>1. [op |-> "setup", given |-> p] \in Setting
      BY DEF Setting
  <2>2. d # c
      BY <1>0, <1>2, <2>1, ShapesApart DEF SetupCheck, Accept
  <2> QED  BY <1>0, <1>1, <1>2, <2>2 DEF SetupCheck, Accept
<1>3. ASSUME NEW c \in Clients, SetupInsert(c) PROVE Keep(request[d])'
  <2>1. d # c /\ request'[d] = request[d]
      BY <1>0, <1>3, ShapesApart DEF SetupInsert, Done
  <2>2. Installed
      BY <2>1 DEF Keeps, Keep
  <2> QED  BY <1>1, <1>3, <2>1, <2>2 DEF SetupInsert
<1>4. ASSUME NEW c \in Clients, NEW p \in Secrets, LoginStart(c, p) PROVE Keep(request[d])'
  <2>1. PICK gone : /\ d # c => request'[d] = Orphaned(request[d], gone)
                    /\ sessions' = [s \in SessionIds |-> IF s \in gone THEN NoRow ELSE sessions[s]]
      BY <1>4 DEF LoginStart
  <2>2. [op |-> "login", step |-> "verify", given |-> p] \in Verifying
      BY DEF Verifying
  <2>3. d # c
      BY <1>4, <2>2, ShapesApart DEF LoginStart
  <2>4. request[d] \in SessionRequest
      BY <1>0, <2>1, <2>3, OrphanedTyped
  <2>5. /\ request'[d].session = request[d].session
        /\ request'[d].orphan = (request[d].orphan \/ request[d].session \in gone)
      BY <1>0, <2>1, <2>3, <2>4, OrphanedTyped
  <2>6. /\ request[d].orphan => request'[d].orphan
        /\ request[d].session \in gone => request'[d].orphan
      BY <2>5
  <2>7. request[d].session \notin gone =>
            sessions'[request[d].session] = sessions[request[d].session]
      BY <2>1, <2>4, SessionRequestParts
  <2> QED  BY <1>4, <2>4, <2>5, <2>6, <2>7, KeptOn DEF LoginStart
<1>5. ASSUME NEW c \in Clients, LoginVerify(c) PROVE Keep(request[d])'
  <2>1. CASE d # c
      BY <1>0, <1>1, <1>5, <2>1 DEF LoginVerify, Continue, Done
  <2>2. CASE d = c
    <3>1. request'[d].op \in {"login", "idle"}
        BY <1>0, <1>5, <2>2 DEF LoginVerify, Continue, Done, Idle
    <3> QED  BY <3>1 DEF SessionRequest
  <2> QED  BY <2>1, <2>2
<1>6. ASSUME NEW c \in Clients, LoginRehash(c) PROVE Keep(request[d])'
  <2>1. request[c] \in LoggingIn
      BY <1>6, RequestShapes DEF LoginRehash, AccessTypeOK
  <2>2. CASE d # c
    <3>1. credential \in Credential => credential'.version = credential.version
        BY <1>6 DEF LoginRehash, Credential
    <3>2. Installed => credential'.version = credential.version
        BY <3>1 DEF Installed, AccessTypeOK
    <3> QED  BY <1>0, <1>1, <1>6, <2>2, <3>2 DEF LoginRehash, Continue
  <2>3. CASE d = c
    <3>1. request'[d].op = "login"
        BY <1>0, <1>6, <2>1, <2>3 DEF LoginRehash, Continue, LoggingIn
    <3> QED  BY <3>1 DEF SessionRequest
  <2> QED  BY <2>2, <2>3
<1>7. ASSUME NEW c \in Clients, LoginFails(c) PROVE Keep(request[d])'
  <2>1. d # c
      BY <1>0, <1>7, ShapesApart DEF LoginFails, Done
  <2> QED  BY <1>0, <1>1, <1>7, <2>1 DEF LoginFails, Done
<1>8. ASSUME NEW c \in Clients, LoginCreate(c) PROVE Keep(request[d])'
  <2>1. d # c
      BY <1>0, <1>8, ShapesApart DEF LoginCreate, Done
  <2>2. request'[d] = request[d]
      BY <1>0, <1>8, <2>1 DEF LoginCreate, Done
  <2>3. PICK s \in SessionIds : Opened(c, s, request[c].version, request[c].given)
      BY <1>8 DEF LoginCreate
  <2>4. ~Exists(s)
      BY <2>3, AccessAssumption DEF Opened, NextId
  <2>5. CASE request[d].orphan
      BY <1>8, <2>2, <2>5, KeptOn DEF LoginCreate
  <2>6. CASE ~request[d].orphan
    <3>1. Exists(request[d].session)
        BY <2>2, <2>6 DEF Keeps, Keep
    <3>2. sessions'[request[d].session] = sessions[request[d].session]
        BY <1>0, <2>2, <2>3, <2>4, <3>1, SessionRequestParts DEF Opened
    <3> QED  BY <1>8, <2>2, <3>2, KeptOn DEF LoginCreate
  <2> QED  BY <2>5, <2>6
<1>9. ASSUME NEW c \in Clients, NEW s \in SessionIds, NEW r,
             r.session = s, r.orphan = FALSE, Authorized(c, s, r)
      PROVE  Keep(request[d])'
  <2>1. CASE d # c
      BY <1>0, <1>1, <1>9, <2>1 DEF Authorized, Accept
  <2>2. CASE d = c
    <3>1. request'[d].session = s /\ request'[d].orphan = FALSE
        BY <1>0, <1>9, <2>2 DEF Authorized, Accept
    <3>2. /\ UNCHANGED <<sessions, credential>>
          /\ Installed
          /\ sessions[s].status = "open"
          /\ sessions[s].version = credential.version
        BY <1>9 DEF Authorized, Valid
    <3> QED  BY <3>1, <3>2 DEF Keep, Installed, Exists
  <2> QED  BY <2>1, <2>2
<1>10. ASSUME NEW c \in Clients, NEW those, sessions' = Revoked(those), Done(c), UNCHANGED credential
       PROVE  Keep(request[d])'
  <2>1. d # c
      BY <1>0, <1>10, ShapesApart DEF Done
  <2>2. request'[d] = request[d]
      BY <1>0, <1>10, <2>1 DEF Done
  <2>3. \/ sessions'[request[d].session] = sessions[request[d].session]
        \/ sessions'[request[d].session].status = "revoked"
      BY <1>0, <1>10, <2>2, SessionRequestParts DEF Revoked, Session
  <2> QED  BY <1>10, <2>2, <2>3, KeptOn
<1>11. ASSUME NEW c \in Clients, ChangeVerify(c) PROVE Keep(request[d])'
  <2>1. CASE d # c
      BY <1>0, <1>1, <1>11, <2>1 DEF ChangeVerify, Continue, Done
  <2>2. CASE d = c
    <3>1. request[c] \in Changing
        BY <1>11, RequestShapes DEF ChangeVerify, AccessTypeOK
    <3>2. request'[c] # Idle
        BY <2>2, ShapesApart
    <3>3. request'[c] = [request[c] EXCEPT !.step = "write"]
        BY <1>0, <1>11, <3>2 DEF ChangeVerify, Continue, Done
    <3>4. request'[c].session = request[c].session /\ request'[c].orphan = request[c].orphan
        BY <3>1, <3>3 DEF Changing
    <3> QED  BY <1>11, <2>2, <3>1, <3>4, ShapesTyped, KeptOn DEF ChangeVerify
  <2> QED  BY <2>1, <2>2
<1>12. ASSUME NEW c \in Clients, ChangeWrite(c) PROVE Keep(request[d])'
  <2>1. d # c
      BY <1>0, <1>12, ShapesApart DEF ChangeWrite, Done
  <2>2. request'[d] = request[d] /\ request[d].session \in SessionIds
      BY <1>0, <1>12, <2>1, SessionRequestParts DEF ChangeWrite, Done
  <2>3. Keep(request[d])
      BY <2>2 DEF Keeps
  <2>4. Installed' /\ credential'.version = credential.version + 1
      BY <1>12, <2>3, CredentialStep DEF Keep, ChangeWrite
  <2>5. Exists(request[d].session) => Exists(request[d].session)'
      BY <1>0, <1>12, <2>2 DEF ChangeWrite, Kept, Revoked, Exists, Session
  <2>6. sessions'[request[d].session].status = "open" =>
            sessions'[request[d].session].version = credential.version + 1
      BY <1>0, <1>12, <2>2 DEF ChangeWrite, Kept, Revoked, Session
  <2> QED  BY <2>2, <2>3, <2>4, <2>5, <2>6 DEF Keep
<1>13. ASSUME NEW p \in Secrets, ResetPassword(p) PROVE Keep(request[d])'
  <2>1. request'[d] = request[d] /\ request[d].session \in SessionIds
      BY <1>13, SessionRequestParts DEF ResetPassword
  <2>2. Keep(request[d]) /\ Installed'
      BY <1>13, <2>1, CredentialStep DEF Keeps, ResetPassword
  <2>3. Exists(request[d].session) => Exists(request[d].session)'
      BY <1>0, <1>13, <2>1 DEF ResetPassword, Revoked, Exists, Session
  <2>4. sessions'[request[d].session].status # "open"
      BY <1>0, <1>13, <2>1 DEF ResetPassword, Revoked, Session
  <2> QED  BY <2>1, <2>2, <2>3, <2>4 DEF Keep
<1>14. ASSUME NEW s \in SessionIds, Expire(s) PROVE Keep(request[d])'
  <2>1. request'[d] = request[d] /\ request[d].session \in SessionIds
      BY <1>14, SessionRequestParts DEF Expire
  <2>2. \/ sessions'[request[d].session] = sessions[request[d].session]
        \/ sessions'[request[d].session].status = "expired"
      BY <1>0, <1>14, <2>1 DEF Expire, Session
  <2> QED  BY <1>14, <2>1, <2>2, KeptOn DEF Expire
<1>15. CASE Tick \/ UNCHANGED vars
    BY <1>1, <1>15 DEF Tick, vars
<1>16. ASSUME NEW c \in Clients, NEW s \in SessionIds, NEW op \in {"logout", "revoke-others"},
             LogoutStart(c, s, op)
       PROVE  Keep(request[d])'
    BY <1>9, <1>16 DEF LogoutStart
<1>17. ASSUME NEW c \in Clients, NEW s \in SessionIds, NEW p \in Secrets, NEW q \in Secrets,
              ChangeStart(c, s, p, q)
       PROVE  Keep(request[d])'
    BY <1>9, <1>17 DEF ChangeStart
<1>18. ASSUME NEW c \in Clients, Logout(c) \/ RevokeOthers(c) PROVE Keep(request[d])'
    BY <1>10, <1>18 DEF Logout, RevokeOthers
<1> QED
    BY <1>2, <1>3, <1>4, <1>5, <1>6, <1>7, <1>8, <1>11, <1>12, <1>13, <1>14, <1>15, <1>16, <1>17,
       <1>18 DEF Next

LEMMA HoldersStep ==
    ASSUME Inv, [Next]_vars
    PROVE  HoldersKnowThePassword'
<1> USE DEF Inv
<1> SUFFICES ASSUME ~lapsed', NEW s \in SessionIds, Valid(s)'
             PROVE  known'[s] = credential'.secret
    BY DEF HoldersKnowThePassword
<1>0. /\ sessions \in [SessionIds -> Session]
      /\ known \in [SessionIds -> Secrets \cup {NoSecret}]
    BY DEF AccessTypeOK
<1>1. CASE /\ sessions'[s] = sessions[s]
           /\ UNCHANGED <<credential, known, lapsed>>
    BY <1>1 DEF HoldersKnowThePassword, Valid, Installed
<1>2. ASSUME NEW c \in Clients, SetupInsert(c) PROVE known'[s] = credential'.secret
  <2>1. CASE Installed
      BY <1>1, <1>2, <2>1 DEF SetupInsert
  <2>2. CASE ~Installed
    <3>1. PICK t \in SessionIds : Opened(c, t, 1, request[c].given)
        BY <1>2, <2>2 DEF SetupInsert
    <3>2. credential' = [secret |-> request[c].given, version |-> 1, current |-> TRUE]
        BY <1>2, <2>2 DEF SetupInsert
    <3>3. s = t
        BY <1>0, <2>2, <3>1 DEF Opened, Fresh, NoRow, Valid
    <3> QED  BY <1>0, <3>1, <3>2, <3>3 DEF Opened
  <2> QED  BY <2>1, <2>2
<1>3. ASSUME NEW c \in Clients, NEW p \in Secrets, LoginStart(c, p)
      PROVE  known'[s] = credential'.secret
    BY <1>1, <1>3 DEF LoginStart, Valid, NoRow
<1>4. ASSUME NEW c \in Clients, LoginRehash(c) PROVE known'[s] = credential'.secret
  <2>1. request[c] \in LoggingIn /\ request[c].step = "rehash"
      BY <1>4, RequestShapes DEF LoginRehash, AccessTypeOK
  <2>2. ~lapsed /\ credential.version = request[c].version
      BY <1>4 DEF LoginRehash
  <2>3. request[c].given = credential.secret /\ Installed
      BY <2>1, <2>2 DEF Reads, Read
  <2>4. credential'.secret = credential.secret /\ credential'.version = credential.version
      BY <1>4, <2>3 DEF LoginRehash, Installed, AccessTypeOK, Credential
  <2> QED  BY <1>4, <2>2, <2>3, <2>4 DEF LoginRehash, HoldersKnowThePassword, Valid
<1>5. ASSUME NEW c \in Clients, LoginCreate(c) PROVE known'[s] = credential'.secret
  <2>1. request[c] \in LoggingIn /\ request[c].step = "create"
      BY <1>5, RequestShapes DEF LoginCreate, AccessTypeOK
  <2>2. PICK t \in SessionIds : Opened(c, t, request[c].version, request[c].given)
      BY <1>5 DEF LoginCreate
  <2>3. CASE s = t
    <3>1. sessions'[s].version = request[c].version /\ known'[s] = request[c].given
        BY <1>0, <2>2, <2>3 DEF Opened
    <3>2. request[c].version = credential.version /\ ~lapsed
        BY <1>5, <3>1 DEF LoginCreate, Valid
    <3> QED  BY <1>5, <2>1, <3>1, <3>2 DEF LoginCreate, Reads, Read
  <2>4. CASE s # t
    <3>1. sessions'[s] = sessions[s] /\ known'[s] = known[s]
        BY <1>0, <2>2, <2>4 DEF Opened
    <3> QED  BY <1>5, <3>1 DEF LoginCreate, HoldersKnowThePassword, Valid, Installed
  <2> QED  BY <2>3, <2>4
<1>6. ASSUME NEW those, sessions' = Revoked(those), UNCHANGED <<credential, known, lapsed>>
      PROVE  known'[s] = credential'.secret
  <2>1. sessions'[s] = sessions[s]
      BY <1>0, <1>6 DEF Revoked, Valid, Session
  <2> QED  BY <1>1, <1>6, <2>1
<1>7. ASSUME NEW c \in Clients, ChangeWrite(c) PROVE known'[s] = credential'.secret
  <2>1. request[c] \in Changing
      BY <1>7, RequestShapes DEF ChangeWrite, AccessTypeOK
  <2>2. request[c].session \in SessionIds
      BY <2>1 DEF Changing
  <2>3. s = request[c].session /\ sessions[s].status = "open"
      BY <1>0, <1>7, <2>2 DEF ChangeWrite, Kept, Revoked, Valid, Session
  <2>4. ~request[c].orphan
      BY <1>7, <2>3 DEF ChangeWrite
  <2> QED  BY <1>0, <1>7, <2>3, <2>4 DEF ChangeWrite
<1>8. ASSUME NEW p \in Secrets, ResetPassword(p) PROVE known'[s] = credential'.secret
    BY <1>0, <1>8 DEF ResetPassword, Revoked, Valid, Session
<1>9. ASSUME NEW t \in SessionIds, Expire(t) PROVE known'[s] = credential'.secret
  <2>1. sessions'[s] = sessions[s]
      BY <1>0, <1>9 DEF Expire, Valid, Session
  <2> QED  BY <1>1, <1>9, <2>1 DEF Expire
<1>10. ASSUME NEW c \in Clients, Logout(c) \/ RevokeOthers(c) PROVE known'[s] = credential'.secret
    BY <1>6, <1>10 DEF Logout, RevokeOthers
<1>11. CASE UNCHANGED <<sessions, credential, known, lapsed>>
    BY <1>1, <1>11
<1> QED
    BY <1>2, <1>3, <1>4, <1>5, <1>7, <1>8, <1>9, <1>10, <1>11
    DEF Next, vars, SetupCheck, LoginVerify, LoginFails, LogoutStart, ChangeStart, Authorized,
        ChangeVerify, Tick

-----------------------------------------------------------------------------
(* The theorems *)

THEOREM Invariance == Spec => []Inv
<1>1. Inv /\ [Next]_vars => Inv'
    BY TypeStep, FreshStep, ReadsStep, KeepsStep, HoldersStep DEF Inv
<1> QED  BY InitInv, <1>1, PTL DEF Spec

\* The variables keep their types.
THEOREM AccessTyped == Spec => []AccessTypeOK
<1>1. Inv => AccessTypeOK
    BY DEF Inv
<1> QED  BY Invariance, <1>1, PTL

\* Whoever holds a session that Authenticate accepts has given the password
\* stored now, unless a late write has undone a change (service.go:136, 211).
THEOREM HoldersKnow == Spec => []HoldersKnowThePassword
<1>1. Inv => HoldersKnowThePassword
    BY DEF Inv
<1> QED  BY Invariance, <1>1, PTL

\* A session that is not accepted never is again, unless a change of the
\* password has outlived its own row (service.go:241).
THEOREM RefusedStays == Spec => RefusedStaysRefused
<1> DEFINE Stays == \A s \in SessionIds :
          Refused(s) => \/ ~Valid(s)'
                        \/ \E c \in Clients : request[c].op = "change" /\ request[c].orphan
<1>1. ASSUME Inv, [Next]_vars PROVE Stays
  <2> USE <1>1 DEF Inv
  <2> SUFFICES ASSUME NEW s \in SessionIds, Refused(s), Valid(s)'
               PROVE  \E c \in Clients : request[c].op = "change" /\ request[c].orphan
      OBVIOUS
  <2>1. sessions \in [SessionIds -> Session] /\ Installed
      BY DEF AccessTypeOK, Refused, Exists, Fresh, NoRow
  <2>2. /\ sessions[s].status = "open" => sessions[s].version # credential.version
        /\ Exists(s)
      BY <2>1 DEF Refused, Valid
  <2>3. ASSUME sessions'[s] = sessions[s], credential'.version = credential.version PROVE FALSE
      BY <2>2, <2>3 DEF Valid
  <2>4. ASSUME NEW c \in Clients, NEW p \in Secrets, LoginStart(c, p) PROVE FALSE
      BY <2>1, <2>3, <2>4 DEF LoginStart, Valid, NoRow
  <2>5. ASSUME NEW c \in Clients, LoginRehash(c) PROVE FALSE
    <3>1. credential'.version = credential.version
        BY <2>1, <2>5 DEF LoginRehash, Installed, AccessTypeOK, Credential
    <3> QED  BY <2>3, <2>5, <3>1 DEF LoginRehash
  <2>6. ASSUME NEW c \in Clients, LoginCreate(c) PROVE FALSE
    <3>1. PICK t \in SessionIds : Opened(c, t, request[c].version, request[c].given)
        BY <2>6 DEF LoginCreate
    <3>2. s # t
        BY <2>2, <3>1, AccessAssumption DEF Opened, NextId
    <3> QED  BY <2>1, <2>3, <2>6, <3>1, <3>2 DEF LoginCreate, Opened
  <2>7. ASSUME NEW c \in Clients, Logout(c) \/ RevokeOthers(c) PROVE FALSE
    <3>1. PICK those : sessions' = Revoked(those)
        BY <2>7 DEF Logout, RevokeOthers
    <3>2. sessions'[s] = sessions[s]
        BY <2>1, <3>1 DEF Revoked, Valid, Session
    <3> QED  BY <2>3, <2>7, <3>2 DEF Logout, RevokeOthers
  <2>8. ASSUME NEW c \in Clients, ChangeWrite(c), ~request[c].orphan PROVE FALSE
    <3>1. request[c] \in Changing
        BY <2>8, RequestShapes DEF ChangeWrite, AccessTypeOK
    <3>2. request[c].session \in SessionIds /\ Keep(request[c])
        BY <3>1, ShapesTyped, SessionRequestParts DEF Keeps
    <3>3. s = request[c].session /\ sessions[s].status = "open"
        BY <2>1, <2>8, <3>2 DEF ChangeWrite, Kept, Revoked, Valid, Session
    <3> QED  BY <2>2, <2>8, <3>2, <3>3 DEF Keep
  <2>9. ASSUME NEW p \in Secrets, ResetPassword(p) PROVE FALSE
      BY <2>1, <2>9 DEF ResetPassword, Revoked, Valid, Session
  <2>10. ASSUME NEW t \in SessionIds, Expire(t) PROVE FALSE
    <3>1. sessions'[s] = sessions[s]
        BY <2>1, <2>10 DEF Expire, Valid, Session
    <3> QED  BY <2>3, <2>10, <3>1 DEF Expire
  <2>11. ASSUME NEW c \in Clients, SetupInsert(c) PROVE FALSE
      BY <2>1, <2>3, <2>11 DEF SetupInsert
  <2>12. ASSUME UNCHANGED <<sessions, credential>> PROVE FALSE
      BY <2>3, <2>12
  <2>13. ASSUME NEW c \in Clients, ChangeWrite(c)
         PROVE  \E d \in Clients : request[d].op = "change" /\ request[d].orphan
      BY <2>8, <2>13 DEF ChangeWrite
  <2> QED
      BY <2>4, <2>5, <2>6, <2>7, <2>9, <2>10, <2>11, <2>12, <2>13
      DEF Next, vars, SetupCheck, LoginVerify, LoginFails, LogoutStart, ChangeStart, Authorized,
          ChangeVerify, Tick
<1>2. Inv /\ [Next]_vars => [Stays]_vars
    BY <1>1
<1>3. Spec => [][Stays]_vars
    BY Invariance, <1>2, PTL DEF Spec
<1> QED  BY <1>3 DEF RefusedStaysRefused

\* The password is replaced by the command line, the set-up or a request that
\* was given the stored one, as long as the version it read is the stored one.
THEOREM ReplacedKnowinglyHolds == Spec => ReplacedKnowingly
<1> DEFINE Knowing ==
      Installed /\ credential.secret' # credential.secret =>
          \/ \E p \in Secrets : ResetPassword(p)
          \/ \E c \in Clients :
                LET r == request[c] IN
                \/ /\ ChangeWrite(c)
                   /\ \/ r.given = credential.secret
                      \/ r.version # credential.version
                      \/ lapsed
                \/ /\ LoginRehash(c)
                   /\ r.version # credential.version \/ lapsed
<1>1. ASSUME Inv, [Next]_vars PROVE Knowing
  <2> USE <1>1 DEF Inv
  <2> SUFFICES ASSUME Installed, credential.secret' # credential.secret PROVE Knowing
      OBVIOUS
  <2>1. ASSUME NEW c \in Clients, ChangeWrite(c) PROVE Knowing
    <3>1. request[c] \in Changing /\ request[c].step = "write"
        BY <2>1, RequestShapes DEF ChangeWrite, AccessTypeOK
    <3>2. \/ request[c].given = credential.secret
          \/ request[c].version # credential.version
          \/ lapsed
        BY <3>1 DEF Reads, Read
    <3> QED  BY <2>1, <3>2
  <2>2. ASSUME NEW c \in Clients, LoginRehash(c) PROVE Knowing
    <3>1. request[c] \in LoggingIn /\ request[c].step = "rehash"
        BY <2>2, RequestShapes DEF LoginRehash, AccessTypeOK
    <3>2. credential'.secret = request[c].given
        BY <2>2 DEF LoginRehash, Installed, AccessTypeOK, Credential
    <3>3. request[c].version # credential.version \/ lapsed
        BY <3>1, <3>2 DEF Reads, Read
    <3> QED  BY <2>2, <3>3
  <2>3. ASSUME UNCHANGED credential PROVE FALSE
      BY <2>3
  <2>4. ASSUME NEW c \in Clients, SetupInsert(c) PROVE FALSE
      BY <2>3, <2>4 DEF SetupInsert
  <2> QED
      BY <2>1, <2>2, <2>3, <2>4
      DEF Next, vars, SetupCheck, LoginStart, LoginVerify, LoginFails, LoginCreate, LogoutStart,
          ChangeStart, Authorized, Logout, RevokeOthers, ChangeVerify, Expire, Tick
<1>2. Inv /\ [Next]_vars => [Knowing]_vars
    BY <1>1
<1>3. Spec => [][Knowing]_vars
    BY Invariance, <1>2, PTL DEF Spec
<1> QED  BY <1>3 DEF ReplacedKnowingly

-----------------------------------------------------------------------------
(* Guesses *)

Verifiers == {c \in Clients : request[c] \in Verifying}

Bound(k) == (Threshold - 1) + Cardinality(Clients) * k

\* While logins are let in, the failures so far fit into the time before now; while
\* they are not, those still being verified may add to them and no others.
Throttled ==
    attempt.failures > 0 =>
        /\ attempt.first <= now
        /\ attempt.until <= now => attempt.failures <= Bound(now - attempt.first)
        /\ attempt.until > now =>
              attempt.failures + Cardinality(Verifiers) <= Bound(now - attempt.first + 1)

LEMMA BoundGrows ==
    ASSUME NEW k \in Nat
    PROVE  /\ Cardinality(Clients) \in Nat
           /\ Bound(k) \in Nat /\ Threshold - 1 <= Bound(k)
           /\ Bound(k + 1) = Bound(k) + Cardinality(Clients)
<1>1. Cardinality(Clients) \in Nat
    BY AccessAssumption, FS_CardinalityType
<1>2. \A n, m \in Nat : n * m \in Nat /\ n * (m + 1) = n * m + n
    OBVIOUS
<1> DEFINE C == Cardinality(Clients)
<1>3. C * k \in Nat /\ C * (k + 1) = C * k + C
    BY <1>1, <1>2
<1> HIDE DEF C
<1>4. Bound(k) = (Threshold - 1) + C * k /\ Bound(k + 1) = (Threshold - 1) + C * (k + 1)
    BY DEF Bound, C
<1>5. C \in Nat
    BY <1>1 DEF C
<1>6. Bound(k) \in Nat /\ Threshold - 1 <= Bound(k) /\ Bound(k + 1) = Bound(k) + C
    BY <1>3, <1>4, <1>5, AccessAssumption
<1> QED  BY <1>1, <1>6 DEF C

LEMMA FewVerifiers ==
    /\ IsFiniteSet(Verifiers)
    /\ Cardinality(Verifiers) \in Nat
    /\ Cardinality(Verifiers) <= Cardinality(Clients)
<1>1. Verifiers \subseteq Clients
    BY DEF Verifiers
<1> QED  BY <1>1, AccessAssumption, FS_Subset, FS_CardinalityType

\* Without a new verifier, failure or tick nothing is changed for the worse.
LEMMA StaysThrottled ==
    ASSUME Inv, Throttled, UNCHANGED <<attempt, now>>,
           attempt.until > now => Verifiers' \subseteq Verifiers
    PROVE  Throttled'
<1>1. attempt.failures \in Nat /\ attempt.until \in Nat /\ attempt.first \in Nat /\ now \in Nat
    BY AccessAssumption DEF Inv, AccessTypeOK, Attempt
<1>2. attempt.until > now => /\ Cardinality(Verifiers') \in Nat
                             /\ Cardinality(Verifiers') <= Cardinality(Verifiers)
    BY FewVerifiers, FS_Subset, FS_CardinalityType
<1>3. Cardinality(Verifiers) \in Nat
    BY FewVerifiers
<1>4. attempt.first <= now => Bound(now - attempt.first + 1) \in Nat
    BY <1>1, BoundGrows
<1> QED  BY <1>1, <1>2, <1>3, <1>4 DEF Throttled, Bound

LEMMA ThrottledStep ==
    ASSUME Inv, Throttled, [Next]_vars
    PROVE  Throttled'
<1> USE DEF Inv
<1>0. /\ request \in [Clients -> Request]
      /\ attempt.failures \in Nat /\ attempt.until \in Nat /\ attempt.first \in Nat
      /\ now \in Nat
    BY AccessAssumption DEF AccessTypeOK, Attempt
<1>1. ASSUME NEW c \in Clients, NEW r, r \notin Verifying, request' = [request EXCEPT ![c] = r]
      PROVE  Verifiers' \subseteq Verifiers
    BY <1>0, <1>1 DEF Verifiers
<1>2. ASSUME NEW c \in Clients, NEW p \in Secrets, LoginStart(c, p) PROVE Throttled'
  <2>1. UNCHANGED <<attempt, now>>
      BY <1>2 DEF LoginStart
  <2>2. PICK gone : request' = [d \in Clients |->
                  IF d # c THEN Orphaned(request[d], gone)
                  ELSE IF Allowed THEN [op |-> "login", step |-> "verify", given |-> p]
                  ELSE Idle]
      BY <1>2 DEF LoginStart
  <2>3. ASSUME attempt.until > now, NEW d \in Clients, request'[d] \in Verifying
        PROVE  request[d] \in Verifying
    <3>1. ~Allowed
        BY <1>0, <2>3 DEF Allowed
    <3>2. d # c
        BY <2>2, <2>3, <3>1 DEF Idle, Verifying
    <3>3. request'[d] = Orphaned(request[d], gone)
        BY <2>2, <3>2
    <3>4. request[d] \notin SessionRequest
        BY <1>0, <2>3, <3>3, OrphanedTyped DEF Verifying, SessionRequest
    <3> QED  BY <1>0, <2>3, <3>3, <3>4, OrphanedTyped
  <2>4. attempt.until > now => Verifiers' \subseteq Verifiers
      BY <2>3 DEF Verifiers
  <2> QED  BY <2>1, <2>4, StaysThrottled
<1>3. ASSUME NEW c \in Clients, LoginVerify(c), Success PROVE Throttled'
    BY <1>3 DEF Success, NoAttempt, Throttled
<1>4. ASSUME NEW c \in Clients, LoginVerify(c), Failure, Done(c) PROVE Throttled'
  <2> DEFINE forgotten == now - attempt.last > ResetAfter
             n == (IF forgotten THEN 0 ELSE attempt.failures) + 1
             C == Cardinality(Clients)
             before == Cardinality(Verifiers)
             after == Cardinality(Verifiers')
  <2>1. attempt' = [failures |-> n,
                    until |-> IF n >= Threshold THEN now + Delay(n) ELSE attempt.until,
                    last |-> now,
                    first |-> IF n = 1 THEN now ELSE attempt.first]
      BY <1>4 DEF Failure
  <2>2. n \in Nat /\ (n = 1 \/ (n = attempt.failures + 1 /\ attempt.failures > 0))
      BY <1>0
  <2>3. UNCHANGED now
      BY <1>4 DEF LoginVerify
  <2>4. C \in Nat /\ before \in Nat /\ before <= C
      BY FewVerifiers, AccessAssumption, FS_CardinalityType
  <2>5. before = after + 1 /\ after \in Nat
    <3>1. request[c] \in Verifying /\ c \in Verifiers
        BY <1>4, RequestShapes DEF LoginVerify, AccessTypeOK, Verifiers
    <3>2. Verifiers' = Verifiers \ {c}
        BY <1>0, <1>4, ShapesApart DEF Done, Verifiers, Idle, Verifying
    <3>3. /\ Cardinality(Verifiers \ {c}) = Cardinality(Verifiers) - 1
          /\ Cardinality(Verifiers \ {c}) \in Nat
        BY <3>1, FewVerifiers, FS_RemoveElement, FS_CardinalityType
    <3>4. Cardinality(Verifiers) \in Nat
        BY FewVerifiers
    <3> QED  BY <3>2, <3>3, <3>4
  <2> HIDE DEF n, C, before, after
  <2>6. n >= Threshold => Delay(n) \in Nat /\ Delay(n) >= 1
      BY <2>2, AccessAssumption DEF Delay, Lower
  <2>9. attempt'.until <= now => n < Threshold
    <3>1. attempt'.until = IF n >= Threshold THEN now + Delay(n) ELSE attempt.until
        BY <2>1
    <3>2. CASE n >= Threshold
        BY <1>0, <2>6, <3>1, <3>2
    <3>3. CASE n < Threshold
        BY <3>3
    <3> QED  BY <2>2, <3>2, <3>3, AccessAssumption
  <2>7. CASE n = 1
    <3>1. attempt'.failures = 1 /\ attempt'.first = now
        BY <2>1, <2>7
    <3>2. Bound(0) \in Nat /\ Bound(0) >= Threshold - 1 /\ Bound(0 + 1) = Bound(0) + C
        BY BoundGrows DEF C
    <3>3. now - now = 0 /\ now - now + 1 = 0 + 1
        BY <1>0
    <3>5. attempt'.until <= now => 1 <= Bound(now - now)
        BY <2>7, <2>9, <3>2, <3>3, AccessAssumption
    <3>6. 1 + after <= Bound(now - now + 1)
        BY <2>4, <2>5, <3>2, <3>3
    <3> QED  BY <1>0, <2>3, <3>1, <3>5, <3>6 DEF Throttled, Bound, after
  <2>8. CASE n = attempt.failures + 1 /\ attempt.failures > 0
    <3> DEFINE k == now - attempt.first
    <3>1. k \in Nat
        BY <1>0, <2>8 DEF Throttled
    <3>2. attempt'.failures = n /\ attempt'.first = attempt.first
        BY <1>0, <2>1, <2>8
    <3>3. Bound(k) \in Nat /\ Bound(k) >= Threshold - 1 /\ Bound(k + 1) = Bound(k) + C
        BY <3>1, BoundGrows DEF C
    <3>5. attempt'.until <= now => n <= Bound(k)
        BY <2>2, <2>9, <3>3, AccessAssumption
    <3>6. n + after <= Bound(k + 1)
      <4>1. CASE attempt.until <= now
        <5>1. attempt.failures <= Bound(k)
            BY <2>8, <4>1 DEF Throttled
        <5> QED  BY <1>0, <2>4, <2>5, <2>8, <3>3, <5>1
      <4>2. CASE attempt.until > now
        <5>1. attempt.failures + before <= Bound(k + 1)
            BY <2>8, <4>2 DEF Throttled, before
        <5> QED  BY <1>0, <2>4, <2>5, <2>8, <3>3, <5>1
      <4> QED  BY <1>0, <4>1, <4>2
    <3>7. attempt.first <= now
        BY <2>8 DEF Throttled
    <3> QED  BY <2>3, <3>2, <3>5, <3>6, <3>7 DEF Throttled, Bound, after
  <2> QED  BY <2>2, <2>7, <2>8
<1>5. CASE Tick
  <2>1. attempt' = attempt /\ now' = now + 1 /\ Verifiers' = Verifiers
      BY <1>5 DEF Tick, Verifiers
  <2> SUFFICES ASSUME attempt.failures > 0
               PROVE  /\ attempt.first <= now + 1
                      /\ attempt.until <= now + 1 => attempt.failures <= Bound(now + 1 - attempt.first)
                      /\ attempt.until > now + 1 =>
                            attempt.failures + Cardinality(Verifiers) <= Bound(now + 1 - attempt.first + 1)
    <3>1. Cardinality(Verifiers)' = Cardinality(Verifiers)
        BY <2>1
    <3>2. /\ Bound(now - attempt.first)' = Bound(now + 1 - attempt.first)
          /\ Bound(now - attempt.first + 1)' = Bound(now + 1 - attempt.first + 1)
      <4>1. (now - attempt.first)' = now + 1 - attempt.first
          BY <1>0, <2>1
      <4>2. (now - attempt.first + 1)' = now + 1 - attempt.first + 1
          BY <4>1
      <4> QED  BY <4>1, <4>2 DEF Bound
    <3> QED  BY <2>1, <3>1, <3>2 DEF Throttled
  <2> DEFINE k == now - attempt.first
             C == Cardinality(Clients)
  <2>2. k \in Nat /\ k + 1 \in Nat /\ now + 1 - attempt.first = k + 1
      BY <1>0 DEF Throttled
  <2>3. /\ C \in Nat /\ Bound(k) \in Nat /\ Bound(k + 1) \in Nat
        /\ Bound(k + 1) = Bound(k) + C /\ Bound(k + 1 + 1) = Bound(k + 1) + C
      BY <2>2, BoundGrows
  <2>4. Cardinality(Verifiers) \in Nat
      BY FewVerifiers
  <2>5. /\ attempt.until <= now => attempt.failures <= Bound(k)
        /\ attempt.until > now => attempt.failures + Cardinality(Verifiers) <= Bound(k + 1)
      BY DEF Throttled
  <2> HIDE DEF k, C
  <2>6. /\ attempt.until <= now + 1 => attempt.failures <= Bound(k + 1)
        /\ attempt.until > now + 1 =>
              attempt.failures + Cardinality(Verifiers) <= Bound(k + 1 + 1)
      BY <1>0, <2>2, <2>3, <2>4, <2>5
  <2>7. attempt.first <= now + 1
      BY <1>0 DEF Throttled
  <2> QED  BY <2>2, <2>6, <2>7
<1>6. ASSUME NEW c \in Clients, LoginVerify(c) PROVE Throttled'
  <2>1. \/ Success
        \/ Failure /\ Done(c)
      BY <1>6 DEF LoginVerify
  <2> QED  BY <1>3, <1>4, <1>6, <2>1
<1>7. ASSUME NEW c \in Clients, NEW r, r \notin Verifying, request' = [request EXCEPT ![c] = r],
             UNCHANGED <<attempt, now>>
      PROVE  Throttled'
    BY <1>1, <1>7, StaysThrottled
<1>8. ASSUME NEW c \in Clients, Done(c), UNCHANGED <<attempt, now>> PROVE Throttled'
  <2>1. Idle \notin Verifying
      BY DEF Idle, Verifying
  <2> QED  BY <1>7, <1>8, <2>1 DEF Done
<1>9. ASSUME NEW c \in Clients, NEW p \in Secrets, SetupCheck(c, p) PROVE Throttled'
  <2>1. [op |-> "setup", given |-> p] \notin Verifying
      BY DEF Verifying
  <2> QED  BY <1>7, <1>9, <2>1 DEF SetupCheck, Accept
<1>10. ASSUME NEW c \in Clients, LoginRehash(c) PROVE Throttled'
  <2>1. request[c] \in LoggingIn
      BY <1>10, RequestShapes DEF LoginRehash, AccessTypeOK
  <2>2. [request[c] EXCEPT !.step = "create"] \notin Verifying
      BY <2>1 DEF LoggingIn, Verifying
  <2> QED  BY <1>7, <1>10, <2>2 DEF LoginRehash, Continue
<1>11. ASSUME NEW c \in Clients, NEW s \in SessionIds, NEW op \in {"logout", "revoke-others"},
              LogoutStart(c, s, op)
       PROVE  Throttled'
  <2>1. [op |-> op, session |-> s, orphan |-> FALSE] \notin Verifying
      BY DEF Verifying
  <2> QED  BY <1>7, <1>11, <2>1 DEF LogoutStart, Authorized, Accept
<1>12. ASSUME NEW c \in Clients, NEW s \in SessionIds, NEW p \in Secrets, NEW q \in Secrets,
              ChangeStart(c, s, p, q)
       PROVE  Throttled'
  <2>1. [op |-> "change", step |-> "verify", session |-> s, given |-> p, new |-> q,
         version |-> credential.version, orphan |-> FALSE] \notin Verifying
      BY DEF Verifying
  <2> QED  BY <1>7, <1>12, <2>1 DEF ChangeStart, Authorized, Accept
<1>13. ASSUME NEW c \in Clients, ChangeVerify(c) PROVE Throttled'
  <2>1. request[c] \in Changing
      BY <1>13, RequestShapes DEF ChangeVerify, AccessTypeOK
  <2>2. [request[c] EXCEPT !.step = "write"] \notin Verifying
      BY <2>1 DEF Changing, Verifying
  <2> QED  BY <1>7, <1>8, <1>13, <2>2 DEF ChangeVerify, Continue
<1>14. CASE UNCHANGED <<request, attempt, now>>
    BY <1>14, StaysThrottled DEF Verifiers
<1> QED
    BY <1>2, <1>5, <1>6, <1>8, <1>9, <1>10, <1>11, <1>12, <1>13, <1>14
    DEF Next, vars, SetupInsert, LoginFails, LoginCreate, Logout, RevokeOthers, ChangeWrite,
        ResetPassword, Expire

\* Once the free failures are used up, no more of them come in a unit of time than
\* there are clients: those let in together before the block (limiter.go:26, 33).
THEOREM GuessesThrottled == Spec => []GuessesAreThrottled
<1>1. Init => Throttled
    BY DEF Init, NoAttempt, Throttled
<1>2. Inv /\ Throttled => GuessesAreThrottled
  <2> SUFFICES ASSUME Inv, Throttled, attempt.failures > 0
               PROVE  attempt.failures <= (Threshold - 1) + Cardinality(Clients) * (now - attempt.first + 1)
      BY DEF GuessesAreThrottled
  <2>1. /\ attempt.failures \in Nat /\ attempt.until \in Nat /\ attempt.first \in Nat
        /\ now \in Nat
      BY AccessAssumption DEF Inv, AccessTypeOK, Attempt
  <2> DEFINE k == now - attempt.first
  <2>2. k \in Nat
      BY <2>1 DEF Throttled
  <2>3. /\ Cardinality(Clients) \in Nat /\ Bound(k) \in Nat
        /\ Bound(k + 1) = Bound(k) + Cardinality(Clients)
      BY <2>2, BoundGrows
  <2>4. Cardinality(Verifiers) \in Nat
      BY FewVerifiers
  <2>5. /\ attempt.until <= now => attempt.failures <= Bound(k)
        /\ attempt.until > now => attempt.failures + Cardinality(Verifiers) <= Bound(k + 1)
      BY DEF Throttled
  <2>6. attempt.failures <= Bound(k + 1)
    <3> HIDE DEF k
    <3> QED  BY <2>1, <2>3, <2>4, <2>5
  <2> QED  BY <2>6 DEF Bound
<1>3. Inv /\ Throttled /\ [Next]_vars => Throttled'
    BY ThrottledStep
<1> QED  BY Invariance, <1>1, <1>2, <1>3, PTL DEF Spec

=============================================================================
