-------------------------- MODULE DatabaseGateProofs ------------------------
(***************************************************************************)
(* For every number of clients, sessions and uploads, and any failures:    *)
(* the state is well typed, no request sees the database replaced under    *)
(* it, no restore loses the original, and to everybody else a restore      *)
(* happens at once or not at all, as DatabaseVault promises.               *)
(***************************************************************************)
EXTENDS DatabaseGate, TLAPS

(* What a request holds in each phase *)

LEMMA IdleTyped == Idle \in Request /\ Idle.phase = "idle"
BY DEF Request, Idle

LEMMA OrdinaryTyped ==
    ASSUME NEW q \in Request, q.phase \in {"authorize", "serve", "leave"}
    PROVE  /\ q.op \in Operations
           /\ q.session \in Sessions
           /\ q.phase # "authorize" => [q EXCEPT !.phase = "leave"] \in Request
                                       /\ [q EXCEPT !.phase = "leave"].book = q.book
                                       /\ [q EXCEPT !.phase = "leave"].phase = "leave"
<1>1. CASE q \in [phase : {"authorize"}, op : Operations, session : Sessions]
    BY <1>1
<1>2. CASE q \in [phase : {"serve", "leave"}, op : Operations, session : Sessions, book : Books]
    BY <1>2 DEF Request
<1> QED  BY <1>1, <1>2 DEF Request, Idle, Waiting, Replacing

LEMMA WaitingTyped ==
    ASSUME NEW q \in Request, q.phase \in {"admit"} \cup Waiting,
           NEW p \in {"admit"} \cup Waiting, NEW b \in Database
    PROVE  /\ q.session \in Sessions
           /\ q.backup \in Database
           /\ [q EXCEPT !.phase = p] \in Request
           /\ [q EXCEPT !.phase = p].phase = p
           /\ [q EXCEPT !.phase = p].backup = q.backup
           /\ [q EXCEPT !.phase = p, !.backup = b] \in Request
           /\ [q EXCEPT !.phase = p, !.backup = b].phase = p
           /\ [q EXCEPT !.phase = p, !.backup = b].backup = b
<1>1. q \in [phase : {"admit"} \cup Waiting, session : Sessions, backup : Database]
    BY DEF Request, Idle, Waiting, Replacing
<1> QED  BY <1>1 DEF Request

LEMMA ReplacingTyped ==
    ASSUME NEW q \in Request, q.phase \in Replacing, NEW p \in Replacing
    PROVE  /\ q.session \in Sessions
           /\ q.backup \in Database
           /\ q.rollback \in Database
           /\ [q EXCEPT !.phase = p] \in Request
           /\ [q EXCEPT !.phase = p].phase = p
           /\ [q EXCEPT !.phase = p].backup = q.backup
           /\ [q EXCEPT !.phase = p].rollback = q.rollback
<1>1. q \in [phase : Replacing, session : Sessions, backup : Database, rollback : Database]
    BY DEF Request, Idle, Waiting, Replacing
<1> QED  BY <1>1 DEF Request

LEMMA PreparedTyped ==
    ASSUME NEW b \in Database, b.schema \in {"older", "current"}
    PROVE  /\ Prepared(b) \in Database
           /\ Prepared(b).schema = "current"
           /\ Prepared(b).sessions = {}
           /\ Prepared(b).book = b.book
           /\ Prepared(b).entry = b.entry
BY DEF Prepared, Migrated, Database, Schemas

LEMMA MigratedTyped ==
    ASSUME NEW b \in Database
    PROVE  Migrated(b) \in Database /\ (b.schema = "current" => Migrated(b) = b)
BY DEF Migrated, Database, Schemas

-----------------------------------------------------------------------------
(* The invariant: what the gate and the database are to each request *)

Exclusive == {"locked", "snapshot"} \cup Replacing

Suits(c, q, g, l) ==
    /\ q.phase \in {"serve", "leave"} => c \in g.readers /\ q.book = l.book
    /\ q.phase \in Exclusive => g.readers = {}
    /\ q.phase \in Exclusive \cup {"announced"} => g.writer = c
    /\ q.phase \in Exclusive \cup {"await", "announced"} =>
           q.backup.schema = "current" /\ q.backup.sessions = {}
    /\ q.phase \in {"copy", "recheck"} => l = q.rollback
    /\ q.phase = "check" => l = q.backup
    /\ q.phase \in Replacing => q.rollback.schema = "current"

Inv ==
    /\ TypeOK
    /\ \A c \in Clients : Suits(c, request[c], gate, live)
    /\ live.schema = "current"
    /\ NothingLost

\* What the requests of the others make of a change of the gate or the database.

LEMMA OthersRLock ==
    ASSUME TypeOK, NEW c \in Clients, RLock(c), NEW d \in Clients, d # c,
           Suits(d, request[d], gate, live)
    PROVE  Suits(d, request[d], gate', live)
BY DatabaseGateAssumption DEF RLock, Suits, TypeOK, Gate, Exclusive, Replacing

LEMMA OthersRUnlock ==
    ASSUME TypeOK, NEW c \in Clients, RUnlock(c), NEW d \in Clients, d # c,
           Suits(d, request[d], gate, live)
    PROVE  Suits(d, request[d], gate', live)
BY DEF RUnlock, Suits, TypeOK, Gate, Exclusive, Replacing

\* While c is alone, no other request is being served or replaces anything.
LEMMA Alone ==
    ASSUME NEW c, gate.readers = {}, gate.writer = c, NEW d \in Clients, d # c,
           Suits(d, request[d], gate, live)
    PROVE  request[d].phase \notin {"serve", "leave", "announced"} \cup Exclusive
BY DEF Suits

LEMMA OthersWhenAlone ==
    ASSUME NEW c, gate.readers = {}, gate.writer = c, NEW d \in Clients, d # c,
           Suits(d, request[d], gate, live), NEW g, NEW l
    PROVE  Suits(d, request[d], g, l)
BY Alone DEF Suits, Exclusive, Replacing

\* The gate stays well typed.
LEMMA GateTyped ==
    ASSUME TypeOK, NEW c \in Clients, RLock(c) \/ RUnlock(c) \/ Unlock(c)
    PROVE  gate' \in Gate
BY DEF TypeOK, Gate, RLock, RUnlock, Unlock

LEMMA GotoTyped ==
    ASSUME TypeOK, NEW c \in Clients, NEW q \in Request, Goto(c, q)
    PROVE  /\ request' \in [Clients -> Request]
           /\ request'[c] = q
           /\ \A d \in Clients : d # c => request'[d] = request[d]
BY DEF TypeOK, Goto

LEMMA FaultsTyped ==
    ASSUME TypeOK, NEW c \in Clients, Works(c) \/ Fails(c) \/ UNCHANGED faults
    PROVE  faults' \in 0..MaxFaults
BY DatabaseGateAssumption DEF TypeOK, Works, Fails

\* A request that has nothing to hold on to suits any gate and database.
LEMMA IdleSuits ==
    ASSUME NEW c, NEW q, q.phase \in {"idle", "authorize", "admit", "prepare"}, NEW g, NEW l
    PROVE  Suits(c, q, g, l)
BY DEF Suits, Exclusive, Replacing

LEMMA NothingLostUnchanged ==
    ASSUME NothingLost, outcome' \in {outcome, Idle}, kept \subseteq kept'
    PROVE  NothingLost'
BY DEF NothingLost

\* It is enough to know how the request of c goes on and that the others still
\* suit.
LEMMA OneClient ==
    ASSUME TypeOK, NEW c \in Clients, NEW q \in Request, Goto(c, q),
           live' \in Database, gate' \in Gate, gone' \subseteq Clients, kept' \subseteq Database,
           faults' \in 0..MaxFaults, outcome' \in Outcome,
           live'.schema = "current",
           Suits(c, q, gate', live'),
           \A d \in Clients : d # c => Suits(d, request[d], gate', live'),
           NothingLost'
    PROVE  Inv'
<1>1. \A d \in Clients : Suits(d, request'[d], gate', live')
    BY GotoTyped
<1> QED  BY <1>1, GotoTyped DEF Inv, TypeOK, Suits

-----------------------------------------------------------------------------
(* Every action keeps the invariant *)

LEMMA InitInv == Init => Inv
<1> SUFFICES ASSUME Init PROVE Inv
    OBVIOUS
<1>1. live \in Database /\ live.schema = "current"
    BY DatabaseGateAssumption DEF Init, Database, Schemas
<1>2. TypeOK
    BY <1>1, IdleTyped, DatabaseGateAssumption DEF Init, TypeOK, Gate, Outcome
<1>3. ASSUME NEW c \in Clients PROVE Suits(c, request[c], gate, live)
  <2>1. request[c] = Idle
      BY DEF Init
  <2> QED  BY <2>1, IdleTyped, IdleSuits
<1>4. NothingLost
    BY DEF Init, NothingLost
<1> QED  BY <1>1, <1>2, <1>3, <1>4 DEF Inv

LEMMA ArriveInv ==
    ASSUME Inv, NEW c \in Clients, NEW s \in Sessions,
           \/ \E op \in Operations : Arrive(c, op, s)
           \/ \E backup \in Uploads : ArriveRestore(c, backup, s)
    PROVE  Inv'
<1>0. TypeOK /\ RLock(c) /\ outcome' = Idle /\ UNCHANGED <<live, gone, kept, faults>>
    BY DEF Inv, Arrive, ArriveRestore
<1>1. PICK q \in Request : Goto(c, q) /\ q.phase \in {"authorize", "admit"}
  <2>1. ASSUME NEW op \in Operations, Arrive(c, op, s)
        PROVE  \E q \in Request : Goto(c, q) /\ q.phase \in {"authorize", "admit"}
    <3>1. [phase |-> "authorize", op |-> op, session |-> s] \in Request
        BY DEF Request
    <3> QED  BY <2>1, <3>1 DEF Arrive
  <2>2. ASSUME NEW backup \in Uploads, ArriveRestore(c, backup, s)
        PROVE  \E q \in Request : Goto(c, q) /\ q.phase \in {"authorize", "admit"}
    <3>1. [phase |-> "admit", session |-> s, backup |-> backup] \in Request
        BY DatabaseGateAssumption DEF Request
    <3> QED  BY <2>2, <3>1 DEF ArriveRestore
  <2> QED  BY <2>1, <2>2
<1>2. \A d \in Clients : d # c => Suits(d, request[d], gate', live')
    BY <1>0, OthersRLock DEF Inv
<1>3. Suits(c, q, gate', live')
    BY <1>1, IdleSuits
<1>4. NothingLost' /\ live'.schema = "current" /\ gate' \in Gate /\ outcome' \in Outcome
    BY <1>0, NothingLostUnchanged, GateTyped DEF Inv, Outcome
<1> QED  BY <1>0, <1>1, <1>2, <1>3, <1>4, OneClient DEF TypeOK

\* c leaves the gate, or is turned away.
LEMMA LeaveInv ==
    ASSUME Inv, NEW c \in Clients, RUnlock(c), NEW q \in Request, Goto(c, q),
           q.phase \in {"idle", "prepare"},
           gone' \subseteq Clients, UNCHANGED <<live, kept, faults, outcome>>
    PROVE  Inv'
<1>1. \A d \in Clients : d # c => Suits(d, request[d], gate', live')
    BY OthersRUnlock DEF Inv
<1>2. Suits(c, q, gate', live')
    BY IdleSuits
<1>3. NothingLost' /\ live'.schema = "current" /\ gate' \in Gate
    BY NothingLostUnchanged, GateTyped DEF Inv
<1> QED  BY <1>1, <1>2, <1>3, OneClient DEF Inv, TypeOK

LEMMA AuthorizeInv ==
    ASSUME Inv, NEW c \in Clients, Authorize(c) PROVE Inv'
<1>0. TypeOK /\ UNCHANGED <<live, gone, kept, faults, outcome>> /\ c \in gate.readers
    BY DEF Inv, Authorize
<1>1. CASE Goto(c, Idle) /\ RUnlock(c)
    BY <1>0, <1>1, IdleTyped, LeaveInv DEF TypeOK
<1>2. CASE gate' = gate
  <2> DEFINE q == [phase |-> "serve", op |-> request[c].op, session |-> request[c].session,
                   book |-> live.book]
  <2>1. request[c].op \in Operations /\ request[c].session \in Sessions
      BY <1>0, OrdinaryTyped DEF Authorize, TypeOK
  <2>2. q \in Request /\ Suits(c, q, gate, live)
      BY <1>0, <2>1 DEF Request, TypeOK, Database, Suits, Exclusive, Replacing
  <2>3. Goto(c, q) \/ (Goto(c, Idle) /\ RUnlock(c))
      BY DEF Authorize
  <2> HIDE DEF q
  <2>4. NothingLost' /\ live'.schema = "current"
      BY <1>0, NothingLostUnchanged DEF Inv
  <2> QED  BY <1>0, <1>1, <1>2, <2>2, <2>3, <2>4, OneClient DEF Inv, TypeOK
<1> QED  BY <1>1, <1>2 DEF Authorize

\* What is served changes entries and sessions only.
LEMMA ServeInv ==
    ASSUME Inv, NEW c \in Clients, Serve(c) PROVE Inv'
<1> DEFINE q == [request[c] EXCEPT !.phase = "leave"]
<1>0. /\ TypeOK
      /\ UNCHANGED <<gate, gone, kept, faults, outcome>>
      /\ request[c].phase = "serve"
      /\ Goto(c, q)
    BY DEF Inv, Serve
<1>1. request[c].op \in Operations /\ request[c].session \in Sessions
      /\ q \in Request /\ q.book = request[c].book /\ q.phase = "leave"
    BY <1>0, OrdinaryTyped DEF TypeOK
<1>2. live' \in Database /\ live'.book = live.book /\ live'.schema = live.schema
  <2>1. CASE request[c].op = "read"
      BY <1>0, <2>1 DEF Serve, TypeOK
  <2>2. CASE request[c].op = "edit"
      BY <1>0, <2>2 DEF Serve, TypeOK, Database
  <2>3. CASE request[c].op = "login"
    <3>1. live' = [live EXCEPT !.sessions = @ \cup {request[c].session}]
        BY <2>3 DEF Serve
    <3> QED  BY <1>0, <1>1, <3>1 DEF TypeOK, Database
  <2>4. CASE request[c].op = "logout"
    <3>1. live' = [live EXCEPT !.sessions = @ \ {request[c].session}]
        BY <2>4 DEF Serve
    <3> QED  BY <1>0, <1>1, <3>1 DEF TypeOK, Database
  <2> QED  BY <1>1, <2>1, <2>2, <2>3, <2>4 DEF Operations
<1>3. c \in gate.readers /\ request[c].book = live.book
    BY <1>0 DEF Inv, Suits
<1> HIDE DEF q
<1>4. Suits(c, q, gate', live')
    BY <1>0, <1>1, <1>2, <1>3 DEF Suits, Exclusive, Replacing
<1>5. ASSUME NEW d \in Clients, d # c PROVE Suits(d, request[d], gate', live')
  <2>1. Suits(d, request[d], gate, live)
      BY DEF Inv
  <2>2. request[d].phase \notin Exclusive
      BY <1>3, <2>1 DEF Suits
  <2> QED  BY <1>0, <1>2, <2>1, <2>2 DEF Suits, Exclusive, Replacing
<1>6. NothingLost' /\ live'.schema = "current"
    BY <1>0, <1>2, NothingLostUnchanged DEF Inv
<1> QED  BY <1>0, <1>1, <1>2, <1>4, <1>5, <1>6, OneClient DEF TypeOK

LEMMA AdmitInv ==
    ASSUME Inv, NEW c \in Clients, Leave(c) \/ Admit(c) PROVE Inv'
<1>0. TypeOK
    BY DEF Inv
<1>1. CASE Leave(c)
    BY <1>0, <1>1, IdleTyped, LeaveInv DEF Leave, TypeOK
<1>2. CASE Admit(c)
  <2> DEFINE q == IF request[c].session \in live.sessions /\ c \notin gone
                  THEN [request[c] EXCEPT !.phase = "prepare"] ELSE Idle
  <2>1. q \in Request /\ q.phase \in {"idle", "prepare"}
    <3>1. request[c] \in Request /\ request[c].phase = "admit" /\ live \in Database
        BY <1>0, <1>2 DEF Admit, TypeOK
    <3>2. [request[c] EXCEPT !.phase = "prepare"] \in Request
          /\ [request[c] EXCEPT !.phase = "prepare"].phase = "prepare"
        BY <3>1, WaitingTyped, ZenonT(60) DEF Waiting
    <3> QED  BY <3>2, IdleTyped
  <2>2. Goto(c, q) /\ RUnlock(c) /\ UNCHANGED <<live, kept, faults, outcome>>
      BY <1>2 DEF Admit
  <2>3. gone' \subseteq Clients
      BY <1>0, <1>2 DEF Admit, TypeOK
  <2> HIDE DEF q
  <2> QED  BY <2>1, <2>2, <2>3, LeaveInv
<1> QED  BY <1>1, <1>2

\* A step before the gate is closed: neither gate nor database changes.
LEMMA OutsideInv ==
    ASSUME Inv, NEW c \in Clients, NEW q \in Request, Goto(c, q), Suits(c, q, gate, live),
           gone' \subseteq Clients, faults' \in 0..MaxFaults,
           UNCHANGED <<live, gate, kept, outcome>>
    PROVE  Inv'
<1>1. \A d \in Clients : d # c => Suits(d, request[d], gate', live')
    BY DEF Inv
<1>2. NothingLost' /\ live'.schema = "current" /\ Suits(c, q, gate', live')
    BY NothingLostUnchanged DEF Inv
<1> QED  BY <1>1, <1>2, OneClient DEF Inv, TypeOK

LEMMA PreparedRequestTyped ==
    ASSUME NEW q \in Request, q.phase = "prepare", NEW b \in Database
    PROVE  /\ [q EXCEPT !.phase = "await", !.backup = b] \in Request
           /\ [q EXCEPT !.phase = "await", !.backup = b].phase = "await"
           /\ [q EXCEPT !.phase = "await", !.backup = b].backup = b
<1>1. q \in [phase : {"admit"} \cup Waiting, session : Sessions, backup : Database]
    BY DEF Request, Idle, Waiting, Replacing
<1>2. "await" \in {"admit"} \cup Waiting
    BY DEF Waiting
<1> QED  BY <1>1, <1>2 DEF Request

LEMMA PrepareInv ==
    ASSUME Inv, NEW c \in Clients, Prepare(c) PROVE Inv'
<1>0. TypeOK /\ UNCHANGED <<live, gate, kept, outcome>>
      /\ request[c] \in Request /\ request[c].phase = "prepare" /\ request[c].backup \in Database
    BY WaitingTyped DEF Inv, Prepare, TypeOK, Waiting
<1>1. CASE GiveUp(c)
  <2>1. faults' \in 0..MaxFaults
      BY <1>0, FaultsTyped DEF Prepare
  <2>2. Suits(c, Idle, gate, live)
      BY IdleTyped, IdleSuits
  <2> QED  BY <1>0, <1>1, <2>1, <2>2, IdleTyped, OutsideInv DEF GiveUp, TypeOK
<1>2. CASE ~GiveUp(c)
  <2> DEFINE q == [request[c] EXCEPT !.phase = "await", !.backup = Prepared(request[c].backup)]
  <2>1. /\ request[c].backup.schema \in {"older", "current"}
        /\ Works(c)
        /\ Goto(c, q)
        /\ gone' = gone
      BY <1>2 DEF Prepare
  <2>2. /\ Prepared(request[c].backup) \in Database
        /\ Prepared(request[c].backup).schema = "current"
        /\ Prepared(request[c].backup).sessions = {}
      BY <1>0, <2>1, PreparedTyped
  <2>3. q \in Request /\ q.phase = "await" /\ q.backup = Prepared(request[c].backup)
    <3> HIDE DEF q
    <3> DEFINE b == Prepared(request[c].backup)
    <3>1. b \in Database
        BY <2>2
    <3> HIDE DEF b
    <3>2. [request[c] EXCEPT !.phase = "await", !.backup = b] \in Request
        BY <1>0, <3>1, PreparedRequestTyped
    <3>3. /\ [request[c] EXCEPT !.phase = "await", !.backup = b].phase = "await"
          /\ [request[c] EXCEPT !.phase = "await", !.backup = b].backup = b
        BY <1>0, <3>1, PreparedRequestTyped
    <3> QED  BY <3>2, <3>3 DEF q, b
  <2> HIDE DEF q
  <2>4. Suits(c, q, gate, live)
      BY <2>2, <2>3 DEF Suits, Exclusive, Replacing
  <2> QED  BY <1>0, <2>1, <2>3, <2>4, FaultsTyped, OutsideInv DEF TypeOK
<1> QED  BY <1>1, <1>2

\* From here on only the phase of a waiting request moves.
LEMMA AwaitingTyped ==
    ASSUME Inv, NEW c \in Clients, request[c].phase \in Waiting, NEW p \in Waiting
    PROVE  /\ request[c].backup \in Database
           /\ request[c].session \in Sessions
           /\ [request[c] EXCEPT !.phase = p] \in Request
           /\ [request[c] EXCEPT !.phase = p].phase = p
           /\ [request[c] EXCEPT !.phase = p].backup = request[c].backup
BY WaitingTyped, ZenonT(60) DEF Inv, TypeOK

LEMMA AnnounceInv ==
    ASSUME Inv, NEW c \in Clients, Announce(c) PROVE Inv'
<1> DEFINE q == [request[c] EXCEPT !.phase = "announced"]
<1>0. /\ TypeOK /\ UNCHANGED <<live, gone, kept, faults, outcome>>
      /\ request[c].phase = "await" /\ gate.writer = Nobody
      /\ gate' = [gate EXCEPT !.writer = c]
      /\ Goto(c, q)
    BY DEF Inv, Announce
<1>1. q \in Request /\ q.phase = "announced" /\ q.backup = request[c].backup
    BY <1>0, AwaitingTyped DEF Waiting
<1>2. gate' \in Gate /\ gate'.writer = c /\ gate'.readers = gate.readers
    BY <1>0 DEF TypeOK, Gate
<1> HIDE DEF q
<1>3. Suits(c, q, gate', live')
    BY <1>0, <1>1, <1>2 DEF Inv, Suits, Exclusive, Replacing
<1>4. ASSUME NEW d \in Clients, d # c PROVE Suits(d, request[d], gate', live')
  <2>1. Suits(d, request[d], gate, live) /\ gate.writer # d
      BY <1>0, DatabaseGateAssumption DEF Inv
  <2> QED  BY <1>0, <1>2, <2>1 DEF Suits
<1>5. NothingLost' /\ live'.schema = "current"
    BY <1>0, NothingLostUnchanged DEF Inv
<1> QED  BY <1>0, <1>1, <1>2, <1>3, <1>4, <1>5, OneClient DEF TypeOK

LEMMA AcquireInv ==
    ASSUME Inv, NEW c \in Clients, Acquire(c) PROVE Inv'
<1> DEFINE q == [request[c] EXCEPT !.phase = "locked"]
<1>0. /\ TypeOK /\ UNCHANGED <<live, gate, gone, kept, faults, outcome>>
      /\ request[c].phase = "announced" /\ gate.readers = {}
      /\ Goto(c, q)
    BY DEF Inv, Acquire
<1>1. q \in Request /\ q.phase = "locked" /\ q.backup = request[c].backup
    BY <1>0, AwaitingTyped DEF Waiting
<1> HIDE DEF q
<1>2. Suits(c, q, gate, live)
    BY <1>0, <1>1 DEF Inv, Suits, Exclusive, Replacing
<1> QED  BY <1>0, <1>1, <1>2, OutsideInv DEF TypeOK

-----------------------------------------------------------------------------
(* With the gate closed *)

\* The request that closed the gate gives it back.
LEMMA EndInv ==
    ASSUME Inv, NEW c \in Clients, request[c].phase \in Exclusive, GiveUp(c), Unlock(c),
           faults' \in 0..MaxFaults, live' = live, kept \subseteq kept', kept' \subseteq Database,
           outcome' \in Outcome, NothingLost'
    PROVE  Inv'
<1>1. gate.readers = {} /\ gate.writer = c
    BY DEF Inv, Suits
<1>2. \A d \in Clients : d # c => Suits(d, request[d], gate', live')
    BY <1>1, OthersWhenAlone DEF Inv
<1>3. Suits(c, Idle, gate', live')
    BY IdleTyped, IdleSuits
<1>4. gate' \in Gate /\ live'.schema = "current" /\ gone' \subseteq Clients
    BY GateTyped DEF Inv, GiveUp, TypeOK
<1> QED  BY <1>2, <1>3, <1>4, IdleTyped, OneClient DEF Inv, TypeOK, GiveUp

\* It goes on with the gate closed.
LEMMA InsideInv ==
    ASSUME Inv, NEW c \in Clients, request[c].phase \in Exclusive,
           NEW q \in Request, Goto(c, q), q.phase \in Exclusive,
           live' \in Database, live'.schema = "current",
           q.backup = request[c].backup,
           q.phase \in {"copy", "recheck"} => live' = q.rollback,
           q.phase = "check" => live' = q.backup,
           q.phase \in Replacing => q.rollback.schema = "current",
           faults' \in 0..MaxFaults, UNCHANGED <<gate, gone, kept, outcome>>
    PROVE  Inv'
<1>1. gate.readers = {} /\ gate.writer = c
    BY DEF Inv, Suits
<1>2. \A d \in Clients : d # c => Suits(d, request[d], gate', live')
    BY <1>1, OthersWhenAlone DEF Inv
<1>3. Suits(c, q, gate', live')
    BY <1>1 DEF Inv, Suits, Exclusive, Replacing
<1>4. NothingLost'
    BY NothingLostUnchanged DEF Inv
<1> QED  BY <1>2, <1>3, <1>4, OneClient DEF Inv, TypeOK

\* It ends with an answer.
LEMMA AnswerInv ==
    ASSUME Inv, NEW c \in Clients, request[c].phase \in Exclusive,
           NEW result \in {"restored", "failed"}, NEW before \in Database,
           Answer(c, result, before),
           result = "restored" => live.sessions = {},
           result = "failed" => live = before \/ before \in kept',
           faults' \in 0..MaxFaults, live' = live, kept \subseteq kept', kept' \subseteq Database
    PROVE  Inv'
<1> DEFINE o == [result |-> result, connected |-> c \notin gone,
                 before |-> before, after |-> live]
<1>1. outcome' = o /\ GiveUp(c) /\ Unlock(c)
    BY DEF Answer
<1>2. o \in Outcome
    BY DEF Inv, TypeOK, Outcome
<1>3. NothingLost'
    BY <1>1 DEF NothingLost
<1> HIDE DEF o
<1> QED  BY <1>1, <1>2, <1>3, EndInv

LEMMA ReauthenticateInv ==
    ASSUME Inv, NEW c \in Clients, Reauthenticate(c) PROVE Inv'
<1>0. /\ TypeOK /\ UNCHANGED <<live, kept, outcome>> /\ request[c].phase = "locked"
      /\ faults' \in 0..MaxFaults
    BY FaultsTyped DEF Inv, Reauthenticate
<1>1. CASE GiveUp(c) /\ Unlock(c)
  <2>1. NothingLost' /\ outcome' \in Outcome /\ kept' \subseteq Database
      BY <1>0, NothingLostUnchanged DEF Inv, TypeOK
  <2> QED  BY <1>0, <1>1, <2>1, EndInv DEF Exclusive
<1>2. CASE ~(GiveUp(c) /\ Unlock(c))
  <2> DEFINE q == [request[c] EXCEPT !.phase = "snapshot"]
  <2>1. Goto(c, q) /\ UNCHANGED <<gate, gone>>
      BY <1>2 DEF Reauthenticate
  <2>2. q \in Request /\ q.phase = "snapshot" /\ q.backup = request[c].backup
      BY <1>0, AwaitingTyped DEF Waiting
  <2>3. live' \in Database /\ live'.schema = "current"
      BY <1>0 DEF Inv, TypeOK
  <2> HIDE DEF q
  <2> QED  BY <1>0, <2>1, <2>2, <2>3, InsideInv DEF Exclusive, Replacing
<1> QED  BY <1>1, <1>2

LEMMA SnapshotInv ==
    ASSUME Inv, NEW c \in Clients, Snapshot(c) PROVE Inv'
<1>0. /\ TypeOK /\ UNCHANGED <<live, kept>> /\ request[c].phase = "snapshot"
      /\ faults' \in 0..MaxFaults /\ live \in Database /\ live.schema = "current"
      /\ kept' \subseteq Database
    BY FaultsTyped DEF Inv, Snapshot, TypeOK
<1>1. CASE Answer(c, "failed", live)
    BY <1>0, <1>1, AnswerInv DEF Exclusive
<1>2. CASE ~Answer(c, "failed", live)
  <2> DEFINE q == [phase |-> "copy", session |-> request[c].session,
                   backup |-> request[c].backup, rollback |-> live]
  <2>1. Goto(c, q) /\ UNCHANGED <<gate, gone, outcome>>
      BY <1>2 DEF Snapshot
  <2>2. request[c].backup \in Database /\ request[c].session \in Sessions
      BY <1>0, AwaitingTyped DEF Waiting
  <2>3. q \in Request
      BY <1>0, <2>2 DEF Request, Replacing
  <2>4. q.phase = "copy" /\ q.backup = request[c].backup /\ q.rollback = live
      OBVIOUS
  <2> HIDE DEF q
  <2> QED  BY <1>0, <2>1, <2>3, <2>4, InsideInv DEF Exclusive, Replacing
<1> QED  BY <1>1, <1>2

\* What a request that replaces the database holds.
LEMMA ReplacingHolds ==
    ASSUME Inv, NEW c \in Clients, request[c].phase \in Replacing, NEW p \in Replacing
    PROVE  /\ request[c].phase \in Exclusive
           /\ p \in Exclusive
           /\ request[c].backup \in Database
           /\ request[c].backup.schema = "current" /\ request[c].backup.sessions = {}
           /\ request[c].rollback \in Database /\ request[c].rollback.schema = "current"
           /\ request[c].phase = "check" => live = request[c].backup
           /\ request[c].phase = "recheck" => live = request[c].rollback
           /\ [request[c] EXCEPT !.phase = p] \in Request
           /\ [request[c] EXCEPT !.phase = p].phase = p
           /\ [request[c] EXCEPT !.phase = p].backup = request[c].backup
           /\ [request[c] EXCEPT !.phase = p].rollback = request[c].rollback
<1>1. request[c] \in Request /\ Suits(c, request[c], gate, live)
    BY DEF Inv, TypeOK
<1> QED  BY <1>1, ReplacingTyped DEF Suits, Exclusive

LEMMA CopyInv ==
    ASSUME Inv, NEW c \in Clients, Copy(c) PROVE Inv'
<1>0. /\ TypeOK /\ UNCHANGED <<gate, gone, kept, outcome>> /\ request[c].phase = "copy"
      /\ faults' \in 0..MaxFaults /\ live \in Database /\ live.schema = "current"
      /\ request[c].phase \in Replacing
    BY FaultsTyped DEF Inv, Copy, TypeOK, Replacing
<1>1. CASE live' = request[c].backup /\ Goto(c, [request[c] EXCEPT !.phase = "check"])
  <2> DEFINE q == [request[c] EXCEPT !.phase = "check"]
  <2>1. /\ q \in Request /\ q.phase = "check" /\ q.phase \in Exclusive
        /\ q.backup = request[c].backup /\ q.rollback = request[c].rollback
        /\ request[c].backup \in Database /\ request[c].backup.schema = "current"
        /\ request[c].rollback.schema = "current" /\ request[c].phase \in Exclusive
      BY <1>0, ReplacingHolds DEF Replacing
  <2> HIDE DEF q
  <2> QED  BY <1>0, <1>1, <2>1, InsideInv DEF q
<1>2. CASE live' = live /\ Goto(c, [request[c] EXCEPT !.phase = "recover"])
  <2> DEFINE q == [request[c] EXCEPT !.phase = "recover"]
  <2>1. /\ q \in Request /\ q.phase = "recover" /\ q.phase \in Exclusive
        /\ q.backup = request[c].backup /\ q.rollback = request[c].rollback
        /\ request[c].rollback.schema = "current" /\ request[c].phase \in Exclusive
      BY <1>0, ReplacingHolds DEF Replacing
  <2> HIDE DEF q
  <2> QED  BY <1>0, <1>2, <2>1, InsideInv DEF q
<1> QED  BY <1>1, <1>2 DEF Copy

LEMMA CheckInv ==
    ASSUME Inv, NEW c \in Clients, Check(c) PROVE Inv'
<1>0. /\ TypeOK /\ UNCHANGED <<live, kept>> /\ request[c].phase = "check"
      /\ faults' \in 0..MaxFaults /\ live \in Database /\ live.schema = "current"
      /\ request[c].phase \in Replacing /\ kept' \subseteq Database
    BY FaultsTyped DEF Inv, Check, TypeOK, Replacing
<1>1. /\ request[c].phase \in Exclusive /\ request[c].rollback \in Database
      /\ live.sessions = {}
    BY <1>0, ReplacingHolds
<1>2. CASE Answer(c, "restored", request[c].rollback)
    BY <1>0, <1>1, <1>2, AnswerInv
<1>3. CASE Goto(c, [request[c] EXCEPT !.phase = "recover"]) /\ UNCHANGED <<gate, gone, outcome>>
  <2> DEFINE q == [request[c] EXCEPT !.phase = "recover"]
  <2>1. /\ q \in Request /\ q.phase = "recover" /\ q.phase \in Exclusive
        /\ q.backup = request[c].backup /\ q.rollback = request[c].rollback
        /\ request[c].rollback.schema = "current"
      BY <1>0, ReplacingHolds DEF Replacing
  <2> HIDE DEF q
  <2> QED  BY <1>0, <1>1, <1>3, <2>1, InsideInv DEF q
<1> QED  BY <1>2, <1>3 DEF Check

LEMMA EmergencyInv ==
    ASSUME Inv, NEW c \in Clients, request[c].phase \in Replacing, Emergency(c),
           live' = live, faults' \in 0..MaxFaults
    PROVE  Inv'
<1>1. request[c].phase \in Exclusive /\ request[c].rollback \in Database
    BY ReplacingHolds
<1>2. /\ kept \subseteq kept' /\ kept' \subseteq Database /\ request[c].rollback \in kept'
      /\ Answer(c, "failed", request[c].rollback)
    BY <1>1 DEF Emergency, Inv, TypeOK
<1> QED  BY <1>1, <1>2, AnswerInv

LEMMA RecoverInv ==
    ASSUME Inv, NEW c \in Clients, Recover(c) PROVE Inv'
<1>0. /\ TypeOK /\ request[c].phase = "recover"
      /\ faults' \in 0..MaxFaults /\ request[c].phase \in Replacing
    BY FaultsTyped DEF Inv, Recover, TypeOK, Replacing
<1>1. CASE Emergency(c) /\ UNCHANGED live
    BY <1>0, <1>1, EmergencyInv
<1>2. CASE ~(Emergency(c) /\ UNCHANGED live)
  <2> DEFINE q == [request[c] EXCEPT !.phase = "recheck"]
  <2>1. live' = request[c].rollback /\ Goto(c, q) /\ UNCHANGED <<gate, gone, kept, outcome>>
      BY <1>2 DEF Recover
  <2>2. /\ q \in Request /\ q.phase = "recheck" /\ q.phase \in Exclusive
        /\ q.backup = request[c].backup /\ q.rollback = request[c].rollback
        /\ request[c].rollback \in Database /\ request[c].rollback.schema = "current"
        /\ request[c].phase \in Exclusive
      BY <1>0, ReplacingHolds DEF Replacing
  <2> HIDE DEF q
  <2> QED  BY <1>0, <2>1, <2>2, InsideInv
<1> QED  BY <1>1, <1>2

LEMMA RecheckInv ==
    ASSUME Inv, NEW c \in Clients, Recheck(c) PROVE Inv'
<1>0. /\ TypeOK /\ request[c].phase = "recheck" /\ live' = live
      /\ faults' \in 0..MaxFaults /\ request[c].phase \in Replacing
    BY FaultsTyped DEF Inv, Recheck, TypeOK, Replacing
<1>1. CASE Emergency(c)
    BY <1>0, <1>1, EmergencyInv
<1>2. CASE Answer(c, "failed", request[c].rollback) /\ UNCHANGED kept
  <2>1. /\ request[c].phase \in Exclusive /\ request[c].rollback \in Database
        /\ live = request[c].rollback /\ kept' \subseteq Database
      BY <1>0, <1>2, ReplacingHolds DEF TypeOK
  <2> QED  BY <1>0, <1>2, <2>1, AnswerInv
<1> QED  BY <1>1, <1>2 DEF Recheck

LEMMA CrashInv == Inv /\ Crash => Inv'
<1> SUFFICES ASSUME Inv, Crash PROVE Inv'
    OBVIOUS
<1>1. live' = live
    BY MigratedTyped DEF Inv, TypeOK, Crash
<1>2. kept' \subseteq Database /\ kept \subseteq kept'
  <2>1. ASSUME NEW c \in Clients, request[c].phase \in Replacing
        PROVE  request[c].rollback \in Database
      BY <2>1, ReplacingHolds DEF Replacing
  <2> QED  BY <2>1 DEF Inv, TypeOK, Crash
<1>3. TypeOK'
    BY <1>1, <1>2, IdleTyped DEF Inv, TypeOK, Crash, Gate
<1>4. ASSUME NEW c \in Clients PROVE Suits(c, request'[c], gate', live')
  <2>1. request'[c] = Idle
      BY DEF Crash
  <2> QED  BY <2>1, IdleTyped, IdleSuits
<1>5. NothingLost' /\ live'.schema = "current"
    BY <1>1, <1>2, NothingLostUnchanged DEF Inv, Crash
<1> QED  BY <1>3, <1>4, <1>5 DEF Inv, Suits

LEMMA NextInv == Inv /\ [Next]_vars => Inv'
<1> SUFFICES ASSUME Inv, [Next]_vars PROVE Inv'
    OBVIOUS
<1>1. ASSUME NEW c \in Clients, Step(c) PROVE Inv'
    BY <1>1, AuthorizeInv, ServeInv, AdmitInv, PrepareInv, AnnounceInv, AcquireInv,
       ReauthenticateInv, SnapshotInv, CopyInv, CheckInv, RecoverInv, RecheckInv DEF Step
<1>2. ASSUME NEW c \in Clients, Disconnect(c) PROVE Inv'
    BY <1>2 DEF Disconnect, Inv, TypeOK, Suits, NothingLost
<1>3. CASE UNCHANGED vars
    BY <1>3 DEF vars, Inv, TypeOK, Suits, NothingLost
<1> QED  BY <1>1, <1>2, <1>3, ArriveInv, CrashInv DEF Next

LEMMA AlwaysInv == Spec => []Inv
BY InitInv, NextInv, PTL DEF Spec

-----------------------------------------------------------------------------
(* A single failure is recovered from *)

\* A recovery has a reason: the disk has failed, or the client is gone.
Excused ==
    /\ \A c \in Clients :
          request[c].phase \in {"recover", "recheck"} => faults >= 1 \/ c \in gone
    /\ RecoversFromOneFailure

LEMMA ExcusedUnanswered ==
    ASSUME Inv, Inv', Excused, outcome' \in {outcome, Idle}, faults' >= faults,
           \A c \in Clients :
              request'[c].phase \in {"recover", "recheck"} =>
                  \/ request[c].phase \in {"recover", "recheck"} /\ (c \in gone => c \in gone')
                  \/ faults' >= 1
                  \/ c \in gone'
    PROVE  Excused'
<1>1. faults \in Int /\ faults' \in Int
    BY DatabaseGateAssumption DEF Inv, TypeOK
<1> QED  BY <1>1 DEF Excused, RecoversFromOneFailure

LEMMA ExcusedAnswered ==
    ASSUME Inv, Inv', Excused, NEW c \in Clients,
           NEW result \in {"restored", "failed"}, NEW before \in Database,
           Answer(c, result, before), faults' >= faults, live' = live,
           result = "failed" /\ c \notin gone /\ faults' <= 1 => live = before
    PROVE  Excused'
<1>1. faults \in Int /\ faults' \in Int
    BY DatabaseGateAssumption DEF Inv, TypeOK
<1>2. /\ outcome'.result = result /\ outcome'.before = before /\ outcome'.after = live
      /\ outcome'.connected = (c \notin gone)
    BY DEF Answer
<1>3. RecoversFromOneFailure'
    BY <1>2 DEF RecoversFromOneFailure
<1>4. request' = [request EXCEPT ![c] = Idle] /\ gone' = gone \ {c}
    BY DEF Answer, GiveUp, Goto
<1>5. ASSUME NEW d \in Clients, request'[d].phase \in {"recover", "recheck"}
      PROVE  faults' >= 1 \/ d \in gone'
  <2>1. d # c /\ request'[d] = request[d]
      BY <1>4, <1>5, IdleTyped DEF Inv, TypeOK
  <2> QED  BY <1>1, <1>4, <1>5, <2>1 DEF Excused
<1> QED  BY <1>3, <1>5 DEF Excused

LEMMA FaultsGrow ==
    ASSUME TypeOK, NEW c \in Clients, Works(c) \/ Fails(c) \/ UNCHANGED faults
    PROVE  faults' >= faults
BY DatabaseGateAssumption DEF TypeOK, Works, Fails

LEMMA RecoverExcused ==
    ASSUME Inv, Inv', Excused, NEW c \in Clients, Recover(c) \/ Recheck(c) PROVE Excused'
<1>0. /\ request[c].phase \in {"recover", "recheck"} /\ request[c].rollback \in Database
      /\ faults' >= faults /\ faults \in Int /\ faults' \in Int
  <2>1. request[c].phase \in {"recover", "recheck"} /\ (Works(c) \/ Fails(c))
      BY DEF Recover, Recheck
  <2>2. faults' >= faults /\ faults \in Int /\ faults' \in Int
      BY <2>1, FaultsGrow, DatabaseGateAssumption DEF Inv, TypeOK
  <2>3. request[c].rollback \in Database
      BY <2>1, ReplacingHolds DEF Replacing
  <2> QED  BY <2>1, <2>2, <2>3
<1>1. CASE Fails(c) /\ Emergency(c) /\ UNCHANGED live
  <2>1. c \notin gone => faults >= 1 /\ faults' = faults + 1
      BY <1>0, <1>1 DEF Excused, Fails
  <2> QED  BY <1>0, <1>1, <2>1, ExcusedAnswered DEF Emergency
<1>2. CASE /\ request[c].phase = "recover"
           /\ Goto(c, [request[c] EXCEPT !.phase = "recheck"])
           /\ UNCHANGED <<gone, outcome>>
  <2>1. \A d \in Clients : d # c => request'[d] = request[d]
      BY <1>2 DEF Goto, Inv, TypeOK
  <2> QED  BY <1>0, <1>2, <2>1, ExcusedUnanswered
<1>3. CASE /\ request[c].phase = "recheck"
           /\ Answer(c, "failed", request[c].rollback)
           /\ UNCHANGED live
  <2>1. live = request[c].rollback
      BY <1>3, ReplacingHolds DEF Inv, Suits
  <2> QED  BY <1>0, <1>3, <2>1, ExcusedAnswered
<1> QED  BY <1>1, <1>2, <1>3 DEF Recover, Recheck

LEMMA SnapshotCopyCheckExcused ==
    ASSUME Inv, Inv', Excused, NEW c \in Clients, Snapshot(c) \/ Copy(c) \/ Check(c)
    PROVE  Excused'
<1>1. /\ faults' >= faults /\ faults \in Int /\ faults' \in Int
      /\ Fails(c) => faults' >= 1 \/ c \in gone
  <2>1. Works(c) \/ Fails(c) \/ UNCHANGED faults
      BY DEF Snapshot, Copy, Check
  <2> QED  BY <2>1, FaultsGrow, DatabaseGateAssumption DEF Inv, TypeOK, Fails
<1>2. CASE Snapshot(c) /\ Answer(c, "failed", live)
    BY <1>1, <1>2, ExcusedAnswered DEF Snapshot, Inv, TypeOK
<1>3. CASE Check(c) /\ Answer(c, "restored", request[c].rollback)
  <2>1. request[c].rollback \in Database /\ live' = live
      BY <1>3, ReplacingHolds DEF Check, Replacing
  <2> QED  BY <1>1, <1>3, <2>1, ExcusedAnswered
<1>4. ASSUME NEW q \in Request, Goto(c, q), UNCHANGED <<gone, outcome>>,
             q.phase \in {"recover", "recheck"} => Fails(c)
      PROVE  Excused'
  <2>1. /\ request'[c] = q
        /\ \A d \in Clients : d # c => request'[d] = request[d]
      BY <1>4, GotoTyped DEF Inv
  <2> QED  BY <1>1, <1>4, <2>1, ExcusedUnanswered
<1>5. CASE Snapshot(c) /\ ~Answer(c, "failed", live)
  <2>1. /\ UNCHANGED <<gone, outcome>>
        /\ Goto(c, [phase |-> "copy", session |-> request[c].session,
                    backup |-> request[c].backup, rollback |-> live])
      BY <1>5 DEF Snapshot
  <2>2. request'[c] \in Request /\ request'[c].phase = "copy"
      BY <2>1 DEF Goto, Inv, TypeOK
  <2> QED  BY <1>4, <2>1, <2>2 DEF Goto, Inv, TypeOK
<1>6. CASE Copy(c) \/ (Check(c) /\ ~Answer(c, "restored", request[c].rollback))
  <2>1. PICK p \in {"check", "recover"} :
            /\ Goto(c, [request[c] EXCEPT !.phase = p])
            /\ UNCHANGED <<gone, outcome>>
            /\ p = "recover" => Fails(c)
      BY <1>6 DEF Copy, Check, Inv
  <2>2. request[c].phase \in Replacing /\ p \in Replacing
      BY <1>6 DEF Copy, Check, Replacing
  <2> QED  BY <1>4, <2>1, <2>2, ReplacingHolds
<1> QED  BY <1>2, <1>3, <1>5, <1>6

\* All other steps start no recovery, and answer none.
LEMMA ElsewhereExcused ==
    ASSUME Inv, Inv', Excused, outcome' \in {outcome, Idle}, faults' >= faults,
           NEW c \in Clients,
           \/ request'[c].phase \notin {"recover", "recheck"}
           \/ request' = request /\ gone \subseteq gone',
           \A d \in Clients : d # c => request'[d] = request[d] /\ (d \in gone => d \in gone')
    PROVE  Excused'
BY ExcusedUnanswered

\* Setting the phase of a request that is not idle yields that phase.
LEMMA RequestsMove ==
    ASSUME NEW q \in Request, q.phase # "idle", NEW p
    PROVE  \A b : /\ [q EXCEPT !.phase = p].phase = p
                  /\ [q EXCEPT !.phase = p, !.backup = b].phase = p
BY DEF Request, Idle

LEMMA NextExcused == Inv /\ Inv' /\ Excused /\ [Next]_vars => Excused'
<1> SUFFICES ASSUME Inv, Inv', Excused, [Next]_vars PROVE Excused'
    OBVIOUS
<1>0. faults \in Int /\ request \in [Clients -> Request]
    BY DatabaseGateAssumption DEF Inv, TypeOK
<1>1. ASSUME NEW c \in Clients, NEW s \in Sessions,
             \/ \E op \in Operations : Arrive(c, op, s)
             \/ \E backup \in Uploads : ArriveRestore(c, backup, s)
      PROVE  Excused'
  <2>1. /\ UNCHANGED <<gone, faults>> /\ outcome' = Idle
        /\ request'[c].phase \in {"authorize", "admit"}
        /\ \A d \in Clients : d # c => request'[d] = request[d]
      BY <1>0, <1>1 DEF Arrive, ArriveRestore, Goto
  <2> QED  BY <1>0, <2>1, ElsewhereExcused
<1>2. ASSUME NEW c \in Clients,
             Authorize(c) \/ Serve(c) \/ Leave(c) \/ Announce(c) \/ Acquire(c)
      PROVE  Excused'
  <2>1. UNCHANGED <<gone, faults, outcome>>
      BY <1>2 DEF Authorize, Serve, Leave, Announce, Acquire
  <2>2. request[c] \in Request /\ request[c].phase # "idle"
      BY <1>0, <1>2 DEF Authorize, Serve, Leave, Announce, Acquire
  <2>3. \A p \in {"leave", "announced", "locked"} : [request[c] EXCEPT !.phase = p].phase = p
      BY <2>2, RequestsMove
  <2>4. PICK q : Goto(c, q) /\ q.phase \in {"idle", "serve", "leave", "announced", "locked"}
    <3>1. CASE Authorize(c)
        BY <3>1, IdleTyped DEF Authorize
    <3>2. CASE Serve(c) \/ Announce(c) \/ Acquire(c)
      <4>1. PICK p \in {"leave", "announced", "locked"} : Goto(c, [request[c] EXCEPT !.phase = p])
          BY <3>2 DEF Serve, Announce, Acquire
      <4> QED  BY <2>3, <4>1
    <3>3. CASE Leave(c)
        BY <3>3, IdleTyped DEF Leave
    <3> QED  BY <1>2, <3>1, <3>2, <3>3
  <2>5. request'[c] = q /\ \A d \in Clients : d # c => request'[d] = request[d]
      BY <1>0, <2>4 DEF Goto
  <2> QED  BY <1>0, <2>1, <2>4, <2>5, ElsewhereExcused
<1>3. ASSUME NEW c \in Clients, Admit(c) \/ Prepare(c) \/ Reauthenticate(c)
      PROVE  Excused'
  <2>1. /\ UNCHANGED outcome /\ gone' \in {gone, gone \ {c}}
        /\ Works(c) \/ Fails(c) \/ UNCHANGED faults
      BY <1>3 DEF Admit, Prepare, Reauthenticate, GiveUp
  <2>2. request[c] \in Request /\ request[c].phase \in {"admit", "prepare", "locked"}
      BY <1>0, <1>3 DEF Admit, Prepare, Reauthenticate
  <2>3. /\ \A p \in {"prepare", "snapshot"} : [request[c] EXCEPT !.phase = p].phase = p
        /\ [request[c] EXCEPT !.phase = "await",
                              !.backup = Prepared(request[c].backup)].phase = "await"
      BY <2>2, RequestsMove
  <2>4. PICK q : Goto(c, q) /\ q.phase \in {"idle", "prepare", "await", "snapshot"}
      BY <1>3, <2>3, IdleTyped DEF Admit, Prepare, Reauthenticate, GiveUp
  <2>5. request'[c] = q /\ \A d \in Clients : d # c => request'[d] = request[d]
      BY <1>0, <2>4 DEF Goto
  <2>6. faults' >= faults
      BY <2>1, FaultsGrow DEF Inv
  <2> QED  BY <2>1, <2>4, <2>5, <2>6, ElsewhereExcused
<1>4. ASSUME NEW c \in Clients, Disconnect(c) PROVE Excused'
    BY <1>0, <1>4, ElsewhereExcused DEF Disconnect
<1>5. CASE Crash
    BY <1>0, <1>5, IdleTyped, ExcusedUnanswered DEF Crash
<1>6. CASE UNCHANGED vars
    BY <1>0, <1>6, ExcusedUnanswered DEF vars
<1>7. ASSUME NEW c \in Clients, Step(c) PROVE Excused'
    BY <1>2, <1>3, <1>7, SnapshotCopyCheckExcused, RecoverExcused DEF Step
<1> QED  BY <1>1, <1>4, <1>5, <1>6, <1>7 DEF Next

LEMMA AlwaysExcused == Spec => []Excused
<1>1. Init => Excused
    BY IdleTyped DEF Init, Excused, RecoversFromOneFailure
<1> QED  BY <1>1, AlwaysInv, NextExcused, PTL DEF Spec

-----------------------------------------------------------------------------
(* What the vault sees of a restore *)

Uploaded(b) == \E u \in Uploads : b.book = u.book /\ b.entry = u.entry

\* What a restore brings was uploaded, and it was logged in to the database it
\* replaces; while it does, one of the two is live.
Stands(q, l) ==
    /\ q.phase \in {"admit"} \cup Waiting \cup Replacing => Uploaded(q.backup)
    /\ q.phase = "snapshot" => q.session \in l.sessions
    /\ q.phase \in Replacing =>
           q.session \in q.rollback.sessions /\ l \in {q.rollback, q.backup}

AllStand == \A c \in Clients : Stands(request[c], live)

\* A step of one client leaves the others as they stand.
LEMMA StandsMoved ==
    ASSUME Inv, AllStand, NEW c \in Clients, NEW q, Goto(c, q), Stands(q, live'),
           \/ live' = live
           \/ \A d \in Clients : d # c => request[d].phase \notin Exclusive
    PROVE  AllStand'
<1>1. /\ request'[c] = q
      /\ \A d \in Clients : d # c => request'[d] = request[d]
    BY DEF Goto, Inv, TypeOK
<1>2. ASSUME NEW d \in Clients, d # c PROVE Stands(request[d], live')
  <2>1. Stands(request[d], live)
      BY DEF AllStand
  <2> QED  BY <1>2, <2>1 DEF Stands, Exclusive
<1> QED  BY <1>1, <1>2 DEF AllStand

LEMMA StandsAtRest ==
    ASSUME NEW q, q.phase \notin {"admit"} \cup Waiting \cup Replacing, NEW l
    PROVE  Stands(q, l)
BY DEF Stands, Waiting

LEMMA ArriveStands ==
    ASSUME Inv, AllStand, NEW c \in Clients, NEW s \in Sessions,
           \/ \E op \in Operations : Arrive(c, op, s)
           \/ \E backup \in Uploads : ArriveRestore(c, backup, s)
    PROVE  AllStand'
<1>1. PICK q : Goto(c, q) /\ Stands(q, live)
  <2>1. ASSUME NEW op \in Operations, Arrive(c, op, s)
        PROVE  \E q : Goto(c, q) /\ Stands(q, live)
    <3>1. Stands([phase |-> "authorize", op |-> op, session |-> s], live)
        BY StandsAtRest DEF Waiting, Replacing
    <3> QED  BY <2>1, <3>1 DEF Arrive
  <2>2. ASSUME NEW backup \in Uploads, ArriveRestore(c, backup, s)
        PROVE  \E q : Goto(c, q) /\ Stands(q, live)
    <3>1. Stands([phase |-> "admit", session |-> s, backup |-> backup], live)
        BY DEF Stands, Uploaded, Replacing
    <3> QED  BY <2>2, <3>1 DEF ArriveRestore
  <2> QED  BY <2>1, <2>2
<1> QED  BY <1>1, StandsMoved DEF Arrive, ArriveRestore

\* The steps of a request that is not a restore.
LEMMA OrdinaryStands ==
    ASSUME Inv, AllStand, NEW c \in Clients, Authorize(c) \/ Serve(c) \/ Leave(c)
    PROVE  AllStand'
<1>0. request[c] \in Request
    BY DEF Inv, TypeOK
<1>1. PICK q : Goto(c, q) /\ q.phase \in {"idle", "serve", "leave"}
  <2>1. CASE Goto(c, Idle)
      BY <2>1, IdleTyped
  <2>2. CASE Serve(c)
    <3>1. [request[c] EXCEPT !.phase = "leave"].phase = "leave"
        BY <1>0, <2>2, OrdinaryTyped DEF Serve
    <3> QED  BY <2>2, <3>1 DEF Serve
  <2>3. CASE Authorize(c) /\ ~Goto(c, Idle)
    <3> DEFINE q == [phase |-> "serve", op |-> request[c].op, session |-> request[c].session,
                     book |-> live.book]
    <3>1. Goto(c, q) /\ q.phase = "serve"
        BY <2>3 DEF Authorize
    <3> QED  BY <3>1
  <2> QED  BY <2>1, <2>2, <2>3 DEF Leave
<1>2. Stands(q, live')
    BY <1>1, StandsAtRest DEF Waiting, Replacing
<1>3. CASE live' = live
    BY <1>1, <1>2, <1>3, StandsMoved
<1>4. CASE Serve(c)
  <2>1. c \in gate.readers
      BY <1>4 DEF Serve, Inv, Suits
  <2>2. \A d \in Clients : request[d].phase \notin Exclusive
      BY <2>1 DEF Inv, Suits
  <2> QED  BY <1>1, <1>2, <2>2, StandsMoved
<1> QED  BY <1>3, <1>4 DEF Authorize, Leave

\* A restore, until it replaces the database.
LEMMA WaitingStands ==
    ASSUME Inv, AllStand, NEW c \in Clients,
           Admit(c) \/ Prepare(c) \/ Announce(c) \/ Acquire(c) \/ Reauthenticate(c)
    PROVE  AllStand'
<1>0. /\ request[c] \in [phase : {"admit"} \cup Waiting, session : Sessions, backup : Database]
      /\ Stands(request[c], live) /\ live' = live
    BY DEF Inv, TypeOK, AllStand, Admit, Prepare, Announce, Acquire, Reauthenticate,
           Request, Idle, Waiting, Replacing
<1>1. CASE Goto(c, Idle)
    BY <1>0, <1>1, IdleTyped, StandsAtRest, StandsMoved DEF Waiting, Replacing
<1>2. ASSUME NEW p \in Waiting, Goto(c, [request[c] EXCEPT !.phase = p]),
             p = "snapshot" => request[c].session \in live.sessions
      PROVE  AllStand'
  <2>1. Stands([request[c] EXCEPT !.phase = p], live)
      BY <1>0, <1>2 DEF Stands, Waiting, Replacing
  <2> QED  BY <1>0, <1>2, <2>1, StandsMoved
<1>3. CASE Admit(c)
    BY <1>1, <1>2, <1>3 DEF Admit, Waiting
<1>4. CASE Prepare(c)
  <2> DEFINE q == [request[c] EXCEPT !.phase = "await", !.backup = Prepared(request[c].backup)]
  <2>1. CASE GiveUp(c)
      BY <1>1, <2>1 DEF GiveUp
  <2>2. CASE ~GiveUp(c)
    <3>1. request[c].backup.schema \in {"older", "current"} /\ Goto(c, q)
        BY <1>4, <2>2 DEF Prepare
    <3>2. /\ Prepared(request[c].backup).book = request[c].backup.book
          /\ Prepared(request[c].backup).entry = request[c].backup.entry
        BY <1>0, <3>1, PreparedTyped
    <3>3. q.phase = "await" /\ q.backup = Prepared(request[c].backup)
        BY <1>0
    <3>4. Uploaded(request[c].backup)
        BY <1>0 DEF Stands
    <3> HIDE DEF q
    <3>5. Stands(q, live)
        BY <3>2, <3>3, <3>4 DEF Stands, Uploaded, Replacing
    <3> QED  BY <1>0, <3>1, <3>5, StandsMoved
  <2> QED  BY <2>1, <2>2
<1>5. CASE Announce(c) \/ Acquire(c)
    BY <1>2, <1>5 DEF Announce, Acquire, Waiting
<1>6. CASE Reauthenticate(c)
    BY <1>1, <1>2, <1>6 DEF Reauthenticate, GiveUp, Waiting
<1> QED  BY <1>3, <1>4, <1>5, <1>6

LEMMA SnapshotStands ==
    ASSUME Inv, AllStand, NEW c \in Clients, Snapshot(c) PROVE AllStand'
<1>0. request[c].phase = "snapshot" /\ Stands(request[c], live) /\ live' = live
    BY DEF AllStand, Snapshot
<1>1. CASE Goto(c, Idle)
    BY <1>0, <1>1, IdleTyped, StandsAtRest, StandsMoved DEF Waiting, Replacing
<1>2. CASE ~Goto(c, Idle)
  <2> DEFINE q == [phase |-> "copy", session |-> request[c].session,
                   backup |-> request[c].backup, rollback |-> live]
  <2>1. Goto(c, q)
      BY <1>2 DEF Snapshot, Answer, GiveUp
  <2>2. Stands(q, live)
      BY <1>0 DEF Stands, Waiting, Replacing
  <2> QED  BY <1>0, <2>1, <2>2, StandsMoved
<1> QED  BY <1>1, <1>2

\* A restore, while it replaces the database.
LEMMA ReplacingStands ==
    ASSUME Inv, AllStand, NEW c \in Clients, Copy(c) \/ Check(c) \/ Recover(c) \/ Recheck(c)
    PROVE  AllStand'
<1>0. /\ request[c].phase \in Replacing /\ Stands(request[c], live)
      /\ request[c].phase \in Exclusive
    BY DEF AllStand, Copy, Check, Recover, Recheck, Replacing, Exclusive
<1>1. live' \in {live, request[c].backup, request[c].rollback}
    BY DEF Copy, Check, Recover, Recheck
<1>2. \A d \in Clients : d # c => request[d].phase \notin Exclusive
  <2>1. gate.readers = {} /\ gate.writer = c
      BY <1>0 DEF Inv, Suits
  <2> QED  BY <2>1, Alone DEF Inv
<1>3. CASE Goto(c, Idle)
    BY <1>2, <1>3, IdleTyped, StandsAtRest, StandsMoved DEF Waiting, Replacing
<1>4. ASSUME NEW p \in Replacing, Goto(c, [request[c] EXCEPT !.phase = p]) PROVE AllStand'
  <2> DEFINE q == [request[c] EXCEPT !.phase = p]
  <2>1. /\ q.phase = p /\ q.backup = request[c].backup /\ q.rollback = request[c].rollback
        /\ q.session = request[c].session
      BY <1>0, <1>4 DEF Inv, TypeOK, Request, Idle, Waiting, Replacing
  <2> HIDE DEF q
  <2>2. Stands(q, live')
      BY <1>0, <1>1, <1>4, <2>1 DEF Stands, Replacing
  <2> QED  BY <1>2, <1>4, <2>2, StandsMoved DEF q
<1> QED
    BY <1>3, <1>4 DEF Copy, Check, Recover, Recheck, Emergency, Answer, GiveUp, Replacing

LEMMA NextStands == Inv /\ AllStand /\ [Next]_vars => AllStand'
<1> SUFFICES ASSUME Inv, AllStand, [Next]_vars PROVE AllStand'
    OBVIOUS
<1>1. ASSUME NEW c \in Clients, Step(c) PROVE AllStand'
    BY <1>1, OrdinaryStands, WaitingStands, SnapshotStands, ReplacingStands DEF Step
<1>2. ASSUME NEW c \in Clients, Disconnect(c) PROVE AllStand'
    BY <1>2 DEF Disconnect, AllStand
<1>3. CASE Crash
    BY <1>3, IdleTyped, StandsAtRest DEF Crash, AllStand, Waiting, Replacing
<1>4. CASE UNCHANGED vars
    BY <1>4 DEF vars, AllStand
<1> QED  BY <1>1, <1>2, <1>3, <1>4, ArriveStands DEF Next

LEMMA AlwaysAllStand == Spec => []AllStand
<1>1. Init => AllStand
    BY IdleTyped, StandsAtRest DEF Init, AllStand, Waiting, Replacing
<1> QED  BY <1>1, AlwaysInv, NextStands, PTL DEF Spec

\* The database in force is the live one, or the snapshot of the restore that
\* is replacing it.
LEMMA InForceIs ==
    Inv => /\ (\A c \in Clients : request[c].phase \notin Replacing) => InForce = live
           /\ \A c \in Clients :
                 request[c].phase \in Replacing => InForce = request[c].rollback
<1> SUFFICES ASSUME Inv
             PROVE  /\ (\A c \in Clients : request[c].phase \notin Replacing) => InForce = live
                    /\ \A c \in Clients :
                          request[c].phase \in Replacing => InForce = request[c].rollback
    OBVIOUS
<1>1. (\A c \in Clients : request[c].phase \notin Replacing) => InForce = live
    BY DEF InForce, Recorded
<1>2. ASSUME NEW c \in Clients, request[c].phase \in Replacing
      PROVE  InForce = request[c].rollback
  <2>1. Recorded \in Clients /\ request[Recorded].phase \in Replacing
      BY <1>2 DEF Recorded
  <2>2. gate.writer = c /\ gate.writer = Recorded
      BY <1>2, <2>1 DEF Inv, Suits, Exclusive
  <2> QED  BY <2>1, <2>2, DatabaseGateAssumption DEF InForce
<1> QED  BY <1>1, <1>2

LEMMA InForceNext ==
    Inv' => /\ (\A c \in Clients : request'[c].phase \notin Replacing) => InForce' = live'
            /\ \A c \in Clients :
                  request'[c].phase \in Replacing => InForce' = request'[c].rollback
<1> DEFINE Sound ==
        /\ (\A c \in Clients : request[c].phase \notin Replacing) => InForce = live
        /\ \A c \in Clients : request[c].phase \in Replacing => InForce = request[c].rollback
<1>1. Inv => Sound
    BY InForceIs
<1> HIDE DEF Sound
<1>2. Inv' => Sound'
    BY <1>1, PTL
<1> QED  BY <1>2 DEF Sound

\* A step that is none of the restore's that is replacing the database.
LEMMA BystanderSteps ==
    ASSUME Inv, Inv', NEW c \in Clients, NEW q, Goto(c, q), live' = live,
           request[c].phase \notin Replacing, q.phase \notin Replacing
    PROVE  InForce' = InForce
<1>1. /\ request'[c] = q
      /\ \A d \in Clients : d # c => request'[d] = request[d]
    BY DEF Goto, Inv, TypeOK
<1>2. CASE \E d \in Clients : request[d].phase \in Replacing
    BY <1>1, <1>2, InForceIs, InForceNext
<1>3. CASE ~\E d \in Clients : request[d].phase \in Replacing
    BY <1>1, <1>3, InForceIs, InForceNext
<1> QED  BY <1>2, <1>3

\* The replacement comes into force when nobody replaces any more, if at all.
LEMMA ReplacementEnds ==
    ASSUME Inv, Inv', AllStand, NEW c \in Clients, request[c].phase \in Replacing, live' = live,
           \A d \in Clients : request'[d].phase \notin Replacing
    PROVE  InForce' = InForce \/ \E backup \in Uploads : Vault!Replace(backup)
<1>1. InForce = request[c].rollback /\ InForce' = live
    BY InForceIs, InForceNext
<1>2. CASE live = request[c].rollback
    BY <1>1, <1>2
<1>3. CASE live = request[c].backup
  <2>1. Uploaded(request[c].backup) /\ request[c].session \in request[c].rollback.sessions
      BY DEF AllStand, Stands
  <2>2. request[c].backup.sessions = {}
      BY ReplacingHolds
  <2> QED  BY <1>1, <1>3, <2>1, <2>2 DEF Uploaded, Vault!Replace
<1> QED  BY <1>2, <1>3 DEF AllStand, Stands

LEMMA ServeInTheVault ==
    ASSUME Inv, Inv', NEW c \in Clients, Serve(c)
    PROVE  InForce' = InForce \/ Vault!Next
<1>1. /\ request[c] \in Request /\ request[c].phase = "serve"
      /\ request[c].op \in Operations /\ request[c].session \in Sessions
      /\ live \in Database
    BY OrdinaryTyped DEF Inv, TypeOK, Serve
<1>2. c \in gate.readers
    BY <1>1 DEF Inv, Suits
<1>3. \A d \in Clients : request[d].phase \notin Replacing
    BY <1>2 DEF Inv, Suits, Exclusive
<1>4. Goto(c, [request[c] EXCEPT !.phase = "leave"])
    BY DEF Serve
<1>5. request'[c].phase = "leave" /\ \A d \in Clients : d # c => request'[d] = request[d]
    BY <1>1, <1>4, OrdinaryTyped DEF Goto, Inv, TypeOK
<1>6. InForce = live /\ InForce' = live'
    BY <1>3, <1>5, InForceIs, InForceNext DEF Replacing
<1>7. CASE request[c].op = "read"
    BY <1>6, <1>7 DEF Serve
<1>8. CASE request[c].op = "edit"
  <2>1. PICK e \in Entries : live' = [live EXCEPT !.entry = e]
      BY <1>8 DEF Serve
  <2> QED  BY <1>1, <1>6, <2>1 DEF Database, Vault!Next, Vault!Edit
<1>9. CASE request[c].op = "login"
  <2>1. live' = [live EXCEPT !.sessions = @ \cup {request[c].session}]
      BY <1>9 DEF Serve
  <2> QED  BY <1>1, <1>6, <2>1 DEF Database, Vault!Next, Vault!Login
<1>10. CASE request[c].op = "logout"
  <2>1. live' = [live EXCEPT !.sessions = @ \ {request[c].session}]
      BY <1>10 DEF Serve
  <2> QED  BY <1>1, <1>6, <2>1 DEF Database, Vault!Next, Vault!Logout
<1> QED  BY <1>1, <1>7, <1>8, <1>9, <1>10 DEF Operations

\* The steps that go on with a replacement change nothing that is in force.
LEMMA ReplacementGoesOn ==
    ASSUME Inv, Inv', NEW c \in Clients, request[c].phase \in Replacing, NEW p \in Replacing,
           Goto(c, [request[c] EXCEPT !.phase = p])
    PROVE  InForce' = InForce
<1>1. request'[c] = [request[c] EXCEPT !.phase = p]
    BY DEF Goto, Inv, TypeOK
<1>2. request'[c].phase = p /\ request'[c].rollback = request[c].rollback
    BY <1>1, ReplacingHolds
<1> QED  BY <1>2, InForceIs, InForceNext

LEMMA RestoreInTheVault ==
    ASSUME Inv, Inv', AllStand, NEW c \in Clients,
           Snapshot(c) \/ Copy(c) \/ Check(c) \/ Recover(c) \/ Recheck(c)
    PROVE  InForce' = InForce \/ Vault!Next
<1>1. request[c].phase \in Exclusive
    BY DEF Snapshot, Copy, Check, Recover, Recheck, Exclusive, Replacing
<1>2. \A d \in Clients : d # c => request[d].phase \notin Replacing
  <2>1. gate.readers = {} /\ gate.writer = c
      BY <1>1 DEF Inv, Suits
  <2> QED  BY <2>1, Alone DEF Inv, Exclusive
<1>3. \A q : Goto(c, q) => /\ request'[c] = q
                           /\ \A d \in Clients : d # c => request'[d] = request[d]
    BY DEF Goto, Inv, TypeOK
<1>4. CASE Snapshot(c)
  <2>1. request[c].phase = "snapshot" /\ live' = live
      BY <1>4 DEF Snapshot
  <2>2. CASE Goto(c, Idle)
      BY <2>1, <2>2, IdleTyped, BystanderSteps DEF Replacing
  <2>3. CASE ~Goto(c, Idle)
    <3>1. request'[c].phase = "copy" /\ request'[c].rollback = live
        BY <1>3, <1>4, <2>3 DEF Snapshot, Answer, GiveUp
    <3> QED  BY <1>2, <2>1, <3>1, InForceIs, InForceNext DEF Replacing
  <2> QED  BY <2>2, <2>3
<1>5. CASE Copy(c) \/ Check(c) \/ Recover(c) \/ Recheck(c)
  <2>1. request[c].phase \in Replacing
      BY <1>5 DEF Copy, Check, Recover, Recheck, Replacing
  <2>2. CASE Goto(c, Idle) /\ live' = live
    <3>1. \A d \in Clients : request'[d].phase \notin Replacing
        BY <1>2, <1>3, <2>2, IdleTyped DEF Replacing
    <3> QED  BY <2>1, <2>2, <3>1, ReplacementEnds DEF Vault!Next
  <2>3. CASE ~(Goto(c, Idle) /\ live' = live)
    <3>1. PICK p \in Replacing : Goto(c, [request[c] EXCEPT !.phase = p])
        BY <1>5, <2>3 DEF Copy, Check, Recover, Recheck, Emergency, Answer, GiveUp, Replacing
    <3> QED  BY <2>1, <3>1, ReplacementGoesOn
  <2> QED  BY <2>2, <2>3
<1> QED  BY <1>4, <1>5

\* Every step is one of the vault, or none of its business.
LEMMA StepInTheVault == Inv /\ Inv' /\ AllStand /\ [Next]_vars => [Vault!Next]_(Vault!vars)
<1> SUFFICES ASSUME Inv, Inv', AllStand, [Next]_vars
             PROVE  InForce' = InForce \/ Vault!Next
    BY DEF Vault!vars
<1>1. ASSUME NEW c \in Clients, NEW s \in Sessions,
             \/ \E op \in Operations : Arrive(c, op, s)
             \/ \E backup \in Uploads : ArriveRestore(c, backup, s)
      PROVE  InForce' = InForce
  <2>1. request[c] = Idle /\ live' = live
      BY <1>1 DEF Arrive, ArriveRestore
  <2>2. ASSUME NEW op \in Operations, Arrive(c, op, s) PROVE InForce' = InForce
    <3> DEFINE q == [phase |-> "authorize", op |-> op, session |-> s]
    <3>1. Goto(c, q) /\ q.phase \notin Replacing
        BY <2>2 DEF Arrive, Replacing
    <3> QED  BY <2>1, <3>1, IdleTyped, BystanderSteps DEF Replacing
  <2>3. ASSUME NEW backup \in Uploads, ArriveRestore(c, backup, s) PROVE InForce' = InForce
    <3> DEFINE q == [phase |-> "admit", session |-> s, backup |-> backup]
    <3>1. Goto(c, q) /\ q.phase \notin Replacing
        BY <2>3 DEF ArriveRestore, Replacing
    <3> QED  BY <2>1, <3>1, IdleTyped, BystanderSteps DEF Replacing
  <2> QED  BY <1>1, <2>2, <2>3
<1>2. ASSUME NEW c \in Clients,
             \/ Authorize(c) \/ Leave(c) \/ Admit(c) \/ Prepare(c)
             \/ Announce(c) \/ Acquire(c) \/ Reauthenticate(c)
      PROVE  InForce' = InForce
  <2>1. /\ request[c].phase \in {"authorize", "leave", "admit"} \cup Waiting
        /\ request[c] \in Request /\ live' = live
      BY <1>2 DEF Authorize, Leave, Admit, Prepare, Announce, Acquire, Reauthenticate, Waiting,
                  Inv, TypeOK
  <2>2. \A p, b : /\ [request[c] EXCEPT !.phase = p].phase = p
                  /\ [request[c] EXCEPT !.phase = p, !.backup = b].phase = p
      BY <2>1, RequestsMove DEF Waiting
  <2>3. PICK q : Goto(c, q) /\ q.phase \notin Replacing
    <3>0. CASE Goto(c, Idle)
        BY <3>0, IdleTyped DEF Replacing
    <3>1. CASE Authorize(c) \/ Leave(c)
      <4> DEFINE q == [phase |-> "serve", op |-> request[c].op, session |-> request[c].session,
                       book |-> live.book]
      <4>1. Goto(c, Idle) \/ Goto(c, q)
          BY <3>1 DEF Authorize, Leave
      <4>2. q.phase \notin Replacing
          BY DEF Replacing
      <4> HIDE DEF q
      <4> QED  BY <3>0, <4>1, <4>2
    <3>2. CASE Admit(c) \/ Reauthenticate(c)
      <4>1. \/ Goto(c, Idle)
            \/ \E p \in {"prepare", "snapshot"} : Goto(c, [request[c] EXCEPT !.phase = p])
          BY <3>2 DEF Admit, Reauthenticate, GiveUp
      <4> QED  BY <2>2, <3>0, <4>1 DEF Replacing
    <3>3. CASE Prepare(c)
      <4> DEFINE q == [request[c] EXCEPT !.phase = "await",
                                         !.backup = Prepared(request[c].backup)]
      <4>1. Goto(c, Idle) \/ Goto(c, q)
          BY <3>3 DEF Prepare, GiveUp
      <4>2. q.phase \notin Replacing
          BY <2>2 DEF Replacing
      <4> HIDE DEF q
      <4> QED  BY <3>0, <4>1, <4>2
    <3>4. CASE Announce(c) \/ Acquire(c)
      <4>1. PICK p \in {"announced", "locked"} : Goto(c, [request[c] EXCEPT !.phase = p])
          BY <3>4 DEF Announce, Acquire
      <4> QED  BY <2>2, <4>1 DEF Replacing
    <3> QED  BY <1>2, <3>1, <3>2, <3>3, <3>4
  <2> QED  BY <2>1, <2>3, BystanderSteps DEF Waiting, Replacing
<1>3. ASSUME NEW c \in Clients, Disconnect(c) PROVE InForce' = InForce
    BY <1>3 DEF Disconnect, InForce, Recorded
<1>4. CASE Crash
  <2>1. live' = live /\ \A c \in Clients : request'[c].phase \notin Replacing
      BY <1>4, IdleTyped, MigratedTyped DEF Crash, Inv, TypeOK, Replacing
  <2> QED  BY <2>1, InForceIs, InForceNext, ReplacementEnds DEF Vault!Next
<1>5. CASE UNCHANGED vars
    BY <1>5 DEF vars, InForce, Recorded
<1>6. ASSUME NEW c \in Clients, Step(c) PROVE InForce' = InForce \/ Vault!Next
    BY <1>2, <1>6, ServeInTheVault, RestoreInTheVault DEF Step
<1> QED  BY <1>1, <1>3, <1>4, <1>5, <1>6 DEF Next

-----------------------------------------------------------------------------
(* Theorems *)

\* Every reachable state is well typed.
THEOREM TypeCorrect == Spec => []TypeOK
<1>1. Inv => TypeOK
    BY DEF Inv
<1> QED  BY <1>1, AlwaysInv, PTL

\* From its authorization to its response a request works on the database that
\* authorized it, for any number of readers and restores.
THEOREM NoRequestSeesAReplacement == Spec => []OneDatabase
<1>1. Inv => OneDatabase
    BY DEF Inv, Suits, OneDatabase
<1> QED  BY <1>1, AlwaysInv, PTL

\* Requests are served from the current schema, whatever was uploaded and
\* whatever failed.
THEOREM AlwaysTheCurrentSchema == Spec => []ServedFromCurrentSchema
<1>1. Inv => ServedFromCurrentSchema
    BY DEF Inv, ServedFromCurrentSchema
<1> QED  BY <1>1, AlwaysInv, PTL

\* After a failed restore the original is live or on the disk, and after a
\* successful one nobody is logged in.
THEOREM RestoresLoseNothing == Spec => []NothingLost
<1>1. Inv => NothingLost
    BY DEF Inv
<1> QED  BY <1>1, AlwaysInv, PTL

\* A restore that fails by one failure of the disk, its client still there, has
\* left or recovered the original database, for any number of requests.
THEOREM OneFailureIsRecovered == Spec => []RecoversFromOneFailure
<1>1. Excused => RecoversFromOneFailure
    BY DEF Excused
<1> QED  BY <1>1, AlwaysExcused, PTL

\* Whatever fails, and whenever the process crashes, the database changes as
\* DatabaseVault promises: it is edited in place, or replaced as a whole and at
\* once by what was uploaded, with nobody logged in afterwards, and only if
\* somebody was before; for any number of requests, uploads and failures.
THEOREM RestoresAreAtomic == Spec => KeepsTheVault
<1>1. Init => Vault!Init
  <2> SUFFICES ASSUME Init PROVE Vault!Init
      OBVIOUS
  <2>1. Inv /\ \A c \in Clients : request[c].phase \notin Replacing
      BY InitInv, IdleTyped DEF Init, Replacing
  <2>2. InForce = live
      BY <2>1, InForceIs
  <2> QED  BY <2>2 DEF Init, Vault!Init
<1> QED
    BY <1>1, AlwaysInv, AlwaysAllStand, StepInTheVault, PTL DEF Spec, KeepsTheVault, Vault!Spec
=============================================================================
