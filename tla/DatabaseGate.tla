----------------------------- MODULE DatabaseGate ---------------------------
(***************************************************************************)
(* Requests share the database under a gate, a sync.RWMutex; the restore   *)
(* of an uploaded backup takes it alone, replaces the whole database, and  *)
(* goes back to a snapshot of its own if anything fails (internal/httpapi  *)
(* router, middleware and handlers_backups; internal/database/backup).     *)
(*                                                                         *)
(* A database is known by its book (which installation it came from), an   *)
(* entry of it, the state of its schema, and the sessions in it.  SQLite   *)
(* replaces a database as a whole or, on an error, not at all.             *)
(***************************************************************************)
EXTENDS Integers

CONSTANTS
    Clients,      \* requests that run at the same time
    Sessions,     \* the devices that may be logged in
    Books,        \* the installations databases come from
    Entries,      \* what is written in a book
    own,          \* the book of this installation
    Uploads,      \* the files that are uploaded to be restored
    MaxFaults,    \* bound: failures of the disk
    Disconnects   \* whether clients may go away during a restore

Schemas == {"older", "current", "newer", "broken"}

Database == [book : Books, entry : Entries, schema : Schemas, sessions : SUBSET Sessions]

Nobody == "nobody"

ASSUME DatabaseGateAssumption ==
    /\ Nobody \notin Clients
    /\ own \in Books
    /\ Uploads \subseteq Database
    /\ MaxFaults \in Nat
    /\ Disconnects \in BOOLEAN

VARIABLES
    live,      \* the active database
    gate,      \* the mutex dbGate
    request,   \* the progress of each client's request
    gone,      \* the clients that went away: their context is cancelled
    kept,      \* the snapshots that stay on the disk for the operator
    faults,    \* how often the disk has failed
    outcome    \* history: the restore just answered, until a request arrives

vars == <<live, gate, request, gone, kept, faults, outcome>>

\* readers hold the gate; a writer that waits or holds keeps newcomers queued.
Gate == [readers : SUBSET Clients, queued : SUBSET Clients, writer : Clients \cup {Nobody}]

Idle == [phase |-> "idle"]

Operations == {"read", "edit", "login", "logout"}

Waiting == {"prepare", "await", "announced", "locked", "snapshot"}

Replacing == {"copy", "check", "recover", "recheck"}

Request ==
    {Idle}
    \cup [phase : {"authorize"}, op : Operations, session : Sessions]
    \cup [phase : {"serve", "leave"}, op : Operations, session : Sessions, book : Books]
    \cup [phase : {"admit"} \cup Waiting, session : Sessions, backup : Database]
    \cup [phase : Replacing, session : Sessions, backup : Database, rollback : Database]

Outcome == {Idle} \cup [result : {"restored", "failed"}, connected : BOOLEAN,
                       before : Database, after : Database]

TypeOK ==
    /\ live \in Database
    /\ gate \in Gate
    /\ request \in [Clients -> Request]
    /\ gone \subseteq Clients
    /\ kept \subseteq Database
    /\ faults \in 0..MaxFaults
    /\ outcome \in Outcome

Init ==
    /\ live \in [book : {own}, entry : Entries, schema : {"current"}, sessions : SUBSET Sessions]
    /\ gate = [readers |-> {}, queued |-> {}, writer |-> Nobody]
    /\ request = [c \in Clients |-> Idle]
    /\ gone = {}
    /\ kept = {}
    /\ faults = 0
    /\ outcome = Idle

-----------------------------------------------------------------------------
(* The mutex *)

Goto(c, next) == request' = [request EXCEPT ![c] = next]

\* Faulty variant: a reader passes by a writer that waits.
RLockPastWriter(c) ==
    gate' = IF \E d \in Clients : d = gate.writer /\ request[d].phase # "announced"
            THEN [gate EXCEPT !.queued = @ \cup {c}]
            ELSE [gate EXCEPT !.readers = @ \cup {c}]

RLock(c) ==
    gate' = IF gate.writer = Nobody
            THEN [gate EXCEPT !.readers = @ \cup {c}]
            ELSE [gate EXCEPT !.queued = @ \cup {c}]

RUnlock(c) == gate' = [gate EXCEPT !.readers = @ \ {c}]

\* Faulty variant: the readers that came in the meantime are not woken.
UnlockForgetsQueue(c) == gate' = [gate EXCEPT !.readers = {}, !.writer = Nobody]

\* The readers that came in the meantime go first.
Unlock(c) == gate' = [readers |-> gate.queued, queued |-> {}, writer |-> Nobody]

-----------------------------------------------------------------------------
(* Requests other than restores *)

Arrive(c, op, s) ==
    /\ request[c] = Idle
    /\ RLock(c)
    /\ Goto(c, [phase |-> "authorize", op |-> op, session |-> s])
    /\ outcome' = Idle
    /\ UNCHANGED <<live, gone, kept, faults>>

\* Authenticate, for all operations but the login.
Authorize(c) ==
    LET op == request[c].op
        s  == request[c].session
    IN  /\ request[c].phase = "authorize"
        /\ c \in gate.readers
        /\ IF op = "login" \/ s \in live.sessions
           THEN /\ Goto(c, [phase |-> "serve", op |-> op, session |-> s, book |-> live.book])
                /\ UNCHANGED gate
           ELSE Goto(c, Idle) /\ RUnlock(c)
        /\ UNCHANGED <<live, gone, kept, faults, outcome>>

\* The handler, as far as restores are concerned: it reads (a download of a
\* backup reads everything), edits, or changes the sessions.
Serve(c) ==
    /\ request[c].phase = "serve"
    /\ CASE request[c].op = "read"   -> UNCHANGED live
         [] request[c].op = "edit"   -> \E e \in Entries : live' = [live EXCEPT !.entry = e]
         [] request[c].op = "login"  -> live' = [live EXCEPT !.sessions = @ \cup {request[c].session}]
         [] request[c].op = "logout" -> live' = [live EXCEPT !.sessions = @ \ {request[c].session}]
    /\ Goto(c, [request[c] EXCEPT !.phase = "leave"])
    /\ UNCHANGED <<gate, gone, kept, faults, outcome>>

\* The response is written while the gate is held.
Leave(c) ==
    /\ request[c].phase = "leave"
    /\ RUnlock(c)
    /\ Goto(c, Idle)
    /\ UNCHANGED <<live, gone, kept, faults, outcome>>

-----------------------------------------------------------------------------
(* Restores *)

\* A store or file operation on behalf of c succeeds; it fails if the client is
\* gone, and may fail at any time.
Works(c) == c \notin gone /\ UNCHANGED faults

Fails(c) ==
    \/ c \in gone /\ UNCHANGED faults
    \/ faults < MaxFaults /\ faults' = faults + 1

ArriveRestore(c, backup, s) ==
    /\ request[c] = Idle
    /\ RLock(c)
    /\ Goto(c, [phase |-> "admit", session |-> s, backup |-> backup])
    /\ outcome' = Idle
    /\ UNCHANGED <<live, gone, kept, faults>>

\* protectedRestore authorizes under the shared gate and releases it.
Admit(c) ==
    /\ request[c].phase = "admit"
    /\ c \in gate.readers
    /\ RUnlock(c)
    /\ Goto(c, IF request[c].session \in live.sessions /\ c \notin gone
               THEN [request[c] EXCEPT !.phase = "prepare"] ELSE Idle)
    /\ gone' = IF request'[c] = Idle THEN gone \ {c} ELSE gone
    /\ UNCHANGED <<live, kept, faults, outcome>>

\* Migrate, as far as it succeeds.
Migrated(database) ==
    [database EXCEPT !.schema = IF @ = "older" THEN "current" ELSE @]

\* Faulty variant: an older schema is not upgraded.
PreparedAsIs(backup) == [backup EXCEPT !.sessions = {}]

Prepared(backup) == [Migrated(backup) EXCEPT !.sessions = {}]

\* The request ends without having replaced anything.
GiveUp(c) == Goto(c, Idle) /\ gone' = gone \ {c}

\* The upload, and PrepareRestoreFile: a file that is no database of Simfiment,
\* or a newer one, is refused; an older one is upgraded, and its sessions go.
Prepare(c) ==
    /\ request[c].phase = "prepare"
    /\ \/ /\ request[c].backup.schema \in {"older", "current"}
          /\ Works(c)
          /\ Goto(c, [request[c] EXCEPT !.phase = "await", !.backup = Prepared(@)])
          /\ UNCHANGED gone
       \/ /\ \/ request[c].backup.schema \in {"newer", "broken"} /\ UNCHANGED faults
             \/ Fails(c)
          /\ GiveUp(c)
    /\ UNCHANGED <<live, gate, kept, outcome>>

\* dbGate.Lock announces the writer, then waits for the readers.
Announce(c) ==
    /\ request[c].phase = "await"
    /\ gate.writer = Nobody
    /\ gate' = [gate EXCEPT !.writer = c]
    /\ Goto(c, [request[c] EXCEPT !.phase = "announced"])
    /\ UNCHANGED <<live, gone, kept, faults, outcome>>

\* Faulty variant: the readers are not waited for.
AcquireAtOnce(c) ==
    /\ request[c].phase = "announced"
    /\ Goto(c, [request[c] EXCEPT !.phase = "locked"])
    /\ UNCHANGED <<live, gate, gone, kept, faults, outcome>>

Acquire(c) ==
    /\ request[c].phase = "announced"
    /\ gate.readers = {}
    /\ Goto(c, [request[c] EXCEPT !.phase = "locked"])
    /\ UNCHANGED <<live, gate, gone, kept, faults, outcome>>

\* Faulty variant: the session seen before the upload is trusted.
ReauthenticateNot(c) ==
    /\ request[c].phase = "locked"
    /\ Works(c)
    /\ Goto(c, [request[c] EXCEPT !.phase = "snapshot"])
    /\ UNCHANGED <<live, gate, gone, kept, outcome>>

\* The session may have ended during the upload.
Reauthenticate(c) ==
    /\ request[c].phase = "locked"
    /\ \/ /\ request[c].session \in live.sessions
          /\ Works(c)
          /\ Goto(c, [request[c] EXCEPT !.phase = "snapshot"])
          /\ UNCHANGED <<gate, gone>>
       \/ /\ \/ request[c].session \notin live.sessions /\ UNCHANGED faults
             \/ Fails(c)
          /\ GiveUp(c)
          /\ Unlock(c)
    /\ UNCHANGED <<live, kept, outcome>>

\* The answer to a restore that came to replace the database, or failed to.
Answer(c, result, before) ==
    /\ outcome' = [result |-> result, connected |-> c \notin gone,
                   before |-> before, after |-> live]
    /\ GiveUp(c)
    /\ Unlock(c)

\* createSnapshot.
Snapshot(c) ==
    /\ request[c].phase = "snapshot"
    /\ \/ /\ Works(c)
          /\ Goto(c, [phase |-> "copy", session |-> request[c].session,
                      backup |-> request[c].backup, rollback |-> live])
          /\ UNCHANGED <<gate, gone, outcome>>
       \/ Fails(c) /\ Answer(c, "failed", live)
    /\ UNCHANGED <<live, kept>>

\* restoreFromFile of the uploaded backup.
Copy(c) ==
    /\ request[c].phase = "copy"
    /\ \/ /\ Works(c)
          /\ live' = request[c].backup
          /\ Goto(c, [request[c] EXCEPT !.phase = "check"])
       \/ /\ Fails(c)
          /\ Goto(c, [request[c] EXCEPT !.phase = "recover"])
          /\ UNCHANGED live
    /\ UNCHANGED <<gate, gone, kept, outcome>>

\* Faulty variant: an unhealthy database is reported, but stays.
CheckReportsOnly(c) ==
    /\ request[c].phase = "check"
    /\ \/ live.schema = "current" /\ Works(c) /\ Answer(c, "restored", request[c].rollback)
       \/ Fails(c) /\ Answer(c, "failed", request[c].rollback)
    /\ UNCHANGED <<live, kept>>

\* Health, which counts the migrations, and ForeignKeyCheck.
Check(c) ==
    /\ request[c].phase = "check"
    /\ \/ /\ live.schema = "current"
          /\ Works(c)
          /\ Answer(c, "restored", request[c].rollback)
       \/ /\ \/ live.schema # "current" /\ UNCHANGED faults
             \/ Fails(c)
          /\ Goto(c, [request[c] EXCEPT !.phase = "recover"])
          /\ UNCHANGED <<gate, gone, outcome>>
    /\ UNCHANGED <<live, kept>>

\* Faulty variant: the snapshot is removed in any case.
EmergencyRemoved(c) ==
    /\ UNCHANGED kept
    /\ Answer(c, "failed", request[c].rollback)

\* Neither the backup nor the snapshot could be installed: the snapshot stays.
Emergency(c) ==
    /\ kept' = kept \cup {request[c].rollback}
    /\ Answer(c, "failed", request[c].rollback)

\* restoreFromFile of the snapshot, with the context of the same request.
Recover(c) ==
    /\ request[c].phase = "recover"
    /\ \/ /\ Works(c)
          /\ live' = request[c].rollback
          /\ Goto(c, [request[c] EXCEPT !.phase = "recheck"])
          /\ UNCHANGED <<gate, gone, kept, outcome>>
       \/ Fails(c) /\ Emergency(c) /\ UNCHANGED live

Recheck(c) ==
    /\ request[c].phase = "recheck"
    /\ \/ Works(c) /\ Answer(c, "failed", request[c].rollback) /\ UNCHANGED kept
       \/ Fails(c) /\ Emergency(c)
    /\ UNCHANGED live

\* The client of a restore goes away; its request runs on.
Disconnect(c) ==
    /\ Disconnects
    /\ request[c].phase \in {"admit"} \cup Waiting \cup Replacing
    /\ gone' = gone \cup {c}
    /\ UNCHANGED <<live, gate, request, kept, faults, outcome>>

\* The process ends and starts again, which opens the database as Migrate leaves
\* it; the files of its restores stay.
Crash ==
    /\ kept' = kept \cup {request[c].rollback : c \in {d \in Clients : request[d].phase \in Replacing}}
    /\ gate' = [readers |-> {}, queued |-> {}, writer |-> Nobody]
    /\ request' = [c \in Clients |-> Idle]
    /\ gone' = {}
    /\ live' = Migrated(live)
    /\ UNCHANGED <<faults, outcome>>

-----------------------------------------------------------------------------

Step(c) ==
    \/ Authorize(c) \/ Serve(c) \/ Leave(c)
    \/ Admit(c) \/ Prepare(c) \/ Announce(c) \/ Acquire(c) \/ Reauthenticate(c)
    \/ Snapshot(c) \/ Copy(c) \/ Check(c) \/ Recover(c) \/ Recheck(c)

Next ==
    \/ \E c \in Clients :
          \/ \E s \in Sessions :
                \/ \E op \in Operations : Arrive(c, op, s)
                \/ \E backup \in Uploads : ArriveRestore(c, backup, s)
          \/ Step(c)
          \/ Disconnect(c)
    \/ Crash

Spec == Init /\ [][Next]_vars

\* Every goroutine gets on, and every response is written within the server's
\* timeout; nothing makes clients come, go away, or the process crash.
Fairness == \A c \in Clients : WF_vars(Step(c))

FairSpec == Spec /\ Fairness

-----------------------------------------------------------------------------
(* Properties *)

\* From its authorization to its response a request works on the database that
\* authorized it: no restore comes in between, whenever readers and writers
\* arrive.
OneDatabase ==
    \A c \in Clients :
        request[c].phase \in {"serve", "leave"} => request[c].book = live.book

\* What a request is served from has the current schema, whichever file was
\* uploaded and whatever failed in a restore before.
ServedFromCurrentSchema ==
    \A c \in Clients :
        request[c].phase \in {"serve", "leave"} => live.schema = "current"

\* A restore answered with success has installed a database nobody is logged in
\* to; one answered with failure leaves the original live, or on the disk.
NothingLost ==
    /\ outcome # Idle /\ outcome.result = "restored" => outcome.after.sessions = {}
    /\ outcome # Idle /\ outcome.result = "failed" =>
           outcome.after = outcome.before \/ outcome.before \in kept

\* A restore answered with failure leaves the original live.
FailedRestoreKeepsData ==
    outcome # Idle /\ outcome.result = "failed" => outcome.after = outcome.before

\* It does, unless its client went away or the disk failed twice: a failed check
\* is followed by the recovery, in every order of failures and crashes.
RecoversFromOneFailure ==
    outcome # Idle /\ outcome.result = "failed" /\ outcome.connected /\ faults <= 1 =>
        outcome.after = outcome.before

\* While a restore is under way the database is still the one it started from.
Recorded ==
    IF \E c \in Clients : request[c].phase \in Replacing
    THEN (CHOOSE c \in Clients : request[c].phase \in Replacing)
    ELSE Nobody

InForce == IF Recorded = Nobody THEN live ELSE request[Recorded].rollback

Vault == INSTANCE DatabaseVault WITH
    book <- InForce.book, entry <- InForce.entry, sessions <- InForce.sessions

\* Whatever fails, and whenever the process crashes, the database changes as
\* DatabaseVault promises: a restore happens at once, on behalf of a session
\* that is valid at that moment, or not at all.
KeepsTheVault == Vault!Spec

\* A restore that waits for the gate gets it, though requests keep coming.
RestoreGetsTheGate ==
    \A c \in Clients : request[c].phase = "announced" ~> request[c].phase # "announced"

\* A request that came while the gate was closed ends, though restores keep
\* coming.
EveryoneIsServed ==
    \A c \in Clients : request[c].phase = "authorize" ~> request[c] = Idle
=============================================================================
