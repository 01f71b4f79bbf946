------------------------------ MODULE EntryFlow -----------------------------
(***************************************************************************)
(* The entry form of the page and the server of Transactions: a save that  *)
(* is answered, times out or is lost on the way, its retry under the same  *)
(* request id, the device's location that comes before or after it, and    *)
(* the undo (web/src: TransactionEntry, useEntryLocation and api/client).  *)
(*                                                                         *)
(* Each call of the page is served by a handler of its own, a client of    *)
(* Transactions, which runs on when the page has stopped waiting.          *)
(***************************************************************************)
EXTENDS Transactions

CONSTANTS
    Forms,              \* what a user types: a category and whether to track
    AutomaticLocation,  \* the setting automaticLocationEnabled
    MaxActs             \* bound: the user, the device and others act no more often

Nobody == "nobody"

Undefined == "undefined"

\* The status a save asks for, by the switch and the location known so far.
Intent(locate, found) ==
    IF locate THEN IF found THEN "attached" ELSE "pending"
    ELSE IF AutomaticLocation THEN "skipped" ELSE "none"

Content(typed, locate, found, at) ==
    [category |-> typed.category, tracked |-> typed.tracked,
     status |-> Intent(locate, found), occurredAt |-> at]

ASSUME EntryAssumption ==
    /\ Nobody \notin Clients
    /\ Undefined \notin Moments
    /\ Forms \subseteq [category : Categories, tracked : BOOLEAN]
    /\ AutomaticLocation \in BOOLEAN
    /\ MaxActs \in Nat
    /\ \A typed \in Forms, locate \in BOOLEAN, found \in BOOLEAN, at \in Moments :
          Content(typed, locate, found, at) \in Payloads

VARIABLES
    entry,     \* the form and the progress of its save
    capture,   \* the location looked for under each request id drawn so far
    call,      \* the call that each handler serves
    follow,    \* the recorded entries whose location is still to be reported
    acts,      \* how much the user, the device and others have done
    told,      \* history: the saves the page was told are recorded
    rejected   \* history: the entries of which a save was rejected as invalid

entryVars == <<entry, capture, call, follow, acts, told, rejected>>

\* submittingRef is set in the phases saving and refreshing, submittedAtRef is at.
Entry == [id : RequestIds, typed : Forms, locate : BOOLEAN, at : Moments \cup {Undefined},
          phase : {"typing", "saving", "refreshing", "done"},
          handler : Clients \cup {Nobody}, status : Statuses \cup {Undefined}]

\* Positions found for one entry are not told apart.
Captures == {"off", "finding", "ready", "failed"}

Free == [stage |-> "free"]

Call ==
    {Free}
    \cup [stage : {"sent", "running"}, kind : {"create"}, id : RequestIds, payload : Payloads]
    \cup [stage : {"answered"}, id : RequestIds, payload : Payloads,
          result : {"created", "conflict"}, status : Statuses]
    \cup [stage : {"answered"}, id : RequestIds, payload : Payloads, result : {"rejected"}]
    \cup [stage : {"sent", "running"}, kind : {"attach", "fail", "delete"}, id : RequestIds]

EntryTypeOK ==
    /\ TypeOK
    /\ entry \in Entry
    /\ entry.id \in DOMAIN capture
    /\ DOMAIN capture \subseteq RequestIds
    /\ capture \in [DOMAIN capture -> Captures]
    /\ call \in [Clients -> Call]
    /\ follow \subseteq Existing
    /\ acts \in 0..MaxActs
    /\ told \subseteq RequestIds \X Payloads
    /\ rejected \subseteq RequestIds
    /\ entry.phase = "saving" <=> entry.handler \in Clients

-----------------------------------------------------------------------------
(* The form *)

Act == acts < MaxActs /\ acts' = acts + 1

Fresh(id, typed) ==
    [id |-> id, typed |-> typed, locate |-> AutomaticLocation, at |-> Undefined,
     phase |-> "typing", handler |-> Nobody, status |-> Undefined]

Capturing == IF AutomaticLocation THEN "finding" ELSE "off"

EntryInit ==
    /\ Init
    /\ \E id \in RequestIds, typed \in Forms :
          /\ entry = Fresh(id, typed)
          /\ capture = [i \in {id} |-> Capturing]
    /\ call = [c \in Clients |-> Free]
    /\ follow = {}
    /\ acts = 0
    /\ told = {}
    /\ rejected = {}

\* The fields stay open to the user while a save is under way.
Type(typed) ==
    /\ Act
    /\ entry.phase # "done"
    /\ entry' = [entry EXCEPT !.typed = typed]
    /\ UNCHANGED <<vars, capture, call, follow, told, rejected>>

\* The switch: the effect of useEntryLocation ends a capture or starts another.
Toggle ==
    /\ Act
    /\ entry.phase # "done"
    /\ entry' = [entry EXCEPT !.locate = ~@]
    /\ capture' = [capture EXCEPT ![entry.id] = IF entry.locate THEN "off" ELSE "finding"]
    /\ UNCHANGED <<vars, call, follow, told, rejected>>

\* getCurrentPosition answers within three seconds, with a position or without.
Located(id, found) ==
    /\ Act
    /\ id \in DOMAIN capture
    /\ capture[id] = "finding"
    /\ capture' = [capture EXCEPT ![id] = IF found THEN "ready" ELSE "failed"]
    /\ UNCHANGED <<vars, entry, call, follow, told, rejected>>

Send(c, k) ==
    /\ call[c] = Free
    /\ call' = [call EXCEPT ![c] = k]

Create(id, payload) == [stage |-> "sent", kind |-> "create", id |-> id, payload |-> payload]

Save(c, at) ==
    /\ Act
    /\ entry.phase = "typing"
    /\ entry' = [entry EXCEPT !.phase = "saving", !.handler = c, !.at = at]
    /\ Send(c, Create(entry.id,
                 Content(entry.typed, entry.locate, capture[entry.id] = "ready", at)))
    /\ UNCHANGED <<vars, capture, follow, told, rejected>>

\* Faulty variant: a retry occurs at another moment.
SubmitAnew(c, now) == Save(c, now)

\* submit, and the mutation it starts, which keeps the moment of the first try.
Submit(c, now) == Save(c, IF entry.at = Undefined THEN now ELSE entry.at)

-----------------------------------------------------------------------------
(* The server *)

\* The answer to a call nobody waits for is lost.
Answer(c, answer) ==
    call' = [call EXCEPT ![c] = IF entry.handler = c THEN answer ELSE Free]

\* Faulty variant: whatever is found under the request id is taken for created.
AnyResult(table, k) ==
    [stage |-> "answered", id |-> k.id, payload |-> k.payload,
     status |-> table[k.id].status, result |-> "created"]

\* The transaction of the request id, or idempotency_conflict.
Result(table, k) ==
    [stage |-> "answered", id |-> k.id, payload |-> k.payload, status |-> table[k.id].status,
     result |-> IF table[k.id].payload = k.payload THEN "created" ELSE "conflict"]

Rejection(k) ==
    [stage |-> "answered", id |-> k.id, payload |-> k.payload, result |-> "rejected"]

RunsOn(c) == call' = [call EXCEPT ![c].stage = "running"]

\* A create request arrives and is looked up.
Deliver(c) ==
    /\ call[c].stage = "sent"
    /\ call[c].kind = "create"
    /\ CreateFind(c, call[c].id, call[c].payload)
    /\ IF call[c].id \in Existing THEN Answer(c, Result(transactions, call[c])) ELSE RunsOn(c)
    /\ UNCHANGED <<entry, capture, follow, acts, told, rejected>>

\* Its handler goes on: a category that is archived is a rejection.
Serve(c) ==
    /\ call[c].stage = "running"
    /\ call[c].kind = "create"
    /\ \/ /\ CreateCategory(c)
          /\ IF call[c].payload.category \in active THEN UNCHANGED call
             ELSE Answer(c, Rejection(call[c]))
       \/ /\ CreateWrite(c)
          /\ Answer(c, Result(transactions', call[c]))
    /\ UNCHANGED <<entry, capture, follow, acts, told, rejected>>

\* The other calls of the page, whose answers it does not look at.
DeliverOther(c) ==
    /\ call[c].stage = "sent"
    /\ call[c].kind # "create"
    /\ Open(c, call[c].id, call[c].kind)
    /\ RunsOn(c)
    /\ UNCHANGED <<entry, capture, follow, acts, told, rejected>>

ServeOther(c) ==
    /\ call[c].stage = "running"
    /\ call[c].kind # "create"
    /\ Look(c) \/ Write(c)
    /\ call' = IF request'[c] = Idle THEN [call EXCEPT ![c] = Free] ELSE call
    /\ UNCHANGED <<entry, capture, follow, acts, told, rejected>>

\* A call nobody waits for any more is lost on its way, or ends between two
\* steps because its connection is closed.
Abandon(c) ==
    /\ entry.handler # c
    /\ \/ call[c].stage = "sent" /\ UNCHANGED vars
       \/ call[c].stage = "running" /\ Cancel(c)
    /\ call' = [call EXCEPT ![c] = Free]
    /\ UNCHANGED <<entry, capture, follow, acts, told, rejected>>

\* Other requests, and time.
Elsewhere ==
    /\ \/ /\ Act
          /\ \/ \E id \in RequestIds : Age(id)
             \/ \E category \in Categories : ArchiveCategory(category) \/ RestoreCategory(category)
       \/ Read /\ UNCHANGED acts
    /\ UNCHANGED <<entry, capture, call, follow, told, rejected>>

-----------------------------------------------------------------------------
(* The answer *)

Answered(result) ==
    /\ entry.phase = "saving"
    /\ call[entry.handler].stage = "answered"
    /\ call[entry.handler].result = result
    /\ call' = [call EXCEPT ![entry.handler] = Free]

\* onSuccess, up to the refresh of the queries that it awaits.
Recorded ==
    /\ Answered("created")
    /\ entry' = [entry EXCEPT !.phase = "refreshing", !.handler = Nobody,
                              !.status = call[entry.handler].status]
    /\ told' = told \cup {<<entry.id, call[entry.handler].payload>>}
    /\ UNCHANGED <<vars, capture, follow, acts, rejected>>

\* onError: 4xx other than 409 forgets the moment of the first try.
Rejected ==
    /\ Answered("rejected")
    /\ entry' = [entry EXCEPT !.phase = "typing", !.handler = Nobody, !.at = Undefined]
    /\ rejected' = rejected \cup {entry.id}
    /\ UNCHANGED <<vars, capture, follow, acts, told>>

Conflict ==
    /\ Answered("conflict")
    /\ entry' = [entry EXCEPT !.phase = "typing", !.handler = Nobody]
    /\ UNCHANGED <<vars, capture, follow, acts, told, rejected>>

\* The timeout of fifteen seconds, an error of the network or of the server; the
\* handler may still be at work, or have finished.
Lose ==
    /\ entry.phase = "saving"
    /\ entry' = [entry EXCEPT !.phase = "typing", !.handler = Nobody]
    /\ call' = IF call[entry.handler].stage = "answered"
               THEN [call EXCEPT ![entry.handler] = Free] ELSE call
    /\ UNCHANGED <<vars, capture, follow, acts, told, rejected>>

\* An empty form under another request id; without one left (the bound of the
\* model) the user stops.
Reset ==
    \/ \E id \in RequestIds \ DOMAIN capture, typed \in Forms :
          /\ entry' = Fresh(id, typed)
          /\ capture' = [i \in DOMAIN capture \cup {id} |->
                            IF i = id THEN Capturing ELSE capture[i]]
    \/ /\ DOMAIN capture = RequestIds
       /\ entry' = [entry EXCEPT !.phase = "done", !.handler = Nobody]
       /\ UNCHANGED capture

\* The rest of onSuccess: a location that is still awaited will be reported for
\* this transaction; what was typed meanwhile goes.
Refreshed ==
    /\ entry.phase = "refreshing"
    /\ follow' = IF entry.status = "pending" THEN follow \cup {entry.id} ELSE follow
    /\ Reset
    /\ UNCHANGED <<vars, call, acts, told, rejected>>

\* The page is loaded anew: its calls go on, or not, and nobody waits for them.
Reload ==
    /\ entry.phase # "done"
    /\ Reset
    /\ follow' = {}
    /\ Act
    /\ call' = [c \in Clients |-> IF call[c].stage = "answered" THEN Free ELSE call[c]]
    /\ UNCHANGED <<vars, told, rejected>>

\* Faulty variant: the capture of the form that is shown by then is looked at.
ReportOfShown(c, id) ==
    /\ id \in follow
    /\ capture[entry.id] # "finding"
    /\ follow' = follow \ {id}
    /\ Send(c, [stage |-> "sent", id |-> id,
                kind |-> IF capture[entry.id] = "ready" THEN "attach" ELSE "fail"])
    /\ UNCHANGED <<vars, entry, capture, acts, told, rejected>>

\* The capture of a recorded entry has ended: its location is sent, or why there
\* is none.
Report(c, id) ==
    /\ id \in follow
    /\ capture[id] # "finding"
    /\ follow' = follow \ {id}
    /\ Send(c, [stage |-> "sent", id |-> id,
                kind |-> IF capture[id] = "ready" THEN "attach" ELSE "fail"])
    /\ UNCHANGED <<vars, entry, capture, acts, told, rejected>>

\* The action of the toast that tells the user.
Undo(c, id) ==
    /\ Act
    /\ entry.id # id
    /\ \E t \in told : t[1] = id
    /\ Send(c, [stage |-> "sent", id |-> id, kind |-> "delete"])
    /\ UNCHANGED <<vars, entry, capture, follow, told, rejected>>

-----------------------------------------------------------------------------

EntryNext ==
    \/ \E typed \in Forms : Type(typed)
    \/ Toggle
    \/ \E id \in RequestIds, found \in BOOLEAN : Located(id, found)
    \/ \E c \in Clients :
          \/ \E now \in Moments : Submit(c, now)
          \/ Deliver(c) \/ Serve(c) \/ DeliverOther(c) \/ ServeOther(c) \/ Abandon(c)
          \/ \E id \in RequestIds : Report(c, id) \/ Undo(c, id)
    \/ Elsewhere
    \/ Recorded \/ Rejected \/ Conflict \/ Lose
    \/ Refreshed \/ Reload

EntrySpec == EntryInit /\ [][EntryNext]_<<vars, entryVars>>

-----------------------------------------------------------------------------
(* Properties *)

\* What the page was told is recorded is recorded, with what the form held when
\* that save was sent, whichever of its calls were late, lost or repeated, and
\* whatever was typed meanwhile.
ToldIsRecorded ==
    \A t \in told : t[1] \in Existing /\ transactions[t[1]].payload = t[2]

Conflicting(c) == call[c].stage = "answered" /\ call[c].result = "conflict"

\* A retry is refused as a conflict only if the form or its location differs
\* from what was recorded: time alone makes no difference, because the moment of
\* the first try is kept.  A rejection in between, which forgets it, excepted.
ConflictHasCause ==
    \A c \in Clients : Conflicting(c) /\ call[c].id \notin rejected =>
        LET was == transactions[call[c].id].payload
            is  == call[c].payload
        IN  was.category # is.category \/ was.tracked # is.tracked \/ was.status # is.status

Reporting(c, kind) == call[c].stage \in {"sent", "running"} /\ call[c].kind = kind

\* A location that is reported after the save is that of the transaction it is
\* reported for, and so is the reason why there is none: the form, which may be
\* changed or emptied while the save and the refresh are awaited, goes on to another
\* entry with a capture of its own.
LocationsAreTheirOwn ==
    /\ \A c \in Clients :
          /\ Reporting(c, "attach") => capture[call[c].id] = "ready"
          /\ Reporting(c, "fail") => capture[call[c].id] \in {"off", "failed"}
    /\ \A id \in Existing :
          transactions[id].status = "attached" =>
              transactions[id].payload.status = "attached" \/ capture[id] = "ready"
=============================================================================
