---------------------------- MODULE Transactions ----------------------------
(***************************************************************************)
(* Transactions: their idempotent creation, editing, soft deletion, the    *)
(* entry location that arrives later, and the loan or repayment they may   *)
(* track (internal/service/transactions and settlements, with their        *)
(* stores).  Amounts and currencies are the matter of Ledger.              *)
(*                                                                         *)
(* All operations but CompleteSettlement check in one store call and write *)
(* in a later one, so that other requests come in between.                 *)
(***************************************************************************)
EXTENDS Integers

CONSTANTS
    Clients,     \* requests that run at the same time
    RequestIds,  \* client_request_id, which names a transaction here
    Payloads,    \* what create requests ask for, as far as it is fingerprinted
    Moments,     \* the times at which something may have occurred
    Categories   \* of one kind

Statuses == {"none", "pending", "attached", "failed", "skipped"}

\* The location intents none, skip, capture and capture with a location are
\* given by the status they start with.
Payload == [category : Categories, tracked : BOOLEAN,
            status : {"none", "pending", "attached", "skipped"}, occurredAt : Moments]

ASSUME TransactionsAssumption == Payloads \subseteq Payload

VARIABLES
    transactions,  \* a row for each request id used
    active,        \* the categories that are not archived
    request,       \* what the request of each client has found
    answered       \* history: the creations answered with success

vars == <<transactions, active, request, answered>>

NoPayload == [recurring |-> TRUE]

\* fresh: created within the last five minutes.  located: there is a row in
\* transaction_locations.  tracked: settlement_counterparty is not empty.
Transaction == [payload : Payloads \cup {NoPayload}, source : {"manual", "recurring"},
                category : Categories, deleted : BOOLEAN, fresh : BOOLEAN,
                status : Statuses, located : BOOLEAN,
                tracked : BOOLEAN, completed : BOOLEAN]

\* What an edit asks for: a category, and to keep, set or remove the settlement.
Edit == [category : Categories, settlement : {"keep", "track", "remove"}]

Idle == [phase |-> "idle"]

Operations == {"delete", "restore", "attach", "fail", "remove"}

\* seen (history): what the request has found in the row, which others may change
\* before it writes: deleted, or else the status of the location.
Findings == Statuses \cup {"deleted", "unread"}

Request ==
    {Idle}
    \cup [phase : {"create.category", "create.write"}, id : RequestIds, payload : Payloads]
    \cup [phase : {"look", "write"}, id : RequestIds, op : Operations, seen : Findings]
    \cup [phase : {"look", "update.category", "write"}, id : RequestIds, op : {"update"},
          edit : Edit, seen : Findings]

Existing == DOMAIN transactions

\* A request that has found a transaction finds it again: none is ever removed.
RequestsHoldTransactions ==
    \A c \in Clients :
        request[c].phase \in {"look", "update.category", "write"} =>
            request[c].id \in Existing

TypeOK ==
    /\ Existing \subseteq RequestIds
    /\ transactions \in [Existing -> Transaction]
    /\ active \subseteq Categories
    /\ request \in [Clients -> Request]
    /\ answered \subseteq RequestIds \X Payloads
    /\ RequestsHoldTransactions

Init ==
    /\ transactions = [id \in {} |-> Idle]
    /\ active = Categories
    /\ request = [c \in Clients |-> Idle]
    /\ answered = {}

-----------------------------------------------------------------------------
(* CreateTransaction *)

Reply(c) == request' = [request EXCEPT ![c] = Idle]

Goto(c, next) == request' = [request EXCEPT ![c] = next]

\* A request id used before answers with its transaction, or with
\* idempotency_conflict if the fingerprints differ.
AnswerExisting(c, id, payload) ==
    /\ Reply(c)
    /\ answered' = IF transactions[id].payload = payload
                   THEN answered \cup {<<id, payload>>} ELSE answered
    /\ UNCHANGED transactions

CreateFind(c, id, payload) ==
    /\ request[c] = Idle
    /\ IF id \in Existing
       THEN AnswerExisting(c, id, payload)
       ELSE /\ Goto(c, [phase |-> "create.category", id |-> id, payload |-> payload])
            /\ UNCHANGED <<transactions, answered>>
    /\ UNCHANGED active

CreateCategory(c) ==
    /\ request[c].phase = "create.category"
    /\ IF request[c].payload.category \in active
       THEN Goto(c, [request[c] EXCEPT !.phase = "create.write"])
       ELSE Reply(c)
    /\ UNCHANGED <<transactions, active, answered>>

Manual(payload) ==
    [payload |-> payload, source |-> "manual", category |-> payload.category,
     deleted |-> FALSE, fresh |-> TRUE, status |-> payload.status,
     located |-> payload.status = "attached",
     tracked |-> payload.tracked, completed |-> FALSE]

Recurring(category) ==
    [payload |-> NoPayload, source |-> "recurring", category |-> category,
     deleted |-> FALSE, fresh |-> TRUE, status |-> "none", located |-> FALSE,
     tracked |-> FALSE, completed |-> FALSE]

Insert(id, transaction) ==
    transactions' = [i \in Existing \cup {id} |->
                        IF i = id THEN transaction ELSE transactions[i]]

\* Faulty variant: the fingerprint is not compared the second time.
CreateWriteAnyPayload(c) ==
    LET id == request[c].id
        payload == request[c].payload
    IN  /\ request[c].phase = "create.write"
        /\ IF id \in Existing THEN UNCHANGED transactions ELSE Insert(id, Manual(payload))
        /\ answered' = answered \cup {<<id, payload>>}
        /\ Reply(c)
        /\ UNCHANGED active

\* One transaction: the request id is looked up again, then the row, its
\* settlement and its location are inserted.
CreateWrite(c) ==
    LET id == request[c].id
        payload == request[c].payload
    IN  /\ request[c].phase = "create.write"
        /\ IF id \in Existing
           THEN AnswerExisting(c, id, payload)
           ELSE /\ Insert(id, Manual(payload))
                /\ Reply(c)
                /\ answered' = answered \cup {<<id, payload>>}
        /\ UNCHANGED active

\* ConfirmOccurrence, whose transaction is not a manual one.
ConfirmRecurring(id, category) ==
    /\ id \in RequestIds \ Existing
    /\ category \in active
    /\ Insert(id, Recurring(category))
    /\ UNCHANGED <<active, request, answered>>

-----------------------------------------------------------------------------
(* GetTransaction, with which every other operation begins *)

\* Faulty variant: deleted transactions are passed over.
ExpiredUndeleted(t) ==
    IF t.status = "pending" /\ ~t.fresh /\ ~t.deleted THEN [t EXCEPT !.status = "failed"] ELSE t

\* ExpirePendingLocations, row by row.
Expired(t) ==
    IF t.status = "pending" /\ ~t.fresh THEN [t EXCEPT !.status = "failed"] ELSE t

ExpireAll == transactions' = [id \in Existing |-> Expired(transactions[id])]

\* A list, an export or a look at one transaction.
Read == ExpireAll /\ UNCHANGED <<active, request, answered>>

Open(c, id, op) ==
    /\ request[c] = Idle
    /\ id \in Existing
    /\ ExpireAll
    /\ Goto(c, [phase |-> "look", id |-> id, op |-> op, seen |-> "unread"])
    /\ UNCHANGED <<active, answered>>

OpenUpdate(c, id, edit) ==
    /\ request[c] = Idle
    /\ id \in Existing
    /\ ExpireAll
    /\ Goto(c, [phase |-> "look", id |-> id, op |-> "update", edit |-> edit,
                seen |-> "unread"])
    /\ UNCHANGED <<active, answered>>

\* Faulty variant: a location is removed from any transaction.
LocationAllowsAnySource(t, op) ==
    CASE op = "attach" -> t.source = "manual" /\ t.fresh /\ t.status \in {"pending", "failed", "attached"}
      [] op = "fail" -> t.source = "manual" /\ t.status = "pending"
      [] OTHER -> TRUE

\* Faulty variant: a location is attached whatever became of it.
LocationAllowsAnyStatus(t, op) ==
    CASE op = "attach" -> t.source = "manual" /\ t.fresh
      [] op = "fail" -> t.source = "manual" /\ t.status = "pending"
      [] op = "remove" -> t.source = "manual"
      [] OTHER -> TRUE

\* What the operations on a location ask of source, age and status.  A location
\* already marked as failed is answered without a write.
LocationAllows(t, op) ==
    CASE op = "attach" -> t.source = "manual" /\ t.fresh /\ t.status \in {"pending", "failed", "attached"}
      [] op = "fail" -> t.source = "manual" /\ t.status = "pending"
      [] op = "remove" -> t.source = "manual"
      [] OTHER -> TRUE

\* Faulty variant: a deleted transaction is edited.
AllowedEvenDeleted(t, op) ==
    (op \in {"delete", "restore", "update"} \/ ~t.deleted) /\ LocationAllows(t, op)

\* The conditions under which each operation goes on.
Allowed(t, op) ==
    (op \in {"delete", "restore"} \/ ~t.deleted) /\ LocationAllows(t, op)

Seen(t) == IF t.deleted THEN "deleted" ELSE t.status

Look(c) ==
    LET op == request[c].op
        t == transactions[request[c].id]
    IN  /\ request[c].phase = "look"
        /\ IF Allowed(t, op)
           THEN Goto(c, [request[c] EXCEPT
                            !.phase = IF op = "update" THEN "update.category" ELSE "write",
                            !.seen = Seen(t)])
           ELSE Reply(c)
        /\ UNCHANGED <<transactions, active, answered>>

UpdateCategory(c) ==
    /\ request[c].phase = "update.category"
    /\ IF request[c].edit.category \in active
       THEN Goto(c, [request[c] EXCEPT !.phase = "write"])
       ELSE Reply(c)
    /\ UNCHANGED <<transactions, active, answered>>

\* Faulty variant: the completion outlives the tracking.
SettledKeepingCompletion(t, settlement) ==
    IF settlement = "keep" THEN t ELSE [t EXCEPT !.tracked = settlement = "track"]

\* SetSettlement: an empty counterparty ends the tracking and its completion.
Settled(t, settlement) ==
    CASE settlement = "keep" -> t
      [] settlement = "track" -> [t EXCEPT !.tracked = TRUE]
      [] settlement = "remove" -> [t EXCEPT !.tracked = FALSE, !.completed = FALSE]

\* SetTransactionDeleted, UpsertLocation, SetLocationStatus, DeleteLocation:
\* none of them looks at the row again.
Written(t, op) ==
    CASE op = "delete"  -> [t EXCEPT !.deleted = TRUE]
      [] op = "restore" -> [t EXCEPT !.deleted = FALSE]
      [] op = "attach"  -> [t EXCEPT !.status = "attached", !.located = TRUE]
      [] op = "fail"    -> [t EXCEPT !.status = "failed"]
      [] op = "remove"  -> [t EXCEPT !.status = "skipped", !.located = FALSE]

Write(c) ==
    /\ request[c].phase = "write"
    /\ request[c].op \in Operations
    /\ transactions' = [transactions EXCEPT ![request[c].id] = Written(@, request[c].op)]
    /\ Reply(c)
    /\ UNCHANGED <<active, answered>>

\* The row and its settlement, in one transaction.
WriteUpdate(c) ==
    /\ request[c].phase = "write"
    /\ request[c].op = "update"
    /\ transactions' = [transactions EXCEPT ![request[c].id] =
          [Settled(@, request[c].edit.settlement) EXCEPT !.category = request[c].edit.category]]
    /\ Reply(c)
    /\ UNCHANGED <<active, answered>>

\* CompleteSettlement checks and writes in one transaction.
CompleteSettlement(id, completed) ==
    /\ id \in Existing
    /\ ~transactions[id].deleted
    /\ transactions[id].tracked
    /\ transactions' = [transactions EXCEPT ![id].completed = completed]
    /\ UNCHANGED <<active, request, answered>>

\* The client goes away between two steps.
Cancel(c) ==
    /\ request[c] # Idle
    /\ Reply(c)
    /\ UNCHANGED <<transactions, active, answered>>

\* The five minutes after a transaction's creation pass.
Age(id) ==
    /\ id \in Existing
    /\ transactions[id].fresh
    /\ transactions' = [transactions EXCEPT ![id].fresh = FALSE]
    /\ UNCHANGED <<active, request, answered>>

ArchiveCategory(category) ==
    /\ category \in active
    /\ \E other \in active : other # category
    /\ active' = active \ {category}
    /\ UNCHANGED <<transactions, request, answered>>

RestoreCategory(category) ==
    /\ category \notin active
    /\ active' = active \cup {category}
    /\ UNCHANGED <<transactions, request, answered>>

-----------------------------------------------------------------------------

Step(c) ==
    \/ CreateCategory(c) \/ CreateWrite(c)
    \/ Look(c) \/ UpdateCategory(c) \/ Write(c) \/ WriteUpdate(c)

Arrive(c) ==
    \E id \in RequestIds :
        \/ \E payload \in Payloads : CreateFind(c, id, payload)
        \/ \E op \in Operations : Open(c, id, op)
        \/ \E edit \in Edit : OpenUpdate(c, id, edit)

Next ==
    \/ \E c \in Clients : Arrive(c) \/ Step(c) \/ Cancel(c)
    \/ \E id \in RequestIds :
          \/ \E category \in Categories : ConfirmRecurring(id, category)
          \/ \E completed \in BOOLEAN : CompleteSettlement(id, completed)
          \/ Age(id)
    \/ \E category \in Categories : ArchiveCategory(category) \/ RestoreCategory(category)
    \/ Read

Spec == Init /\ [][Next]_vars

\* Time passes, and somebody lists transactions now and then.
Fairness == WF_vars(Read) /\ \A id \in RequestIds : WF_vars(Age(id))

FairSpec == Spec /\ Fairness

-----------------------------------------------------------------------------
(* Properties *)

\* A create request answered with success has made, or found, the transaction
\* of exactly its content, and that transaction stays, whatever retries, lost
\* responses, edits and deletions follow; two different contents are never both
\* accepted under one request id.
AnswersStand ==
    \A a \in answered :
        a[1] \in Existing /\ transactions[a[1]].payload = a[2]

\* An attached location has a row, a row belongs to no status but attached or
\* (after a race) failed, and a transaction made from a recurring item never
\* has a location, however its operations overlap.
LocationShape ==
    \A id \in Existing :
        LET t == transactions[id]
        IN  /\ t.status = "attached" => t.located
            /\ t.located => t.status \in {"attached", "failed"}
            /\ t.source = "recurring" => t.status = "none"

\* Only what is tracked is completed: an edit that ends the tracking races with
\* the completion of it, in either order.
CompletedIsTracked ==
    \A id \in Existing : transactions[id].completed => transactions[id].tracked

\* Transaction id is written by a request that had found one of findings in it.
Belated(id, findings) ==
    \E c \in Clients :
        /\ request[c].phase = "write" /\ request[c].id = id /\ request'[c] = Idle
        /\ request[c].seen \in findings

\* A deleted transaction that stays deleted stays as it is, but for a pending
\* location that expires, unless a request writes it that had found it before it was
\* deleted: no edit, location or completion that comes later gets through.
DeletedStaysAsItIs ==
    [][\A id \in Existing :
          transactions[id].deleted /\ transactions'[id].deleted =>
              \/ transactions'[id] \in
                     {transactions[id], Expired(transactions[id]),
                      [transactions[id] EXCEPT !.fresh = FALSE]}
              \/ Belated(id, Statuses)]_transactions

\* A transaction whose location was removed, or never asked for, gets none, and one
\* whose location is attached is not marked as failed, unless by a request that had
\* found a status with which it may.
SettledLocationStays ==
    [][\A id \in Existing :
          LET was == transactions[id].status
              is == transactions'[id].status
          IN  /\ was \in {"none", "skipped"} /\ is \notin {"none", "skipped"} =>
                     Belated(id, {"pending", "attached", "failed"})
              /\ was = "attached" /\ is = "failed" => Belated(id, {"pending"})]_transactions

Expecting(id) == id \in Existing /\ transactions[id].status = "pending"

\* A location that is still expected does not stay so for ever: it arrives, is
\* given up by the user, or expires, also if the transaction is deleted first.
PendingLocationResolves == \A id \in RequestIds : Expecting(id) ~> ~Expecting(id)
=============================================================================
