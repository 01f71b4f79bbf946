--------------------------- MODULE EntryFlowProofs --------------------------
(***************************************************************************)
(* Proofs about EntryFlow: what the page was told is recorded is recorded, *)
(* a conflict has a cause, and each location is that of its transaction.   *)
(***************************************************************************)
EXTENDS EntryFlow, TransactionsProofs

-----------------------------------------------------------------------------
(* The shapes of calls *)

CreateCall == [stage : {"sent", "running"}, kind : {"create"}, id : RequestIds, payload : Payloads]

OtherCall == [stage : {"sent", "running"}, kind : {"attach", "fail", "delete"}, id : RequestIds]

IsCreated(k) == k.stage = "answered" /\ k.result = "created"

IsConflict(k) == k.stage = "answered" /\ k.result = "conflict"

LEMMA CallShape ==
    ASSUME NEW k \in Call, k.stage \in {"sent", "running"}
    PROVE  k \in CreateCall \cup OtherCall
BY DEF Call, Free, CreateCall, OtherCall

LEMMA CreateCallTyped ==
    ASSUME NEW k \in Call, k.stage \in {"sent", "running"}, k.kind = "create"
    PROVE  /\ k.id \in RequestIds /\ k.payload \in Payloads
           /\ [k EXCEPT !.stage = "running"] \in Call
<1>1. k \in CreateCall
    BY CallShape DEF CreateCall, OtherCall
<1> QED  BY <1>1 DEF CreateCall, Call

LEMMA OtherCallTyped ==
    ASSUME NEW k \in Call, k.stage \in {"sent", "running"}, k.kind # "create"
    PROVE  /\ k.id \in RequestIds /\ k.kind \in Operations
           /\ [k EXCEPT !.stage = "running"] \in Call
<1>1. k \in OtherCall
    BY CallShape DEF CreateCall, OtherCall
<1> QED  BY <1>1 DEF OtherCall, Call, Operations

LEMMA FreeTyped == Free \in Call /\ Free.stage = "free"
BY DEF Call, Free

LEMMA RejectionTyped ==
    ASSUME NEW k \in Call, k.id \in RequestIds, k.payload \in Payloads
    PROVE  Rejection(k) \in Call /\ ~IsCreated(Rejection(k)) /\ ~IsConflict(Rejection(k))
BY DEF Rejection, Call, IsCreated, IsConflict

LEMMA AnsweredTyped ==
    ASSUME NEW k \in Call, k.stage = "answered"
    PROVE  /\ k.id \in RequestIds /\ k.payload \in Payloads
           /\ k.result \in {"created", "conflict", "rejected"}
           /\ k.result # "rejected" => k.status \in Statuses
BY DEF Call, Free

-----------------------------------------------------------------------------
(* A step of the page is a step of Transactions, or leaves it alone, so    *)
(* that the lemmas about its tables serve here                             *)

EntryTyped ==
    /\ entry \in Entry
    /\ entry.id \in DOMAIN capture
    /\ DOMAIN capture \subseteq RequestIds
    /\ capture \in [DOMAIN capture -> Captures]
    /\ call \in [Clients -> Call]
    /\ follow \subseteq RequestIds
    /\ acts \in 0..MaxActs
    /\ told \subseteq RequestIds \X Payloads
    /\ rejected \subseteq RequestIds
    /\ entry.phase = "saving" <=> entry.handler \in Clients

LEMMA StepOfTheServer == EntryTyped /\ [EntryNext]_<<vars, entryVars>> => [Next]_vars
<1> SUFFICES ASSUME EntryTyped, [EntryNext]_<<vars, entryVars>> PROVE [Next]_vars
    OBVIOUS
<1>0. CASE UNCHANGED <<vars, entryVars>>
    BY <1>0
<1>1. ASSUME NEW typed \in Forms, Type(typed) PROVE [Next]_vars
    BY <1>1 DEF Type
<1>2. CASE Toggle
    BY <1>2 DEF Toggle
<1>3. ASSUME NEW id \in RequestIds, NEW found \in BOOLEAN, Located(id, found) PROVE [Next]_vars
    BY <1>3 DEF Located
<1>4. ASSUME NEW c \in Clients, NEW now \in Moments, Submit(c, now) PROVE [Next]_vars
    BY <1>4 DEF Submit, Save
<1>5. ASSUME NEW c \in Clients, Deliver(c) PROVE [Next]_vars
  <2>1. call[c] \in Call /\ call[c].stage = "sent" /\ call[c].kind = "create"
      BY <1>5 DEF Deliver, EntryTyped
  <2>2. call[c].id \in RequestIds /\ call[c].payload \in Payloads
      BY <2>1, CreateCallTyped
  <2>3. CreateFind(c, call[c].id, call[c].payload)
      BY <1>5 DEF Deliver
  <2> QED  BY <2>2, <2>3 DEF Next, Arrive
<1>6. ASSUME NEW c \in Clients, Serve(c) PROVE [Next]_vars
  <2>1. CreateCategory(c) \/ CreateWrite(c)
      BY <1>6 DEF Serve
  <2> QED  BY <2>1 DEF Next, Step
<1>7. ASSUME NEW c \in Clients, DeliverOther(c) PROVE [Next]_vars
  <2>1. call[c] \in Call /\ call[c].stage = "sent" /\ call[c].kind # "create"
      BY <1>7 DEF DeliverOther, EntryTyped
  <2>2. call[c].id \in RequestIds /\ call[c].kind \in Operations
      BY <2>1, OtherCallTyped
  <2>3. Open(c, call[c].id, call[c].kind)
      BY <1>7 DEF DeliverOther
  <2> QED  BY <2>2, <2>3 DEF Next, Arrive
<1>8. ASSUME NEW c \in Clients, ServeOther(c) PROVE [Next]_vars
  <2>1. Look(c) \/ Write(c)
      BY <1>8 DEF ServeOther
  <2> QED  BY <2>1 DEF Next, Step
<1>9. ASSUME NEW c \in Clients, Abandon(c) PROVE [Next]_vars
  <2>1. UNCHANGED vars \/ Cancel(c)
      BY <1>9 DEF Abandon
  <2> QED  BY <2>1 DEF Next
<1>10. ASSUME NEW c \in Clients, NEW id \in RequestIds, Report(c, id) \/ Undo(c, id)
       PROVE  [Next]_vars
    BY <1>10 DEF Report, Undo
<1>11. CASE Elsewhere
  <2>1. \/ Read
        \/ \E id \in RequestIds : Age(id)
        \/ \E category \in Categories : ArchiveCategory(category) \/ RestoreCategory(category)
      BY <1>11 DEF Elsewhere
  <2> QED  BY <2>1 DEF Next
<1>12. CASE Recorded \/ Rejected \/ Conflict \/ Lose \/ Refreshed \/ Reload
    BY <1>12 DEF Recorded, Rejected, Conflict, Lose, Refreshed, Reload
<1> QED
    BY <1>0, <1>1, <1>2, <1>3, <1>4, <1>5, <1>6, <1>7, <1>8, <1>9, <1>10, <1>11, <1>12
    DEF EntryNext

-----------------------------------------------------------------------------
(* What becomes of the calls *)

Held(id, payload) == id \in Existing /\ transactions[id].payload = payload

HeldNext(id, payload) == id \in Existing' /\ transactions'[id].payload = payload

OtherNext(id, payload) == id \in Existing' /\ transactions'[id].payload # payload

\* The handler of a running save is at work on exactly that save.
Linked ==
    \A c \in Clients :
        call[c].stage = "running" /\ call[c].kind = "create" =>
            /\ request[c].phase \in {"create.category", "create.write"}
            /\ request[c].id = call[c].id
            /\ request[c].payload = call[c].payload

\* The page waits for a save of the entry that it shows.
Waits ==
    entry.phase = "saving" =>
        /\ call[entry.handler].id = entry.id
        /\ \/ call[entry.handler].stage = "answered"
           \/ call[entry.handler].stage \in {"sent", "running"} /\ call[entry.handler].kind = "create"

AnswersHold == \A c \in Clients : IsCreated(call[c]) => Held(call[c].id, call[c].payload)

FollowsHold == follow \subseteq Existing /\ (entry.phase = "refreshing" => entry.id \in Existing)

EntryInv ==
    /\ TypeOK /\ EntryTyped
    /\ Linked /\ Waits /\ AnswersHold /\ FollowsHold /\ ToldIsRecorded

LEMMA RowsKept ==
    ASSUME TypeOK, [Next]_vars, NEW id, NEW payload, Held(id, payload)
    PROVE  HeldNext(id, payload)
<1>1. TableEffect
    BY NextEffect
<1>2. id \in Existing' /\ Effect(id, transactions'[id])
    BY <1>1 DEF TableEffect, Held
<1>3. transactions'[id].payload = transactions[id].payload
    BY <1>2, EffectKeeps DEF Held
<1> QED  BY <1>2, <1>3 DEF Held, HeldNext

LEMMA ResultTyped ==
    ASSUME NEW k \in Call, k.id \in RequestIds, k.payload \in Payloads,
           NEW table, table[k.id].status \in Statuses
    PROVE  /\ Result(table, k) \in Call
           /\ Result(table, k).stage = "answered"
           /\ Result(table, k).id = k.id /\ Result(table, k).payload = k.payload
           /\ IsCreated(Result(table, k)) => table[k.id].payload = k.payload
           /\ IsConflict(Result(table, k)) => table[k.id].payload # k.payload
<1>1. Result(table, k) \in [stage : {"answered"}, id : RequestIds, payload : Payloads,
                            result : {"created", "conflict"}, status : Statuses]
    BY DEF Result
<1> QED  BY <1>1 DEF Result, IsCreated, IsConflict, Call

\* A save that is on its way, at work or answered, with what it asks for.
Carries(k) ==
    \/ k.stage \in {"sent", "running"} /\ k.kind = "create"
    \/ k.stage = "answered"

\* What the server makes of the call that handler c serves.
Served(c, k) ==
    /\ k \in Call
    /\ call' = [call EXCEPT ![c] = k]
    /\ \/ k.stage = "free" /\ entry.handler # c
       \/ k.stage = "running" /\ k.kind # "create" /\ entry.handler # c
       \/ /\ k.stage = "running" /\ k.kind = "create"
          /\ k.id = call[c].id /\ k.payload = call[c].payload /\ Carries(call[c])
          /\ request'[c].phase \in {"create.category", "create.write"}
          /\ request'[c].id = k.id /\ request'[c].payload = k.payload
       \/ /\ k.stage = "answered"
          /\ k.id = call[c].id /\ k.payload = call[c].payload /\ Carries(call[c])
          /\ IsCreated(k) => HeldNext(k.id, k.payload)
          /\ IsConflict(k) => OtherNext(k.id, k.payload)
    /\ \A d \in Clients \ {c} : request'[d] = request[d]
    /\ UNCHANGED <<entry, capture, follow, acts, told, rejected>>

LEMMA AnswerServed ==
    ASSUME EntryTyped, NEW c \in Clients, NEW k \in Call, Answer(c, k),
           k.stage = "answered", k.id = call[c].id, k.payload = call[c].payload, Carries(call[c]),
           IsCreated(k) => HeldNext(k.id, k.payload),
           IsConflict(k) => OtherNext(k.id, k.payload),
           Reply(c), TypeOK,
           UNCHANGED <<entry, capture, follow, acts, told, rejected>>
    PROVE  \E j \in Call : Served(c, j)
<1>1. \A d \in Clients \ {c} : request'[d] = request[d]
    BY DEF Reply, TypeOK
<1>2. CASE entry.handler = c
    BY <1>1, <1>2 DEF Answer, Served
<1>3. CASE entry.handler # c
  <2>1. call' = [call EXCEPT ![c] = Free]
      BY <1>3 DEF Answer
  <2> QED  BY <1>1, <1>3, <2>1, FreeTyped DEF Served
<1> QED  BY <1>2, <1>3

LEMMA DeliverServed ==
    ASSUME TypeOK, EntryTyped, NEW c \in Clients, Deliver(c)
    PROVE  \E k \in Call : Served(c, k)
<1> DEFINE k == call[c]
<1>1. k \in Call /\ k.stage = "sent" /\ k.kind = "create"
    BY DEF Deliver, EntryTyped
<1>2. k.id \in RequestIds /\ k.payload \in Payloads /\ [k EXCEPT !.stage = "running"] \in Call
    BY <1>1, CreateCallTyped
<1>3. UNCHANGED <<entry, capture, follow, acts, told, rejected>>
    BY DEF Deliver
<1>4. CreateFind(c, k.id, k.payload)
    BY DEF Deliver
<1>5. CASE k.id \in Existing
  <2>1. Reply(c) /\ transactions' = transactions
      BY <1>4, <1>5 DEF CreateFind, AnswerExisting
  <2>2. Answer(c, Result(transactions, k))
      BY <1>5 DEF Deliver
  <2>3. transactions[k.id].status \in Statuses
      BY <1>5 DEF TypeOK, Transaction
  <2> DEFINE r == Result(transactions, k)
  <2>4. /\ r \in Call /\ r.stage = "answered" /\ r.id = k.id /\ r.payload = k.payload
        /\ IsCreated(r) => transactions[k.id].payload = k.payload
        /\ IsConflict(r) => transactions[k.id].payload # k.payload
      BY <1>1, <1>2, <2>3, ResultTyped
  <2>5. Answer(c, r)
      BY <2>2
  <2> HIDE DEF r
  <2>6. /\ IsCreated(r) => HeldNext(r.id, r.payload)
        /\ IsConflict(r) => OtherNext(r.id, r.payload)
      BY <1>5, <2>1, <2>4 DEF HeldNext, OtherNext, Existing
  <2> QED  BY <1>1, <1>3, <2>1, <2>4, <2>5, <2>6, AnswerServed DEF Carries
<1>6. CASE k.id \notin Existing
  <2> DEFINE j == [k EXCEPT !.stage = "running"]
             q == [phase |-> "create.category", id |-> k.id, payload |-> k.payload]
  <2>1. request' = [request EXCEPT ![c] = q]
      BY <1>4, <1>6 DEF CreateFind, Goto
  <2>2. call' = [call EXCEPT ![c] = j]
      BY <1>1, <1>6 DEF Deliver, RunsOn, EntryTyped
  <2>3. k \in CreateCall
      BY <1>1, CallShape DEF CreateCall, OtherCall
  <2>4. j.stage = "running" /\ j.kind = "create" /\ j.id = k.id /\ j.payload = k.payload
      BY <2>3 DEF CreateCall
  <2>5. request'[c] = q /\ \A d \in Clients \ {c} : request'[d] = request[d]
      BY <2>1 DEF TypeOK
  <2>6. j \in Call
      BY <1>2
  <2>7. Served(c, j)
      BY <1>1, <1>3, <2>2, <2>4, <2>5, <2>6 DEF Served, Carries
  <2> QED  BY <2>6, <2>7
<1> QED  BY <1>5, <1>6

LEMMA ServeServed ==
    ASSUME TypeOK, TypeOK', EntryTyped, Linked, NEW c \in Clients, Serve(c)
    PROVE  \E k \in Call : Served(c, k)
<1> DEFINE k == call[c]
<1>1. k \in Call /\ k.stage = "running" /\ k.kind = "create"
    BY DEF Serve, EntryTyped
<1>2. k.id \in RequestIds /\ k.payload \in Payloads
    BY <1>1, CreateCallTyped
<1>3. UNCHANGED <<entry, capture, follow, acts, told, rejected>>
    BY DEF Serve
<1>4. /\ request[c].phase \in {"create.category", "create.write"}
      /\ request[c].id = k.id /\ request[c].payload = k.payload
    BY <1>1 DEF Linked
<1>5. ASSUME CreateCategory(c), k.payload.category \in active, UNCHANGED call
      PROVE  Served(c, k)
  <2>1. request' = [request EXCEPT ![c] = [request[c] EXCEPT !.phase = "create.write"]]
      BY <1>4, <1>5 DEF CreateCategory, Goto
  <2>2. request[c] \in [phase : {"create.category", "create.write"}, id : RequestIds,
                        payload : Payloads]
      BY <1>4 DEF TypeOK, Request, Idle
  <2>3. /\ request'[c].phase = "create.write"
        /\ request'[c].id = k.id /\ request'[c].payload = k.payload
      BY <1>4, <2>1, <2>2 DEF TypeOK
  <2>4. \A d \in Clients \ {c} : request'[d] = request[d]
      BY <2>1 DEF TypeOK
  <2>5. call' = [call EXCEPT ![c] = k]
      BY <1>5 DEF EntryTyped
  <2> QED  BY <1>1, <1>3, <2>3, <2>4, <2>5 DEF Served, Carries
<1>6. ASSUME CreateCategory(c), k.payload.category \notin active, Answer(c, Rejection(k))
      PROVE  \E j \in Call : Served(c, j)
  <2>1. Reply(c)
      BY <1>4, <1>6 DEF CreateCategory
  <2>2. /\ Rejection(k).stage = "answered" /\ Rejection(k).id = k.id
        /\ Rejection(k).payload = k.payload /\ Carries(k)
      BY <1>1 DEF Rejection, Carries
  <2> QED  BY <1>1, <1>2, <1>3, <1>6, <2>1, <2>2, RejectionTyped, AnswerServed
<1>7. ASSUME CreateWrite(c), Answer(c, Result(transactions', k))
      PROVE  \E j \in Call : Served(c, j)
  <2>1. Reply(c)
      BY <1>7 DEF CreateWrite, AnswerExisting
  <2>2. k.id \in Existing'
      BY <1>4, <1>7 DEF CreateWrite, AnswerExisting, Insert, Existing
  <2>3. transactions'[k.id].status \in Statuses
      BY <2>2 DEF TypeOK, Transaction
  <2> DEFINE r == Result(transactions', k)
  <2>4. /\ r \in Call /\ r.stage = "answered" /\ r.id = k.id /\ r.payload = k.payload
        /\ IsCreated(r) => transactions'[k.id].payload = k.payload
        /\ IsConflict(r) => transactions'[k.id].payload # k.payload
      BY <1>1, <1>2, <2>3, ResultTyped
  <2>5. Answer(c, r)
      BY <1>7
  <2> HIDE DEF r
  <2>6. /\ IsCreated(r) => HeldNext(r.id, r.payload)
        /\ IsConflict(r) => OtherNext(r.id, r.payload)
      BY <2>2, <2>4 DEF HeldNext, OtherNext
  <2> QED  BY <1>1, <1>3, <2>1, <2>4, <2>5, <2>6, AnswerServed DEF Carries
<1> QED  BY <1>1, <1>5, <1>6, <1>7 DEF Serve

LEMMA NotAwaited ==
    ASSUME EntryTyped, Waits, NEW c \in Clients,
           call[c].stage \in {"sent", "running"}, call[c].kind # "create"
    PROVE  entry.handler # c
BY DEF EntryTyped, Waits

LEMMA OtherServed ==
    ASSUME TypeOK, EntryTyped, Waits, NEW c \in Clients, DeliverOther(c) \/ ServeOther(c)
    PROVE  \E k \in Call : Served(c, k)
<1> DEFINE k == call[c]
<1>1. k \in Call /\ k.stage \in {"sent", "running"} /\ k.kind # "create"
    BY DEF DeliverOther, ServeOther, EntryTyped
<1>2. entry.handler # c /\ UNCHANGED <<entry, capture, follow, acts, told, rejected>>
    BY <1>1, NotAwaited DEF DeliverOther, ServeOther
<1>3. CASE DeliverOther(c)
  <2> DEFINE j == [k EXCEPT !.stage = "running"]
  <2>1. j \in Call
      BY <1>1, OtherCallTyped
  <2>2. k \in OtherCall
      BY <1>1, CallShape DEF CreateCall, OtherCall
  <2>3. j.stage = "running" /\ j.kind # "create"
      BY <1>1, <2>2 DEF OtherCall
  <2>4. call' = [call EXCEPT ![c] = j]
      BY <1>3 DEF DeliverOther, RunsOn, EntryTyped
  <2>5. \A d \in Clients \ {c} : request'[d] = request[d]
      BY <1>3 DEF DeliverOther, Open, Goto, TypeOK
  <2>6. Served(c, j)
      BY <1>2, <2>1, <2>3, <2>4, <2>5 DEF Served
  <2> QED  BY <2>1, <2>6
<1>4. CASE ServeOther(c)
  <2>1. \A d \in Clients \ {c} : request'[d] = request[d]
      BY <1>4 DEF ServeOther, Look, Write, Goto, Reply, TypeOK
  <2>2. k.stage = "running"
      BY <1>4 DEF ServeOther
  <2>3. call' = [call EXCEPT ![c] = Free] \/ call' = [call EXCEPT ![c] = k]
      BY <1>4 DEF ServeOther, EntryTyped
  <2>4. Served(c, Free) \/ Served(c, k)
      BY <1>1, <1>2, <2>1, <2>2, <2>3, FreeTyped DEF Served
  <2> QED  BY <1>1, <2>4, FreeTyped
<1> QED  BY <1>3, <1>4

LEMMA AbandonServed ==
    ASSUME TypeOK, NEW c \in Clients, Abandon(c) PROVE Served(c, Free)
<1>1. \A d \in Clients \ {c} : request'[d] = request[d]
    BY DEF Abandon, Cancel, Reply, TypeOK, vars
<1> QED  BY <1>1, FreeTyped DEF Abandon, Served

-----------------------------------------------------------------------------
(* The invariant is kept *)

LEMMA ServedKeeps ==
    ASSUME EntryInv, [Next]_vars, NEW c \in Clients, NEW k \in Call, Served(c, k)
    PROVE  EntryInv'
<1>1. TypeOK'
    BY NextTypeOK DEF EntryInv
<1>2. EntryTyped'
    BY DEF EntryInv, EntryTyped, Served
<1>3. /\ call'[c] = k
      /\ \A d \in Clients \ {c} : call'[d] = call[d] /\ request'[d] = request[d]
    BY DEF EntryInv, EntryTyped, Served
<1>4. Linked'
    BY <1>3 DEF EntryInv, Linked, Served
<1>5. Waits'
    BY <1>3 DEF EntryInv, EntryTyped, Waits, Served
<1>6. AnswersHold'
  <2> SUFFICES ASSUME NEW d \in Clients, IsCreated(call'[d])
               PROVE  HeldNext(call'[d].id, call'[d].payload)
      BY DEF AnswersHold, Held, HeldNext, IsCreated
  <2>1. CASE d = c
      BY <1>3, <2>1 DEF Served, IsCreated
  <2>2. CASE d # c
      BY <1>3, <2>2, RowsKept DEF EntryInv, AnswersHold
  <2> QED  BY <2>1, <2>2
<1>7. Existing \subseteq Existing'
    BY NextEffect DEF EntryInv, TableEffect
<1>8. FollowsHold'
    BY <1>7 DEF EntryInv, FollowsHold, Served
<1>9. ToldIsRecorded'
  <2> SUFFICES ASSUME NEW t \in told PROVE HeldNext(t[1], t[2])
      BY DEF ToldIsRecorded, HeldNext, Served
  <2>1. Held(t[1], t[2])
      BY DEF EntryInv, ToldIsRecorded, Held
  <2> QED  BY <2>1, RowsKept DEF EntryInv
<1> QED  BY <1>1, <1>2, <1>4, <1>5, <1>6, <1>8, <1>9 DEF EntryInv

\* A step of the page alone keeps the invariant if it makes no answer up.
LEMMA PageKeeps ==
    ASSUME EntryInv, UNCHANGED vars, EntryTyped', Waits',
           \A c \in Clients :
               call'[c] = call[c] \/ (call'[c].stage # "running" /\ ~IsCreated(call'[c])),
           follow' \subseteq Existing, entry'.phase = "refreshing" => entry'.id \in Existing,
           \A t \in told' : Held(t[1], t[2])
    PROVE  EntryInv'
<1>1. Existing' = Existing /\ TypeOK'
    BY DEF EntryInv, TypeOK, vars, Existing, RequestsHoldTransactions
<1>2. Linked'
    BY DEF EntryInv, Linked, vars
<1>3. AnswersHold'
  <2> SUFFICES ASSUME NEW c \in Clients, IsCreated(call'[c])
               PROVE  HeldNext(call'[c].id, call'[c].payload)
      BY DEF AnswersHold, Held, HeldNext, IsCreated
  <2>1. call'[c] = call[c]
      OBVIOUS
  <2>2. Held(call[c].id, call[c].payload)
      BY <2>1 DEF EntryInv, AnswersHold
  <2> QED  BY <1>1, <2>1, <2>2 DEF Held, HeldNext, vars
<1>4. FollowsHold'
    BY <1>1 DEF FollowsHold
<1>5. ToldIsRecorded'
    BY <1>1 DEF ToldIsRecorded, Held, vars
<1> QED  BY <1>1, <1>2, <1>3, <1>4, <1>5 DEF EntryInv

\* An answer that the page takes belongs to the entry it shows.
LEMMA AnswerTaken ==
    ASSUME EntryInv, NEW result, Answered(result)
    PROVE  /\ entry.handler \in Clients
           /\ call[entry.handler] \in Call
           /\ call[entry.handler].stage = "answered"
           /\ call[entry.handler].id = entry.id
           /\ call[entry.handler].payload \in Payloads
           /\ result # "rejected" => call[entry.handler].status \in Statuses
           /\ call' \in [Clients -> Call]
           /\ \A c \in Clients :
                  call'[c] = call[c] \/ (call'[c].stage # "running" /\ ~IsCreated(call'[c]))
<1>1. entry.handler \in Clients /\ call[entry.handler] \in Call
    BY DEF Answered, EntryInv, EntryTyped
<1>2. call[entry.handler].stage = "answered" /\ call[entry.handler].result = result
    BY DEF Answered
<1>3. call[entry.handler].id = entry.id
    BY DEF Answered, EntryInv, Waits
<1>4. call' = [call EXCEPT ![entry.handler] = Free]
    BY DEF Answered
<1>5. call' \in [Clients -> Call]
    BY <1>4, FreeTyped DEF EntryInv, EntryTyped
<1>6. \A c \in Clients :
         call'[c] = call[c] \/ (call'[c].stage # "running" /\ ~IsCreated(call'[c]))
    BY <1>4, FreeTyped DEF EntryInv, EntryTyped, IsCreated
<1> QED  BY <1>1, <1>2, <1>3, <1>5, <1>6, AnsweredTyped

LEMMA ToldHeld == ASSUME EntryInv PROVE \A t \in told : Held(t[1], t[2])
BY DEF EntryInv, ToldIsRecorded, Held

LEMMA TypeKeeps ==
    ASSUME EntryInv, NEW typed \in Forms, Type(typed) PROVE EntryInv'
<1>1. EntryTyped'
    BY EntryAssumption DEF EntryInv, EntryTyped, Type, Act, Entry
<1>2. Waits' /\ follow' \subseteq Existing /\ (entry'.phase = "refreshing" => entry'.id \in Existing)
    BY DEF EntryInv, EntryTyped, Entry, Type, Waits, FollowsHold
<1> QED  BY <1>1, <1>2, PageKeeps, ToldHeld DEF Type

LEMMA ToggleKeeps ==
    ASSUME EntryInv, Toggle PROVE EntryInv'
<1> DEFINE off == ~entry.locate
           next == IF entry.locate THEN "off" ELSE "finding"
<1>a. off \in BOOLEAN /\ next \in Captures
    BY DEF Captures
<1>b. entry' = [entry EXCEPT !.locate = off]
    BY DEF Toggle
<1>c. capture' = [capture EXCEPT ![entry.id] = next]
    BY DEF Toggle
<1> HIDE DEF off, next
<1>d. /\ entry' \in Entry /\ entry'.id = entry.id /\ entry'.phase = entry.phase
      /\ entry'.handler = entry.handler
    BY <1>a, <1>b DEF EntryInv, EntryTyped, Entry
<1>1. EntryTyped'
    BY <1>a, <1>c, <1>d, EntryAssumption DEF EntryInv, EntryTyped, Toggle, Act
<1>2. Waits' /\ follow' \subseteq Existing /\ (entry'.phase = "refreshing" => entry'.id \in Existing)
    BY <1>d DEF EntryInv, Toggle, Waits, FollowsHold
<1> QED  BY <1>1, <1>2, PageKeeps, ToldHeld DEF Toggle

LEMMA LocatedKeeps ==
    ASSUME EntryInv, NEW id \in RequestIds, NEW found \in BOOLEAN, Located(id, found)
    PROVE  EntryInv'
<1>1. EntryTyped'
    BY EntryAssumption DEF EntryInv, EntryTyped, Located, Act, Captures
<1>2. Waits' /\ follow' \subseteq Existing /\ (entry'.phase = "refreshing" => entry'.id \in Existing)
    BY DEF EntryInv, Located, Waits, FollowsHold
<1> QED  BY <1>1, <1>2, PageKeeps, ToldHeld DEF Located

LEMMA SubmitKeeps ==
    ASSUME EntryInv, NEW c \in Clients, NEW now \in Moments, Submit(c, now)
    PROVE  EntryInv'
<1> DEFINE at == IF entry.at = Undefined THEN now ELSE entry.at
           payload == Content(entry.typed, entry.locate, capture[entry.id] = "ready", at)
           k == Create(entry.id, payload)
<1>1. at \in Moments /\ Save(c, at)
    BY DEF EntryInv, EntryTyped, Entry, Submit
<1>2. payload \in Payloads
    BY <1>1, EntryAssumption DEF EntryInv, EntryTyped, Entry
<1> HIDE DEF payload, at
<1>3. /\ k \in Call /\ k.stage = "sent" /\ k.kind = "create" /\ k.id = entry.id
      /\ ~IsCreated(k)
    BY <1>2 DEF EntryInv, EntryTyped, Entry, Create, Call, IsCreated
<1>4. call' = [call EXCEPT ![c] = k]
    BY <1>1 DEF Save, Send, payload
<1> HIDE DEF k
<1>5. /\ entry' \in Entry /\ entry'.phase = "saving" /\ entry'.handler = c
      /\ entry'.id = entry.id
    BY <1>1 DEF Save, EntryInv, EntryTyped, Entry
<1>6. EntryTyped'
    BY <1>1, <1>3, <1>4, <1>5, EntryAssumption DEF Save, Act, EntryInv, EntryTyped
<1>7. Waits'
    BY <1>3, <1>4, <1>5 DEF EntryInv, EntryTyped, Waits
<1>8. follow' \subseteq Existing /\ told' = told /\ UNCHANGED vars
    BY <1>1 DEF Save, EntryInv, FollowsHold
<1>9. \A d \in Clients :
         call'[d] = call[d] \/ (call'[d].stage # "running" /\ ~IsCreated(call'[d]))
    BY <1>3, <1>4 DEF EntryInv, EntryTyped
<1> QED  BY <1>5, <1>6, <1>7, <1>8, <1>9, PageKeeps, ToldHeld

LEMMA RecordedKeeps ==
    ASSUME EntryInv, Recorded PROVE EntryInv'
<1> DEFINE k == call[entry.handler]
<1>1. Answered("created") /\ k.result = "created"
    BY DEF Recorded, Answered
<1>2. Held(entry.id, k.payload)
    BY <1>1, AnswerTaken DEF EntryInv, AnswersHold, IsCreated
<1>3. k.status \in Statuses /\ <<entry.id, k.payload>> \in RequestIds \X Payloads
    BY <1>1, AnswerTaken DEF EntryInv, EntryTyped, Entry
<1>4. entry' = [entry EXCEPT !.phase = "refreshing", !.handler = Nobody, !.status = k.status]
    BY DEF Recorded
<1>5. told' = told \cup {<<entry.id, k.payload>>}
    BY DEF Recorded
<1> HIDE DEF k
<1>6. EntryTyped'
    BY <1>1, <1>3, <1>4, <1>5, AnswerTaken, EntryAssumption DEF Recorded, EntryInv, EntryTyped, Entry
<1>7. /\ Waits' /\ follow' \subseteq Existing
      /\ entry'.phase = "refreshing" => entry'.id \in Existing
    BY <1>2, <1>4 DEF EntryInv, EntryTyped, Entry, Recorded, Waits, FollowsHold, Held
<1>8. \A t \in told' : Held(t[1], t[2])
    BY <1>2, <1>5, ToldHeld
<1> QED  BY <1>1, <1>6, <1>7, <1>8, AnswerTaken, PageKeeps DEF Recorded

LEMMA RefusedKeeps ==
    ASSUME EntryInv, Rejected \/ Conflict PROVE EntryInv'
<1>1. Answered("rejected") \/ Answered("conflict")
    BY DEF Rejected, Conflict
<1>a. /\ entry' \in Entry /\ entry'.id = entry.id /\ entry'.phase = "typing"
      /\ entry'.handler = Nobody
  <2>1. entry' = [entry EXCEPT !.phase = "typing", !.handler = Nobody, !.at = Undefined]
        \/ entry' = [entry EXCEPT !.phase = "typing", !.handler = Nobody]
      BY DEF Rejected, Conflict
  <2>2. entry \in Entry
      BY DEF EntryInv, EntryTyped
  <2>3. CASE entry' = [entry EXCEPT !.phase = "typing", !.handler = Nobody, !.at = Undefined]
      BY <2>2, <2>3 DEF Entry
  <2>4. CASE entry' = [entry EXCEPT !.phase = "typing", !.handler = Nobody]
      BY <2>2, <2>4 DEF Entry
  <2> QED  BY <2>1, <2>3, <2>4
<1>b. rejected' \subseteq rejected \cup {entry.id} /\ entry.id \in RequestIds
    BY DEF Rejected, Conflict, EntryInv, EntryTyped, Entry
<1>c. call' \in [Clients -> Call] /\ UNCHANGED <<capture, follow, acts, told>>
    BY <1>1, AnswerTaken DEF Rejected, Conflict
<1>2. EntryTyped'
    BY <1>a, <1>b, <1>c, EntryAssumption DEF EntryInv, EntryTyped
<1>3. /\ Waits' /\ follow' \subseteq Existing
      /\ entry'.phase = "refreshing" => entry'.id \in Existing
    BY DEF EntryInv, EntryTyped, Entry, Rejected, Conflict, Waits, FollowsHold
<1> QED  BY <1>1, <1>2, <1>3, AnswerTaken, PageKeeps, ToldHeld DEF Rejected, Conflict

LEMMA LoseKeeps ==
    ASSUME EntryInv, Lose PROVE EntryInv'
<1>1. /\ call' \in [Clients -> Call]
      /\ \A c \in Clients :
             call'[c] = call[c] \/ (call'[c].stage # "running" /\ ~IsCreated(call'[c]))
    BY FreeTyped DEF Lose, EntryInv, EntryTyped, IsCreated
<1>2. EntryTyped'
    BY <1>1, EntryAssumption DEF Lose, EntryInv, EntryTyped, Entry
<1>3. /\ Waits' /\ follow' \subseteq Existing
      /\ entry'.phase = "refreshing" => entry'.id \in Existing
    BY DEF EntryInv, EntryTyped, Entry, Lose, Waits, FollowsHold
<1> QED  BY <1>1, <1>2, <1>3, PageKeeps, ToldHeld DEF Lose

\* What a form that is emptied looks like.
LEMMA ResetTyped ==
    ASSUME EntryTyped, Reset
    PROVE  /\ entry' \in Entry /\ entry'.phase \in {"typing", "done"} /\ entry'.handler = Nobody
           /\ entry'.id \in DOMAIN capture' /\ DOMAIN capture' \subseteq RequestIds
           /\ capture' \in [DOMAIN capture' -> Captures]
<1>1. ASSUME NEW id \in RequestIds \ DOMAIN capture, NEW typed \in Forms,
             entry' = Fresh(id, typed),
             capture' = [i \in DOMAIN capture \cup {id} |->
                            IF i = id THEN Capturing ELSE capture[i]]
      PROVE  /\ entry' \in Entry /\ entry'.phase = "typing" /\ entry'.handler = Nobody
             /\ entry'.id \in DOMAIN capture' /\ DOMAIN capture' \subseteq RequestIds
             /\ capture' \in [DOMAIN capture' -> Captures]
  <2>1. entry' \in Entry /\ entry'.phase = "typing" /\ entry'.handler = Nobody /\ entry'.id = id
      BY <1>1, EntryAssumption DEF Fresh, Entry
  <2>2. DOMAIN capture' = DOMAIN capture \cup {id}
      BY <1>1
  <2>3. Capturing \in Captures
      BY DEF Capturing, Captures
  <2>4. capture' \in [DOMAIN capture' -> Captures]
      BY <1>1, <2>2, <2>3 DEF EntryTyped
  <2> QED  BY <2>1, <2>2, <2>4 DEF EntryTyped
<1>2. CASE /\ entry' = [entry EXCEPT !.phase = "done", !.handler = Nobody]
           /\ UNCHANGED capture
    BY <1>2 DEF EntryTyped, Entry
<1> QED  BY <1>1, <1>2 DEF Reset

LEMMA RefreshedKeeps ==
    ASSUME EntryInv, Refreshed PROVE EntryInv'
<1>1. Reset /\ EntryTyped /\ UNCHANGED <<vars, call, acts, told, rejected>>
    BY DEF Refreshed, EntryInv
<1>2. entry.id \in Existing /\ entry.id \in RequestIds
    BY DEF Refreshed, EntryInv, FollowsHold, EntryTyped, Entry
<1>3. follow' \subseteq follow \cup {entry.id}
    BY DEF Refreshed
<1>4. EntryTyped'
    BY <1>1, <1>2, <1>3, ResetTyped, EntryAssumption DEF EntryTyped
<1>5. /\ Waits' /\ follow' \subseteq Existing
      /\ entry'.phase = "refreshing" => entry'.id \in Existing
    BY <1>1, <1>2, <1>3, ResetTyped DEF EntryInv, FollowsHold, Waits
<1> QED  BY <1>1, <1>4, <1>5, PageKeeps, ToldHeld

LEMMA ReloadKeeps ==
    ASSUME EntryInv, Reload PROVE EntryInv'
<1>1. /\ call' \in [Clients -> Call]
      /\ \A c \in Clients :
             call'[c] = call[c] \/ (call'[c].stage # "running" /\ ~IsCreated(call'[c]))
    BY FreeTyped DEF Reload, EntryInv, EntryTyped, IsCreated
<1>2. Reset /\ EntryTyped /\ UNCHANGED <<vars, told, rejected>> /\ Act /\ follow' = {}
    BY DEF Reload, EntryInv
<1>3. EntryTyped'
    BY <1>1, <1>2, ResetTyped, EntryAssumption DEF EntryTyped, Act
<1>4. /\ Waits' /\ follow' \subseteq Existing
      /\ entry'.phase = "refreshing" => entry'.id \in Existing
    BY <1>2, ResetTyped DEF Waits
<1> QED  BY <1>1, <1>2, <1>3, <1>4, PageKeeps, ToldHeld

LEMMA CallsKeep ==
    ASSUME EntryInv, NEW c \in Clients, NEW id \in RequestIds, Report(c, id) \/ Undo(c, id)
    PROVE  EntryInv'
<1>1. PICK kind \in {"attach", "fail", "delete"} :
          Send(c, [stage |-> "sent", id |-> id, kind |-> kind])
    BY DEF Report, Undo
<1> DEFINE k == [stage |-> "sent", id |-> id, kind |-> kind]
<1>2. k \in Call /\ k.stage = "sent" /\ ~IsCreated(k)
    BY DEF Call, IsCreated
<1>3. call[c] = Free /\ call' = [call EXCEPT ![c] = k]
    BY <1>1 DEF Send
<1> HIDE DEF k
<1>4. UNCHANGED <<vars, entry, capture, told, rejected>> /\ follow' \subseteq follow
      /\ acts' \in 0..MaxActs
    BY EntryAssumption DEF Report, Undo, Act, EntryInv, EntryTyped
<1>5. EntryTyped'
    BY <1>2, <1>3, <1>4 DEF EntryInv, EntryTyped
<1>6. \A d \in Clients :
         call'[d] = call[d] \/ (call'[d].stage # "running" /\ ~IsCreated(call'[d]))
    BY <1>2, <1>3 DEF EntryInv, EntryTyped
<1>7. Waits'
    BY <1>3, <1>4, FreeTyped DEF EntryInv, EntryTyped, Waits
<1>8. follow' \subseteq Existing /\ (entry'.phase = "refreshing" => entry'.id \in Existing)
    BY <1>4 DEF EntryInv, FollowsHold
<1> QED  BY <1>4, <1>5, <1>6, <1>7, <1>8, PageKeeps, ToldHeld

LEMMA ElsewhereKeeps ==
    ASSUME EntryInv, Elsewhere, [Next]_vars PROVE EntryInv'
<1>1. TypeOK' /\ TableEffect
    BY NextTypeOK, NextEffect DEF EntryInv
<1>2. UNCHANGED <<entry, capture, call, follow, told, rejected>> /\ acts' \in 0..MaxActs
    BY EntryAssumption DEF Elsewhere, Act, EntryInv, EntryTyped
<1>3. request' = request
    BY DEF Elsewhere, Read, Age, ArchiveCategory, RestoreCategory
<1>4. EntryTyped' /\ Waits' /\ Linked'
    BY <1>2, <1>3 DEF EntryInv, EntryTyped, Waits, Linked
<1>5. Existing \subseteq Existing'
    BY <1>1 DEF TableEffect
<1>6. FollowsHold'
    BY <1>2, <1>5 DEF EntryInv, FollowsHold
<1>7. \A id, payload : Held(id, payload) => HeldNext(id, payload)
    BY RowsKept DEF EntryInv
<1>8. AnswersHold'
    BY <1>2, <1>7 DEF EntryInv, AnswersHold, Held, HeldNext
<1>9. ToldIsRecorded'
    BY <1>2, <1>7 DEF EntryInv, ToldIsRecorded, Held, HeldNext
<1> QED  BY <1>1, <1>4, <1>6, <1>8, <1>9 DEF EntryInv

LEMMA EntryInvKept == EntryInv /\ [EntryNext]_<<vars, entryVars>> => EntryInv'
<1> SUFFICES ASSUME EntryInv, [EntryNext]_<<vars, entryVars>> PROVE EntryInv'
    OBVIOUS
<1>1. [Next]_vars /\ TypeOK /\ EntryTyped /\ Linked /\ Waits
    BY StepOfTheServer DEF EntryInv
<1>2. TypeOK'
    BY <1>1, NextTypeOK
<1>3. CASE UNCHANGED <<vars, entryVars>>
  <2>1. EntryTyped' /\ Waits' /\ follow' \subseteq Existing
        /\ (entry'.phase = "refreshing" => entry'.id \in Existing)
      BY <1>1, <1>3 DEF entryVars, EntryTyped, Waits, EntryInv, FollowsHold
  <2> QED  BY <1>3, <2>1, PageKeeps, ToldHeld DEF entryVars
<1>4. ASSUME NEW c \in Clients,
             Deliver(c) \/ Serve(c) \/ DeliverOther(c) \/ ServeOther(c) \/ Abandon(c)
      PROVE  EntryInv'
  <2>1. PICK k \in Call : Served(c, k)
      BY <1>1, <1>2, <1>4, DeliverServed, ServeServed, OtherServed, AbandonServed, FreeTyped
  <2> QED  BY <1>1, <2>1, ServedKeeps
<1>5. CASE Elsewhere
    BY <1>1, <1>5, ElsewhereKeeps
<1>6. CASE Recorded \/ Rejected \/ Conflict \/ Lose \/ Refreshed \/ Reload
    BY <1>6, RecordedKeeps, RefusedKeeps, LoseKeeps, RefreshedKeeps, ReloadKeeps
<1>7. ASSUME NEW c \in Clients, NEW id \in RequestIds, Report(c, id) \/ Undo(c, id)
      PROVE  EntryInv'
    BY <1>7, CallsKeep
<1> QED
    BY <1>3, <1>4, <1>5, <1>6, <1>7, TypeKeeps, ToggleKeeps, LocatedKeeps, SubmitKeeps
    DEF EntryNext

LEMMA InitEntryInv == EntryInit => EntryInv
<1> SUFFICES ASSUME EntryInit PROVE EntryInv
    OBVIOUS
<1>1. TypeOK /\ Existing = {}
    BY InitTypeOK DEF EntryInit, Init, Existing
<1>2. PICK id \in RequestIds, typed \in Forms :
          entry = Fresh(id, typed) /\ capture = [i \in {id} |-> Capturing]
    BY DEF EntryInit
<1>3. /\ entry \in Entry /\ entry.id = id /\ entry.phase = "typing" /\ entry.handler = Nobody
    BY <1>2, EntryAssumption DEF Fresh, Entry
<1>4. Capturing \in Captures
    BY DEF Capturing, Captures
<1>5. \A c \in Clients : call[c] \in Call /\ call[c].stage = "free"
    BY FreeTyped DEF EntryInit
<1>6. EntryTyped
    BY <1>2, <1>3, <1>4, FreeTyped, EntryAssumption DEF EntryInit, EntryTyped
<1>7. Linked /\ Waits /\ AnswersHold
    BY <1>3, <1>5 DEF Linked, Waits, AnswersHold, IsCreated
<1>8. FollowsHold /\ ToldIsRecorded
    BY <1>3 DEF EntryInit, FollowsHold, ToldIsRecorded
<1> QED  BY <1>1, <1>6, <1>7, <1>8 DEF EntryInv

-----------------------------------------------------------------------------
(* The moment of a save *)

\* The moments that are in use for one entry: those of its saves, of its row,
\* and of the form.
Uses(id) ==
    {m \in Moments :
        \/ \E c \in Clients :
              Carries(call[c]) /\ call[c].id = id /\ call[c].payload.occurredAt = m
        \/ id \in Existing /\ transactions[id].payload.occurredAt = m
        \/ entry.id = id /\ entry.at = m}

\* Unless a save of it was rejected, an entry has one moment, which the form
\* remembers from the first save on; an entry that is not yet drawn has none.
OneMoment ==
    \A id \in RequestIds :
        /\ id \notin rejected => \A m, n \in Uses(id) : m = n
        /\ id \notin rejected /\ entry.id = id /\ entry.at = Undefined => Uses(id) = {}
        /\ id \notin DOMAIN capture => Uses(id) = {}

RowsOfThePage == \A id \in Existing : transactions[id].payload \in Payloads

ConflictsDiffer ==
    \A c \in Clients :
        IsConflict(call[c]) =>
            call[c].id \in Existing /\ transactions[call[c].id].payload # call[c].payload

CauseInv == OneMoment /\ RowsOfThePage /\ ConflictsDiffer

\* The row of id is new, and what a save under way asks for.
FromACall(id) ==
    \E c \in Clients :
        Carries(call[c]) /\ call[c].id = id /\ call[c].payload = transactions'[id].payload

LEMMA CarriedTyped ==
    ASSUME NEW k \in Call, Carries(k)
    PROVE  k.id \in RequestIds /\ k.payload \in Payloads
BY CreateCallTyped, AnsweredTyped DEF Carries

\* Rows are inserted for saves only, with what they ask for.
LEMMA RowsFromCalls ==
    ASSUME EntryInv, EntryNext
    PROVE  \A id \in Existing' \ Existing : FromACall(id)
<1>1. ASSUME Existing' = Existing PROVE \A id \in Existing' \ Existing : FromACall(id)
    BY <1>1
<1>2. ASSUME NEW c \in Clients, Serve(c) PROVE \A id \in Existing' \ Existing : FromACall(id)
  <2>1. Linked /\ call[c].stage = "running" /\ call[c].kind = "create"
      BY <1>2 DEF EntryInv, Serve
  <2>2. request[c].id = call[c].id /\ request[c].payload = call[c].payload
      BY <2>1 DEF Linked
  <2>3. CASE UNCHANGED transactions
      BY <1>1, <2>3 DEF Existing
  <2>4. CASE Insert(request[c].id, Manual(request[c].payload))
    <3>1. /\ Existing' = Existing \cup {call[c].id}
          /\ transactions'[call[c].id].payload = call[c].payload
        BY <2>2, <2>4 DEF Insert, Existing, Manual
    <3> QED  BY <2>1, <3>1 DEF FromACall, Carries
  <2> QED
      BY <1>2, <2>3, <2>4 DEF Serve, CreateCategory, CreateWrite, AnswerExisting
<1>3. ASSUME NEW c \in Clients,
             Deliver(c) \/ DeliverOther(c) \/ ServeOther(c) \/ Abandon(c)
      PROVE  Existing' = Existing
    BY <1>3 DEF Deliver, CreateFind, AnswerExisting, DeliverOther, Open, ExpireAll,
                ServeOther, Look, Write, Abandon, Cancel, vars, Existing
<1>4. CASE Elsewhere
    BY <1>1, <1>4 DEF Elsewhere, Read, ExpireAll, Age, ArchiveCategory, RestoreCategory, Existing
<1>5. ASSUME UNCHANGED vars PROVE \A id \in Existing' \ Existing : FromACall(id)
    BY <1>1, <1>5 DEF vars, Existing
<1>6. CASE Recorded \/ Rejected \/ Conflict \/ Lose \/ Refreshed \/ Reload \/ Toggle
    BY <1>5, <1>6 DEF Recorded, Rejected, Conflict, Lose, Refreshed, Reload, Toggle
<1>7. ASSUME NEW c \in Clients, NEW id \in RequestIds, Report(c, id) \/ Undo(c, id)
      PROVE  UNCHANGED vars
    BY <1>7 DEF Report, Undo
<1>8. ASSUME NEW c \in Clients, NEW now \in Moments, Submit(c, now) PROVE UNCHANGED vars
    BY <1>8 DEF Submit, Save
<1>9. ASSUME NEW typed \in Forms, Type(typed) PROVE UNCHANGED vars
    BY <1>9 DEF Type
<1>10. ASSUME NEW id \in RequestIds, NEW found \in BOOLEAN, Located(id, found)
       PROVE  UNCHANGED vars
    BY <1>10 DEF Located
<1> QED
    BY <1>1, <1>2, <1>3, <1>4, <1>5, <1>6, <1>7, <1>8, <1>9, <1>10 DEF EntryNext

\* A step draws no moment up if the saves it leaves were there, and so was the
\* moment of the form.
LEMMA UsesKept ==
    ASSUME EntryInv, EntryNext, [Next]_vars,
           \A c \in Clients :
               Carries(call'[c]) => \E d \in Clients : /\ Carries(call[d])
                                                       /\ call[d].id = call'[c].id
                                                       /\ call[d].payload = call'[c].payload,
           entry'.at \in Moments => entry'.id = entry.id /\ entry'.at = entry.at
    PROVE  \A id : Uses(id)' \subseteq Uses(id)
<1> SUFFICES ASSUME NEW id, NEW m \in Uses(id)' PROVE m \in Uses(id)
    OBVIOUS
<1>0. m \in Moments
    BY DEF Uses
<1>1. CASE \E c \in Clients :
              Carries(call'[c]) /\ call'[c].id = id /\ call'[c].payload.occurredAt = m
    BY <1>0, <1>1 DEF Uses
<1>2. CASE id \in Existing' /\ transactions'[id].payload.occurredAt = m
  <2>1. CASE id \in Existing
    <3>1. HeldNext(id, transactions[id].payload)
        BY <2>1, RowsKept DEF EntryInv, Held
    <3> QED  BY <1>0, <1>2, <2>1, <3>1 DEF HeldNext, Uses
  <2>2. CASE id \notin Existing
      BY <1>0, <1>2, <2>2, RowsFromCalls DEF FromACall, Uses
  <2> QED  BY <2>1, <2>2
<1>3. CASE entry'.id = id /\ entry'.at = m
    BY <1>0, <1>3 DEF Uses
<1> QED  BY <1>1, <1>2, <1>3 DEF Uses

LEMMA MomentsKept ==
    ASSUME OneMoment, \A id \in RequestIds : Uses(id)' \subseteq Uses(id),
           rejected \subseteq rejected', DOMAIN capture \subseteq DOMAIN capture',
           entry'.id \in RequestIds \ rejected' /\ entry'.at = Undefined =>
               Uses(entry'.id) = {} \/ (entry'.id = entry.id /\ entry.at = Undefined)
    PROVE  OneMoment'
BY DEF OneMoment

\* The first save of an entry gives it its moment, and a retry keeps it.
LEMMA SubmitMoments ==
    ASSUME EntryInv, OneMoment, EntryNext, [Next]_vars,
           NEW c \in Clients, NEW now \in Moments, Submit(c, now)
    PROVE  OneMoment'
<1> DEFINE at == IF entry.at = Undefined THEN now ELSE entry.at
           payload == Content(entry.typed, entry.locate, capture[entry.id] = "ready", at)
<1>1. entry \in Entry /\ call \in [Clients -> Call]
    BY DEF EntryInv, EntryTyped
<1>2. /\ at \in Moments /\ payload.occurredAt = at
      /\ call' = [call EXCEPT ![c] = Create(entry.id, payload)]
      /\ entry' = [entry EXCEPT !.phase = "saving", !.handler = c, !.at = at]
      /\ UNCHANGED <<vars, capture, rejected>>
    BY <1>1 DEF Submit, Save, Send, Content, Entry
<1> HIDE DEF payload
<1>3. entry'.id = entry.id /\ entry'.at = at /\ at # Undefined
    BY <1>1, <1>2, EntryAssumption DEF Entry
<1>4. ASSUME NEW id, NEW m \in Uses(id)'
      PROVE  m \in Uses(id) \/ (m = at /\ id = entry.id)
  <2>0. m \in Moments
      BY DEF Uses
  <2>1. CASE \E d \in Clients :
                Carries(call'[d]) /\ call'[d].id = id /\ call'[d].payload.occurredAt = m
    <3>1. PICK d \in Clients :
              Carries(call'[d]) /\ call'[d].id = id /\ call'[d].payload.occurredAt = m
        BY <2>1
    <3>2. CASE d = c
        BY <1>1, <1>2, <3>1, <3>2 DEF Create
    <3>3. CASE d # c
        BY <1>1, <1>2, <2>0, <3>1, <3>3 DEF Uses
    <3> QED  BY <3>2, <3>3
  <2>2. CASE id \in Existing' /\ transactions'[id].payload.occurredAt = m
      BY <1>2, <2>0, <2>2 DEF Uses, vars, Existing
  <2>3. CASE entry'.id = id /\ entry'.at = m
      BY <1>3, <2>3
  <2> QED  BY <2>1, <2>2, <2>3 DEF Uses
<1>5. \A id \in RequestIds : id # entry.id => Uses(id)' \subseteq Uses(id)
    BY <1>4
<1>6. \A id \in RequestIds : id = entry.id => Uses(id)' \subseteq Uses(id) \cup {at}
    BY <1>4
<1>7. entry.at # Undefined => at \in Uses(entry.id)
    BY <1>2 DEF Uses
<1>8. entry.id \in RequestIds /\ entry.id \in DOMAIN capture
    BY <1>1 DEF Entry, EntryInv, EntryTyped
<1>9. \A id \in RequestIds : id = entry.id /\ id \notin rejected => \A m, n \in Uses(id)' : m = n
  <2>1. CASE entry.at = Undefined
      BY <1>6, <1>8, <2>1 DEF OneMoment
  <2>2. CASE entry.at # Undefined
      BY <1>6, <1>7, <1>8, <2>2 DEF OneMoment
  <2> QED  BY <2>1, <2>2
<1> HIDE DEF at
<1> QED  BY <1>2, <1>3, <1>5, <1>8, <1>9 DEF OneMoment

\* What the page and the server do to the calls, but for a save that is sent.
LEMMA OtherMoments ==
    ASSUME EntryInv, OneMoment, EntryNext, [Next]_vars, EntryInv',
           ~(\E c \in Clients, now \in Moments : Submit(c, now))
    PROVE  OneMoment'
<1>0. /\ entry \in Entry /\ call \in [Clients -> Call] /\ Undefined \notin Moments
      /\ DOMAIN capture \subseteq RequestIds
    BY EntryAssumption DEF EntryInv, EntryTyped
<1>1. ASSUME UNCHANGED <<entry, rejected>>, DOMAIN capture' = DOMAIN capture,
             \A c \in Clients :
                 Carries(call'[c]) => \E d \in Clients : /\ Carries(call[d])
                                                         /\ call[d].id = call'[c].id
                                                         /\ call[d].payload = call'[c].payload
      PROVE  OneMoment'
  <2>1. \A id : Uses(id)' \subseteq Uses(id)
      BY <1>1, UsesKept
  <2> QED  BY <1>1, <2>1, MomentsKept
<1>2. ASSUME NEW c \in Clients,
             Deliver(c) \/ Serve(c) \/ DeliverOther(c) \/ ServeOther(c) \/ Abandon(c)
      PROVE  OneMoment'
  <2>1. PICK k \in Call : Served(c, k)
      BY <1>2, DeliverServed, ServeServed, OtherServed, AbandonServed, FreeTyped
      DEF EntryInv
  <2>2. Carries(k) => Carries(call[c]) /\ call[c].id = k.id /\ call[c].payload = k.payload
      BY <2>1 DEF Served, Carries
  <2>3. \A d \in Clients :
            Carries(call'[d]) => \E e \in Clients : /\ Carries(call[e])
                                                    /\ call[e].id = call'[d].id
                                                    /\ call[e].payload = call'[d].payload
      BY <1>0, <2>1, <2>2 DEF Served
  <2> QED  BY <1>1, <2>1, <2>3 DEF Served
<1>3. CASE Elsewhere
    BY <1>1, <1>3 DEF Elsewhere
\* The page takes an answer, gives up a call, or sends one that is not a save.
<1>4. ASSUME \A c \in Clients : call'[c] = call[c] \/ ~Carries(call'[c]),
             rejected \subseteq rejected', DOMAIN capture \subseteq DOMAIN capture',
             entry'.at \in Moments => entry'.id = entry.id /\ entry'.at = entry.at,
             \/ entry'.id = entry.id /\ (entry'.at = entry.at \/ entry.id \in rejected')
             \/ entry'.id \in RequestIds \ DOMAIN capture
      PROVE  OneMoment'
  <2>1. \A id : Uses(id)' \subseteq Uses(id)
      BY <1>4, UsesKept
  <2> QED  BY <1>4, <2>1, MomentsKept DEF OneMoment
<1>5. ASSUME NEW typed \in Forms, Type(typed) PROVE OneMoment'
    BY <1>0, <1>4, <1>5 DEF Type, Entry
<1>6. CASE Toggle
    BY <1>0, <1>4, <1>6 DEF Toggle, Entry, EntryInv, EntryTyped
<1>7. ASSUME NEW id \in RequestIds, NEW found \in BOOLEAN, Located(id, found)
      PROVE  OneMoment'
    BY <1>1, <1>7 DEF Located, EntryInv, EntryTyped
<1>8. ~Carries(Free)
    BY DEF Free, Carries
<1>9. CASE Recorded \/ Rejected \/ Conflict \/ Lose
  <2>1. \A c \in Clients : call'[c] = call[c] \/ ~Carries(call'[c])
      BY <1>0, <1>8, <1>9 DEF Recorded, Rejected, Conflict, Lose, Answered
  <2>2. rejected \subseteq rejected' /\ UNCHANGED capture
      BY <1>9 DEF Recorded, Rejected, Conflict, Lose
  <2>3. /\ entry'.id = entry.id
        /\ \/ entry'.at = entry.at
           \/ entry'.at = Undefined /\ entry.id \in rejected'
    <3>1. CASE Recorded \/ Conflict \/ Lose
        BY <1>0, <3>1 DEF Recorded, Conflict, Lose, Entry
    <3>2. CASE Rejected
        BY <1>0, <3>2 DEF Rejected, Entry
    <3> QED  BY <1>9, <3>1, <3>2
  <2> QED  BY <1>0, <1>4, <2>1, <2>2, <2>3
<1>10. CASE Refreshed \/ Reload
  <2>1. Reset /\ UNCHANGED rejected
      BY <1>10 DEF Refreshed, Reload
  <2>2. \A c \in Clients : call'[c] = call[c] \/ ~Carries(call'[c])
      BY <1>0, <1>8, <1>10 DEF Refreshed, Reload
  <2>3. \/ /\ entry'.id \in RequestIds \ DOMAIN capture /\ entry'.at = Undefined
           /\ DOMAIN capture \subseteq DOMAIN capture'
        \/ entry'.id = entry.id /\ entry'.at = entry.at /\ UNCHANGED capture
    <3>1. CASE \E id \in RequestIds \ DOMAIN capture, typed \in Forms :
                  /\ entry' = Fresh(id, typed)
                  /\ capture' = [i \in DOMAIN capture \cup {id} |->
                                    IF i = id THEN Capturing ELSE capture[i]]
        BY <3>1 DEF Fresh
    <3>2. CASE entry' = [entry EXCEPT !.phase = "done", !.handler = Nobody] /\ UNCHANGED capture
        BY <1>0, <3>2 DEF Entry
    <3> QED  BY <2>1, <3>1, <3>2 DEF Reset
  <2> QED  BY <1>0, <1>4, <2>1, <2>2, <2>3
<1>11. ASSUME NEW c \in Clients, NEW id \in RequestIds, Report(c, id) \/ Undo(c, id)
       PROVE  OneMoment'
  <2>1. PICK kind \in {"attach", "fail", "delete"} :
            Send(c, [stage |-> "sent", id |-> id, kind |-> kind])
      BY <1>11 DEF Report, Undo
  <2>2. \A d \in Clients : call'[d] = call[d] \/ ~Carries(call'[d])
      BY <1>0, <2>1 DEF Send, Carries
  <2> QED  BY <1>4, <1>11, <2>2 DEF Report, Undo
<1> QED
    BY <1>2, <1>3, <1>5, <1>6, <1>7, <1>9, <1>10, <1>11 DEF EntryNext

LEMMA RowsOfThePageKept ==
    ASSUME EntryInv, EntryNext, [Next]_vars, RowsOfThePage
    PROVE  RowsOfThePage'
<1> SUFFICES ASSUME NEW id \in Existing' PROVE transactions'[id].payload \in Payloads
    BY DEF RowsOfThePage
<1>1. CASE id \in Existing
  <2>1. HeldNext(id, transactions[id].payload)
      BY <1>1, RowsKept DEF EntryInv, Held
  <2> QED  BY <1>1, <2>1 DEF HeldNext, RowsOfThePage
<1>2. CASE id \notin Existing
    BY <1>2, RowsFromCalls, CarriedTyped DEF FromACall, EntryInv, EntryTyped
<1> QED  BY <1>1, <1>2

\* An answer of conflict is made by the server, about a row that stays.
LEMMA ConflictsDifferKept ==
    ASSUME EntryInv, EntryNext, [Next]_vars, EntryInv', ConflictsDiffer
    PROVE  ConflictsDiffer'
<1>0. call \in [Clients -> Call] /\ ~IsConflict(Free)
    BY DEF EntryInv, EntryTyped, Free, IsConflict
<1>1. ASSUME NEW c \in Clients, IsConflict(call[c])
      PROVE  OtherNext(call[c].id, call[c].payload)
  <2>1. Held(call[c].id, transactions[call[c].id].payload)
        /\ transactions[call[c].id].payload # call[c].payload
      BY <1>1 DEF ConflictsDiffer, Held
  <2>2. HeldNext(call[c].id, transactions[call[c].id].payload)
      BY <2>1, RowsKept DEF EntryInv
  <2> QED  BY <2>1, <2>2 DEF HeldNext, OtherNext
<1>2. ASSUME \A c \in Clients :
                \/ call'[c] = call[c]
                \/ IsConflict(call'[c]) => OtherNext(call'[c].id, call'[c].payload)
      PROVE  ConflictsDiffer'
  <2> SUFFICES ASSUME NEW c \in Clients, IsConflict(call'[c])
               PROVE  OtherNext(call'[c].id, call'[c].payload)
      BY DEF ConflictsDiffer, IsConflict, OtherNext
  <2> QED  BY <1>1, <1>2
<1>3. ASSUME NEW c \in Clients,
             Deliver(c) \/ Serve(c) \/ DeliverOther(c) \/ ServeOther(c) \/ Abandon(c)
      PROVE  ConflictsDiffer'
  <2>1. PICK k \in Call : Served(c, k)
      BY <1>3, DeliverServed, ServeServed, OtherServed, AbandonServed, FreeTyped
      DEF EntryInv
  <2>2. IsConflict(k) => OtherNext(k.id, k.payload)
      BY <2>1 DEF Served, IsConflict
  <2> QED  BY <1>0, <1>2, <2>1, <2>2 DEF Served
<1>4. CASE Toggle \/ Elsewhere \/ Recorded \/ Rejected \/ Conflict \/ Lose \/ Refreshed \/ Reload
    BY <1>0, <1>2, <1>4 DEF Toggle, Elsewhere, Recorded, Rejected, Conflict, Lose, Answered,
                           Refreshed, Reload
<1>5. ASSUME NEW typed \in Forms, Type(typed) PROVE ConflictsDiffer'
    BY <1>2, <1>5 DEF Type
<1>6. ASSUME NEW id \in RequestIds, NEW found \in BOOLEAN, Located(id, found)
      PROVE  ConflictsDiffer'
    BY <1>2, <1>6 DEF Located
<1>7. ASSUME NEW c \in Clients, NEW k, Send(c, k), k.stage = "sent" PROVE ConflictsDiffer'
    BY <1>0, <1>2, <1>7 DEF Send, IsConflict
<1>8. ASSUME NEW c \in Clients, NEW now \in Moments, Submit(c, now) PROVE ConflictsDiffer'
    BY <1>7, <1>8 DEF Submit, Save, Create
<1>9. ASSUME NEW c \in Clients, NEW id \in RequestIds, Report(c, id) \/ Undo(c, id)
      PROVE  ConflictsDiffer'
    BY <1>7, <1>9 DEF Report, Undo
<1> QED
    BY <1>3, <1>4, <1>5, <1>6, <1>8, <1>9 DEF EntryNext

LEMMA CauseInvKept ==
    EntryInv /\ EntryInv' /\ CauseInv /\ [EntryNext]_<<vars, entryVars>> => CauseInv'
<1> SUFFICES ASSUME EntryInv, EntryInv', CauseInv, [EntryNext]_<<vars, entryVars>>
             PROVE  CauseInv'
    OBVIOUS
<1>1. [Next]_vars
    BY StepOfTheServer DEF EntryInv
<1>2. CASE EntryNext
    BY <1>1, <1>2, SubmitMoments, OtherMoments, RowsOfThePageKept, ConflictsDifferKept
    DEF CauseInv
<1>3. CASE UNCHANGED <<vars, entryVars>>
    BY <1>3 DEF CauseInv, OneMoment, Uses, RowsOfThePage, ConflictsDiffer, vars, entryVars,
                Existing
<1> QED  BY <1>2, <1>3

LEMMA InitCauseInv == EntryInit => CauseInv
<1> SUFFICES ASSUME EntryInit PROVE CauseInv
    OBVIOUS
<1>1. Existing = {} /\ \A c \in Clients : ~Carries(call[c]) /\ ~IsConflict(call[c])
    BY DEF EntryInit, Init, Existing, Free, Carries, IsConflict
<1>2. entry.at = Undefined /\ Undefined \notin Moments
    BY EntryAssumption DEF EntryInit, Fresh
<1>3. \A id : Uses(id) = {}
    BY <1>1, <1>2 DEF Uses
<1> QED  BY <1>1, <1>3 DEF CauseInv, OneMoment, RowsOfThePage, ConflictsDiffer

-----------------------------------------------------------------------------
(* The location of an entry *)

\* The form shows entry id no more, and its capture has ended in one of ends.
Left(id) == id \in DOMAIN capture /\ (entry.id # id \/ entry.phase = "done")

Own(id, ends) == Left(id) /\ capture[id] \in ends

IsReport(k) == k.stage \in {"sent", "running"} /\ k.kind \in {"attach", "fail"}

Ends(kind) == IF kind = "attach" THEN {"ready"} ELSE {"off", "failed"}

FollowsLeft == \A id \in follow : Left(id)

ReportsOwn ==
    \A c \in Clients : IsReport(call[c]) => Own(call[c].id, Ends(call[c].kind))

\* The handler that changes a transaction serves the call that asks for it.
OperationsLinked ==
    \A c \in Clients :
        request[c].phase \in {"look", "update.category", "write"} =>
            /\ call[c].stage = "running"
            /\ call[c].kind = request[c].op /\ call[c].id = request[c].id

RowsOwn ==
    \A id \in Existing :
        transactions[id].status = "attached" =>
            transactions[id].payload.status = "attached" \/ Own(id, {"ready"})

OwnInv == FollowsLeft /\ ReportsOwn /\ OperationsLinked /\ RowsOwn

LEMMA ResetLeaves ==
    ASSUME EntryTyped, Reset, NEW id, Left(id) \/ id = entry.id
    PROVE  Left(id)' /\ capture'[id] = capture[id]
<1>0. entry \in Entry /\ id \in DOMAIN capture
    BY DEF EntryTyped, Left
<1>1. ASSUME NEW i \in RequestIds \ DOMAIN capture, NEW typed \in Forms,
             entry' = Fresh(i, typed),
             capture' = [j \in DOMAIN capture \cup {i} |->
                            IF j = i THEN Capturing ELSE capture[j]]
      PROVE  Left(id)' /\ capture'[id] = capture[id]
    BY <1>0, <1>1 DEF Fresh, Left
<1>2. CASE /\ entry' = [entry EXCEPT !.phase = "done", !.handler = Nobody]
           /\ UNCHANGED capture
    BY <1>0, <1>2 DEF Entry, Left
<1> QED  BY <1>1, <1>2 DEF Reset

\* An entry that the form has left is left for good, with a capture that only ends.
StaysLeft(id) == Left(id)' /\ (capture[id] # "finding" => capture'[id] = capture[id])

LEMMA LeftKept ==
    ASSUME EntryTyped, [EntryNext]_<<vars, entryVars>>, NEW id, Left(id)
    PROVE  StaysLeft(id)
<1>0. entry \in Entry /\ capture \in [DOMAIN capture -> Captures] /\ id \in DOMAIN capture
    BY DEF EntryTyped, Left
<1>1. ASSUME UNCHANGED <<entry, capture>> PROVE StaysLeft(id)
    BY <1>1 DEF Left, StaysLeft
<1>2. ASSUME entry.phase # "done", entry'.id = entry.id, UNCHANGED capture PROVE StaysLeft(id)
    BY <1>2 DEF Left, StaysLeft
<1>3. ASSUME NEW typed \in Forms, Type(typed) PROVE StaysLeft(id)
  <2>1. entry'.id = entry.id
      BY <1>0, <1>3 DEF Type, Entry
  <2> QED  BY <1>2, <1>3, <2>1 DEF Type
<1>4. CASE Toggle
  <2>1. entry'.id = entry.id /\ entry.id # id
      BY <1>0, <1>4 DEF Toggle, Entry, Left
  <2>2. capture'[id] = capture[id] /\ DOMAIN capture' = DOMAIN capture
      BY <1>0, <1>4, <2>1 DEF Toggle
  <2> QED  BY <1>0, <2>1, <2>2 DEF Left, StaysLeft
<1>5. ASSUME NEW i \in RequestIds, NEW found \in BOOLEAN, Located(i, found) PROVE StaysLeft(id)
  <2>1. DOMAIN capture' = DOMAIN capture /\ entry' = entry
      BY <1>0, <1>5 DEF Located
  <2>2. capture[id] # "finding" => capture'[id] = capture[id]
      BY <1>0, <1>5 DEF Located
  <2> QED  BY <2>1, <2>2 DEF Left, StaysLeft
<1>6. ASSUME NEW c \in Clients, NEW now \in Moments, Submit(c, now) PROVE StaysLeft(id)
  <2>1. entry'.id = entry.id /\ entry.phase = "typing" /\ UNCHANGED capture
      BY <1>0, <1>6 DEF Submit, Save, Entry
  <2> QED  BY <1>2, <2>1
<1>7. CASE Recorded \/ Rejected \/ Conflict \/ Lose
  <2>1. entry'.id = entry.id
    <3>1. CASE Recorded
        BY <1>0, <3>1 DEF Recorded, Entry
    <3>2. CASE Rejected
        BY <1>0, <3>2 DEF Rejected, Entry
    <3>3. CASE Conflict \/ Lose
        BY <1>0, <3>3 DEF Conflict, Lose, Entry
    <3> QED  BY <1>7, <3>1, <3>2, <3>3
  <2>2. entry.phase = "saving" /\ UNCHANGED capture
      BY <1>7 DEF Recorded, Rejected, Conflict, Lose, Answered
  <2> QED  BY <1>2, <2>1, <2>2
<1>8. CASE Refreshed \/ Reload
    BY <1>8, ResetLeaves DEF Refreshed, Reload, StaysLeft
<1>9. ASSUME NEW c \in Clients,
             Deliver(c) \/ Serve(c) \/ DeliverOther(c) \/ ServeOther(c) \/ Abandon(c)
      PROVE  StaysLeft(id)
    BY <1>1, <1>9 DEF Deliver, Serve, DeliverOther, ServeOther, Abandon
<1>10. ASSUME NEW c \in Clients, NEW i \in RequestIds, Report(c, i) \/ Undo(c, i) PROVE StaysLeft(id)
    BY <1>1, <1>10 DEF Report, Undo
<1>11. CASE Elsewhere \/ UNCHANGED <<vars, entryVars>>
    BY <1>1, <1>11 DEF Elsewhere, entryVars
<1> QED  BY <1>3, <1>4, <1>5, <1>6, <1>7, <1>8, <1>9, <1>10, <1>11 DEF EntryNext

LEMMA OwnKept ==
    ASSUME EntryTyped, [EntryNext]_<<vars, entryVars>>,
           NEW id, NEW ends, "finding" \notin ends, Own(id, ends)
    PROVE  Own(id, ends)'
BY LeftKept DEF Own, StaysLeft

LEMMA FollowsLeftKept ==
    ASSUME EntryTyped, FollowsLeft, [EntryNext]_<<vars, entryVars>>
    PROVE  FollowsLeft'
<1> SUFFICES ASSUME NEW id \in follow' PROVE Left(id)'
    BY DEF FollowsLeft
<1>1. CASE id \in follow
    BY <1>1, LeftKept DEF FollowsLeft, StaysLeft
<1>2. CASE id \notin follow
  <2>1. Refreshed /\ id = entry.id
      BY <1>2 DEF EntryNext, Type, Toggle, Located, Submit, Save, Deliver, Serve, DeliverOther,
                  ServeOther, Abandon, Report, Undo, Elsewhere, Recorded, Rejected, Conflict,
                  Lose, Refreshed, Reload, entryVars
  <2> QED  BY <2>1, ResetLeaves DEF Refreshed
<1> QED  BY <1>1, <1>2

LEMMA CallsUntouched ==
    ASSUME EntryTyped, NEW c \in Clients, NEW k,
           call' = [call EXCEPT ![c] = k] \/ (k = call[c] /\ UNCHANGED call)
    PROVE  call'[c] = k /\ \A d \in Clients \ {c} : call'[d] = call[d]
BY DEF EntryTyped

\* What one handler does to the call that it serves and to its own request.
Handled(c) ==
    /\ ~IsReport(call'[c]) \/ /\ IsReport(call[c])
                              /\ call'[c].kind = call[c].kind /\ call'[c].id = call[c].id
    /\ request'[c].phase \in {"look", "update.category", "write"} =>
           /\ call'[c].stage = "running"
           /\ call'[c].kind = request'[c].op /\ call'[c].id = request'[c].id
    /\ \A d \in Clients \ {c} : call'[d] = call[d] /\ request'[d] = request[d]

LEMMA CreateHandled ==
    ASSUME EntryInv, EntryInv', NEW c \in Clients, Deliver(c) \/ Serve(c)
    PROVE  Handled(c)
<1>1. PICK k \in Call : Served(c, k)
    BY DeliverServed, ServeServed DEF EntryInv
<1>2. call'[c] = k /\ \A d \in Clients \ {c} : call'[d] = call[d] /\ request'[d] = request[d]
    BY <1>1, CallsUntouched DEF Served, EntryInv
<1>3. call[c].kind = "create"
    BY DEF Deliver, Serve
<1>4. ASSUME IsReport(k) PROVE FALSE
  <2>1. k.stage = "running" /\ k.kind # "create"
      BY <1>1, <1>4 DEF Served, IsReport
  <2>2. call[c] \in CreateCall
      BY <1>3, CallShape DEF EntryInv, EntryTyped, Deliver, Serve, CreateCall, OtherCall
  <2>3. \/ call' = [call EXCEPT ![c].stage = "running"] \/ UNCHANGED call
        \/ \E r : Answer(c, r) /\ r.stage = "answered"
      BY DEF Deliver, Serve, RunsOn, Result, Rejection
  <2>4. ASSUME NEW r, Answer(c, r), r.stage = "answered" PROVE FALSE
      BY <1>2, <2>1, <2>4, FreeTyped DEF Answer, EntryInv, EntryTyped
  <2>5. CASE call' = [call EXCEPT ![c].stage = "running"] \/ UNCHANGED call
      BY <1>2, <2>1, <2>2, <2>5 DEF CreateCall, EntryInv, EntryTyped
  <2> QED  BY <2>3, <2>4, <2>5
<1>5. request'[c].phase \notin {"look", "update.category", "write"}
  <2>0. Idle.phase = "idle"
      BY DEF Idle
  <2>1. CASE Deliver(c)
    <3>1. \/ request' = [request EXCEPT ![c] = Idle]
          \/ request' = [request EXCEPT ![c] = [phase |-> "create.category", id |-> call[c].id,
                                                payload |-> call[c].payload]]
        BY <2>1 DEF Deliver, CreateFind, AnswerExisting, Reply, Goto
    <3> QED  BY <2>0, <3>1 DEF EntryInv, TypeOK
  <2>2. CASE Serve(c)
    <3>1. CASE Reply(c)
        BY <2>0, <3>1 DEF Reply, EntryInv, TypeOK
    <3>2. CASE ~Reply(c)
      <4>1. /\ request[c].phase = "create.category"
            /\ request' = [request EXCEPT ![c] = [request[c] EXCEPT !.phase = "create.write"]]
          BY <2>2, <3>2 DEF Serve, CreateCategory, CreateWrite, AnswerExisting, Goto
      <4>2. request[c] \in [phase : {"create.category", "create.write"}, id : RequestIds,
                            payload : Payloads]
          BY <4>1 DEF EntryInv, TypeOK, Request, Idle
      <4> QED  BY <4>1, <4>2 DEF EntryInv, TypeOK
    <3> QED  BY <3>1, <3>2
  <2> QED  BY <2>1, <2>2
<1> QED  BY <1>2, <1>4, <1>5 DEF Handled

LEMMA OtherHandled ==
    ASSUME EntryInv, OperationsLinked, [Next]_vars,
           NEW c \in Clients, DeliverOther(c) \/ ServeOther(c) \/ Abandon(c)
    PROVE  Handled(c)
<1>0. Idle.phase = "idle" /\ TypeOK /\ EntryTyped
    BY DEF Idle, EntryInv
<1>1. CASE DeliverOther(c)
  <2> DEFINE j == [call[c] EXCEPT !.stage = "running"]
             q == [phase |-> "look", id |-> call[c].id, op |-> call[c].kind, seen |-> "unread"]
  <2>1. call[c] \in OtherCall /\ call[c].stage = "sent"
      BY <1>1, CallShape DEF EntryInv, EntryTyped, DeliverOther, CreateCall, OtherCall
  <2>2. j.stage = "running" /\ j.kind = call[c].kind /\ j.id = call[c].id
      BY <2>1 DEF OtherCall
  <2>3. call' = [call EXCEPT ![c] = j] /\ request' = [request EXCEPT ![c] = q]
      BY <1>1 DEF DeliverOther, RunsOn, Open, Goto
  <2>4. q.op = call[c].kind /\ q.id = call[c].id
      OBVIOUS
  <2> HIDE DEF j, q
  <2>5. /\ call'[c] = j /\ request'[c] = q
        /\ \A d \in Clients \ {c} : call'[d] = call[d] /\ request'[d] = request[d]
      BY <1>0, <2>3 DEF EntryTyped, TypeOK
  <2> QED  BY <2>1, <2>2, <2>4, <2>5 DEF Handled, IsReport
<1>2. CASE ServeOther(c)
  <2>1. /\ \A d \in Clients \ {c} : call'[d] = call[d] /\ request'[d] = request[d]
        /\ call'[c] = IF request'[c] = Idle THEN Free ELSE call[c]
      BY <1>0, <1>2 DEF ServeOther, Look, Write, Goto, Reply, TypeOK, EntryTyped
  <2>2. CASE request'[c] = Idle
      BY <1>0, <2>1, <2>2, FreeTyped DEF Handled, IsReport
  <2>3. CASE request'[c] # Idle
    <3>1. Look(c) /\ request[c].phase = "look" /\ ~Reply(c)
        BY <1>0, <1>2, <2>3 DEF ServeOther, Look, Write, Reply, TypeOK
    <3>2. request'[c].id = request[c].id /\ request'[c].op = request[c].op
      <4>1. request[c] \in Request /\ transactions[request[c].id] \in Transaction
          BY <1>0, <3>1 DEF TypeOK, RequestsHoldTransactions
      <4> DEFINE next == IF request[c].op = "update" THEN "update.category" ELSE "write"
                 seen == Seen(transactions[request[c].id])
      <4>2. request'[c] = Looked(request[c], next, seen)
          BY <1>0, <3>1 DEF Look, Goto, TypeOK, Looked
      <4>3. seen \in Findings
          BY <4>1, SeenTyped
      <4>4. next = IF request[c].op = "update" THEN "update.category" ELSE "write"
          OBVIOUS
      <4> HIDE DEF next, seen
      <4> QED  BY <3>1, <4>1, <4>2, <4>3, <4>4, LookedTyped
    <3>3. /\ call[c].stage = "running"
          /\ call[c].kind = request[c].op /\ call[c].id = request[c].id
        BY <3>1 DEF OperationsLinked
    <3> QED  BY <2>1, <2>3, <3>2, <3>3 DEF Handled
  <2> QED  BY <2>2, <2>3
<1>3. CASE Abandon(c)
  <2>1. /\ call'[c] = Free
        /\ \A d \in Clients \ {c} : call'[d] = call[d]
      BY <1>0, <1>3 DEF Abandon, EntryTyped
  <2>2. CASE call[c].stage = "sent" /\ UNCHANGED vars
      BY <2>1, <2>2, FreeTyped DEF OperationsLinked, Handled, IsReport, vars
  <2>3. CASE Cancel(c)
      BY <1>0, <2>1, <2>3, FreeTyped DEF Cancel, Reply, TypeOK, Handled, IsReport
  <2> QED  BY <1>3, <2>2, <2>3 DEF Abandon
<1> QED  BY <1>1, <1>2, <1>3

LEMMA HandledKeeps ==
    ASSUME EntryInv, [EntryNext]_<<vars, entryVars>>, ReportsOwn, OperationsLinked,
           NEW c \in Clients, Handled(c)
    PROVE  ReportsOwn' /\ OperationsLinked'
<1>1. OperationsLinked'
    BY DEF OperationsLinked, Handled
<1>2. ReportsOwn'
  <2> SUFFICES ASSUME NEW d \in Clients, IsReport(call'[d]),
                      NEW id, id = call'[d].id, NEW ends, ends = Ends(call'[d].kind)
               PROVE  Own(id, ends)'
      BY DEF ReportsOwn, IsReport, Own, Left, Ends
  <2>1. IsReport(call[d]) /\ id = call[d].id /\ ends = Ends(call[d].kind)
      BY DEF Handled
  <2>2. Own(id, ends) /\ "finding" \notin ends
      BY <2>1 DEF ReportsOwn, Ends
  <2> QED  BY <2>2, OwnKept DEF EntryInv
<1> QED  BY <1>1, <1>2

\* The page disturbs no handler at work and reports nothing, but in Report.
LEMMA PageLeavesHandlers ==
    ASSUME EntryInv, [EntryNext]_<<vars, entryVars>>, ReportsOwn, OperationsLinked,
           request' = request,
           \A c \in Clients :
               call'[c] = call[c] \/ (call[c].stage # "running" /\ ~IsReport(call'[c]))
    PROVE  ReportsOwn' /\ OperationsLinked'
<1>1. OperationsLinked'
    BY DEF OperationsLinked
<1>2. ReportsOwn'
  <2> SUFFICES ASSUME NEW d \in Clients, IsReport(call'[d]),
                      NEW id, id = call'[d].id, NEW ends, ends = Ends(call'[d].kind)
               PROVE  Own(id, ends)'
      BY DEF ReportsOwn, IsReport, Own, Left, Ends
  <2>1. call'[d] = call[d]
      OBVIOUS
  <2>2. Own(id, ends) /\ "finding" \notin ends
      BY <2>1 DEF ReportsOwn, Ends
  <2> QED  BY <2>2, OwnKept DEF EntryInv
<1> QED  BY <1>1, <1>2

\* A report tells of the capture of the entry that it is about, which has ended.
LEMMA ReportOwn ==
    ASSUME EntryInv, [EntryNext]_<<vars, entryVars>>, OwnInv,
           NEW c \in Clients, NEW i \in RequestIds, Report(c, i)
    PROVE  ReportsOwn' /\ OperationsLinked'
<1> DEFINE kind == IF capture[i] = "ready" THEN "attach" ELSE "fail"
           k == [stage |-> "sent", id |-> i, kind |-> kind]
<1>1. call[c] = Free /\ call' = [call EXCEPT ![c] = k] /\ request' = request
    BY DEF Report, Send, vars
<1>2. k.id = i /\ k.kind = kind
    OBVIOUS
<1>3. Own(i, Ends(kind))
  <2>1. i \in follow /\ capture[i] # "finding"
      BY DEF Report
  <2>2. Left(i) /\ capture[i] \in Captures
      BY <2>1 DEF OwnInv, FollowsLeft, Left, EntryInv, EntryTyped
  <2> QED  BY <2>1, <2>2 DEF Own, Ends, Captures
<1> HIDE DEF k, kind
<1>4. call'[c] = k /\ \A d \in Clients \ {c} : call'[d] = call[d]
    BY <1>1 DEF EntryInv, EntryTyped
<1>5. OperationsLinked'
    BY <1>1, <1>4, FreeTyped DEF OwnInv, OperationsLinked
<1>6. ReportsOwn'
  <2> SUFFICES ASSUME NEW d \in Clients, IsReport(call'[d]),
                      NEW id, id = call'[d].id, NEW ends, ends = Ends(call'[d].kind)
               PROVE  Own(id, ends)'
      BY DEF ReportsOwn, IsReport, Own, Left, Ends
  <2>1. Own(id, ends) /\ "finding" \notin ends
      BY <1>2, <1>3, <1>4 DEF OwnInv, ReportsOwn, Ends
  <2> QED  BY <2>1, OwnKept DEF EntryInv
<1> QED  BY <1>5, <1>6

LEMMA CallsOwnKept ==
    ASSUME EntryInv, EntryInv', OwnInv, [EntryNext]_<<vars, entryVars>>
    PROVE  ReportsOwn' /\ OperationsLinked'
<1> DEFINE Quiet ==
        /\ request' = request
        /\ \A c \in Clients :
               call'[c] = call[c] \/ (call[c].stage # "running" /\ ~IsReport(call'[c]))
<1>0. ReportsOwn /\ OperationsLinked /\ [Next]_vars /\ call \in [Clients -> Call]
      /\ Free.stage = "free" /\ ~IsReport(Free)
    BY StepOfTheServer, FreeTyped DEF OwnInv, EntryInv, EntryTyped, IsReport
<1>1. ASSUME Quiet PROVE ReportsOwn' /\ OperationsLinked'
    BY <1>0, <1>1, PageLeavesHandlers
<1>2. ASSUME NEW c \in Clients,
             Deliver(c) \/ Serve(c) \/ DeliverOther(c) \/ ServeOther(c) \/ Abandon(c)
      PROVE  ReportsOwn' /\ OperationsLinked'
  <2>1. Handled(c)
      BY <1>0, <1>2, CreateHandled, OtherHandled
  <2> QED  BY <1>0, <2>1, HandledKeeps
<1>3. ASSUME NEW c \in Clients, NEW id \in RequestIds, Report(c, id)
      PROVE  ReportsOwn' /\ OperationsLinked'
    BY <1>3, ReportOwn
<1>4. ASSUME NEW c \in Clients, NEW k, Send(c, k), ~IsReport(k), request' = request
      PROVE  Quiet
    BY <1>0, <1>4 DEF Send
<1>5. ASSUME NEW c \in Clients, NEW id \in RequestIds, Undo(c, id) PROVE Quiet
  <2>1. ~IsReport([stage |-> "sent", id |-> id, kind |-> "delete"])
      BY DEF IsReport
  <2> HIDE DEF Quiet
  <2> QED  BY <1>4, <1>5, <2>1 DEF Undo, vars
<1>6. ASSUME NEW c \in Clients, NEW now \in Moments, Submit(c, now) PROVE Quiet
  <2>1. \A id, payload : ~IsReport(Create(id, payload))
      BY DEF IsReport, Create
  <2> HIDE DEF Quiet
  <2> QED  BY <1>4, <1>6, <2>1 DEF Submit, Save, vars
<1>7. ASSUME \/ Recorded \/ Rejected \/ Conflict \/ Lose \/ Refreshed \/ Reload
             \/ Toggle \/ Elsewhere
      PROVE  Quiet
    BY <1>0, <1>7 DEF Recorded, Rejected, Conflict, Answered, Lose, Refreshed, Reload, Toggle,
                      Elsewhere, Age, ArchiveCategory, RestoreCategory, Read, vars
<1>8. ASSUME NEW typed \in Forms, Type(typed) PROVE Quiet
    BY <1>8 DEF Type, vars
<1>9. ASSUME NEW id \in RequestIds, NEW found \in BOOLEAN, Located(id, found) PROVE Quiet
    BY <1>9 DEF Located, vars
<1>10. ASSUME UNCHANGED <<vars, entryVars>> PROVE Quiet
    BY <1>10 DEF vars, entryVars
<1> HIDE DEF Quiet
<1> QED
    BY <1>1, <1>2, <1>3, <1>5, <1>6, <1>7, <1>8, <1>9, <1>10 DEF EntryNext

LEMMA RowsOwnKept ==
    ASSUME EntryInv, OwnInv, [EntryNext]_<<vars, entryVars>> PROVE RowsOwn'
<1>0. TypeOK /\ EntryTyped /\ TableEffect
    BY StepOfTheServer, NextEffect DEF EntryInv
<1> SUFFICES ASSUME NEW id \in Existing', NEW u, u = transactions'[id], u.status = "attached"
             PROVE  u.payload.status = "attached" \/ Own(id, {"ready"})'
    BY DEF RowsOwn
<1>1. CASE id \in Existing
  <2>1. Effect(id, u)
      BY <1>0, <1>1 DEF TableEffect
  <2>2. u.payload = transactions[id].payload
      BY <1>0, <1>1, <2>1, EffectKeeps
  <2>3. CASE transactions[id].status = "attached"
    <3>1. transactions[id].payload.status = "attached" \/ Own(id, {"ready"})
        BY <1>1, <2>3 DEF OwnInv, RowsOwn
    <3> QED  BY <1>0, <2>2, <3>1, OwnKept
  <2>4. CASE transactions[id].status # "attached"
    <3>1. PICK c \in Clients : WritesOperation(c, id) /\ request[c].op = "attach"
        BY <1>0, <1>1, <2>1, <2>4, EffectAttaches
    <3>2. call[c].stage = "running" /\ call[c].kind = "attach" /\ call[c].id = id
        BY <3>1 DEF WritesOperation, OwnInv, OperationsLinked
    <3>3. Own(id, {"ready"})
        BY <3>2 DEF OwnInv, ReportsOwn, IsReport, Ends
    <3> QED  BY <1>0, <3>3, OwnKept
  <2> QED  BY <2>3, <2>4
<1>2. CASE id \notin Existing
  <2>1. Created(u)
      BY <1>0, <1>2 DEF TableEffect
  <2>2. ASSUME NEW payload \in Payloads, u = Manual(payload)
        PROVE  u.payload.status = "attached"
      BY <2>2 DEF Manual
  <2>3. ASSUME NEW category \in Categories, u = Recurring(category) PROVE FALSE
      BY <2>3 DEF Recurring
  <2> QED  BY <2>1, <2>2, <2>3 DEF Created
<1> QED  BY <1>1, <1>2

LEMMA OwnInvKept ==
    EntryInv /\ EntryInv' /\ OwnInv /\ [EntryNext]_<<vars, entryVars>> => OwnInv'
<1> SUFFICES ASSUME EntryInv, EntryInv', OwnInv, [EntryNext]_<<vars, entryVars>> PROVE OwnInv'
    OBVIOUS
<1>1. FollowsLeft'
    BY FollowsLeftKept DEF EntryInv, OwnInv
<1> QED  BY <1>1, CallsOwnKept, RowsOwnKept DEF OwnInv

LEMMA InitOwnInv == EntryInit => OwnInv
<1> SUFFICES ASSUME EntryInit PROVE OwnInv
    OBVIOUS
<1>1. Existing = {} /\ follow = {}
    BY DEF EntryInit, Init, Existing
<1>2. \A c \in Clients : call[c].stage = "free" /\ request[c].phase = "idle"
    BY FreeTyped DEF EntryInit, Init, Idle
<1> QED  BY <1>1, <1>2 DEF OwnInv, FollowsLeft, ReportsOwn, IsReport, OperationsLinked, RowsOwn

-----------------------------------------------------------------------------
(* Theorems *)

\* Every reachable state of the page, its calls and the server is well typed,
\* and the page waits for an answer exactly while a save is under way.
THEOREM EntryTypeCorrect == EntrySpec => []EntryTypeOK
<1>1. EntryInv => EntryTypeOK
    BY DEF EntryInv, EntryTyped, FollowsHold, EntryTypeOK
<1> QED  BY <1>1, InitEntryInv, EntryInvKept, PTL DEF EntrySpec

\* What the page was told is recorded is recorded with the content of that save,
\* for any number of entries, handlers and retries.
THEOREM WhatIsToldIsRecorded == EntrySpec => []ToldIsRecorded
<1>1. EntryInv => ToldIsRecorded
    BY DEF EntryInv
<1> QED  BY <1>1, InitEntryInv, EntryInvKept, PTL DEF EntrySpec

\* A save is refused as a conflict only if the form or its location differs from
\* what was recorded under its request id, for any number of retries, handlers
\* and moments; an entry of which a save was rejected excepted.
THEOREM ConflictsHaveCauses == EntrySpec => []ConflictHasCause
<1>1. EntryInv /\ CauseInv => ConflictHasCause
  <2> SUFFICES ASSUME EntryInv, CauseInv,
                      NEW c \in Clients, Conflicting(c), call[c].id \notin rejected,
                      NEW was, was = transactions[call[c].id].payload,
                      NEW is, is = call[c].payload
               PROVE  \/ was.category # is.category \/ was.tracked # is.tracked
                      \/ was.status # is.status
      BY DEF ConflictHasCause
  <2>1. call[c].id \in Existing /\ was # is /\ was \in Payloads
      BY DEF CauseInv, ConflictsDiffer, RowsOfThePage, IsConflict, Conflicting
  <2>2. Carries(call[c]) /\ call[c] \in Call
      BY DEF Conflicting, Carries, EntryInv, EntryTyped
  <2>3. is \in Payloads /\ call[c].id \in RequestIds
      BY <2>2, CarriedTyped
  <2>4. was \in Payload /\ is \in Payload
      BY <2>1, <2>3, TransactionsAssumption
  <2>5. was.occurredAt \in Uses(call[c].id) /\ is.occurredAt \in Uses(call[c].id)
      BY <2>1, <2>2, <2>4 DEF Uses, Payload
  <2>6. was.occurredAt = is.occurredAt
      BY <2>3, <2>5 DEF CauseInv, OneMoment
  <2> QED  BY <2>1, <2>4, <2>6 DEF Payload
<1> QED  BY <1>1, InitEntryInv, EntryInvKept, InitCauseInv, CauseInvKept, PTL DEF EntrySpec

\* A location that is reported after the save is that of the transaction it is reported
\* for, for any number of entries, and an attached location was either saved with its
\* transaction or found for it: the form's next entry never lends its own.
THEOREM LocationsOfTheirOwn == EntrySpec => []LocationsAreTheirOwn
<1>1. EntryInv /\ OwnInv => LocationsAreTheirOwn
  <2> SUFFICES ASSUME EntryInv, OwnInv PROVE LocationsAreTheirOwn
      OBVIOUS
  <2>1. ASSUME NEW c \in Clients
        PROVE  /\ Reporting(c, "attach") => capture[call[c].id] = "ready"
               /\ Reporting(c, "fail") => capture[call[c].id] \in {"off", "failed"}
      BY DEF OwnInv, ReportsOwn, IsReport, Reporting, Own, Ends
  <2>2. \A id \in Existing :
            transactions[id].status = "attached" =>
                transactions[id].payload.status = "attached" \/ capture[id] = "ready"
      BY DEF OwnInv, RowsOwn, Own
  <2> QED  BY <2>1, <2>2 DEF LocationsAreTheirOwn
<1> QED  BY <1>1, InitEntryInv, EntryInvKept, InitOwnInv, OwnInvKept, PTL DEF EntrySpec
=============================================================================
