------------------------- MODULE TransactionsProofs -------------------------
(***************************************************************************)
(* For every number of requests, transactions, contents and categories:    *)
(* the tables are well typed, answered creations stand, and the shapes of  *)
(* locations and settlements survive every interleaving.                   *)
(***************************************************************************)
EXTENDS Transactions, TLAPS

\* What the operations make of one row is a row.

LEMMA ExpiredTyped ==
    ASSUME NEW t \in Transaction PROVE Expired(t) \in Transaction
BY DEF Expired, Transaction, Statuses

LEMMA WrittenTyped ==
    ASSUME NEW t \in Transaction, NEW op \in Operations PROVE Written(t, op) \in Transaction
BY DEF Written, Operations, Transaction, Statuses

LEMMA SettledTyped ==
    ASSUME NEW t \in Transaction, NEW s \in {"keep", "track", "remove"}
    PROVE  Settled(t, s) \in Transaction
BY DEF Settled, Transaction

LEMMA EditedTyped ==
    ASSUME NEW t \in Transaction, NEW category \in Categories
    PROVE  [t EXCEPT !.category = category] \in Transaction
BY DEF Transaction

LEMMA ManualTyped ==
    ASSUME NEW payload \in Payloads PROVE Manual(payload) \in Transaction
BY TransactionsAssumption DEF Manual, Transaction, Payload, Statuses

LEMMA RecurringTyped ==
    ASSUME NEW category \in Categories PROVE Recurring(category) \in Transaction
BY DEF Recurring, Transaction, Statuses

\* What a request holds in each phase.

LEMMA CreateTyped ==
    ASSUME NEW q \in Request, q.phase \in {"create.category", "create.write"}
    PROVE  q.id \in RequestIds /\ q.payload \in Payloads
           /\ [q EXCEPT !.phase = "create.write"] \in Request
<1>1. q \in [phase : {"create.category", "create.write"}, id : RequestIds, payload : Payloads]
    BY DEF Request, Idle
<1> QED  BY <1>1 DEF Request

OneOperation == [phase : {"look", "write"}, id : RequestIds, op : Operations, seen : Findings]

OneUpdate == [phase : {"look", "update.category", "write"}, id : RequestIds, op : {"update"},
              edit : Edit, seen : Findings]

LEMMA OperationShape ==
    ASSUME NEW q \in Request, q.phase \in {"look", "update.category", "write"}
    PROVE  q \in OneOperation \cup OneUpdate
BY DEF Request, Idle, OneOperation, OneUpdate

LEMMA OperationTyped ==
    ASSUME NEW q \in Request, q.phase \in {"look", "update.category", "write"}
    PROVE  /\ q.id \in RequestIds
           /\ q.op \in Operations \cup {"update"}
           /\ [q EXCEPT !.phase = "write"] \in Request
           /\ q.op = "update" => q.edit \in Edit
<1>1. CASE q \in OneOperation
    BY <1>1 DEF OneOperation, Request, Operations
<1>2. CASE q \in OneUpdate
    BY <1>2 DEF OneUpdate, Request
<1> QED  BY <1>1, <1>2, OperationShape

\* A request that has looked, and goes on.
Looked(q, next, seen) == [q EXCEPT !.phase = next, !.seen = seen]

LEMMA LookedTyped ==
    ASSUME NEW q \in Request, q.phase = "look", NEW seen \in Findings,
           NEW next, next = IF q.op = "update" THEN "update.category" ELSE "write",
           NEW r, r = Looked(q, next, seen)
    PROVE  /\ r \in Request
           /\ r.phase = next /\ r.id = q.id /\ r.op = q.op /\ r.seen = seen
<1> USE DEF Looked
<1>1. CASE q \in OneOperation
    BY <1>1 DEF OneOperation, Request, Operations
<1>2. CASE q \in OneUpdate
    BY <1>2 DEF OneUpdate, Request
<1> QED  BY <1>1, <1>2, OperationShape

LEMMA SeenTyped ==
    ASSUME NEW t \in Transaction
    PROVE  Seen(t) \in Findings /\ (~t.deleted => Seen(t) = t.status /\ t.status \in Statuses)
BY DEF Seen, Findings, Transaction

LEMMA IdleTyped == Idle \in Request
BY DEF Request

LEMMA GotoTyped ==
    ASSUME TypeOK, NEW c \in Clients, NEW q \in Request, Goto(c, q)
    PROVE  request' \in [Clients -> Request]
BY DEF TypeOK, Goto

LEMMA ReplyTyped ==
    ASSUME TypeOK, NEW c \in Clients, Reply(c)
    PROVE  request' \in [Clients -> Request]
BY IdleTyped DEF TypeOK, Reply

\* A request keeps hold of an existing transaction while none is removed.
LEMMA StillHeld ==
    ASSUME TypeOK, Existing \subseteq Existing',
           \A c \in Clients : request'[c].phase \in {"look", "update.category", "write"} =>
               \/ request'[c].id \in Existing
               \/ request'[c] = request[c]
    PROVE  RequestsHoldTransactions'
BY DEF TypeOK, RequestsHoldTransactions

LEMMA InsertTyped ==
    ASSUME TypeOK, NEW id \in RequestIds, NEW t \in Transaction, Insert(id, t)
    PROVE  /\ Existing' = Existing \cup {id}
           /\ Existing' \subseteq RequestIds
           /\ transactions' \in [Existing' -> Transaction]
BY DEF TypeOK, Insert, Existing

\* Rewriting some rows into rows keeps the table well typed.
LEMMA ExpireAllTyped ==
    ASSUME TypeOK, ExpireAll
    PROVE  Existing' = Existing /\ transactions' \in [Existing -> Transaction]
BY ExpiredTyped DEF TypeOK, ExpireAll, Existing

LEMMA RowTyped ==
    ASSUME TypeOK, NEW id \in Existing, NEW t \in Transaction,
           transactions' = [transactions EXCEPT ![id] = t]
    PROVE  Existing' = Existing /\ transactions' \in [Existing -> Transaction]
BY DEF TypeOK, Existing

-----------------------------------------------------------------------------
(* Type correctness *)

LEMMA InitTypeOK == Init => TypeOK
BY IdleTyped DEF Init, TypeOK, Existing, RequestsHoldTransactions, Idle

LEMMA NextTypeOK == TypeOK /\ [Next]_vars => TypeOK'
<1> SUFFICES ASSUME TypeOK, [Next]_vars PROVE TypeOK'
    OBVIOUS
<1>0. Idle.phase = "idle"
    BY DEF Idle
<1>1. ASSUME NEW c \in Clients, NEW id \in RequestIds, NEW payload \in Payloads,
             CreateFind(c, id, payload)
      PROVE  TypeOK'
  <2>1. CASE id \in Existing
    <3>1. AnswerExisting(c, id, payload) /\ active' = active
        BY <1>1, <2>1 DEF CreateFind
    <3>2. answered' \subseteq RequestIds \X Payloads
        BY <3>1 DEF AnswerExisting, TypeOK
    <3>3. Reply(c) /\ transactions' = transactions
        BY <3>1 DEF AnswerExisting
    <3>4. RequestsHoldTransactions'
        BY <1>0, <3>3, StillHeld DEF Reply, TypeOK, Existing
    <3> QED  BY <3>1, <3>2, <3>3, <3>4, ReplyTyped DEF TypeOK, Existing
  <2>2. CASE id \notin Existing
    <3> DEFINE q == [phase |-> "create.category", id |-> id, payload |-> payload]
    <3>1. q \in Request /\ q.phase = "create.category"
        BY DEF Request
    <3>2. Goto(c, q) /\ UNCHANGED <<transactions, answered, active>>
        BY <1>1, <2>2 DEF CreateFind
    <3> HIDE DEF q
    <3>3. RequestsHoldTransactions'
        BY <3>1, <3>2, StillHeld DEF Goto, TypeOK, Existing, RequestsHoldTransactions
    <3> QED  BY <3>1, <3>2, <3>3, GotoTyped DEF TypeOK, Existing
  <2> QED  BY <2>1, <2>2
<1>2. ASSUME NEW c \in Clients, CreateCategory(c) PROVE TypeOK'
  <2> DEFINE q == [request[c] EXCEPT !.phase = "create.write"]
  <2>1. q \in Request /\ q.phase = "create.write"
    <3>1. request[c] \in Request /\ request[c].phase = "create.category"
        BY <1>2 DEF CreateCategory, TypeOK
    <3>2. q \in Request
        BY <3>1, CreateTyped
    <3>3. request[c] \in [phase : {"create.category", "create.write"}, id : RequestIds,
                          payload : Payloads]
        BY <3>1 DEF Request, Idle
    <3> QED  BY <3>2, <3>3
  <2>2. UNCHANGED <<transactions, active, answered>> /\ (Goto(c, q) \/ Reply(c))
      BY <1>2 DEF CreateCategory
  <2> HIDE DEF q
  <2>3. request' \in [Clients -> Request]
      BY <2>1, <2>2, GotoTyped, ReplyTyped
  <2>4. RequestsHoldTransactions'
      BY <1>0, <2>1, <2>2, StillHeld DEF Goto, Reply, TypeOK, Existing, RequestsHoldTransactions
  <2> QED  BY <2>2, <2>3, <2>4 DEF TypeOK, Existing
<1>3. ASSUME NEW c \in Clients, CreateWrite(c) PROVE TypeOK'
  <2> DEFINE id == request[c].id
             payload == request[c].payload
  <2>1. id \in RequestIds /\ payload \in Payloads
      BY <1>3, CreateTyped DEF CreateWrite, TypeOK
  <2>2. Reply(c) /\ active' = active
      BY <1>3 DEF CreateWrite, AnswerExisting
  <2>3. answered' \subseteq RequestIds \X Payloads
      BY <1>3, <2>1 DEF CreateWrite, AnswerExisting, TypeOK
  <2>4. CASE id \in Existing
    <3>1. transactions' = transactions
        BY <1>3, <2>4 DEF CreateWrite, AnswerExisting
    <3>2. RequestsHoldTransactions'
        BY <1>0, <2>2, <3>1, StillHeld DEF Reply, TypeOK, Existing
    <3> QED  BY <2>2, <2>3, <3>1, <3>2, ReplyTyped DEF TypeOK, Existing
  <2>5. CASE id \notin Existing
    <3>1. Insert(id, Manual(payload))
        BY <1>3, <2>5 DEF CreateWrite
    <3> HIDE DEF id, payload
    <3>2. /\ Existing' = Existing \cup {id}
          /\ Existing' \subseteq RequestIds
          /\ transactions' \in [Existing' -> Transaction]
        BY <2>1, <3>1, ManualTyped, InsertTyped
    <3>3. RequestsHoldTransactions'
        BY <1>0, <2>2, <3>2, StillHeld DEF Reply, TypeOK
    <3> QED  BY <2>2, <2>3, <3>2, <3>3, ReplyTyped DEF TypeOK
  <2> QED  BY <2>4, <2>5
<1>4. ASSUME NEW id \in RequestIds, NEW category \in Categories, ConfirmRecurring(id, category)
      PROVE  TypeOK'
  <2>1. /\ Existing' = Existing \cup {id}
        /\ Existing' \subseteq RequestIds
        /\ transactions' \in [Existing' -> Transaction]
      BY <1>4, RecurringTyped, InsertTyped DEF ConfirmRecurring
  <2>2. RequestsHoldTransactions'
      BY <1>4, <2>1, StillHeld DEF ConfirmRecurring
  <2> QED  BY <1>4, <2>1, <2>2 DEF ConfirmRecurring, TypeOK
<1>5. ASSUME NEW c \in Clients, NEW id \in RequestIds, NEW op \in Operations, Open(c, id, op)
      PROVE  TypeOK'
  <2> DEFINE q == [phase |-> "look", id |-> id, op |-> op, seen |-> "unread"]
  <2>1. q \in Request /\ q.id = id
      BY DEF Request, Findings
  <2>2. ExpireAll /\ Goto(c, q) /\ UNCHANGED <<active, answered>> /\ id \in Existing
      BY <1>5 DEF Open
  <2> HIDE DEF q
  <2>3. RequestsHoldTransactions'
      BY <2>1, <2>2, ExpireAllTyped, StillHeld DEF Goto, TypeOK
  <2> QED  BY <2>1, <2>2, <2>3, ExpireAllTyped, GotoTyped DEF TypeOK
<1>6. ASSUME NEW c \in Clients, NEW id \in RequestIds, NEW edit \in Edit, OpenUpdate(c, id, edit)
      PROVE  TypeOK'
  <2> DEFINE q == [phase |-> "look", id |-> id, op |-> "update", edit |-> edit, seen |-> "unread"]
  <2>1. q \in Request /\ q.id = id
      BY DEF Request, Findings
  <2>2. ExpireAll /\ Goto(c, q) /\ UNCHANGED <<active, answered>> /\ id \in Existing
      BY <1>6 DEF OpenUpdate
  <2> HIDE DEF q
  <2>3. RequestsHoldTransactions'
      BY <2>1, <2>2, ExpireAllTyped, StillHeld DEF Goto, TypeOK
  <2> QED  BY <2>1, <2>2, <2>3, ExpireAllTyped, GotoTyped DEF TypeOK
<1>7. ASSUME NEW c \in Clients, Look(c) \/ UpdateCategory(c) PROVE TypeOK'
  <2>1. /\ request[c] \in Request
        /\ request[c].phase \in {"look", "update.category", "write"}
        /\ request[c].id \in Existing
      BY <1>7 DEF Look, UpdateCategory, TypeOK, RequestsHoldTransactions
  <2>2. transactions[request[c].id] \in Transaction
      BY <2>1 DEF TypeOK
  <2>3. PICK q \in Request : q.id = request[c].id /\ (Goto(c, q) \/ Reply(c))
    <3>1. CASE Look(c)
      <4> DEFINE next == IF request[c].op = "update" THEN "update.category" ELSE "write"
                 seen == Seen(transactions[request[c].id])
                 q == [request[c] EXCEPT !.phase = next, !.seen = seen]
      <4>1. seen \in Findings /\ request[c].phase = "look"
          BY <2>2, <3>1, SeenTyped DEF Look
      <4>2. Goto(c, q) \/ Reply(c)
          BY <3>1 DEF Look
      <4>3. q = Looked(request[c], next, seen)
          BY DEF Looked
      <4>4. next = IF request[c].op = "update" THEN "update.category" ELSE "write"
          OBVIOUS
      <4> HIDE DEF seen, next, q
      <4>5. q \in Request /\ q.id = request[c].id
          BY <2>1, <4>1, <4>3, <4>4, LookedTyped
      <4> QED  BY <4>2, <4>5
    <3>2. CASE UpdateCategory(c)
      <4>1. [request[c] EXCEPT !.phase = "write"] \in Request
          BY <2>1, OperationTyped
      <4>2. [request[c] EXCEPT !.phase = "write"].id = request[c].id
          BY <2>1, OperationShape DEF OneOperation, OneUpdate
      <4>3. Goto(c, [request[c] EXCEPT !.phase = "write"]) \/ Reply(c)
          BY <3>2 DEF UpdateCategory
      <4> QED  BY <4>1, <4>2, <4>3
    <3> QED  BY <1>7, <3>1, <3>2
  <2>4. UNCHANGED <<transactions, active, answered>>
      BY <1>7 DEF Look, UpdateCategory
  <2>5. RequestsHoldTransactions'
      BY <1>0, <2>1, <2>3, <2>4, StillHeld DEF Goto, Reply, TypeOK, Existing
  <2> QED  BY <2>3, <2>4, <2>5, GotoTyped, ReplyTyped DEF TypeOK, Existing
<1>8. ASSUME NEW c \in Clients, Write(c) \/ WriteUpdate(c) PROVE TypeOK'
  <2>1. /\ request[c] \in Request
        /\ request[c].phase = "write"
        /\ request[c].id \in Existing
      BY <1>8 DEF Write, WriteUpdate, TypeOK, RequestsHoldTransactions
  <2>2. transactions[request[c].id] \in Transaction
      BY <2>1 DEF TypeOK
  <2>3. PICK t \in Transaction : transactions' = [transactions EXCEPT ![request[c].id] = t]
    <3>1. CASE Write(c)
      <4>1. Written(transactions[request[c].id], request[c].op) \in Transaction
          BY <2>2, <3>1, WrittenTyped DEF Write
      <4> QED  BY <3>1, <4>1 DEF Write
    <3>2. CASE WriteUpdate(c)
      <4>1. request[c].edit \in Edit
          BY <2>1, <3>2, OperationTyped DEF WriteUpdate
      <4>2. request[c].edit.category \in Categories
            /\ request[c].edit.settlement \in {"keep", "track", "remove"}
          BY <4>1 DEF Edit
      <4>3. [Settled(transactions[request[c].id], request[c].edit.settlement)
               EXCEPT !.category = request[c].edit.category] \in Transaction
          BY <2>2, <4>2, SettledTyped, EditedTyped
      <4> QED  BY <3>2, <4>3 DEF WriteUpdate
    <3> QED  BY <1>8, <3>1, <3>2
  <2>4. Reply(c) /\ UNCHANGED <<active, answered>>
      BY <1>8 DEF Write, WriteUpdate
  <2>5. Existing' = Existing /\ transactions' \in [Existing -> Transaction]
      BY <2>1, <2>3, RowTyped
  <2>6. RequestsHoldTransactions'
      BY <1>0, <2>4, <2>5, StillHeld DEF Reply, TypeOK
  <2> QED  BY <2>4, <2>5, <2>6, ReplyTyped DEF TypeOK
<1>9. ASSUME NEW id \in RequestIds, NEW completed \in BOOLEAN,
             CompleteSettlement(id, completed) \/ Age(id)
      PROVE  TypeOK'
  <2>1. id \in Existing /\ transactions[id] \in Transaction
      BY <1>9 DEF CompleteSettlement, Age, TypeOK
  <2>2. PICK t \in Transaction : transactions' = [transactions EXCEPT ![id] = t]
    <3>1. [transactions[id] EXCEPT !.completed = completed] \in Transaction
        BY <2>1 DEF Transaction
    <3>2. [transactions[id] EXCEPT !.fresh = FALSE] \in Transaction
        BY <2>1 DEF Transaction
    <3> QED  BY <1>9, <3>1, <3>2 DEF CompleteSettlement, Age
  <2>3. Existing' = Existing /\ transactions' \in [Existing -> Transaction]
      BY <2>1, <2>2, RowTyped
  <2>4. RequestsHoldTransactions'
      BY <1>9, <2>3, StillHeld DEF CompleteSettlement, Age
  <2> QED  BY <1>9, <2>3, <2>4 DEF CompleteSettlement, Age, TypeOK
<1>10. ASSUME NEW c \in Clients, Cancel(c) PROVE TypeOK'
  <2>1. Reply(c) /\ UNCHANGED <<transactions, active, answered>>
      BY <1>10 DEF Cancel
  <2>2. RequestsHoldTransactions'
      BY <1>0, <2>1, StillHeld DEF Reply, TypeOK, Existing
  <2> QED  BY <2>1, <2>2, ReplyTyped DEF TypeOK, Existing
<1>11. ASSUME NEW category \in Categories, ArchiveCategory(category) \/ RestoreCategory(category)
       PROVE  TypeOK'
    BY <1>11 DEF ArchiveCategory, RestoreCategory, TypeOK, Existing, RequestsHoldTransactions
<1>12. CASE Read
  <2>1. RequestsHoldTransactions'
      BY <1>12, ExpireAllTyped, StillHeld DEF Read
  <2> QED  BY <1>12, <2>1, ExpireAllTyped DEF Read, TypeOK
<1>13. CASE UNCHANGED vars
    BY <1>13 DEF vars, TypeOK, Existing, RequestsHoldTransactions
<1> QED  BY <1>1, <1>2, <1>3, <1>4, <1>5, <1>6, <1>7, <1>8, <1>9, <1>10, <1>11, <1>12, <1>13
         DEF Next, Arrive, Step

\* Every reachable state is well typed, and a request in flight holds a
\* transaction that exists.
THEOREM TypeCorrect == Spec => []TypeOK
BY InitTypeOK, NextTypeOK, PTL DEF Spec

-----------------------------------------------------------------------------
(* What a step does to the table *)

WritesOperation(c, id) ==
    request[c].phase = "write" /\ request[c].op \in Operations /\ request[c].id = id

\* What becomes of a row in one step.
Effect(id, u) ==
    LET t == transactions[id]
    IN  \/ u = t
        \/ u = Expired(t)
        \/ \E c \in Clients : WritesOperation(c, id) /\ u = Written(t, request[c].op)
        \/ \E edit \in Edit :
               u = [Settled(t, edit.settlement) EXCEPT !.category = edit.category]
        \/ \E completed \in BOOLEAN : t.tracked /\ u = [t EXCEPT !.completed = completed]
        \/ u = [t EXCEPT !.fresh = FALSE]

Created(u) ==
    \/ \E payload \in Payloads : u = Manual(payload)
    \/ \E category \in Categories : u = Recurring(category)

TableEffect ==
    /\ \A id \in Existing : id \in Existing' /\ Effect(id, transactions'[id])
    /\ \A id \in Existing' \ Existing : Created(transactions'[id])

LEMMA UnchangedEffect ==
    ASSUME UNCHANGED transactions PROVE TableEffect
BY DEF TableEffect, Existing, Effect

LEMMA ExpireAllEffect ==
    ASSUME ExpireAll PROVE TableEffect
BY DEF TableEffect, Existing, Effect, ExpireAll

LEMMA InsertEffect ==
    ASSUME NEW id, id \notin Existing, NEW t, Created(t), Insert(id, t)
    PROVE  TableEffect
BY DEF TableEffect, Existing, Effect, Insert

LEMMA RowEffect ==
    ASSUME TypeOK, NEW id \in Existing, NEW t, Effect(id, t),
           transactions' = [transactions EXCEPT ![id] = t]
    PROVE  TableEffect
<1>1. \A i \in Existing : Effect(i, transactions[i])
    BY DEF Effect
<1> HIDE DEF Effect
<1> QED  BY <1>1 DEF TableEffect, Existing, TypeOK

LEMMA NextEffect == TypeOK /\ [Next]_vars => TableEffect
<1> SUFFICES ASSUME TypeOK, [Next]_vars PROVE TableEffect
    OBVIOUS
<1>1. ASSUME NEW c \in Clients, NEW id \in RequestIds, NEW payload \in Payloads,
             CreateFind(c, id, payload)
      PROVE  TableEffect
    BY <1>1, UnchangedEffect DEF CreateFind, AnswerExisting
<1>2. ASSUME NEW c \in Clients,
             CreateCategory(c) \/ Look(c) \/ UpdateCategory(c) \/ Cancel(c)
      PROVE  TableEffect
    BY <1>2, UnchangedEffect DEF CreateCategory, Look, UpdateCategory, Cancel
<1>3. ASSUME NEW c \in Clients, CreateWrite(c) PROVE TableEffect
  <2>1. request[c].payload \in Payloads
      BY <1>3, CreateTyped DEF CreateWrite, TypeOK
  <2>2. CASE request[c].id \in Existing
      BY <1>3, <2>2, UnchangedEffect DEF CreateWrite, AnswerExisting
  <2>3. CASE request[c].id \notin Existing
    <3>1. Insert(request[c].id, Manual(request[c].payload))
        BY <1>3, <2>3 DEF CreateWrite
    <3>2. Created(Manual(request[c].payload))
        BY <2>1 DEF Created
    <3> QED  BY <2>3, <3>1, <3>2, InsertEffect
  <2> QED  BY <2>2, <2>3
<1>4. ASSUME NEW id \in RequestIds, NEW category \in Categories, ConfirmRecurring(id, category)
      PROVE  TableEffect
  <2>1. Created(Recurring(category))
      BY DEF Created
  <2> QED  BY <1>4, <2>1, InsertEffect DEF ConfirmRecurring
<1>5. ASSUME NEW c \in Clients, NEW id \in RequestIds, NEW op \in Operations, Open(c, id, op)
      PROVE  TableEffect
    BY <1>5, ExpireAllEffect DEF Open
<1>6. ASSUME NEW c \in Clients, NEW id \in RequestIds, NEW edit \in Edit, OpenUpdate(c, id, edit)
      PROVE  TableEffect
    BY <1>6, ExpireAllEffect DEF OpenUpdate
<1>7. ASSUME NEW c \in Clients, Write(c) PROVE TableEffect
  <2> DEFINE id == request[c].id
             t == Written(transactions[id], request[c].op)
  <2>1. id \in Existing
      BY <1>7 DEF Write, TypeOK, RequestsHoldTransactions
  <2>2. Effect(id, t)
      BY <1>7 DEF Write, Effect, WritesOperation
  <2>3. transactions' = [transactions EXCEPT ![id] = t]
      BY <1>7 DEF Write
  <2> HIDE DEF id, t
  <2> QED  BY <2>1, <2>2, <2>3, RowEffect
<1>8. ASSUME NEW c \in Clients, WriteUpdate(c) PROVE TableEffect
  <2> DEFINE id == request[c].id
             edit == request[c].edit
             t == [Settled(transactions[id], edit.settlement) EXCEPT !.category = edit.category]
  <2>1. id \in Existing
      BY <1>8 DEF WriteUpdate, TypeOK, RequestsHoldTransactions
  <2>2. edit \in Edit
      BY <1>8, OperationTyped DEF WriteUpdate, TypeOK
  <2>3. transactions' = [transactions EXCEPT ![id] = t]
      BY <1>8 DEF WriteUpdate
  <2>4. Effect(id, t)
      BY <2>2 DEF Effect
  <2> HIDE DEF id, t
  <2> QED  BY <2>1, <2>3, <2>4, RowEffect
<1>9. ASSUME NEW id \in RequestIds, NEW completed \in BOOLEAN, CompleteSettlement(id, completed)
      PROVE  TableEffect
  <2> DEFINE t == [transactions[id] EXCEPT !.completed = completed]
  <2>1. Effect(id, t)
      BY <1>9 DEF CompleteSettlement, Effect
  <2>2. id \in Existing /\ transactions' = [transactions EXCEPT ![id] = t]
      BY <1>9 DEF CompleteSettlement
  <2> HIDE DEF t
  <2> QED  BY <2>1, <2>2, RowEffect
<1>10. ASSUME NEW id \in RequestIds, Age(id) PROVE TableEffect
  <2> DEFINE t == [transactions[id] EXCEPT !.fresh = FALSE]
  <2>1. Effect(id, t)
      BY DEF Effect
  <2>2. id \in Existing /\ transactions' = [transactions EXCEPT ![id] = t]
      BY <1>10 DEF Age
  <2> HIDE DEF t
  <2> QED  BY <2>1, <2>2, RowEffect
<1>11. ASSUME NEW category \in Categories, ArchiveCategory(category) \/ RestoreCategory(category)
       PROVE  TableEffect
    BY <1>11, UnchangedEffect DEF ArchiveCategory, RestoreCategory
<1>12. CASE Read
    BY <1>12, ExpireAllEffect DEF Read
<1>13. CASE UNCHANGED vars
    BY <1>13, UnchangedEffect DEF vars
<1> QED  BY <1>1, <1>2, <1>3, <1>4, <1>5, <1>6, <1>7, <1>8, <1>9, <1>10, <1>11, <1>12, <1>13
         DEF Next, Arrive, Step

\* What no step changes in a row.
LEMMA EffectKeeps ==
    ASSUME TypeOK, NEW id \in Existing, NEW u, Effect(id, u)
    PROVE  u.payload = transactions[id].payload /\ u.source = transactions[id].source
<1> DEFINE t == transactions[id]
<1>1. t \in Transaction
    BY DEF TypeOK
<1> HIDE DEF t
<1>2. ASSUME NEW c \in Clients, WritesOperation(c, id), u = Written(t, request[c].op)
      PROVE  u.payload = t.payload /\ u.source = t.source
    BY <1>1, <1>2 DEF WritesOperation, Written, Operations, Transaction
<1>3. ASSUME NEW edit \in Edit,
             u = [Settled(t, edit.settlement) EXCEPT !.category = edit.category]
      PROVE  u.payload = t.payload /\ u.source = t.source
    BY <1>1, <1>3 DEF Settled, Edit, Transaction
<1>4. u = Expired(t) => u.payload = t.payload /\ u.source = t.source
    BY <1>1 DEF Expired, Transaction
<1>5. ASSUME NEW completed \in BOOLEAN, u = [t EXCEPT !.completed = completed]
      PROVE  u.payload = t.payload /\ u.source = t.source
    BY <1>1, <1>5 DEF Transaction
<1>6. u = [t EXCEPT !.fresh = FALSE] => u.payload = t.payload /\ u.source = t.source
    BY <1>1 DEF Transaction
<1>7. \/ u = t
      \/ u = Expired(t)
      \/ \E c \in Clients : WritesOperation(c, id) /\ u = Written(t, request[c].op)
      \/ \E edit \in Edit :
             u = [Settled(t, edit.settlement) EXCEPT !.category = edit.category]
      \/ \E completed \in BOOLEAN : t.tracked /\ u = [t EXCEPT !.completed = completed]
      \/ u = [t EXCEPT !.fresh = FALSE]
    BY DEF Effect, t
<1>8. u.payload = t.payload /\ u.source = t.source
    BY <1>2, <1>3, <1>4, <1>5, <1>6, <1>7
<1> QED  BY <1>8 DEF t

\* What an operation makes of a status.
LEMMA WrittenStatus ==
    ASSUME NEW t \in Transaction, NEW op \in Operations
    PROVE  Written(t, op).status = CASE op = "attach" -> "attached"
                                     [] op = "fail" -> "failed"
                                     [] op = "remove" -> "skipped"
                                     [] OTHER -> t.status
BY DEF Written, Operations, Transaction

\* A location is attached by the operation of that name only.
LEMMA EffectAttaches ==
    ASSUME TypeOK, NEW id \in Existing, NEW u, Effect(id, u),
           u.status = "attached", transactions[id].status # "attached"
    PROVE  \E c \in Clients : WritesOperation(c, id) /\ request[c].op = "attach"
<1> DEFINE t == transactions[id]
<1>1. t \in Transaction
    BY DEF TypeOK
<1>2. \/ u = t
      \/ u = Expired(t)
      \/ \E c \in Clients : WritesOperation(c, id) /\ u = Written(t, request[c].op)
      \/ \E edit \in Edit :
             u = [Settled(t, edit.settlement) EXCEPT !.category = edit.category]
      \/ \E completed \in BOOLEAN : t.tracked /\ u = [t EXCEPT !.completed = completed]
      \/ u = [t EXCEPT !.fresh = FALSE]
    BY DEF Effect, t
<1> HIDE DEF t
<1>3. u = Expired(t) => u.status \in {t.status, "failed"}
    BY <1>1 DEF Expired, Transaction
<1>4. ASSUME NEW edit \in Edit,
             u = [Settled(t, edit.settlement) EXCEPT !.category = edit.category]
      PROVE  u.status = t.status
    BY <1>1, <1>4 DEF Settled, Edit, Transaction
<1>5. ASSUME NEW completed \in BOOLEAN, u = [t EXCEPT !.completed = completed]
      PROVE  u.status = t.status
    BY <1>1, <1>5 DEF Transaction
<1>6. u = [t EXCEPT !.fresh = FALSE] => u.status = t.status
    BY <1>1 DEF Transaction
<1>7. ASSUME NEW c \in Clients, WritesOperation(c, id), u = Written(t, request[c].op)
      PROVE  request[c].op = "attach" \/ u.status # "attached" \/ u.status = t.status
    BY <1>1, <1>7, WrittenStatus DEF WritesOperation, Operations
<1>8. t.status # "attached"
    BY DEF t
<1> QED  BY <1>2, <1>3, <1>4, <1>5, <1>6, <1>7, <1>8

-----------------------------------------------------------------------------
(* Answered creations stand *)

LEMMA InitAnswers == Init => AnswersStand
BY DEF Init, AnswersStand

\* An answer that is new in a step belongs to a row that step found or made.
LEMMA NewAnswer ==
    ASSUME TypeOK, [Next]_vars, NEW a \in answered' \ answered
    PROVE  a[1] \in Existing' /\ transactions'[a[1]].payload = a[2]
<1>1. ASSUME NEW c \in Clients, NEW id \in RequestIds, NEW payload \in Payloads,
             CreateFind(c, id, payload)
      PROVE  a[1] \in Existing' /\ transactions'[a[1]].payload = a[2]
  <2>1. id \in Existing /\ AnswerExisting(c, id, payload)
      BY <1>1 DEF CreateFind
  <2>2. a = <<id, payload>> /\ transactions[id].payload = payload /\ transactions' = transactions
      BY <2>1 DEF AnswerExisting
  <2> QED  BY <2>1, <2>2 DEF Existing
<1>2. ASSUME NEW c \in Clients, CreateWrite(c)
      PROVE  a[1] \in Existing' /\ transactions'[a[1]].payload = a[2]
  <2> DEFINE id == request[c].id
             payload == request[c].payload
  <2>1. CASE id \in Existing
    <3>1. AnswerExisting(c, id, payload)
        BY <1>2, <2>1 DEF CreateWrite
    <3>2. a = <<id, payload>> /\ transactions[id].payload = payload
          /\ transactions' = transactions
        BY <3>1 DEF AnswerExisting
    <3> QED  BY <2>1, <3>2 DEF Existing
  <2>2. CASE id \notin Existing
    <3>1. Insert(id, Manual(payload)) /\ a = <<id, payload>>
        BY <1>2, <2>2 DEF CreateWrite
    <3>2. Manual(payload).payload = payload
        BY DEF Manual
    <3> HIDE DEF id, payload
    <3>3. id \in Existing' /\ transactions'[id] = Manual(payload)
        BY <3>1 DEF Insert, Existing
    <3> QED  BY <3>1, <3>2, <3>3
  <2> QED  BY <2>1, <2>2
<1>3. \/ \E c \in Clients, id \in RequestIds, payload \in Payloads : CreateFind(c, id, payload)
      \/ \E c \in Clients : CreateWrite(c)
    BY DEF Next, Arrive, Step, CreateCategory, Look, UpdateCategory, Cancel, ConfirmRecurring,
           Open, OpenUpdate, Write, WriteUpdate, CompleteSettlement, Age, ArchiveCategory,
           RestoreCategory, Read, vars
<1> QED  BY <1>1, <1>2, <1>3

LEMMA NextAnswers == TypeOK /\ AnswersStand /\ [Next]_vars => AnswersStand'
<1> SUFFICES ASSUME TypeOK, AnswersStand, [Next]_vars, NEW a \in answered'
             PROVE  a[1] \in Existing' /\ transactions'[a[1]].payload = a[2]
    BY DEF AnswersStand
<1>1. CASE a \in answered
  <2>1. a[1] \in Existing /\ transactions[a[1]].payload = a[2]
      BY <1>1 DEF AnswersStand
  <2>2. a[1] \in Existing' /\ Effect(a[1], transactions'[a[1]])
      BY <2>1, NextEffect DEF TableEffect
  <2> QED  BY <2>1, <2>2, EffectKeeps
<1> QED  BY <1>1, NewAnswer

\* A creation answered with success keeps its transaction, with its content, in
\* every interleaving of retries, edits, deletions and expiries.
THEOREM AnsweredCreationsStand == Spec => []AnswersStand
<1>1. Spec => [](TypeOK /\ AnswersStand)
    BY InitTypeOK, NextTypeOK, InitAnswers, NextAnswers, PTL DEF Spec
<1> QED  BY <1>1, PTL

-----------------------------------------------------------------------------
(* The shape of locations and settlements                                  *)
(*                                                                         *)
(* A write does not look at the row again; that it still fits is due to    *)
(* what its request has seen and no other request can change: the source.  *)

RowShape(t) ==
    /\ t.status = "attached" => t.located
    /\ t.located => t.status \in {"attached", "failed"}
    /\ t.source = "recurring" => t.status = "none"
    /\ t.completed => t.tracked

RowsShaped == \A id \in Existing : RowShape(transactions[id])

ForManual(q) == q.phase = "write" /\ q.op \in {"attach", "fail", "remove"}

ManualHeld ==
    \A c \in Clients :
        ForManual(request[c]) => transactions[request[c].id].source = "manual"

ShapeInv == TypeOK /\ RowsShaped /\ ManualHeld

LEMMA CreatedShaped ==
    ASSUME NEW u, Created(u) PROVE RowShape(u)
<1>1. ASSUME NEW payload \in Payloads PROVE RowShape(Manual(payload))
    BY TransactionsAssumption DEF RowShape, Manual, Payload
<1>2. ASSUME NEW category \in Categories PROVE RowShape(Recurring(category))
    BY DEF RowShape, Recurring
<1> QED  BY <1>1, <1>2 DEF Created

LEMMA EffectShaped ==
    ASSUME TypeOK, ManualHeld, NEW id \in Existing, RowShape(transactions[id]),
           NEW u, Effect(id, u)
    PROVE  RowShape(u)
<1> DEFINE t == transactions[id]
<1>1. t \in Transaction /\ RowShape(t)
    BY DEF TypeOK
<1>2. ASSUME NEW c \in Clients, WritesOperation(c, id), u = Written(t, request[c].op)
      PROVE  RowShape(u)
  <2>1. request[c].op \in {"attach", "fail", "remove"} => t.source = "manual"
      BY <1>2 DEF WritesOperation, ManualHeld, ForManual
  <2>2. request[c].op \in Operations
      BY <1>2 DEF WritesOperation
  <2> HIDE DEF t
  <2> QED  BY <1>1, <1>2, <2>1, <2>2 DEF Written, Operations, Transaction, RowShape
<1> HIDE DEF t
<1>3. ASSUME NEW edit \in Edit,
             u = [Settled(t, edit.settlement) EXCEPT !.category = edit.category]
      PROVE  RowShape(u)
    BY <1>1, <1>3 DEF Settled, Edit, Transaction, RowShape
<1>4. u = Expired(t) => RowShape(u)
    BY <1>1 DEF Expired, Transaction, RowShape
<1>5. ASSUME NEW completed \in BOOLEAN, t.tracked, u = [t EXCEPT !.completed = completed]
      PROVE  RowShape(u)
    BY <1>1, <1>5 DEF Transaction, RowShape
<1>6. u = [t EXCEPT !.fresh = FALSE] => RowShape(u)
    BY <1>1 DEF Transaction, RowShape
<1>7. \/ u = t
      \/ u = Expired(t)
      \/ \E c \in Clients : WritesOperation(c, id) /\ u = Written(t, request[c].op)
      \/ \E edit \in Edit :
             u = [Settled(t, edit.settlement) EXCEPT !.category = edit.category]
      \/ \E completed \in BOOLEAN : t.tracked /\ u = [t EXCEPT !.completed = completed]
      \/ u = [t EXCEPT !.fresh = FALSE]
    BY DEF Effect, t
<1> QED  BY <1>1, <1>2, <1>3, <1>4, <1>5, <1>6, <1>7

\* What a step makes of a request that it brings on: Look finds the row as it is, and
\* the category of an edit changes nothing that was found.
LooksIn(d) ==
    LET t == transactions[request[d].id]
    IN  /\ request[d].phase = "look" /\ transactions' = transactions
        /\ Allowed(t, request[d].op)
        /\ request'[d].id = request[d].id /\ request'[d].op = request[d].op
        /\ request'[d].seen = Seen(t)

GoesOn(d) ==
    /\ request[d].phase = "update.category"
    /\ request[d].op = "update" /\ request'[d].op = "update"
    /\ request'[d].seen = request[d].seen

LEMMA RequestStep ==
    ASSUME TypeOK, [Next]_vars, NEW d \in Clients
    PROVE  \/ request'[d] = request[d]
           \/ request'[d].phase \notin {"update.category", "write"}
           \/ LooksIn(d) \/ GoesOn(d)
<1> DEFINE Steps == \/ request'[d] = request[d]
                    \/ request'[d].phase \notin {"update.category", "write"}
                    \/ LooksIn(d) \/ GoesOn(d)
<1>0. Idle.phase = "idle"
    BY DEF Idle
<1>1. ASSUME NEW c \in Clients, NEW q, Goto(c, q),
             q.phase \notin {"update.category", "write"}
      PROVE  Steps
    BY <1>1 DEF Goto, TypeOK
<1>2. ASSUME NEW c \in Clients, Reply(c) PROVE Steps
    BY <1>0, <1>2 DEF Reply, TypeOK
<1>3. ASSUME NEW c \in Clients, Look(c) PROVE Steps
  <2>1. CASE Reply(c)
      BY <1>2, <2>1
  <2>2. CASE ~Reply(c)
    <3> DEFINE t == transactions[request[c].id]
               next == IF request[c].op = "update" THEN "update.category" ELSE "write"
               q == [request[c] EXCEPT !.phase = next, !.seen = Seen(t)]
    <3>1. /\ request[c].phase = "look" /\ transactions' = transactions
          /\ Allowed(t, request[c].op) /\ Goto(c, q)
        BY <1>3, <2>2 DEF Look
    <3>2. request[c] \in Request /\ t \in Transaction
        BY <3>1 DEF TypeOK, RequestsHoldTransactions
    <3>3. Seen(t) \in Findings
        BY <3>2, SeenTyped
    <3>4. q.id = request[c].id /\ q.op = request[c].op /\ q.seen = Seen(t)
      <4>1. q = Looked(request[c], next, Seen(t))
          BY DEF Looked
      <4>2. next = IF request[c].op = "update" THEN "update.category" ELSE "write"
          OBVIOUS
      <4> HIDE DEF next, q, t
      <4> QED  BY <3>1, <3>2, <3>3, <4>1, <4>2, LookedTyped
    <3> HIDE DEF q
    <3>5. request'[c] = q /\ (c # d => request'[d] = request[d])
        BY <3>1 DEF Goto, TypeOK
    <3> QED  BY <3>1, <3>4, <3>5 DEF LooksIn
  <2> QED  BY <2>1, <2>2
<1>4. ASSUME NEW c \in Clients, UpdateCategory(c) PROVE Steps
  <2> DEFINE q == [request[c] EXCEPT !.phase = "write"]
  <2>1. Goto(c, q) \/ Reply(c)
      BY <1>4 DEF UpdateCategory
  <2>2. request[c].phase = "update.category" /\ request[c] \in OneUpdate
      BY <1>4, OperationShape DEF UpdateCategory, TypeOK, OneOperation
  <2>3. request[c].op = "update" /\ q.op = "update" /\ q.seen = request[c].seen
      BY <2>2 DEF OneUpdate
  <2> HIDE DEF q
  <2>4. ASSUME Goto(c, q) PROVE Steps
    <3>1. request'[c] = q /\ (c # d => request'[d] = request[d])
        BY <2>4 DEF Goto, TypeOK
    <3> QED  BY <2>2, <2>3, <3>1 DEF GoesOn
  <2> QED  BY <1>2, <2>1, <2>4
<1>5. ASSUME NEW c \in Clients, CreateCategory(c) PROVE Steps
  <2> DEFINE q == [request[c] EXCEPT !.phase = "create.write"]
  <2>1. Goto(c, q) \/ Reply(c)
      BY <1>5 DEF CreateCategory
  <2>2. request[c] \in [phase : {"create.category", "create.write"}, id : RequestIds,
                        payload : Payloads]
      BY <1>5 DEF CreateCategory, TypeOK, Request, Idle
  <2>3. q.phase = "create.write"
      BY <2>2
  <2> HIDE DEF q, Steps
  <2> QED  BY <1>1, <1>2, <2>1, <2>3
<1>6. ASSUME NEW c \in Clients, NEW id \in RequestIds, NEW payload \in Payloads,
             CreateFind(c, id, payload)
      PROVE  Steps
  <2>1. [phase |-> "create.category", id |-> id, payload |-> payload].phase = "create.category"
      OBVIOUS
  <2>2. \/ Reply(c)
        \/ Goto(c, [phase |-> "create.category", id |-> id, payload |-> payload])
      BY <1>6 DEF CreateFind, AnswerExisting
  <2> HIDE DEF Steps
  <2> QED  BY <1>1, <1>2, <2>1, <2>2
<1>7. ASSUME NEW c \in Clients, NEW id \in RequestIds, NEW op \in Operations, Open(c, id, op)
      PROVE  Steps
  <2> DEFINE q == [phase |-> "look", id |-> id, op |-> op, seen |-> "unread"]
  <2>1. q.phase = "look"
      OBVIOUS
  <2>2. Goto(c, q)
      BY <1>7 DEF Open
  <2> HIDE DEF Steps, q
  <2> QED  BY <1>1, <2>1, <2>2
<1>8. ASSUME NEW c \in Clients, NEW id \in RequestIds, NEW edit \in Edit, OpenUpdate(c, id, edit)
      PROVE  Steps
  <2> DEFINE q == [phase |-> "look", id |-> id, op |-> "update", edit |-> edit, seen |-> "unread"]
  <2>1. q.phase = "look"
      OBVIOUS
  <2>2. Goto(c, q)
      BY <1>8 DEF OpenUpdate
  <2> HIDE DEF Steps, q
  <2> QED  BY <1>1, <2>1, <2>2
<1>9. ASSUME NEW c \in Clients, CreateWrite(c) \/ Write(c) \/ WriteUpdate(c) \/ Cancel(c)
      PROVE  Steps
  <2> HIDE DEF Steps
  <2> QED  BY <1>2, <1>9 DEF CreateWrite, AnswerExisting, Write, WriteUpdate, Cancel
<1>10. \/ request' = request
       \/ \E c \in Clients :
             \/ CreateCategory(c) \/ Look(c) \/ UpdateCategory(c)
             \/ CreateWrite(c) \/ Write(c) \/ WriteUpdate(c) \/ Cancel(c)
             \/ \E id \in RequestIds :
                   \/ \E payload \in Payloads : CreateFind(c, id, payload)
                   \/ \E op \in Operations : Open(c, id, op)
                   \/ \E edit \in Edit : OpenUpdate(c, id, edit)
    BY DEF Next, Arrive, Step, ConfirmRecurring, CompleteSettlement, Age, ArchiveCategory,
           RestoreCategory, Read, vars
<1>11. request' = request => Steps
    OBVIOUS
<1> HIDE DEF Steps
<1>12. Steps
    BY <1>3, <1>4, <1>5, <1>6, <1>7, <1>8, <1>9, <1>10, <1>11
<1> QED  BY <1>12 DEF Steps

\* A request comes to write to a location only by looking at a manual
\* transaction first, in a step that changes no row.
LEMMA WriteIsSeen ==
    ASSUME TypeOK, [Next]_vars, NEW d \in Clients, ForManual(request'[d])
    PROVE  \/ request'[d] = request[d]
           \/ /\ transactions' = transactions
              /\ request'[d].id = request[d].id
              /\ transactions[request[d].id].source = "manual"
<1>1. request'[d] = request[d] \/ LooksIn(d)
    BY RequestStep DEF ForManual, GoesOn
<1>2. LooksIn(d) => LocationAllows(transactions[request[d].id], request'[d].op)
    BY DEF LooksIn, Allowed
<1> QED  BY <1>1, <1>2 DEF LooksIn, LocationAllows, ForManual

LEMMA InitShape == Init => ShapeInv
<1>1. Init => RowsShaped
    BY DEF Init, RowsShaped, Existing
<1>2. Init => ManualHeld
    BY DEF Init, ManualHeld, ForManual, Idle
<1> QED  BY <1>1, <1>2, InitTypeOK DEF ShapeInv

LEMMA NextShape == ShapeInv /\ [Next]_vars => ShapeInv'
<1> SUFFICES ASSUME ShapeInv, [Next]_vars PROVE ShapeInv'
    OBVIOUS
<1>1. TypeOK /\ RowsShaped /\ ManualHeld
    BY DEF ShapeInv
<1>2. TableEffect /\ TypeOK'
    BY <1>1, NextEffect, NextTypeOK
<1>3. RowsShaped'
  <2> SUFFICES ASSUME NEW id \in Existing' PROVE RowShape(transactions'[id])
      BY DEF RowsShaped, RowShape
  <2>1. CASE id \in Existing
    <3>1. RowShape(transactions[id]) /\ Effect(id, transactions'[id])
        BY <1>1, <1>2, <2>1 DEF RowsShaped, TableEffect
    <3> QED  BY <1>1, <2>1, <3>1, EffectShaped
  <2>2. CASE id \notin Existing
      BY <1>2, <2>2, CreatedShaped DEF TableEffect
  <2> QED  BY <2>1, <2>2
<1>4. ManualHeld'
  <2> SUFFICES ASSUME NEW d \in Clients, ForManual(request'[d])
               PROVE  transactions'[request'[d].id].source = "manual"
      BY DEF ManualHeld, ForManual
  <2>1. CASE request'[d] = request[d]
    <3>1. request[d].id \in Existing /\ transactions[request[d].id].source = "manual"
        BY <1>1, <2>1 DEF ForManual, ManualHeld, TypeOK, RequestsHoldTransactions
    <3>2. Effect(request[d].id, transactions'[request[d].id])
        BY <1>2, <3>1 DEF TableEffect
    <3> QED  BY <1>1, <2>1, <3>1, <3>2, EffectKeeps
  <2>2. CASE request'[d] # request[d]
      BY <1>1, <2>2, WriteIsSeen
  <2> QED  BY <2>1, <2>2
<1> QED  BY <1>2, <1>3, <1>4 DEF ShapeInv

\* An attached location has its row, a row only goes with attached or failed,
\* and transactions of recurring items have no location, in every interleaving
\* of captures, failures, removals and expiries.
THEOREM LocationsKeepTheirShape == Spec => []LocationShape
<1>1. ShapeInv => LocationShape
    BY DEF ShapeInv, RowsShaped, RowShape, LocationShape
<1> QED  BY <1>1, InitShape, NextShape, PTL DEF Spec

\* Only tracked transactions are completed, in every interleaving of edits,
\* completions and deletions.
THEOREM OnlyTrackedAreCompleted == Spec => []CompletedIsTracked
<1>1. ShapeInv => CompletedIsTracked
    BY DEF ShapeInv, RowsShaped, RowShape, CompletedIsTracked
<1> QED  BY <1>1, InitShape, NextShape, PTL DEF Spec

-----------------------------------------------------------------------------
(* Deleted transactions *)

\* What a request has found lets it through: all but the deletion and its opposite
\* have found the transaction undeleted, and a location in a status that allows them.
LetThrough(q) ==
    q.phase \in {"update.category", "write"} =>
        /\ q.op \notin {"delete", "restore"} => q.seen \in Statuses
        /\ q.op = "attach" => q.seen \in {"pending", "failed", "attached"}
        /\ q.op = "fail" => q.seen = "pending"

AllLetThrough == \A c \in Clients : LetThrough(request[c])

LEMMA InitLetThrough == Init => AllLetThrough
BY DEF Init, Idle, AllLetThrough, LetThrough

LEMMA NextLetThrough == TypeOK /\ AllLetThrough /\ [Next]_vars => AllLetThrough'
<1> SUFFICES ASSUME TypeOK, AllLetThrough, [Next]_vars, NEW d \in Clients
             PROVE  LetThrough(request'[d])
    BY DEF AllLetThrough, LetThrough
<1>1. LetThrough(request[d])
    BY DEF AllLetThrough
<1>2. CASE LooksIn(d)
  <2> DEFINE t == transactions[request[d].id]
  <2>1. t \in Transaction /\ Allowed(t, request'[d].op) /\ request'[d].seen = Seen(t)
      BY <1>2 DEF LooksIn, TypeOK, RequestsHoldTransactions
  <2> HIDE DEF t
  <2>2. request'[d].op \notin {"delete", "restore"} =>
            request'[d].seen = t.status /\ t.status \in Statuses
      BY <2>1, SeenTyped DEF Allowed
  <2>3. LocationAllows(t, request'[d].op)
      BY <2>1 DEF Allowed
  <2> QED  BY <2>2, <2>3 DEF LocationAllows, LetThrough
<1>3. CASE GoesOn(d)
    BY <1>1, <1>3 DEF GoesOn, LetThrough
<1>4. CASE request'[d] = request[d] \/ request'[d].phase \notin {"update.category", "write"}
    BY <1>1, <1>4 DEF LetThrough
<1> QED  BY <1>2, <1>3, <1>4, RequestStep

LEMMA AlwaysLetThrough == Spec => [](TypeOK /\ AllLetThrough)
BY InitTypeOK, NextTypeOK, InitLetThrough, NextLetThrough, PTL DEF Spec

\* What a step may do to a deleted transaction that it does not restore.
StaysDeleted(id) ==
    transactions[id].deleted /\ transactions'[id].deleted =>
        \/ transactions'[id] \in
               {transactions[id], Expired(transactions[id]),
                [transactions[id] EXCEPT !.fresh = FALSE]}
        \/ Belated(id, Statuses)

AllStayDeleted == \A id \in Existing : StaysDeleted(id)

LEMMA UntouchedStay ==
    ASSUME NEW id, transactions'[id] = transactions[id]
    PROVE  StaysDeleted(id)
BY DEF StaysDeleted

LEMMA ExpireAllStay == ASSUME ExpireAll PROVE AllStayDeleted
BY DEF ExpireAll, AllStayDeleted, StaysDeleted

\* A step that changes one row leaves every other as it is.
LEMMA OneRowStay ==
    ASSUME TypeOK, NEW id \in Existing, NEW t, transactions' = [transactions EXCEPT ![id] = t],
           StaysDeleted(id)
    PROVE  AllStayDeleted
<1>1. \A i \in Existing : i # id => transactions'[i] = transactions[i]
    BY DEF TypeOK
<1> QED  BY <1>1, UntouchedStay DEF AllStayDeleted

\* The request that writes a row that stays deleted has found it undeleted, unless it
\* deletes it once more.
LEMMA WriterIsBelated ==
    ASSUME TypeOK, AllLetThrough, NEW c \in Clients, Write(c) \/ WriteUpdate(c)
    PROVE  StaysDeleted(request[c].id)
<1> DEFINE id == request[c].id
           t == transactions[id]
<1>1. /\ request[c].phase = "write" /\ Reply(c)
      /\ id \in Existing /\ t \in Transaction
    BY DEF Write, WriteUpdate, TypeOK, RequestsHoldTransactions
<1>2. request'[c] = Idle
    BY <1>1 DEF Reply, TypeOK
<1>3. CASE request[c].op \notin {"delete", "restore"}
  <2>1. Belated(id, Statuses)
      BY <1>1, <1>2, <1>3 DEF AllLetThrough, LetThrough, Belated
  <2> QED  BY <2>1 DEF StaysDeleted
<1>4. CASE request[c].op \in {"delete", "restore"}
  <2>1. transactions'[id] = Written(t, request[c].op)
      BY <1>1, <1>4 DEF Write, WriteUpdate, TypeOK
  <2> HIDE DEF t, id
  <2>2. CASE request[c].op = "restore"
    <3>1. ~Written(t, request[c].op).deleted
        BY <1>1, <2>2 DEF Written, Transaction
    <3> QED  BY <2>1, <3>1 DEF StaysDeleted, id
  <2>3. CASE request[c].op = "delete"
    <3>1. t.deleted => Written(t, request[c].op) = t
        BY <1>1, <2>3 DEF Written, Transaction
    <3> QED  BY <2>1, <3>1 DEF StaysDeleted, t, id
  <2> QED  BY <1>4, <2>2, <2>3
<1> QED  BY <1>3, <1>4

LEMMA NextStayDeleted == TypeOK /\ AllLetThrough /\ [Next]_vars => AllStayDeleted
<1> SUFFICES ASSUME TypeOK, AllLetThrough, [Next]_vars PROVE AllStayDeleted
    OBVIOUS
<1>0. ASSUME UNCHANGED transactions PROVE AllStayDeleted
    BY <1>0, UntouchedStay DEF AllStayDeleted
<1>1. ASSUME NEW id, NEW t, id \notin Existing, Insert(id, t) PROVE AllStayDeleted
    BY <1>1, UntouchedStay DEF Insert, AllStayDeleted
<1>2. ASSUME NEW c \in Clients, NEW id \in RequestIds, NEW payload \in Payloads,
             CreateFind(c, id, payload)
      PROVE  AllStayDeleted
    BY <1>0, <1>2 DEF CreateFind, AnswerExisting
<1>3. ASSUME NEW c \in Clients,
             CreateCategory(c) \/ Look(c) \/ UpdateCategory(c) \/ Cancel(c)
      PROVE  AllStayDeleted
    BY <1>0, <1>3 DEF CreateCategory, Look, UpdateCategory, Cancel
<1>4. ASSUME NEW c \in Clients, CreateWrite(c) PROVE AllStayDeleted
    BY <1>0, <1>1, <1>4 DEF CreateWrite, AnswerExisting
<1>5. ASSUME NEW id \in RequestIds, NEW category \in Categories, ConfirmRecurring(id, category)
      PROVE  AllStayDeleted
    BY <1>1, <1>5 DEF ConfirmRecurring
<1>6. ASSUME NEW c \in Clients, NEW id \in RequestIds, NEW op \in Operations, Open(c, id, op)
      PROVE  AllStayDeleted
    BY <1>6, ExpireAllStay DEF Open
<1>7. ASSUME NEW c \in Clients, NEW id \in RequestIds, NEW edit \in Edit, OpenUpdate(c, id, edit)
      PROVE  AllStayDeleted
    BY <1>7, ExpireAllStay DEF OpenUpdate
<1>8. ASSUME NEW c \in Clients, Write(c) \/ WriteUpdate(c) PROVE AllStayDeleted
  <2>1. request[c].id \in Existing /\ StaysDeleted(request[c].id)
      BY <1>8, WriterIsBelated DEF Write, WriteUpdate, TypeOK, RequestsHoldTransactions
  <2>2. \E t : transactions' = [transactions EXCEPT ![request[c].id] = t]
      BY <1>8 DEF Write, WriteUpdate
  <2> QED  BY <2>1, <2>2, OneRowStay
<1>9. ASSUME NEW id \in RequestIds, NEW completed \in BOOLEAN, CompleteSettlement(id, completed)
      PROVE  AllStayDeleted
  <2>1. id \in Existing /\ ~transactions[id].deleted
      BY <1>9 DEF CompleteSettlement
  <2>2. \E t : transactions' = [transactions EXCEPT ![id] = t]
      BY <1>9 DEF CompleteSettlement
  <2> QED  BY <2>1, <2>2, OneRowStay DEF StaysDeleted
<1>10. ASSUME NEW id \in RequestIds, Age(id) PROVE AllStayDeleted
  <2>1. id \in Existing
        /\ transactions' = [transactions EXCEPT ![id] = [transactions[id] EXCEPT !.fresh = FALSE]]
      BY <1>10 DEF Age
  <2>2. StaysDeleted(id)
      BY <2>1 DEF StaysDeleted, TypeOK
  <2> QED  BY <2>1, <2>2, OneRowStay
<1>11. ASSUME NEW category \in Categories, ArchiveCategory(category) \/ RestoreCategory(category)
       PROVE  AllStayDeleted
    BY <1>0, <1>11 DEF ArchiveCategory, RestoreCategory
<1>12. CASE Read
    BY <1>12, ExpireAllStay DEF Read
<1>13. CASE UNCHANGED vars
    BY <1>0, <1>13 DEF vars
<1> QED  BY <1>2, <1>3, <1>4, <1>5, <1>6, <1>7, <1>8, <1>9, <1>10, <1>11, <1>12, <1>13
         DEF Next, Arrive, Step

\* A deleted transaction that stays deleted stays as it is, but for the passing of
\* time, unless a request writes it that had found it before it was deleted.
THEOREM DeletedStay == Spec => DeletedStaysAsItIs
<1>1. TypeOK /\ AllLetThrough /\ [Next]_vars =>
        [\A id \in Existing :
           transactions[id].deleted /\ transactions'[id].deleted =>
               \/ transactions'[id] \in
                      {transactions[id], Expired(transactions[id]),
                       [transactions[id] EXCEPT !.fresh = FALSE]}
               \/ Belated(id, Statuses)]_transactions
    BY NextStayDeleted DEF AllStayDeleted, StaysDeleted
<1> QED  BY <1>1, AlwaysLetThrough, PTL DEF Spec, DeletedStaysAsItIs

-----------------------------------------------------------------------------
(* Settled locations *)

\* What a step may do to the status of a location.
StaysSettled(id) ==
    LET was == transactions[id].status
        is == transactions'[id].status
    IN  /\ was \in {"none", "skipped"} /\ is \notin {"none", "skipped"} =>
               Belated(id, {"pending", "attached", "failed"})
        /\ was = "attached" /\ is = "failed" => Belated(id, {"pending"})

\* The status of a location that is not pending changes only where a request writes it,
\* which is that request's end.
LEMMA WriteEndsRequest ==
    ASSUME TypeOK, [Next]_vars, NEW id \in Existing,
           transactions'[id].status # transactions[id].status,
           transactions[id].status # "pending"
    PROVE  \E c \in Clients :
               /\ WritesOperation(c, id) /\ request'[c] = Idle
               /\ transactions'[id].status = Written(transactions[id], request[c].op).status
<1> DEFINE t == transactions[id]
<1>1. t \in Transaction
    BY DEF TypeOK
<1>2. ~ UNCHANGED transactions
    OBVIOUS
<1>3. ~ ExpireAll
    BY DEF ExpireAll, Expired
<1>4. ASSUME NEW i, NEW u, i \notin Existing, Insert(i, u) PROVE FALSE
    BY <1>4 DEF Insert
<1>5. ASSUME NEW i, NEW u, transactions' = [transactions EXCEPT ![i] = u],
             i = id => u.status = t.status
      PROVE  FALSE
    BY <1>5 DEF TypeOK
<1>6. ASSUME NEW c \in Clients, WriteUpdate(c) PROVE FALSE
  <2> DEFINE i == request[c].id
             edit == request[c].edit
             u == [Settled(transactions[i], edit.settlement) EXCEPT !.category = edit.category]
  <2>1. edit \in Edit
      BY <1>6, OperationTyped DEF WriteUpdate, TypeOK
  <2>2. i = id => u.status = t.status
      BY <1>1, <2>1 DEF Settled, Edit, Transaction
  <2>3. transactions' = [transactions EXCEPT ![i] = u]
      BY <1>6 DEF WriteUpdate
  <2> HIDE DEF i, u, t
  <2> QED  BY <1>5, <2>2, <2>3
<1>7. ASSUME NEW i \in RequestIds, NEW completed \in BOOLEAN, CompleteSettlement(i, completed)
      PROVE  FALSE
  <2> DEFINE u == [transactions[i] EXCEPT !.completed = completed]
  <2>1. i = id => u.status = t.status
      BY <1>1 DEF Transaction
  <2>2. transactions' = [transactions EXCEPT ![i] = u]
      BY <1>7 DEF CompleteSettlement
  <2> HIDE DEF u, t
  <2> QED  BY <1>5, <2>1, <2>2
<1>8. ASSUME NEW i \in RequestIds, Age(i) PROVE FALSE
  <2> DEFINE u == [transactions[i] EXCEPT !.fresh = FALSE]
  <2>1. i = id => u.status = t.status
      BY <1>1 DEF Transaction
  <2>2. transactions' = [transactions EXCEPT ![i] = u]
      BY <1>8 DEF Age
  <2> HIDE DEF u, t
  <2> QED  BY <1>5, <2>1, <2>2
<1>9. ASSUME NEW c \in Clients, CreateWrite(c) PROVE FALSE
    BY <1>2, <1>4, <1>9 DEF CreateWrite, AnswerExisting
<1>10. PICK c \in Clients : Write(c)
  <2> HIDE DEF t
  <2>1. \/ \E c \in Clients :
              \/ Write(c) \/ WriteUpdate(c) \/ CreateWrite(c)
        \/ \E i \in RequestIds : \E category \in Categories : ConfirmRecurring(i, category)
        \/ \E i \in RequestIds : \E completed \in BOOLEAN : CompleteSettlement(i, completed)
        \/ \E i \in RequestIds : Age(i)
    <3>1. ASSUME NEW c \in Clients, NEW i, NEW x,
                 CreateFind(c, i, x) \/ Open(c, i, x) \/ OpenUpdate(c, i, x)
          PROVE  FALSE
        BY <1>2, <1>3, <3>1 DEF CreateFind, AnswerExisting, Open, OpenUpdate
    <3>2. ASSUME NEW c \in Clients,
                 CreateCategory(c) \/ Look(c) \/ UpdateCategory(c) \/ Cancel(c)
          PROVE  FALSE
        BY <1>2, <3>2 DEF CreateCategory, Look, UpdateCategory, Cancel
    <3>3. ASSUME NEW category, ArchiveCategory(category) \/ RestoreCategory(category)
          PROVE  FALSE
        BY <1>2, <3>3 DEF ArchiveCategory, RestoreCategory
    <3>4. ~ Read /\ ~ UNCHANGED vars
        BY <1>2, <1>3 DEF Read, vars
    <3> QED  BY <3>1, <3>2, <3>3, <3>4 DEF Next, Arrive, Step
  <2>2. ASSUME NEW i \in RequestIds, NEW category \in Categories, ConfirmRecurring(i, category)
        PROVE  FALSE
      BY <1>4, <2>2 DEF ConfirmRecurring
  <2> QED  BY <1>6, <1>7, <1>8, <1>9, <2>1, <2>2
<1>11. request[c].id = id
    BY <1>5, <1>10 DEF Write, TypeOK
<1>12. WritesOperation(c, id) /\ request'[c] = Idle
    BY <1>10, <1>11 DEF Write, Reply, WritesOperation, TypeOK
<1>13. transactions'[id] = Written(t, request[c].op)
    BY <1>10, <1>11 DEF Write, TypeOK
<1> QED  BY <1>12, <1>13

LEMMA NextStaySettled ==
    TypeOK /\ AllLetThrough /\ [Next]_vars => \A id \in Existing : StaysSettled(id)
<1> SUFFICES ASSUME TypeOK, AllLetThrough, [Next]_vars, NEW id \in Existing
             PROVE  StaysSettled(id)
    OBVIOUS
<1>1. CASE \/ transactions'[id].status = transactions[id].status
           \/ transactions[id].status = "pending"
    BY <1>1 DEF StaysSettled
<1>2. CASE /\ transactions'[id].status # transactions[id].status
           /\ transactions[id].status # "pending"
  <2>1. PICK c \in Clients :
            /\ WritesOperation(c, id) /\ request'[c] = Idle
            /\ transactions'[id].status = Written(transactions[id], request[c].op).status
      BY <1>2, WriteEndsRequest
  <2>2. transactions[id] \in Transaction /\ request[c].op \in Operations
      BY <2>1 DEF TypeOK, WritesOperation
  <2>3. transactions'[id].status = CASE request[c].op = "attach" -> "attached"
                                     [] request[c].op = "fail" -> "failed"
                                     [] request[c].op = "remove" -> "skipped"
                                     [] OTHER -> transactions[id].status
      BY <2>1, <2>2, WrittenStatus
  <2>4. /\ request[c].op = "attach" => Belated(id, {"pending", "attached", "failed"})
        /\ request[c].op = "fail" =>
              Belated(id, {"pending"}) /\ Belated(id, {"pending", "attached", "failed"})
      BY <2>1 DEF WritesOperation, AllLetThrough, LetThrough, Belated
  <2> QED  BY <1>2, <2>2, <2>3, <2>4 DEF StaysSettled, Operations
<1> QED  BY <1>1, <1>2

\* A location that was removed, or never asked for, does not come back and an attached
\* one is not marked as failed, but by requests that had found it otherwise.
THEOREM SettledLocationsStay == Spec => SettledLocationStays
<1>1. TypeOK /\ AllLetThrough /\ [Next]_vars =>
        [\A id \in Existing :
           LET was == transactions[id].status
               is == transactions'[id].status
           IN  /\ was \in {"none", "skipped"} /\ is \notin {"none", "skipped"} =>
                      Belated(id, {"pending", "attached", "failed"})
               /\ was = "attached" /\ is = "failed" => Belated(id, {"pending"})]_transactions
    BY NextStaySettled DEF StaysSettled
<1> QED  BY <1>1, AlwaysLetThrough, PTL DEF Spec, SettledLocationStays
=============================================================================
