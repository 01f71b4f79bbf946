-------------------------- MODULE RecordPageProofs --------------------------
(***************************************************************************)
(* For any number of calls, texts and categories: the pages are well       *)
(* typed, a quiet page shows what is stored, and a save records the amount *)
(* that was meant.                                                         *)
(***************************************************************************)
EXTENDS RecordPage, FiniteSetTheorems, TLAPS

(* The list of categories *)

LEMMA OrderIs ==
    ASSUME NEW order \in Orders
    PROVE  /\ order \in Seq(CategoryIds)
           /\ Len(order) \in 1..MaxCategories
           /\ DOMAIN order = 1..Len(order)
           /\ order \in [1..Len(order) -> CategoryIds]
           /\ \A i, j \in 1..Len(order) : order[i] = order[j] => i = j
<1>1. PICK n \in 1..MaxCategories : order \in [1..n -> CategoryIds]
    BY DEF Orders
<1>2. order \in Seq(CategoryIds) /\ n \in Nat
    BY <1>1, CategoryListAssumption
<1>3. Len(order) = n
    BY <1>1, <1>2
<1> QED  BY <1>1, <1>2, <1>3 DEF Orders

\* As many different ids as there can be.
LEMMA IsOrder ==
    ASSUME NEW n \in Nat \ {0}, NEW order \in [1..n -> CategoryIds],
           \A i, j \in 1..n : order[i] = order[j] => i = j
    PROVE  order \in Orders /\ DOMAIN order = 1..n
<1>1. IsFiniteSet(CategoryIds) /\ Cardinality(CategoryIds) = MaxCategories
    BY FS_Interval, CategoryListAssumption DEF CategoryIds
<1>2. IsFiniteSet(1..n) /\ Cardinality(1..n) = n
    BY FS_Interval
<1>3. order \in Injection(1..n, CategoryIds)
    BY DEF Injection, IsInjective
<1>4. n <= MaxCategories
    BY <1>1, <1>2, <1>3, FS_Injection
<1>5. n \in 1..MaxCategories
    BY <1>4, CategoryListAssumption
<1> QED  BY <1>5 DEF Orders

LEMMA UpTo ==
    ASSUME NEW n \in Nat
    PROVE  Cardinality(1..n) = n
BY FS_Interval

LEMMA TableIs ==
    ASSUME NEW list \in CategoryTable
    PROVE  /\ list.order \in Orders /\ list.archived \in SUBSET CategoryIds
           /\ list.label \in [CategoryIds -> Label]
           /\ list = [order |-> list.order, archived |-> list.archived, label |-> list.label]
           /\ Active(list) = {list.order[i] : i \in 1..Len(list.order)}
           /\ Active(list) \subseteq CategoryIds
           /\ Active(list) \cap list.archived = {}
           /\ Known(list) = 1..Cardinality(Known(list))
<1>1. /\ list \in [order : Orders, archived : SUBSET CategoryIds, label : [CategoryIds -> Label]]
      /\ Active(list) \cap list.archived = {}
      /\ Known(list) = 1..Cardinality(Known(list))
    BY DEF CategoryTable
<1>2. list.order \in Orders
    BY <1>1
<1> QED  BY <1>1, <1>2, OrderIs DEF Active

LEMMA ReorderKept ==
    ASSUME NEW list \in CategoryTable, NEW order \in Orders,
           {order[i] : i \in DOMAIN order} = Active(list)
    PROVE  [list EXCEPT !.order = order] \in CategoryTable
<1> DEFINE new == [list EXCEPT !.order = order]
<1>1. new \in [order : Orders, archived : SUBSET CategoryIds, label : [CategoryIds -> Label]]
      /\ new.order = order /\ new.archived = list.archived
    BY TableIs
<1> HIDE DEF new
<1>2. Active(new) = Active(list)
    BY <1>1 DEF Active
<1>3. Known(new) = Known(list)
    BY <1>1, <1>2 DEF Known
<1> QED  BY <1>1, <1>2, <1>3, TableIs DEF CategoryTable, new

LEMMA ListWith ==
    ASSUME NEW list \in CategoryTable, NEW order \in Orders, NEW archived \in SUBSET CategoryIds
    PROVE  LET new == [list EXCEPT !.order = order, !.archived = archived]
           IN  /\ new \in [order : Orders, archived : SUBSET CategoryIds, label : [CategoryIds -> Label]]
               /\ new.order = order /\ new.archived = archived
<1>1. list \in [order : Orders, archived : SUBSET CategoryIds, label : [CategoryIds -> Label]]
    BY DEF CategoryTable
<1> QED  BY <1>1

\* The list after a change: another order, of which the ids are known.
LEMMA TableKept ==
    ASSUME NEW list \in CategoryTable,
           NEW n \in Nat \ {0}, NEW order \in [1..n -> CategoryIds],
           \A i, j \in 1..n : order[i] = order[j] => i = j,
           NEW archived \in SUBSET CategoryIds,
           {order[i] : i \in 1..n} \cap archived = {},
           NEW m \in Nat,
           {order[i] : i \in 1..n} \cup archived = 1..m
    PROVE  [list EXCEPT !.order = order, !.archived = archived] \in CategoryTable
<1> DEFINE new == [list EXCEPT !.order = order, !.archived = archived]
<1>1. order \in Orders /\ DOMAIN order = 1..n
    BY IsOrder
<1>2. /\ new \in [order : Orders, archived : SUBSET CategoryIds, label : [CategoryIds -> Label]]
      /\ new.order = order /\ new.archived = archived
    BY <1>1, ListWith
<1> HIDE DEF new
<1>3. Active(new) = {order[i] : i \in 1..n}
    BY <1>1, <1>2 DEF Active
<1>4. Known(new) = 1..m
    BY <1>2, <1>3 DEF Known
<1>5. Cardinality(1..m) = m
    BY UpTo
<1> QED  BY <1>2, <1>3, <1>4, <1>5 DEF CategoryTable, new

\* The ids in use are the first ones.
LEMMA KnownAre ==
    ASSUME NEW list \in CategoryTable
    PROVE  /\ Cardinality(Known(list)) \in 0..MaxCategories
           /\ Known(list) = 1..Cardinality(Known(list))
           /\ Known(list) \subseteq CategoryIds
           /\ Known(list) # CategoryIds => Cardinality(Known(list)) + 1 \in CategoryIds
<1>1. Known(list) \subseteq CategoryIds
    BY TableIs DEF Known
<1>2. IsFiniteSet(CategoryIds) /\ Cardinality(CategoryIds) = MaxCategories
    BY FS_Interval, CategoryListAssumption DEF CategoryIds
<1>3. IsFiniteSet(Known(list)) /\ Cardinality(Known(list)) <= MaxCategories
    BY <1>1, <1>2, FS_Subset
<1>4. Cardinality(Known(list)) \in Nat
    BY <1>3, FS_CardinalityType
<1>5. Known(list) = 1..Cardinality(Known(list))
    BY TableIs
<1>6. Known(list) # CategoryIds => Cardinality(Known(list)) # MaxCategories
    BY <1>5 DEF CategoryIds
<1> QED  BY <1>1, <1>3, <1>4, <1>5, <1>6, CategoryListAssumption DEF CategoryIds

LEMMA LastOne ==
    ASSUME NEW order \in Orders, NEW id \in CategoryIds, id \notin {order[i] : i \in 1..Len(order)}
    PROVE  LET new == Append(order, id) n == Len(order) + 1
           IN  /\ n \in Nat \ {0} /\ new \in [1..n -> CategoryIds]
               /\ \A i, j \in 1..n : new[i] = new[j] => i = j
               /\ {new[i] : i \in 1..n} = {order[i] : i \in 1..Len(order)} \cup {id}
<1> DEFINE new == Append(order, id)
           n == Len(order) + 1
<1>1. /\ order \in Seq(CategoryIds) /\ Len(order) \in Nat
      /\ \A i, j \in 1..Len(order) : order[i] = order[j] => i = j
      /\ \A i \in 1..Len(order) : order[i] \in CategoryIds
    BY OrderIs
<1>2. /\ new \in Seq(CategoryIds) /\ Len(new) = n
      /\ \A i \in 1..Len(order) : new[i] = order[i]
      /\ new[n] = id
    BY <1>1
<1> HIDE DEF new
<1>3. new \in [1..n -> CategoryIds]
    BY <1>2
<1>4. ASSUME NEW i \in 1..n, NEW j \in 1..n, new[i] = new[j]  PROVE i = j
    BY <1>1, <1>2, <1>4
<1>5. \A x : x \in {new[i] : i \in 1..n} <=> x \in {order[i] : i \in 1..Len(order)} \cup {id}
    <2>1. \A i \in 1..n : i \in 1..Len(order) \/ i = n
        BY <1>1
    <2>2. n \in 1..n /\ 1..Len(order) \subseteq 1..n
        BY <1>1
    <2> HIDE DEF n
    <2> QED  BY <1>2, <2>1, <2>2
<1> QED  BY <1>1, <1>3, <1>4, <1>5 DEF new

LEMMA RestoreKept ==
    ASSUME NEW list \in CategoryTable, NEW id \in list.archived
    PROVE  [list EXCEPT !.order = Append(@, id), !.archived = @ \ {id}] \in CategoryTable
<1> DEFINE new == Append(list.order, id)
           n == Len(list.order) + 1
           m == Cardinality(Known(list))
           ids == {new[i] : i \in 1..n}
<1>1. /\ list.order \in Orders /\ id \in CategoryIds /\ list.archived \in SUBSET CategoryIds
      /\ Active(list) = {list.order[i] : i \in 1..Len(list.order)}
      /\ Active(list) \cap list.archived = {}
    BY TableIs
<1>2. /\ n \in Nat \ {0} /\ new \in [1..n -> CategoryIds]
      /\ \A i, j \in 1..n : new[i] = new[j] => i = j
      /\ ids = Active(list) \cup {id}
    BY <1>1, LastOne
<1>3. m \in Nat /\ Known(list) = 1..m
    BY KnownAre
<1> HIDE DEF new, n, m, ids
<1>4. list.archived \ {id} \in SUBSET CategoryIds /\ ids \cap (list.archived \ {id}) = {}
    BY <1>1, <1>2
<1>5. ids \cup (list.archived \ {id}) = 1..m
    BY <1>1, <1>2, <1>3 DEF Known
<1>6. [list EXCEPT !.order = new, !.archived = list.archived \ {id}] \in CategoryTable
    BY <1>2, <1>3, <1>4, <1>5, TableKept DEF ids
<1> QED  BY <1>6 DEF new

LEMMA AddKept ==
    ASSUME NEW list \in CategoryTable, Known(list) # CategoryIds
    PROVE  [list EXCEPT !.order = Append(@, Cardinality(Known(list)) + 1)] \in CategoryTable
<1> DEFINE m == Cardinality(Known(list))
           id == m + 1
           new == Append(list.order, id)
           n == Len(list.order) + 1
<1>1. /\ list.order \in Orders /\ list.archived \in SUBSET CategoryIds
      /\ list = [order |-> list.order, archived |-> list.archived, label |-> list.label]
      /\ Active(list) = {list.order[i] : i \in 1..Len(list.order)}
      /\ Active(list) \cap list.archived = {}
    BY TableIs
<1>2. m \in Nat /\ Known(list) = 1..m /\ id \in CategoryIds
    BY KnownAre
<1> HIDE DEF m
<1>3. id \notin Known(list) /\ Known(list) \cup {id} = 1..m + 1 /\ m + 1 \in Nat
    BY <1>2
<1> HIDE DEF id
<1>4. /\ n \in Nat \ {0} /\ new \in [1..n -> CategoryIds]
      /\ \A i, j \in 1..n : new[i] = new[j] => i = j
      /\ {new[i] : i \in 1..n} = Active(list) \cup {id}
    BY <1>1, <1>2, <1>3, LastOne DEF Known
<1> HIDE DEF new, n
<1> DEFINE ids == {new[i] : i \in 1..n}
<1>a. ids = Active(list) \cup {id}
    BY <1>4
<1> HIDE DEF ids
<1>5. ids \cap list.archived = {} /\ ids \cup list.archived = 1..m + 1
    BY <1>1, <1>3, <1>a DEF Known
<1> USE DEF ids
<1>6. [list EXCEPT !.order = new, !.archived = list.archived] \in CategoryTable
    BY <1>1, <1>3, <1>4, <1>5, TableKept
<1>7. [list EXCEPT !.order = new] = [list EXCEPT !.order = new, !.archived = list.archived]
    BY <1>1
<1> QED  BY <1>6, <1>7 DEF new, id, m

LEMMA WithoutIs ==
    ASSUME NEW order \in Orders, NEW id \in {order[i] : i \in 1..Len(order)}, Len(order) > 1
    PROVE  LET new == Without(order, id) n == Len(order) - 1
           IN  /\ n \in Nat \ {0} /\ new \in [1..n -> CategoryIds]
               /\ \A i, j \in 1..n : new[i] = new[j] => i = j
               /\ {new[i] : i \in 1..n} = {order[i] : i \in 1..Len(order)} \ {id}
<1> DEFINE new == Without(order, id)
           n == Len(order) - 1
           From(i, at) == IF i < at THEN i ELSE i + 1
<1>1. /\ Len(order) \in Nat /\ DOMAIN order = 1..Len(order)
      /\ \A i, j \in 1..Len(order) : order[i] = order[j] => i = j
      /\ \A i \in 1..Len(order) : order[i] \in CategoryIds
    BY OrderIs
<1>2. PICK at \in 1..Len(order) : order[at] = id /\ new = [i \in 1..n |-> order[From(i, at)]]
    BY <1>1 DEF Without
<1>3. n \in Nat \ {0} /\ Len(order) = n + 1 /\ at \in 1..n + 1
    BY <1>1
<1>4. /\ \A i \in 1..n : From(i, at) \in 1..n + 1 /\ From(i, at) # at
      /\ \A i, j \in 1..n : From(i, at) = From(j, at) => i = j
    BY <1>3
<1>5. \A j \in 1..n + 1 : j # at => \E i \in 1..n : From(i, at) = j
    <2> SUFFICES ASSUME NEW j \in 1..n + 1, j # at  PROVE \E i \in 1..n : From(i, at) = j
        OBVIOUS
    <2>1. CASE j < at
        <3>1. j \in 1..n /\ From(j, at) = j
            BY <1>3, <2>1
        <3> QED  BY <3>1
    <2>2. CASE j > at
        <3>1. j - 1 \in 1..n /\ From(j - 1, at) = j
            BY <1>3, <2>2
        <3> QED  BY <3>1
    <2> QED  BY <1>3, <2>1, <2>2
<1> HIDE DEF new, n, From
<1>6. new \in [1..n -> CategoryIds] /\ \A i \in 1..n : new[i] = order[From(i, at)]
    BY <1>1, <1>2, <1>3, <1>4
<1>7. \A i, j \in 1..n : new[i] = new[j] => i = j
    BY <1>1, <1>3, <1>4, <1>6
<1>8. ASSUME NEW i \in 1..n  PROVE new[i] \in {order[j] : j \in 1..Len(order)} \ {id}
    BY <1>1, <1>2, <1>3, <1>4, <1>6
<1>9. ASSUME NEW j \in 1..Len(order), order[j] # id  PROVE order[j] \in {new[i] : i \in 1..n}
    <2>1. PICK i \in 1..n : From(i, at) = j
        BY <1>2, <1>3, <1>5, <1>9
    <2> QED  BY <1>6, <2>1
<1>10. {new[i] : i \in 1..n} = {order[j] : j \in 1..Len(order)} \ {id}
    <2> DEFINE left == {new[i] : i \in 1..n}
               all == {order[j] : j \in 1..Len(order)}
    <2>1. \A x \in left : x \in all \ {id}
        BY <1>8
    <2>2. \A x \in all \ {id} : x \in left
        BY <1>9
    <2> HIDE DEF left, all
    <2>3. left = all \ {id}
        BY <2>1, <2>2
    <2> QED  BY <2>3 DEF left, all
<1> QED  BY <1>3, <1>6, <1>7, <1>10 DEF new, n

LEMMA ArchiveKept ==
    ASSUME NEW list \in CategoryTable, NEW id \in Active(list), Len(list.order) > 1
    PROVE  [list EXCEPT !.order = Without(@, id), !.archived = @ \cup {id}] \in CategoryTable
<1> DEFINE new == Without(list.order, id)
           n == Len(list.order) - 1
           m == Cardinality(Known(list))
           ids == {new[i] : i \in 1..n}
           archived == list.archived \cup {id}
<1>1. /\ list.order \in Orders /\ id \in CategoryIds /\ list.archived \in SUBSET CategoryIds
      /\ id \in {list.order[i] : i \in 1..Len(list.order)}
      /\ Active(list) = {list.order[i] : i \in 1..Len(list.order)}
      /\ Active(list) \cap list.archived = {}
    BY TableIs
<1>2. /\ n \in Nat \ {0} /\ new \in [1..n -> CategoryIds]
      /\ \A i, j \in 1..n : new[i] = new[j] => i = j
      /\ ids = Active(list) \ {id}
    BY <1>1, WithoutIs
<1>3. m \in Nat /\ Known(list) = 1..m
    BY KnownAre
<1> HIDE DEF new, n, m, ids
<1>4. archived \in SUBSET CategoryIds /\ ids \cap archived = {}
    BY <1>1, <1>2
<1>5. ids \cup archived = 1..m
    BY <1>1, <1>2, <1>3 DEF Known
<1> HIDE DEF archived
<1>6. [list EXCEPT !.order = new, !.archived = archived] \in CategoryTable
    BY <1>2, <1>3, <1>4, <1>5, TableKept DEF ids
<1> QED  BY <1>6 DEF new, archived

LEMMA UpdateKept ==
    ASSUME NEW list \in CategoryTable, NEW id \in CategoryIds, NEW label \in Label
    PROVE  [list EXCEPT !.label[id] = label] \in CategoryTable
<1> DEFINE new == [list EXCEPT !.label[id] = label]
<1>1. list \in [order : Orders, archived : SUBSET CategoryIds, label : [CategoryIds -> Label]]
    BY DEF CategoryTable
<1>2. /\ new \in [order : Orders, archived : SUBSET CategoryIds, label : [CategoryIds -> Label]]
      /\ new.order = list.order /\ new.archived = list.archived
    BY <1>1
<1> HIDE DEF new
<1>3. Active(new) = Active(list) /\ Known(new) = Known(list)
    BY <1>2 DEF Active, Known
<1> QED  BY <1>2, <1>3, TableIs DEF CategoryTable, new

\* Whatever the server accepts leaves every id in one place: among the active ones,
\* once, or among the archived ones.
LEMMA CategoriesKept ==
    ASSUME NEW list \in CategoryTable, NEW change \in Change, CategoryAccepts(list, change)
    PROVE  CategoryAfter(list, change) \in CategoryTable
<1>1. CASE change.op = "reorder"
    <2>1. change.order \in Orders /\ {change.order[i] : i \in DOMAIN change.order} = Active(list)
        BY <1>1 DEF Change, CategoryAccepts
    <2>2. CategoryAfter(list, change) = [list EXCEPT !.order = change.order]
        BY <1>1 DEF CategoryAfter
    <2> QED  BY <2>1, <2>2, ReorderKept
<1>2. CASE change.op = "update"
    <2>1. change.id \in CategoryIds /\ change.label \in Label
        BY <1>2 DEF Change
    <2>2. CategoryAfter(list, change) = [list EXCEPT !.label[change.id] = change.label]
        BY <1>2 DEF CategoryAfter
    <2> QED  BY <2>1, <2>2, UpdateKept
<1>3. CASE change.op = "archive" /\ change.id \notin list.archived
    <2>1. change.id \in Active(list) /\ Len(list.order) > 1
        BY <1>3 DEF CategoryAccepts
    <2>2. CategoryAfter(list, change)
            = [list EXCEPT !.order = Without(@, change.id), !.archived = @ \cup {change.id}]
        BY <1>3 DEF CategoryAfter
    <2> QED  BY <2>1, <2>2, ArchiveKept
<1>4. CASE change.op = "restore" /\ change.id \in list.archived
    <2>1. CategoryAfter(list, change)
            = [list EXCEPT !.order = Append(@, change.id), !.archived = @ \ {change.id}]
        BY <1>4 DEF CategoryAfter
    <2> QED  BY <1>4, <2>1, RestoreKept
<1>5. CASE change.op = "add"
    <2>1. Known(list) # CategoryIds
        BY <1>5 DEF CategoryAccepts
    <2>2. CategoryAfter(list, change)
            = [list EXCEPT !.order = Append(@, Cardinality(Known(list)) + 1)]
        BY <1>5 DEF CategoryAfter
    <2> QED  BY <2>1, <2>2, AddKept
<1>6. CASE \/ change.op = "archive" /\ change.id \in list.archived
           \/ change.op = "restore" /\ change.id \notin list.archived
    BY <1>6 DEF CategoryAfter
<1>7. change.op \in {"reorder", "update", "archive", "restore", "add"}
    BY DEF Change
<1> QED  BY <1>1, <1>2, <1>3, <1>4, <1>5, <1>6, <1>7

-----------------------------------------------------------------------------
(* What the calls of a page can be *)

\* Of each page, the changes it sends.
OpsOf(s) ==
    CASE s = "details" -> {"complete", "reopen", "unlocate", "locate", "remove", "restore", "undo",
                           "save", "noLocation"}
      [] s = "settlements" -> {"complete", "reopen"}
      [] s = "rule" -> {"enable", "disable", "archive"} \cup Saves
      [] s = "occurrence" -> {"confirm", "skip", "save"}
      [] s = "budget" -> {"save"}
      [] s = "categories" -> CategoryOps

CopyOf(s) ==
    {NoCopy} \cup [kind : {"copy"}, value : Record(s), unit : Units, failed : BOOLEAN]

\* Only a limit can be nothing.
MinorsOf(s) == IF s = "budget" THEN 0..MaxAmount ELSE Amounts

SavesOf(s) ==
    [op : OpsOf(s) \cap Saves, phase : {"sent", "orphan"}, minor : MinorsOf(s),
     switch : BOOLEAN, exp : Units, meant : Text, sure : BOOLEAN]

\* The amount of a save is the one that was meant, where the page could know it.
Meant(k) ==
    k.sure /\ k.minor # 0 => SameMajor(MinorToMajorInput(k.minor, k.exp), k.meant)

RequestsOf(s) ==
    IF s = "categories"
    THEN {k \in [op : CategoryOps, phase : {"sent", "orphan"}, change : Change] : k.op = k.change.op}
    ELSE {k \in SavesOf(s) : Meant(k)}
         \cup [op : OpsOf(s) \ Saves, phase : {"sent", "orphan"}]

\* On the page that keeps the record of an answer, there is one.
AnswersOf(s) ==
    {k \in [op : OpsOf(s), phase : {"answered"}, ok : BOOLEAN, copy : CopyOf(s)] :
        s = "details" /\ k.ok => k.copy # NoCopy}

SettingsCalls ==
    [op : {"settings", "refresh"}, phase : {"sent"}]
    \cup [op : {"settings", "refresh"}, phase : {"answered"}, unit : Units]
    \cup [op : {"currency"}, phase : {"sent", "orphan"}, to : Units]
    \cup [op : {"currency"}, phase : {"answered"}]

CallsOf(s) ==
    {Free} \cup RequestsOf(s) \cup AnswersOf(s)
    \cup [op : OpsOf(s), phase : {"refreshing"}]
    \cup IF s = "categories" THEN {} ELSE SettingsCalls

\* A message about a removal is shown on the page of the details.  The text is the
\* amount it stands for, or empty.  The dialog that is open is about some category.
FormsOf(s) ==
    IF s = "categories" THEN {f \in CategoryForm : f.shown => f.id \in CategoryIds}
    ELSE {f \in Form : /\ f.toast => s = "details"
                       /\ f.sure => f.text = f.meant \/ f.text.digits = 0}

PageInv ==
    /\ screen \in Screens
    /\ unit \in Units /\ exp \in Units
    /\ record \in Record(screen)
    /\ copy \in CopyOf(screen)
    /\ form \in FormsOf(screen)
    /\ calls \in [CallIds -> CallsOf(screen)]
    /\ fetch \in {Sent} \cup CopyOf(screen)
    /\ behind \subseteq {"record", "settings"}
    /\ work \in 0..MaxWork[screen]

Pages == {"details", "settlements", "rule", "occurrence", "budget", "categories"}

LEMMA OpsAre ==
    ASSUME NEW s \in Pages
    PROVE  /\ OpsOf(s) \subseteq Ops
           /\ "settings" \notin Ops /\ "refresh" \notin Ops /\ "currency" \notin Ops /\ "free" \notin Ops
           /\ s # "categories" => OpsOf(s) \subseteq Presses \cup Saves \cup {"noLocation"}
BY DEF Pages, OpsOf, Ops, Presses, Saves, CategoryOps, Actions

LEMMA CallsAreCalls ==
    ASSUME screen \in Pages
    PROVE  CallsOf(screen) \subseteq Call /\ CopyOf(screen) = CopyType
<1>1. CopyOf(screen) = CopyType
    BY DEF CopyOf, CopyType
<1>2. /\ OpsOf(screen) \subseteq Ops
      /\ screen # "categories" => OpsOf(screen) \subseteq Presses \cup Saves \cup {"noLocation"}
    BY OpsAre
<1>3. MinorsOf(screen) \subseteq 0..MaxAmount
    BY MoneyAssumption DEF MinorsOf, Amounts
<1>4. ASSUME NEW k \in RequestsOf(screen)  PROVE k \in Call
    <2>1. CASE screen = "categories"
        BY <1>4, <2>1 DEF RequestsOf, Call
    <2>2. CASE screen # "categories"
        <3>1. CASE k \in SavesOf(screen)
            <4>1. k \in Save
                BY <1>3, <3>1 DEF SavesOf, Save
            <4> QED  BY <4>1 DEF Call
        <3>2. CASE k \in [op : OpsOf(screen) \ Saves, phase : {"sent", "orphan"}]
            BY <1>2, <2>2, <3>2 DEF Call
        <3> QED  BY <1>4, <2>2, <3>1, <3>2 DEF RequestsOf
    <2> QED  BY <2>1, <2>2
<1>5. SettingsCalls \subseteq Call
    BY DEF SettingsCalls, Call
<1>6. ASSUME NEW k \in AnswersOf(screen)  PROVE k \in Call
    BY <1>1, <1>2 DEF AnswersOf, Call
<1>7. ASSUME NEW k \in [op : OpsOf(screen), phase : {"refreshing"}]  PROVE k \in Call
    BY <1>2 DEF Call
<1>8. Free \in Call
    BY DEF Call
<1> QED  BY <1>1, <1>4, <1>5, <1>6, <1>7, <1>8 DEF CallsOf

LEMMA TypingFollows == PageInv => PageTypeOK
<1> SUFFICES ASSUME PageInv  PROVE PageTypeOK
    OBVIOUS
<1>1. screen \in Pages
    BY RecordPageAssumption DEF PageInv, Pages
<1>2. CallsOf(screen) \subseteq Call /\ CopyOf(screen) = CopyType
    BY <1>1, CallsAreCalls
<1>3. calls \in [CallIds -> Call]
    BY <1>2 DEF PageInv
<1>4. form \in IF screen = "categories" THEN CategoryForm ELSE Form
    BY DEF PageInv, FormsOf
<1> QED  BY <1>2, <1>3, <1>4 DEF PageInv, PageTypeOK

LEMMA CallIs ==
    ASSUME NEW s \in Pages, NEW k \in CallsOf(s)
    PROVE  /\ k.op = "free" => k = Free
           /\ k.op \in Ops => k.op \in OpsOf(s) /\ k.phase \in {"sent", "orphan", "answered", "refreshing"}
           /\ k.op \in Ops /\ k.phase \in {"sent", "orphan"} => k \in RequestsOf(s)
           /\ k.op \in Ops /\ k.phase = "answered" =>
                /\ k.ok \in BOOLEAN /\ k.copy \in CopyOf(s)
                /\ s = "details" /\ k.ok => k.copy # NoCopy
           /\ k.op \in {"settings", "refresh"} =>
                k.phase \in {"sent", "answered"} /\ (k.phase = "answered" => k.unit \in Units)
           /\ k.op = "currency" =>
                /\ k.phase \in {"sent", "orphan", "answered"}
                /\ k.phase \in {"sent", "orphan"} =>
                        k \in [op : {"currency"}, phase : {"sent", "orphan"}, to : Units]
           /\ k.op \in {"settings", "refresh", "currency"} => s # "categories"
           /\ k.op \in Ops \cup {"free", "settings", "refresh", "currency"}
           /\ k.phase = "refreshing" => k.op \in Ops
<1>1. OpsOf(s) \subseteq Ops
      /\ "settings" \notin Ops /\ "refresh" \notin Ops /\ "currency" \notin Ops /\ "free" \notin Ops
    BY OpsAre
<1>2. CASE k = Free
    BY <1>1, <1>2 DEF Free
<1>3. CASE k \in RequestsOf(s)
    <2>1. k.op \in OpsOf(s) /\ k.phase \in {"sent", "orphan"}
        <3>1. CASE s = "categories"
            BY <1>3, <3>1 DEF RequestsOf, OpsOf
        <3>2. CASE s # "categories"
            BY <1>3, <3>2 DEF RequestsOf, SavesOf
        <3> QED  BY <3>1, <3>2
    <2> QED  BY <1>1, <1>3, <2>1
<1>4. CASE k \in AnswersOf(s)
    BY <1>1, <1>4 DEF AnswersOf
<1>5. CASE k \in [op : OpsOf(s), phase : {"refreshing"}]
    BY <1>1, <1>5
<1>6. CASE s # "categories" /\ k \in SettingsCalls
    BY <1>1, <1>6 DEF SettingsCalls
<1> QED  BY <1>2, <1>3, <1>4, <1>5, <1>6 DEF CallsOf

\* The record of a request.
LEMMA RequestIs ==
    ASSUME NEW s \in Pages, NEW k \in RequestsOf(s)
    PROVE  /\ k.op \in OpsOf(s) /\ k.phase \in {"sent", "orphan"}
           /\ s = "categories" => k.change \in Change /\ k.op = k.change.op
           /\ s # "categories" /\ k.op \in Saves =>
                /\ k.minor \in MinorsOf(s) /\ k.switch \in BOOLEAN /\ k.exp \in Units
                /\ k.meant \in Text /\ k.sure \in BOOLEAN
                /\ Meant(k)
<1>1. CASE s = "categories"
    BY <1>1 DEF RequestsOf, OpsOf
<1>2. CASE s # "categories"
    BY <1>2 DEF RequestsOf, SavesOf
<1> QED  BY <1>1, <1>2

LEMMA OrphanedKept ==
    ASSUME NEW s \in Pages, NEW k \in CallsOf(s)
    PROVE  Orphaned(k) \in CallsOf(s)
<1>1. CASE k.phase = "sent" /\ k.op \in Ops
    <2>1. k \in RequestsOf(s)
        BY <1>1, CallIs
    <2>2. [k EXCEPT !.phase = "orphan"] \in RequestsOf(s)
        <3>1. CASE s = "categories"
            BY <2>1, <3>1 DEF RequestsOf
        <3>2. CASE s # "categories" /\ k \in SavesOf(s) /\ Meant(k)
            <4>1. [k EXCEPT !.phase = "orphan"] \in SavesOf(s)
                BY <3>2 DEF SavesOf
            <4>2. Meant([k EXCEPT !.phase = "orphan"])
                BY <3>2 DEF SavesOf, Meant
            <4> QED  BY <3>2, <4>1, <4>2 DEF RequestsOf
        <3>3. CASE s # "categories" /\ k \in [op : OpsOf(s) \ Saves, phase : {"sent", "orphan"}]
            <4>1. [k EXCEPT !.phase = "orphan"] \in [op : OpsOf(s) \ Saves, phase : {"sent", "orphan"}]
                BY <3>3
            <4> QED  BY <3>3, <4>1 DEF RequestsOf
        <3> QED  BY <2>1, <3>1, <3>2, <3>3 DEF RequestsOf
    <2> QED  BY <2>2 DEF Orphaned, CallsOf
<1>2. CASE k.phase = "sent" /\ k.op = "currency"
    <2>1. k \in [op : {"currency"}, phase : {"sent", "orphan"}, to : Units] /\ s # "categories"
        BY <1>2, CallIs
    <2>2. [k EXCEPT !.phase = "orphan"] \in [op : {"currency"}, phase : {"sent", "orphan"}, to : Units]
        BY <2>1
    <2> QED  BY <2>1, <2>2 DEF Orphaned, CallsOf, SettingsCalls
<1>3. CASE ~(k.phase = "sent" /\ k.op \in Ops \cup {"currency"})
    <2>1. Free \in CallsOf(s)
        BY DEF CallsOf
    <2>2. ~(k.phase = "sent" /\ k.op \notin {"settings", "refresh"})
        BY <1>3, CallIs DEF Free
    <2> QED  BY <2>1, <2>2 DEF Orphaned
<1> QED  BY <1>1, <1>2, <1>3

-----------------------------------------------------------------------------
(* Records and amounts *)

LEMMA PagesAre ==
    /\ Screens \subseteq Pages
    /\ Units \subseteq Exponents
    /\ Amounts \subseteq 0..MaxAmount
    /\ \A s \in Pages : MinorsOf(s) \subseteq 0..MaxAmount /\ Amounts \subseteq MinorsOf(s)
BY RecordPageAssumption, MoneyAssumption DEF Pages, Amounts, MinorsOf

LEMMA MinorIs ==
    ASSUME NEW text \in Text, NEW e \in Exponents, MajorToMinor(text, e) # Undefined
    PROVE  MajorToMinor(text, e) \in Amounts
BY DEF MajorToMinor, Undefined, Amounts

LEMMA TextIs ==
    ASSUME NEW minor \in 0..MaxAmount, NEW e \in Exponents
    PROVE  MinorToMajorInput(minor, e) \in Text /\ Empty \in Text
BY MoneyAssumption DEF MinorToMajorInput, Text, Empty, Exponents

\* All but the categories have an amount.
LEMMA Priced ==
    ASSUME NEW s \in Pages, s # "categories", NEW r \in Record(s)
    PROVE  /\ r.minor \in MinorsOf(s)
           /\ \A m \in MinorsOf(s) : /\ [r EXCEPT !.minor = m] \in Record(s)
                                     /\ [r EXCEPT !.minor = m].minor = m
<1>1. CASE s \in {"details", "settlements"}
    BY <1>1 DEF Record, Transaction, MinorsOf
<1>2. CASE s = "rule"
    BY <1>2 DEF Record, Rule, MinorsOf
<1>3. CASE s = "occurrence"
    BY <1>3 DEF Record, Occurrence, MinorsOf
<1>4. CASE s = "budget"
    BY <1>4 DEF Record, Budget, MinorsOf
<1> QED  BY <1>1, <1>2, <1>3, <1>4 DEF Pages

LEMMA TransactionKept ==
    ASSUME NEW t \in Transaction, NEW k, k.op \in OpsOf("details"),
           k.op = "save" => k.minor \in Amounts /\ k.switch \in BOOLEAN
    PROVE  TransactionAfter(t, k) \in Transaction
BY DEF Transaction, TransactionAfter, OpsOf

LEMMA RuleKept ==
    ASSUME NEW r \in Rule, NEW k, k.op \in OpsOf("rule"), k.op \in Saves => k.minor \in Amounts
    PROVE  RuleAfter(r, k) \in Rule
BY DEF Rule, RuleAfter, OpsOf, Saves

LEMMA OccurrenceKept ==
    ASSUME NEW o \in Occurrence, NEW k, k.op \in OpsOf("occurrence"), k.op = "save" => k.minor \in Amounts
    PROVE  OccurrenceAfter(o, k) \in Occurrence
BY DEF Occurrence, OccurrenceAfter, OpsOf

\* The change of a record that is not a list of categories, by the page or another one.
LEMMA AfterKept ==
    ASSUME screen \in Pages, screen # "categories", NEW r \in Record(screen), NEW k,
           k.op \in OpsOf(screen) \/ (screen = "settlements" /\ k.op \in OpsOf("details")),
           k.op \in Saves => k.minor \in MinorsOf(screen) /\ k.switch \in BOOLEAN
    PROVE  After(r, k) \in Record(screen)
<1>1. CASE screen \in {"details", "settlements"}
    <2>1. r \in Transaction /\ k.op \in OpsOf("details") /\ MinorsOf(screen) = Amounts
        BY <1>1 DEF Record, OpsOf, MinorsOf
    <2>2. TransactionAfter(r, k) \in Transaction
        BY <2>1, TransactionKept DEF Saves
    <2> QED  BY <1>1, <2>2 DEF After, Record
<1>2. CASE screen = "rule"
    <2>1. r \in Rule /\ MinorsOf(screen) = Amounts
        BY <1>2 DEF Record, MinorsOf
    <2>2. RuleAfter(r, k) \in Rule
        BY <1>2, <2>1, RuleKept
    <2> QED  BY <1>2, <2>2 DEF After, Record
<1>3. CASE screen = "occurrence"
    <2>1. r \in Occurrence /\ MinorsOf(screen) = Amounts
        BY <1>3 DEF Record, MinorsOf
    <2>2. OccurrenceAfter(r, k) \in Occurrence
        BY <1>3, <2>1, OccurrenceKept DEF Saves
    <2> QED  BY <1>3, <2>2 DEF After, Record
<1>4. CASE screen = "budget"
    <2>1. k.minor \in 0..MaxAmount
        BY <1>4 DEF OpsOf, Saves, MinorsOf
    <2> QED  BY <1>4, <2>1 DEF After, Record, Budget
<1> QED  BY <1>1, <1>2, <1>3, <1>4 DEF Pages

\* A change of currency keeps an amount an amount.
LEMMA ScaledIs ==
    ASSUME NEW minor \in 0..MaxAmount, NEW from \in Exponents, NEW to \in Exponents,
           NEW scaled, scaled = IF to >= from THEN minor * ScaleFor(to - from)
                                ELSE minor \div ScaleFor(from - to),
           scaled <= MaxAmount, scaled = 0 => minor = 0
    PROVE  scaled \in 0..MaxAmount /\ (minor # 0 => scaled \in Amounts)
<1>1. \A d \in Exponents : ScaleFor(d) \in {1, 10, 100, 1000}
    BY DEF Exponents, ScaleFor
<1>2. minor \in Nat
    BY MoneyAssumption
<1>3. CASE to >= from
    <2>1. to - from \in Exponents
        BY <1>3 DEF Exponents
    <2>2. PICK f \in {1, 10, 100, 1000} : f = ScaleFor(to - from)
        BY <1>1, <2>1
    <2>3. scaled = minor * f
        BY <1>3, <2>2
    <2>4. scaled \in Nat
        BY <1>2, <2>2, <2>3
    <2> QED  BY <2>4, MoneyAssumption DEF Amounts
<1>4. CASE ~(to >= from)
    <2>1. from - to \in Exponents
        BY <1>4 DEF Exponents
    <2>2. PICK f \in {1, 10, 100, 1000} : f = ScaleFor(from - to)
        BY <1>1, <2>1
    <2>3. scaled = minor \div f
        BY <1>4, <2>2
    <2>4. scaled \in Nat
        BY <1>2, <2>2, <2>3
    <2> QED  BY <2>4, MoneyAssumption DEF Amounts
<1> QED  BY <1>3, <1>4

-----------------------------------------------------------------------------
(* The form *)

LEMMA FormIs ==
    ASSUME NEW s \in Pages, s # "categories", NEW f
    PROVE  f \in FormsOf(s) <=>
               /\ f \in Form
               /\ f.toast => s = "details"
               /\ f.sure => f.text = f.meant \/ f.text.digits = 0
BY DEF FormsOf

LEMMA BlankKept ==
    ASSUME NEW s \in Pages, s # "categories", NEW shown \in BOOLEAN
    PROVE  [Blank EXCEPT !.shown = shown] \in FormsOf(s) /\ Blank \in FormsOf(s)
<1>1. Empty \in Text
    BY DEF Empty, Text, Exponents
<1> QED  BY <1>1 DEF FormsOf, Form, Blank

LEMMA FilledKept ==
    ASSUME screen \in Pages, screen # "categories", NEW old \in FormsOf(screen),
           NEW from \in CopyOf(screen), from # NoCopy, NEW e \in Units
    PROVE  /\ Filled(old, from, e) \in FormsOf(screen)
           /\ Filled(old, from, e).toast = old.toast
<1>1. from \in [kind : {"copy"}, value : Record(screen), unit : Units, failed : BOOLEAN]
    BY DEF CopyOf
<1> DEFINE text == IF from.value.minor = 0 THEN Empty ELSE MinorToMajorInput(from.value.minor, e)
           meant == MinorToMajorInput(from.value.minor, from.unit)
           sure == from.unit = e
           switch == IF screen = "details" THEN from.value.settlement # "none"
                     ELSE from.value.minor # 0
<1>2. from.value.minor \in 0..MaxAmount /\ e \in Exponents /\ from.unit \in Exponents
    BY <1>1, Priced, PagesAre
<1>3. text \in Text /\ meant \in Text
    BY <1>2, TextIs
<1>4. sure => text = meant \/ text.digits = 0
    BY DEF Empty
<1>5. sure \in BOOLEAN /\ switch \in BOOLEAN
    OBVIOUS
<1>6. Filled(old, from, e)
        = [old EXCEPT !.fresh = FALSE, !.text = text, !.meant = meant, !.sure = sure, !.switch = switch]
    BY DEF Filled
<1>7. old \in Form /\ (old.toast => screen = "details")
    BY FormIs
<1> HIDE DEF text, meant, sure, switch
<1>8. Filled(old, from, e) \in Form
    BY <1>3, <1>5, <1>6, <1>7 DEF Form
<1>9. /\ Filled(old, from, e).text = text /\ Filled(old, from, e).meant = meant
      /\ Filled(old, from, e).sure = sure /\ Filled(old, from, e).toast = old.toast
    BY <1>6, <1>7 DEF Form
<1> QED  BY <1>4, <1>7, <1>8, <1>9, FormIs

\* Whatever the form reacts to, it stays a form, and shows no new message.
LEMMA ReactingKept ==
    ASSUME screen \in Pages, NEW old \in FormsOf(screen), NEW next \in CopyOf(screen), NEW e \in Units
    PROVE  /\ Reacting(old, next, e) \in FormsOf(screen)
           /\ Reacting(old, next, e).toast => old.toast
<1>1. CASE screen = "details"
    <2>1. next # NoCopy => /\ Filled(old, next, e) \in FormsOf(screen)
                           /\ Filled(old, next, e).toast = old.toast
        BY <1>1, FilledKept
    <2>2. Reacting(old, next, e) = DetailsForm(old, next, e)
        BY <1>1 DEF Reacting
    <2> QED  BY <2>1, <2>2 DEF DetailsForm
<1>2. CASE screen = "budget"
    <2>1. old \in Form /\ ~old.toast
        BY <1>2, FormIs DEF Form
    <2>2. [Blank EXCEPT !.shown = old.shown] \in FormsOf(screen)
          /\ ~[Blank EXCEPT !.shown = old.shown].toast
        <3>1. old.shown \in BOOLEAN
            BY <2>1 DEF Form
        <3> QED  BY <1>2, <3>1, BlankKept DEF Blank
    <2>3. [old EXCEPT !.latest = NoCall] \in FormsOf(screen) /\ ~[old EXCEPT !.latest = NoCall].toast
        <3>1. /\ [old EXCEPT !.latest = NoCall] \in Form
              /\ [old EXCEPT !.latest = NoCall].toast = old.toast
              /\ [old EXCEPT !.latest = NoCall].sure = old.sure
              /\ [old EXCEPT !.latest = NoCall].text = old.text
              /\ [old EXCEPT !.latest = NoCall].meant = old.meant
            BY <2>1 DEF Form
        <3> QED  BY <1>2, <2>1, <3>1, FormIs
    <2>4. next # NoCopy => /\ Filled([old EXCEPT !.latest = NoCall], next, e) \in FormsOf(screen)
                           /\ ~Filled([old EXCEPT !.latest = NoCall], next, e).toast
        BY <1>2, <2>3, FilledKept
    <2>5. Reacting(old, next, e) = BudgetForm(old, next, e)
        BY <1>2 DEF Reacting
    <2>6. ~Editor(old.shown, next) \/ next # NoCopy
        BY DEF Editor
    <2> QED  BY <2>1, <2>2, <2>4, <2>5, <2>6 DEF BudgetForm
<1>3. CASE screen = "categories"
    <2>1. CategoryBlank \in CategoryForm /\ ~CategoryBlank.toast /\ ~CategoryBlank.shown
        BY DEF CategoryBlank, CategoryForm
    <2> QED  BY <1>3, <2>1 DEF Reacting, FormsOf
<1>4. CASE screen \in {"settlements", "rule", "occurrence"}
    BY <1>4 DEF Reacting
<1> QED  BY <1>1, <1>2, <1>3, <1>4 DEF Pages

-----------------------------------------------------------------------------
(* Every step keeps the types *)

LEMMA PageIs ==
    ASSUME PageInv
    PROVE  /\ screen \in Pages /\ screen \in Screens
           /\ unit \in Units /\ exp \in Units
           /\ unit \in Exponents /\ exp \in Exponents
           /\ record \in Record(screen)
           /\ copy \in CopyOf(screen) /\ form \in FormsOf(screen)
           /\ calls \in [CallIds -> CallsOf(screen)]
           /\ \A c \in CallIds : calls[c] \in CallsOf(screen)
           /\ fetch \in {Sent} \cup CopyOf(screen)
           /\ NoFetch = NoCopy /\ NoFetch # Sent
           /\ work \in Nat
           /\ work < MaxWork[screen] => work + 1 \in 0..MaxWork[screen]
<1>1. MaxWork[screen] \in Nat
    BY RecordPageAssumption DEF PageInv
<1> QED  BY <1>1, PagesAre DEF PageInv, NoFetch, NoCopy, Sent

\* The calls when one of them becomes another.
LEMMA CallsKept ==
    ASSUME PageInv, NEW c \in CallIds, NEW k \in CallsOf(screen)
    PROVE  [calls EXCEPT ![c] = k] \in [CallIds -> CallsOf(screen)]
BY DEF PageInv

LEMMA CopyIs ==
    ASSUME NEW s, NEW value \in Record(s), NEW u \in Units
    PROVE  Copy(value, u) \in CopyOf(s) /\ Copy(value, u) # NoCopy /\ Copy(value, u) # Sent
BY DEF Copy, CopyOf, NoCopy, Sent

LEMMA FetchKept ==
    ASSUME PageInv, FetchRecord \/ ServeFetch
    PROVE  PageInv'
<1>1. CASE FetchRecord
    BY <1>1, PageIs DEF PageInv, FetchRecord, Invalidated
<1>2. CASE ServeFetch
    <2>1. fetch' \in CopyOf(screen)
        BY <1>2, PageIs, CopyIs DEF ServeFetch
    <2> QED  BY <1>2, <2>1, PageIs DEF PageInv, ServeFetch
<1> QED  BY <1>1, <1>2

LEMMA FetchEndKept ==
    ASSUME PageInv, ArriveFetch \/ LoseFetch
    PROVE  PageInv'
<1>1. copy' \in CopyOf(screen) /\ form' = Reacting(form, copy', exp)
    <2>1. CASE ArriveFetch
        BY <2>1, PageIs DEF ArriveFetch, Sent
    <2>2. CASE LoseFetch
        <3>1. copy # NoCopy => [copy EXCEPT !.failed = TRUE] \in CopyOf(screen)
            BY PageIs DEF CopyOf
        <3> QED  BY <2>2, <3>1, PageIs DEF LoseFetch
    <2> QED  BY <2>1, <2>2
<1>2. form' \in FormsOf(screen)
    BY <1>1, PageIs, ReactingKept
<1>3. /\ UNCHANGED <<screen, unit, record, exp, calls, work>> /\ fetch' = NoFetch
      /\ behind' \subseteq {"record", "settings"}
    BY DEF PageInv, ArriveFetch, LoseFetch
<1> QED  BY <1>1, <1>2, <1>3, PageIs DEF PageInv, CopyOf

\* A step of the calls only.
LEMMA OnlyCallsKept ==
    ASSUME PageInv, NEW c \in CallIds, NEW k \in CallsOf(screen),
           calls' = [calls EXCEPT ![c] = k],
           behind' \subseteq {"record", "settings"},
           work' = work \/ (work < MaxWork[screen] /\ work' = work + 1),
           form' = form, UNCHANGED <<screen, unit, record, exp, copy, fetch>>
    PROVE  PageInv'
<1>1. calls' \in [CallIds -> CallsOf(screen)]
    BY CallsKept
<1>2. work' \in 0..MaxWork[screen]
    BY PageIs DEF PageInv
<1> QED  BY <1>1, <1>2, PageIs DEF PageInv

LEMMA SettingsKept ==
    ASSUME PageInv, NEW c \in CallIds,
           FetchSettings(c) \/ ServeSettings(c) \/ ArriveCurrency(c)
    PROVE  PageInv'
<1>1. calls[c] \in CallsOf(screen) /\ behind \subseteq {"record", "settings"}
    BY DEF PageInv
<1>2. CASE FetchSettings(c)
    <2>1. [op |-> "settings", phase |-> "sent"] \in CallsOf(screen)
        BY <1>2 DEF FetchSettings, CallsOf, SettingsCalls
    <2> QED  BY <1>1, <1>2, <2>1, OnlyCallsKept DEF FetchSettings
<1>3. CASE ServeSettings(c)
    <2>1. screen # "categories"
        BY <1>1, <1>3, CallIs, PageIs DEF ServeSettings
    <2>2. [op |-> calls[c].op, phase |-> "answered", unit |-> unit] \in CallsOf(screen)
        BY <1>3, <2>1, PageIs DEF ServeSettings, CallsOf, SettingsCalls
    <2>3. calls' = [calls EXCEPT ![c] = [op |-> calls[c].op, phase |-> "answered", unit |-> unit]]
        BY <1>3 DEF ServeSettings
    <2>4. behind' \subseteq {"record", "settings"}
        BY <1>1, <1>3 DEF ServeSettings
    <2> QED  BY <1>3, <2>2, <2>3, <2>4, OnlyCallsKept DEF ServeSettings
<1>4. CASE ArriveCurrency(c)
    <2>1. screen # "categories"
        BY <1>1, <1>4, CallIs, PageIs DEF ArriveCurrency
    <2>2. [op |-> "refresh", phase |-> "sent"] \in CallsOf(screen)
        BY <2>1 DEF CallsOf, SettingsCalls
    <2> QED  BY <1>1, <1>4, <2>2, OnlyCallsKept DEF ArriveCurrency
<1> QED  BY <1>2, <1>3, <1>4

LEMMA ArriveSettingsKept ==
    ASSUME PageInv, NEW c \in CallIds, ArriveSettings(c)
    PROVE  PageInv'
<1>1. exp' \in Units
    BY PageIs, CallIs DEF ArriveSettings
<1>2. form' \in FormsOf(screen)
    <2>1. form' = Reacting(form, copy, exp')
        BY DEF ArriveSettings
    <2> QED  BY <1>1, <2>1, PageIs, ReactingKept
<1>3. Free \in CallsOf(screen)
    BY DEF CallsOf
<1>4. calls' \in [CallIds -> CallsOf(screen)]
    BY <1>3, CallsKept DEF ArriveSettings
<1>5. /\ fetch' \in {Sent} \cup CopyOf(screen)
      /\ behind' \subseteq {"record", "settings"}
    BY PageIs DEF PageInv, ArriveSettings, Invalidated
<1>6. UNCHANGED <<screen, unit, record, copy, work>>
    BY DEF ArriveSettings
<1> QED  BY <1>1, <1>2, <1>4, <1>5, <1>6, PageIs DEF PageInv

LEMMA ChangesKept ==
    ASSUME PageInv, screen # "categories", NEW to \in Units, Changes(to)
    PROVE  unit' \in Units /\ record' \in Record(screen)
<1> DEFINE scaled == IF to >= unit THEN record.minor * ScaleFor(to - unit)
                     ELSE record.minor \div ScaleFor(unit - to)
<1>1. /\ scaled <= MaxAmount /\ (scaled = 0 => record.minor = 0)
      /\ unit' = to /\ record' = [record EXCEPT !.minor = scaled]
    BY DEF Changes
<1>2. record.minor \in MinorsOf(screen) /\ MinorsOf(screen) \subseteq 0..MaxAmount
      /\ unit \in Exponents /\ to \in Exponents
    BY PageIs, Priced, PagesAre
<1>3. scaled \in 0..MaxAmount /\ (record.minor # 0 => scaled \in Amounts)
    BY <1>1, <1>2, ScaledIs
<1> HIDE DEF scaled
<1>4. scaled \in MinorsOf(screen)
    <2>1. CASE screen = "budget"
        BY <1>3, <2>1 DEF MinorsOf
    <2>2. CASE screen # "budget"
        <3>1. record.minor \in Amounts /\ record.minor # 0
            BY <1>2, <2>2 DEF MinorsOf, Amounts
        <3> QED  BY <1>3, <2>2, <3>1 DEF MinorsOf
    <2> QED  BY <2>1, <2>2
<1> QED  BY <1>1, <1>4, PageIs, Priced

LEMMA ServeCurrencyKept ==
    ASSUME PageInv, NEW c \in CallIds, ServeCurrency(c)
    PROVE  PageInv'
<1>1. calls[c] \in CallsOf(screen) /\ behind \subseteq {"record", "settings"}
    BY DEF PageInv
<1>2. screen # "categories" /\ calls[c].to \in Units
    BY <1>1, CallIs, PageIs DEF ServeCurrency
<1>3. unit' \in Units /\ record' \in Record(screen)
    <2>1. CASE Changes(calls[c].to)
        BY <1>2, <2>1, ChangesKept
    <2>2. CASE UNCHANGED <<unit, record>>
        BY <2>2, PageIs
    <2> QED  BY <2>1, <2>2 DEF ServeCurrency
<1>4. calls' \in [CallIds -> CallsOf(screen)]
    <2>1. Free \in CallsOf(screen) /\ [op |-> "currency", phase |-> "answered"] \in CallsOf(screen)
        BY <1>2 DEF CallsOf, SettingsCalls
    <2> QED  BY <2>1, CallsKept DEF ServeCurrency
<1>5. UNCHANGED <<screen, exp, copy, form, fetch, work>> /\ behind' \subseteq {"record", "settings"}
    BY <1>1 DEF ServeCurrency
<1> QED  BY <1>3, <1>4, <1>5, PageIs DEF PageInv

\* A step of the form only.
LEMMA FormOnlyKept ==
    ASSUME PageInv, NEW next \in FormsOf(screen), FormOnly(next)
    PROVE  PageInv'
BY PageIs DEF PageInv, FormOnly

\* The switches of a form.
LEMMA FormFieldsKept ==
    ASSUME PageInv, screen # "categories", NEW b \in BOOLEAN, NEW c \in CallIds \cup {NoCall}
    PROVE  /\ [form EXCEPT !.shown = b] \in FormsOf(screen)
           /\ [form EXCEPT !.switch = b] \in FormsOf(screen)
           /\ [form EXCEPT !.latest = c] \in FormsOf(screen)
           /\ [form EXCEPT !.toast = FALSE] \in FormsOf(screen)
           /\ screen = "details" => [form EXCEPT !.toast = TRUE] \in FormsOf(screen)
           /\ [form EXCEPT !.shown = FALSE, !.latest = c] \in FormsOf(screen)
           /\ [form EXCEPT !.switch = ~@] \in FormsOf(screen)
           /\ form.shown \in BOOLEAN /\ form.switch \in BOOLEAN /\ form.fresh \in BOOLEAN
           /\ form.text \in Text /\ form.meant \in Text /\ form.sure \in BOOLEAN
           /\ form.latest \in CallIds \cup {NoCall}
<1>1. /\ form \in Form
      /\ form.toast => screen = "details"
      /\ form.sure => form.text = form.meant \/ form.text.digits = 0
    BY PageIs, FormIs
<1>2. /\ [form EXCEPT !.shown = b] \in FormsOf(screen)
      /\ [form EXCEPT !.switch = b] \in FormsOf(screen)
      /\ [form EXCEPT !.latest = c] \in FormsOf(screen)
    BY <1>1 DEF FormsOf, Form
<1>3. /\ [form EXCEPT !.toast = FALSE] \in FormsOf(screen)
      /\ screen = "details" => [form EXCEPT !.toast = TRUE] \in FormsOf(screen)
    BY <1>1 DEF FormsOf, Form
<1>4. [form EXCEPT !.shown = FALSE, !.latest = c] \in FormsOf(screen)
    BY <1>1 DEF FormsOf, Form
<1>5. [form EXCEPT !.switch = ~@] \in FormsOf(screen)
    BY <1>1 DEF FormsOf, Form
<1> QED  BY <1>1, <1>2, <1>3, <1>4, <1>5 DEF Form

LEMMA TypedKept ==
    ASSUME PageInv, screen # "categories", NEW text \in Texts
    PROVE  Typed(text) \in FormsOf(screen)
<1>1. text \in Text
    BY RecordPageAssumption
<1>2. form \in Form /\ (form.toast => screen = "details")
    BY PageIs, FormIs
<1> QED  BY <1>1, <1>2 DEF Typed, FormsOf, Form

LEMMA OpenKept ==
    ASSUME PageInv, OpenDetails \/ OpenRule \/ OpenOccurrence \/ OpenBudget
    PROVE  PageInv'
<1>1. CASE OpenDetails
    <2>1. [form EXCEPT !.shown = TRUE] \in FormsOf(screen)
        BY <1>1, FormFieldsKept, PageIs DEF OpenDetails, NoCall
    <2> QED  BY <1>1, <2>1, FormOnlyKept DEF OpenDetails
<1>2. CASE OpenRule \/ OpenOccurrence
    <2>1. screen # "categories" /\ copy # NoCopy
        BY <1>2 DEF OpenRule, OpenOccurrence, Showing
    <2>2. [form EXCEPT !.shown = TRUE] \in FormsOf(screen)
        BY <2>1, FormFieldsKept DEF NoCall
    <2>3. /\ Filled([form EXCEPT !.shown = TRUE], copy, exp) \in FormsOf(screen)
          /\ [Blank EXCEPT !.shown = TRUE] \in FormsOf(screen)
        BY <2>1, <2>2, PageIs, FilledKept, BlankKept
    <2> QED  BY <1>2, <2>3, FormOnlyKept DEF OpenRule, OpenOccurrence
<1>3. CASE OpenBudget
    <2>1. [form EXCEPT !.shown = TRUE] \in FormsOf(screen)
        BY <1>3, FormFieldsKept, PageIs DEF OpenBudget, NoCall
    <2>2. Reacting([form EXCEPT !.shown = TRUE], copy, exp) \in FormsOf(screen)
        BY <2>1, PageIs, ReactingKept
    <2> QED  BY <1>3, <2>2, FormOnlyKept DEF OpenBudget
<1> QED  BY <1>1, <1>2, <1>3

LEMMA EditKept ==
    ASSUME PageInv, EditDetails \/ EditRule \/ EditOccurrence \/ EditBudget
    PROVE  PageInv'
<1>1. screen # "categories"
    BY DEF EditDetails, EditRule, EditOccurrence, EditBudget
<1>2. /\ \A text \in Texts : Typed(text) \in FormsOf(screen)
      /\ Blank \in FormsOf(screen)
      /\ [form EXCEPT !.shown = FALSE] \in FormsOf(screen)
      /\ [form EXCEPT !.switch = ~@] \in FormsOf(screen)
    BY <1>1, TypedKept, BlankKept, FormFieldsKept, PageIs DEF NoCall
<1>3. \E next \in FormsOf(screen) : FormOnly(next)
    <2>1. CASE EditDetails
        BY <1>2, <2>1 DEF EditDetails
    <2>2. CASE EditRule
        BY <1>2, <2>2 DEF EditRule
    <2>3. CASE EditOccurrence
        BY <1>2, <2>3 DEF EditOccurrence
    <2>4. CASE EditBudget
        BY <1>2, <2>4 DEF EditBudget
    <2> QED  BY <2>1, <2>2, <2>3, <2>4
<1> QED  BY <1>3, FormOnlyKept

\* The fields of the form of the categories.
LEMMA CategoryFormKept ==
    ASSUME PageInv, screen = "categories"
    PROVE  /\ form \in CategoryForm /\ (form.shown => form.id \in CategoryIds)
           /\ RenameClosed \in FormsOf(screen)
           /\ \A id \in CategoryIds, icon \in {"old", "new"} :
                [form EXCEPT !.shown = TRUE, !.id = id, !.icon = icon] \in FormsOf(screen)
           /\ \A c \in CallIds :
                /\ [form EXCEPT !.latest = c, !.mine = @ \cup {c}] \in FormsOf(screen)
                /\ [form EXCEPT !.adding = c] \in FormsOf(screen)
                /\ [RenameClosed EXCEPT !.mine = @ \ {c}] \in FormsOf(screen)
<1>1. /\ form \in CategoryForm /\ (form.shown => form.id \in CategoryIds)
      /\ FormsOf(screen) = {f \in CategoryForm : f.shown => f.id \in CategoryIds}
    BY PageIs DEF FormsOf
<1>2. RenameClosed \in CategoryForm /\ ~RenameClosed.shown
    BY <1>1 DEF CategoryForm, RenameClosed
<1>3. ASSUME NEW id \in CategoryIds, NEW icon \in {"old", "new"}
      PROVE  [form EXCEPT !.shown = TRUE, !.id = id, !.icon = icon] \in FormsOf(screen)
    BY <1>1 DEF CategoryForm
<1>4. ASSUME NEW c \in CallIds
      PROVE  /\ [form EXCEPT !.latest = c, !.mine = @ \cup {c}] \in FormsOf(screen)
             /\ [form EXCEPT !.adding = c] \in FormsOf(screen)
    BY <1>1 DEF CategoryForm
<1>5. ASSUME NEW c \in CallIds  PROVE [RenameClosed EXCEPT !.mine = @ \ {c}] \in FormsOf(screen)
    BY <1>1, <1>2 DEF CategoryForm
<1> QED  BY <1>1, <1>2, <1>3, <1>4, <1>5

\* What a page that shows something has.
LEMMA ShowingIs ==
    ASSUME PageInv, Showing
    PROVE  copy # NoCopy /\ copy.value \in Record(screen) /\ copy.unit \in Units
BY PageIs DEF Showing, CopyOf

LEMMA EditCategoryKept ==
    ASSUME PageInv, EditCategory
    PROVE  PageInv'
<1>1. screen = "categories" /\ copy.value \in CategoryTable
    BY ShowingIs DEF EditCategory, Record
<1>2. /\ Active(copy.value) \subseteq CategoryIds
      /\ \A id \in CategoryIds : copy.value.label[id].icon \in {"old", "new"}
    BY <1>1, TableIs DEF Label
<1>3. \E next \in FormsOf(screen) : FormOnly(next)
    <2>1. CASE \E id \in Active(copy.value) :
                  FormOnly([form EXCEPT !.shown = TRUE, !.id = id, !.icon = copy.value.label[id].icon])
        <3>1. PICK id \in Active(copy.value) :
                  FormOnly([form EXCEPT !.shown = TRUE, !.id = id, !.icon = copy.value.label[id].icon])
            BY <2>1
        <3>2. [form EXCEPT !.shown = TRUE, !.id = id, !.icon = copy.value.label[id].icon] \in FormsOf(screen)
            BY <1>1, <1>2, CategoryFormKept
        <3> QED  BY <3>1, <3>2
    <2>2. CASE FormOnly(RenameClosed)
        BY <1>1, <2>2, CategoryFormKept
    <2> QED  BY <2>1, <2>2 DEF EditCategory
<1> QED  BY <1>3, FormOnlyKept

LEMMA ToastFadesKept ==
    ASSUME PageInv, ToastFades
    PROVE  PageInv'
<1>1. screen # "categories"
    BY CategoryFormKept DEF ToastFades, CategoryForm
<1>2. [form EXCEPT !.toast = FALSE] \in FormsOf(screen)
    BY <1>1, FormFieldsKept DEF NoCall
<1> QED  BY <1>2, PageIs DEF PageInv, ToastFades

\* The amount of a text that is not refused stands for as much as the text.
LEMMA MinorMeans ==
    ASSUME NEW text \in Text, NEW e \in Exponents, MajorToMinor(text, e) # Undefined
    PROVE  SameMajor(MinorToMajorInput(MajorToMinor(text, e), e), text) /\ text.digits # 0
<1>1. text.digits \in Nat /\ text.fraction \in Exponents
    BY DEF Text
<1>2. text.fraction <= e /\ MajorToMinor(text, e) = text.digits * ScaleFor(e - text.fraction)
    <2>1. ~(text.fraction > e) /\ MajorToMinor(text, e) = text.digits * ScaleFor(e - text.fraction)
        BY DEF MajorToMinor
    <2> QED  BY <1>1, <2>1 DEF Exponents
<1>3. ScaleFor(e - text.fraction) \in Nat
    BY <1>1, <1>2 DEF Exponents, ScaleFor
<1>4. ScaleFor(e - text.fraction) * ScaleFor(text.fraction) = ScaleFor(e)
    <2>1. ASSUME NEW f \in Exponents, f <= e  PROVE ScaleFor(e - f) * ScaleFor(f) = ScaleFor(e)
        BY <2>1 DEF Exponents, ScaleFor
    <2> QED  BY <1>1, <1>2, <2>1
<1>5. \A f \in Exponents : ScaleFor(f) \in Nat
    BY DEF Exponents, ScaleFor
<1>6. ASSUME NEW d \in Nat, NEW x \in Nat, NEW y \in Nat  PROVE (d * x) * y = d * (x * y)
    OBVIOUS
<1>7. MajorToMinor(text, e) * ScaleFor(text.fraction) = text.digits * ScaleFor(e)
    BY <1>1, <1>2, <1>3, <1>4, <1>5, <1>6
<1>8. text.digits # 0
    BY <1>2, <1>3 DEF Undefined
<1> QED  BY <1>7, <1>8 DEF SameMajor, MinorToMajorInput

LEMMA PressKept ==
    ASSUME PageInv, NEW c \in CallIds, NEW op \in Presses, Press(c, op)
    PROVE  PageInv'
<1>1. screen # "categories" /\ op \in OpsOf(screen)
    <2>1. CASE Offers(op) /\ Showing
        <3>1. CASE screen = "details"
            BY <2>1, <3>1 DEF Offers, DetailsOffers, OpsOf
        <3>2. CASE screen = "settlements"
            BY <2>1, <3>2 DEF Offers, SettlementOffers, OpsOf
        <3>3. CASE screen = "rule"
            BY <2>1, <3>3 DEF Offers, RuleOffers, OpsOf
        <3>4. CASE screen = "occurrence"
            BY <2>1, <3>4 DEF Offers, OccurrenceOffers, OpsOf
        <3> QED  BY <2>1, <3>1, <3>2, <3>3, <3>4, PageIs DEF Offers, Pages
    <2>2. CASE op = "undo" /\ form.toast
        <3>1. screen # "categories"
            BY <2>2, CategoryFormKept DEF CategoryForm
        <3>2. screen = "details"
            BY <2>2, <3>1, PageIs, FormIs
        <3> QED  BY <2>2, <3>2 DEF OpsOf
    <2> QED  BY <2>1, <2>2 DEF Press
<1>2. [op |-> op, phase |-> "sent"] \in CallsOf(screen)
    <2>1. op \notin Saves
        BY DEF Presses, Saves
    <2> QED  BY <1>1, <2>1 DEF CallsOf, RequestsOf
<1>3. calls' \in [CallIds -> CallsOf(screen)]
    BY <1>2, CallsKept DEF Press
<1>4. form' \in FormsOf(screen)
    BY <1>1, FormFieldsKept, PageIs DEF Press, NoCall
<1>5. work' \in 0..MaxWork[screen] /\ UNCHANGED <<screen, unit, record, exp, copy, fetch, behind>>
    BY PageIs DEF Press
<1> QED  BY <1>3, <1>4, <1>5, PageIs DEF PageInv

LEMMA SubmitKept ==
    ASSUME PageInv, screen # "categories", NEW c \in CallIds, NEW op \in OpsOf(screen) \cap Saves,
           NEW minor \in MinorsOf(screen),
           form.sure /\ minor # 0 => SameMajor(MinorToMajorInput(minor, exp), form.meant),
           Submit(c, op, minor)
    PROVE  PageInv'
<1> DEFINE k == [op |-> op, phase |-> "sent", minor |-> minor, switch |-> form.switch, exp |-> exp,
                 meant |-> form.meant, sure |-> form.sure]
<1>1. k \in SavesOf(screen) /\ Meant(k)
    BY FormFieldsKept, PageIs DEF SavesOf, Meant, NoCall
<1> HIDE DEF k
<1>2. k \in CallsOf(screen)
    BY <1>1 DEF CallsOf, RequestsOf
<1>3. calls' \in [CallIds -> CallsOf(screen)]
    BY <1>2, CallsKept DEF Submit, k
<1>4. form' \in FormsOf(screen)
    BY FormFieldsKept, PageIs DEF Submit, NoCall
<1>5. work' \in 0..MaxWork[screen] /\ UNCHANGED <<screen, unit, record, exp, copy, fetch, behind>>
    BY PageIs DEF Submit
<1> QED  BY <1>3, <1>4, <1>5, PageIs DEF PageInv

LEMMA SaveKept ==
    ASSUME PageInv, NEW c \in CallIds,
           SaveDetails(c) \/ SaveRule(c) \/ SaveOccurrence(c) \/ SaveBudget(c)
    PROVE  PageInv'
<1> DEFINE minor == MajorToMinor(form.text, exp)
<1>1. screen # "categories"
    BY DEF SaveDetails, SaveRule, SaveOccurrence, SaveBudget
<1>2. /\ form.text \in Text /\ exp \in Exponents
      /\ form.sure => form.text = form.meant \/ form.text.digits = 0
    BY <1>1, FormFieldsKept, PageIs, FormIs DEF NoCall
<1>3. minor # Undefined =>
        /\ minor \in Amounts
        /\ form.sure => SameMajor(MinorToMajorInput(minor, exp), form.meant)
    BY <1>2, MinorIs, MinorMeans
<1>4. MinorsOf(screen) \subseteq 0..MaxAmount /\ Amounts \subseteq MinorsOf(screen)
    BY PageIs, PagesAre
<1> HIDE DEF minor
<1>5. \E op \in OpsOf(screen) \cap Saves, m \in MinorsOf(screen) :
        /\ form.sure /\ m # 0 => SameMajor(MinorToMajorInput(m, exp), form.meant)
        /\ Submit(c, op, m)
    <2>1. CASE SaveDetails(c)
        <3>1. "save" \in OpsOf(screen) \cap Saves /\ minor # Undefined /\ Submit(c, "save", minor)
            BY <2>1 DEF SaveDetails, OpsOf, Saves, minor
        <3> QED  BY <1>3, <1>4, <3>1
    <2>2. CASE SaveRule(c)
        <3>1. /\ minor # Undefined
              /\ \E op \in Saves : Submit(c, op, minor)
            BY <2>2 DEF SaveRule, Saves, minor
        <3>2. OpsOf(screen) \cap Saves = Saves
            BY <2>2 DEF SaveRule, OpsOf
        <3> QED  BY <1>3, <1>4, <3>1, <3>2
    <2>3. CASE SaveOccurrence(c)
        <3>1. "save" \in OpsOf(screen) \cap Saves /\ minor # Undefined /\ Submit(c, "save", minor)
            BY <2>3 DEF SaveOccurrence, OpsOf, Saves, minor
        <3> QED  BY <1>3, <1>4, <3>1
    <2>4. CASE SaveBudget(c)
        <3>1. "save" \in OpsOf(screen) \cap Saves /\ 0 \in MinorsOf(screen)
            BY <2>4, MoneyAssumption DEF SaveBudget, OpsOf, Saves, MinorsOf
        <3>2. \/ Submit(c, "save", 0)
              \/ minor # Undefined /\ Submit(c, "save", minor)
            BY <2>4 DEF SaveBudget, minor
        <3> QED  BY <1>3, <1>4, <3>1, <3>2
    <2> QED  BY <2>1, <2>2, <2>3, <2>4
<1> QED  BY <1>1, <1>5, SubmitKept

LEMMA SendChangeKept ==
    ASSUME PageInv, screen = "categories", NEW c \in CallIds, NEW change \in Change,
           SendChange(c, change)
    PROVE  PageInv'
<1> DEFINE k == [op |-> change.op, phase |-> "sent", change |-> change]
<1>1. change.op \in CategoryOps
    BY DEF Change, CategoryOps, Actions
<1>2. k \in CallsOf(screen)
    BY <1>1 DEF CallsOf, RequestsOf
<1> HIDE DEF k
<1>3. calls' \in [CallIds -> CallsOf(screen)]
    BY <1>2, CallsKept DEF SendChange, k
<1>4. form' \in FormsOf(screen)
    BY PageIs, CategoryFormKept DEF SendChange
<1>5. work' \in 0..MaxWork[screen] /\ UNCHANGED <<screen, unit, record, exp, copy, fetch, behind>>
    BY PageIs DEF SendChange
<1> QED  BY <1>3, <1>4, <1>5, PageIs DEF PageInv

\* While the dialog is open it is about some category.
LEMMA CategoryCallsKept ==
    ASSUME PageInv, NEW c \in CallIds,
           SaveCategory(c) \/ \E change \in Change : PressCategory(c, change)
    PROVE  PageInv'
<1>1. CASE SaveCategory(c)
    <2>1. /\ screen = "categories" /\ form \in CategoryForm /\ form.id \in CategoryIds
          /\ form.icon \in {"old", "new"}
        BY <1>1, CategoryFormKept DEF SaveCategory, CategoryForm
    <2>2. ASSUME NEW name \in {"old", "new"}
          PROVE  [op |-> "update", id |-> form.id, label |-> [name |-> name, icon |-> form.icon]] \in Change
        BY <2>1 DEF Change, Label
    <2> QED  BY <1>1, <2>1, <2>2, SendChangeKept DEF SaveCategory
<1>2. CASE \E change \in Change : PressCategory(c, change)
    BY <1>2, SendChangeKept DEF PressCategory
<1> QED  BY <1>1, <1>2

LEMMA ServeKept ==
    ASSUME PageInv, NEW c \in CallIds, Serve(c)
    PROVE  PageInv'
<1> DEFINE k == calls[c]
           Answered(ok, r) ==
               [op |-> k.op, phase |-> "answered", ok |-> ok,
                copy |-> IF ok /\ screen = "details" THEN Copy(r, unit) ELSE NoCopy]
<1>1. screen \in Pages /\ k \in RequestsOf(screen) /\ k.op \in OpsOf(screen)
    BY PageIs, CallIs DEF Serve
<1>2. record' \in Record(screen)
    <2>1. CASE Accepts(record, k) /\ record' = After(record, k)
        <3>1. CASE screen = "categories"
            <4>1. /\ record \in CategoryTable /\ k.change \in Change
                  /\ CategoryAccepts(record, k.change) /\ record' = CategoryAfter(record, k.change)
                BY <1>1, <2>1, <3>1, PageIs, RequestIs DEF Record, Accepts, After
            <4> QED  BY <3>1, <4>1, CategoriesKept DEF Record
        <3>2. CASE screen # "categories"
            BY <1>1, <2>1, <3>2, PageIs, RequestIs, AfterKept
        <3> QED  BY <3>1, <3>2
    <2>2. CASE record' = record
        BY <2>2, PageIs
    <2> QED  BY <2>1, <2>2 DEF Serve
<1>3. ASSUME NEW ok \in BOOLEAN, NEW r \in Record(screen)  PROVE Answered(ok, r) \in CallsOf(screen)
    <2> DEFINE q == IF ok /\ screen = "details" THEN Copy(r, unit) ELSE NoCopy
    <2>1. q \in CopyOf(screen) /\ (ok /\ screen = "details" => q # NoCopy)
        BY PageIs, CopyIs DEF CopyOf
    <2> HIDE DEF q
    <2>2. [op |-> k.op, phase |-> "answered", ok |-> ok, copy |-> q] \in AnswersOf(screen)
        BY <1>1, <2>1 DEF AnswersOf
    <2> QED  BY <2>2 DEF CallsOf, q
<1>4. calls' \in [CallIds -> CallsOf(screen)]
    <2>1. \E ok \in BOOLEAN :
             calls' = [calls EXCEPT ![c] = IF k.phase = "orphan" THEN Free ELSE Answered(ok, record')]
        BY DEF Serve
    <2> HIDE DEF Answered, k
    <2>2. Free \in CallsOf(screen)
        BY DEF CallsOf
    <2> QED  BY <1>2, <1>3, <2>1, <2>2, CallsKept
<1>5. UNCHANGED <<screen, unit, exp, copy, form, fetch, work>> /\ behind' \subseteq {"record", "settings"}
    BY DEF PageInv, Serve
<1> QED  BY <1>2, <1>4, <1>5, PageIs DEF PageInv

LEMMA ArriveKept ==
    ASSUME PageInv, NEW c \in CallIds, Arrive(c)
    PROVE  PageInv'
<1>1. /\ calls[c].op \in OpsOf(screen) /\ calls[c].copy \in CopyOf(screen)
      /\ Free \in CallsOf(screen)
      /\ [op |-> calls[c].op, phase |-> "refreshing"] \in CallsOf(screen)
    <2>1. calls[c].op \in OpsOf(screen) /\ calls[c].copy \in CopyOf(screen)
        BY PageIs, CallIs DEF Arrive
    <2> QED  BY <2>1 DEF CallsOf
<1>2. calls' \in [CallIds -> CallsOf(screen)]
    BY <1>1, CallsKept DEF Arrive
<1>3. copy' \in CopyOf(screen)
    BY <1>1, PageIs DEF Arrive
<1>4. form' \in FormsOf(screen)
    BY <1>1, PageIs, ReactingKept DEF Arrive
<1>5. fetch' \in {Sent} \cup CopyOf(screen)
    BY PageIs DEF Arrive, Invalidated
<1>6. UNCHANGED <<screen, unit, record, exp, behind, work>>
    BY DEF Arrive
<1> QED  BY <1>2, <1>3, <1>4, <1>5, <1>6, PageIs DEF PageInv

LEMMA SettleKept ==
    ASSUME PageInv, NEW c \in CallIds, Settle(c)
    PROVE  PageInv'
<1>1. form' \in FormsOf(screen)
    <2>1. CASE screen = "details"
        <3>1. form' = DetailsSettled(calls[c].op)
            BY <2>1 DEF Settle
        <3>2. /\ [form EXCEPT !.shown = FALSE] \in FormsOf(screen)
              /\ [form EXCEPT !.toast = TRUE] \in FormsOf(screen)
            BY <2>1, FormFieldsKept DEF NoCall
        <3> QED  BY <3>1, <3>2, PageIs DEF DetailsSettled
    <2>2. CASE screen \in {"settlements", "rule", "occurrence"}
        <3>1. form' \in {form, Blank}
            BY <2>2 DEF Settle, RuleSettled, OccurrenceSettled
        <3> QED  BY <2>2, <3>1, PageIs, BlankKept
    <2>3. CASE screen = "budget"
        <3>1. form' = BudgetSettled(c)
            BY <2>3 DEF Settle
        <3>2. form.latest \in CallIds \cup {NoCall}
            BY <2>3, FormFieldsKept
        <3>3. \A l \in CallIds \cup {NoCall} : [form EXCEPT !.shown = FALSE, !.latest = l] \in FormsOf(screen)
            BY <2>3, FormFieldsKept
        <3>4. [form EXCEPT !.shown = FALSE, !.latest = IF @ = c THEN NoCall ELSE @] \in FormsOf(screen)
            BY <3>2, <3>3
        <3> QED  BY <3>1, <3>4, PageIs, ReactingKept DEF BudgetSettled
    <2>4. CASE screen = "categories"
        <3>1. form' = CategorySettled(c)
            BY <2>4 DEF Settle
        <3> QED  BY <2>4, <3>1, PageIs, CategoryFormKept DEF CategorySettled
    <2> QED  BY <2>1, <2>2, <2>3, <2>4, PageIs DEF Pages
<1>2. calls' \in [CallIds -> CallsOf(screen)]
    <2>1. Free \in CallsOf(screen)
        BY DEF CallsOf
    <2> QED  BY <2>1, CallsKept DEF Settle
<1>3. UNCHANGED <<screen, unit, record, exp, copy, fetch, behind, work>>
    BY DEF Settle
<1> QED  BY <1>1, <1>2, <1>3, PageIs DEF PageInv

LEMMA LoseKept ==
    ASSUME PageInv, NEW c \in CallIds, Lose(c) \/ LoseLocation(c)
    PROVE  PageInv'
<1>1. Orphaned(calls[c]) \in CallsOf(screen)
    BY PageIs, OrphanedKept
<1>2. calls' \in [CallIds -> CallsOf(screen)]
    <2>1. CASE Lose(c)
        BY <1>1, <2>1, CallsKept DEF Lose
    <2>2. CASE LoseLocation(c)
        <3>1. calls[c].op = "locate" /\ calls[c].op \in OpsOf(screen)
            BY <2>2, PageIs, CallIs DEF LoseLocation, Ops, Presses
        <3>2. screen = "details"
            BY <3>1, PageIs DEF OpsOf, Pages, Saves, CategoryOps, Actions
        <3>3. [op |-> "noLocation", phase |-> "sent"] \in CallsOf(screen)
            BY <3>2 DEF CallsOf, RequestsOf, OpsOf, Saves
        <3>4. PICK d \in CallIds :
                  calls' = [calls EXCEPT ![d] = Orphaned(calls[c]),
                                         ![c] = [op |-> "noLocation", phase |-> "sent"]]
            BY <2>2 DEF LoseLocation
        <3> QED  BY <1>1, <3>3, <3>4, PageIs
    <2> QED  BY <2>1, <2>2
<1>3. UNCHANGED <<screen, unit, record, exp, copy, form, fetch, work>>
      /\ behind' \subseteq {"record", "settings"}
    BY DEF PageInv, Lose, LoseLocation
<1> QED  BY <1>2, <1>3, PageIs DEF PageInv

LEMMA TypedAmountsAre ==
    ASSUME unit \in Exponents
    PROVE  TypedAmounts \subseteq Amounts
<1>1. ASSUME NEW text \in Texts, MajorToMinor(text, unit) # Undefined
      PROVE  MajorToMinor(text, unit) \in Amounts
    BY <1>1, MinorIs, RecordPageAssumption
<1> QED  BY <1>1 DEF TypedAmounts

LEMMA ElsewhereKept ==
    ASSUME PageInv,
           \/ ChangeElsewhere
           \/ \E change \in Change : ChangeCategoriesElsewhere(change)
           \/ \E to \in Units : ChangeCurrencyElsewhere(to)
    PROVE  PageInv'
<1>1. CASE ChangeElsewhere
    <2>1. PICK op \in Presses \cup {"save"}, minor \in TypedAmounts, switch \in BOOLEAN :
             /\ screen = "rule" => op \in {"save", "enable", "disable", "archive"}
             /\ screen = "occurrence" => op \in {"save", "confirm", "skip"}
             /\ screen = "budget" => op = "save"
             /\ screen \in {"details", "settlements"} =>
                   op \notin {"enable", "disable", "archive", "confirm", "skip"}
             /\ record' = After(record, [op |-> op, minor |-> minor, switch |-> switch])
        BY <1>1 DEF ChangeElsewhere
    <2>2. screen # "categories" /\ minor \in MinorsOf(screen)
        BY <1>1, PageIs, PagesAre, TypedAmountsAre DEF ChangeElsewhere
    <2>3. op \in OpsOf(screen) \/ (screen = "settlements" /\ op \in OpsOf("details"))
        BY <2>1, <2>2, PageIs DEF OpsOf, Presses, Saves, Pages
    <2> DEFINE k == [op |-> op, minor |-> minor, switch |-> switch]
    <2>4. k.op = op /\ k.minor = minor /\ k.switch = switch
        OBVIOUS
    <2> HIDE DEF k
    <2>5. record' \in Record(screen)
        BY <2>1, <2>2, <2>3, <2>4, PageIs, AfterKept DEF k
    <2> QED  BY <1>1, <2>5, PageIs DEF PageInv, ChangeElsewhere
<1>2. CASE \E change \in Change : ChangeCategoriesElsewhere(change)
    <2>1. screen = "categories" /\ record \in CategoryTable /\ record' \in CategoryTable
        BY <1>2, PageIs, CategoriesKept DEF ChangeCategoriesElsewhere, Record
    <2>2. record' \in Record(screen)
        BY <2>1 DEF Record
    <2> QED  BY <1>2, <2>2, PageIs DEF PageInv, ChangeCategoriesElsewhere
<1>3. CASE \E to \in Units : ChangeCurrencyElsewhere(to)
    <2>1. unit' \in Units /\ record' \in Record(screen)
        BY <1>3, ChangesKept DEF ChangeCurrencyElsewhere
    <2> QED  BY <1>3, <2>1, PageIs DEF PageInv, ChangeCurrencyElsewhere
<1> QED  BY <1>1, <1>2, <1>3

LEMMA InitKept == PageInit => PageInv
<1> SUFFICES ASSUME PageInit  PROVE PageInv
    OBVIOUS
<1>1. screen \in Pages /\ screen \in Screens
    BY PagesAre DEF PageInit
<1>2. unit \in Units /\ exp = unit /\ unit \in Exponents
    BY RecordPageAssumption DEF PageInit
<1>3. record \in Record(screen)
    <2>1. record \in Openings(screen)
        BY DEF PageInit
    <2> QED  BY <1>1, <2>1 DEF Openings, Record, Pages
<1>4. copy \in CopyOf(screen) /\ fetch \in {Sent} \cup CopyOf(screen)
    BY <1>2, <1>3, CopyIs DEF PageInit, CopyOf, NoFetch, NoCopy
<1>5. form \in FormsOf(screen)
    <2>1. CASE screen = "categories"
        BY <2>1 DEF PageInit, FormsOf, CategoryForm, CategoryBlank
    <2>2. CASE screen # "categories"
        <3>1. PICK editing \in BOOLEAN :
                 form = IF copy # NoCopy /\ (screen = "details" \/ (screen = "budget" /\ Editor(editing, copy)))
                        THEN Filled([Blank EXCEPT !.shown = editing], copy, exp)
                        ELSE [Blank EXCEPT !.shown = editing]
            BY <2>2 DEF PageInit
        <3>2. [Blank EXCEPT !.shown = editing] \in FormsOf(screen)
            BY <1>1, <2>2, BlankKept
        <3>3. copy # NoCopy => Filled([Blank EXCEPT !.shown = editing], copy, exp) \in FormsOf(screen)
            BY <1>1, <1>2, <1>4, <2>2, <3>2, FilledKept
        <3> QED  BY <3>1, <3>2, <3>3
    <2> QED  BY <2>1, <2>2
<1>6. calls \in [CallIds -> CallsOf(screen)] /\ work \in {0, 1}
    <2>1. Free \in CallsOf(screen)
        BY DEF CallsOf
    <2>2. CASE calls = [c \in CallIds |-> Free] /\ work = 0
        BY <2>1, <2>2
    <2>3. CASE screen # "categories" /\ work = 1 /\ \E c \in CallIds, to \in Units \ {unit} :
             calls = [d \in CallIds |->
                        IF d = c THEN [op |-> "currency", phase |-> "sent", to |-> to] ELSE Free]
        <3>1. \A to \in Units : [op |-> "currency", phase |-> "sent", to |-> to] \in CallsOf(screen)
            BY <2>3 DEF CallsOf, SettingsCalls
        <3> QED  BY <2>1, <2>3, <3>1
    <2> QED  BY <2>2, <2>3 DEF PageInit
<1>7. work \in 0..MaxWork[screen] /\ behind = {}
    BY <1>1, <1>6, RecordPageAssumption DEF PageInit
<1> QED  BY <1>1, <1>2, <1>3, <1>4, <1>5, <1>6, <1>7 DEF PageInv

LEMMA StepKept == PageInv /\ [PageNext]_pageVars => PageInv'
<1> SUFFICES ASSUME PageInv, [PageNext]_pageVars  PROVE PageInv'
    OBVIOUS
<1>1. CASE FetchRecord \/ ServeFetch
    BY <1>1, FetchKept
<1>2. CASE ArriveFetch \/ LoseFetch
    BY <1>2, FetchEndKept
<1>3. CASE OpenDetails \/ OpenRule \/ OpenOccurrence \/ OpenBudget
    BY <1>3, OpenKept
<1>4. CASE EditDetails \/ EditRule \/ EditOccurrence \/ EditBudget
    BY <1>4, EditKept
<1>5. CASE EditCategory \/ ToastFades
    BY <1>5, EditCategoryKept, ToastFadesKept
<1>6. ASSUME NEW c \in CallIds,
             \/ FetchSettings(c) \/ ServeSettings(c) \/ ArriveSettings(c)
             \/ ServeCurrency(c) \/ ArriveCurrency(c)
      PROVE  PageInv'
    BY <1>6, SettingsKept, ArriveSettingsKept, ServeCurrencyKept
<1>7. ASSUME NEW c \in CallIds, \E op \in Presses : Press(c, op)  PROVE PageInv'
    BY <1>7, PressKept
<1>8. ASSUME NEW c \in CallIds,
             \/ SaveDetails(c) \/ SaveRule(c) \/ SaveOccurrence(c) \/ SaveBudget(c)
      PROVE  PageInv'
    BY <1>8, SaveKept
<1>9. ASSUME NEW c \in CallIds, SaveCategory(c) \/ \E change \in Change : PressCategory(c, change)
      PROVE  PageInv'
    BY <1>9, CategoryCallsKept
<1>10. ASSUME NEW c \in CallIds, Serve(c) \/ Arrive(c) \/ Settle(c)  PROVE PageInv'
    BY <1>10, ServeKept, ArriveKept, SettleKept
<1>11. ASSUME NEW c \in CallIds, Lose(c) \/ LoseLocation(c)  PROVE PageInv'
    BY <1>11, LoseKept
<1>12. CASE \/ ChangeElsewhere
            \/ \E change \in Change : ChangeCategoriesElsewhere(change)
            \/ \E to \in Units : ChangeCurrencyElsewhere(to)
    BY <1>12, ElsewhereKept
<1>13. CASE UNCHANGED pageVars
    BY <1>13 DEF PageInv, pageVars
<1> QED  BY <1>1, <1>2, <1>3, <1>4, <1>5, <1>6, <1>7, <1>8, <1>9, <1>10, <1>11, <1>12, <1>13
         DEF PageNext

\* The pages are well typed: whatever is pressed, typed, answered or lost, a record
\* has an amount, the order of the categories names every active one once, and a call
\* holds what its answer will be read for.
THEOREM PagesWellTyped == PageSpec => []PageTypeOK
<1>1. PageSpec => []PageInv
    BY InitKept, StepKept, PTL DEF PageSpec
<1> QED  BY <1>1, TypingFollows, PTL

-----------------------------------------------------------------------------
(* What is still to come *)

\* These bring the record: their end starts a fetch.
Brings(k) ==
    \/ k.op \in Ops /\ k.phase = "answered" /\ k.ok
    \/ k.op = "currency" /\ k.phase = "answered"
    \/ k.op = "refresh"

\* The page has the record of the server, or what it fetches is that, or a fetch is on
\* its way that the server has not answered, or one will be started.
RecordComes ==
    "record" \notin behind =>
        \/ \E c \in CallIds : Brings(calls[c])
        \/ fetch = Sent
        \/ fetch # NoFetch /\ fetch # Sent /\ fetch.value = record /\ ~fetch.failed
        \/ fetch = NoFetch /\ Showing /\ copy.value = record

Told(k) == k.op \in {"settings", "refresh"} /\ k.phase = "answered"

Asks(k) == \/ k.op = "currency" /\ k.phase = "answered"
           \/ k.op = "refresh" /\ k.phase = "sent"

\* The page has the currency of the server, or it will be told and by none of the
\* answers on their way another one, or it will ask.
SettingsCome ==
    "settings" \notin behind =>
        \/ \E c \in CallIds : Asks(calls[c])
        \/ /\ \A c \in CallIds : Told(calls[c]) => calls[c].unit = unit
           /\ exp = unit \/ \E c \in CallIds : Told(calls[c])

\* Changes are made from what the page has shown.
Opened ==
    copy = NoCopy => ~form.toast /\ \A c \in CallIds : calls[c].op \notin Ops

ComesInv == PageInv /\ RecordComes /\ SettingsCome /\ Opened

LEMMA RecordSame ==
    ASSUME RecordComes, UNCHANGED <<record, copy, fetch>>,
           "record" \in behind => "record" \in behind',
           \A c \in CallIds : Brings(calls[c]) => Brings(calls'[c])
    PROVE  RecordComes'
BY DEF RecordComes, Showing

LEMMA RecordBrought ==
    ASSUME \/ \E c \in CallIds : Brings(calls'[c])
           \/ fetch' = Sent
           \/ "record" \in behind'
    PROVE  RecordComes'
BY DEF RecordComes

LEMMA SettingsSame ==
    ASSUME SettingsCome, UNCHANGED <<unit, exp>>,
           "settings" \in behind => "settings" \in behind',
           \A c \in CallIds : \/ calls'[c] = calls[c]
                              \/ /\ ~Told(calls[c]) /\ ~Asks(calls[c])
                                 /\ ~Told(calls'[c]) /\ ~Asks(calls'[c])
    PROVE  SettingsCome'
BY DEF SettingsCome

LEMMA StillOpened ==
    ASSUME Opened, copy' = NoCopy => copy = NoCopy,
           form'.toast => form.toast \/ copy # NoCopy,
           copy # NoCopy \/ \A c \in CallIds : calls'[c].op \in Ops => \E d \in CallIds : calls[d].op \in Ops
    PROVE  Opened'
BY DEF Opened

\* The calls of changes, and none, say nothing about the settings.
LEMMA NothingSaid ==
    ASSUME NEW k, k.op \in Ops \cup {"free"}
    PROVE  ~Told(k) /\ ~Asks(k) /\ (k.phase # "answered" => ~Brings(k))
BY OpsAre DEF Told, Asks, Brings, Pages, Ops, Presses, Saves, CategoryOps, Actions

LEMMA FreeSays == ~Told(Free) /\ ~Asks(Free) /\ ~Brings(Free) /\ Free.op \notin Ops
BY DEF Free, Told, Asks, Brings, Ops, Presses, Saves, CategoryOps, Actions

LEMMA CallsAt ==
    ASSUME PageInv, NEW c \in CallIds, NEW k, calls' = [calls EXCEPT ![c] = k]
    PROVE  calls'[c] = k /\ \A d \in CallIds : d # c => calls'[d] = calls[d]
BY DEF PageInv

LEMMA FormStepComes ==
    ASSUME ComesInv,
           \/ OpenDetails \/ OpenRule \/ OpenOccurrence \/ OpenBudget
           \/ EditDetails \/ EditRule \/ EditOccurrence \/ EditBudget \/ EditCategory \/ ToastFades
    PROVE  RecordComes' /\ SettingsCome' /\ Opened'
<1>1. UNCHANGED <<unit, record, exp, copy, calls, fetch, behind>>
    BY DEF OpenDetails, OpenRule, OpenOccurrence, OpenBudget, EditDetails, EditRule, EditOccurrence,
           EditBudget, EditCategory, ToastFades, FormOnly
<1>2. form'.toast => form.toast \/ copy # NoCopy
    <2>1. CASE OpenDetails \/ OpenRule \/ OpenOccurrence \/ EditDetails \/ EditRule \/ EditOccurrence
               \/ EditBudget \/ EditCategory
        BY <2>1 DEF OpenDetails, OpenRule, OpenOccurrence, EditDetails, EditRule, EditOccurrence,
                    EditBudget, EditCategory, Shown, Showing, Editor
    <2>2. CASE OpenBudget
        <3>1. PageInv /\ screen # "categories"
            BY <2>2 DEF ComesInv, OpenBudget
        <3>2. [form EXCEPT !.shown = TRUE] \in FormsOf(screen)
            BY <3>1, FormFieldsKept DEF NoCall
        <3>3. form \in Form
            BY <3>1, PageIs, FormIs
        <3>4. [form EXCEPT !.shown = TRUE].toast = form.toast
            BY <3>3 DEF Form
        <3> QED  BY <2>2, <3>2, <3>4, PageIs, ReactingKept DEF ComesInv, OpenBudget, FormOnly
    <2>3. CASE ToastFades
        BY <2>3 DEF ToastFades
    <2> QED  BY <2>1, <2>2, <2>3
<1>3. RecordComes'
    BY <1>1, RecordSame DEF ComesInv
<1>4. SettingsCome'
    BY <1>1, SettingsSame DEF ComesInv
<1> QED  BY <1>1, <1>2, <1>3, <1>4, StillOpened DEF ComesInv

LEMMA FetchComes ==
    ASSUME ComesInv, FetchRecord \/ ServeFetch \/ ArriveFetch \/ LoseFetch
    PROVE  RecordComes' /\ SettingsCome' /\ Opened'
<1>1. UNCHANGED <<unit, record, exp, calls>> /\ ("settings" \in behind => "settings" \in behind')
    BY DEF FetchRecord, ServeFetch, ArriveFetch, LoseFetch
<1>2. SettingsCome'
    BY <1>1, SettingsSame DEF ComesInv
<1>3. RecordComes'
    <2>1. CASE FetchRecord
        <3>1. fetch' = Sent
            BY <2>1 DEF FetchRecord, Invalidated
        <3> QED  BY <3>1, RecordBrought
    <2>2. CASE ServeFetch
        <3>1. fetch' = Copy(record, unit)
            BY <2>2 DEF ServeFetch
        <3>2. fetch' # NoFetch /\ fetch' # Sent /\ fetch'.value = record' /\ ~fetch'.failed
            BY <1>1, <3>1 DEF Copy, NoFetch, Sent
        <3> QED  BY <3>2 DEF RecordComes
    <2>3. CASE ArriveFetch
        <3>1. /\ copy' = fetch /\ fetch' = NoFetch /\ behind' = behind
              /\ fetch # NoFetch /\ fetch # Sent
            BY <2>3 DEF ArriveFetch, NoFetch, Sent
        <3>2. CASE "record" \in behind \/ \E c \in CallIds : Brings(calls[c])
            BY <1>1, <3>1, <3>2, RecordBrought
        <3>3. CASE fetch.value = record /\ ~fetch.failed
            <4>1. Showing' /\ copy'.value = record'
                BY <1>1, <3>1, <3>3 DEF Showing, NoCopy, NoFetch
            <4> QED  BY <3>1, <4>1 DEF RecordComes
        <3> QED  BY <3>1, <3>2, <3>3 DEF ComesInv, RecordComes
    <2>4. CASE LoseFetch
        BY <2>4, RecordBrought DEF LoseFetch
    <2> QED  BY <2>1, <2>2, <2>3, <2>4
<1>4. Opened'
    <2>1. CASE FetchRecord \/ ServeFetch
        BY <1>1, <2>1, StillOpened DEF ComesInv, FetchRecord, ServeFetch
    <2>2. CASE ArriveFetch \/ LoseFetch
        <3>1. /\ copy' \in CopyOf(screen) /\ (copy' = NoCopy => copy = NoCopy)
              /\ form' = Reacting(form, copy', exp)
            <4>1. CASE ArriveFetch
                BY <4>1, PageIs DEF ComesInv, ArriveFetch, Sent, NoCopy
            <4>2. CASE LoseFetch
                <5>1. copy # NoCopy => /\ [copy EXCEPT !.failed = TRUE] \in CopyOf(screen)
                                       /\ [copy EXCEPT !.failed = TRUE] # NoCopy
                    BY PageIs DEF ComesInv, CopyOf, NoCopy
                <5> QED  BY <4>2, <5>1, PageIs DEF ComesInv, LoseFetch
            <4> QED  BY <2>2, <4>1, <4>2
        <3>2. form'.toast => form.toast
            BY <3>1, PageIs, ReactingKept DEF ComesInv
        <3> QED  BY <1>1, <3>1, <3>2, StillOpened DEF ComesInv
    <2> QED  BY <2>1, <2>2
<1> QED  BY <1>2, <1>3, <1>4

\* A call that is none yet becomes one of a change, of which nothing has come yet.
LEMMA SendComes ==
    ASSUME ComesInv, NEW c \in CallIds, NEW k, k.op \in Ops, k.phase # "answered",
           calls[c] = Free, calls' = [calls EXCEPT ![c] = k],
           copy # NoCopy \/ form.toast,
           UNCHANGED <<unit, record, exp, copy, fetch, behind>>
    PROVE  RecordComes' /\ SettingsCome' /\ Opened'
<1>1. calls'[c] = k /\ \A d \in CallIds : d # c => calls'[d] = calls[d]
    BY CallsAt DEF ComesInv
<1>2. ~Told(Free) /\ ~Asks(Free) /\ ~Brings(Free) /\ ~Told(k) /\ ~Asks(k)
    BY FreeSays, NothingSaid
<1>3. RecordComes'
    BY <1>1, <1>2, RecordSame DEF ComesInv
<1>4. SettingsCome'
    BY <1>1, <1>2, SettingsSame DEF ComesInv
<1>5. copy # NoCopy
    BY DEF ComesInv, Opened
<1> QED  BY <1>3, <1>4, <1>5, StillOpened DEF ComesInv

LEMMA AskingComes ==
    ASSUME ComesInv, NEW c \in CallIds,
           \/ \E op \in Presses : Press(c, op)
           \/ SaveDetails(c) \/ SaveRule(c) \/ SaveOccurrence(c) \/ SaveBudget(c) \/ SaveCategory(c)
           \/ \E change \in Change : PressCategory(c, change)
    PROVE  RecordComes' /\ SettingsCome' /\ Opened'
<1>1. Presses \subseteq Ops /\ Saves \subseteq Ops
    BY DEF Ops
<1>2. CASE \E op \in Presses : Press(c, op)
    <2>1. PICK op \in Presses : Press(c, op)
        BY <1>2
    <2> DEFINE k == [op |-> op, phase |-> "sent"]
    <2>2. k.op \in Ops /\ k.phase # "answered"
        BY <1>1
    <2>3. calls[c] = Free /\ calls' = [calls EXCEPT ![c] = k] /\ (copy # NoCopy \/ form.toast)
          /\ UNCHANGED <<unit, record, exp, copy, fetch, behind>>
        BY <2>1 DEF Press, Showing
    <2> HIDE DEF k
    <2> QED  BY <2>2, <2>3, SendComes
<1>3. ASSUME NEW op \in Saves, NEW minor, Submit(c, op, minor)
      PROVE  RecordComes' /\ SettingsCome' /\ Opened'
    <2> DEFINE k == [op |-> op, phase |-> "sent", minor |-> minor, switch |-> form.switch, exp |-> exp,
                     meant |-> form.meant, sure |-> form.sure]
    <2>1. k.op \in Ops /\ k.phase # "answered"
        BY <1>1
    <2>2. calls[c] = Free /\ calls' = [calls EXCEPT ![c] = k] /\ copy # NoCopy
          /\ UNCHANGED <<unit, record, exp, copy, fetch, behind>>
        BY <1>3 DEF Submit, Shown, Showing, Editor
    <2> HIDE DEF k
    <2> QED  BY <2>1, <2>2, SendComes
<1>4. CASE SaveDetails(c) \/ SaveRule(c) \/ SaveOccurrence(c) \/ SaveBudget(c)
    <2>1. \E op \in Saves : \E minor : Submit(c, op, minor)
        BY <1>4 DEF SaveDetails, SaveRule, SaveOccurrence, SaveBudget, Saves
    <2> QED  BY <1>3, <2>1
<1>5. ASSUME NEW change, change.op \in CategoryOps, copy # NoCopy, SendChange(c, change)
      PROVE  RecordComes' /\ SettingsCome' /\ Opened'
    <2> DEFINE k == [op |-> change.op, phase |-> "sent", change |-> change]
    <2>1. k.op \in Ops /\ k.phase # "answered"
        BY <1>5 DEF Ops
    <2>2. calls[c] = Free /\ calls' = [calls EXCEPT ![c] = k]
          /\ UNCHANGED <<unit, record, exp, copy, fetch, behind>>
        BY <1>5 DEF SendChange
    <2> HIDE DEF k
    <2> QED  BY <1>5, <2>1, <2>2, SendComes
<1>6. CASE SaveCategory(c)
    <2>1. PICK name \in {"old", "new"} :
             SendChange(c, [op |-> "update", id |-> form.id, label |-> [name |-> name, icon |-> form.icon]])
        BY <1>6 DEF SaveCategory
    <2>2. "update" \in CategoryOps /\ copy # NoCopy
        BY <1>6 DEF SaveCategory, Showing, CategoryOps, Actions
    <2> QED  BY <1>5, <2>1, <2>2
<1>7. CASE \E change \in Change : PressCategory(c, change)
    <2>1. \A change \in Change : change.op \in CategoryOps
        BY DEF Change, CategoryOps, Actions
    <2> QED  BY <1>5, <1>7, <2>1 DEF PressCategory, Showing
<1> QED  BY <1>2, <1>4, <1>6, <1>7

LEMMA SettingsStepComes ==
    ASSUME ComesInv, NEW c \in CallIds,
           FetchSettings(c) \/ ServeSettings(c) \/ ArriveSettings(c)
    PROVE  RecordComes' /\ SettingsCome' /\ Opened'
<1>1. /\ \A d \in CallIds : d # c => calls'[d] = calls[d]
      /\ FetchSettings(c) => calls'[c] = [op |-> "settings", phase |-> "sent"]
      /\ ServeSettings(c) => calls'[c] = [op |-> calls[c].op, phase |-> "answered", unit |-> unit]
      /\ ArriveSettings(c) => calls'[c] = Free
    BY CallsAt DEF ComesInv, FetchSettings, ServeSettings, ArriveSettings
<1>2. UNCHANGED <<unit, record, copy>>
    BY DEF FetchSettings, ServeSettings, ArriveSettings
<1>3. calls'[c].op \notin Ops
    BY <1>1, FreeSays, OpsAre DEF FetchSettings, ServeSettings, Pages
<1>4. Opened'
    <2>1. form'.toast => form.toast
        <3>1. ArriveSettings(c) => exp' \in Units /\ form' = Reacting(form, copy, exp')
            BY PageIs, CallIs DEF ComesInv, ArriveSettings
        <3> QED  BY <3>1, PageIs, ReactingKept DEF ComesInv, FetchSettings, ServeSettings
    <2> QED  BY <1>1, <1>2, <1>3, <2>1, StillOpened DEF ComesInv
<1>5. CASE FetchSettings(c)
    <2>1. ~Told(calls'[c]) /\ ~Asks(calls'[c])
        BY <1>1, <1>5 DEF Told, Asks
    <2>2. calls[c] = Free
        BY <1>5 DEF FetchSettings
    <2>3. UNCHANGED <<exp, fetch, behind>>
        BY <1>5 DEF FetchSettings
    <2>4. RecordComes'
        BY <1>1, <1>2, <2>2, <2>3, FreeSays, RecordSame DEF ComesInv
    <2>5. SettingsCome'
        BY <1>1, <1>2, <2>1, <2>2, <2>3, FreeSays, SettingsSame DEF ComesInv
    <2> QED  BY <1>4, <2>4, <2>5
<1>6. CASE ServeSettings(c)
    <2>1. Brings(calls[c]) => Brings(calls'[c])
        <3>1. calls[c].op \in {"settings", "refresh"} /\ calls'[c].op = calls[c].op
            BY <1>1, <1>6 DEF ServeSettings
        <3>2. calls[c].op = "settings" => ~Brings(calls[c])
            BY OpsAre DEF Brings, Pages
        <3> QED  BY <3>1, <3>2 DEF Brings
    <2>2. UNCHANGED <<exp, fetch>> /\ ("record" \in behind => "record" \in behind')
        BY <1>6 DEF ServeSettings
    <2>3. RecordComes'
        BY <1>1, <1>2, <2>1, <2>2, RecordSame DEF ComesInv
    <2>4. Told(calls'[c]) /\ calls'[c].unit = unit
        BY <1>1, <1>6 DEF ServeSettings, Told
    <2>5. \/ "settings" \in behind'
          \/ \A d \in CallIds \ {c} : ~Told(calls[d])
        BY <1>6 DEF ServeSettings, Told
    <2>6. SettingsCome'
        BY <1>1, <1>2, <2>4, <2>5 DEF SettingsCome
    <2> QED  BY <1>4, <2>3, <2>6
<1>7. CASE ArriveSettings(c)
    <2>1. Told(calls[c]) /\ exp' = calls[c].unit /\ ~Asks(calls[c])
        BY <1>7 DEF ArriveSettings, Told, Asks
    <2>2. /\ ~Told(calls'[c]) /\ ~Asks(calls'[c])
          /\ "settings" \in behind => "settings" \in behind'
        BY <1>1, <1>7, FreeSays DEF ArriveSettings
    <2>3. SettingsCome'
        <3>1. CASE "settings" \in behind \/ \E d \in CallIds : Asks(calls[d])
            BY <1>1, <2>1, <2>2, <3>1 DEF SettingsCome
        <3>2. CASE \A d \in CallIds : Told(calls[d]) => calls[d].unit = unit
            <4>1. exp' = unit' /\ \A d \in CallIds : Told(calls'[d]) => calls'[d].unit = unit'
                BY <1>1, <1>2, <2>1, <2>2, <3>2
            <4> QED  BY <4>1 DEF SettingsCome
        <3> QED  BY <3>1, <3>2 DEF ComesInv, SettingsCome
    <2>4. RecordComes'
        <3>1. CASE calls[c].op = "refresh"
            <4>1. fetch' = Sent \/ "record" \in behind'
                BY <1>7, <3>1 DEF ArriveSettings, Invalidated
            <4> QED  BY <4>1, RecordBrought
        <3>2. CASE calls[c].op = "settings"
            <4>1. ~Brings(calls[c]) /\ UNCHANGED <<fetch, behind>>
                BY <1>7, <3>2, OpsAre DEF ArriveSettings, Brings, Pages
            <4> QED  BY <1>1, <1>2, <4>1, RecordSame DEF ComesInv
        <3> QED  BY <1>7, <3>1, <3>2 DEF ArriveSettings
    <2> QED  BY <1>4, <2>3, <2>4
<1> QED  BY <1>5, <1>6, <1>7

LEMMA CurrencyComes ==
    ASSUME ComesInv, NEW c \in CallIds, ServeCurrency(c) \/ ArriveCurrency(c)
    PROVE  RecordComes' /\ SettingsCome' /\ Opened'
<1>1. calls[c].op = "currency" /\ UNCHANGED <<exp, copy, form, fetch>>
    BY DEF ServeCurrency, ArriveCurrency
<1>2. /\ \A d \in CallIds : d # c => calls'[d] = calls[d]
      /\ calls'[c] \in {Free, [op |-> "currency", phase |-> "answered"], [op |-> "refresh", phase |-> "sent"]}
    BY CallsAt DEF ComesInv, ServeCurrency, ArriveCurrency
<1>3. Opened'
    <2>1. calls'[c].op \notin Ops
        BY <1>2, FreeSays, OpsAre DEF Pages
    <2> QED  BY <1>1, <1>2, <2>1, StillOpened DEF ComesInv
<1>4. CASE \E k \in {[op |-> "currency", phase |-> "answered"], [op |-> "refresh", phase |-> "sent"]} :
              calls'[c] = k
    <2>1. Brings(calls'[c]) /\ Asks(calls'[c])
        BY <1>4 DEF Brings, Asks
    <2> QED  BY <1>3, <2>1 DEF RecordComes, SettingsCome
<1>5. CASE calls'[c] = Free
    <2>1. calls[c].phase # "answered" /\ ServeCurrency(c)
        <3>1. [op |-> "refresh", phase |-> "sent"] # Free
            BY DEF Free
        <3>2. ~ArriveCurrency(c)
            BY <1>5, <3>1, CallsAt DEF ComesInv, ArriveCurrency
        <3> QED  BY <3>2 DEF ServeCurrency
    <2>2. ~Brings(calls[c]) /\ ~Told(calls[c]) /\ ~Asks(calls[c])
        BY <1>1, <2>1, OpsAre DEF Brings, Told, Asks, Pages
    <2>3. CASE UNCHANGED <<unit, record, behind>>
        <3>1. RecordComes'
            BY <1>1, <1>2, <2>2, <2>3, RecordSame DEF ComesInv
        <3>2. SettingsCome'
            BY <1>1, <1>2, <1>5, <2>2, <2>3, FreeSays, SettingsSame DEF ComesInv
        <3> QED  BY <1>3, <3>1, <3>2
    <2>4. CASE behind' = {"record", "settings"}
        BY <1>3, <2>4 DEF RecordComes, SettingsCome
    <2>5. [op |-> "currency", phase |-> "answered"] # Free
        BY DEF Free
    <2>6. UNCHANGED <<unit, record, behind>> \/ behind' = {"record", "settings"}
        BY <1>5, <2>1, <2>5, CallsAt DEF ComesInv, ServeCurrency
    <2> QED  BY <2>3, <2>4, <2>6
<1> QED  BY <1>2, <1>4, <1>5

LEMMA ServeComes ==
    ASSUME ComesInv, NEW c \in CallIds, Serve(c)
    PROVE  RecordComes' /\ SettingsCome' /\ Opened'
<1>1. calls[c].op \in Ops /\ calls[c].phase \in {"sent", "orphan"} /\ UNCHANGED <<unit, exp, copy, form, fetch>>
    BY DEF Serve
<1>2. \A d \in CallIds : d # c => calls'[d] = calls[d]
    BY CallsAt DEF ComesInv, Serve
<1>3. calls'[c].op \in {"free", calls[c].op}
    BY CallsAt DEF ComesInv, Serve, Free
<1>4. ~Told(calls[c]) /\ ~Asks(calls[c]) /\ ~Brings(calls[c]) /\ ~Told(calls'[c]) /\ ~Asks(calls'[c])
    BY <1>1, <1>3, NothingSaid
<1>5. "settings" \in behind => "settings" \in behind'
    BY DEF Serve
<1>6. SettingsCome'
    BY <1>1, <1>2, <1>4, <1>5, SettingsSame DEF ComesInv
<1>7. Opened'
    BY <1>1, <1>2, <1>3, StillOpened DEF ComesInv
<1>8. RecordComes'
    <2>1. CASE UNCHANGED <<record, behind>>
        BY <1>1, <1>2, <1>4, <2>1, RecordSame DEF ComesInv
    <2>2. CASE calls[c].phase = "orphan" /\ behind' = behind \cup {"record"}
        BY <2>2, RecordBrought
    <2>3. CASE /\ calls[c].phase # "orphan"
               /\ \E q : calls' = [calls EXCEPT ![c] =
                             [op |-> calls[c].op, phase |-> "answered", ok |-> TRUE, copy |-> q]]
        <3>1. PICK q : calls' = [calls EXCEPT ![c] =
                             [op |-> calls[c].op, phase |-> "answered", ok |-> TRUE, copy |-> q]]
            BY <2>3
        <3>2. calls'[c] = [op |-> calls[c].op, phase |-> "answered", ok |-> TRUE, copy |-> q]
            BY <3>1, CallsAt DEF ComesInv
        <3>3. Brings(calls'[c])
            BY <1>1, <3>2 DEF Brings
        <3> QED  BY <3>3, RecordBrought
    <2>4. \/ UNCHANGED <<record, behind>>
          \/ calls[c].phase = "orphan" /\ behind' = behind \cup {"record"}
          \/ /\ calls[c].phase # "orphan"
             /\ calls' = [calls EXCEPT ![c] =
                   [op |-> calls[c].op, phase |-> "answered", ok |-> TRUE,
                    copy |-> IF TRUE /\ screen = "details" THEN Copy(record', unit) ELSE NoCopy]]
        BY DEF Serve
    <2> QED  BY <2>1, <2>2, <2>3, <2>4
<1> QED  BY <1>6, <1>7, <1>8

LEMMA ArriveComes ==
    ASSUME ComesInv, NEW c \in CallIds, Arrive(c)
    PROVE  RecordComes' /\ SettingsCome' /\ Opened'
<1>1. /\ calls[c].op \in Ops /\ calls[c].phase = "answered"
      /\ UNCHANGED <<unit, record, exp, behind>>
    BY DEF Arrive
<1>2. copy # NoCopy
    BY <1>1 DEF ComesInv, Opened
<1>3. /\ \A d \in CallIds : d # c => calls'[d] = calls[d]
      /\ calls'[c] \in {Free, [op |-> calls[c].op, phase |-> "refreshing"]}
    BY CallsAt DEF ComesInv, Arrive
<1>4. calls'[c].op \in {"free", calls[c].op}
    BY <1>3 DEF Free
<1>5. ~Told(calls[c]) /\ ~Asks(calls[c]) /\ ~Told(calls'[c]) /\ ~Asks(calls'[c])
    BY <1>1, <1>4, NothingSaid
<1>6. SettingsCome'
    BY <1>1, <1>3, <1>5, SettingsSame DEF ComesInv
<1>7. RecordComes'
    <2>1. CASE calls[c].ok
        <3>1. fetch' = Sent
            BY <1>2, <2>1 DEF Arrive, Invalidated
        <3> QED  BY <3>1, RecordBrought
    <2>2. CASE ~calls[c].ok
        <3>1. ~Brings(calls[c]) /\ UNCHANGED <<copy, fetch>>
            BY <1>1, <2>2, OpsAre DEF Arrive, Brings, Pages
        <3> QED  BY <1>1, <1>3, <3>1, RecordSame DEF ComesInv
    <2> QED  BY <2>1, <2>2
<1>8. Opened'
    <2>1. copy' # NoCopy
        BY <1>1, <1>2, PageIs, CallIs DEF ComesInv, Arrive
    <2> QED  BY <2>1 DEF Opened
<1> QED  BY <1>6, <1>7, <1>8

LEMMA SettleComes ==
    ASSUME ComesInv, NEW c \in CallIds, Settle(c)
    PROVE  RecordComes' /\ SettingsCome' /\ Opened'
<1>1. calls[c].phase = "refreshing" /\ UNCHANGED <<unit, record, exp, copy, fetch, behind>>
    BY DEF Settle
<1>2. calls[c].op \in Ops
    BY <1>1, PageIs, CallIs DEF ComesInv
<1>3. calls'[c] = Free /\ \A d \in CallIds : d # c => calls'[d] = calls[d]
    BY CallsAt DEF ComesInv, Settle
<1>4. ~Told(calls[c]) /\ ~Asks(calls[c]) /\ ~Brings(calls[c])
    BY <1>1, <1>2, NothingSaid
<1>5. RecordComes'
    BY <1>1, <1>3, <1>4, RecordSame DEF ComesInv
<1>6. SettingsCome'
    BY <1>1, <1>3, <1>4, FreeSays, SettingsSame DEF ComesInv
<1>7. Opened'
    BY <1>1, <1>2 DEF ComesInv, Opened
<1> QED  BY <1>5, <1>6, <1>7

LEMMA LoseComes ==
    ASSUME ComesInv, NEW c \in CallIds, Lose(c) \/ LoseLocation(c)
    PROVE  RecordComes' /\ SettingsCome' /\ Opened'
<1>1. UNCHANGED <<unit, record, exp, copy, form, fetch>> /\ behind \subseteq behind'
    BY DEF Lose, LoseLocation
<1>2. /\ calls[c].op \in {"settings", "refresh"} => Orphaned(calls[c]) = Free
      /\ Orphaned(calls[c]).op \in {"free", calls[c].op}
      /\ Orphaned(calls[c]).phase # "answered"
    BY PageIs, CallIs DEF ComesInv, Orphaned, Free
<1>3. ~Told(Orphaned(calls[c])) /\ ~Asks(Orphaned(calls[c]))
    BY <1>2, FreeSays DEF Told, Asks
<1>4. CASE Lose(c)
    <2>1. calls'[c] = Orphaned(calls[c]) /\ \A d \in CallIds : d # c => calls'[d] = calls[d]
        BY <1>4, CallsAt DEF ComesInv, Lose
    <2>2. \/ "record" \in behind'
          \/ ~Brings(calls[c])
        BY <1>4, PageIs, CallIs DEF ComesInv, Lose, Brings
    <2>3. \/ "settings" \in behind'
          \/ ~Told(calls[c]) /\ ~Asks(calls[c])
        BY <1>4, OpsAre DEF Lose, Told, Asks, Pages
    <2>4. RecordComes'
        BY <1>1, <2>1, <2>2, RecordSame, RecordBrought DEF ComesInv
    <2>5. SettingsCome'
        <3>1. CASE "settings" \in behind'
            BY <3>1 DEF SettingsCome
        <3>2. CASE ~Told(calls[c]) /\ ~Asks(calls[c])
            BY <1>1, <1>3, <2>1, <3>2, SettingsSame DEF ComesInv
        <3> QED  BY <2>3, <3>1, <3>2
    <2>6. Opened'
        <3>1. calls'[c].op \in Ops => calls[c].op \in Ops
            BY <1>2, <2>1, OpsAre DEF Pages
        <3> QED  BY <1>1, <2>1, <3>1, StillOpened DEF ComesInv
    <2> QED  BY <2>4, <2>5, <2>6
<1>5. CASE LoseLocation(c)
    <2> DEFINE k == [op |-> "noLocation", phase |-> "sent"]
    <2>1. PICK d \in CallIds :
             /\ d = c \/ calls[d] = Free
             /\ calls' = [calls EXCEPT ![d] = Orphaned(calls[c]), ![c] = k]
        BY <1>5 DEF LoseLocation
    <2>2. calls[c].op = "locate" /\ calls[c].op \in Ops /\ k.op \in Ops /\ k.phase = "sent"
        BY <1>5 DEF LoseLocation, Ops, Presses
    <2> HIDE DEF k
    <2>3. /\ calls'[c] = k /\ calls'[d] \in {k, Orphaned(calls[c])}
          /\ \A b \in CallIds : b # c /\ b # d => calls'[b] = calls[b]
        BY <2>1, PageIs DEF ComesInv
    <2>4. /\ ~Told(calls[c]) /\ ~Asks(calls[c]) /\ ~Told(calls[d]) /\ ~Asks(calls[d])
          /\ ~Told(calls'[c]) /\ ~Asks(calls'[c]) /\ ~Told(calls'[d]) /\ ~Asks(calls'[d])
        BY <1>3, <2>1, <2>2, <2>3, FreeSays, NothingSaid
    <2>5. SettingsCome'
        BY <1>1, <2>3, <2>4, SettingsSame DEF ComesInv
    <2>6. \/ "record" \in behind'
          \/ ~Brings(calls[c]) /\ ~Brings(calls[d])
        BY <1>5, <2>1, <2>2, FreeSays, OpsAre DEF LoseLocation, Brings, Pages
    <2>7. RecordComes'
        BY <1>1, <2>3, <2>6, RecordSame, RecordBrought DEF ComesInv
    <2>8. Opened'
        BY <1>1, <2>2, StillOpened DEF ComesInv
    <2> QED  BY <2>5, <2>7, <2>8
<1> QED  BY <1>4, <1>5

LEMMA ElsewhereComes ==
    ASSUME ComesInv,
           \/ ChangeElsewhere
           \/ \E change \in Change : ChangeCategoriesElsewhere(change)
           \/ \E to \in Units : ChangeCurrencyElsewhere(to)
    PROVE  RecordComes' /\ SettingsCome' /\ Opened'
<1>1. "record" \in behind' /\ UNCHANGED <<exp, copy, form, calls, fetch>>
    BY DEF ChangeElsewhere, ChangeCategoriesElsewhere, ChangeCurrencyElsewhere
<1>2. \/ "settings" \in behind'
      \/ unit' = unit /\ behind \subseteq behind'
    BY DEF ChangeElsewhere, ChangeCategoriesElsewhere, ChangeCurrencyElsewhere
<1>3. RecordComes'
    BY <1>1, RecordBrought
<1>4. SettingsCome'
    <2>1. CASE "settings" \in behind'
        BY <2>1 DEF SettingsCome
    <2>2. CASE unit' = unit /\ behind \subseteq behind'
        BY <1>1, <2>2, SettingsSame DEF ComesInv
    <2> QED  BY <1>2, <2>1, <2>2
<1>5. Opened'
    BY <1>1, StillOpened DEF ComesInv
<1> QED  BY <1>3, <1>4, <1>5

LEMMA InitComes == PageInit => ComesInv
<1> SUFFICES ASSUME PageInit  PROVE ComesInv
    OBVIOUS
<1>1. PageInv
    BY InitKept
<1>2. \A c \in CallIds : ~Told(calls[c]) /\ ~Asks(calls[c]) /\ calls[c].op \notin Ops
    <2>1. \A c \in CallIds : calls[c] = Free \/ (calls[c].op = "currency" /\ calls[c].phase = "sent")
        BY DEF PageInit
    <2> QED  BY <2>1, FreeSays, OpsAre DEF Told, Asks, Pages
<1>3. RecordComes
    <2>1. CASE fetch = Sent
        BY <2>1 DEF RecordComes
    <2>2. CASE copy = Copy(record, unit) /\ fetch = NoFetch
        <3>1. Showing /\ copy.value = record
            BY <2>2 DEF Showing, Copy, NoCopy
        <3> QED  BY <2>2, <3>1 DEF RecordComes
    <2> QED  BY <2>1, <2>2 DEF PageInit
<1>4. SettingsCome
    BY <1>2 DEF PageInit, SettingsCome
<1>5. Opened
    <2>1. CASE screen = "categories"
        <3>1. ~form.toast
            BY <2>1 DEF PageInit, CategoryBlank
        <3> QED  BY <1>2, <3>1 DEF Opened
    <2>2. CASE screen # "categories" /\ copy = NoCopy
        <3>1. PICK editing \in BOOLEAN : form = [Blank EXCEPT !.shown = editing]
            BY <2>2 DEF PageInit
        <3>2. ~form.toast
            BY <3>1 DEF Blank
        <3> QED  BY <1>2, <3>2 DEF Opened
    <2> QED  BY <2>1, <2>2 DEF Opened
<1> QED  BY <1>1, <1>3, <1>4, <1>5 DEF ComesInv

LEMMA StepComes == ComesInv /\ [PageNext]_pageVars => ComesInv'
<1> SUFFICES ASSUME ComesInv, [PageNext]_pageVars  PROVE ComesInv'
    OBVIOUS
<1>1. PageInv'
    BY StepKept DEF ComesInv
<1>2. CASE FetchRecord \/ ServeFetch \/ ArriveFetch \/ LoseFetch
    BY <1>1, <1>2, FetchComes DEF ComesInv
<1>3. CASE \/ OpenDetails \/ OpenRule \/ OpenOccurrence \/ OpenBudget
           \/ EditDetails \/ EditRule \/ EditOccurrence \/ EditBudget \/ EditCategory \/ ToastFades
    BY <1>1, <1>3, FormStepComes DEF ComesInv
<1>4. ASSUME NEW c \in CallIds, FetchSettings(c) \/ ServeSettings(c) \/ ArriveSettings(c)  PROVE ComesInv'
    BY <1>1, <1>4, SettingsStepComes DEF ComesInv
<1>5. ASSUME NEW c \in CallIds, ServeCurrency(c) \/ ArriveCurrency(c)  PROVE ComesInv'
    BY <1>1, <1>5, CurrencyComes DEF ComesInv
<1>6. ASSUME NEW c \in CallIds,
             \/ \E op \in Presses : Press(c, op)
             \/ SaveDetails(c) \/ SaveRule(c) \/ SaveOccurrence(c) \/ SaveBudget(c) \/ SaveCategory(c)
             \/ \E change \in Change : PressCategory(c, change)
      PROVE  ComesInv'
    BY <1>1, <1>6, AskingComes DEF ComesInv
<1>7. ASSUME NEW c \in CallIds, Serve(c) \/ Arrive(c) \/ Settle(c)  PROVE ComesInv'
    BY <1>1, <1>7, ServeComes, ArriveComes, SettleComes DEF ComesInv
<1>8. ASSUME NEW c \in CallIds, Lose(c) \/ LoseLocation(c)  PROVE ComesInv'
    BY <1>1, <1>8, LoseComes DEF ComesInv
<1>9. CASE \/ ChangeElsewhere
           \/ \E change \in Change : ChangeCategoriesElsewhere(change)
           \/ \E to \in Units : ChangeCurrencyElsewhere(to)
    BY <1>1, <1>9, ElsewhereComes DEF ComesInv
<1>10. CASE UNCHANGED pageVars
    BY <1>1, <1>10 DEF ComesInv, pageVars, RecordComes, SettingsCome, Opened, Showing
<1> QED  BY <1>2, <1>3, <1>4, <1>5, <1>6, <1>7, <1>8, <1>9, <1>10 DEF PageNext

LEMMA QuietFollows == ComesInv => QuietPageIsCurrent
<1> SUFFICES ASSUME ComesInv, \A c \in CallIds : calls[c] = Free, fetch = NoFetch, behind = {}
             PROVE  Showing /\ View(copy.value, exp) = View(record, unit)
    BY DEF QuietPageIsCurrent
<1>1. Showing /\ copy.value = record
    BY FreeSays DEF ComesInv, RecordComes, NoFetch, Sent
<1>2. exp = unit
    BY FreeSays DEF ComesInv, SettingsCome
<1> QED  BY <1>1, <1>2

\* A page on which nothing is under way, and that has been told of every change, shows
\* the record that is stored, in the currency of the server, however many calls have
\* overlapped and in whatever order they were answered.
THEOREM QuietPagesAreCurrent == PageSpec => []QuietPageIsCurrent
<1>1. PageSpec => []ComesInv
    BY InitComes, StepComes, PTL DEF PageSpec
<1> QED  BY <1>1, QuietFollows, PTL

-----------------------------------------------------------------------------
(* What is saved *)

\* The amount of a record after a save that has changed it.
LEMMA SavedIs ==
    ASSUME PageInv, screen # "categories", NEW k \in RequestsOf(screen), k.op \in Saves,
           After(record, k) # record
    PROVE  After(record, k).minor = k.minor
<1>1. k.op \in OpsOf(screen) /\ screen \in Pages /\ record \in Record(screen)
    BY PageIs, RequestIs
<1>2. CASE screen = "details"
    BY <1>1, <1>2 DEF After, TransactionAfter, OpsOf, Saves, Record, Transaction
<1>3. CASE screen = "rule"
    BY <1>1, <1>3 DEF After, RuleAfter, OpsOf, Saves, Record, Rule
<1>4. CASE screen = "occurrence"
    BY <1>1, <1>4 DEF After, OccurrenceAfter, OpsOf, Saves, Record, Occurrence
<1>5. CASE screen = "budget"
    BY <1>1, <1>5 DEF After
<1>6. screen # "settlements"
    BY <1>1 DEF OpsOf, Saves
<1> QED  BY <1>1, <1>2, <1>3, <1>4, <1>5, <1>6 DEF Pages

\* Only the server's handling of a call changes both the call and the record.
LEMMA ChangesAtOnce ==
    ASSUME PageInv, [PageNext]_pageVars, NEW c \in CallIds, calls[c].op \in Saves,
           calls'[c] # calls[c], record' # record
    PROVE  Serve(c)
<1>1. ASSUME NEW d \in CallIds, Serve(d)  PROVE Serve(c)
    <2>1. \A b \in CallIds : b # d => calls'[b] = calls[b]
        BY <1>1, CallsAt DEF Serve
    <2> QED  BY <1>1, <2>1
<1>2. ASSUME NEW d \in CallIds, ServeCurrency(d)  PROVE FALSE
    <2>1. \A b \in CallIds : b # d => calls'[b] = calls[b]
        BY <1>2, CallsAt DEF ServeCurrency
    <2>2. calls[d].op \notin Saves
        BY <1>2 DEF ServeCurrency, Saves
    <2> QED  BY <2>1, <2>2
<1>3. ~ChangeElsewhere /\ ~UNCHANGED pageVars
      /\ (\A change : ~ChangeCategoriesElsewhere(change)) /\ \A to : ~ChangeCurrencyElsewhere(to)
    BY DEF ChangeElsewhere, ChangeCategoriesElsewhere, ChangeCurrencyElsewhere, pageVars
<1>4. /\ ~FetchRecord /\ ~ServeFetch /\ ~ArriveFetch /\ ~LoseFetch /\ ~ToastFades
      /\ ~OpenDetails /\ ~OpenRule /\ ~OpenOccurrence /\ ~OpenBudget
      /\ ~EditDetails /\ ~EditRule /\ ~EditOccurrence /\ ~EditBudget /\ ~EditCategory
    BY DEF FetchRecord, ServeFetch, ArriveFetch, LoseFetch, ToastFades, OpenDetails, OpenRule,
           OpenOccurrence, OpenBudget, EditDetails, EditRule, EditOccurrence, EditBudget, EditCategory,
           FormOnly
<1>5. ASSUME NEW d \in CallIds
      PROVE  /\ ~FetchSettings(d) /\ ~ServeSettings(d) /\ ~ArriveSettings(d) /\ ~ArriveCurrency(d)
             /\ \A op : ~Press(d, op)
             /\ ~Arrive(d) /\ ~Settle(d) /\ ~Lose(d) /\ ~LoseLocation(d)
    BY DEF FetchSettings, ServeSettings, ArriveSettings, ArriveCurrency, Press, Arrive, Settle, Lose,
           LoseLocation
<1>6. ASSUME NEW d \in CallIds
      PROVE  /\ ~SaveDetails(d) /\ ~SaveRule(d) /\ ~SaveOccurrence(d) /\ ~SaveBudget(d) /\ ~SaveCategory(d)
             /\ \A change : ~PressCategory(d, change)
    BY DEF SaveDetails, SaveRule, SaveOccurrence, SaveBudget, SaveCategory, PressCategory, Submit,
           SendChange
<1> QED  BY <1>1, <1>2, <1>3, <1>4, <1>5, <1>6 DEF PageNext

LEMMA StepAsMeant ==
    ASSUME PageInv, [PageNext]_pageVars, NEW c \in CallIds, calls[c].op \in Saves,
           calls'[c] # calls[c], record' # record,
           calls[c].sure, calls[c].minor # 0, calls[c].exp = unit
    PROVE  SameMajor(MinorToMajorInput(record'.minor, unit), calls[c].meant)
<1>1. Serve(c)
    BY ChangesAtOnce
<1>2. calls[c] \in RequestsOf(screen) /\ screen \in Pages
    BY <1>1, PageIs, CallIs DEF Serve
<1>3. screen # "categories"
    BY <1>2, RequestIs DEF OpsOf, Saves, CategoryOps, Actions
<1>4. record' = After(record, calls[c])
    BY <1>1 DEF Serve
<1>5. record'.minor = calls[c].minor
    BY <1>2, <1>3, <1>4, SavedIs
<1>6. Meant(calls[c])
    BY <1>2, <1>3, RequestIs
<1> QED  BY <1>5, <1>6 DEF Meant

\* A save records the amount that was meant when it was sent.
THEOREM AmountsAreMeant == PageSpec => AmountsAsMeant
<1>1. PageSpec => []PageInv
    BY InitKept, StepKept, PTL DEF PageSpec
<1>2. ASSUME PageInv, [PageNext]_pageVars
      PROVE  [\A c \in CallIds :
                /\ calls[c].op \in Saves /\ calls'[c] # calls[c] /\ record' # record
                /\ calls[c].sure /\ calls[c].minor # 0
                /\ calls[c].exp = unit
                => SameMajor(MinorToMajorInput(record'.minor, unit), calls[c].meant)]_pageVars
    BY <1>2, StepAsMeant
<1> QED  BY <1>1, <1>2, PTL DEF PageSpec, AmountsAsMeant
=============================================================================
