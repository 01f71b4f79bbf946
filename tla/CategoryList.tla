---------------------------- MODULE CategoryList ----------------------------
(***************************************************************************)
(* The categories of one kind: their order, which of them are archived,    *)
(* and the operations on them (internal/service/categories.go and          *)
(* internal/store/category.go).  A name and an icon are one of two.        *)
(***************************************************************************)
EXTENDS Integers, Sequences, FiniteSets

CONSTANT MaxCategories  \* bound: categories there can be, those still to be added included

ASSUME CategoryListAssumption == MaxCategories \in Nat \ {0}

CategoryIds == 1..MaxCategories

Label == [name : {"old", "new"}, icon : {"old", "new"}]

\* Of the positions only the order counts, in which the id breaks a tie.
Orders ==
    {order \in UNION {[1..n -> CategoryIds] : n \in 1..MaxCategories} :
        \A i, j \in DOMAIN order : order[i] = order[j] => i = j}

Active(list) == {list.order[i] : i \in DOMAIN list.order}

Known(list) == Active(list) \cup list.archived

\* Ids are given out in turn.
CategoryTable ==
    {list \in [order : Orders, archived : SUBSET CategoryIds, label : [CategoryIds -> Label]] :
        /\ Active(list) \cap list.archived = {}
        /\ Known(list) = 1..Cardinality(Known(list))}

\* What can be asked for; an update always states both name and icon.
Change ==
    [op : {"reorder"}, order : Orders]
    \cup [op : {"update"}, id : CategoryIds, label : Label]
    \cup [op : {"archive", "restore"}, id : CategoryIds]
    \cup [op : {"add"}]

\* Two neighbours change places.
Moves(order) ==
    {[order EXCEPT ![i] = order[i + 1], ![i + 1] = order[i]] : i \in 1..Len(order) - 1}

\* Within the bound on their number.
CategoryAccepts(list, change) ==
    CASE change.op = "reorder" -> {change.order[i] : i \in DOMAIN change.order} = Active(list)
      [] change.op \in {"update", "restore"} -> change.id \in Known(list)
      [] change.op = "archive" -> change.id \in list.archived
                                  \/ (change.id \in Active(list) /\ Len(list.order) > 1)
      [] change.op = "add" -> Known(list) # CategoryIds

\* Those that follow move up.
Without(order, id) ==
    LET at == CHOOSE i \in DOMAIN order : order[i] = id
    IN  [i \in 1..Len(order) - 1 |-> order[IF i < at THEN i ELSE i + 1]]

\* A new one and one that is restored come last.
CategoryAfter(list, change) ==
    CASE change.op = "reorder" -> [list EXCEPT !.order = change.order]
      [] change.op = "update" -> [list EXCEPT !.label[change.id] = change.label]
      [] change.op = "archive" ->
            IF change.id \in list.archived THEN list
            ELSE [list EXCEPT !.order = Without(@, change.id), !.archived = @ \cup {change.id}]
      [] change.op = "restore" ->
            IF change.id \notin list.archived THEN list
            ELSE [list EXCEPT !.order = Append(@, change.id), !.archived = @ \ {change.id}]
      [] change.op = "add" ->
            [list EXCEPT !.order = Append(@, Cardinality(Known(list)) + 1)]
=============================================================================
