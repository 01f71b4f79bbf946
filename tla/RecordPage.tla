---------------------------- MODULE RecordPage ------------------------------
(***************************************************************************)
(* A page that shows one record and changes it (web/src/features:          *)
(* transactions/TransactionDetails, settlements/SettlementsPage,           *)
(* recurring/RecurringPage, budgets/BudgetsPage and the categories of      *)
(* settings/SettingsPage).                                                 *)
(*                                                                         *)
(* What the page shows is the copy that its query has; what its form holds *)
(* was filled in from a copy, with the currency of the settings of that    *)
(* moment.  Copy and settings are fetched by calls of their own, changes   *)
(* are sent by others, and all of them are answered in any order or not at *)
(* all, while other devices change the record and the currency.            *)
(*                                                                         *)
(* A currency is told by its exponent, and of the fields of a form only    *)
(* the amount and the switch (settlement, limit) are kept.                 *)
(***************************************************************************)
EXTENDS Money, CategoryList

CONSTANTS
    CallIds,     \* bound: calls under way at the same time
    Units,       \* the exponents of the currencies used
    Screens,     \* the pages
    Texts,       \* bound: the amounts a user types, here or on another device
    FirstText,   \* bound: the amount that a record has at first
    MaxWork      \* bound: presses, requests for the settings, changes on other devices

ASSUME RecordPageAssumption ==
    /\ Units \subseteq Exponents /\ Units # {}
    /\ Screens \subseteq {"details", "settlements", "rule", "occurrence", "budget", "categories"}
    /\ Texts \subseteq Text
    /\ FirstText \in Text
    /\ MaxWork \in [Screens -> Nat \ {0}]

VARIABLES
    screen,  \* the page the user is on
    unit,    \* the installation's currency, on the server
    record,  \* the record, on the server
    exp,     \* the currency in the settings the page has
    copy,    \* what the query has
    form,
    calls,
    fetch,   \* the call of the query
    behind,  \* history: what has changed without the page being told
    work

pageVars == <<screen, unit, record, exp, copy, form, calls, fetch, behind, work>>

-----------------------------------------------------------------------------
(* The records, and what each page can do to one *)

Amounts == 1..MaxAmount

Transaction == [minor : Amounts, settlement : {"none", "pending", "completed"},
                location : {"none", "failed", "attached"}, deleted : BOOLEAN]

\* there: it has been created.
Rule == [minor : Amounts, there : BOOLEAN, enabled : BOOLEAN, archived : BOOLEAN]

Occurrence == [minor : Amounts, status : {"pending", "confirmed", "skipped"}]

\* The limit of a month, 0 if there is none.
Budget == [minor : 0..MaxAmount]

Record(s) ==
    CASE s \in {"details", "settlements"} -> Transaction
      [] s = "rule" -> Rule
      [] s = "occurrence" -> Occurrence
      [] s = "budget" -> Budget
      [] s = "categories" -> CategoryTable

NoCall == "none"

Pending(op) == \E c \in CallIds : calls[c].op = op /\ calls[c].phase # "orphan"

\* isPending of a mutation, in terms of its latest call.
Running(c, ops) == c # NoCall /\ calls[c].op \in ops /\ calls[c].phase # "orphan"

\* The buttons below the details.
DetailsOffers(op) ==
    LET t == copy.value IN
    /\ CASE op = "complete" -> ~t.deleted /\ t.settlement = "pending"
         [] op = "reopen" -> ~t.deleted /\ t.settlement = "completed"
         [] op = "unlocate" -> ~t.deleted /\ t.location = "attached"
         [] op = "locate" -> ~t.deleted /\ t.location = "failed"
         [] op = "remove" -> ~t.deleted
         [] op = "restore" -> t.deleted
         [] OTHER -> FALSE
    /\ ~Pending(op)
    /\ op \in {"complete", "reopen"} => ~Pending("complete") /\ ~Pending("reopen")

\* The lists of both states, taken together.
SettlementOffers(op) ==
    LET t == copy.value IN
    /\ ~t.deleted
    /\ op = IF t.settlement = "pending" THEN "complete" ELSE "reopen"
    /\ t.settlement # "none"
    /\ ~Pending("complete") /\ ~Pending("reopen")

\* The menu of a rule, which no call under way disables.
RuleOffers(op) ==
    LET r == copy.value IN
    /\ r.there /\ ~r.archived
    /\ op \in {"archive", IF r.enabled THEN "disable" ELSE "enable"}

OccurrenceOffers(op) ==
    /\ copy.value.status = "pending"
    /\ \/ op = "confirm" /\ ~Pending("confirm") /\ ~Pending("save")
       \/ op = "skip" /\ ~Pending("skip")

\* None of them is in reach while the form is shown.
Offers(op) ==
    /\ ~form.shown
    /\ CASE screen = "details" -> DetailsOffers(op)
         [] screen = "settlements" -> SettlementOffers(op)
         [] screen = "rule" -> RuleOffers(op)
         [] screen = "occurrence" -> OccurrenceOffers(op)
         [] screen \in {"budget", "categories"} -> FALSE

\* The menus, the choice of an icon and the composer, in terms of the list shown.
CategoryOffers(change) ==
    LET list == copy.value IN
    CASE change.op = "reorder" -> change.order \in Moves(list.order)
      [] change.op = "update" -> /\ change.id \in Active(list)
                                 /\ change.label.name = list.label[change.id].name
                                 /\ change.label.icon # list.label[change.id].icon
      [] change.op = "archive" -> change.id \in Active(list)
      [] change.op = "restore" -> change.id \in list.archived
      [] change.op = "add" -> ~Running(form.adding, {"add"})

\* undo: the restoring that the message about a removal offers.
Presses == {"complete", "reopen", "unlocate", "locate", "remove", "restore", "undo",
            "enable", "disable", "archive", "confirm", "skip"}
Saves == {"save", "create"}

\* The changes of categories that one mutation sends, and all of them.
Actions == {"update", "archive", "restore"}
CategoryOps == Actions \cup {"reorder", "add"}

\* noLocation: the second call of "locate", after the first was not answered.
Ops == Presses \cup Saves \cup CategoryOps \cup {"noLocation"}

\* The server's conditions.
TransactionAccepts(t, op) ==
    CASE op \in {"remove", "restore", "undo"} -> TRUE
      [] op \in {"complete", "reopen"} -> ~t.deleted /\ t.settlement # "none"
      [] op = "locate" -> ~t.deleted /\ t.location # "none"
      [] op = "noLocation" -> ~t.deleted /\ t.location = "failed"
      [] op \in {"save", "unlocate"} -> ~t.deleted

Accepts(r, k) ==
    CASE screen \in {"details", "settlements"} -> TransactionAccepts(r, k.op)
      [] screen = "rule" -> k.op = "create" \/ (r.there /\ (k.op = "archive" \/ ~r.archived))
      [] screen = "occurrence" -> r.status = "pending"
      [] screen = "budget" -> TRUE
      [] screen = "categories" -> CategoryAccepts(r, k.change)

\* Reasons to refuse that are not in the record: an archived category, the five
\* minutes of a location, a name that is taken, a rule that uses the category.
MayRefuse(op) ==
    IF screen = "categories" THEN op # "reorder" ELSE op \in Saves \cup {"confirm", "locate"}

TransactionAfter(t, k) ==
    CASE k.op = "complete" -> [t EXCEPT !.settlement = "completed"]
      [] k.op = "reopen" -> [t EXCEPT !.settlement = "pending"]
      [] k.op = "remove" -> [t EXCEPT !.deleted = TRUE]
      [] k.op \in {"restore", "undo"} -> [t EXCEPT !.deleted = FALSE]
      [] k.op = "unlocate" -> [t EXCEPT !.location = "none"]
      [] k.op = "locate" -> [t EXCEPT !.location = "attached"]
      [] k.op = "noLocation" -> t
      [] k.op = "save" -> [t EXCEPT !.minor = k.minor, !.settlement =
            IF ~k.switch THEN "none" ELSE IF @ = "none" THEN "pending" ELSE @]

RuleAfter(r, k) ==
    CASE k.op = "save" -> [r EXCEPT !.minor = k.minor]
      [] k.op = "enable" -> [r EXCEPT !.enabled = TRUE]
      [] k.op = "disable" -> [r EXCEPT !.enabled = FALSE]
      [] k.op = "archive" -> [r EXCEPT !.enabled = FALSE, !.archived = TRUE]
      [] k.op = "create" ->
            IF r.there THEN r
            ELSE [minor |-> k.minor, there |-> TRUE, enabled |-> TRUE, archived |-> FALSE]

OccurrenceAfter(o, k) ==
    CASE k.op = "confirm" -> [o EXCEPT !.status = "confirmed"]
      [] k.op = "save" -> [minor |-> k.minor, status |-> "confirmed"]
      [] k.op = "skip" -> [o EXCEPT !.status = "skipped"]

After(r, k) ==
    CASE screen \in {"details", "settlements"} -> TransactionAfter(r, k)
      [] screen = "rule" -> RuleAfter(r, k)
      [] screen = "occurrence" -> OccurrenceAfter(r, k)
      [] screen = "budget" -> [minor |-> k.minor]
      [] screen = "categories" -> CategoryAfter(r, k.change)

-----------------------------------------------------------------------------
(* What the page holds *)

NoCopy == [kind |-> "none"]
Copy(value, u) == [kind |-> "copy", value |-> value, unit |-> u, failed |-> FALSE]

\* A query that failed has its page show the error, until it succeeds.
Showing == copy # NoCopy /\ ~copy.failed

\* shown: editing, showForm, editingOccurrence; fresh: a new rule, not one of the
\* list; toast: a message offers to undo; latest: the save of a BudgetEditor, unless it
\* is over.  meant, sure: history, the amount that the text stands for, and whether the
\* page could know it.
Form == [shown : BOOLEAN, fresh : BOOLEAN, text : Text, switch : BOOLEAN, toast : BOOLEAN,
         latest : CallIds \cup {NoCall}, meant : Text, sure : BOOLEAN]

Blank == [shown |-> FALSE, fresh |-> TRUE, text |-> Empty, switch |-> FALSE, toast |-> FALSE,
          latest |-> NoCall, meant |-> Empty, sure |-> TRUE]

\* renaming: the category as it was when the dialog was opened; latest, adding: the
\* last calls of the two mutations; mine: those of the first that can close the dialog.
CategoryForm == [shown : BOOLEAN, id : {0} \cup CategoryIds, icon : {"old", "new"},
                 latest : CallIds \cup {NoCall}, adding : CallIds \cup {NoCall},
                 mine : SUBSET CallIds, toast : {FALSE}]

CategoryBlank == [shown |-> FALSE, id |-> 0, icon |-> "old", latest |-> NoCall,
                  adding |-> NoCall, mine |-> {}, toast |-> FALSE]

RenameClosed == [form EXCEPT !.shown = FALSE, !.id = 0, !.icon = "old"]

\* A form filled in from a copy, in the currency of the settings.
Filled(old, from, e) ==
    [old EXCEPT !.fresh = FALSE,
                !.text = IF from.value.minor = 0 THEN Empty
                         ELSE MinorToMajorInput(from.value.minor, e),
                !.meant = MinorToMajorInput(from.value.minor, from.unit),
                !.sure = from.unit = e,
                !.switch = IF screen = "details" THEN from.value.settlement # "none"
                           ELSE from.value.minor # 0]

\* The effect on the data, also while the form is shown.
DetailsForm(old, next, e) ==
    IF next # NoCopy /\ (copy = NoCopy \/ next.value # copy.value \/ next.unit # copy.unit \/ e # exp)
    THEN Filled(old, next, e) ELSE old

\* BudgetEditor is there during an edit, and always if there is no limit.
Editor(shown, from) == from # NoCopy /\ ~from.failed /\ (shown \/ from.value.minor = 0)

\* It is filled in when it appears, and when the currency changes.
BudgetForm(old, next, e) ==
    IF ~Editor(old.shown, next) THEN [Blank EXCEPT !.shown = old.shown]
    ELSE IF Editor(form.shown, copy) /\ e = exp THEN old
    ELSE Filled([old EXCEPT !.latest = NoCall], next, e)

\* What becomes of the form when the copy or the settings change.
Reacting(old, next, e) ==
    CASE screen = "details" -> DetailsForm(old, next, e)
      [] screen = "budget" -> BudgetForm(old, next, e)
         \* CategoryManager is not there while an error is shown.
      [] screen = "categories" -> IF next = NoCopy \/ next.failed THEN CategoryBlank ELSE old
      [] OTHER -> old

\* What the pages show of a record, with the digits of the settings; a page that only
\* lists some records may have nothing to show.
Amount(minor, e) == MinorToMajorInput(minor, e)

DetailsView(t, e) ==
    [amount |-> Amount(t.minor, e), settlement |-> t.settlement, location |-> t.location,
     deleted |-> t.deleted]

Nothing == [amount |-> Empty]

SettlementView(t, e) ==
    IF t.deleted \/ t.settlement = "none" THEN Nothing
    ELSE [amount |-> Amount(t.minor, e), settlement |-> t.settlement]

RuleView(r, e) ==
    IF r.there /\ ~r.archived THEN [amount |-> Amount(r.minor, e), enabled |-> r.enabled] ELSE Nothing

OccurrenceView(o, e) ==
    IF o.status = "pending" THEN [amount |-> Amount(o.minor, e)] ELSE Nothing

BudgetView(b, e) ==
    IF b.minor = 0 THEN Nothing ELSE [amount |-> Amount(b.minor, e)]

View(r, e) ==
    CASE screen = "details" -> DetailsView(r, e)
      [] screen = "settlements" -> SettlementView(r, e)
      [] screen = "rule" -> RuleView(r, e)
      [] screen = "occurrence" -> OccurrenceView(r, e)
      [] screen = "budget" -> BudgetView(r, e)
      [] screen = "categories" -> r

NoFetch == [kind |-> "none"]
Sent == [kind |-> "sent"]

Free == [op |-> "free", phase |-> "done"]

\* minor, switch: of the request; the others are history.
Save == [op : Saves, phase : {"sent", "orphan"}, minor : 0..MaxAmount, switch : BOOLEAN,
         exp : Units, meant : Text, sure : BOOLEAN]

CopyType == {NoCopy} \cup
    [kind : {"copy"}, value : Record(screen), unit : Units, failed : BOOLEAN]

\* An answered change waits for the fetch that it starts before it is over; the
\* answer holds the record on the page that keeps it.
Call == {Free} \cup Save
    \cup [op : Presses \cup {"noLocation"}, phase : {"sent", "orphan"}]
    \cup [op : CategoryOps, phase : {"sent", "orphan"}, change : Change]
    \cup [op : Ops, phase : {"answered"}, ok : BOOLEAN, copy : CopyType]
    \cup [op : Ops, phase : {"refreshing"}]
    \* The settings: the query, a change of currency, and the refresh after it.
    \cup [op : {"settings", "refresh"}, phase : {"sent"}]
    \cup [op : {"settings", "refresh"}, phase : {"answered"}, unit : Units]
    \cup [op : {"currency"}, phase : {"sent", "orphan"}, to : Units]
    \cup [op : {"currency"}, phase : {"answered"}]

PageTypeOK ==
    /\ screen \in Screens
    /\ unit \in Units /\ exp \in Units
    /\ record \in Record(screen)
    /\ copy \in CopyType
    /\ form \in IF screen = "categories" THEN CategoryForm ELSE Form
    /\ calls \in [CallIds -> Call]
    /\ fetch \in {NoFetch, Sent} \cup CopyType
    /\ behind \subseteq {"record", "settings"}
    /\ work \in 0..MaxWork[screen]

TypedAmounts == {MajorToMinor(text, unit) : text \in Texts} \ {Undefined}

\* What a page is opened on.
Openings(s) ==
    CASE s = "details" -> {t \in Transaction :
                              /\ ~t.deleted
                              /\ <<t.settlement, t.location>> \in {<<"none", "none">>, <<"pending", "failed">>}}
      [] s = "settlements" -> {t \in Transaction :
                                  ~t.deleted /\ t.settlement = "pending" /\ t.location = "none"}
      [] s = "rule" -> {r \in Rule : ~r.archived /\ (r.there <=> r.enabled)}
      [] s = "occurrence" -> {o \in Occurrence : o.status = "pending"}
      [] s = "budget" -> Budget
         \* Two, with labels that have not been changed yet, one of them archived or not.
      [] s = "categories" -> {list \in CategoryTable :
                                 /\ list.order \in {<<1>>, <<1, 2>>} /\ Known(list) = {1, 2}
                                 /\ \A id \in CategoryIds : list.label[id] = [name |-> "old", icon |-> "old"]}

\* A cached copy, not old enough to be fetched again, or none.  A change of currency
\* may be under way from the page of the settings, which the user has left; to the
\* categories the currency makes no difference.
PageInit ==
    /\ screen \in Screens
    /\ unit \in IF screen = "categories" THEN {CHOOSE u \in Units : TRUE} ELSE Units
    /\ exp = unit
    /\ record \in Openings(screen)
    /\ screen # "categories" => record.minor \in {0, MajorToMinor(FirstText, unit)}
    /\ \/ copy = NoCopy /\ fetch = Sent
       \/ copy = Copy(record, unit) /\ fetch = NoFetch
    /\ \E editing \in BOOLEAN :
          /\ editing => screen = "budget"
          /\ LET blank == [Blank EXCEPT !.shown = editing]
             IN form = IF screen = "categories" THEN CategoryBlank
                   ELSE IF copy # NoCopy /\ (screen = "details" \/ (screen = "budget" /\ Editor(editing, copy)))
                       THEN Filled(blank, copy, exp) ELSE blank
    /\ \/ calls = [c \in CallIds |-> Free] /\ work = 0
       \/ screen # "categories" /\ work = 1 /\ \E c \in CallIds, to \in Units \ {unit} :
             calls = [d \in CallIds |->
                        IF d = c THEN [op |-> "currency", phase |-> "sent", to |-> to] ELSE Free]
    /\ behind = {}

-----------------------------------------------------------------------------
(* The query of the record *)

\* Faulty variant: a fetch that is under way is waited for.
InvalidatedJoining == IF fetch = NoFetch THEN Sent ELSE fetch

\* invalidateQueries: a fetch under way is cancelled, if there are data.
Invalidated == IF copy = NoCopy /\ fetch # NoFetch THEN fetch ELSE Sent

\* The retry of the error, and the return of the window or of the network.
FetchRecord ==
    /\ fetch' = Invalidated
    /\ fetch' # fetch
    /\ UNCHANGED <<screen, unit, record, exp, copy, form, calls, behind, work>>

ServeFetch ==
    /\ fetch = Sent
    /\ fetch' = Copy(record, unit)
    /\ behind' = behind \ {"record"}
    /\ UNCHANGED <<screen, unit, record, exp, copy, form, calls, work>>

ArriveFetch ==
    /\ fetch.kind = "copy"
    /\ copy' = fetch
    /\ form' = Reacting(form, fetch, exp)
    /\ fetch' = NoFetch
    /\ UNCHANGED <<screen, unit, record, exp, calls, behind, work>>

LoseFetch ==
    /\ fetch # NoFetch
    /\ copy' = IF copy = NoCopy THEN copy ELSE [copy EXCEPT !.failed = TRUE]
    /\ form' = Reacting(form, copy', exp)
    /\ fetch' = NoFetch
    /\ behind' = behind \cup {"record"}
    /\ UNCHANGED <<screen, unit, record, exp, calls, work>>

-----------------------------------------------------------------------------
(* The settings of the page *)

\* The session is fetched again, when the network is back.
FetchSettings(c) ==
    /\ calls[c] = Free /\ work < MaxWork[screen]
    /\ screen # "categories" /\ ~Pending("settings")
    /\ calls' = [calls EXCEPT ![c] = [op |-> "settings", phase |-> "sent"]]
    /\ work' = work + 1
    /\ UNCHANGED <<screen, unit, record, exp, copy, form, fetch, behind>>

\* Two requests that overlap are answered in any order, and the later answer stands.
ServeSettings(c) ==
    LET rival == \E d \in CallIds \ {c} : calls[d].op \in {"settings", "refresh"} IN
    /\ calls[c].op \in {"settings", "refresh"} /\ calls[c].phase = "sent"
    /\ calls' = [calls EXCEPT ![c] = [op |-> @.op, phase |-> "answered", unit |-> unit]]
    /\ behind' = IF rival THEN behind \cup {"settings"} ELSE behind \ {"settings"}
    /\ UNCHANGED <<screen, unit, record, exp, copy, form, fetch, work>>

\* The refresh after a change of currency is followed by an invalidation, which
\* does not cancel the first fetch of the page.
ArriveSettings(c) ==
    /\ calls[c].op \in {"settings", "refresh"} /\ calls[c].phase = "answered"
    /\ exp' = calls[c].unit
    /\ form' = Reacting(form, copy, exp')
    /\ IF calls[c].op = "refresh"
       THEN /\ fetch' = Invalidated
            /\ behind' = IF fetch' = fetch THEN behind \cup {"record"} ELSE behind
       ELSE UNCHANGED <<fetch, behind>>
    /\ calls' = [calls EXCEPT ![c] = Free]
    /\ UNCHANGED <<screen, unit, record, copy, work>>

\* Faulty variant: an amount that is too small becomes zero.
ChangesToNothing(to) ==
    LET scaled == IF to >= unit THEN record.minor * ScaleFor(to - unit)
                  ELSE record.minor \div ScaleFor(unit - to)
    IN  /\ scaled <= MaxAmount
        /\ unit' = to
        /\ record' = [record EXCEPT !.minor = scaled]

\* The change of currency on the server, which may be refused.
Changes(to) ==
    LET scaled == IF to >= unit THEN record.minor * ScaleFor(to - unit)
                  ELSE record.minor \div ScaleFor(unit - to)
    IN  /\ scaled <= MaxAmount /\ (scaled = 0 => record.minor = 0)
        /\ unit' = to
        /\ record' = [record EXCEPT !.minor = scaled]

ServeCurrency(c) ==
    LET k == calls[c] IN
    /\ k.op = "currency" /\ k.phase \in {"sent", "orphan"}
    /\ \/ /\ Changes(k.to)
          /\ calls' = [calls EXCEPT ![c] = IF k.phase = "orphan" THEN Free
                                           ELSE [op |-> "currency", phase |-> "answered"]]
          /\ behind' = IF k.phase = "orphan" THEN {"record", "settings"} ELSE behind
       \/ /\ calls' = [calls EXCEPT ![c] = Free]
          /\ UNCHANGED <<unit, record, behind>>
    /\ UNCHANGED <<screen, exp, copy, form, fetch, work>>

ArriveCurrency(c) ==
    /\ calls[c].op = "currency" /\ calls[c].phase = "answered"
    /\ calls' = [calls EXCEPT ![c] = [op |-> "refresh", phase |-> "sent"]]
    /\ UNCHANGED <<screen, unit, record, exp, copy, form, fetch, behind, work>>

-----------------------------------------------------------------------------
(* The form *)

Shown == IF screen = "budget" THEN Editor(form.shown, copy) ELSE Showing /\ form.shown

FormOnly(next) ==
    /\ form' = next
    /\ UNCHANGED <<screen, unit, record, exp, copy, calls, fetch, behind, work>>

\* The form of the details keeps what it held when it was shown before.
OpenDetails ==
    /\ screen = "details" /\ Showing /\ ~form.shown
    /\ ~copy.value.deleted
    /\ FormOnly([form EXCEPT !.shown = TRUE])

\* beginNewRule, beginEdit
OpenRule ==
    /\ screen = "rule" /\ Showing /\ ~form.shown
    /\ \/ FormOnly([Blank EXCEPT !.shown = TRUE])
       \/ /\ copy.value.there /\ ~copy.value.archived
          /\ FormOnly(Filled([form EXCEPT !.shown = TRUE], copy, exp))

\* beginOccurrenceEdit
OpenOccurrence ==
    /\ screen = "occurrence" /\ Showing /\ ~form.shown
    /\ copy.value.status = "pending"
    /\ ~Pending("confirm") /\ ~Pending("save")
    /\ FormOnly(Filled([form EXCEPT !.shown = TRUE], copy, exp))

OpenBudget ==
    /\ screen = "budget" /\ ~form.shown
    /\ FormOnly(Reacting([form EXCEPT !.shown = TRUE], copy, exp))

Typed(text) == [form EXCEPT !.text = text, !.meant = text, !.sure = TRUE]

\* What can be done in the form of the details: the amount, the settlement, cancel.
EditDetails ==
    /\ screen = "details" /\ Shown
    /\ \/ \E text \in Texts : FormOnly(Typed(text))
       \/ FormOnly([form EXCEPT !.switch = ~@])
       \/ FormOnly([form EXCEPT !.shown = FALSE])

\* The forms of a rule and of an occurrence can be closed while they are being saved.
EditRule ==
    /\ screen = "rule" /\ Shown
    /\ (\E text \in Texts : FormOnly(Typed(text))) \/ FormOnly(Blank)

EditOccurrence ==
    /\ screen = "occurrence" /\ Shown
    /\ (\E text \in Texts : FormOnly(Typed(text))) \/ FormOnly(Blank)

\* BudgetEditor cannot be cancelled.
EditBudget ==
    /\ screen = "budget" /\ Shown
    /\ \/ form.switch /\ \E text \in Texts : FormOnly(Typed(text))
       \/ FormOnly([form EXCEPT !.switch = ~@])

\* The dialog that renames a category.
EditCategory ==
    /\ screen = "categories" /\ Showing
    /\ \/ /\ ~form.shown
          /\ \E id \in Active(copy.value) :
                FormOnly([form EXCEPT !.shown = TRUE, !.id = id, !.icon = copy.value.label[id].icon])
       \/ form.shown /\ FormOnly(RenameClosed)

\* The message about a removal disappears.
ToastFades ==
    /\ form.toast
    /\ form' = [form EXCEPT !.toast = FALSE]
    /\ UNCHANGED <<screen, unit, record, exp, copy, calls, fetch, behind, work>>

-----------------------------------------------------------------------------
(* The changes the user asks for *)

Press(c, op) ==
    /\ calls[c] = Free /\ work < MaxWork[screen]
    /\ \/ /\ Showing /\ Offers(op)
          /\ UNCHANGED form
       \/ /\ op = "undo" /\ form.toast
          /\ form' = [form EXCEPT !.toast = FALSE]
    /\ calls' = [calls EXCEPT ![c] = [op |-> op, phase |-> "sent"]]
    /\ work' = work + 1
    /\ UNCHANGED <<screen, unit, record, exp, copy, fetch, behind>>

Submit(c, op, minor) ==
    /\ calls[c] = Free /\ work < MaxWork[screen]
    /\ Shown
    /\ calls' = [calls EXCEPT ![c] =
          [op |-> op, phase |-> "sent", minor |-> minor, switch |-> form.switch, exp |-> exp,
           meant |-> form.meant, sure |-> form.sure]]
    /\ form' = IF screen = "budget" THEN [form EXCEPT !.latest = c] ELSE form
    /\ work' = work + 1
    /\ UNCHANGED <<screen, unit, record, exp, copy, fetch, behind>>

\* The buttons are disabled without a valid amount and while their call is under way.
SaveDetails(c) ==
    LET minor == MajorToMinor(form.text, exp) IN
    /\ screen = "details"
    /\ minor # Undefined /\ ~Pending("save")
    /\ Submit(c, "save", minor)

\* Every attempt has a request id of its own.
SaveRule(c) ==
    LET minor == MajorToMinor(form.text, exp) IN
    /\ screen = "rule"
    /\ minor # Undefined /\ ~Pending("save") /\ ~Pending("create")
    /\ Submit(c, IF form.fresh THEN "create" ELSE "save", minor)

SaveOccurrence(c) ==
    LET minor == MajorToMinor(form.text, exp) IN
    /\ screen = "occurrence"
    /\ minor # Undefined /\ ~Pending("save") /\ ~Pending("confirm")
    /\ Submit(c, "save", minor)

SaveBudget(c) ==
    LET minor == IF form.switch THEN MajorToMinor(form.text, exp) ELSE 0 IN
    /\ screen = "budget"
    /\ form.switch => minor # Undefined
    /\ ~Running(form.latest, {"save"})
    /\ Submit(c, "save", minor)

SendChange(c, change) ==
    /\ calls[c] = Free /\ work < MaxWork[screen]
    /\ calls' = [calls EXCEPT ![c] = [op |-> change.op, phase |-> "sent", change |-> change]]
    /\ form' = IF change.op \in Actions THEN [form EXCEPT !.latest = c, !.mine = @ \cup {c}]
               ELSE IF change.op = "add" THEN [form EXCEPT !.adding = c] ELSE form
    /\ work' = work + 1
    /\ UNCHANGED <<screen, unit, record, exp, copy, fetch, behind>>

\* Only the composer waits for its call; a position is computed from the list shown.
PressCategory(c, change) ==
    /\ screen = "categories" /\ Showing /\ ~form.shown
    /\ CategoryOffers(change)
    /\ SendChange(c, change)

\* The new name goes with the icon of the moment the dialog was opened.
SaveCategory(c) ==
    /\ screen = "categories" /\ Showing /\ form.shown
    /\ ~Running(form.latest, Actions)
    /\ \E name \in {"old", "new"} :
          SendChange(c, [op |-> "update", id |-> form.id, label |-> [name |-> name, icon |-> form.icon]])

Serve(c) ==
    LET k == calls[c]
        Answer(ok) ==
            calls' = [calls EXCEPT ![c] =
                IF k.phase = "orphan" THEN Free
                ELSE [op |-> k.op, phase |-> "answered", ok |-> ok,
                      copy |-> IF ok /\ screen = "details" THEN Copy(record', unit) ELSE NoCopy]]
    IN
    /\ k.op \in Ops /\ k.phase \in {"sent", "orphan"}
    /\ \/ /\ Accepts(record, k)
          /\ record' = After(record, k)
          /\ behind' = IF k.phase = "orphan" THEN behind \cup {"record"} ELSE behind
          /\ Answer(TRUE)
       \/ /\ ~Accepts(record, k) \/ MayRefuse(k.op)
          /\ UNCHANGED <<record, behind>>
          /\ Answer(FALSE)
    /\ UNCHANGED <<screen, unit, exp, copy, form, fetch, work>>

\* onSuccess: the details take the answer over, and the record is fetched anew.
Arrive(c) ==
    LET k == calls[c] IN
    /\ k.op \in Ops /\ k.phase = "answered"
    /\ IF k.ok
       THEN /\ copy' = IF screen = "details" THEN k.copy ELSE copy
            /\ form' = IF screen = "details" THEN Reacting(form, k.copy, exp) ELSE form
            /\ fetch' = Invalidated
            /\ calls' = [calls EXCEPT ![c] = [op |-> k.op, phase |-> "refreshing"]]
       ELSE /\ calls' = [calls EXCEPT ![c] = Free]
            /\ UNCHANGED <<copy, form, fetch>>
    /\ UNCHANGED <<screen, unit, record, exp, behind, work>>

\* What follows when the fetch is over, whichever form is shown then.
DetailsSettled(op) ==
    CASE op = "save" -> [form EXCEPT !.shown = FALSE]
      [] op = "remove" -> [form EXCEPT !.toast = TRUE]
      [] OTHER -> form

RuleSettled(op) == IF op \in Saves THEN Blank ELSE form

OccurrenceSettled(op) == IF op \in {"save", "confirm"} THEN Blank ELSE form

\* Not the dialog of a CategoryManager that has replaced the one of the call.
CategorySettled(c) ==
    IF calls[c].op \in Actions /\ c \in form.mine
    THEN [RenameClosed EXCEPT !.mine = @ \ {c}] ELSE form

BudgetSettled(c) ==
    Reacting([form EXCEPT !.shown = FALSE, !.latest = IF @ = c THEN NoCall ELSE @], copy, exp)

Settle(c) ==
    /\ calls[c].phase = "refreshing"
    /\ fetch = NoFetch
    /\ calls' = [calls EXCEPT ![c] = Free]
    /\ form' = CASE screen = "details" -> DetailsSettled(calls[c].op)
                 [] screen = "settlements" -> form
                 [] screen = "rule" -> RuleSettled(calls[c].op)
                 [] screen = "occurrence" -> OccurrenceSettled(calls[c].op)
                 [] screen = "budget" -> BudgetSettled(c)
                 [] screen = "categories" -> CategorySettled(c)
    /\ UNCHANGED <<screen, unit, record, exp, copy, fetch, behind, work>>

-----------------------------------------------------------------------------
(* Calls that are not answered, and other devices *)

\* The network fails, or the time for the answer is over; the server may have
\* acted, or act still.
Orphaned(k) ==
    IF k.phase = "sent" /\ k.op \notin {"settings", "refresh"}
    THEN [k EXCEPT !.phase = "orphan"] ELSE Free

Lose(c) ==
    LET k == calls[c] IN
    /\ k.phase \in {"sent", "answered"} /\ k.op # "locate"
    /\ calls' = [calls EXCEPT ![c] = Orphaned(k)]
    /\ behind' = behind \cup
          CASE k.op = "settings" -> {"settings"}
            [] k.op = "refresh" \/ (k.op = "currency" /\ k.phase = "answered") -> {"settings", "record"}
            [] k.op \in Ops /\ k.phase = "answered" -> {"record"}
            [] OTHER -> {}
    /\ UNCHANGED <<screen, unit, record, exp, copy, form, fetch, work>>

\* retryLocation goes on to report the failure, and so it does when the position is
\* not found or its call is refused.
LoseLocation(c) ==
    LET k == calls[c] IN
    /\ k.op = "locate" /\ k.phase \in {"sent", "answered"}
    /\ \E d \in CallIds :
          /\ d = c \/ (calls[d] = Free /\ k.phase = "sent")
          /\ calls' = [calls EXCEPT ![d] = Orphaned(k), ![c] = [op |-> "noLocation", phase |-> "sent"]]
    /\ behind' = IF k.phase = "answered" /\ k.ok THEN behind \cup {"record"} ELSE behind
    /\ UNCHANGED <<screen, unit, record, exp, copy, form, fetch, work>>

ChangeElsewhere ==
    /\ screen # "categories" /\ work < MaxWork[screen]
    /\ \E op \in Presses \cup {"save"}, minor \in TypedAmounts, switch \in BOOLEAN :
          /\ screen = "rule" => op \in {"save", "enable", "disable", "archive"}
          /\ screen = "occurrence" => op \in {"save", "confirm", "skip"}
          /\ screen = "budget" => op = "save"
          /\ screen \in {"details", "settlements"} =>
                op \notin {"enable", "disable", "archive", "confirm", "skip"}
          /\ Accepts(record, [op |-> op])
          /\ record' = After(record, [op |-> op, minor |-> minor, switch |-> switch])
    /\ behind' = behind \cup {"record"}
    /\ work' = work + 1
    /\ UNCHANGED <<screen, unit, exp, copy, form, calls, fetch>>

\* The list here has not the order that a change elsewhere is made from.
ChangeCategoriesElsewhere(change) ==
    /\ screen = "categories" /\ work < MaxWork[screen]
    /\ CategoryAccepts(record, change)
    /\ record' = CategoryAfter(record, change)
    /\ behind' = behind \cup {"record"}
    /\ work' = work + 1
    /\ UNCHANGED <<screen, unit, exp, copy, form, calls, fetch>>

ChangeCurrencyElsewhere(to) ==
    /\ screen # "categories"
    /\ work < MaxWork[screen]
    /\ to # unit /\ Changes(to)
    /\ behind' = {"record", "settings"}
    /\ work' = work + 1
    /\ UNCHANGED <<screen, exp, copy, form, calls, fetch>>

PageNext ==
    \/ FetchRecord \/ ServeFetch \/ ArriveFetch \/ LoseFetch
    \/ OpenDetails \/ OpenRule \/ OpenOccurrence \/ OpenBudget
    \/ EditDetails \/ EditRule \/ EditOccurrence \/ EditBudget \/ EditCategory \/ ToastFades
    \/ \E c \in CallIds :
          \/ FetchSettings(c) \/ ServeSettings(c) \/ ArriveSettings(c)
          \/ ServeCurrency(c) \/ ArriveCurrency(c)
          \/ \E op \in Presses : Press(c, op)
          \/ SaveDetails(c) \/ SaveRule(c) \/ SaveOccurrence(c) \/ SaveBudget(c) \/ SaveCategory(c)
          \/ \E change \in Change : PressCategory(c, change)
          \/ Serve(c) \/ Arrive(c) \/ Settle(c)
          \/ Lose(c) \/ LoseLocation(c)
    \/ ChangeElsewhere
    \/ \E change \in Change : ChangeCategoriesElsewhere(change)
    \/ \E to \in Units : ChangeCurrencyElsewhere(to)

PageSpec == PageInit /\ [][PageNext]_pageVars

-----------------------------------------------------------------------------
(* Properties *)

\* When nothing is under way any more, the page shows the record as it is and in the
\* currency that the server has, in whatever order the answers to overlapping changes, to the fetches
\* they started and to those of the settings have come.  Out of this are lost
\* answers, two overlapping requests for the settings, a change of currency that ends
\* while the page is still being opened, and what other devices have done since.
QuietPageIsCurrent ==
    /\ \A c \in CallIds : calls[c] = Free
    /\ fetch = NoFetch
    /\ behind = {}
    => Showing /\ View(copy.value, exp) = View(record, unit)

\* A save records the amount that the user typed or, if the field was left alone, the
\* amount the record had in its own currency, even if the currency of the page changes
\* while the form is shown.  Out of this are a change of currency on the server that
\* the page does not know of when the save is sent, and a form filled in, with the
\* settings already changed, from a copy that was not.
AmountsAsMeant ==
    [][ \A c \in CallIds :
            /\ calls[c].op \in Saves /\ calls'[c] # calls[c] /\ record' # record
            /\ calls[c].sure /\ calls[c].minor # 0
            /\ calls[c].exp = unit
            => SameMajor(MinorToMajorInput(record'.minor, unit), calls[c].meant) ]_pageVars
=============================================================================
