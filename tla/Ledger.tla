------------------------------- MODULE Ledger -------------------------------
(***************************************************************************)
(* The installation's currency and the amounts of every record that has    *)
(* one: how records are written with the currency of the settings, and how *)
(* a change of currency rewrites them all (internal/service/settings,      *)
(* Store.RewriteCurrency; ADR-0006).                                       *)
(*                                                                         *)
(* A request reads the settings in one step and writes in another; a       *)
(* WithTx body is one step.  theme stands for the preferences that are     *)
(* saved together with the currency (time zone, locale, location).         *)
(***************************************************************************)
EXTENDS Integers

CONSTANTS
    Clients,     \* requests that run at the same time
    Rows,        \* the ids of records of all tables
    NoRow,
    Currencies,
    Exponent,    \* the decimal places of each currency
    Themes,
    Unset,       \* an optional field that a request leaves out
    Amounts,     \* the amounts users enter
    MaxAmount,   \* domain.MaxAmountMinor
    FirstCurrency,
    FirstTheme

ASSUME LedgerAssumption ==
    /\ NoRow \notin Rows
    /\ Unset \notin Currencies \cup Themes
    /\ Exponent \in [Currencies -> 0..3]
    /\ MaxAmount \in Nat
    /\ Amounts \subseteq 1..MaxAmount
    /\ FirstCurrency \in Currencies
    /\ FirstTheme \in Themes

VARIABLES
    settings,    \* app_settings: the currency and the other preferences
    rows,        \* the records, by id
    request      \* what the request of each client has read

vars == <<settings, rows, request>>

Tables == {"transactions", "budget_limits", "recurring_rules", "recurring_occurrences"}

Settings == [currency : Currencies, theme : Themes]

\* of is the rule of an occurrence and the occurrence of a confirmed transaction.
Row == [table : Tables, amount : Int, currency : Currencies, of : Rows \cup {NoRow}]

Idle == [phase |-> "idle"]

Request ==
    {Idle}
    \cup [phase : {"insert"}, table : {"transactions", "recurring_rules"},
          amount : Amounts, currency : Currencies]
    \cup [phase : {"settings"}, from : Currencies, to : Settings, rewrite : BOOLEAN]

Existing == DOMAIN rows

TypeOK ==
    /\ settings \in Settings
    /\ Existing \subseteq Rows
    /\ rows \in [Existing -> Row]
    /\ request \in [Clients -> Request]

Init ==
    /\ settings = [currency |-> FirstCurrency, theme |-> FirstTheme]
    /\ rows = [id \in {} |-> Idle]
    /\ request = [c \in Clients |-> Idle]

-----------------------------------------------------------------------------
(* Records *)

Reply(c) == request' = [request EXCEPT ![c] = Idle]

Insert(id, row) ==
    /\ id \in Rows \ Existing
    /\ rows' = [i \in Existing \cup {id} |-> IF i = id THEN row ELSE rows[i]]

\* CreateTransaction and CreateRecurringRule read the settings first.
CreateRead(c, table, amount) ==
    /\ request[c] = Idle
    /\ request' = [request EXCEPT ![c] = [phase |-> "insert", table |-> table,
                      amount |-> amount, currency |-> settings.currency]]
    /\ UNCHANGED <<settings, rows>>

CreateInsert(c, id) ==
    /\ request[c].phase = "insert"
    /\ Insert(id, [table |-> request[c].table, amount |-> request[c].amount,
                   currency |-> request[c].currency, of |-> NoRow])
    /\ Reply(c)
    /\ UNCHANGED settings

\* UpdateTransaction and UpdateRecurringRule write no currency.
EditAmount(id, amount) ==
    /\ id \in Existing
    /\ rows[id].table \in {"transactions", "recurring_rules"}
    /\ rows' = [rows EXCEPT ![id].amount = amount]
    /\ UNCHANGED <<settings, request>>

\* InsertPendingOccurrence copies the rule's amount and currency.
GenerateOccurrence(rule, id) ==
    /\ rule \in Existing
    /\ rows[rule].table = "recurring_rules"
    /\ Insert(id, [rows[rule] EXCEPT !.table = "recurring_occurrences", !.of = rule])
    /\ UNCHANGED <<settings, request>>

Confirmable(occurrence) ==
    /\ occurrence \in Existing
    /\ rows[occurrence].table = "recurring_occurrences"
    /\ \A id \in Existing : rows[id].of # occurrence

\* Faulty variant: the settings' currency instead of the occurrence's.
ConfirmInSettingsCurrency(occurrence, amount, id) ==
    /\ Confirmable(occurrence)
    /\ Insert(id, [table |-> "transactions", amount |-> amount,
                   currency |-> settings.currency, of |-> occurrence])
    /\ UNCHANGED <<settings, request>>

\* The amount is the occurrence's or the one the user overrides it with.
ConfirmOccurrence(occurrence, amount, id) ==
    /\ Confirmable(occurrence)
    /\ Insert(id, [table |-> "transactions", amount |-> amount,
                   currency |-> rows[occurrence].currency, of |-> occurrence])
    /\ UNCHANGED <<settings, request>>

\* SetBudgets reads the settings inside its transaction; the limits of the
\* month are deleted and inserted anew.
SetBudget(id, amount) ==
    LET row == [table |-> "budget_limits", amount |-> amount,
                currency |-> settings.currency, of |-> NoRow]
    IN  /\ \/ Insert(id, row)
           \/ /\ id \in Existing
              /\ rows[id].table = "budget_limits"
              /\ rows' = [rows EXCEPT ![id] = row]
        /\ UNCHANGED <<settings, request>>

ClearBudget(id) ==
    /\ id \in Existing
    /\ rows[id].table = "budget_limits"
    /\ rows' = [i \in Existing \ {id} |-> rows[i]]
    /\ UNCHANGED <<settings, request>>

-----------------------------------------------------------------------------
(* UpdateSettings *)

\* The currency is compared with the one that was read, and a change has been
\* confirmed by the user.
SettingsRead(c, currency, theme) ==
    LET to == [currency |-> IF currency = Unset THEN settings.currency ELSE currency,
               theme |-> IF theme = Unset THEN settings.theme ELSE theme]
    IN  /\ request[c] = Idle
        /\ request' = [request EXCEPT ![c] = [phase |-> "settings",
                          from |-> settings.currency, to |-> to,
                          rewrite |-> to.currency # settings.currency]]
        /\ UNCHANGED <<settings, rows>>

PowerOfTen(n) == CASE n = 0 -> 1 [] n = 1 -> 10 [] n = 2 -> 100 [] n = 3 -> 1000

Grows(from, to) == Exponent[to] > Exponent[from]

Factor(from, to) ==
    PowerOfTen(IF Grows(from, to) THEN Exponent[to] - Exponent[from]
               ELSE Exponent[from] - Exponent[to])

\* Faulty variant: amounts that would truncate to zero are let through.
BlockedByOverflowOnly(amount, from, to) ==
    Grows(from, to) /\ amount > MaxAmount \div Factor(from, to)

\* ErrCurrencyOverflow and ErrCurrencyWouldZero.
Blocked(amount, from, to) ==
    IF Grows(from, to) THEN amount > MaxAmount \div Factor(from, to)
    ELSE Exponent[to] < Exponent[from] /\ amount < Factor(from, to)

\* Faulty variant: an amount is rounded, not truncated.
ScaledRounding(amount, from, to) ==
    IF Grows(from, to) THEN amount * Factor(from, to)
    ELSE (amount + Factor(from, to) - 1) \div Factor(from, to)

Scaled(amount, from, to) ==
    IF Grows(from, to) THEN amount * Factor(from, to) ELSE amount \div Factor(from, to)

\* Faulty variant: the snapshots of occurrences are forgotten.
RewrittenButSnapshots(id, from, to) ==
    IF rows[id].table = "recurring_occurrences" THEN rows[id]
    ELSE [rows[id] EXCEPT !.amount = Scaled(@, from, to), !.currency = to]

\* RewriteCurrency, a row of any of the four tables.
Rewritten(id, from, to) ==
    [rows[id] EXCEPT !.amount = Scaled(@, from, to), !.currency = to]

\* One transaction.  The exponent scaled from is that of the currency read, and
\* so are the preferences written back.
SettingsWrite(c) ==
    LET from == request[c].from
        to == request[c].to
    IN  /\ request[c].phase = "settings"
        /\ IF ~request[c].rewrite
           THEN settings' = to /\ UNCHANGED rows
           ELSE /\ \A id \in Existing : ~Blocked(rows[id].amount, from, to.currency)
                /\ rows' = [id \in Existing |-> Rewritten(id, from, to.currency)]
                /\ settings' = to
        /\ Reply(c)

\* The change of currency is refused, or the request is cancelled before its
\* second step.
Abandon(c) ==
    /\ request[c] # Idle
    /\ Reply(c)
    /\ UNCHANGED <<settings, rows>>

-----------------------------------------------------------------------------

Next ==
    \/ \E c \in Clients :
          \/ \E table \in {"transactions", "recurring_rules"}, amount \in Amounts :
                CreateRead(c, table, amount)
          \/ \E id \in Rows : CreateInsert(c, id)
          \/ \E currency \in Currencies \cup {Unset}, theme \in Themes \cup {Unset} :
                SettingsRead(c, currency, theme)
          \/ SettingsWrite(c)
          \/ Abandon(c)
    \/ \E id \in Rows, amount \in Amounts : EditAmount(id, amount) \/ SetBudget(id, amount)
    \/ \E id \in Rows : ClearBudget(id)
    \/ \E rule, id \in Rows : GenerateOccurrence(rule, id)
    \/ \E occurrence \in Existing, id \in Rows :
          \E amount \in Amounts \cup {rows[occurrence].amount} :
             ConfirmOccurrence(occurrence, amount, id)

Spec == Init /\ [][Next]_vars

-----------------------------------------------------------------------------
(* Properties *)

\* Every amount stays positive and within the maximum through any sequence of
\* currency changes, also when concurrent changes scale from an exponent that
\* is no longer the ledger's: the check and the scaling use the same factor.
AmountsInRange == \A id \in Existing : rows[id].amount \in 1..MaxAmount

\* A rule, the occurrences made from it and the transactions that confirm them
\* are in one currency, whatever requests overlap: the copies are taken inside
\* transactions and a change of currency rewrites all four tables.
FamiliesShareCurrency ==
    \A id \in Existing :
        rows[id].of # NoRow =>
            rows[id].of \in Existing /\ rows[rows[id].of].currency = rows[id].currency

Mixed(id) == rows[id].currency # settings.currency

\* A request writes that has read a currency that is no longer the settings'.
StaleWrite ==
    \E c \in Clients :
        /\ request'[c] = Idle
        /\ \/ request[c].phase = "insert" /\ request[c].currency # settings.currency
           \/ request[c].phase = "settings" /\ request[c].from # settings.currency

\* Changing the installation currency reinterprets every stored code (ADR-0006):
\* no step but that of a request with stale settings makes a record differ from
\* the currency of the settings, unless it copies or is one that did before.
MixedOnlyByStaleWrites ==
    [][\A id \in Existing' :
          Mixed(id)' => \/ StaleWrite
                       \/ \E i \in Existing \cap {id, rows'[id].of} : Mixed(i)]_vars

\* The amount before, in major units of its own currency, is the amount after
\* in major units of its own, but for the digits that are truncated.
MajorUnitsEqual(before, after) ==
    LET inNew == before.amount * PowerOfTen(Exponent[after.currency])
        oldUnit == PowerOfTen(Exponent[before.currency])
    IN  /\ after.amount * oldUnit <= inNew
        /\ inNew < (after.amount + 1) * oldUnit

\* That holds of every record in the settings' currency when the change has read
\* that currency, however many requests overlap.
MajorUnitsKeptUnlessStale ==
    [][(\E c \in Clients : SettingsWrite(c) /\ request[c].from = settings.currency) =>
          \A id \in Existing : Mixed(id) \/ MajorUnitsEqual(rows[id], rows'[id])]_vars
=============================================================================
