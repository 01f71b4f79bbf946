# Verification of Simfiment

Simfiment is a single-household expense tracker: a Go server over one SQLite
database, and a React page that talks to it over HTTP. This directory holds
TLA+ models of the server's core and of the page that changes its records, the
TLC configurations that check them on small instances, and proofs, checked by
TLAPS, that every safety property the runs check, of the server and of the
page, holds for every size of the system.

## The system and its hard parts

One process opens one SQLite database with **one connection**
(`internal/database/database.go:47`). A store call outside a transaction, and
the whole body of `WithTx`, are atomic; everything else interleaves, because
every HTTP request runs in its own goroutine and most operations check in one
store call and write in a later one. There is no background job: what has to
happen later (generating recurring items, giving up on a location) happens when
somebody looks. A client that goes away cancels its request's context, which
makes the next store call fail. Nothing but the database, the login limiter and
the database gate outlives a request.

| Component | State | Operations | What makes it correct |
|---|---|---|---|
| Schedules (`internal/domain/schedule.go`) | none | `OccurrenceDate` | exactly the days the calendar calls due; no drift over short months; strictly ascending |
| Recurring rules and occurrences (`service/recurring.go`, `store/recurring.go`) | `recurring_rules`, `recurring_occurrences` | create, edit, enable, disable, archive, generate, confirm, skip | no day missing, none twice, a booking exactly for each confirmation, nobody generates from a dormant rule, a due rule is caught up |
| Settings and currency (`service/settings.go`, `Store.RewriteCurrency`) | `app_settings`, currency and amount of four tables | change preferences, change currency | amounts in range, major-unit number kept, currencies never mixed |
| Transactions, locations, settlements (`service/transactions.go`, `settlements.go`) | `transactions`, `transaction_locations` | create, edit, delete, restore, attach, fail, remove, complete, reopen, expire | idempotent creation, location status and row agree, only tracked items are completed, no location pends for ever |
| Database gate and restore (`httpapi`, `database/backup.go`) | `dbGate`, the database file, snapshots | every request; restore of an uploaded backup | no request sees a replacement; a failed restore keeps or recovers the data; no starvation |
| Categories (`service/categories.go`) | `categories` | create, rename, archive, restore, reorder | one active of each kind stays, names unique, none archived that an active rule uses |
| Budgets (`service/budgets.go`) | `budget_limits` | set, clear, show | limits of a month replaced as a whole; daily shares add up |
| Sessions and password (`service/service.go`) | `sessions`, `auth_credentials` | setup, login, refresh, logout, revoke, change and reset of the password | one installation; a session lives exactly until it expires, is revoked, or the password changes elsewhere |
| Login limiter (`service/limiter.go`) | failures by source | allow, failure, success | guesses are spaced; blocks grow and end |
| Migrations (`database.go`) | `schema_migrations` | `Migrate` | forward only, each once, resumable |
| Dashboards, export, status | none | pure reads | sums follow from the tables |
| Entry form (`TransactionEntry`, `useEntryLocation`) | the form, its request id, the location watch | save, retry, undo, locate | one entry per save whatever is retried |
| Session of the page (`App`, `api/client`, `startupSnapshot`) | cookie and snapshot of the browser, token and queries of each tab | load, verify, log in and out, save and clear the snapshot | no snapshot behind a login; a quiet tab can write; a cookie is not lost |
| Pages that change a record (`web/src/features`) | the query of the record, the settings, a form, calls under way | show, edit, save, press a button | a quiet page shows what is stored; an amount is saved as it was meant |
| Process, configuration, i18n, static files | none | start, stop | outside the models |

The parts meet in four ways. They share the database: archiving a category
looks at the rules, a currency change rewrites the rows of everything else, a
confirmation inserts a transaction. They call each other: create, edit, enable,
login and the dashboards end in `EnsureOccurrences`; every read of transactions
begins with `ExpirePendingLocations`. All of them run under the database gate.
And the entry form retries what it got no answer to, under the same request id.
The other pages do not retry: they fetch again, and other devices may have
changed anything meanwhile.

## Modules

| Module | Models | Lines of argument |
|---|---|---|
| `Schedule` | calendar arithmetic and `OccurrenceDate` | dates are day numbers: the code compares `YYYY-MM-DD` text, whose order is theirs |
| `Calendar` | a calendar that turns one page a day | the reference that `OccurrenceDate` is compared with |
| `Recurring` | rules, generation, confirmation, with the archiving of categories | one action per store call or transaction |
| `OccurrenceBook` | the abstract promise: an item falls due once, is settled once, is booked exactly when confirmed | `Recurring` implements it |
| `RecurringProofs` | | the proofs about `Schedule`, `Calendar` and `Recurring`, see *Proofs* |
| `Ledger`, `LedgerProofs` | currency and amount of every kind of record, and `RewriteCurrency` | |
| `Transactions`, `TransactionsProofs` | idempotent creation, deletion, location, settlement | amounts left to `Ledger` |
| `EntryFlow`, `EntryFlowProofs` | the entry form of the page: saves that time out and are retried, the location, the undo, with the calls on their way | composes with `Transactions` by extending it: each call is served by one of its clients |
| `DatabaseGate` | the `sync.RWMutex`, requests, the restore with its failures, disconnects and crashes | the mutex admits new readers only while no writer waits or holds |
| `DatabaseVault` | the abstract promise: the database is edited in place or replaced at once | `DatabaseGate` implements it |
| `DatabaseGateProofs` | | see *Proofs* |
| `Access`, `AccessProofs` | set-up, login, the sessions, the password and the limiter | a request is split where it hashes; a row id that was freed comes back |
| `PageSession`, `PageSessionProofs` | the tabs of one browser: cookie, token, snapshot, with calls that overlap, come late or are lost | the server's part is one session table, since `Access` has its races |
| `CategoryList` | the categories of one kind and the operations on their list | pure operators, used by `RecordPage` |
| `Money` | amounts between stored minor units and the text of a field | pure operators, used by `RecordPage` |
| `RecordPage`, `RecordPageProofs` | six pages that show one record and change it | one model, since they share query, settings, form and calls; what differs is what each offers and what follows a call |
| `MCSchedule`, `MCRecurring`, `MCLedger`, `MCTransactions`, `MCEntryFlow`, `MCDatabaseGate`, `MCAccess`, `MCPageSession`, `MCRecordPage` | instances for TLC | |

**How state and actions correspond to code.** A variable is a table (a function
from ids to rows, or a set of rows) or an in-memory object of the server;
`request[c]` is the progress of client `c`'s request: the local variables that
the Go function still uses, and `phase`, the store call it stands before. An
action is one store call, or one `WithTx` body, with the code before and after
it up to the next one: its guard is the SQL `WHERE` and the early returns, its
last conjunct what it leaves alone. A request that is refused goes to `Idle`.
`Cancel` (`Abandon` in `Ledger`, `Disconnect` in `DatabaseGate`) is the client
that goes away, or the server that stops, between two store calls. Operators
marked *Faulty variant* are what a plausible mistake would make of the operator
that follows; they are never used by the specification and serve to show that
each property notices such a mistake.

- `Recurring`: `CreateValidate`, `CreateFind`, `CreateInsert` are
  `CreateRecurringRule`; `EnsureSettings`, `EnsureList`, then one of
  `EnsureSkip`, `EnsureGenerate` and `EnsureLimit` for each rule are
  `EnsureOccurrences`, whose transaction per rule is one step. `lapsed` is a
  history variable: rules that nobody in flight has promised to bring up to date,
  because the date changed or a request failed. `SafetyLimit` is 1000 in the code.
- `Ledger`: records of all tables are rows with an amount, a currency and the
  record they were copied from. `SettingsRead` and `SettingsWrite` are
  `UpdateSettings` before and inside its transaction.
- `Transactions`: a transaction is named by its client request id; the
  fingerprint is the payload itself. `fresh` is the five minutes during which a
  location may arrive, and `Age` ends them. History: `seen` is what a request has
  found in the row it is going to write, a deletion or the status of the location.
- `EntryFlow`: `entry` is the state of `TransactionEntry` (`phase` stands for
  `submittingRef` and the pending mutation, `at` for `submittedAtRef`), `capture`
  the promise of `useEntryLocation` for each request id, and `call[c]` what is on
  its way to handler `c`, running there, or on its way back. `Lose` is the timeout
  or a broken connection: the page stops waiting and the handler may go on. The
  server's part of each action is an action of `Transactions`, unchanged. The user
  may edit the form at any time, also during a save. Which position was found is
  abstracted, so the model knows no conflict between two different positions.
- `DatabaseGate`: a database is its book (the installation it comes from), an
  entry, the state of its schema and its sessions. `Works` and `Fails` are a
  store or file operation with the request's context: it fails if the client is
  gone, and `MaxFaults` times otherwise. `kept` are the snapshots left on the disk.
- `Access`: `credential` and `sessions` are the tables, `attempt` is the limiter's
  entry for the address from which all requests come, with time in units of five
  seconds. `SetupCheck` and `SetupInsert`, `LoginStart` to `LoginCreate`,
  `ChangeStart` to `ChangeWrite` are `Setup`, `Login` and `ChangePassword`, each
  cut at its store calls. A hash is the secret it was made from. History:
  `known` is the secret last given for a session, `orphan` says that the row a
  request names was deleted meanwhile, `lapsed` that a late write has undone a
  change (see *Races the documents do not foresee*). A renewal of the token changes
  nothing that `Access` tells apart; it is in `PageSession`.
- `PageSession`: `calls` are requests on their way, with the cookie and the token
  of the moment they were sent; `ServeOpening`, `ServeRenewing` and `ServeOther`
  are the server (`Deny` is the 401 of `authorize`, which the code also gives when
  the read of the session or the credential fails), the actions `Arrive...` what `App`, `AuthPages` and
  `SettingsPage` do with an answer. A snapshot is told by the tab that saved it.
  History: `holder` is the tab that was last given the token of a session.
- `RecordPage`: `copy` is what the query has, `exp` the currency of the settings
  the page has, `form` what is filled in. `Press`, `Save...` and `SendChange` send a
  mutation, `Serve` is the server, `Arrive` is `onSuccess` with the fetch it
  starts, `Settle` what follows when that fetch is over. History: `behind` is what
  has changed without the page being told, `meant` and `sure` are what the user
  takes the amount in the form for.

## Runs

| Run | Shows | Instance |
|---|---|---|
| `schedule` | `OccurrenceDate` names exactly the days a calendar calls due | anchors on 31 January, 29 February, 30 December, 31 October 2099 and 5 August; all frequencies; intervals 1, 2, 12; 1500 days |
| `generate` | no gap, no duplicate, no lost catch-up, nothing from dormant rules, under concurrent creation, edits, enabling, archiving and generation | 2 requests, 1 rule, 2 schedules a month apart, 2 days, limit 2 |
| `settle` | confirmation is atomic and final, snapshots are frozen, `OccurrenceBook` is implemented | 1 request, 1 rule, 3 categories of 2 kinds, own and generated request ids |
| `catch_up` | a due rule is brought up to date in the end | 2 requests, 3 days behind, limit 3, fair |
| `ledger` | amounts in range, families in one currency; only a write with stale settings mixes currencies; a fresh change keeps major units | 2 requests, 3 records, exponents 0 and 2, an amount that truncates and one that overflows |
| `transactions` | answers stand, locations and settlements keep their shape, what is deleted and what became of a location are changed only by a request that had found it otherwise, no location pends for ever | 2 requests, 1 request id, 2 payloads that differ, 2 categories, fair |
| `entry` | what the page was told is recorded is recorded; only a changed form or location is refused; a location reported after a save is that of the transaction saved | 2 handlers, 2 entries, 2 moments, 2 categories, 5 acts of the user, the device and others |
| `restore` | no request sees a replacement; the schema is current; nothing is lost; one failure is recovered from; `DatabaseVault` is implemented; neither restores nor requests starve | 2 requests, 1 session, backups of older, current and newer schema, 2 disk failures, disconnects and crashes, fair |
| `restore_cancelled` | violated: the client goes away after the copy, and the recovery is cancelled with it | 1 request |
| `access` | nobody keeps a session by a password that was replaced; what is refused stays refused; the password is replaced knowingly; guesses are spaced | 2 clients, 2 passwords, 2 rows, 3 versions, blocks from the second failure on, one tick of the clock |
| `session` | no snapshot behind a login, a quiet tab can write, a login is kept | 2 tabs, 2 sessions, 2 calls under way, 3 tokens, the last of them with one open session |
| `page` | a quiet page shows what is stored; a save records the amount that was meant | 6 pages, 2 calls and a fetch under way, exponents 0 and 1, amounts 1 and 2, 3 categories, 2 or 3 changes |

**Bounds, and why they are enough.** Two requests suffice for every race here,
since each is between one check and one write of another request; the proofs
cover any number. One rule, one transaction id and three ledger rows make every
collision happen (equal request ids, equal days, a rule with its occurrence and
its transaction); rows of different rules or ids meet only through categories
and currency. The dates are around a month end, with two schedules that share
days, so that an edit walks recorded days again. `SafetyLimit` is small so that
it is met. `Amounts` has 7, which becomes zero when two decimals are dropped,
and 4242, which passes `MaxAmount` = 5000 when two are added. `MaxFaults` = 2 lets the check
and the recovery of a restore fail, and a disconnect can come on top. `MaxActs` = 5
in `EntryFlow` counts what the user types, saves, reloads and undoes, what the
device locates and what others do (archiving, the passing of five minutes), not answers, losses or steps of the server; a save, a position, a change, a retry and an
undo fit in, each with any of its calls still running. In `access`, two rows let an id be freed and
given out again, three versions let two changes overlap and a reset follow, and
the limiter's numbers are small so that blocks begin, end and begin again; that failures
are forgotten takes one more tick, and is covered by the proof alone. In `session`, two calls suffice for an answer that overtakes another, two sessions for one
that comes after a new login, and three tokens for a login and two renewals, or for two logins
and a renewal between them; `TwoOpenOnlyEarly`
cuts off behaviours that still have two sessions open when the last token is out. In `page`, `MaxWork` counts
presses, saves, requests for the settings and changes elsewhere, not answers or
fetches: two overlapping changes (and one by another device where the bound is 3),
or a change of the currency below a form and its save, fit in. The details are opened on a plain record, or on a
pending loan whose location has failed. Exponents 0 and 1 make an amount
overflow `MaxAmount` = 20, or fail to be written with the decimals there are.
Symmetry is used for clients, rows, request ids, moments, secrets, tabs, sessions
and calls, only in runs without liveness. `access`, `session`, `page` and `schedule` may
stop, when a counter is at its bound, so deadlock is not checked there.

The type invariants of `Recurring`, `Ledger`, `Transactions`, `EntryFlow`,
`DatabaseGate` and `Access` are theorems (`TypeCorrect`, `EntryTypeCorrect`,
`AccessTyped`), and the runs do not check them again.

**Fairness, and why the code justifies it.** Goroutines of the server get on,
so a request in flight proceeds (weak fairness of `Proceed` and `Step`).
`catch_up` assumes that somebody keeps opening pages that generate occurrences
and that not every such request is cancelled (strong fairness, since other
requests may occupy the client in between); there is no scheduler that would do
it instead. `transactions` assumes that time passes and that transactions are
listed now and then (`Age`, `Read`). `restore` assumes only that requests
proceed; the order in which the gate is granted comes from the model of the
mutex and not from fairness.

## Proofs

All theorems hold for every value of the constants under the named assumptions:
`CalendarAssumption` (anchors are dates, intervals those the service accepts),
`RecurringAssumption` (schedules are valid, days are integers, the limit is
positive), `LedgerAssumption` (0 to 3 decimals, amounts between 1 and the
maximum), `TransactionsAssumption` (payloads are well formed), `EntryAssumption` (what a form
can hold is a payload, and the markers for nobody and undefined are no values),
`DatabaseGateAssumption` (uploads are databases, failures are bounded by some
number), `AccessAssumption` (clients are finitely many, row ids are
positive numbers, the markers for nothing are no values, the limits are numbers),
`PageSessionAssumption` (the markers for nobody and nothing are no tabs and no sessions,
tokens are bounded by some number), and for the pages `MoneyAssumption` (the maximum is
a number), `CategoryListAssumption` (so is that of categories) and `RecordPageAssumption`
(there is a currency, each has 0 to 3 decimals, texts are well formed, the work of a page is
bounded by some number). TLC evaluates them in every run.

- **Schedules.** `OccurrencesAscend` goes from the lengths of months over
  `MonthOffset` and `YearStart` to clamped days: a later month has a later
  clamped day. `AnchorIsFirst` is what a new cursor relies on.
  `NamesExactlyTheDaysDue` proves the arithmetic equal to its reference, which counts
  and never computes a date. `CalendarInv` ties the page to the counters: its day number is the
  anchor's plus the pages turned, its month the anchor's plus the months begun, and each
  month that is over took 28 pages or more, which bounds the sequence numbers to look at.
  The step is `NextPage` (months and years follow each other without a gap). On each page,
  `ClampedIsPage` says that a clamped day is the day shown exactly if it is in its month and the page has
  the anchor's number or ends the month below it, and `Multiples` turns remainders into
  sequence numbers.
- **Recurring.** `TypeCorrect` carries that a rule a request has found still
  exists. `NoGap` is inductive once the cursor is known to be on the schedule; an
  edit keeps it because it goes back to sequence 0, where nothing can be missing.
  `NoDuplicates` follows from the insertion that skips recorded days and from
  `OccurrencesAscend`, which keeps the days of one generation apart.
  `ConfirmationIsAtomic` strengthens the property by the unique key of
  occurrences. `CatchUpIsPromised` shows that whenever a rule becomes due, a
  request in flight is going to list or generate it. `DormantRulesRest` and
  `SnapshotsStay` are action properties, one case per action.
  `ImplementsTheBook` maps every step to a step of `OccurrenceBook` or a stutter.
- **Ledger.** `AmountsStayInRange` rests on `ScaledInRange`: what `Blocked` lets
  through stays within bounds whatever exponent it is scaled from, because check
  and scaling use the same factor. `FamiliesAgree` needs in addition that what
  is copied from is a rule or an occurrence, and that a rewrite leaves no table out.
  The two action properties go through the steps that write records:
  `OnlyStaleWritesMix` compares the currency a request holds with the one in force when
  it writes, and `FreshChangesKeepMajorUnits` needs `Comparison` (a request rewrites
  exactly when the currency it writes is not the one it has read) and the arithmetic
  of a scaling that drops or adds digits.
- **Transactions.** Each step is first reduced to its *effect* on one row
  (`TableEffect`), and the invariants are shown of effects. `LocationsKeepTheirShape`
  is not inductive by itself, since a write does not look at the row again; the
  strengthening `ManualHeld` says that a request that is about to write a location
  has seen a manual transaction, which stays manual. `DeletedStay` and
  `SettledLocationsStay` rest on `AllLetThrough`: whatever a request is about to write was
  allowed by what it had seen, so all but the deletion and the restoring have found
  the transaction undeleted, and a location in a status that admits them. What writes
  a row other than by age or expiry is then such a request (`WriterIsBelated`,
  `WriteEndsRequest`), and without the invariant it could be any.
- **EntryFlow.** `StepOfTheServer` lets the proofs use the lemmas about the tables of
  `Transactions` in the composition. `EntryInv` adds `Linked` (a handler at work on a save holds exactly
  the request of the call that the page sent), `Waits` (the page waits for the entry
  it shows) and `AnswersHold` (a positive answer on its way is backed by a row),
  from which `WhatIsToldIsRecorded` follows. `Served` sums up what the server may
  do to a call, so that its actions are treated at once. `ConflictsHaveCauses` rests on
  `OneMoment`: the moments that the calls, the row and the form have for one request id
  are one, unless a rejection made the page forget it, and before an entry is drawn
  there are none; a conflict whose moment is the recorded one differs in something else
  (`ConflictsDiffer`). `LocationsOfTheirOwn` is not inductive, since a report runs on when
  the form is long elsewhere: `OwnInv` adds that the form has left every entry whose
  location is still to be reported, that the capture of an entry it has left
  does not change any more once it has ended (`LeftKept`), and that each handler holds the operation
  of its call (`OperationsLinked`).
- **DatabaseGate.** The invariant `Inv` says for each request what the gate and
  the database are to it (`Suits`): a request being served is among the readers
  and knows the present book; one that replaces is the writer and there are no
  readers; before the copy and after the recovery the database is the rollback,
  and between copy and check it is the upload. From it follow
  `NoRequestSeesAReplacement`, `AlwaysTheCurrentSchema` and `RestoresLoseNothing`.
  `OneFailureIsRecovered` adds `Excused`: a recovery under way has a failure or a
  disconnect behind it, so that a second failure is not the only one.
  `RestoresAreAtomic` maps every step to one of `DatabaseVault` or a stutter: the vault
  holds the rollback while a restore replaces the database, and the live one otherwise.
  It adds `AllStand` to the invariant: what a restore brings was uploaded, who started
  it has a session in the rollback, and while it replaces, the live database is the
  rollback or the backup. The mapping has no queue and no mutex, so `BystanderSteps`
  covers most actions at once.
- **Access.** `HoldersKnowThePassword` is not inductive: a request between two
  store calls carries what it has read. `Inv` adds `Reads` (what a login or a change
  has verified is the password of the version it has read, which is the present one
  or older), `Keeps` (the row of a request is there unless the request is an
  orphan, and while it is open it has the present version) and `Fresh` (before the
  set-up there are no rows). `CredentialStep` says that the version never falls and
  that while it stays the secret changes only by a late rehash; `ReadOn` and
  `KeptOn` carry a request over a step that is not its own. `RefusedStays` and
  `ReplacedKnowinglyHolds` are action properties that follow from `Keeps` and `Reads`.
  `GuessesThrottled` counts the logins being verified: `Throttled` says that while
  nobody is let in, the failures and those logins together fit into the time that has
  passed, this unit included, and otherwise the failures fit into the time before it.
- **PageSession.** `SessionInv` says what each call and each tab have to do with the
  server: the cookie of a call and the data of a tab name sessions that have been
  opened, a 401 that does not come of a failed read is about a session that has ended
  for good (`Told`), a tab that was told 401 has no snapshot (`TabOK`), whether or not it shows the login yet. `TypesKept`,
  `LoginHidesTheLedger` and `CookieOfAnOpenSession` follow from it. `QuietTabsWrite` adds
  `AllWrite`: while a tab is the last to have had the token of a session renewed,
  every answer about it that is on its way has this token, and if the tab does not
  hold it, a renewal is still to be answered. It survives a second renewal because that
  one takes the place of `holder`, and a lost answer because it clears it.
- **RecordPage.** `PageInv` says for each page which calls it can have and what they
  carry (`OpsOf`, `SavesOf`, `AnswersOf`), so that an answer has the shape of the record it goes to.
  The pages of categories need `CategoriesKept`: each category is once in the active or once in the
  archived list, whatever is moved, created or archived. `QuietPagesAreCurrent` adds
  `ComesInv`: whatever the copy has not yet is in the fetch under way, or has an answer on its way that
  will start one, or is in `behind` (`RecordComes`, and `SettingsCome` for the currency); and a
  change is made only from a record that is shown (`Opened`), so that what follows
  it starts a fetch. `AmountsAreMeant` says that the text in a form is the amount it stands for, or
  empty, as long as the decimals are those it was written with (`MinorMeans`); only `Serve` changes a
  save and the record together (`ChangesAtOnce`).

**Only model-checked**: the four liveness properties `PastStartCatchesUp`,
`PendingLocationResolves`, `RestoreGetsTheGate` and `EveryoneIsServed`, since the prover has no
rule for fairness. Every invariant and every action property that a passing run checks is
also a theorem.

## Where code and documents disagree

`restore_cancelled`: the recovery of a failed restore uses the context of the
request, so a disconnect after the copy fails both the check and the recovery.
The snapshot is kept on the disk, as `NothingLost` shows, but the uploaded
database stays live.

Four more disagreements with `simfiment-development-spec.md` can be read off the
models, without a run of their own:

1. `Authenticate` answers every error of its two reads with 401 (`service.go:168` and
   `172`), and `authorize` then clears the cookie (`middleware.go:93`), so that one failed
   read signs the browser out of a session that is still open (`Deny`). The
   specification has 401 for a missing login (line 3364), 500 for an unexpected error and
   503 for a database that is unavailable for a moment (lines 3370 and 3371).
   `LoginIsKept` excepts a read that failed.
2. A failure report that saw a pending location is written after the location has
   arrived (`transactions.go:428`), and a row stays in `transaction_locations` under
   the status failed, which the specification excludes (line 2578). `LocationShape`
   allows it, and `SettledLocationStays` excepts the request that does it.
3. Two overlapping currency changes both scale from the exponent they read before
   their transactions (`settings.go:42`), and amounts grow by the factor twice,
   where the specification keeps the major-unit number (line 2873).
   `MajorUnitsKeptUnlessStale` excepts a change whose settings were stale.
4. The answer to a save is lost and its location is found before the retry: the
   location is part of the fingerprint, so the unchanged form is refused as a
   conflict, and since it keeps its request id, so is every further retry
   (`TransactionEntry.tsx:116`); the specification has the server return the recorded
   transaction (line 735). `ConflictHasCause` names a changed location as a cause.

## Races the documents do not foresee

They are part of what the code does, so no property forbids them; where a
property has to make an exception for one, the exception names it.

- A category is archived between its check and the insertion of a rule or a
  transaction (`recurring.go:49`, `transactions.go:127`).
- A record is inserted with the currency read before a currency change
  (`transactions.go:74`), which `MixedOnlyByStaleWrites` singles out.
- An edit is written after a deletion that came between its check and its write
  (`transactions.go:310`); `DeletedStaysAsItIs` excepts only a request that had found the
  transaction undeleted. A location that is attached, removed or marked as failed
  between another's check and write is overwritten likewise (`transactions.go:424`);
  `SettledLocationStays` excepts only a request that had seen a status with which it may.
- The 401 to a call made before a new login takes the newer cookie away and signs the
  newer page out (`middleware.go:93`, `client.ts:74`); `LoginIsKept` excepts it.
- After a rejection the page forgets the moment of the first try, although an
  earlier call may still record it (`TransactionEntry.tsx:150`): its retry is then a
  conflict, which `ConflictHasCause` excepts.
- A rule more than 1000 days behind is accepted, but every generation rolls back at
  the limit (`recurring.go:181`) and its occurrences never come, nor does a login
  succeed (`service.go:144`). `PastStartCatchesUp` holds in `catch_up`, where
  `SafetyLimit` is as large as the days to catch up with, and fails with a limit that
  is one smaller.
- A login that verified the old password rehashes it after the password was
  changed, keeping the new version (`service.go:136`, `store.go:222`): the old password
  is valid again. A change of the password that was verified before another change
  is written after it (`service.go:213`), and so is one whose session was deleted
  meanwhile, which then brings up the row that was given the same id
  (`service.go:241`). `lapsed` and `orphan` name these in `HoldersKnowThePassword`,
  `RefusedStaysRefused` and `ReplacedKnowingly`.
- Attempts let in together before the first failure is counted go past the limit by
  their number (`limiter.go:33`); `GuessesAreThrottled` allows as many as there are
  clients in each unit of time.
- Two loads of one tab rotate the token, and the older answer may come last;
  `QuietTabCanWrite` excepts it, and another tab's renewal, by `holder`.
- The currency changes while a page is being fetched for the first time: the
  invalidation joins that fetch instead of starting another, and the older copy stays
  (`SettingsPage.tsx:80`). `QuietPageIsCurrent` excepts it, along with lost answers, by
  `behind`.
- A form is filled in from a copy in the old currency while the settings are already
  in the new one (`BudgetsPage.tsx:82`); `AmountsAsMeant` excepts it by `sure`, and a
  change of currency that the page does not know of by the comparison of `exp` and
  `unit`.
- The dialog that renames a category sends the icon of the moment it was opened, and a
  move sends the whole order that is shown (`SettingsPage.tsx:688`): a change made
  meanwhile is undone.
- Every submission of a new rule has a request id of its own
  (`RecurringPage.tsx:116`), so a retry after a lost answer creates a second rule.
- A fetch that ends while the details are being edited fills the form in anew
  (`TransactionDetails.tsx:53`), and what was typed is gone.

## Not modelled

- Hashing, request decoding, text and translations, layout, the components of the
  interface, charts, static files and the SQL engine: no state of the program, or an
  outcome that the models leave open.
- Dashboards, the preview of a rule, lists with their filters and pages, exports
  and status: pure reads of tables that the models change in single steps. The daily
  shares of a budget are a formula of one such read.
- The process: start, stop, configuration and the command line, but for the reset of
  the password and the crash of a restore. Of the migrations, only that they succeed
  or fail as a whole is in `DatabaseGate`; each runs in a transaction of its own, so a
  start after a failure goes on where it stopped.
- Of the entry form: adding a category from it, the balance it shows, and which of
  two positions was found for one entry. Of the categories: which names are taken
  (any change may be refused), and those of the other kind.

What would come next: the safety half of the liveness properties, that is which
request or passing of time each of them waits for, as `CatchUpIsPromised` has it for the
rules; and an abstract specification of the page, a view that is refreshed after each change, which
`RecordPage` implements but for what is in `behind`.
