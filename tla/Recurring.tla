------------------------------ MODULE Recurring -----------------------------
(***************************************************************************)
(* Recurring rules, the lazy generation of their occurrences, and the      *)
(* confirmation or skipping of an occurrence (internal/service/recurring,  *)
(* internal/store/recurring), with the archiving of the categories they    *)
(* use (internal/service/categories).                                      *)
(*                                                                         *)
(* The database has one connection: a store call outside a transaction is  *)
(* one step, a WithTx body is one step, and the steps of different HTTP    *)
(* requests interleave.  request[c] is what client c's request has read    *)
(* and where it stands; the rest is what the tables hold.                  *)
(***************************************************************************)
EXTENDS Schedule, FiniteSets

CONSTANTS
    Clients,      \* requests that run at the same time
    Rules,        \* the client request ids under which rules are created
    Schedules,    \* the schedules a user may give a rule
    Templates,    \* the amounts and titles a user may give a rule
    Categories,
    KindOf,       \* the kind of each category
    RequestIds,   \* the request ids a client may confirm with
    Days,         \* the days the installation's local date can show
    FirstDay,
    SafetyLimit   \* 1000 in the code

Kinds == {"expense", "income"}

ASSUME RecurringAssumption ==
    /\ Schedules \subseteq Schedule
    /\ KindOf \in [Categories -> Kinds]
    /\ Days \subseteq Int
    /\ FirstDay \in Days
    /\ SafetyLimit \in Nat \ {0}

VARIABLES
    today,        \* the local date, by the server's clock and settings.timezone
    active,       \* the categories that are not archived
    rules,        \* recurring_rules: a row for each request id used
    occurrences,  \* recurring_occurrences
    posted,       \* the transactions whose source is an occurrence
    request,      \* the request each client has in flight
    lapsed        \* history: the rules nobody promises to bring up to date

vars == <<today, active, rules, occurrences, posted, request, lapsed>>

\* The fields a rule's owner chooses.
RuleFields == [schedule : Schedules, template : Templates, category : Categories]

Rule == [schedule : Schedules, template : Templates, category : Categories,
         enabled : BOOLEAN, archived : BOOLEAN, nextSequence : Nat, nextDueOn : Int]

Occurrence == [rule : Rules, scheduledOn : Int, template : Templates,
               category : Categories, status : {"pending", "confirmed", "skipped"}]

\* A transaction's request id is the client's own or made from the occurrence.
TransactionId == RequestIds \cup (Rules \X Int)

Posted == [rule : Rules, scheduledOn : Int, requestId : TransactionId,
           kind : Kinds, category : Categories]

Idle == [phase |-> "idle"]

Request ==
    {Idle}
    \cup [phase : {"create.find", "create.insert", "update.write"},
          rule : Rules, fields : RuleFields]
    \cup [phase : {"enable.write"}, rule : Rules, enabled : BOOLEAN]
    \cup [phase : {"ensure.settings"}]
    \cup [phase : {"ensure.list"}, through : Days]
    \cup [phase : {"ensure.rule"}, through : Days, due : SUBSET Rules]

Existing == DOMAIN rules

\* Faulty variant: a disabled rule stays due.
DueByEvenDisabled(rule, through) == ~rule.archived /\ rule.nextDueOn <= through

\* The condition of ListDueRules and of the re-read inside the transaction.
DueBy(rule, through) ==
    rule.enabled /\ ~rule.archived /\ rule.nextDueOn <= through

Behind(r) == r \in Existing /\ DueBy(rules[r], today)

\* A rule a request has found stays: rules are archived, never deleted.
RequestsHoldRules ==
    \A c \in Clients :
        /\ request[c].phase \in {"update.write", "enable.write"} => request[c].rule \in Existing
        /\ request[c].phase = "ensure.rule" => request[c].due \subseteq Existing

TypeOK ==
    /\ today \in Days
    /\ active \in SUBSET Categories
    /\ Existing \in SUBSET Rules
    /\ rules \in [Existing -> Rule]
    /\ occurrences \in SUBSET Occurrence
    /\ posted \in SUBSET Posted
    /\ request \in [Clients -> Request]
    /\ lapsed \in SUBSET Rules
    /\ RequestsHoldRules

Init ==
    /\ today = FirstDay
    /\ active = Categories
    /\ rules = [r \in {} |-> Idle]
    /\ occurrences = {}
    /\ posted = {}
    /\ request = [c \in Clients |-> Idle]
    /\ lapsed = {}

-----------------------------------------------------------------------------
(* Helpers *)

Reply(c) == request' = [request EXCEPT ![c] = Idle]

Goto(c, next) == request' = [request EXCEPT ![c] = next]

StartEnsure(c) == Goto(c, [phase |-> "ensure.settings"])

\* The rules that are behind join the lapsed ones: the request that would have
\* brought them up to date has failed.
Excuse == lapsed' = lapsed \cup {r \in Rules : Behind(r)}

\* InsertRecurringRule and UpdateRecurringRule start at the anchor.
AtAnchor(f, enabled, archived) ==
    [schedule |-> f.schedule, template |-> f.template, category |-> f.category,
     enabled |-> enabled, archived |-> archived,
     nextSequence |-> 0, nextDueOn |-> DayOf(f.schedule.startOn)]

\* Faulty variant: an edit keeps the old cursor's sequence number.
RewrittenKeepingSequence(rule, f) ==
    [AtAnchor(f, rule.enabled, rule.archived) EXCEPT !.nextSequence = rule.nextSequence]

Rewritten(rule, f) == AtAnchor(f, rule.enabled, rule.archived)

\* InsertPendingOccurrence: ON CONFLICT(rule_id, scheduled_on) DO NOTHING.
Pending(r, rule, day) ==
    [rule |-> r, scheduledOn |-> day, template |-> rule.template,
     category |-> rule.category, status |-> "pending"]

Recorded(r, day) == \E o \in occurrences : o.rule = r /\ o.scheduledOn = day

\* The loop starts at the stored next_due_on and computes the later days.
DayAt(rule, k) ==
    IF k = rule.nextSequence THEN rule.nextDueOn ELSE OccurrenceDate(rule.schedule, k)

\* Faulty variant: the limit is met one day too early.
LoopEndsUnderLimit(rule, through, n) ==
    /\ n \in (rule.nextSequence + 1)..(rule.nextSequence + SafetyLimit - 1)
    /\ DayAt(rule, n) > through
    /\ \A k \in rule.nextSequence..(n - 1) : DayAt(rule, k) <= through

\* The sequence number at which the generating loop ends: the first whose day
\* lies after through, if at most SafetyLimit days come before it.
LoopEnds(rule, through, n) ==
    /\ n \in (rule.nextSequence + 1)..(rule.nextSequence + SafetyLimit)
    /\ DayAt(rule, n) > through
    /\ \A k \in rule.nextSequence..(n - 1) : DayAt(rule, k) <= through

\* Faulty variant: the unique key is not relied on.
InsertedRegardless(r, rule, n) ==
    {Pending(r, rule, DayAt(rule, k)) : k \in rule.nextSequence..(n - 1)}

\* The snapshots inserted before the loop ends at n.
Inserted(r, rule, n) ==
    {Pending(r, rule, DayAt(rule, k)) :
        k \in {k \in rule.nextSequence..(n - 1) : ~Recorded(r, DayAt(rule, k))}}

-----------------------------------------------------------------------------
(* CreateRecurringRule *)

CreateValidate(c, r, f) ==
    /\ request[c] = Idle
    /\ f.category \in active
    /\ Goto(c, [phase |-> "create.find", rule |-> r, fields |-> f])
    /\ UNCHANGED <<today, active, rules, occurrences, posted, lapsed>>

\* FindRecurringRuleByRequestID: a request id used before answers with its rule.
CreateFind(c) ==
    /\ request[c].phase = "create.find"
    /\ IF request[c].rule \in Existing
       THEN Reply(c)
       ELSE Goto(c, [request[c] EXCEPT !.phase = "create.insert"])
    /\ UNCHANGED <<today, active, rules, occurrences, posted, lapsed>>

\* The unique client_request_id refuses the slower of two equal requests.
CreateInsert(c) ==
    /\ request[c].phase = "create.insert"
    /\ IF request[c].rule \in Existing
       THEN Reply(c) /\ UNCHANGED rules
       ELSE /\ rules' = [r \in Existing \cup {request[c].rule} |->
                           IF r \in Existing THEN rules[r]
                           ELSE AtAnchor(request[c].fields, TRUE, FALSE)]
            /\ StartEnsure(c)
    /\ UNCHANGED <<today, active, occurrences, posted, lapsed>>

(* UpdateRecurringRule: no check that the rule is not archived *)

UpdateValidate(c, r, f) ==
    /\ request[c] = Idle
    /\ r \in Existing
    /\ f.category \in active
    /\ Goto(c, [phase |-> "update.write", rule |-> r, fields |-> f])
    /\ UNCHANGED <<today, active, rules, occurrences, posted, lapsed>>

\* Faulty variant: the edit is carried into the occurrences still pending.
UpdateWriteRefreshing(c) ==
    LET r == request[c].rule
        f == request[c].fields
    IN  /\ request[c].phase = "update.write"
        /\ rules' = [rules EXCEPT ![r] = Rewritten(@, f)]
        /\ occurrences' =
              {IF o.rule = r /\ o.status = "pending"
               THEN [o EXCEPT !.template = f.template, !.category = f.category] ELSE o :
                 o \in occurrences}
        /\ StartEnsure(c)
        /\ UNCHANGED <<today, active, posted, lapsed>>

UpdateWrite(c) ==
    /\ request[c].phase = "update.write"
    /\ rules' = [rules EXCEPT ![request[c].rule] = Rewritten(@, request[c].fields)]
    /\ StartEnsure(c)
    /\ UNCHANGED <<today, active, occurrences, posted, lapsed>>

(* SetRecurringRuleEnabled: no look at the rule's category *)

EnableValidate(c, r, enabled) ==
    /\ request[c] = Idle
    /\ r \in Existing
    /\ ~rules[r].archived
    /\ Goto(c, [phase |-> "enable.write", rule |-> r, enabled |-> enabled])
    /\ UNCHANGED <<today, active, rules, occurrences, posted, lapsed>>

\* Faulty variant: enabling a rule answers without generating.
EnableWriteOnly(c) ==
    /\ request[c].phase = "enable.write"
    /\ rules' = [rules EXCEPT ![request[c].rule].enabled =
                    IF rules[request[c].rule].archived THEN @ ELSE request[c].enabled]
    /\ Reply(c)
    /\ UNCHANGED <<today, active, occurrences, posted, lapsed>>

EnableWrite(c) ==
    /\ request[c].phase = "enable.write"
    /\ rules' = [rules EXCEPT ![request[c].rule].enabled =
                    IF rules[request[c].rule].archived THEN @ ELSE request[c].enabled]
    /\ IF request[c].enabled THEN StartEnsure(c) ELSE Reply(c)
    /\ UNCHANGED <<today, active, occurrences, posted, lapsed>>

\* ArchiveRecurringRule: rules are never deleted, so its look-up and its one
\* UPDATE are one step.
ArchiveRecurringRule(r) ==
    /\ r \in Existing
    /\ rules' = [rules EXCEPT ![r].enabled = FALSE, ![r].archived = TRUE]
    /\ UNCHANGED <<today, active, occurrences, posted, request, lapsed>>

-----------------------------------------------------------------------------
(* EnsureOccurrences: for itself (a login, a dashboard, the list of        *)
(* occurrences) or at the end of a create, an update or an enable          *)

EnsureOccurrences(c) ==
    /\ request[c] = Idle
    /\ StartEnsure(c)
    /\ UNCHANGED <<today, active, rules, occurrences, posted, lapsed>>

EnsureSettings(c) ==
    /\ request[c].phase = "ensure.settings"
    /\ Goto(c, [phase |-> "ensure.list", through |-> today])
    /\ UNCHANGED <<today, active, rules, occurrences, posted, lapsed>>

EnsureList(c) ==
    LET through == request[c].through
        due == {r \in Existing : DueBy(rules[r], through)}
    IN  /\ request[c].phase = "ensure.list"
        /\ Goto(c, [phase |-> "ensure.rule", through |-> through, due |-> due])
        /\ lapsed' = IF through = today THEN lapsed \cap due ELSE lapsed
        /\ UNCHANGED <<today, active, rules, occurrences, posted>>

\* One rule is done with: it is up to date by the day the request looked at.
RuleDone(c, r) ==
    /\ Goto(c, [request[c] EXCEPT !.due = @ \ {r}])
    /\ lapsed' = IF request[c].through = today THEN lapsed \ {r} ELSE lapsed

\* The re-read rule is no longer due: nothing is generated.  The code goes
\* through the list by rule id; any order is allowed here.
EnsureSkip(c, r) ==
    /\ request[c].phase = "ensure.rule"
    /\ r \in request[c].due
    /\ ~DueBy(rules[r], request[c].through)
    /\ RuleDone(c, r)
    /\ UNCHANGED <<today, active, rules, occurrences, posted>>

\* The whole transaction of one rule: insertions and cursor together.
EnsureGenerate(c, r) ==
    /\ request[c].phase = "ensure.rule"
    /\ r \in request[c].due
    /\ DueBy(rules[r], request[c].through)
    /\ \E n \in (rules[r].nextSequence + 1)..(rules[r].nextSequence + SafetyLimit) :
          /\ LoopEnds(rules[r], request[c].through, n)
          /\ occurrences' = occurrences \cup Inserted(r, rules[r], n)
          /\ rules' = [rules EXCEPT ![r].nextSequence = n,
                                    ![r].nextDueOn = DayAt(rules[r], n)]
    /\ RuleDone(c, r)
    /\ UNCHANGED <<today, active, posted>>

\* recurrence_safety_limit: the rule's transaction rolls back and the request
\* fails, with the rules it has not come to.
EnsureLimit(c, r) ==
    /\ request[c].phase = "ensure.rule"
    /\ r \in request[c].due
    /\ DueBy(rules[r], request[c].through)
    /\ ~\E n \in (rules[r].nextSequence + 1)..(rules[r].nextSequence + SafetyLimit) :
          LoopEnds(rules[r], request[c].through, n)
    /\ Reply(c)
    /\ Excuse
    /\ UNCHANGED <<today, active, rules, occurrences, posted>>

EnsureReturn(c) ==
    /\ request[c].phase = "ensure.rule"
    /\ request[c].due = {}
    /\ Reply(c)
    /\ UNCHANGED <<today, active, rules, occurrences, posted, lapsed>>

\* The client goes away or the server stops between two steps: a cancelled
\* request context fails the next store call, what was written stays.
Cancel(c) ==
    /\ request[c] # Idle
    /\ Reply(c)
    /\ Excuse
    /\ UNCHANGED <<today, active, rules, occurrences, posted>>

\* Midnight, an adjusted clock, or UpdateSettings with another time zone.
DateChanges ==
    /\ today' \in Days \ {today}
    /\ lapsed' = lapsed \cup {r \in Existing : DueBy(rules[r], today')}
    /\ UNCHANGED <<active, rules, occurrences, posted, request>>

-----------------------------------------------------------------------------
(* Occurrences *)

Transition(o, status) ==
    occurrences' = (occurrences \ {o}) \cup {[o EXCEPT !.status = status]}

\* Faulty variant: the status is looked at but never written.
ConfirmWithoutTransition(o, id, category) ==
    /\ o \in occurrences
    /\ o.status = "pending"
    /\ category \in active
    /\ \A p \in posted : p.requestId # id
    /\ posted' = posted \cup {[rule |-> o.rule, scheduledOn |-> o.scheduledOn,
                    requestId |-> id, kind |-> KindOf[o.category], category |-> category]}
    /\ UNCHANGED <<today, active, rules, occurrences, request, lapsed>>

\* ConfirmOccurrence, one transaction.  A unique request id and a unique
\* recurring_occurrence_id make the insertion fail, which rolls it all back.
\* The category is the snapshot's or the one the user overrides it with, and so
\* is the time: an occurrence of a day to come is confirmed with an earlier one.
ConfirmOccurrence(o, id, category) ==
    /\ o \in occurrences
    /\ o.status = "pending"
    /\ category \in active
    /\ KindOf[category] = KindOf[o.category]
    /\ \A p \in posted :
          p.requestId # id /\ <<p.rule, p.scheduledOn>> # <<o.rule, o.scheduledOn>>
    /\ posted' = posted \cup {[rule |-> o.rule, scheduledOn |-> o.scheduledOn,
                    requestId |-> id, kind |-> KindOf[o.category], category |-> category]}
    /\ Transition(o, "confirmed")
    /\ UNCHANGED <<today, active, rules, request, lapsed>>

\* Faulty variant: UPDATE without AND status = 'pending'.
SkipAnyOccurrence(o) ==
    /\ o \in occurrences
    /\ Transition(o, "skipped")
    /\ UNCHANGED <<today, active, rules, posted, request, lapsed>>

SkipOccurrence(o) ==
    /\ o \in occurrences
    /\ o.status = "pending"
    /\ Transition(o, "skipped")
    /\ UNCHANGED <<today, active, rules, posted, request, lapsed>>

-----------------------------------------------------------------------------
(* Categories *)

\* ArchiveCategory, one transaction.
ArchiveCategory(category) ==
    /\ category \in active
    /\ \E other \in active \ {category} : KindOf[other] = KindOf[category]
    /\ \A r \in Existing :
          rules[r].category = category => ~rules[r].enabled \/ rules[r].archived
    /\ active' = active \ {category}
    /\ UNCHANGED <<today, rules, occurrences, posted, request, lapsed>>

RestoreCategory(category) ==
    /\ category \notin active
    /\ active' = active \cup {category}
    /\ UNCHANGED <<today, rules, occurrences, posted, request, lapsed>>

-----------------------------------------------------------------------------

\* The steps of a request in flight, up to its answer.
Proceed(c) ==
    \/ CreateFind(c) \/ CreateInsert(c)
    \/ UpdateWrite(c)
    \/ EnableWrite(c)
    \/ EnsureSettings(c) \/ EnsureList(c) \/ EnsureReturn(c)
    \/ \E r \in Rules : EnsureSkip(c, r) \/ EnsureGenerate(c, r) \/ EnsureLimit(c, r)

Arrive(c) ==
    \/ \E r \in Rules, f \in RuleFields : CreateValidate(c, r, f) \/ UpdateValidate(c, r, f)
    \/ \E r \in Rules, enabled \in BOOLEAN : EnableValidate(c, r, enabled)
    \/ EnsureOccurrences(c)

Next ==
    \/ \E c \in Clients : Arrive(c) \/ Proceed(c) \/ Cancel(c)
    \/ \E r \in Rules : ArchiveRecurringRule(r)
    \/ \E o \in occurrences :
          \/ SkipOccurrence(o)
          \/ \E id \in RequestIds \cup {<<o.rule, o.scheduledOn>>}, category \in Categories :
                ConfirmOccurrence(o, id, category)
    \/ \E category \in Categories : ArchiveCategory(category) \/ RestoreCategory(category)
    \/ DateChanges

Spec == Init /\ [][Next]_vars

\* A request that goes on is answered, and somebody opens again and again a page
\* that generates occurrences, without every such request being cancelled.
Fairness ==
    /\ \A c \in Clients :
          /\ WF_vars(Proceed(c))
          /\ SF_vars(EnsureOccurrences(c))
          /\ SF_vars(EnsureSettings(c))
          /\ SF_vars(EnsureList(c))
    /\ \A c \in Clients, r \in Rules : SF_vars(EnsureGenerate(c, r))

FairSpec == Spec /\ Fairness

-----------------------------------------------------------------------------
(* Properties *)

\* The stored next_due_on is always the day of the stored next_sequence, and
\* no day before it is missing: whatever edits, disablings, archivings and
\* concurrent generations happened, a rule has an occurrence for every day of
\* its present schedule up to its cursor (13.4 and 13.8 of the specification).
CursorOnSchedule ==
    \A r \in Existing :
        rules[r].nextDueOn = OccurrenceDate(rules[r].schedule, rules[r].nextSequence)

NoDayMissing ==
    \A r \in Existing : \A k \in 0..(rules[r].nextSequence - 1) :
        Recorded(r, OccurrenceDate(rules[r].schedule, k))

CursorHasNoGap == CursorOnSchedule /\ NoDayMissing

\* Concurrent generation creates no duplicates: a rule has at most one
\* occurrence for a day, also after an edit sends the cursor back to the anchor
\* and the days are walked again.
OneOccurrencePerDay ==
    \A o, p \in occurrences : o.rule = p.rule /\ o.scheduledOn = p.scheduledOn => o = p

\* A confirmed occurrence has exactly one transaction, of its own kind, and a
\* pending or skipped one has none (20.5 of the specification), whichever
\* requests confirm and skip it at the same time or reuse a request id.
ConfirmedExactlyWhenPosted ==
    /\ \A o \in occurrences :
          LET ofIt == {p \in posted : p.rule = o.rule /\ p.scheduledOn = o.scheduledOn}
          IN  IF o.status = "confirmed"
              THEN \E p \in ofIt : ofIt = {p} /\ p.kind = KindOf[o.category]
              ELSE ofIt = {}
    /\ \A p \in posted : Recorded(p.rule, p.scheduledOn)
    /\ \A p, q \in posted : p.requestId = q.requestId => p = q

\* The request in flight that is going to bring rule r up to date.
Promises(c, r) ==
    \/ request[c].phase = "ensure.settings"
    \/ request[c].phase = "ensure.list" /\ request[c].through = today
    \/ request[c].phase = "ensure.rule" /\ request[c].through = today /\ r \in request[c].due

\* A rule that is enabled and due is on its way to its occurrences: some request
\* in flight will generate them, unless the date has changed or a request has
\* failed since it was last up to date.  No interleaving of creations, edits,
\* enablings and generations leaves a due rule behind with nobody at work.
NoLostCatchUp ==
    \A r \in Rules : Behind(r) => r \in lapsed \/ \E c \in Clients : Promises(c, r)

OccurrencesStay ==
    \A o \in occurrences :
        \/ o \in occurrences'
        \/ o.status = "pending" /\ \E status \in {"confirmed", "skipped"} :
                [o EXCEPT !.status = status] \in occurrences'

\* What an occurrence recorded never changes, and neither does a status that is
\* no longer pending: editing a rule touches no pending, confirmed or skipped
\* occurrence (13.5 and 13.8 of the specification).
SnapshotsAreFrozen == [][OccurrencesStay]_occurrences

ActiveRulesGain ==
    \A o \in occurrences' :
        \/ Recorded(o.rule, o.scheduledOn)
        \/ o.rule \in Existing /\ rules[o.rule].enabled /\ ~rules[o.rule].archived

\* Only a rule that is enabled and not archived at that moment gains
\* occurrences, though the list of due rules was read earlier.
DormantRulesGenerateNothing == [][ActiveRulesGain]_occurrences

\* Past start dates catch up through today: an enabled rule that is due has, in
\* the end, no day left to generate (29.2 of the specification).
PastStartCatchesUp == \A r \in Rules : Behind(r) ~> ~Behind(r)

\* Recurring implements OccurrenceBook: no interleaving of requests generates,
\* confirms, skips or books an occurrence in any other way.
ItemsIn(status) ==
    {<<o.rule, o.scheduledOn>> : o \in {o \in occurrences : o.status = status}}

Book == INSTANCE OccurrenceBook WITH
            pending <- ItemsIn("pending"),
            confirmed <- ItemsIn("confirmed"),
            skipped <- ItemsIn("skipped"),
            booked <- {<<p.rule, p.scheduledOn>> : p \in posted}

KeepsTheBook == Book!Spec
=============================================================================
