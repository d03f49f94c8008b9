------------------------------ MODULE Alerting ------------------------------
(***************************************************************************)
(* The alert evaluation job (workers/jobs/alert_evaluation_job.py), the    *)
(* tables it works on (AlertRepository in db/repository.py) and the admin  *)
(* endpoints that edit the rules.  A run of the job seeds the default      *)
(* rules into an empty table, evaluates the enabled rules and the SLOs,    *)
(* opens or counts up one incident per firing, notifies the webhook once a *)
(* rule has fired often enough in a row, and resolves the incidents that   *)
(* no longer fire.  The scheduler enqueues the job periodically and any    *)
(* free worker takes it, so runs of it can overlap.                        *)
(*                                                                         *)
(* Every commit of the job is a step, and so is every notification.  A     *)
(* metric is abstracted to whether it is in breach; "none" is an SLO       *)
(* without data (insufficient_data).  For a rule no data counts as 0.0,    *)
(* which is either in breach or not.  A counter of violations is only      *)
(* compared with consecutive_cycles and saturates above MaxCycles.         *)
(***************************************************************************)
EXTENDS Integers, Sequences, Functions, Filtering

CONSTANTS
    RuleOrder,      \* the default rules, in order of their names
    SloOrder,       \* the SLOs, in the order of slo_definitions.yaml
    Cycles,         \* consecutive_cycles of each default rule
    MaxCycles,      \* the largest consecutive_cycles considered
    Jobs,           \* runs of the job that may overlap
    ListLimit,      \* the default limit of list_incidents
    MaxIncidents,   \* incident identifiers in use at one time
    MaxRetries,     \* max_retries of the webhook channel: POSTs for one notification
    Settings        \* the surroundings considered, see below

Rules == Range(RuleOrder)
Slos == Range(SloOrder)
Names == Rules \cup Slos

(* The rules and SLOs in use, the runs that may overlap, and what else may
   happen.  "crash": a run dies or one of its commits fails; "webhook": POSTs
   or their answers are lost; "toggle": an administrator adds, disables or
   deletes rules; "retune": changes their consecutive_cycles; "no_data": the
   window of an SLO is empty. *)
Setting ==
    [names: {N \in SUBSET Names : N \cap Rules # {}},
     jobs: (SUBSET Jobs) \ {{}},
     faults: SUBSET {"crash", "webhook", "toggle", "retune", "no_data"}]

ASSUME AlertingAssumption ==
    /\ RuleOrder \in Seq(STRING) /\ IsInjective(RuleOrder)
    /\ SloOrder \in Seq(STRING) /\ IsInjective(SloOrder)
    /\ Rules \cap Slos = {} /\ Rules # {}
    /\ MaxCycles \in Nat \ {0} /\ Cycles \in [Rules -> 1 .. MaxCycles]
    /\ ListLimit \in Nat \ {0} /\ MaxIncidents \in Nat \ {0}
    /\ MaxRetries \in Nat \ {0}
    /\ Settings \subseteq Setting

VARIABLES
    rules,      \* alert_rules: cycles (0: no such row) and is_enabled
    data,       \* per rule or SLO, what its metric says now
    incidents,  \* alert_incidents, by fired_at
    jobs,       \* the local state of each run
    streak,     \* per name, evaluations in a row in which it fired (history)
    setting     \* the surroundings of this behaviour

vars == <<rules, data, incidents, jobs, streak, setting>>

Faults == setting.faults

(* The default rules that are in use. *)
Defaults == Where(RuleOrder, setting.names)

Ids == 1 .. MaxIncidents
Count == 0 .. MaxCycles + 1
Inc(n) == IF n > MaxCycles THEN n ELSE n + 1

(* by is the run that opened the incident and posts the number of copies of
   its firing that the webhook's receiver has got; both are history. *)
Incident == [id: Ids, name: Names, by: Jobs, status: {"firing", "resolved"},
             violations: Count, posts: 0 .. MaxRetries + 1]

Idle == [pc |-> "idle", active |-> [r \in Rules |-> 0], firing |-> {},
         todo |-> <<>>, cur |-> 0, seen |-> 0, listed |-> <<>>]

Job == [pc: {"idle", "failed", "seeding", "evaluate", "read", "write",
             "notify", "list", "resolve", "resolved"},
        active: [Rules -> 0 .. MaxCycles], firing: SUBSET Names,
        todo: Seq(Names), cur: Ids \cup {0},
        seen: Count, listed: Seq(Ids)]

TypeOK ==
    /\ rules \in [Rules -> [cycles: 0 .. MaxCycles, enabled: BOOLEAN]]
    /\ data \in [Names -> {"ok", "breach", "none"}]
    /\ incidents \in Seq(Incident)
    /\ jobs \in [Jobs -> Job]
    /\ streak \in [Names -> Count]
    /\ setting \in Settings

Init ==
    /\ rules = [r \in Rules |-> [cycles |-> 0, enabled |-> FALSE]]
    /\ data = [n \in Names |-> "ok"]
    /\ incidents = <<>>
    /\ jobs = [j \in Jobs |-> Idle]
    /\ streak = [n \in Names |-> 0]
    /\ setting \in Settings

Firing(rows) == Where(rows, {r \in Incident : r.status = "firing"})

(* The history of resolved incidents that no run refers to is forgotten, and
   their identifiers are free again. *)
Kept(rows, js) ==
    Where(rows, {r \in Incident :
        \/ r.status = "firing"
        \/ \E j \in Jobs : r.id = js[j].cur \/ r.id \in Range(js[j].listed)})

Commit(rows, j, b) ==
    LET js == [jobs EXCEPT ![j] = b]
    IN  jobs' = js /\ incidents' = Kept(rows, js)

(* The rows with the one of identifier id changed by f. *)
Changed(id, f(_)) ==
    [i \in DOMAIN incidents |->
        IF incidents[i].id = id THEN f(incidents[i]) ELSE incidents[i]]

-----------------------------------------------------------------------------
(* A run of the job.                                                       *)

(* list_alert_rules: an empty table is seeded first. *)
Begin(j) ==
    /\ jobs[j].pc \in {"idle", "failed"}
    /\ jobs' = [jobs EXCEPT ![j] =
           IF \A r \in Rules : rules[r].cycles = 0
           THEN [Idle EXCEPT !.pc = "seeding", !.todo = Defaults]
           ELSE [Idle EXCEPT !.pc = "evaluate"]]
    /\ UNCHANGED <<rules, data, incidents, streak, setting>>

(* upsert_alert_rule commits one default rule at a time.  A row that is there
   was either seen, and is overwritten, or came in between, and the unique
   index on the name makes the insert raise. *)
Seed(j) ==
    LET b == jobs[j]
        r == Head(b.todo)
        rest == Tail(b.todo)
    IN  /\ b.pc = "seeding"
        /\ \/ /\ rules' = [rules EXCEPT
                     ![r] = [cycles |-> Cycles[r], enabled |-> TRUE]]
              /\ jobs' = [jobs EXCEPT ![j].todo = rest,
                     ![j].pc = IF rest = <<>> THEN "evaluate" ELSE "seeding"]
           \/ /\ rules[r].cycles # 0
              /\ jobs' = [jobs EXCEPT ![j] = [Idle EXCEPT !.pc = "failed"]]
              /\ UNCHANGED rules
        /\ UNCHANGED <<data, incidents, streak, setting>>

(* evaluate_rules over the enabled rules and evaluate_slos: which of them
   fire.  The firings are worked off rules first. *)
Evaluate(j) ==
    LET active == [r \in Rules |-> IF rules[r].enabled THEN rules[r].cycles ELSE 0]
        firing == {n \in Names : data[n] = "breach" /\ (n \in Rules => active[n] > 0)}
        todo == Where(RuleOrder \o SloOrder, firing)
    IN  /\ jobs[j].pc = "evaluate"
        /\ jobs' = [jobs EXCEPT ![j] =
               [Idle EXCEPT !.pc = IF todo = <<>> THEN "list" ELSE "read",
                            !.active = active, !.firing = firing, !.todo = todo]]
        /\ streak' = [n \in Names |-> IF n \in firing THEN Inc(streak[n]) ELSE 0]
        /\ UNCHANGED <<rules, data, incidents, setting>>

(* Slip: the open incident is not found. *)
Read_blind(j) ==
    /\ jobs[j].pc = "read"
    /\ jobs' = [jobs EXCEPT ![j].pc = "write"]
    /\ UNCHANGED <<rules, data, incidents, streak, setting>>

(* get_open_incident_by_rule_name: scalar_one_or_none raises on two rows. *)
Read(j) ==
    LET b == jobs[j]
        open == Where(incidents, {r \in Incident : r.status = "firing" /\ r.name = Head(b.todo)})
    IN  /\ b.pc = "read"
        /\ jobs' = [jobs EXCEPT ![j] =
               CASE Len(open) = 0 -> [b EXCEPT !.pc = "write"]
                 [] Len(open) = 1 -> [b EXCEPT !.pc = "write", !.cur = open[1].id,
                                               !.seen = open[1].violations]
                 [] OTHER -> [Idle EXCEPT !.pc = "failed"]]
        /\ UNCHANGED <<rules, data, incidents, streak, setting>>

(* The next firing of the loop, or the incidents to resolve. *)
Advance(b) ==
    LET rest == Tail(b.todo)
    IN  [b EXCEPT !.todo = rest, !.cur = 0, !.seen = 0,
                  !.pc = IF rest = <<>> THEN "list" ELSE "read"]

(* Slip: every firing counts as one to notify. *)
Due_always(b) == TRUE

(* Slip: at least, instead of exactly, consecutive_cycles. *)
Due_at_least(b) ==
    LET n == Head(b.todo)
    IN  IF n \in Rules THEN b.seen + 1 >= b.active[n] ELSE b.cur = 0

(* Slip: only a new incident is notified. *)
Due_when_new(b) ==
    LET n == Head(b.todo)
    IN  b.cur = 0 /\ (n \in Rules => 1 >= b.active[n])

(* Whether the firing is to be notified: a rule when its count of violations
   reaches consecutive_cycles, an SLO when its incident is new. *)
Due(b) ==
    LET n == Head(b.todo)
    IN  IF b.cur = 0
        THEN n \in Rules => 1 >= b.active[n]
        ELSE n \in Rules /\ b.seen + 1 = b.active[n]

Free == Ids \ {incidents[i].id : i \in DOMAIN incidents}

(* create_incident, or update_incident_last_value of the incident that was
   read, with the count that was read. *)
Write(j) ==
    LET b == jobs[j]
        id == IF b.cur # 0 THEN b.cur ELSE CHOOSE i \in Free : TRUE
        rows == IF b.cur = 0
                THEN Append(incidents,
                            [id |-> id, name |-> Head(b.todo), by |-> j,
                             status |-> "firing", violations |-> 1, posts |-> 0])
                ELSE Changed(id, LAMBDA r : [r EXCEPT !.violations = Inc(b.seen)])
    IN  /\ b.pc = "write" /\ (b.cur = 0 => Free # {})
        /\ Commit(rows, j, IF Due(b) THEN [b EXCEPT !.pc = "notify", !.cur = id]
                                     ELSE Advance(b))
        /\ UNCHANGED <<rules, data, streak, setting>>

(* The copies of one notification that arrive.  notify POSTs again after an
   error or a 5xx, up to max_retries times, and a POST whose answer was lost has
   arrived all the same. *)
Copies(F) == IF "webhook" \in F THEN 0 .. MaxRetries ELSE {1}

(* notifier.notify(firing) never raises, and its failure is only counted. *)
Notify(j) ==
    LET b == jobs[j]
        Got(n) == IF n > MaxRetries THEN MaxRetries + 1 ELSE n
    IN  /\ b.pc = "notify"
        /\ \E n \in Copies(Faults) :
               Commit(Changed(b.cur, LAMBDA r : [r EXCEPT !.posts = Got(@ + n)]), j, Advance(b))
        /\ UNCHANGED <<rules, data, streak, setting>>

(* Slip: the incidents of SLOs are compared with the firings of the rules. *)
Cleared_rules_only(b) == {r \in Incident : r.name \notin b.firing \cap Rules}

(* The incidents that did not fire in this run are to be resolved. *)
Cleared(b) == {r \in Incident : r.name \notin b.firing}

Resolving(b, ids) ==
    IF ids = <<>> THEN Idle ELSE [b EXCEPT !.pc = "resolve", !.listed = ids]

(* The newest ListLimit rows, newest first. *)
Page(rows) ==
    [i \in 1 .. IF Len(rows) < ListLimit THEN Len(rows) ELSE ListLimit |->
        rows[Len(rows) + 1 - i]]

(* list_incidents(status="firing"), a page of them. *)
List(j) ==
    LET b == jobs[j]
    IN  /\ b.pc = "list"
        /\ \E open \in {Firing(incidents)} : \E cleared \in {Where(Page(open), Cleared(b))} :
               Commit(incidents, j, Resolving(b, [i \in DOMAIN cleared |-> cleared[i].id]))
        /\ UNCHANGED <<rules, data, streak, setting>>

(* Slip: the incident is looked up by its name, which raises on two. *)
Resolve_by_name(j) ==
    LET b == jobs[j]
        named == {q.name : q \in {r \in Range(incidents) : r.id = Head(b.listed)}}
        open == Where(incidents, {r \in Incident : r.status = "firing" /\ r.name \in named})
    IN  /\ b.pc = "resolve"
        /\ IF Len(open) > 1
           THEN Commit(incidents, j, [Idle EXCEPT !.pc = "failed"])
           ELSE Commit(Changed(Head(b.listed), LAMBDA r : [r EXCEPT !.status = "resolved"]),
                       j, [b EXCEPT !.pc = "resolved"])
        /\ UNCHANGED <<rules, data, streak, setting>>

(* resolve_incident; one that another run resolved meanwhile is returned, and
   so notified, as well. *)
Resolve(j) ==
    LET b == jobs[j]
    IN  /\ b.pc = "resolve"
        /\ Commit(Changed(Head(b.listed), LAMBDA r : [r EXCEPT !.status = "resolved"]),
                  j, [b EXCEPT !.pc = "resolved"])
        /\ UNCHANGED <<rules, data, streak, setting>>

(* notifier.notify(resolution), whose failure is only counted too. *)
NotifyResolution(j) ==
    LET b == jobs[j]
    IN  /\ b.pc = "resolved"
        /\ Commit(incidents, j, Resolving(b, Tail(b.listed)))
        /\ UNCHANGED <<rules, data, streak, setting>>

(* The worker dies, the job runs into its timeout, or a statement fails:
   what was committed stays. *)
Crash(j) ==
    /\ "crash" \in Faults /\ jobs[j].pc \notin {"idle", "failed"}
    /\ Commit(incidents, j, Idle)
    /\ UNCHANGED <<rules, data, streak, setting>>

(* update_incident_last_value rolls back and returns when its commit fails.  The
   loop over the SLOs goes on without the count; in the loop over the rules the
   rollback has expired the rule, and reading it ends the run (Crash). *)
LoseCount(j) ==
    LET b == jobs[j]
    IN  /\ "crash" \in Faults /\ b.pc = "write" /\ b.cur # 0 /\ Head(b.todo) \in Slos
        /\ Commit(incidents, j, Advance(b))
        /\ UNCHANGED <<rules, data, streak, setting>>

JobStep(j) ==
    Begin(j) \/ Seed(j) \/ Evaluate(j) \/ Read(j) \/ Write(j) \/ Notify(j)
        \/ List(j) \/ Resolve(j) \/ NotifyResolution(j)

-----------------------------------------------------------------------------
(* The administrator and the metrics.                                      *)

(* POST /admin/alert-rules. *)
upsert_alert_rule(r) ==
    \E c \in 1 .. MaxCycles, e \in BOOLEAN :
        /\ c # Cycles[r] => "retune" \in Faults
        /\ e # rules[r].enabled => "toggle" \in Faults
        /\ {"retune", "toggle"} \cap Faults # {}
        /\ rules[r].cycles = 0 => "toggle" \in Faults
        /\ rules' = [rules EXCEPT ![r] = [cycles |-> c, enabled |-> e]]
        /\ UNCHANGED <<data, incidents, jobs, streak, setting>>

(* DELETE /admin/alert-rules/{rule_id}; its incidents stay. *)
delete_alert_rule(r) ==
    /\ "toggle" \in Faults /\ rules[r].cycles # 0
    /\ rules' = [rules EXCEPT ![r] = [cycles |-> 0, enabled |-> FALSE]]
    /\ UNCHANGED <<data, incidents, jobs, streak, setting>>

(* The metrics of the window, or the lack of them. *)
Observe(n) ==
    /\ \E v \in {"ok", "breach", "none"} :
           /\ v = "none" => n \in Slos /\ "no_data" \in Faults
           /\ data' = [data EXCEPT ![n] = v]
    /\ UNCHANGED <<rules, incidents, jobs, streak, setting>>

Next ==
    \/ \E j \in setting.jobs : JobStep(j) \/ Crash(j) \/ LoseCount(j)
    \/ \E r \in Rules \cap setting.names : upsert_alert_rule(r) \/ delete_alert_rule(r)
    \/ \E n \in setting.names : Observe(n)

Spec == Init /\ [][Next]_vars

(* The scheduler keeps enqueueing the job and the workers keep working. *)
FairSpec == Spec /\ \A j \in Jobs : WF_vars(j \in setting.jobs /\ JobStep(j))

-----------------------------------------------------------------------------
(* Properties.                                                             *)

OpenOf(n) == {i \in DOMAIN incidents :
                  incidents[i].name = n /\ incidents[i].status = "firing"}

(* No run opens an incident of a rule or an SLO while one that the same worker
   slot opened before is still open: a name has at most as many open incidents
   as runs overlap, however often they race between
   get_open_incident_by_rule_name and create_incident, and a single one where
   runs do not overlap.  No index enforces it. *)
OneOpenIncident ==
    \A n \in Names : \A i, k \in OpenOf(n) : incidents[i].by = incidents[k].by => i = k

(* One run at a time. *)
Alone == \A i, k \in setting.jobs : i = k

(* "zero duplicate notifications" (docs/phase8/scaling_alerting.md): the firing of
   one incident arrives at most once, however long it lasts and wherever a run of
   the job dies; where answers of the webhook are lost, the copies are those of
   one notification. *)
NotifiedOnce ==
    Alone => \A i \in DOMAIN incidents :
        incidents[i].posts <= IF "webhook" \in Faults THEN MaxRetries ELSE 1

(* Nothing but the metrics changes. *)
Undisturbed == Faults = {}

(* The flapping policy: a rule is notified only after it fired in
   consecutive_cycles evaluations in a row. *)
FlappingSuppressed ==
    Undisturbed /\ Alone => \A j \in setting.jobs : LET b == jobs[j] IN
        b.pc = "notify" /\ Head(b.todo) \in Rules =>
            streak[Head(b.todo)] >= b.active[Head(b.todo)]

(* Between runs the open incidents are exactly what the last evaluation found
   firing, rules that were disabled or deleted left out, and each carries the
   number of evaluations it has been firing for. *)
Reconciled ==
    Undisturbed /\ Alone /\ (\A j \in setting.jobs : jobs[j].pc = "idle") =>
        \A n \in Names :
            {incidents[i].violations : i \in OpenOf(n)} =
                {streak[n]} \ {0}

(* A breach that lasts is announced: a notification that arrived belongs to
   the open incident from some time on. *)
Announced ==
    \A n \in Names :
        (\E c \in 1 .. MaxCycles :
            <>[](/\ Undisturbed /\ Alone /\ data[n] = "breach"
                 /\ n \in Rules => rules[n] = [cycles |-> c, enabled |-> TRUE]))
        => <>[](\E i \in OpenOf(n) : incidents[i].posts > 0)

(* Two open incidents of one name make every run raise in
   get_open_incident_by_rule_name while the breach lasts.  Once the metrics are
   clear and stay so, every open incident is resolved for good, those that
   overlapping runs have doubled included. *)
DuplicatesHeal ==
    <>[](Undisturbed /\ \A n \in Names : data[n] = "ok")
        => <>[](\A n \in Names : OpenOf(n) = {})

=============================================================================
