--------------------------- MODULE AlertingProofs ---------------------------
(***************************************************************************)
(* The inductive invariant of Alerting for runs of the evaluation job that *)
(* do not overlap, with any rules, SLOs, thresholds, page size and faults, *)
(* and the theorems that follow from it. It says what a run that has read  *)
(* an incident may rely on when it writes it (JobOK), what the table holds *)
(* (RowsOK), and, where nothing but the metrics changes, how far the       *)
(* incidents lag behind the evaluations at every step of a run (StreakOK): *)
(* between runs not at all.  A second invariant holds however many runs    *)
(* overlap (OverlapInv): it bounds the duplicates they can leave.          *)
(***************************************************************************)
EXTENDS Alerting, FilteringTheorems

\* The open incidents of n.
Open(rows, n) == {r \in Range(rows) : r.status = "firing" /\ r.name = n}

\* No two rows share an identifier, and no two open ones a name.
Apart(rows) ==
    \A i, k \in 1 .. Len(rows) : i # k =>
        /\ rows[i].id # rows[k].id
        /\ rows[i].status = "firing" /\ rows[k].status = "firing" => rows[i].name # rows[k].name

\* A row is notified once, when its violations have reached consecutive_cycles.
RowOK(r, F) ==
    /\ r.violations >= 1
    /\ "retune" \notin F =>
           /\ r.posts <= IF "webhook" \in F THEN MaxRetries ELSE 1
           /\ r.posts > 0 /\ r.name \in Rules => r.violations >= Cycles[r.name]

RowsOK(rows, F) == rows \in Seq(Incident) /\ Apart(rows) /\ \A r \in Range(rows) : RowOK(r, F)

\* A run in its loop over the firing names: each of them once, and the cycles
\* that it read are those of the settings.
LoopOK(b, F) ==
    /\ b.todo # <<>> /\ Range(b.todo) \subseteq b.firing
    /\ \A i, k \in 1 .. Len(b.todo) : b.todo[i] = b.todo[k] => i = k
    /\ \A n \in b.firing \cap Rules : b.active[n] > 0
    /\ "retune" \notin F => \A n \in Rules : b.active[n] \in {0, Cycles[n]}
    /\ b.pc = "read" => b.cur = 0

\* An incident about to be notified: it has just reached consecutive_cycles.
Fresh(r, F) == "retune" \notin F => r.posts = 0 /\ (r.name \in Rules => r.violations = Cycles[r.name])

\* What a run has read still holds when it writes.
JobOK(rows, b, F) ==
    /\ b \in Job
    /\ b.pc = "seeding" => b.todo # <<>> /\ Range(b.todo) \subseteq Rules
    /\ b.pc \in {"read", "write", "notify"} => LoopOK(b, F)
    /\ b.pc = "write" /\ b.cur = 0 => Open(rows, Head(b.todo)) = {}
    /\ b.pc = "write" /\ b.cur # 0 =>
           \E r \in Open(rows, Head(b.todo)) : r.id = b.cur /\ r.violations = b.seen
    /\ b.pc = "notify" => \E r \in Open(rows, Head(b.todo)) : r.id = b.cur /\ Fresh(r, F)
    /\ b.pc \in {"resolve", "resolved"} => b.listed # <<>>

\* The open incident of n counts the s evaluations in a row that fired.
Rest(rows, n, s) ==
    (\A r \in Open(rows, n) : r.violations = s) /\ (s # 0 => Open(rows, n) # {})

\* The same before the run has counted the last of them.
Pending(rows, n, s) ==
    (\A r \in Open(rows, n) : s = Inc(r.violations)) /\ (Open(rows, n) = {} => s = 1)

\* The names that the run has yet to count.
Awaiting(b) ==
    {b.todo[i] : i \in {k \in 1 .. Len(b.todo) :
                        b.pc \in {"read", "write"} \/ (b.pc = "notify" /\ k > 1)}}

\* The incidents that the run has yet to resolve.
Listed(b) == Range(IF b.pc = "resolve" THEN b.listed ELSE Tail(b.listed))

\* Incidents and streaks at each step of a run.
StreakOK(rows, b, st) ==
    /\ b.pc \in {"idle", "failed", "seeding", "evaluate"} => \A n \in Names : Rest(rows, n, st[n])
    /\ b.pc \in {"read", "write", "notify", "list", "resolve", "resolved"} =>
           \A n \in Names :
               /\ n \notin b.firing => st[n] = 0
               /\ n \in b.firing \ Awaiting(b) => Rest(rows, n, st[n])
               /\ n \in Awaiting(b) => Pending(rows, n, st[n])
    /\ b.pc \in {"resolve", "resolved"} =>
           \A r \in Range(rows) :
               /\ r.id \in Range(b.listed) => r.name \notin b.firing
               /\ r.status = "firing" /\ r.name \notin b.firing => r.id \in Listed(b)

(* Nothing but the metrics changes, and a page holds all that can fire. *)
Calm(F) == F = {} /\ Len(RuleOrder) + Len(SloOrder) <= ListLimit

Good(rows, b, st, F) ==
    /\ RowsOK(rows, F) /\ JobOK(rows, b, F)
    /\ Calm(F) => StreakOK(rows, b, st)

\* The other tables; without retuning a rule keeps its consecutive_cycles.
TablesOK ==
    /\ rules \in [Rules -> [cycles: 0 .. MaxCycles, enabled: BOOLEAN]]
    /\ "retune" \notin Faults => \A r \in Rules : rules[r].cycles \in {0, Cycles[r]}
    /\ data \in [Names -> {"ok", "breach", "none"}]
    /\ streak \in [Names -> Count]
    /\ jobs \in [Jobs -> Job]
    /\ setting \in Setting

\* The invariant.
AlertInv ==
    /\ TablesOK /\ RowsOK(incidents, Faults)
    /\ \A j \in setting.jobs : Good(incidents, jobs[j], streak, Faults)

-----------------------------------------------------------------------------
LEMMA Rows ==
    ASSUME NEW rows \in Seq(Incident)
    PROVE  /\ Len(rows) \in Nat /\ DOMAIN rows = 1 .. Len(rows)
           /\ \A i \in 1 .. Len(rows) : rows[i] \in Incident /\ rows[i] \in Range(rows)
           /\ \A r \in Range(rows) : r \in Incident /\ \E i \in 1 .. Len(rows) : r = rows[i]
BY DEF Range

LEMMA WhereApart ==
    ASSUME NEW rows \in Seq(Incident), Apart(rows), NEW S
    PROVE  Apart(Where(rows, S))
<1> DEFINE w == Where(rows, S)
<1>1. w \in Seq(Incident)
  BY WherePicks, Zenon
<1>2. ASSUME NEW i \in 1 .. Len(w), NEW k \in 1 .. Len(w), i < k
      PROVE  /\ w[i].id # w[k].id
             /\ w[i].status = "firing" /\ w[k].status = "firing" => w[i].name # w[k].name
  <2>1. PICK a, c \in 1 .. Len(rows) : a < c /\ w[i] = rows[a] /\ w[k] = rows[c]
    BY <1>2, WhereOrder
  <2>2. a # c
    BY <2>1
  <2> QED
    BY <2>1, <2>2, Zenon DEF Apart
<1>3. \A i, k \in 1 .. Len(w) : i # k => i < k \/ k < i
  BY <1>1
<1> QED
  BY <1>2, <1>3, Zenon DEF Apart

LEMMA KeptRows ==
    ASSUME NEW rows \in Seq(Incident), NEW js
    PROVE  /\ Kept(rows, js) \in Seq(Incident)
           /\ Range(Kept(rows, js)) \subseteq Range(rows)
           /\ \A r \in Range(rows) : r.status = "firing" => r \in Range(Kept(rows, js))
           /\ Apart(rows) => Apart(Kept(rows, js))
<1> DEFINE S == {r \in Incident :
        \/ r.status = "firing"
        \/ \E j \in Jobs : r.id = js[j].cur \/ r.id \in Range(js[j].listed)}
<1>1. Kept(rows, js) = Where(rows, S)
  BY Zenon DEF Kept
<1>2. Range(Where(rows, S)) = Range(rows) \cap S /\ Where(rows, S) \in Seq(Incident)
  BY WhereRange, WherePicks, Zenon
<1>3. \A r \in Range(rows) : r.status = "firing" => r \in S
  BY Rows, Zenon
<1> HIDE DEF S
<1> QED
  BY <1>1, <1>2, <1>3, WhereApart, Zenon

LEMMA KeptGood ==
    ASSUME NEW rows, NEW js, NEW b, NEW st, NEW F, Good(rows, b, st, F)
    PROVE  Good(Kept(rows, js), b, st, F)
<1> DEFINE k == Kept(rows, js)
<1>1. rows \in Seq(Incident) /\ Apart(rows)
  BY Zenon DEF Good, RowsOK
<1>2. /\ k \in Seq(Incident) /\ Range(k) \subseteq Range(rows) /\ Apart(k)
      /\ \A r \in Range(rows) : r.status = "firing" => r \in Range(k)
  BY <1>1, KeptRows, Zenon
<1>3. \A n : Open(k, n) = Open(rows, n)
  BY <1>2, Zenon DEF Open
<1> HIDE DEF k
<1>4. RowsOK(k, F)
  BY <1>2, Zenon DEF Good, RowsOK
<1>5. JobOK(k, b, F)
  BY <1>3, Zenon DEF Good, JobOK
<1>6. Calm(F) => StreakOK(k, b, st)
  BY <1>2, <1>3, Zenon DEF Good, StreakOK, Rest, Pending
<1> QED
  BY <1>4, <1>5, <1>6, Zenon DEF Good, k

LEMMA AlertConstants ==
    /\ MaxCycles \in Nat /\ MaxCycles >= 1 /\ Names = Rules \cup Slos
    /\ \A n \in Rules : Cycles[n] \in 1 .. MaxCycles
    /\ \A n \in Count : Inc(n) \in Count /\ Inc(n) >= 1
    /\ Inc(0) = 1 /\ \A n \in Count : n < MaxCycles => Inc(n) = n + 1
    /\ \A n \in Count : Inc(n) >= n
BY AlertingAssumption DEF Count, Inc, Names

LEMMA IdleType ==
    /\ Idle \in Job /\ Idle = [Idle EXCEPT !.pc = "idle"]
    /\ \A p \in {"idle", "failed", "evaluate"} : [Idle EXCEPT !.pc = p] \in Job
<1>1. 0 \in 0 .. MaxCycles /\ 0 \in Count /\ 0 \in Ids \cup {0} /\ {} \in SUBSET Names
      /\ <<>> \in Seq(Names) /\ <<>> \in Seq(Ids)
  BY AlertConstants DEF Count
<1>2. [r \in Rules |-> 0] \in [Rules -> 0 .. MaxCycles]
  BY <1>1, Zenon
<1>3. Idle \in Job
  BY <1>1, <1>2, Zenon DEF Idle, Job
<1>4. ASSUME NEW p \in {"idle", "failed", "evaluate"} PROVE [Idle EXCEPT !.pc = p] \in Job
  BY <1>3, Zenon DEF Job
<1>5. Idle = [Idle EXCEPT !.pc = "idle"]
  <2> DEFINE z == [r \in Rules |-> 0]
             e == {}
             s == <<>>
             o == 0
             p == "idle"
  <2>1. Idle = [pc |-> p, active |-> z, firing |-> e, todo |-> s, cur |-> o, seen |-> o, listed |-> s]
    BY Zenon DEF Idle
  <2>2. "idle" = p
    OBVIOUS
  <2> HIDE DEF z, e, s, o, p
  <2> QED
    BY <2>1, <2>2
<1> QED
  BY <1>3, <1>4, <1>5, Zenon

(* A run that holds nothing. *)
LEMMA QuietJob ==
    ASSUME NEW rows, NEW st, NEW F, RowsOK(rows, F), NEW p \in {"idle", "failed", "evaluate"},
           Calm(F) => \A n \in Names : Rest(rows, n, st[n])
    PROVE  Good(rows, [Idle EXCEPT !.pc = p], st, F)
<1> DEFINE b == [Idle EXCEPT !.pc = p]
<1>1. b \in Job /\ b.pc = p
  BY IdleType, Zenon DEF Idle
<1> HIDE DEF b
<1>2. JobOK(rows, b, F)
  BY <1>1, Zenon DEF JobOK
<1>3. Calm(F) => StreakOK(rows, b, st)
  BY <1>1, Zenon DEF StreakOK
<1> QED
  BY <1>2, <1>3, Zenon DEF Good, b

LEMMA JobSlots ==
    ASSUME AlertInv
    PROVE  setting.jobs \subseteq Jobs /\ setting.jobs # {}
<1>1. setting \in Setting
  BY Zenon DEF AlertInv, TablesOK
<1>2. setting.jobs \in (SUBSET Jobs) \ {{}}
  BY <1>1, Zenon DEF Setting
<1> QED
  BY <1>2, Zenon

LEMMA CommitInv ==
    ASSUME Alone, AlertInv, NEW j \in setting.jobs, NEW rows, NEW b,
           Commit(rows, j, b), UNCHANGED <<rules, data, streak, setting>>,
           Good(rows, b, streak, Faults)
    PROVE  AlertInv'
<1> DEFINE js == [jobs EXCEPT ![j] = b]
           k == Kept(rows, js)
<1>1. Good(k, b, streak, Faults)
  BY KeptGood, Zenon
<1>2. jobs' = js /\ incidents' = k
  BY Zenon DEF Commit
<1>3. b \in Job
  BY Zenon DEF Good, JobOK
<1>4. jobs' \in [Jobs -> Job] /\ \A i \in setting.jobs : jobs'[i] = b
  BY <1>2, <1>3, JobSlots, Zenon DEF AlertInv, TablesOK, Alone
<1>5. TablesOK'
  BY <1>4, Zenon DEF AlertInv, TablesOK, Faults
<1>6. Faults' = Faults /\ streak' = streak /\ setting' = setting
  BY Zenon DEF Faults
<1> HIDE DEF k
<1>7. RowsOK(k, Faults)
  BY <1>1, Zenon DEF Good
<1>8. RowsOK(incidents', Faults') /\ \A i \in setting'.jobs : Good(incidents', jobs'[i], streak', Faults')
  BY <1>1, <1>2, <1>4, <1>6, <1>7, Zenon
<1> QED
  BY <1>5, <1>8, Zenon DEF AlertInv

LEMMA StepInv ==
    ASSUME Alone, AlertInv, NEW j \in setting.jobs, NEW b,
           jobs' = [jobs EXCEPT ![j] = b], UNCHANGED <<incidents, setting>>,
           rules' \in [Rules -> [cycles: 0 .. MaxCycles, enabled: BOOLEAN]],
           "retune" \notin Faults => \A r \in Rules : rules'[r].cycles \in {0, Cycles[r]},
           UNCHANGED data, streak' \in [Names -> Count],
           Good(incidents, b, streak', Faults)
    PROVE  AlertInv'
<1>1. b \in Job
  BY Zenon DEF Good, JobOK
<1>2. jobs' \in [Jobs -> Job] /\ \A i \in setting.jobs : jobs'[i] = b
  BY <1>1, JobSlots, Zenon DEF AlertInv, TablesOK, Alone
<1>3. TablesOK'
  BY <1>2, Zenon DEF AlertInv, TablesOK, Faults
<1>4. Faults' = Faults /\ incidents' = incidents /\ setting' = setting
  BY Zenon DEF Faults
<1>5. RowsOK(incidents', Faults') /\ \A i \in setting'.jobs : Good(incidents', jobs'[i], streak', Faults')
  BY <1>2, <1>4, Zenon DEF AlertInv
<1> QED
  BY <1>3, <1>5, Zenon DEF AlertInv

LEMMA AlertInitInv == Init => AlertInv
<1> SUFFICES ASSUME Init PROVE AlertInv
  BY Zenon
<1>1. RowsOK(incidents, Faults)
  BY DEF Init, RowsOK, Apart, Range
<1>2. TablesOK
  BY AlertingAssumption, AlertConstants, IdleType DEF Init, TablesOK, Count
<1>3. \A n \in Names : Rest(incidents, n, streak[n])
  BY DEF Init, Rest, Open, Range
<1>4. Good(incidents, [Idle EXCEPT !.pc = "idle"], streak, Faults)
  BY <1>1, <1>3, QuietJob, Zenon
<1>5. setting.jobs \subseteq Jobs
  <2>1. setting.jobs \in (SUBSET Jobs) \ {{}}
    BY <1>2, Zenon DEF TablesOK, Setting
  <2> QED
    BY <2>1, Zenon
<1> QED
  BY <1>1, <1>2, <1>4, <1>5, IdleType, Zenon DEF AlertInv, Init

LEMMA BeginInv ==
    ASSUME Alone, AlertInv, NEW j \in setting.jobs, Begin(j)
    PROVE  AlertInv'
<1> DEFINE b == [Idle EXCEPT !.pc = "seeding", !.todo = Defaults]
<1>1. RowsOK(incidents, Faults) /\ (Calm(Faults) => \A n \in Names : Rest(incidents, n, streak[n]))
  BY Zenon DEF Begin, AlertInv, Good, StreakOK
<1>2. Good(incidents, [Idle EXCEPT !.pc = "evaluate"], streak, Faults)
  BY <1>1, QuietJob, Zenon
<1>3. Defaults \in Seq(Names) /\ Range(Defaults) = Rules \cap setting.names
  <2>1. RuleOrder \in Seq(Names)
    BY AlertingAssumption DEF Names, Rules, Range
  <2> QED
    BY <2>1, WherePicks, WhereRange, Zenon DEF Defaults, Rules
<1>4. Defaults # <<>> /\ Range(Defaults) \subseteq Rules
  <2>1. setting.names \cap Rules # {}
    BY Zenon DEF AlertInv, TablesOK, Setting
  <2> QED
    BY <1>3, <2>1 DEF Range
<1>5. b \in Job /\ b.pc = "seeding" /\ b.todo = Defaults
  BY <1>3, IdleType, ZenonT(30) DEF Job
<1> HIDE DEF b
<1>6. Good(incidents, b, streak, Faults)
  BY <1>1, <1>4, <1>5, Zenon DEF Good, JobOK, StreakOK
<1> DEFINE c == IF \A r \in Rules : rules[r].cycles = 0 THEN b ELSE [Idle EXCEPT !.pc = "evaluate"]
<1>7. jobs' = [jobs EXCEPT ![j] = c] /\ UNCHANGED <<rules, data, incidents, streak, setting>>
  BY Zenon DEF Begin, b
<1>8. Good(incidents, c, streak, Faults)
  BY <1>2, <1>6, Zenon
<1> HIDE DEF c
<1>9. streak' \in [Names -> Count] /\ Good(incidents, c, streak', Faults)
  BY <1>7, <1>8, Zenon DEF AlertInv, TablesOK
<1> QED
  BY <1>7, <1>9, StepInv, Zenon DEF AlertInv, TablesOK

LEMMA SeedInv ==
    ASSUME Alone, AlertInv, NEW j \in setting.jobs, Seed(j)
    PROVE  AlertInv'
<1> DEFINE b == jobs[j]
           r == Head(b.todo)
           rest == Tail(b.todo)
           p == IF rest = <<>> THEN "evaluate" ELSE "seeding"
           c == [b EXCEPT !.todo = rest, !.pc = p]
<1>1. /\ RowsOK(incidents, Faults) /\ b \in Job /\ b.pc = "seeding"
      /\ b.todo # <<>> /\ Range(b.todo) \subseteq Rules /\ jobs \in [Jobs -> Job]
      /\ Calm(Faults) => \A n \in Names : Rest(incidents, n, streak[n])
  BY Zenon DEF Seed, AlertInv, TablesOK, Good, StreakOK, JobOK
<1>2. b.todo \in Seq(Names)
  BY <1>1, Zenon DEF Job
<1>3. r \in Rules /\ rest \in Seq(Names) /\ Range(rest) \subseteq Rules
  BY <1>1, <1>2 DEF Range
<1>4. c \in Job /\ c.pc = p /\ c.todo = rest
  BY <1>1, <1>3, Zenon DEF Job
<1>5. Good(incidents, c, streak, Faults)
  <2>1. c.pc = "evaluate" \/ (c.pc = "seeding" /\ c.todo # <<>> /\ Range(c.todo) \subseteq Rules)
    BY <1>3, <1>4, Zenon
  <2> HIDE DEF c
  <2> QED
    BY <1>1, <1>4, <2>1, Zenon DEF Good, JobOK, StreakOK
<1>6. streak' \in [Names -> Count] /\ streak' = streak /\ UNCHANGED <<incidents, setting, data>>
  BY Zenon DEF AlertInv, TablesOK, Seed
<1>7. Good(incidents, [Idle EXCEPT !.pc = "failed"], streak, Faults)
  BY <1>1, QuietJob, Zenon
<1>8. CASE /\ rules' = [rules EXCEPT ![r] = [cycles |-> Cycles[r], enabled |-> TRUE]]
           /\ jobs' = [jobs EXCEPT ![j].todo = rest, ![j].pc = p]
  <2>1. jobs' = [jobs EXCEPT ![j] = c]
    BY <1>1, <1>8, JobSlots, Zenon
  <2>2. /\ rules' \in [Rules -> [cycles: 0 .. MaxCycles, enabled: BOOLEAN]]
        /\ "retune" \notin Faults => \A n \in Rules : rules'[n].cycles \in {0, Cycles[n]}
    BY <1>3, <1>8, AlertConstants DEF AlertInv, TablesOK
  <2> HIDE DEF c
  <2> QED
    BY <1>5, <1>6, <2>1, <2>2, StepInv, Zenon
<1>9. CASE UNCHANGED rules /\ jobs' = [jobs EXCEPT ![j] = [Idle EXCEPT !.pc = "failed"]]
  BY <1>6, <1>7, <1>9, StepInv, Zenon DEF AlertInv, TablesOK
<1> QED
  BY <1>8, <1>9, Zenon DEF Seed

LEMMA OrderFacts ==
    LET order == RuleOrder \o SloOrder
    IN  /\ order \in Seq(Names) /\ Range(order) = Names
        /\ \A i, k \in 1 .. Len(order) : order[i] = order[k] => i = k
<1> DEFINE order == RuleOrder \o SloOrder
           m == Len(RuleOrder)
           n == Len(SloOrder)
<1>1. /\ RuleOrder \in Seq(STRING) /\ SloOrder \in Seq(STRING) /\ m \in Nat /\ n \in Nat
      /\ \A i, k \in 1 .. m : RuleOrder[i] = RuleOrder[k] => i = k
      /\ \A i, k \in 1 .. n : SloOrder[i] = SloOrder[k] => i = k
  BY AlertingAssumption DEF IsInjective
<1>2. /\ Rules = {RuleOrder[i] : i \in 1 .. m} /\ Slos = {SloOrder[i] : i \in 1 .. n}
      /\ Rules \cap Slos = {}
  <2>1. DOMAIN RuleOrder = 1 .. m /\ DOMAIN SloOrder = 1 .. n
    BY <1>1
  <2> QED
    BY <2>1, AlertingAssumption, Zenon DEF Rules, Slos, Range
<1>3. /\ order \in Seq(STRING) /\ Len(order) = m + n
      /\ \A i \in 1 .. m : order[i] = RuleOrder[i]
      /\ \A i \in m + 1 .. m + n : order[i] = SloOrder[i - m]
  BY <1>1
<1>4. \A i \in 1 .. m + n : i \in 1 .. m \/ (i \in m + 1 .. m + n /\ i - m \in 1 .. n)
  BY <1>1
<1> HIDE DEF order, m, n
<1>5. \A i \in 1 .. m + n : order[i] \in Names
  BY <1>2, <1>3, <1>4, Zenon DEF Names
<1>6. Range(order) = {order[i] : i \in 1 .. m + n}
  BY <1>3 DEF Range
<1>7. \A i \in 1 .. n : i + m \in m + 1 .. m + n /\ (i + m) - m = i
  BY <1>1
<1>8. \A i \in 1 .. m : i \in 1 .. m + n
  BY <1>1
<1>9. \A i \in m + 1 .. m + n : i \in 1 .. m + n
  BY <1>1
<1>10. Names \subseteq Range(order)
  <2>1. \A x \in Rules : \E i \in 1 .. m + n : order[i] = x
    BY <1>2, <1>3, <1>8, Zenon
  <2>2. \A x \in Slos : \E i \in 1 .. m + n : order[i] = x
    BY <1>2, <1>3, <1>7, <1>9
  <2> QED
    BY <1>6, <2>1, <2>2, Zenon DEF Names
<1>11. ASSUME NEW i \in 1 .. m + n, NEW k \in 1 .. m + n, order[i] = order[k]
       PROVE  i = k
  <2>1. CASE i \in 1 .. m /\ k \in 1 .. m
    BY <1>1, <1>3, <1>11, <2>1, Zenon
  <2>2. CASE i \in m + 1 .. m + n /\ k \in m + 1 .. m + n
    <3>1. i - m \in 1 .. n /\ k - m \in 1 .. n
      BY <1>1, <2>2
    <3>2. SloOrder[i - m] = SloOrder[k - m]
      BY <1>3, <1>11, <2>2, Zenon
    <3>3. i - m = k - m
      BY <1>1, <3>1, <3>2, Zenon
    <3> QED
      BY <1>1, <3>3
  <2>3. CASE i \in 1 .. m /\ k \in m + 1 .. m + n
    <3>1. order[i] = RuleOrder[i] /\ order[k] = SloOrder[k - m] /\ k - m \in 1 .. n
      BY <1>1, <1>3, <2>3
    <3>2. order[i] \in Rules /\ order[k] \in Slos
      BY <1>2, <2>3, <3>1, Zenon
    <3> QED
      BY <1>2, <1>11, <3>2, Zenon
  <2>4. CASE k \in 1 .. m /\ i \in m + 1 .. m + n
    <3>1. order[k] = RuleOrder[k] /\ order[i] = SloOrder[i - m] /\ i - m \in 1 .. n
      BY <1>1, <1>3, <2>4
    <3>2. order[k] \in Rules /\ order[i] \in Slos
      BY <1>2, <2>4, <3>1, Zenon
    <3> QED
      BY <1>2, <1>11, <3>2, Zenon
  <2> QED
    BY <1>4, <2>1, <2>2, <2>3, <2>4, Zenon
<1>12. order \in Seq(Names)
  BY <1>3, <1>5
<1>13. Range(order) = Names
  BY <1>5, <1>6, <1>10, Zenon
<1>14. \A i, k \in 1 .. Len(order) : order[i] = order[k] => i = k
  BY <1>3, <1>11, Zenon
<1> QED
  BY <1>12, <1>13, <1>14, Zenon DEF order

LEMMA EvaluateInv ==
    ASSUME Alone, AlertInv, NEW j \in setting.jobs, Evaluate(j)
    PROVE  AlertInv'
<1> DEFINE active == [r \in Rules |-> IF rules[r].enabled THEN rules[r].cycles ELSE 0]
           firing == {n \in Names : data[n] = "breach" /\ (n \in Rules => active[n] > 0)}
           todo == Where(RuleOrder \o SloOrder, firing)
           p == IF todo = <<>> THEN "list" ELSE "read"
           c == [Idle EXCEPT !.pc = p, !.active = active, !.firing = firing, !.todo = todo]
<1>1. /\ RowsOK(incidents, Faults)
      /\ Calm(Faults) => \A n \in Names : Rest(incidents, n, streak[n])
  BY Zenon DEF Evaluate, AlertInv, Good, StreakOK
<1>2. active \in [Rules -> 0 .. MaxCycles]
  BY AlertConstants DEF AlertInv, TablesOK
<1>3. "retune" \notin Faults => \A n \in Rules : active[n] \in {0, Cycles[n]}
  BY Zenon DEF AlertInv, TablesOK
<1>4. firing \subseteq Names /\ \A n \in firing \cap Rules : active[n] > 0
  BY Zenon DEF Names
<1>5. jobs' = [jobs EXCEPT ![j] = c] /\ UNCHANGED <<rules, data, incidents, setting>>
      /\ streak' = [n \in Names |-> IF n \in firing THEN Inc(streak[n]) ELSE 0]
  BY Zenon DEF Evaluate
<1> HIDE DEF active, firing
<1>6. /\ todo \in Seq(Names) /\ Range(todo) = firing
      /\ \A i, k \in 1 .. Len(todo) : todo[i] = todo[k] => i = k
  <2> DEFINE order == RuleOrder \o SloOrder
  <2>1. /\ order \in Seq(Names) /\ Range(order) = Names
        /\ \A i, k \in 1 .. Len(order) : order[i] = order[k] => i = k
    BY OrderFacts, Zenon
  <2> HIDE DEF order
  <2>2. /\ Where(order, firing) \in Seq(Names) /\ Range(Where(order, firing)) = Names \cap firing
        /\ \A i, k \in 1 .. Len(Where(order, firing)) :
               Where(order, firing)[i] = Where(order, firing)[k] => i = k
    <3>1. Where(order, firing) \in Seq(Names)
      BY <2>1, WherePicks, Zenon
    <3>2. Range(Where(order, firing)) = Names \cap firing
      BY <2>1, WhereRange, Zenon
    <3>3. \A i, k \in 1 .. Len(Where(order, firing)) :
              Where(order, firing)[i] = Where(order, firing)[k] => i = k
      BY <2>1, WhereInjective, Zenon
    <3> QED
      BY <3>1, <3>2, <3>3, Zenon
  <2>3. Names \cap firing = firing
    BY <1>4, Zenon
  <2> QED
    BY <2>2, <2>3, Zenon DEF order
<1>7. todo = <<>> => firing = {}
  BY <1>6 DEF Range
<1> HIDE DEF todo
<1>8. p \in {"list", "read"} /\ (p = "read" <=> todo # <<>>)
  BY Zenon
<1> HIDE DEF p
<1>9. /\ c \in Job /\ c.pc = p /\ c.active = active /\ c.firing = firing /\ c.todo = todo
      /\ c.cur = 0
  BY <1>2, <1>4, <1>6, <1>8, IdleType, ZenonT(30) DEF Idle, Job
<1> HIDE DEF c
<1>10. JobOK(incidents, c, Faults)
  <2>1. c.pc = "read" => LoopOK(c, Faults)
    BY <1>3, <1>4, <1>6, <1>8, <1>9 DEF LoopOK
  <2> QED
    BY <1>8, <1>9, <2>1, Zenon DEF JobOK
<1>11. streak' \in [Names -> Count]
  BY <1>5, AlertConstants DEF AlertInv, TablesOK, Count
<1>12. Awaiting(c) = firing
  <2>1. CASE p = "read"
    BY <1>6, <1>9, <2>1 DEF Awaiting, Range
  <2>2. CASE p = "list"
    BY <1>7, <1>8, <1>9, <2>2, Zenon DEF Awaiting
  <2> QED
    BY <1>8, <2>1, <2>2, Zenon
<1>13. ASSUME Calm(Faults) PROVE StreakOK(incidents, c, streak')
  <2>1. ASSUME NEW n \in firing PROVE Pending(incidents, n, streak'[n])
    <3>1. n \in Names /\ streak'[n] = Inc(streak[n]) /\ Rest(incidents, n, streak[n])
      BY <1>1, <1>4, <1>5, <1>13, <2>1, Zenon
    <3> QED
      BY <3>1, AlertConstants, Zenon DEF Pending, Rest
  <2>2. \A n \in Names : n \notin firing => streak'[n] = 0
    BY <1>5, Zenon
  <2> QED
    BY <1>8, <1>9, <1>12, <2>1, <2>2, Zenon DEF StreakOK
<1>14. Good(incidents, c, streak', Faults)
  BY <1>1, <1>10, <1>13, Zenon DEF Good
<1> QED
  BY <1>5, <1>11, <1>14, StepInv, Zenon DEF AlertInv, TablesOK

(* The streaks when the head of todo has been dealt with. *)
Worked(rows, b, st) ==
    \A n \in Names :
        /\ n \notin b.firing => st[n] = 0
        /\ n \in b.firing \ Range(Tail(b.todo)) => Rest(rows, n, st[n])
        /\ n \in Range(Tail(b.todo)) => Pending(rows, n, st[n])

LEMMA AdvanceGood ==
    ASSUME NEW rows, NEW b \in Job, NEW st, NEW F, RowsOK(rows, F), LoopOK(b, F),
           Calm(F) => Worked(rows, b, st)
    PROVE  Good(rows, Advance(b), st, F)
<1> DEFINE rest == Tail(b.todo)
           p == IF rest = <<>> THEN "list" ELSE "read"
           c == Advance(b)
<1>1. b.todo \in Seq(Names)
  BY Zenon DEF Job
<1>2. /\ rest \in Seq(Names) /\ Range(rest) \subseteq Range(b.todo)
      /\ \A i, k \in 1 .. Len(rest) : rest[i] = rest[k] => i = k
  <2>1. b.todo # <<>> /\ \A i, k \in 1 .. Len(b.todo) : b.todo[i] = b.todo[k] => i = k
    BY Zenon DEF LoopOK
  <2>2. /\ Tail(b.todo) \in Seq(Names)
        /\ Range(b.todo) = {Head(b.todo)} \cup Range(Tail(b.todo))
        /\ \A i, k \in 1 .. Len(Tail(b.todo)) : Tail(b.todo)[i] = Tail(b.todo)[k] => i = k
    BY <1>1, <2>1, TailFacts, Zenon
  <2> QED
    BY <2>2, Zenon
<1>3. p \in {"list", "read"} /\ (p = "read" <=> rest # <<>>)
  BY Zenon
<1>4. /\ c \in Job /\ c.pc = p /\ c.todo = rest /\ c.cur = 0
      /\ c.firing = b.firing /\ c.active = b.active
  <2>1. 0 \in Ids \cup {0} /\ 0 \in Count
    BY AlertConstants DEF Count
  <2> HIDE DEF rest, p
  <2>2. Advance(b) = [b EXCEPT !.todo = rest, !.cur = 0, !.seen = 0, !.pc = p]
    BY Zenon DEF Advance, rest, p
  <2>3. c \in Job
    BY <1>2, <1>3, <2>1, <2>2, ZenonT(30) DEF Job
  <2> QED
    BY <2>2, <2>3, Zenon DEF Job
<1> HIDE DEF c, p, rest
<1>5. p = "read" => LoopOK(c, F)
  BY <1>2, <1>3, <1>4 DEF LoopOK
<1>6. JobOK(rows, c, F)
  BY <1>3, <1>4, <1>5, Zenon DEF JobOK
<1>7. Awaiting(c) = Range(rest)
  <2>1. CASE p = "read"
    BY <1>2, <1>4, <2>1 DEF Awaiting, Range
  <2>2. CASE p = "list"
    BY <1>3, <1>4, <2>2 DEF Awaiting, Range
  <2> QED
    BY <1>3, <2>1, <2>2, Zenon
<1>8. Calm(F) => StreakOK(rows, c, st)
  BY <1>3, <1>4, <1>7, Zenon DEF StreakOK, Worked, rest
<1> QED
  BY <1>6, <1>8, Zenon DEF Good, c

LEMMA NotifyGood ==
    ASSUME NEW rows, NEW b \in Job, NEW st, NEW F, RowsOK(rows, F), LoopOK(b, F),
           Calm(F) => Worked(rows, b, st), NEW id \in Ids,
           \E r \in Open(rows, Head(b.todo)) : r.id = id /\ Fresh(r, F)
    PROVE  Good(rows, [b EXCEPT !.pc = "notify", !.cur = id], st, F)
<1> DEFINE c == [b EXCEPT !.pc = "notify", !.cur = id]
<1>1. /\ c \in Job /\ c.pc = "notify" /\ c.todo = b.todo /\ c.cur = id
      /\ c.firing = b.firing /\ c.active = b.active /\ b.todo \in Seq(Names)
  <2>1. id \in Ids \cup {0}
    BY Zenon
  <2>2. c \in Job
    BY <2>1, Zenon DEF Job
  <2> QED
    BY <2>2, Zenon DEF Job
<1> HIDE DEF c
<1>2. LoopOK(c, F)
  BY <1>1, Zenon DEF LoopOK
<1>3. JobOK(rows, c, F)
  BY <1>1, <1>2, Zenon DEF JobOK
<1>4. Awaiting(c) = Range(Tail(b.todo))
  <2>1. Range(Tail(b.todo)) = {b.todo[i] : i \in {k \in 1 .. Len(b.todo) : k > 1}}
    <3>1. b.todo # <<>> /\ \A i, k \in 1 .. Len(b.todo) : b.todo[i] = b.todo[k] => i = k
      BY Zenon DEF LoopOK
    <3> QED
      BY <1>1, <3>1, TailFacts
  <2> QED
    BY <1>1, <2>1, Zenon DEF Awaiting
<1>5. Calm(F) => StreakOK(rows, c, st)
  BY <1>1, <1>4, Zenon DEF StreakOK, Worked
<1> QED
  BY <1>3, <1>5, Zenon DEF Good, c

(* No two rows have the same identifier and no two open ones the same name. *)
LEMMA ApartRows ==
    ASSUME NEW rows \in Seq(Incident), Apart(rows), NEW r \in Range(rows), NEW q \in Range(rows)
    PROVE  /\ r.id = q.id => r = q
           /\ r.status = "firing" /\ q.status = "firing" /\ r.name = q.name => r = q
<1>1. PICK i \in 1 .. Len(rows) : r = rows[i]
  BY Rows, Zenon
<1>2. PICK k \in 1 .. Len(rows) : q = rows[k]
  BY Rows, Zenon
<1> QED
  BY <1>1, <1>2, Zenon DEF Apart

LEMMA ReadInv ==
    ASSUME Alone, AlertInv, NEW j \in setting.jobs, Read(j)
    PROVE  AlertInv'
<1> DEFINE b == jobs[j]
           n == Head(b.todo)
           S == {r \in Incident : r.status = "firing" /\ r.name = n}
           open == Where(incidents, S)
           empty == [b EXCEPT !.pc = "write"]
           found == [b EXCEPT !.pc = "write", !.cur = open[1].id, !.seen = open[1].violations]
           c == CASE Len(open) = 0 -> empty
                  [] Len(open) = 1 -> found
                  [] OTHER -> [Idle EXCEPT !.pc = "failed"]
<1>1. /\ RowsOK(incidents, Faults) /\ b \in Job /\ b.pc = "read" /\ LoopOK(b, Faults)
      /\ Calm(Faults) => StreakOK(incidents, b, streak)
  BY Zenon DEF Read, AlertInv, Good, JobOK
<1>2. jobs' = [jobs EXCEPT ![j] = c] /\ UNCHANGED <<rules, data, incidents, streak, setting>>
  BY Zenon DEF Read
<1>3. incidents \in Seq(Incident) /\ Apart(incidents)
  BY <1>1, Zenon DEF RowsOK
<1>4. open \in Seq(Incident) /\ Range(open) = Range(incidents) \cap S
  BY <1>3, WherePicks, WhereRange, Zenon
<1>5. Range(open) = Open(incidents, n)
  BY <1>3, <1>4, Rows, Zenon DEF Open
<1>9. \A r \in Range(open) : r.status = "firing" /\ r.name = n
  BY <1>4, Zenon
<1> HIDE DEF S, n
<1>6. Len(open) = 0 \/ Len(open) = 1
  <2>1. ASSUME 1 \in 1 .. Len(open), 2 \in 1 .. Len(open) PROVE FALSE
    <3>1. PICK k, l \in 1 .. Len(incidents) :
              k < l /\ open[1] = incidents[k] /\ open[2] = incidents[l]
      BY <1>3, <2>1, WhereOrder, SMTT(30)
    <3>2. open[1].status = "firing" /\ open[2].status = "firing" /\ open[1].name = open[2].name
      BY <1>4, <1>9, <2>1, Rows
    <3>3. k # l
      BY <3>1
    <3> QED
      BY <1>3, <3>1, <3>2, <3>3, Zenon DEF Apart
  <2> HIDE DEF open
  <2>2. Len(open) \in Nat
    BY <1>4
  <2>3. \A m \in Nat : (1 \in 1 .. m /\ 2 \in 1 .. m) \/ m = 0 \/ m = 1
    OBVIOUS
  <2> QED
    BY <2>1, <2>2, <2>3, Zenon
<1> HIDE DEF open
<1>7. CASE Len(open) = 0
  <2>1. Open(incidents, n) = {}
    BY <1>4, <1>5, <1>7 DEF Range
  <2>2. /\ empty \in Job /\ empty.pc = "write" /\ empty.todo = b.todo /\ empty.firing = b.firing
        /\ empty.active = b.active /\ empty.cur = b.cur
    BY <1>1, Zenon DEF Job
  <2> HIDE DEF empty
  <2>3. LoopOK(empty, Faults) /\ empty.cur = 0
    BY <1>1, <2>2, Zenon DEF LoopOK
  <2>4. Awaiting(empty) = Awaiting(b)
    BY <1>1, <2>2, Zenon DEF Awaiting
  <2>5. JobOK(incidents, empty, Faults)
    BY <2>1, <2>2, <2>3, Zenon DEF JobOK, n
  <2>6. Calm(Faults) => StreakOK(incidents, empty, streak)
    BY <1>1, <2>2, <2>4, Zenon DEF StreakOK
  <2>7. Good(incidents, empty, streak, Faults) /\ c = empty
    BY <1>1, <1>7, <2>5, <2>6 DEF Good
  <2> HIDE DEF c
  <2> QED
    BY <1>2, <2>7, StepInv, Zenon DEF AlertInv, TablesOK
<1>8. CASE Len(open) = 1
  <2>1. open[1] \in Open(incidents, n) /\ open[1] \in Incident
    <3>1. 1 \in 1 .. Len(open) /\ open \in Seq(Incident)
      BY <1>4, <1>5, <1>8
    <3>2. open[1] \in Range(open) /\ open[1] \in Incident
      BY <3>1, Rows, Zenon
    <3> QED
      BY <1>4, <1>5, <3>2, Zenon
  <2>2. open[1].id \in Ids /\ open[1].violations \in Count /\ open[1].id # 0
    BY <2>1 DEF Incident, Ids
  <2>3. /\ found \in Job /\ found.pc = "write" /\ found.todo = b.todo /\ found.firing = b.firing
        /\ found.active = b.active /\ found.cur = open[1].id /\ found.seen = open[1].violations
    BY <1>1, <2>2, Zenon DEF Job
  <2> HIDE DEF found
  <2>4. LoopOK(found, Faults)
    BY <1>1, <2>3, Zenon DEF LoopOK
  <2>5. Awaiting(found) = Awaiting(b)
    BY <1>1, <2>3, Zenon DEF Awaiting
  <2>6. JobOK(incidents, found, Faults)
    BY <2>1, <2>2, <2>3, <2>4, Zenon DEF JobOK, n
  <2>7. Calm(Faults) => StreakOK(incidents, found, streak)
    BY <1>1, <2>3, <2>5, Zenon DEF StreakOK
  <2>8. Good(incidents, found, streak, Faults) /\ c = found
    BY <1>1, <1>8, <2>6, <2>7 DEF Good
  <2> HIDE DEF c
  <2> QED
    BY <1>2, <2>8, StepInv, Zenon DEF AlertInv, TablesOK
<1> QED
  BY <1>6, <1>7, <1>8, Zenon

(* What Changed does to the rows. *)
LEMMA ChangedRows ==
    ASSUME NEW rows \in Seq(Incident), Apart(rows), NEW old \in Range(rows), NEW new \in Incident,
           new.id = old.id, new.name = old.name, new.status = "firing" => old.status = "firing",
           NEW after,
           after = [i \in DOMAIN rows |-> IF rows[i].id = old.id THEN new ELSE rows[i]]
    PROVE  /\ after \in Seq(Incident) /\ Apart(after)
           /\ Range(after) = (Range(rows) \ {old}) \cup {new}
<1>1. PICK o \in 1 .. Len(rows) : old = rows[o]
  BY Rows, Zenon
<1>2. \A i \in 1 .. Len(rows) : rows[i].id = old.id <=> i = o
  BY <1>1, Zenon DEF Apart
<1>3. /\ after \in Seq(Incident) /\ Len(after) = Len(rows) /\ DOMAIN after = 1 .. Len(rows)
      /\ Len(rows) \in Nat
  BY Rows, SMTT(30)
<1>4. \A i \in 1 .. Len(rows) : after[i] = IF i = o THEN new ELSE rows[i]
  BY <1>2, Rows, Zenon
<1>5. Apart(after)
  <2>1. ASSUME NEW i \in 1 .. Len(rows), NEW k \in 1 .. Len(rows), i # k
        PROVE  /\ after[i].id # after[k].id
               /\ after[i].status = "firing" /\ after[k].status = "firing"
                  => after[i].name # after[k].name
    <3>1. /\ rows[i].id # rows[k].id
          /\ rows[i].status = "firing" /\ rows[k].status = "firing" => rows[i].name # rows[k].name
      BY <2>1, Zenon DEF Apart
    <3>2. \A l \in 1 .. Len(rows) :
              /\ after[l].id = rows[l].id /\ after[l].name = rows[l].name
              /\ after[l].status = "firing" => rows[l].status = "firing"
      BY <1>1, <1>4, ZenonT(30)
    <3> QED
      BY <3>1, <3>2, Zenon
  <2> QED
    BY <1>3, <2>1 DEF Apart
<1>6. Range(after) = (Range(rows) \ {old}) \cup {new}
  <2>1. Range(after) = {after[i] : i \in 1 .. Len(rows)} /\ Range(rows) = {rows[i] : i \in 1 .. Len(rows)}
    BY <1>3, Rows, Zenon DEF Range
  <2>2. \A i \in 1 .. Len(rows) : i # o => rows[i] # old
    BY <1>1, <1>2, Zenon
  <2> QED
    <3>1. ASSUME NEW x \in Range(after) PROVE x \in (Range(rows) \ {old}) \cup {new}
      <4>1. PICK i \in 1 .. Len(rows) : x = after[i]
        BY <2>1, Zenon
      <4>2. CASE i = o
        BY <1>4, <4>1, <4>2, Zenon
      <4>3. CASE i # o
        BY <1>4, <2>1, <2>2, <4>1, <4>3, Zenon
      <4> QED
        BY <4>2, <4>3, Zenon
    <3>2. ASSUME NEW x \in Range(rows), x # old PROVE x \in Range(after)
      BY <1>1, <1>4, <2>1, <3>2, ZenonT(30)
    <3>3. new \in Range(after)
      BY <1>4, <2>1, Zenon
    <3> QED
      BY <3>1, <3>2, <3>3, Zenon
<1> QED
  BY <1>3, <1>5, <1>6, Zenon

LEMMA WriteInv ==
    ASSUME Alone, AlertInv, NEW j \in setting.jobs, Write(j)
    PROVE  AlertInv'
<1> DEFINE b == jobs[j]
           n == Head(b.todo)
           id == IF b.cur # 0 THEN b.cur ELSE CHOOSE i \in Free : TRUE
           new == [id |-> id, name |-> n, by |-> j, status |-> "firing",
                   violations |-> 1, posts |-> 0]
           rows == IF b.cur = 0 THEN Append(incidents, new)
                   ELSE Changed(id, LAMBDA r : [r EXCEPT !.violations = Inc(b.seen)])
           told == [b EXCEPT !.pc = "notify", !.cur = id]
<1>1. /\ b.pc = "write" /\ (b.cur = 0 => Free # {})
      /\ Commit(rows, j, IF Due(b) THEN told ELSE Advance(b))
      /\ UNCHANGED <<rules, data, streak, setting>>
  BY Zenon DEF Write
<1>2. /\ RowsOK(incidents, Faults) /\ b \in Job /\ LoopOK(b, Faults) /\ b.todo \in Seq(Names)
      /\ b.cur = 0 => Open(incidents, n) = {}
      /\ b.cur # 0 => \E r \in Open(incidents, n) : r.id = b.cur /\ r.violations = b.seen
      /\ Calm(Faults) => StreakOK(incidents, b, streak)
  <2>1. b \in Job /\ RowsOK(incidents, Faults) /\ JobOK(incidents, b, Faults)
    BY Zenon DEF AlertInv, Good, JobOK
  <2>2. b.todo \in Seq(Names)
    BY <2>1, Zenon DEF Job
  <2> QED
    BY <1>1, <2>1, <2>2, Zenon DEF AlertInv, Good, JobOK
<1>3. incidents \in Seq(Incident) /\ Apart(incidents) /\ \A r \in Range(incidents) : RowOK(r, Faults)
  BY <1>2, Zenon DEF RowsOK
<1>4. /\ n \in Names /\ n \in b.firing /\ n \notin Range(Tail(b.todo))
      /\ Range(b.todo) = {n} \cup Range(Tail(b.todo)) /\ Range(b.todo) = Awaiting(b)
  <2>1. b.todo # <<>> /\ \A i, k \in 1 .. Len(b.todo) : b.todo[i] = b.todo[k] => i = k
    BY <1>2, Zenon DEF LoopOK
  <2>2. /\ n \in Names /\ n \notin Range(Tail(b.todo))
        /\ Range(b.todo) = {n} \cup Range(Tail(b.todo))
        /\ Range(b.todo) = {b.todo[i] : i \in 1 .. Len(b.todo)}
    BY <1>2, <2>1, TailFacts, SMTT(30)
  <2>3. Range(b.todo) = Awaiting(b)
    BY <1>1, <2>2, Zenon DEF Awaiting
  <2> QED
    BY <1>2, <2>2, <2>3, Zenon DEF LoopOK
<1>5. n \in Rules => /\ b.active[n] \in Nat /\ b.active[n] > 0 /\ b.active[n] <= MaxCycles
                     /\ "retune" \notin Faults => b.active[n] = Cycles[n]
  BY <1>2, <1>4, AlertConstants DEF LoopOK, Job
<1>6. Calm(Faults) => /\ Pending(incidents, n, streak[n])
                     /\ \A m \in Names :
                            /\ m \notin b.firing => streak[m] = 0
                            /\ m \in b.firing \ Range(b.todo) => Rest(incidents, m, streak[m])
                            /\ m \in Range(b.todo) => Pending(incidents, m, streak[m])
  BY <1>1, <1>2, <1>4 DEF StreakOK
(* Enough for both ways on. *)
<1>7. ASSUME NEW q \in Incident, q.id = id, q.name = n, q.status = "firing", id \in Ids,
             rows \in Seq(Incident), Apart(rows), RowOK(q, Faults),
             Range(rows) \subseteq Range(incidents) \cup {q}, q \in Range(rows),
             \A r \in Range(incidents) : r \notin Range(rows) => r \in Open(incidents, n),
             Open(rows, n) = {q}, Due(b) => Fresh(q, Faults),
             Calm(Faults) => streak[n] = q.violations
      PROVE  AlertInv'
  <2> HIDE DEF rows, id, n
  <2>1. \A m \in Names : m # n => Open(rows, m) = Open(incidents, m)
    BY <1>7, Zenon DEF Open
  <2>2. RowsOK(rows, Faults)
    BY <1>3, <1>7, Zenon DEF RowsOK
  <2>3. Calm(Faults) => Rest(rows, n, streak[n])
    BY <1>7, Zenon DEF Rest
  <2>4. Calm(Faults) => Worked(rows, b, streak)
    <3>1. ASSUME NEW m \in Names, m # n
          PROVE  /\ Rest(rows, m, streak[m]) <=> Rest(incidents, m, streak[m])
                 /\ Pending(rows, m, streak[m]) <=> Pending(incidents, m, streak[m])
      BY <2>1, <3>1, Zenon DEF Rest, Pending
    <3> QED
      BY <1>4, <1>6, <2>3, <3>1, Zenon DEF Worked
  <2>5. CASE Due(b)
    <3>1. Good(rows, [b EXCEPT !.pc = "notify", !.cur = id], streak, Faults)
      BY <1>2, <1>7, <2>2, <2>4, <2>5, NotifyGood, Zenon DEF n
    <3>2. Commit(rows, j, [b EXCEPT !.pc = "notify", !.cur = id])
      BY <1>1, <2>5, Zenon
    <3> QED
      BY <1>1, <3>1, <3>2, CommitInv, Zenon
  <2>6. CASE ~Due(b)
    <3>1. Good(rows, Advance(b), streak, Faults)
      BY <1>2, <2>2, <2>4, AdvanceGood, Zenon
    <3>2. Commit(rows, j, Advance(b))
      BY <1>1, <2>6, Zenon
    <3> QED
      BY <1>1, <3>1, <3>2, CommitInv, Zenon
  <2> QED
    BY <2>5, <2>6, Zenon
<1>8. CASE b.cur = 0
  <2>1. id \in Free /\ rows = Append(incidents, new)
    BY <1>1, <1>8, Zenon
  <2>2. id \in Ids /\ \A i \in 1 .. Len(incidents) : incidents[i].id # id
    BY <1>3, <2>1, Rows, Zenon DEF Free
  <2> HIDE DEF id
  <2>3. new \in Incident /\ new.id = id /\ new.name = n /\ new.status = "firing"
        /\ new.violations = 1 /\ new.posts = 0
    <3>1. 1 \in Count /\ 0 \in 0 .. MaxRetries + 1 /\ j \in Jobs
      BY JobSlots, AlertConstants, AlertingAssumption DEF Count
    <3> QED
      BY <1>4, <2>2, <3>1, Zenon DEF Incident
  <2> HIDE DEF new, n, rows
  <2>4. /\ rows \in Seq(Incident) /\ Len(rows) = Len(incidents) + 1 /\ Len(incidents) \in Nat
        /\ \A i \in 1 .. Len(incidents) : rows[i] = incidents[i]
        /\ rows[Len(incidents) + 1] = new
    BY <1>3, <2>1, <2>3
  <2>5. Range(rows) = Range(incidents) \cup {new}
    <3>1. ASSUME NEW x \in Range(rows) PROVE x \in Range(incidents) \cup {new}
      <4>1. PICK i \in 1 .. Len(rows) : x = rows[i]
        BY <2>4, Rows, Zenon
      <4>2. i \in 1 .. Len(incidents) \/ i = Len(incidents) + 1
        BY <2>4
      <4> QED
        BY <1>3, <2>4, <4>1, <4>2, Rows, Zenon
    <3>2. ASSUME NEW x \in Range(incidents) PROVE x \in Range(rows)
      <4>1. PICK i \in 1 .. Len(incidents) : x = incidents[i]
        BY <1>3, Rows, Zenon
      <4>2. i \in 1 .. Len(rows) /\ x = rows[i]
        BY <2>4, <4>1
      <4> QED
        BY <2>4, <4>2, Rows, Zenon
    <3>3. new \in Range(rows)
      <4>1. Len(incidents) + 1 \in 1 .. Len(rows)
        BY <2>4
      <4> QED
        BY <2>4, <4>1, Rows, Zenon
    <3> QED
      BY <3>1, <3>2, <3>3, Zenon
  <2>6. Open(incidents, n) = {}
    BY <1>2, <1>8, Zenon DEF n
  <2>7. Open(rows, n) = {new}
    BY <2>3, <2>5, <2>6, Zenon DEF Open
  <2>8. Apart(rows)
    <3>1. \A i \in 1 .. Len(incidents) :
              /\ incidents[i].id # new.id
              /\ incidents[i].status = "firing" => incidents[i].name # new.name
      <4>1. \A r \in Range(incidents) : r.status = "firing" => r.name # n
        BY <2>6, Zenon DEF Open
      <4> QED
        BY <1>3, <2>2, <2>3, <4>1, Rows, Zenon
    <3>2. \A i \in 1 .. Len(rows) : i \in 1 .. Len(incidents) \/ i = Len(incidents) + 1
      BY <2>4
    <3>3. \A i \in 1 .. Len(rows) :
              \/ i \in 1 .. Len(incidents) /\ rows[i] = incidents[i]
              \/ i = Len(incidents) + 1 /\ rows[i] = new
      BY <2>4, <3>2, Zenon
    <3> QED
      BY <1>3, <3>1, <3>3, ZenonT(30) DEF Apart
  <2>9. RowOK(new, Faults)
    BY <2>3, AlertingAssumption DEF RowOK
  <2>10. Due(b) => Fresh(new, Faults)
    <3>1. Due(b) => (n \in Rules => 1 >= b.active[n])
      BY <1>8, Zenon DEF Due, n
    <3> QED
      BY <1>5, <2>3, <3>1 DEF Fresh
  <2>11. Calm(Faults) => streak[n] = new.violations
    BY <1>6, <2>3, <2>6, Zenon DEF Pending
  <2> QED
    BY <1>7, <2>2, <2>3, <2>4, <2>5, <2>7, <2>8, <2>9, <2>10, <2>11, Zenon
<1>9. CASE b.cur # 0
  <2>1. PICK old \in Open(incidents, n) : old.id = b.cur /\ old.violations = b.seen
    BY <1>2, <1>9, Zenon
  <2>2. old \in Range(incidents) /\ old.status = "firing" /\ old.name = n /\ old \in Incident
    BY <1>3, <2>1, Rows, Zenon DEF Open
  <2> DEFINE q == [old EXCEPT !.violations = Inc(b.seen)]
  <2>3. id = b.cur /\ id \in Ids /\ b.seen \in Count
    BY <1>2, <1>9, Zenon DEF Job
  <2>4. rows = [i \in DOMAIN incidents |->
                   IF incidents[i].id = id
                   THEN [incidents[i] EXCEPT !.violations = Inc(b.seen)] ELSE incidents[i]]
    BY <1>9, Zenon DEF Changed
  <2> HIDE DEF id, rows, n
  <2>5. \A i \in DOMAIN incidents : incidents[i].id = id => incidents[i] = old
    <3>1. \A i \in DOMAIN incidents : incidents[i] \in Range(incidents)
      BY <1>3, Rows, Zenon
    <3> QED
      BY <1>3, <2>1, <2>2, <2>3, <3>1, ApartRows, Zenon
  <2>6. rows = [i \in DOMAIN incidents |-> IF incidents[i].id = old.id THEN q ELSE incidents[i]]
    BY <2>1, <2>3, <2>4, <2>5, Zenon
  <2>7. /\ q \in Incident /\ q.id = id /\ q.name = n /\ q.status = "firing"
        /\ q.violations = Inc(b.seen) /\ q.posts = old.posts
    BY <2>1, <2>2, <2>3, AlertConstants, Zenon DEF Incident
  <2> HIDE DEF q
  <2>8. /\ rows \in Seq(Incident) /\ Apart(rows)
        /\ Range(rows) = (Range(incidents) \ {old}) \cup {q}
    <3>1. q.id = old.id /\ q.name = old.name /\ (q.status = "firing" => old.status = "firing")
      BY <2>1, <2>2, <2>3, <2>7, Zenon
    <3> QED
      BY <1>3, <2>2, <2>6, <2>7, <3>1, ChangedRows, SMTT(30)
  <2>9. RowOK(old, Faults) /\ b.seen \in Nat /\ old.posts \in Nat /\ Inc(b.seen) \in Nat
    <3>1. RowOK(old, Faults)
      BY <1>3, <2>2, Zenon
    <3>2. b.seen \in Nat /\ Inc(b.seen) \in Nat
      BY <2>3, AlertConstants DEF Count
    <3>3. old.posts \in Nat
      BY <2>2, AlertConstants DEF Incident
    <3> QED
      BY <3>1, <3>2, <3>3, Zenon
  <2>10. RowOK(q, Faults)
    BY <2>1, <2>2, <2>3, <2>7, <2>9, AlertConstants, SMTT(30) DEF RowOK
  <2>11. Due(b) => Fresh(q, Faults)
    <3>1. ASSUME Due(b) PROVE n \in Rules /\ b.seen + 1 = b.active[n]
      BY <1>9, <3>1, Zenon DEF Due, n
    <3> QED
      BY <1>5, <2>1, <2>2, <2>3, <2>7, <2>9, <3>1, AlertConstants DEF RowOK, Fresh
  <2>12. \A r \in Open(incidents, n) : r = old
    BY <1>3, <2>2, ApartRows, Zenon DEF Open
  <2>13. Open(rows, n) = {q}
    BY <2>7, <2>8, <2>12, Zenon DEF Open
  <2>14. Calm(Faults) => streak[n] = q.violations
    BY <1>6, <2>1, <2>7, Zenon DEF Pending
  <2>15. /\ Range(rows) \subseteq Range(incidents) \cup {q} /\ q \in Range(rows)
         /\ \A r \in Range(incidents) : r \notin Range(rows) => r \in Open(incidents, n)
    BY <2>1, <2>8, Zenon
  <2> QED
    BY <1>7, <2>3, <2>7, <2>8, <2>10, <2>11, <2>13, <2>14, <2>15, Zenon
<1> QED
  BY <1>8, <1>9, Zenon

LEMMA NotifyInv ==
    ASSUME Alone, AlertInv, NEW j \in setting.jobs, Notify(j)
    PROVE  AlertInv'
<1> DEFINE b == jobs[j]
           n == Head(b.todo)
<1>1. b.pc = "notify" /\ UNCHANGED <<rules, data, streak, setting>>
  BY Zenon DEF Notify
<1> DEFINE Got(m) == IF m > MaxRetries THEN MaxRetries + 1 ELSE m
<1>2. PICK copies \in Copies(Faults) :
          Commit([i \in DOMAIN incidents |->
                     IF incidents[i].id = b.cur
                     THEN [incidents[i] EXCEPT !.posts = Got(@ + copies)]
                     ELSE incidents[i]], j, Advance(b))
  BY Zenon DEF Notify, Changed
<1>3. /\ RowsOK(incidents, Faults) /\ b \in Job /\ LoopOK(b, Faults) /\ b.todo \in Seq(Names)
      /\ \E r \in Open(incidents, n) : r.id = b.cur /\ Fresh(r, Faults)
      /\ Calm(Faults) => StreakOK(incidents, b, streak)
  <2>1. b \in Job /\ RowsOK(incidents, Faults) /\ JobOK(incidents, b, Faults)
    BY Zenon DEF AlertInv, Good, JobOK
  <2>2. b.todo \in Seq(Names)
    BY <2>1, Zenon DEF Job
  <2> QED
    BY <1>1, <2>1, <2>2, Zenon DEF AlertInv, Good, JobOK
<1>4. incidents \in Seq(Incident) /\ Apart(incidents) /\ \A r \in Range(incidents) : RowOK(r, Faults)
  BY <1>3, Zenon DEF RowsOK
<1>5. /\ n \in b.firing /\ n \notin Range(Tail(b.todo))
      /\ Range(Tail(b.todo)) = Awaiting(b)
  <2>1. b.todo # <<>> /\ \A i, k \in 1 .. Len(b.todo) : b.todo[i] = b.todo[k] => i = k
    BY <1>3, Zenon DEF LoopOK
  <2>2. /\ n \notin Range(Tail(b.todo)) /\ n \in Range(b.todo)
        /\ Range(Tail(b.todo)) = {b.todo[i] : i \in {k \in 1 .. Len(b.todo) : k > 1}}
    BY <1>3, <2>1, TailFacts, SMTT(30)
  <2>3. Range(Tail(b.todo)) = Awaiting(b)
    BY <1>1, <2>2, Zenon DEF Awaiting
  <2> QED
    BY <1>3, <2>2, <2>3, Zenon DEF LoopOK
<1>6. PICK old \in Open(incidents, n) : old.id = b.cur /\ Fresh(old, Faults)
  BY <1>3, Zenon
<1>7. /\ old \in Range(incidents) /\ old.status = "firing" /\ old.name = n /\ old \in Incident
      /\ RowOK(old, Faults)
  BY <1>4, <1>6, Rows, Zenon DEF Open
<1> DEFINE q == [old EXCEPT !.posts = Got(@ + copies)]
           rows == [i \in DOMAIN incidents |-> IF incidents[i].id = old.id THEN q ELSE incidents[i]]
<1>8. \A i \in DOMAIN incidents : incidents[i].id = b.cur => incidents[i] = old
  <2>1. \A i \in DOMAIN incidents : incidents[i] \in Range(incidents)
    BY <1>4, Rows, Zenon
  <2> QED
    BY <1>4, <1>6, <1>7, <2>1, ApartRows, Zenon
<1>9. Commit(rows, j, Advance(b))
  <2>1. rows = [i \in DOMAIN incidents |->
                     IF incidents[i].id = b.cur
                     THEN [incidents[i] EXCEPT !.posts = Got(@ + copies)]
                     ELSE incidents[i]]
    BY <1>6, <1>8, Zenon
  <2> QED
    BY <1>2, <2>1, Zenon
<1>10. /\ q \in Incident /\ q.id = old.id /\ q.name = n /\ q.status = "firing"
       /\ q.violations = old.violations /\ q.posts = Got(old.posts + copies)
  <2> DEFINE posts == Got(old.posts + copies)
  <2>1. q = [old EXCEPT !.posts = posts]
    BY Zenon
  <2>2. posts \in 0 .. MaxRetries + 1
    BY <1>7, AlertingAssumption DEF Incident, Copies
  <2> HIDE DEF posts, q
  <2>4. q \in Incident
    BY <1>7, <2>1, <2>2, Zenon DEF Incident
  <2> QED
    BY <1>7, <2>1, <2>4, Zenon DEF Incident, posts
<1> HIDE DEF q, n
<1>11. /\ rows \in Seq(Incident) /\ Apart(rows) /\ Range(rows) = (Range(incidents) \ {old}) \cup {q}
  <2>1. q.name = old.name /\ (q.status = "firing" => old.status = "firing")
    BY <1>7, <1>10, Zenon
  <2>2. rows = [i \in DOMAIN incidents |-> IF incidents[i].id = old.id THEN q ELSE incidents[i]]
    BY Zenon
  <2> HIDE DEF rows
  <2> QED
    BY <1>4, <1>7, <1>10, <2>1, <2>2, ChangedRows, SMTT(30)
<1> HIDE DEF rows
<1>12. RowOK(q, Faults)
  <2>1. copies \in Nat /\ copies <= IF "webhook" \in Faults THEN MaxRetries ELSE 1
    BY AlertingAssumption DEF Copies
  <2>2. MaxRetries \in Nat /\ MaxRetries >= 1
    BY AlertingAssumption
  <2> QED
    BY <1>6, <1>7, <1>10, <2>1, <2>2, AlertConstants DEF RowOK, Fresh
<1>13. RowsOK(rows, Faults)
  BY <1>4, <1>11, <1>12, Zenon DEF RowsOK
<1>14. Calm(Faults) => Worked(rows, b, streak)
  <2>1. \A m : m # n => Open(rows, m) = Open(incidents, m)
    BY <1>7, <1>10, <1>11, Zenon DEF Open
  <2>2. ASSUME NEW m \in Names, m # n
        PROVE  /\ Rest(rows, m, streak[m]) <=> Rest(incidents, m, streak[m])
               /\ Pending(rows, m, streak[m]) <=> Pending(incidents, m, streak[m])
    BY <2>1, <2>2, Zenon DEF Rest, Pending
  <2>3. Rest(incidents, n, streak[n]) => Rest(rows, n, streak[n])
    <3>1. \A r \in Open(rows, n) : r \in Open(incidents, n) \/ r = q
      BY <1>11, Zenon DEF Open
    <3>2. q \in Open(rows, n)
      BY <1>10, <1>11, Zenon DEF Open
    <3> QED
      BY <1>6, <1>10, <3>1, <3>2, Zenon DEF Rest
  <2>4. Calm(Faults) => Worked(incidents, b, streak)
    BY <1>1, <1>3, <1>5, Zenon DEF StreakOK, Worked
  <2> QED
    BY <1>5, <2>2, <2>3, <2>4, Zenon DEF Worked
<1>15. Good(rows, Advance(b), streak, Faults)
  BY <1>3, <1>13, <1>14, AdvanceGood, Zenon
<1> QED
  BY <1>1, <1>9, <1>15, CommitInv, Zenon

(* One page holds every open incident: there are no more than names. *)
LEMMA PageHoldsAll ==
    ASSUME NEW open \in Seq(Incident), Apart(open), Len(RuleOrder) + Len(SloOrder) <= ListLimit,
           \A r \in Range(open) : r.status = "firing"
    PROVE  Len(open) <= ListLimit
<1> DEFINE order == RuleOrder \o SloOrder
           m == Len(open)
           f == [i \in 1 .. m |-> CHOOSE k \in 1 .. Len(order) : order[k] = open[i].name]
<1>1. /\ order \in Seq(Names) /\ Range(order) = Names
  BY OrderFacts, Zenon
<1>2. Len(order) = Len(RuleOrder) + Len(SloOrder) /\ Len(order) \in Nat /\ ListLimit \in Nat /\ m \in Nat
  BY AlertingAssumption
<1> HIDE DEF order, m
<1>3. \A n \in Names : \E k \in 1 .. Len(order) : order[k] = n
  BY <1>1 DEF Range
<1>4. \A i \in 1 .. m : open[i].name \in Names /\ open[i].status = "firing"
  BY Rows, Zenon DEF Incident, m
<1>5. \A i \in 1 .. m : f[i] \in 1 .. Len(order) /\ order[f[i]] = open[i].name
  BY <1>3, <1>4, Zenon
<1>6. f \in [1 .. m -> 1 .. Len(order)]
  BY <1>5, Zenon
<1> HIDE DEF f
<1>7. \A i, k \in 1 .. m : f[i] = f[k] => i = k
  <2>1. ASSUME NEW i \in 1 .. m, NEW k \in 1 .. m, f[i] = f[k] PROVE i = k
    <3>1. open[i].name = open[k].name
      BY <1>5, <2>1, Zenon
    <3>2. i \in 1 .. Len(open) /\ k \in 1 .. Len(open)
      BY Zenon DEF m
    <3> QED
      BY <1>4, <3>1, <3>2, Zenon DEF Apart
  <2> QED
    BY <2>1, Zenon
<1>8. m <= Len(order)
  BY <1>2, <1>6, <1>7, PigeonHole, ZenonT(30)
<1> QED
  BY <1>2, <1>8 DEF m

LEMMA PageRows ==
    ASSUME NEW open \in Seq(Incident)
    PROVE  /\ Page(open) \in Seq(Incident) /\ Range(Page(open)) \subseteq Range(open)
           /\ Len(open) <= ListLimit => Range(open) \subseteq Range(Page(open))
<1> DEFINE m == IF Len(open) < ListLimit THEN Len(open) ELSE ListLimit
           page == Page(open)
<1>1. Len(open) \in Nat /\ ListLimit \in Nat
  BY AlertingAssumption
<1>2. m \in Nat /\ m <= Len(open) /\ (Len(open) <= ListLimit => m = Len(open))
  BY <1>1
<1>3. page = [i \in 1 .. m |-> open[Len(open) + 1 - i]]
  BY Zenon DEF Page
<1> HIDE DEF m, page
<1>4. \A i \in 1 .. m : Len(open) + 1 - i \in 1 .. Len(open)
  BY <1>1, <1>2
<1>5. page \in Seq(Incident) /\ DOMAIN page = 1 .. m
  BY <1>2, <1>3, <1>4, Rows
<1>6. Range(page) \subseteq Range(open)
  BY <1>3, <1>4, <1>5, Rows DEF Range
<1>7. ASSUME Len(open) <= ListLimit, NEW x \in Range(open) PROVE x \in Range(page)
  <2>1. PICK i \in 1 .. Len(open) : x = open[i]
    BY Rows, Zenon
  <2>2. Len(open) + 1 - i \in 1 .. m /\ Len(open) + 1 - (Len(open) + 1 - i) = i
    BY <1>1, <1>2, <1>7
  <2>3. page[Len(open) + 1 - i] = x
    BY <1>3, <2>1, <2>2, Zenon
  <2> QED
    BY <1>5, <2>2, <2>3, Zenon DEF Range
<1> QED
  BY <1>5, <1>6, <1>7, Zenon DEF page

LEMMA ListInv ==
    ASSUME Alone, AlertInv, NEW j \in setting.jobs, List(j)
    PROVE  AlertInv'
<1> DEFINE b == jobs[j]
           open == Firing(incidents)
           cleared == Where(Page(open), Cleared(b))
           ids == [i \in DOMAIN cleared |-> cleared[i].id]
<1>1. /\ b.pc = "list" /\ UNCHANGED <<rules, data, streak, setting>>
      /\ Commit(incidents, j, Resolving(b, ids))
  BY Zenon DEF List
<1>2. /\ RowsOK(incidents, Faults) /\ b \in Job /\ incidents \in Seq(Incident) /\ Apart(incidents)
      /\ Calm(Faults) => StreakOK(incidents, b, streak)
  BY Zenon DEF AlertInv, Good, JobOK, RowsOK
<1>3. /\ open \in Seq(Incident) /\ Apart(open)
      /\ Range(open) = Range(incidents) \cap {r \in Incident : r.status = "firing"}
  BY <1>2, WherePicks, WhereRange, WhereApart, Zenon DEF Firing
<1>4. \A r : r \in Range(open) <=> r \in Range(incidents) /\ r.status = "firing"
  BY <1>2, <1>3, Rows, Zenon
<1> HIDE DEF open
<1>5. /\ Page(open) \in Seq(Incident) /\ Range(Page(open)) \subseteq Range(open)
      /\ Calm(Faults) => Range(open) \subseteq Range(Page(open))
  BY <1>3, <1>4, PageRows, PageHoldsAll, Zenon DEF Calm
<1>6. cleared \in Seq(Incident) /\ Range(cleared) = Range(Page(open)) \cap Cleared(b)
  BY <1>5, WherePicks, WhereRange, Zenon
<1>7. /\ \A r \in Range(cleared) : r \in Range(incidents) /\ r.name \notin b.firing
      /\ Calm(Faults) => \A r \in Range(incidents) :
             r.status = "firing" /\ r.name \notin b.firing => r \in Range(cleared)
  <2>1. \A r \in Incident : r \in Cleared(b) <=> r.name \notin b.firing
    BY Zenon DEF Cleared
  <2>2. \A r \in Range(incidents) : r \in Incident
    BY <1>2, Rows, Zenon
  <2> QED
    BY <1>4, <1>5, <1>6, <2>1, <2>2, Zenon
<1> HIDE DEF cleared
<1>8. /\ ids \in Seq(Ids) /\ \A x : x \in Range(ids) <=> \E r \in Range(cleared) : x = r.id
      /\ ids = <<>> => Range(cleared) = {}
  <2>1. /\ Len(cleared) \in Nat /\ DOMAIN cleared = 1 .. Len(cleared)
        /\ \A i \in 1 .. Len(cleared) : cleared[i].id \in Ids
    BY <1>6, Rows, Zenon DEF Incident
  <2>2. ids \in Seq(Ids) /\ Len(ids) = Len(cleared) /\ DOMAIN ids = 1 .. Len(cleared)
    BY <2>1
  <2>3. \A x : x \in Range(ids) <=> \E r \in Range(cleared) : x = r.id
    BY <2>1, <2>2, Zenon DEF Range
  <2>4. ids = <<>> => Range(cleared) = {}
    BY <2>1, <2>2 DEF Range
  <2> QED
    BY <2>2, <2>3, <2>4, Zenon
<1> HIDE DEF ids
<1>9. Calm(Faults) => \A n \in Names : /\ n \notin b.firing => streak[n] = 0
                                       /\ n \in b.firing => Rest(incidents, n, streak[n])
  <2>1. Awaiting(b) = {}
    BY <1>1, Zenon DEF Awaiting
  <2> QED
    BY <1>1, <1>2, <2>1, Zenon DEF StreakOK
<1>10. CASE ids = <<>>
  <2>1. Calm(Faults) => \A n \in Names : Rest(incidents, n, streak[n])
    <3>1. Calm(Faults) => \A n \in Names : n \notin b.firing => Open(incidents, n) = {}
      BY <1>7, <1>8, <1>10, Zenon DEF Open
    <3> QED
      BY <1>9, <3>1, Zenon DEF Rest
  <2>2. Good(incidents, [Idle EXCEPT !.pc = "idle"], streak, Faults)
    BY <1>2, <2>1, QuietJob, Zenon
  <2>3. Resolving(b, ids) = [Idle EXCEPT !.pc = "idle"]
    BY <1>10, IdleType, Zenon DEF Resolving
  <2> QED
    BY <1>1, <2>2, <2>3, CommitInv, Zenon
<1>11. CASE ids # <<>>
  <2> DEFINE c == [b EXCEPT !.pc = "resolve", !.listed = ids]
  <2>1. c \in Job
    BY <1>2, <1>8, Zenon DEF Job
  <2>2. c.pc = "resolve" /\ c.listed = ids /\ c.firing = b.firing
    BY <1>2, Zenon DEF Job
  <2> HIDE DEF c
  <2>3. JobOK(incidents, c, Faults)
    BY <1>11, <2>1, <2>2, Zenon DEF JobOK
  <2>4. Awaiting(c) = {}
    BY <2>2, Zenon DEF Awaiting
  <2>5. Calm(Faults) => StreakOK(incidents, c, streak)
    <3>1. \A r \in Range(incidents) : r.id \in Range(ids) => r.name \notin b.firing
      <4>1. ASSUME NEW r \in Range(incidents), r.id \in Range(ids) PROVE r.name \notin b.firing
        <5>1. PICK q \in Range(cleared) : r.id = q.id
          BY <1>8, <4>1, Zenon
        <5>2. r = q
          BY <1>2, <1>7, <5>1, ApartRows, Zenon
        <5> QED
          BY <1>7, <5>2, Zenon
      <4> QED
        BY <4>1, Zenon
    <3>2. Calm(Faults) => \A r \in Range(incidents) :
              r.status = "firing" /\ r.name \notin b.firing => r.id \in Range(ids)
      BY <1>7, <1>8, Zenon
    <3>3. Listed(c) = Range(ids)
      BY <2>2, Zenon DEF Listed
    <3> QED
      BY <1>9, <2>2, <2>4, <3>1, <3>2, <3>3, Zenon DEF StreakOK
  <2>6. Good(incidents, c, streak, Faults)
    BY <1>2, <2>3, <2>5, Zenon DEF Good
  <2>7. Commit(incidents, j, c)
    BY <1>1, <1>11, Zenon DEF Resolving, c
  <2> QED
    BY <1>1, <2>6, <2>7, CommitInv, Zenon
<1> QED
  BY <1>10, <1>11, Zenon

LEMMA ResolveInv ==
    ASSUME Alone, AlertInv, NEW j \in setting.jobs, Resolve(j)
    PROVE  AlertInv'
<1> DEFINE b == jobs[j]
           h == Head(b.listed)
           rows == [i \in DOMAIN incidents |->
                       IF incidents[i].id = h THEN [incidents[i] EXCEPT !.status = "resolved"]
                       ELSE incidents[i]]
           c == [b EXCEPT !.pc = "resolved"]
<1>1. b.pc = "resolve" /\ UNCHANGED <<rules, data, streak, setting>> /\ Commit(rows, j, c)
  BY Zenon DEF Resolve, Changed
<1>2. /\ RowsOK(incidents, Faults) /\ b \in Job /\ incidents \in Seq(Incident) /\ Apart(incidents)
      /\ b.listed # <<>> /\ \A r \in Range(incidents) : RowOK(r, Faults)
      /\ Calm(Faults) => StreakOK(incidents, b, streak)
  BY <1>1, Zenon DEF AlertInv, Good, JobOK, RowsOK
<1>3. b.listed \in Seq(Ids)
  BY <1>2, Zenon DEF Job
<1>4. h \in Range(b.listed) /\ \A x \in Range(b.listed) : x = h \/ x \in Range(Tail(b.listed))
  <2> DEFINE l == b.listed
  <2>1. l \in Seq(Ids) /\ l # <<>>
    BY <1>2, <1>3, Zenon
  <2> HIDE DEF l
  <2>2. /\ Len(l) \in Nat \ {0} /\ DOMAIN l = 1 .. Len(l) /\ Head(l) = l[1]
        /\ DOMAIN Tail(l) = 1 .. Len(l) - 1 /\ \A i \in 1 .. Len(l) - 1 : Tail(l)[i] = l[i + 1]
    BY <2>1
  <2>3. Head(l) \in Range(l)
    BY <2>2, SMTT(30) DEF Range
  <2>4. ASSUME NEW x \in Range(l), x # Head(l) PROVE x \in Range(Tail(l))
    <3>1. PICK i \in 1 .. Len(l) : x = l[i]
      BY <2>2, Zenon DEF Range
    <3>2. i - 1 \in 1 .. Len(l) - 1 /\ (i - 1) + 1 = i
      BY <2>2, <2>4, <3>1
    <3> QED
      BY <2>2, <3>1, <3>2, Zenon DEF Range
  <2> QED
    BY <2>3, <2>4, Zenon DEF l
<1>5. /\ c \in Job /\ c.pc = "resolved" /\ c.listed = b.listed /\ c.firing = b.firing
  BY <1>2, Zenon DEF Job
<1> HIDE DEF c, h
<1> DEFINE Closed(r) == [r EXCEPT !.status = "resolved"]
<1>6. ASSUME NEW r \in Range(incidents)
      PROVE  /\ Closed(r) \in Incident /\ Closed(r).id = r.id /\ Closed(r).name = r.name
             /\ Closed(r).status = "resolved" /\ Closed(r).violations = r.violations
             /\ Closed(r).posts = r.posts
  <2>1. r \in Incident
    BY <1>2, Rows, Zenon
  <2> QED
    BY <2>1, Zenon DEF Incident
(* Either the row is still there or there is nothing to change. *)
<1>7. /\ rows \in Seq(Incident) /\ Apart(rows)
      /\ \A r \in Range(rows) : r.id = h => r.status = "resolved"
      /\ \A r \in Range(rows) : \E q \in Range(incidents) :
             /\ r.id = q.id /\ r.name = q.name /\ r.violations = q.violations /\ r.posts = q.posts
             /\ r.id # h => r = q
      /\ \A r \in Range(incidents) : r.id # h => r \in Range(rows)
  <2>1. CASE \E r \in Range(incidents) : r.id = h
    <3>1. PICK old \in Range(incidents) : old.id = h
      BY <2>1, Zenon
    <3> DEFINE q == [old EXCEPT !.status = "resolved"]
    <3>2. /\ q \in Incident /\ q.id = old.id /\ q.name = old.name /\ q.status = "resolved"
          /\ q.violations = old.violations /\ q.posts = old.posts
      BY <1>6, <3>1, Zenon
    <3>3. \A i \in DOMAIN incidents : incidents[i].id = h => incidents[i] = old
      <4>1. \A i \in DOMAIN incidents : incidents[i] \in Range(incidents)
        BY <1>2, Rows, Zenon
      <4> QED
        BY <1>2, <3>1, <4>1, ApartRows, Zenon
    <3>4. rows = [i \in DOMAIN incidents |-> IF incidents[i].id = old.id THEN q ELSE incidents[i]]
      BY <3>1, <3>3, Zenon
    <3> HIDE DEF q, rows
    <3>5. q.status = "firing" => old.status = "firing"
      BY <3>2, Zenon
    <3>6. rows \in Seq(Incident) /\ Apart(rows) /\ Range(rows) = (Range(incidents) \ {old}) \cup {q}
      BY <1>2, <3>2, <3>4, <3>5, ChangedRows
    <3>7. \A r \in Range(incidents) : r.id = h => r = old
      BY <1>2, <3>1, ApartRows, Zenon
    <3> QED
      BY <3>1, <3>2, <3>6, <3>7, Zenon
  <2>2. CASE \A r \in Range(incidents) : r.id # h
    <3>1. \A i \in DOMAIN incidents : incidents[i].id # h
      BY <1>2, <2>2, Rows, Zenon
    <3>2. rows = [i \in DOMAIN incidents |-> incidents[i]]
      BY <3>1, Zenon
    <3>3. rows = incidents
      BY <1>2, <3>2
    <3> HIDE DEF rows
    <3> QED
      BY <1>2, <2>2, <3>3, Zenon
  <2> QED
    BY <2>1, <2>2, Zenon
<1> HIDE DEF rows
<1>8. RowsOK(rows, Faults)
  BY <1>2, <1>7, ZenonT(30) DEF RowsOK, RowOK
<1>9. JobOK(rows, c, Faults)
  BY <1>2, <1>5, Zenon DEF JobOK
<1>10. ASSUME Calm(Faults) PROVE StreakOK(rows, c, streak)
  <2>1. Awaiting(b) = {} /\ Awaiting(c) = {}
    BY <1>1, <1>5, Zenon DEF Awaiting
  <2>2. /\ \A n \in Names : /\ n \notin b.firing => streak[n] = 0
                            /\ n \in b.firing => Rest(incidents, n, streak[n])
        /\ \A r \in Range(incidents) :
               /\ r.id \in Range(b.listed) => r.name \notin b.firing
               /\ r.status = "firing" /\ r.name \notin b.firing => r.id \in Range(b.listed)
    BY <1>1, <1>2, <1>10, <2>1, Zenon DEF StreakOK, Listed
  <2>3. ASSUME NEW n \in b.firing PROVE Open(rows, n) = Open(incidents, n)
    BY <1>4, <1>7, <2>2, Zenon DEF Open
  <2>4. \A n \in Names : n \in b.firing => Rest(rows, n, streak[n])
    BY <2>2, <2>3, Zenon DEF Rest
  <2>5. Listed(c) = Range(Tail(b.listed))
    BY <1>5, Zenon DEF Listed
  <2>6. \A r \in Range(rows) :
            /\ r.id \in Range(b.listed) => r.name \notin b.firing
            /\ r.status = "firing" /\ r.name \notin b.firing => r.id \in Range(Tail(b.listed))
    BY <1>4, <1>7, <2>2, Zenon
  <2> QED
    BY <1>5, <2>1, <2>2, <2>4, <2>5, <2>6, Zenon DEF StreakOK
<1>11. Good(rows, c, streak, Faults)
  BY <1>8, <1>9, <1>10, Zenon DEF Good
<1> QED
  BY <1>1, <1>11, CommitInv, Zenon

LEMMA NotifyResolutionInv ==
    ASSUME Alone, AlertInv, NEW j \in setting.jobs, NotifyResolution(j)
    PROVE  AlertInv'
<1> DEFINE b == jobs[j]
           ids == Tail(b.listed)
<1>1. /\ b.pc = "resolved" /\ UNCHANGED <<rules, data, streak, setting>>
      /\ Commit(incidents, j, Resolving(b, ids))
  BY Zenon DEF NotifyResolution
<1>2. /\ RowsOK(incidents, Faults) /\ b \in Job /\ b.listed # <<>>
      /\ Calm(Faults) => StreakOK(incidents, b, streak)
  BY <1>1, Zenon DEF AlertInv, Good, JobOK
<1>3. b.listed \in Seq(Ids)
  BY <1>2, Zenon DEF Job
<1>4. ids \in Seq(Ids) /\ Range(ids) \subseteq Range(b.listed) /\ (ids = <<>> => Range(ids) = {})
  BY <1>2, <1>3 DEF Range
<1>5. Calm(Faults) =>
          /\ \A n \in Names : /\ n \notin b.firing => streak[n] = 0
                              /\ n \in b.firing => Rest(incidents, n, streak[n])
          /\ \A r \in Range(incidents) :
                 /\ r.id \in Range(b.listed) => r.name \notin b.firing
                 /\ r.status = "firing" /\ r.name \notin b.firing => r.id \in Range(ids)
  <2>1. Awaiting(b) = {} /\ Listed(b) = Range(ids)
    BY <1>1, Zenon DEF Awaiting, Listed
  <2> QED
    BY <1>1, <1>2, <2>1, Zenon DEF StreakOK
<1> HIDE DEF ids
<1>6. CASE ids = <<>>
  <2>1. Calm(Faults) => \A n \in Names : Rest(incidents, n, streak[n])
    <3>1. Calm(Faults) => \A n \in Names : n \notin b.firing => Open(incidents, n) = {}
      BY <1>4, <1>5, <1>6, Zenon DEF Open
    <3> QED
      BY <1>5, <3>1, Zenon DEF Rest
  <2>2. Good(incidents, [Idle EXCEPT !.pc = "idle"], streak, Faults)
    BY <1>2, <2>1, QuietJob, Zenon
  <2>3. Resolving(b, ids) = [Idle EXCEPT !.pc = "idle"]
    BY <1>6, IdleType, Zenon DEF Resolving
  <2> QED
    BY <1>1, <2>2, <2>3, CommitInv, Zenon
<1>7. CASE ids # <<>>
  <2> DEFINE c == [b EXCEPT !.pc = "resolve", !.listed = ids]
  <2>1. c \in Job
    BY <1>2, <1>4, Zenon DEF Job
  <2>2. c.pc = "resolve" /\ c.listed = ids /\ c.firing = b.firing
    BY <1>2, Zenon DEF Job
  <2> HIDE DEF c
  <2>3. JobOK(incidents, c, Faults)
    BY <1>7, <2>1, <2>2, Zenon DEF JobOK
  <2>4. Awaiting(c) = {} /\ Listed(c) = Range(ids)
    BY <2>2, Zenon DEF Awaiting, Listed
  <2>5. Calm(Faults) => StreakOK(incidents, c, streak)
    BY <1>4, <1>5, <2>2, <2>4, Zenon DEF StreakOK
  <2>6. Good(incidents, c, streak, Faults)
    BY <1>2, <2>3, <2>5, Zenon DEF Good
  <2>7. Commit(incidents, j, c)
    BY <1>1, <1>7, Zenon DEF Resolving, c
  <2> QED
    BY <1>1, <2>6, <2>7, CommitInv, Zenon
<1> QED
  BY <1>6, <1>7, Zenon

LEMMA CrashInv ==
    ASSUME Alone, AlertInv, NEW j \in setting.jobs, Crash(j)
    PROVE  AlertInv'
<1>1. "crash" \in Faults /\ Commit(incidents, j, Idle) /\ UNCHANGED <<rules, data, streak, setting>>
  BY Zenon DEF Crash
<1>2. ~Calm(Faults)
  BY <1>1, Zenon DEF Calm
<1>3. Good(incidents, [Idle EXCEPT !.pc = "idle"], streak, Faults)
  BY <1>2, QuietJob, Zenon DEF AlertInv
<1>4. Commit(incidents, j, [Idle EXCEPT !.pc = "idle"])
  BY <1>1, IdleType, Zenon
<1> QED
  BY <1>1, <1>3, <1>4, CommitInv, Zenon

LEMMA LoseCountInv ==
    ASSUME Alone, AlertInv, NEW j \in setting.jobs, LoseCount(j)
    PROVE  AlertInv'
<1>1. /\ "crash" \in Faults /\ jobs[j].pc = "write" /\ Commit(incidents, j, Advance(jobs[j]))
      /\ UNCHANGED <<rules, data, streak, setting>>
  BY Zenon DEF LoseCount
<1>2. ~Calm(Faults)
  BY <1>1, Zenon DEF Calm
<1>3. RowsOK(incidents, Faults) /\ jobs[j] \in Job /\ LoopOK(jobs[j], Faults)
  BY <1>1, Zenon DEF AlertInv, Good, JobOK
<1>4. Good(incidents, Advance(jobs[j]), streak, Faults)
  BY <1>2, <1>3, AdvanceGood, Zenon
<1> QED
  BY <1>1, <1>4, CommitInv, Zenon

(* The administrator and the metrics touch neither the incidents nor a run. *)
LEMMA OutsideInv ==
    ASSUME AlertInv, UNCHANGED <<incidents, jobs, streak, setting>>,
           rules' \in [Rules -> [cycles: 0 .. MaxCycles, enabled: BOOLEAN]],
           "retune" \notin Faults => \A r \in Rules : rules'[r].cycles \in {0, Cycles[r]},
           data' \in [Names -> {"ok", "breach", "none"}]
    PROVE  AlertInv'
<1>1. TablesOK'
  BY Zenon DEF AlertInv, TablesOK, Faults
<1>2. Faults' = Faults
  BY Zenon DEF Faults
<1>3. RowsOK(incidents', Faults') /\ \A i \in setting'.jobs : Good(incidents', jobs'[i], streak', Faults')
  BY <1>2, Zenon DEF AlertInv
<1> QED
  BY <1>1, <1>3, Zenon DEF AlertInv

LEMMA AlertNextInv ==
    ASSUME Alone, AlertInv, [Next]_vars
    PROVE  AlertInv'
<1>1. /\ rules \in [Rules -> [cycles: 0 .. MaxCycles, enabled: BOOLEAN]]
      /\ "retune" \notin Faults => \A r \in Rules : rules[r].cycles \in {0, Cycles[r]}
      /\ data \in [Names -> {"ok", "breach", "none"}]
  BY Zenon DEF AlertInv, TablesOK
<1>2. ASSUME NEW j \in setting.jobs, JobStep(j) \/ Crash(j) \/ LoseCount(j) PROVE AlertInv'
  BY <1>2, BeginInv, SeedInv, EvaluateInv, ReadInv, WriteInv, NotifyInv, ListInv, ResolveInv,
     NotifyResolutionInv, CrashInv, LoseCountInv, ZenonT(30) DEF JobStep
<1>3. ASSUME NEW r \in Rules, upsert_alert_rule(r) PROVE AlertInv'
  <2>1. PICK c \in 1 .. MaxCycles, e \in BOOLEAN :
            /\ c # Cycles[r] => "retune" \in Faults
            /\ rules' = [rules EXCEPT ![r] = [cycles |-> c, enabled |-> e]]
            /\ UNCHANGED <<data, incidents, jobs, streak, setting>>
    BY <1>3, Zenon DEF upsert_alert_rule
  <2>2. /\ rules' \in [Rules -> [cycles: 0 .. MaxCycles, enabled: BOOLEAN]]
        /\ "retune" \notin Faults => \A q \in Rules : rules'[q].cycles \in {0, Cycles[q]}
    BY <1>1, <2>1, AlertConstants
  <2> QED
    BY <1>1, <2>1, <2>2, OutsideInv, Zenon
<1>4. ASSUME NEW r \in Rules, delete_alert_rule(r) PROVE AlertInv'
  <2>1. /\ rules' = [rules EXCEPT ![r] = [cycles |-> 0, enabled |-> FALSE]]
        /\ UNCHANGED <<data, incidents, jobs, streak, setting>>
    BY <1>4, Zenon DEF delete_alert_rule
  <2>2. /\ rules' \in [Rules -> [cycles: 0 .. MaxCycles, enabled: BOOLEAN]]
        /\ "retune" \notin Faults => \A q \in Rules : rules'[q].cycles \in {0, Cycles[q]}
    BY <1>1, <2>1, AlertConstants
  <2> QED
    BY <1>1, <2>1, <2>2, OutsideInv, Zenon
<1>5. ASSUME NEW n \in Names, Observe(n) PROVE AlertInv'
  <2>1. data' \in [Names -> {"ok", "breach", "none"}]
    BY <1>1, <1>5, Zenon DEF Observe
  <2> QED
    BY <1>1, <1>5, <2>1, OutsideInv, Zenon DEF Observe
<1>6. CASE UNCHANGED vars
  BY <1>1, <1>6, OutsideInv, Zenon DEF vars
<1>7. setting.names \subseteq Names
  BY Zenon DEF AlertInv, TablesOK, Setting
<1> QED
  BY <1>2, <1>3, <1>4, <1>5, <1>6, <1>7, Zenon DEF Next

LEMMA AlertInvImplies ==
    ASSUME AlertInv
    PROVE  /\ "retune" \notin Faults => NotifiedOnce
           /\ Len(RuleOrder) + Len(SloOrder) <= ListLimit => FlappingSuppressed
<1>1. RowsOK(incidents, Faults) /\ incidents \in Seq(Incident) /\ Apart(incidents)
  BY Zenon DEF AlertInv, RowsOK
<1>2. DOMAIN incidents = 1 .. Len(incidents)
  BY <1>1, Rows, Zenon
<1>4. "retune" \notin Faults => NotifiedOnce
  <2>1. \A i \in DOMAIN incidents : RowOK(incidents[i], Faults)
    BY <1>1, Rows, ZenonT(30) DEF RowsOK
  <2> QED
    BY <2>1, Zenon DEF NotifiedOnce, RowOK
<1>5. ASSUME Calm(Faults), NEW j \in setting.jobs, jobs[j].pc = "notify", Head(jobs[j].todo) \in Rules
      PROVE  streak[Head(jobs[j].todo)] >= jobs[j].active[Head(jobs[j].todo)]
  <2> DEFINE b == jobs[j]
             n == Head(b.todo)
  <2>1. b \in Job /\ LoopOK(b, Faults) /\ StreakOK(incidents, b, streak) /\ b.todo \in Seq(Names)
    <3>1. b \in Job
      BY Zenon DEF AlertInv, Good, JobOK
    <3>2. b.todo \in Seq(Names)
      BY <3>1, Zenon DEF Job
    <3> QED
      BY <1>5, <3>1, <3>2, Zenon DEF AlertInv, Good, JobOK
  <2>2. PICK r \in Open(incidents, n) : Fresh(r, Faults)
    BY <1>5, Zenon DEF AlertInv, Good, JobOK
  <2>3. n \in b.firing /\ n \in Names /\ n \notin Awaiting(b)
    <3>1. b.todo # <<>> /\ \A i, k \in 1 .. Len(b.todo) : b.todo[i] = b.todo[k] => i = k
      BY <2>1, ZenonT(30) DEF LoopOK
    <3>2. /\ n \in Names /\ n \in Range(b.todo) /\ n \notin Range(Tail(b.todo))
          /\ Range(Tail(b.todo)) = {b.todo[i] : i \in {k \in 1 .. Len(b.todo) : k > 1}}
      BY <2>1, <3>1, TailFacts, SMTT(30)
    <3>3. Range(Tail(b.todo)) = Awaiting(b)
      BY <1>5, <3>2, Zenon DEF Awaiting
    <3> QED
      BY <2>1, <3>2, <3>3, Zenon DEF LoopOK
  <2>4. Rest(incidents, n, streak[n])
    BY <1>5, <2>1, <2>3, Zenon DEF StreakOK
  <2>5. streak[n] = r.violations
    BY <2>4, Zenon DEF Rest
  <2>6. r.violations = Cycles[n]
    <3>1. r.name = n
      BY ZenonT(30) DEF Open
    <3> QED
      BY <1>5, <2>2, <3>1, Zenon DEF Fresh, Calm
  <2>7. b.active[n] \in {0, Cycles[n]} /\ Cycles[n] \in Nat
    BY <1>5, <2>1, AlertConstants DEF LoopOK, Calm
  <2> QED
    BY <2>5, <2>6, <2>7
<1>6. Len(RuleOrder) + Len(SloOrder) <= ListLimit => FlappingSuppressed
  BY <1>5, Zenon DEF FlappingSuppressed, Undisturbed, Calm
<1> QED
  BY <1>4, <1>6, Zenon

LEMMA AtRest ==
    ASSUME AlertInv, NEW j \in setting.jobs, jobs[j].pc = "idle",
           Len(RuleOrder) + Len(SloOrder) <= ListLimit
    PROVE  Reconciled
<1> SUFFICES ASSUME Calm(Faults), NEW n \in Names
             PROVE  {incidents[i].violations : i \in OpenOf(n)} = {streak[n]} \ {0}
  BY Zenon DEF Reconciled, Undisturbed, Calm
<1>1. /\ incidents \in Seq(Incident) /\ \A r \in Range(incidents) : RowOK(r, Faults)
      /\ Rest(incidents, n, streak[n])
  BY Zenon DEF AlertInv, Good, RowsOK, StreakOK
<1>2. \A x : (\E i \in OpenOf(n) : x = incidents[i].violations)
             <=> \E r \in Open(incidents, n) : x = r.violations
  <2>1. \A i \in OpenOf(n) : incidents[i] \in Open(incidents, n)
    BY <1>1, Rows, Zenon DEF OpenOf, Open
  <2>2. \A r \in Open(incidents, n) : \E i \in OpenOf(n) : r = incidents[i]
    BY <1>1, Rows DEF OpenOf, Open
  <2> QED
    BY <2>1, <2>2, Zenon
<1>3. \A r \in Open(incidents, n) : r.violations = streak[n] /\ r.violations # 0
  BY <1>1 DEF Open, Rest, RowOK
<1>4. streak[n] # 0 => \E r \in Open(incidents, n) : TRUE
  BY <1>1, Zenon DEF Rest
<1>5. \A x : (\E r \in Open(incidents, n) : x = r.violations) <=> x = streak[n] /\ x # 0
  BY <1>3, <1>4, Zenon
<1>6. ASSUME NEW x PROVE x \in {incidents[i].violations : i \in OpenOf(n)} <=> x \in {streak[n]} \ {0}
  <2>1. x \in {incidents[i].violations : i \in OpenOf(n)} <=> \E i \in OpenOf(n) : x = incidents[i].violations
    BY Zenon
  <2>2. x \in {streak[n]} \ {0} <=> x = streak[n] /\ x # 0
    BY Zenon
  <2> QED
    BY <1>2, <1>5, <2>1, <2>2, ZenonT(30)
<1> QED
  BY <1>6, Zenon

-----------------------------------------------------------------------------
(* The setting is fixed at the start. *)
LEMMA SettingFixed == [Next]_vars => setting' = setting
BY Zenon DEF Next, vars, JobStep, Begin, Seed, Evaluate, Read, Write, Notify, List, Resolve,
       NotifyResolution, Crash, LoseCount, upsert_alert_rule, delete_alert_rule, Observe

LEMMA AlertInvariant == Spec => [](Alone => AlertInv)
<1>1. (Alone => AlertInv) /\ [Next]_vars => (Alone => AlertInv)'
  <2> SUFFICES ASSUME Alone => AlertInv, [Next]_vars, Alone' PROVE AlertInv'
    BY Zenon
  <2>1. Alone
    BY SettingFixed, Zenon DEF Alone
  <2> QED
    BY <2>1, AlertNextInv, Zenon
<1> QED
  BY <1>1, AlertInitInv, PTL DEF Spec

-----------------------------------------------------------------------------
(* Runs that overlap.                                                      *)

\* A run is well formed.
JobTyped(b) ==
    /\ b \in Job
    /\ b.pc \in {"seeding", "read", "write", "notify"} => b.todo # <<>>
    /\ b.pc = "seeding" => Range(b.todo) \subseteq Rules
    /\ b.pc \in {"resolve", "resolved"} => b.listed # <<>>

\* Two open incidents of one name were opened by different runs.
ByApart(rows) ==
    \A i, k \in 1 .. Len(rows) :
        /\ i # k /\ rows[i].status = "firing" /\ rows[k].status = "firing"
        /\ rows[i].name = rows[k].name
        => rows[i].by # rows[k].by

\* A run about to open an incident has none of that name open itself: what
\* others have opened since it looked does not matter.
NotMine(rows, b, j) ==
    b.pc = "write" /\ b.cur = 0 => \A r \in Open(rows, Head(b.todo)) : r.by # j

\* The invariant for any set of runs.
OverlapInv ==
    /\ rules \in [Rules -> [cycles: 0 .. MaxCycles, enabled: BOOLEAN]]
    /\ setting \in Setting /\ jobs \in [Jobs -> Job]
    /\ incidents \in Seq(Incident) /\ ByApart(incidents)
    /\ \A j \in Jobs : JobTyped(jobs[j]) /\ NotMine(incidents, jobs[j], j)

LEMMA WhereByApart ==
    ASSUME NEW rows \in Seq(Incident), ByApart(rows), NEW S
    PROVE  ByApart(Where(rows, S))
<1> DEFINE w == Where(rows, S)
<1>1. w \in Seq(Incident)
  BY WherePicks, Zenon
<1>2. ASSUME NEW i \in 1 .. Len(w), NEW k \in 1 .. Len(w), i < k,
             w[i].status = "firing", w[k].status = "firing", w[i].name = w[k].name
      PROVE  w[i].by # w[k].by
  <2>1. PICK a, c \in 1 .. Len(rows) : a < c /\ w[i] = rows[a] /\ w[k] = rows[c]
    BY <1>2, WhereOrder
  <2>2. a # c
    BY <2>1
  <2> QED
    BY <1>2, <2>1, <2>2, Zenon DEF ByApart
<1>3. \A i, k \in 1 .. Len(w) : i # k => i < k \/ k < i
  BY <1>1
<1> QED
  BY <1>2, <1>3, Zenon DEF ByApart

(* A step of run j that opens no incident in the name of another run. *)
LEMMA OverlapStep ==
    ASSUME OverlapInv, NEW j \in Jobs, NEW b, jobs' = [jobs EXCEPT ![j] = b], JobTyped(b),
           setting' = setting,
           rules' \in [Rules -> [cycles: 0 .. MaxCycles, enabled: BOOLEAN]],
           incidents' \in Seq(Incident), ByApart(incidents'), NotMine(incidents', b, j),
           \A r \in Range(incidents') : r.status = "firing" /\ r.by # j =>
               \E q \in Range(incidents) :
                   q.status = "firing" /\ q.name = r.name /\ q.by = r.by
    PROVE  OverlapInv'
<1>1. jobs' \in [Jobs -> Job] /\ jobs'[j] = b /\ \A i \in Jobs : i # j => jobs'[i] = jobs[i]
  BY Zenon DEF OverlapInv, JobTyped
<1>2. ASSUME NEW i \in Jobs PROVE JobTyped(jobs'[i]) /\ NotMine(incidents', jobs'[i], i)
  <2>1. CASE i = j
    BY <1>1, <2>1, Zenon
  <2>2. CASE i # j
    <3>1. JobTyped(jobs[i]) /\ NotMine(incidents, jobs[i], i) /\ jobs'[i] = jobs[i]
      BY <1>1, <2>2, Zenon DEF OverlapInv
    <3>2. ASSUME NEW n, \A r \in Open(incidents, n) : r.by # i
          PROVE  \A r \in Open(incidents', n) : r.by # i
      BY <2>2, <3>2, Zenon DEF Open
    <3> QED
      BY <3>1, <3>2, Zenon DEF NotMine
  <2> QED
    BY <2>1, <2>2, Zenon
<1> QED
  BY <1>1, <1>2, Zenon DEF OverlapInv

(* The same for a step that commits. *)
LEMMA OverlapCommit ==
    ASSUME OverlapInv, NEW j \in Jobs, NEW b, NEW rows \in Seq(Incident), Commit(rows, j, b),
           JobTyped(b), b.pc # "write", UNCHANGED <<rules, setting>>, ByApart(rows),
           \A r \in Range(rows) : r.status = "firing" /\ r.by # j =>
               \E q \in Range(incidents) :
                   q.status = "firing" /\ q.name = r.name /\ q.by = r.by
    PROVE  OverlapInv'
<1> DEFINE js == [jobs EXCEPT ![j] = b]
           S == {r \in Incident :
                    \/ r.status = "firing"
                    \/ \E i \in Jobs : r.id = js[i].cur \/ r.id \in Range(js[i].listed)}
<1>1. jobs' = [jobs EXCEPT ![j] = b] /\ incidents' = Where(rows, S)
  BY Zenon DEF Commit, Kept
<1> HIDE DEF S
<1>2. /\ incidents' \in Seq(Incident) /\ ByApart(incidents')
      /\ Range(incidents') \subseteq Range(rows)
  <2> DEFINE w == Where(rows, S)
  <2>1. w \in Seq(Incident)
    BY WherePicks, Zenon
  <2>2. Range(w) = Range(rows) \cap S
    BY WhereRange, Zenon
  <2>3. ByApart(w)
    BY WhereByApart, Zenon
  <2> HIDE DEF w
  <2> QED
    BY <1>1, <2>1, <2>2, <2>3, Zenon DEF w
<1>3. rules' \in [Rules -> [cycles: 0 .. MaxCycles, enabled: BOOLEAN]] /\ setting' = setting
  BY Zenon DEF OverlapInv
<1>4. NotMine(incidents', b, j)
  BY Zenon DEF NotMine
<1> QED
  BY <1>1, <1>2, <1>3, <1>4, OverlapStep, Zenon

(* A change of rows that leaves their names, their makers and what is resolved. *)
LEMMA OverlapChanged ==
    ASSUME OverlapInv, NEW rows, DOMAIN rows = 1 .. Len(incidents),
           rows = [i \in DOMAIN rows |-> rows[i]],
           \A i \in 1 .. Len(incidents) :
               /\ rows[i] \in Incident
               /\ rows[i].name = incidents[i].name /\ rows[i].by = incidents[i].by
               /\ rows[i].status = "firing" => incidents[i].status = "firing"
    PROVE  /\ rows \in Seq(Incident) /\ ByApart(rows)
           /\ \A r \in Range(rows) : r.status = "firing" =>
                  \E q \in Range(incidents) :
                      q.status = "firing" /\ q.name = r.name /\ q.by = r.by
<1>1. incidents \in Seq(Incident) /\ ByApart(incidents)
  BY Zenon DEF OverlapInv
<1>2. rows \in Seq(Incident) /\ Len(rows) = Len(incidents)
  BY <1>1
<1>3. ByApart(rows)
  <2> SUFFICES ASSUME NEW i \in 1 .. Len(rows), NEW k \in 1 .. Len(rows), i # k,
                      rows[i].status = "firing", rows[k].status = "firing",
                      rows[i].name = rows[k].name
               PROVE  rows[i].by # rows[k].by
    BY Zenon DEF ByApart
  <2> QED
    BY <1>1, <1>2 DEF ByApart
<1>4. ASSUME NEW r \in Range(rows), r.status = "firing"
      PROVE  \E q \in Range(incidents) : q.status = "firing" /\ q.name = r.name /\ q.by = r.by
  <2>1. PICK i \in 1 .. Len(incidents) : r = rows[i]
    BY <1>2, Rows, Zenon
  <2>2. incidents[i] \in Range(incidents)
    BY <1>1, Rows, Zenon
  <2> QED
    BY <1>4, <2>1, <2>2, Zenon
<1> QED
  BY <1>2, <1>3, <1>4, Zenon

LEMMA OverlapTypes ==
    /\ \A p \in {"idle", "failed", "evaluate"} : JobTyped([Idle EXCEPT !.pc = p])
    /\ \A b \in Job : b.todo # <<>> => JobTyped(Advance(b)) /\ Advance(b).pc # "write"
    /\ \A b \in Job : \A ids \in Seq(Ids) :
           JobTyped(Resolving(b, ids)) /\ Resolving(b, ids).pc # "write"
<1>1. ASSUME NEW p \in {"idle", "failed", "evaluate"} PROVE JobTyped([Idle EXCEPT !.pc = p])
  <2> DEFINE b == [Idle EXCEPT !.pc = p]
  <2>1. b \in Job /\ b.pc = p
    BY IdleType, Zenon DEF Idle
  <2> HIDE DEF b
  <2> QED
    BY <2>1, Zenon DEF JobTyped, b
<1>2. ASSUME NEW b \in Job, b.todo # <<>> PROVE JobTyped(Advance(b)) /\ Advance(b).pc # "write"
  <2> DEFINE rest == Tail(b.todo)
             p == IF rest = <<>> THEN "list" ELSE "read"
             c == Advance(b)
  <2>1. b.todo \in Seq(Names)
    BY Zenon DEF Job
  <2>2. rest \in Seq(Names)
    BY <1>2, <2>1
  <2>3. p \in {"list", "read"} /\ (p = "read" => rest # <<>>)
    BY Zenon
  <2>4. 0 \in Ids \cup {0} /\ 0 \in Count
    BY AlertConstants DEF Count
  <2> HIDE DEF rest, p
  <2>5. c = [b EXCEPT !.todo = rest, !.cur = 0, !.seen = 0, !.pc = p]
    BY Zenon DEF Advance, rest, p
  <2>6. c \in Job
    BY <2>2, <2>3, <2>4, <2>5, ZenonT(30) DEF Job
  <2>7. c.pc = p /\ c.todo = rest
    BY <2>5, <2>6, Zenon DEF Job
  <2> HIDE DEF c
  <2> QED
    BY <2>3, <2>6, <2>7, Zenon DEF JobTyped, c
<1>3. ASSUME NEW b \in Job, NEW ids \in Seq(Ids)
      PROVE  JobTyped(Resolving(b, ids)) /\ Resolving(b, ids).pc # "write"
  <2> DEFINE c == [b EXCEPT !.pc = "resolve", !.listed = ids]
  <2>1. c \in Job /\ c.pc = "resolve" /\ c.listed = ids
    BY Zenon DEF Job
  <2>2. ids # <<>> => JobTyped(c)
    <3> HIDE DEF c
    <3> QED
      BY <2>1, Zenon DEF JobTyped
  <2>3. JobTyped(Idle) /\ Idle.pc # "write"
    BY <1>1, IdleType, Zenon DEF Idle
  <2>4. Resolving(b, ids) = IF ids = <<>> THEN Idle ELSE c
    BY Zenon DEF Resolving
  <2> HIDE DEF c
  <2> QED
    BY <2>1, <2>2, <2>3, <2>4, Zenon
<1> QED
  BY <1>1, <1>2, <1>3, Zenon

LEMMA OverlapJob ==
    ASSUME OverlapInv, NEW j \in Jobs
    PROVE  /\ jobs[j] \in Job /\ jobs[j].todo \in Seq(Names) /\ jobs[j].listed \in Seq(Ids)
           /\ JobTyped(jobs[j]) /\ NotMine(incidents, jobs[j], j)
           /\ incidents \in Seq(Incident) /\ ByApart(incidents)
           /\ Len(incidents) \in Nat /\ DOMAIN incidents = 1 .. Len(incidents)
<1>1. jobs[j] \in Job /\ JobTyped(jobs[j]) /\ NotMine(incidents, jobs[j], j)
      /\ incidents \in Seq(Incident) /\ ByApart(incidents)
  BY Zenon DEF OverlapInv
<1>2. jobs[j].todo \in Seq(Names) /\ jobs[j].listed \in Seq(Ids)
  BY <1>1, Zenon DEF Job
<1> QED
  BY <1>1, <1>2, Rows, Zenon

(* The steps that leave the incidents alone. *)
LEMMA OverlapQuiet ==
    ASSUME OverlapInv, NEW j \in Jobs, NEW b, jobs' = [jobs EXCEPT ![j] = b], JobTyped(b),
           UNCHANGED <<incidents, setting>>,
           rules' \in [Rules -> [cycles: 0 .. MaxCycles, enabled: BOOLEAN]],
           NotMine(incidents, b, j)
    PROVE  OverlapInv'
<1>1. incidents' \in Seq(Incident) /\ ByApart(incidents') /\ NotMine(incidents', b, j)
  BY Zenon DEF OverlapInv
<1>2. \A r \in Range(incidents') : r \in Range(incidents)
  BY Zenon
<1> QED
  BY <1>1, <1>2, OverlapStep, Zenon

LEMMA OverlapBegin ==
    ASSUME OverlapInv, NEW j \in Jobs, Begin(j)
    PROVE  OverlapInv'
<1> DEFINE b == [Idle EXCEPT !.pc = "seeding", !.todo = Defaults]
           e == [Idle EXCEPT !.pc = "evaluate"]
<1>1. Defaults \in Seq(Names) /\ Range(Defaults) = Rules \cap setting.names
  <2>1. RuleOrder \in Seq(Names)
    BY AlertingAssumption DEF Names, Rules, Range
  <2> QED
    BY <2>1, WherePicks, WhereRange, Zenon DEF Defaults, Rules
<1>2. Defaults # <<>> /\ Range(Defaults) \subseteq Rules
  <2>1. setting.names \cap Rules # {}
    BY Zenon DEF OverlapInv, Setting
  <2> QED
    BY <1>1, <2>1 DEF Range
<1>3. b \in Job /\ b.pc = "seeding" /\ b.todo = Defaults
  BY <1>1, IdleType, ZenonT(30) DEF Job
<1>4. JobTyped(e) /\ e.pc = "evaluate"
  BY OverlapTypes, Zenon DEF Idle
<1> HIDE DEF b, e
<1>5. JobTyped(b)
  BY <1>2, <1>3, Zenon DEF JobTyped
<1>6. PICK c \in {b, e} : jobs' = [jobs EXCEPT ![j] = c]
  BY Zenon DEF Begin, b, e
<1>7. JobTyped(c) /\ NotMine(incidents, c, j)
  BY <1>3, <1>4, <1>5, Zenon DEF NotMine
<1>8. UNCHANGED <<incidents, setting>>
      /\ rules' \in [Rules -> [cycles: 0 .. MaxCycles, enabled: BOOLEAN]]
  BY Zenon DEF Begin, OverlapInv
<1> QED
  BY <1>6, <1>7, <1>8, OverlapQuiet, Zenon

LEMMA OverlapSeed ==
    ASSUME OverlapInv, NEW j \in Jobs, Seed(j)
    PROVE  OverlapInv'
<1> DEFINE b == jobs[j]
           r == Head(b.todo)
           rest == Tail(b.todo)
           p == IF rest = <<>> THEN "evaluate" ELSE "seeding"
           c == [b EXCEPT !.todo = rest, !.pc = p]
           f == [Idle EXCEPT !.pc = "failed"]
<1>1. b \in Job /\ b.pc = "seeding" /\ JobTyped(b) /\ b.todo \in Seq(Names)
  BY OverlapJob, Zenon DEF Seed
<1>2. b.todo # <<>> /\ Range(b.todo) \subseteq Rules
  BY <1>1, Zenon DEF JobTyped
<1>3. r \in Rules /\ rest \in Seq(Names) /\ Range(rest) \subseteq Rules
  BY <1>1, <1>2 DEF Range
<1>4. c \in Job /\ c.pc = p /\ c.todo = rest
  BY <1>1, <1>3, Zenon DEF Job
<1>5. JobTyped(c) /\ c.pc # "write"
  <2>1. p = "evaluate" \/ (p = "seeding" /\ rest # <<>>)
    BY Zenon
  <2> HIDE DEF c, p, rest
  <2> QED
    BY <1>3, <1>4, <2>1, Zenon DEF JobTyped
<1>6. JobTyped(f) /\ f.pc # "write"
  BY OverlapTypes, Zenon DEF Idle
<1>7. UNCHANGED <<incidents, setting>>
  BY Zenon DEF Seed
<1>8. CASE /\ rules' = [rules EXCEPT ![r] = [cycles |-> Cycles[r], enabled |-> TRUE]]
           /\ jobs' = [jobs EXCEPT ![j].todo = rest, ![j].pc = p]
  <2>1. jobs' = [jobs EXCEPT ![j] = c]
    BY <1>8, Zenon DEF OverlapInv
  <2>2. rules' \in [Rules -> [cycles: 0 .. MaxCycles, enabled: BOOLEAN]]
    BY <1>3, <1>8, AlertConstants DEF OverlapInv
  <2> HIDE DEF c
  <2>3. NotMine(incidents, c, j)
    BY <1>5, Zenon DEF NotMine
  <2> QED
    BY <1>5, <1>7, <2>1, <2>2, <2>3, OverlapQuiet, Zenon
<1>9. CASE UNCHANGED rules /\ jobs' = [jobs EXCEPT ![j] = f]
  <2> HIDE DEF f
  <2>1. NotMine(incidents, f, j)
    BY <1>6, Zenon DEF NotMine
  <2> QED
    BY <1>6, <1>7, <1>9, <2>1, OverlapQuiet, Zenon DEF OverlapInv
<1> QED
  BY <1>8, <1>9, Zenon DEF Seed

LEMMA OverlapEvaluate ==
    ASSUME OverlapInv, NEW j \in Jobs, Evaluate(j)
    PROVE  OverlapInv'
<1> DEFINE active == [r \in Rules |-> IF rules[r].enabled THEN rules[r].cycles ELSE 0]
           firing == {n \in Names : data[n] = "breach" /\ (n \in Rules => active[n] > 0)}
           todo == Where(RuleOrder \o SloOrder, firing)
           p == IF todo = <<>> THEN "list" ELSE "read"
           c == [Idle EXCEPT !.pc = p, !.active = active, !.firing = firing, !.todo = todo]
<1>1. active \in [Rules -> 0 .. MaxCycles]
  BY AlertConstants DEF OverlapInv
<1>2. firing \in SUBSET Names
  BY Zenon
<1>3. jobs' = [jobs EXCEPT ![j] = c] /\ UNCHANGED <<rules, incidents, setting>>
  BY Zenon DEF Evaluate
<1> HIDE DEF active, firing
<1>4. todo \in Seq(Names)
  <2> DEFINE order == RuleOrder \o SloOrder
  <2>1. order \in Seq(Names)
    BY OrderFacts, Zenon
  <2> HIDE DEF order
  <2>2. Where(order, firing) \in Seq(Names)
    BY <2>1, WherePicks, Zenon
  <2> QED
    BY <2>2, Zenon DEF order
<1> HIDE DEF todo
<1>5. p \in {"list", "read"} /\ (p = "read" => todo # <<>>)
  BY Zenon
<1> HIDE DEF p
<1>6. c \in Job /\ c.pc = p /\ c.todo = todo
  <2>1. c \in Job
    BY <1>1, <1>2, <1>4, <1>5, IdleType, ZenonT(30) DEF Job
  <2> QED
    BY <2>1, Zenon DEF Job, Idle
<1> HIDE DEF c
<1>7. JobTyped(c) /\ NotMine(incidents, c, j)
  BY <1>5, <1>6, Zenon DEF JobTyped, NotMine
<1> QED
  BY <1>3, <1>7, OverlapQuiet, Zenon DEF OverlapInv

LEMMA OverlapRead ==
    ASSUME OverlapInv, NEW j \in Jobs, Read(j)
    PROVE  OverlapInv'
<1> DEFINE b == jobs[j]
           n == Head(b.todo)
           S == {r \in Incident : r.status = "firing" /\ r.name = n}
           open == Where(incidents, S)
           empty == [b EXCEPT !.pc = "write"]
           found == [b EXCEPT !.pc = "write", !.cur = open[1].id, !.seen = open[1].violations]
           failed == [Idle EXCEPT !.pc = "failed"]
<1>1. b \in Job /\ b.pc = "read" /\ JobTyped(b) /\ incidents \in Seq(Incident)
  BY OverlapJob, Zenon DEF Read
<1>2. open \in Seq(Incident) /\ Range(open) = Range(incidents) \cap S
  BY <1>1, WherePicks, WhereRange, Zenon
<1>3. Range(open) = Open(incidents, n)
  BY <1>1, <1>2, Rows, Zenon DEF Open
<1>4. UNCHANGED <<incidents, setting>>
      /\ rules' \in [Rules -> [cycles: 0 .. MaxCycles, enabled: BOOLEAN]]
  BY Zenon DEF Read, OverlapInv
<1>5. \/ Len(open) = 0 /\ jobs' = [jobs EXCEPT ![j] = empty]
      \/ Len(open) = 1 /\ jobs' = [jobs EXCEPT ![j] = found]
      \/ jobs' = [jobs EXCEPT ![j] = failed]
  <2> DEFINE c == CASE Len(open) = 0 -> empty
                    [] Len(open) = 1 -> found
                    [] OTHER -> failed
  <2>1. jobs' = [jobs EXCEPT ![j] = c]
    BY Zenon DEF Read
  <2>2. (Len(open) = 0 /\ c = empty) \/ (Len(open) = 1 /\ c = found) \/ c = failed
    <3> HIDE DEF empty, found, failed, open
    <3> QED
      OBVIOUS
  <2> HIDE DEF c
  <2> QED
    BY <2>1, <2>2, Zenon
<1> HIDE DEF S, n, open
<1>6. CASE Len(open) = 0 /\ jobs' = [jobs EXCEPT ![j] = empty]
  <2>1. empty \in Job /\ empty.pc = "write" /\ empty.todo = b.todo
    BY <1>1, Zenon DEF Job
  <2>2. Open(incidents, n) = {}
    BY <1>2, <1>3, <1>6 DEF Range
  <2> HIDE DEF empty
  <2>3. JobTyped(empty) /\ NotMine(incidents, empty, j)
    BY <1>1, <2>1, <2>2, Zenon DEF JobTyped, NotMine, n
  <2> QED
    BY <1>4, <1>6, <2>3, OverlapQuiet, Zenon
<1>7. CASE Len(open) = 1 /\ jobs' = [jobs EXCEPT ![j] = found]
  <2>1. open[1] \in Incident
    BY <1>2, <1>7
  <2>2. open[1].id \in Ids \cup {0} /\ open[1].violations \in Count
    BY <2>1, Zenon DEF Incident
  <2>3. 0 \notin Ids
    BY DEF Ids
  <2>4. found \in Job /\ found.pc = "write" /\ found.todo = b.todo /\ found.cur = open[1].id
    BY <1>1, <2>2, Zenon DEF Job
  <2>5. found.cur # 0
    BY <2>1, <2>3, <2>4, Zenon DEF Incident
  <2> HIDE DEF found
  <2>6. JobTyped(found) /\ NotMine(incidents, found, j)
    BY <1>1, <2>4, <2>5, Zenon DEF JobTyped, NotMine
  <2> QED
    BY <1>4, <1>7, <2>6, OverlapQuiet, Zenon
<1>8. CASE jobs' = [jobs EXCEPT ![j] = failed]
  <2>1. JobTyped(failed) /\ failed.pc # "write"
    BY OverlapTypes, Zenon DEF Idle
  <2> HIDE DEF failed
  <2>2. NotMine(incidents, failed, j)
    BY <2>1, Zenon DEF NotMine
  <2> QED
    BY <1>4, <1>8, <2>1, <2>2, OverlapQuiet, Zenon
<1> QED
  BY <1>5, <1>6, <1>7, <1>8, Zenon

LEMMA OverlapWrite ==
    ASSUME OverlapInv, NEW j \in Jobs, Write(j)
    PROVE  OverlapInv'
<1> DEFINE b == jobs[j]
           n == Head(b.todo)
           id == IF b.cur # 0 THEN b.cur ELSE CHOOSE i \in Free : TRUE
           new == [id |-> id, name |-> n, by |-> j, status |-> "firing",
                   violations |-> 1, posts |-> 0]
           rows == IF b.cur = 0 THEN Append(incidents, new)
                   ELSE Changed(id, LAMBDA r : [r EXCEPT !.violations = Inc(b.seen)])
           told == [b EXCEPT !.pc = "notify", !.cur = id]
           c == IF Due(b) THEN told ELSE Advance(b)
<1>1. /\ b.pc = "write" /\ (b.cur = 0 => Free # {}) /\ Commit(rows, j, c)
      /\ UNCHANGED <<rules, setting>>
  BY Zenon DEF Write
<1>2. /\ b \in Job /\ JobTyped(b) /\ b.todo \in Seq(Names) /\ NotMine(incidents, b, j)
      /\ incidents \in Seq(Incident) /\ ByApart(incidents)
      /\ Len(incidents) \in Nat /\ DOMAIN incidents = 1 .. Len(incidents)
  BY OverlapJob, Zenon
<1>3. b.todo # <<>>
  BY <1>1, <1>2, Zenon DEF JobTyped
<1>4. n \in Names
  BY <1>2, <1>3
<1>5. id \in Ids
  BY <1>1, <1>2, Zenon DEF Free, Job
<1> HIDE DEF id, n
<1>6. JobTyped(c) /\ c.pc # "write"
  <2>1. told \in Job /\ told.pc = "notify" /\ told.todo = b.todo
    <3>1. id \in Ids \cup {0}
      BY <1>5, Zenon
    <3> QED
      BY <1>2, <3>1, Zenon DEF Job
  <2>2. JobTyped(told) /\ told.pc # "write"
    <3> HIDE DEF told
    <3> QED
      BY <1>3, <2>1, Zenon DEF JobTyped
  <2> HIDE DEF told
  <2> QED
    BY <1>2, <1>3, <2>2, OverlapTypes, Zenon
<1> HIDE DEF c
<1>7. CASE b.cur = 0
  <2>1. rows = Append(incidents, new)
    BY <1>7, Zenon
  <2>2. new \in Incident /\ new.name = n /\ new.by = j
    <3>1. 1 \in Count /\ 0 \in 0 .. MaxRetries + 1
      BY AlertConstants, AlertingAssumption DEF Count
    <3> QED
      BY <1>4, <1>5, <3>1, Zenon DEF Incident
  <2> HIDE DEF new, rows
  <2>3. /\ rows \in Seq(Incident) /\ Len(rows) = Len(incidents) + 1
        /\ \A i \in 1 .. Len(incidents) : rows[i] = incidents[i]
        /\ rows[Len(incidents) + 1] = new
    BY <1>2, <2>1, <2>2
  <2>4. \A i \in 1 .. Len(rows) :
            \/ i \in 1 .. Len(incidents) /\ rows[i] = incidents[i]
            \/ i = Len(incidents) + 1 /\ rows[i] = new
    <3>1. \A i \in 1 .. Len(rows) : i \in 1 .. Len(incidents) \/ i = Len(incidents) + 1
      BY <1>2, <2>3
    <3> QED
      BY <2>3, <3>1, Zenon
  <2>5. \A i \in 1 .. Len(incidents) :
            incidents[i].status = "firing" /\ incidents[i].name = n => incidents[i].by # j
    <3>1. \A r \in Open(incidents, n) : r.by # j
      BY <1>1, <1>2, <1>7, Zenon DEF NotMine, n
    <3> QED
      BY <1>2, <3>1, Rows, Zenon DEF Open
  <2>6. ByApart(rows)
    <3> SUFFICES ASSUME NEW i \in 1 .. Len(rows), NEW k \in 1 .. Len(rows), i # k,
                        rows[i].status = "firing", rows[k].status = "firing",
                        rows[i].name = rows[k].name
                 PROVE  rows[i].by # rows[k].by
      BY Zenon DEF ByApart
    <3>1. CASE i \in 1 .. Len(incidents) /\ k \in 1 .. Len(incidents)
      BY <1>2, <2>3, <3>1, Zenon DEF ByApart
    <3>2. CASE i = Len(incidents) + 1 /\ rows[i] = new /\ k \in 1 .. Len(incidents)
      BY <2>2, <2>3, <2>5, <3>2, Zenon
    <3>3. CASE k = Len(incidents) + 1 /\ rows[k] = new /\ i \in 1 .. Len(incidents)
      BY <2>2, <2>3, <2>5, <3>3, Zenon
    <3> QED
      BY <2>4, <3>1, <3>2, <3>3, Zenon
  <2>7. ASSUME NEW r \in Range(rows), r.by # j PROVE r \in Range(incidents)
    <3>1. PICK i \in 1 .. Len(rows) : r = rows[i]
      BY <2>3, Rows, Zenon
    <3> QED
      BY <1>2, <2>2, <2>4, <2>7, <3>1, Rows, Zenon
  <2> QED
    BY <1>1, <1>6, <2>3, <2>6, <2>7, OverlapCommit, Zenon
<1>8. CASE b.cur # 0
  <2>1. rows = [i \in 1 .. Len(incidents) |->
                   IF incidents[i].id = id
                   THEN [incidents[i] EXCEPT !.violations = Inc(b.seen)] ELSE incidents[i]]
    BY <1>2, <1>8, Zenon DEF Changed
  <2> HIDE DEF rows
  <2>2. Inc(b.seen) \in Count
    BY <1>2, AlertConstants, Zenon DEF Job
  <2>3. ASSUME NEW i \in 1 .. Len(incidents)
        PROVE  /\ rows[i] \in Incident
               /\ rows[i].name = incidents[i].name /\ rows[i].by = incidents[i].by
               /\ rows[i].status = "firing" => incidents[i].status = "firing"
    <3>1. incidents[i] \in Incident
      BY <1>2, Rows, Zenon
    <3>2. rows[i] = [incidents[i] EXCEPT !.violations = Inc(b.seen)] \/ rows[i] = incidents[i]
      BY <2>1, Zenon
    <3> QED
      BY <2>2, <3>1, <3>2, ZenonT(30) DEF Incident
  <2>4. DOMAIN rows = 1 .. Len(incidents) /\ rows = [i \in DOMAIN rows |-> rows[i]]
    BY <2>1, Zenon
  <2>5. /\ rows \in Seq(Incident) /\ ByApart(rows)
        /\ \A r \in Range(rows) : r.status = "firing" =>
               \E q \in Range(incidents) :
                   q.status = "firing" /\ q.name = r.name /\ q.by = r.by
    BY <2>3, <2>4, OverlapChanged, Zenon
  <2> QED
    BY <1>1, <1>6, <2>5, OverlapCommit, Zenon
<1> QED
  BY <1>7, <1>8, Zenon

LEMMA OverlapNotify ==
    ASSUME OverlapInv, NEW j \in Jobs, Notify(j)
    PROVE  OverlapInv'
<1> DEFINE b == jobs[j]
           Got(m) == IF m > MaxRetries THEN MaxRetries + 1 ELSE m
<1>1. b.pc = "notify" /\ UNCHANGED <<rules, setting>>
  BY Zenon DEF Notify
<1>2. PICK copies \in Copies(Faults) :
          Commit([i \in DOMAIN incidents |->
                     IF incidents[i].id = b.cur
                     THEN [incidents[i] EXCEPT !.posts = Got(@ + copies)]
                     ELSE incidents[i]], j, Advance(b))
  BY Zenon DEF Notify, Changed
<1> DEFINE rows == [i \in DOMAIN incidents |->
                       IF incidents[i].id = b.cur
                       THEN [incidents[i] EXCEPT !.posts = Got(@ + copies)]
                       ELSE incidents[i]]
<1>3. /\ b \in Job /\ JobTyped(b) /\ incidents \in Seq(Incident)
      /\ DOMAIN incidents = 1 .. Len(incidents)
  BY OverlapJob, Zenon
<1>4. JobTyped(Advance(b)) /\ Advance(b).pc # "write"
  BY <1>1, <1>3, OverlapTypes, Zenon DEF JobTyped
<1>5. ASSUME NEW i \in 1 .. Len(incidents)
      PROVE  /\ rows[i] \in Incident
             /\ rows[i].name = incidents[i].name /\ rows[i].by = incidents[i].by
             /\ rows[i].status = "firing" => incidents[i].status = "firing"
  <2> DEFINE posts == Got(incidents[i].posts + copies)
  <2>1. incidents[i] \in Incident
    BY <1>3, Rows, Zenon
  <2>2. incidents[i].posts \in 0 .. MaxRetries + 1
    BY <2>1, Zenon DEF Incident
  <2>3. posts \in 0 .. MaxRetries + 1
    BY <2>2, AlertingAssumption DEF Copies
  <2>4. rows[i] = [incidents[i] EXCEPT !.posts = posts] \/ rows[i] = incidents[i]
    BY <1>3, Zenon
  <2> HIDE DEF posts, rows
  <2> QED
    BY <2>1, <2>3, <2>4, ZenonT(30) DEF Incident
<1>6. DOMAIN rows = 1 .. Len(incidents) /\ rows = [i \in DOMAIN rows |-> rows[i]]
  BY <1>3, Zenon
<1>7. Commit(rows, j, Advance(b))
  BY <1>2, Zenon
<1> HIDE DEF rows
<1>8. /\ rows \in Seq(Incident) /\ ByApart(rows)
      /\ \A r \in Range(rows) : r.status = "firing" =>
             \E q \in Range(incidents) :
                 q.status = "firing" /\ q.name = r.name /\ q.by = r.by
  BY <1>5, <1>6, OverlapChanged, Zenon
<1> QED
  BY <1>1, <1>4, <1>7, <1>8, OverlapCommit, Zenon

LEMMA OverlapResolve ==
    ASSUME OverlapInv, NEW j \in Jobs, Resolve(j)
    PROVE  OverlapInv'
<1> DEFINE b == jobs[j]
           h == Head(b.listed)
           rows == [i \in DOMAIN incidents |->
                       IF incidents[i].id = h THEN [incidents[i] EXCEPT !.status = "resolved"]
                       ELSE incidents[i]]
           c == [b EXCEPT !.pc = "resolved"]
<1>1. b.pc = "resolve" /\ UNCHANGED <<rules, setting>> /\ Commit(rows, j, c)
  BY Zenon DEF Resolve, Changed
<1>2. /\ b \in Job /\ JobTyped(b) /\ incidents \in Seq(Incident)
      /\ DOMAIN incidents = 1 .. Len(incidents)
  BY OverlapJob, Zenon
<1>3. c \in Job /\ c.pc = "resolved" /\ c.listed = b.listed
  BY <1>2, Zenon DEF Job
<1> HIDE DEF c, h
<1>4. JobTyped(c) /\ c.pc # "write"
  BY <1>1, <1>2, <1>3, Zenon DEF JobTyped
<1>5. ASSUME NEW i \in 1 .. Len(incidents)
      PROVE  /\ rows[i] \in Incident
             /\ rows[i].name = incidents[i].name /\ rows[i].by = incidents[i].by
             /\ rows[i].status = "firing" => incidents[i].status = "firing"
  <2>1. incidents[i] \in Incident
    BY <1>2, Rows, Zenon
  <2>2. rows[i] = [incidents[i] EXCEPT !.status = "resolved"] \/ rows[i] = incidents[i]
    BY <1>2, Zenon
  <2> HIDE DEF rows
  <2> QED
    BY <2>1, <2>2, ZenonT(30) DEF Incident
<1>6. DOMAIN rows = 1 .. Len(incidents) /\ rows = [i \in DOMAIN rows |-> rows[i]]
  BY <1>2, Zenon
<1> HIDE DEF rows
<1>7. /\ rows \in Seq(Incident) /\ ByApart(rows)
      /\ \A r \in Range(rows) : r.status = "firing" =>
             \E q \in Range(incidents) :
                 q.status = "firing" /\ q.name = r.name /\ q.by = r.by
  BY <1>5, <1>6, OverlapChanged, Zenon
<1> QED
  BY <1>1, <1>4, <1>7, OverlapCommit, Zenon

(* The commits that write no incident: the lists, the notification of
   a resolution, a run that dies and a lost count. *)
LEMMA OverlapSame ==
    ASSUME OverlapInv, NEW j \in Jobs, NEW b, Commit(incidents, j, b), JobTyped(b),
           b.pc # "write", UNCHANGED <<rules, setting>>
    PROVE  OverlapInv'
<1>1. incidents \in Seq(Incident) /\ ByApart(incidents)
  BY Zenon DEF OverlapInv
<1> QED
  BY <1>1, OverlapCommit, Zenon

LEMMA OverlapList ==
    ASSUME OverlapInv, NEW j \in Jobs, List(j)
    PROVE  OverlapInv'
<1> DEFINE b == jobs[j]
           open == Firing(incidents)
           cleared == Where(Page(open), Cleared(b))
           ids == [i \in DOMAIN cleared |-> cleared[i].id]
<1>1. Commit(incidents, j, Resolving(b, ids)) /\ UNCHANGED <<rules, setting>>
  BY Zenon DEF List
<1>2. b \in Job /\ incidents \in Seq(Incident)
  BY OverlapJob, Zenon
<1>3. open \in Seq(Incident)
  BY <1>2, WherePicks, Zenon DEF Firing
<1> HIDE DEF open
<1>4. Page(open) \in Seq(Incident)
  BY <1>3, PageRows, Zenon
<1>5. cleared \in Seq(Incident)
  BY <1>4, WherePicks, Zenon
<1> HIDE DEF cleared
<1>6. ids \in Seq(Ids)
  <2>1. /\ Len(cleared) \in Nat /\ DOMAIN cleared = 1 .. Len(cleared)
        /\ \A i \in 1 .. Len(cleared) : cleared[i].id \in Ids
    BY <1>5, Rows, Zenon DEF Incident
  <2> QED
    BY <2>1
<1> HIDE DEF ids
<1> QED
  BY <1>1, <1>2, <1>6, OverlapTypes, OverlapSame, Zenon

LEMMA OverlapNext ==
    ASSUME OverlapInv, [Next]_vars
    PROVE  OverlapInv'
<1>1. setting.jobs \subseteq Jobs /\ setting.names \subseteq Names
  <2>1. setting.jobs \in (SUBSET Jobs) \ {{}} /\ setting.names \subseteq Names
    BY Zenon DEF OverlapInv, Setting
  <2> QED
    BY <2>1, Zenon
<1>2. ASSUME NEW j \in Jobs, JobStep(j) PROVE OverlapInv'
  <2>1. CASE NotifyResolution(j)
    <3>1. Commit(incidents, j, Resolving(jobs[j], Tail(jobs[j].listed)))
          /\ UNCHANGED <<rules, setting>> /\ jobs[j].pc = "resolved"
      BY <2>1, Zenon DEF NotifyResolution
    <3>2. jobs[j] \in Job /\ jobs[j].listed \in Seq(Ids) /\ jobs[j].listed # <<>>
      BY <3>1, OverlapJob, Zenon DEF JobTyped
    <3>3. Tail(jobs[j].listed) \in Seq(Ids)
      BY <3>2
    <3> QED
      BY <3>1, <3>2, <3>3, OverlapTypes, OverlapSame, Zenon
  <2> QED
    BY <1>2, <2>1, OverlapBegin, OverlapSeed, OverlapEvaluate, OverlapRead, OverlapWrite,
       OverlapNotify, OverlapList, OverlapResolve, ZenonT(30) DEF JobStep
<1>3. ASSUME NEW j \in Jobs, Crash(j) PROVE OverlapInv'
  <2>1. Commit(incidents, j, Idle) /\ UNCHANGED <<rules, setting>>
    BY <1>3, Zenon DEF Crash
  <2>2. JobTyped(Idle) /\ Idle.pc # "write"
    BY OverlapTypes, IdleType, Zenon DEF Idle
  <2> QED
    BY <2>1, <2>2, OverlapSame, Zenon
<1>4. ASSUME NEW j \in Jobs, LoseCount(j) PROVE OverlapInv'
  <2>1. Commit(incidents, j, Advance(jobs[j])) /\ UNCHANGED <<rules, setting>>
        /\ jobs[j].pc = "write"
    BY <1>4, Zenon DEF LoseCount
  <2>2. jobs[j] \in Job /\ jobs[j].todo # <<>>
    BY <2>1, OverlapJob, Zenon DEF JobTyped
  <2> QED
    BY <2>1, <2>2, OverlapTypes, OverlapSame, Zenon
<1>5. ASSUME UNCHANGED <<incidents, jobs, setting>>,
             rules' \in [Rules -> [cycles: 0 .. MaxCycles, enabled: BOOLEAN]]
      PROVE  OverlapInv'
  BY <1>5, Zenon DEF OverlapInv
<1>6. rules \in [Rules -> [cycles: 0 .. MaxCycles, enabled: BOOLEAN]]
  BY Zenon DEF OverlapInv
<1>7. ASSUME NEW r \in Rules, upsert_alert_rule(r) PROVE OverlapInv'
  <2>1. PICK c \in 1 .. MaxCycles, e \in BOOLEAN :
            /\ rules' = [rules EXCEPT ![r] = [cycles |-> c, enabled |-> e]]
            /\ UNCHANGED <<incidents, jobs, setting>>
    BY <1>7, Zenon DEF upsert_alert_rule
  <2>2. rules' \in [Rules -> [cycles: 0 .. MaxCycles, enabled: BOOLEAN]]
    BY <1>6, <2>1, AlertConstants
  <2> QED
    BY <1>5, <2>1, <2>2, Zenon
<1>8. ASSUME NEW r \in Rules, delete_alert_rule(r) PROVE OverlapInv'
  <2>1. /\ rules' = [rules EXCEPT ![r] = [cycles |-> 0, enabled |-> FALSE]]
        /\ UNCHANGED <<incidents, jobs, setting>>
    BY <1>8, Zenon DEF delete_alert_rule
  <2>2. rules' \in [Rules -> [cycles: 0 .. MaxCycles, enabled: BOOLEAN]]
    BY <1>6, <2>1, AlertConstants
  <2> QED
    BY <1>5, <2>1, <2>2, Zenon
<1>9. ASSUME NEW n, Observe(n) PROVE OverlapInv'
  BY <1>5, <1>6, <1>9, Zenon DEF Observe
<1>10. CASE UNCHANGED vars
  BY <1>5, <1>6, <1>10, Zenon DEF vars
<1> QED
  BY <1>1, <1>2, <1>3, <1>4, <1>7, <1>8, <1>9, <1>10, Zenon DEF Next

LEMMA OverlapInit == Init => OverlapInv
<1> SUFFICES ASSUME Init PROVE OverlapInv
  BY Zenon
<1>1. rules \in [Rules -> [cycles: 0 .. MaxCycles, enabled: BOOLEAN]]
  BY AlertConstants DEF Init
<1>2. setting \in Setting
  BY AlertingAssumption, Zenon DEF Init
<1>3. incidents \in Seq(Incident) /\ ByApart(incidents)
  BY DEF Init, ByApart
<1>4. JobTyped(Idle) /\ Idle.pc = "idle" /\ Idle \in Job
  BY OverlapTypes, IdleType, Zenon DEF Idle
<1>5. jobs \in [Jobs -> Job]
  BY <1>4, Zenon DEF Init
<1>6. \A j \in Jobs : JobTyped(jobs[j]) /\ NotMine(incidents, jobs[j], j)
  BY <1>4, Zenon DEF Init, NotMine
<1> QED
  BY <1>1, <1>2, <1>3, <1>5, <1>6, Zenon DEF OverlapInv

(***************************************************************************)
(* However many runs of the job overlap, a rule or an SLO never has two    *)
(* open incidents from the same worker slot: duplicates are bounded by the *)
(* runs that overlap, and there are none where runs do not.  For every     *)
(* list of rules and SLOs, whatever an administrator changes, wherever     *)
(* runs die and whatever webhooks answer.                                  *)
(***************************************************************************)
THEOREM OneIncidentPerName == Spec => []OneOpenIncident
<1>1. OverlapInv => OneOpenIncident
  <2> SUFFICES ASSUME OverlapInv PROVE OneOpenIncident
    BY Zenon
  <2>1. ByApart(incidents) /\ DOMAIN incidents = 1 .. Len(incidents)
    BY Rows, Zenon DEF OverlapInv
  <2> QED
    BY <2>1, Zenon DEF OneOpenIncident, OpenOf, ByApart
<1> QED
  BY <1>1, OverlapInit, OverlapNext, PTL DEF Spec

(***************************************************************************)
(* One run at a time and consecutive_cycles of no rule changed: the firing *)
(* of an incident arrives at most once, and with lost answers at most as   *)
(* often as one notification is tried.  The count of violations passes     *)
(* consecutive_cycles once, and a run that dies before it has notified     *)
(* leaves the count behind.                                                *)
(***************************************************************************)
THEOREM NoDuplicateNotification ==
    ASSUME \A s \in Settings : "retune" \notin s.faults
    PROVE  Spec => []NotifiedOnce
<1>1. Init => setting \in Settings
  BY Zenon DEF Init
<1>2. setting \in Settings /\ [Next]_vars => (setting \in Settings)'
  BY SettingFixed, Zenon
<1>3. setting \in Settings => "retune" \notin Faults
  BY Zenon DEF Faults
<1>4. "retune" \notin Faults /\ (Alone => AlertInv) => NotifiedOnce
  BY AlertInvImplies, Zenon DEF NotifiedOnce
<1> QED
  BY <1>1, <1>2, <1>3, <1>4, AlertInvariant, PTL DEF Spec

(***************************************************************************)
(* One run at a time, no disturbance, and no more rules and SLOs than      *)
(* list_incidents puts on a page: a rule is notified only after            *)
(* consecutive_cycles firing evaluations in a row, and between runs the    *)
(* open incidents are exactly the names that fired last, each with the     *)
(* length of its streak.                                                   *)
(***************************************************************************)
THEOREM IncidentsFollowEvaluations ==
    ASSUME Len(RuleOrder) + Len(SloOrder) <= ListLimit
    PROVE  Spec => [](FlappingSuppressed /\ Reconciled)
<1>1. (Alone => AlertInv) => Reconciled
  BY AtRest, JobSlots, Zenon DEF Reconciled
<1>2. (Alone => AlertInv) => FlappingSuppressed
  BY AlertInvImplies, Zenon DEF FlappingSuppressed
<1> QED
  BY <1>1, <1>2, AlertInvariant, PTL

(* The flapping policy on its own: a breach that comes and goes starts to count
   from one again, since the incident of the earlier breach has been resolved. *)
COROLLARY FlappingIsSuppressed ==
    ASSUME Len(RuleOrder) + Len(SloOrder) <= ListLimit
    PROVE  Spec => []FlappingSuppressed
BY IncidentsFollowEvaluations, PTL
=============================================================================
