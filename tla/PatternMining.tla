---------------------------- MODULE PatternMining ----------------------------
(***************************************************************************)
(* workers/jobs/pattern_mining_job.py and PatternFindingRepository: a run  *)
(* looks for pairs of event types where one is often followed by the       *)
(* other, and saves every pattern it accepts as a new version.  The whole  *)
(* run is one transaction; saving reads the versions there are, flushes    *)
(* the deactivations and the new row, and the run commits at its end.      *)
(***************************************************************************)
EXTENDS Integers, FiniteSets, FiniteSetsExt

CONSTANTS
    Miners,         \* the workers that may run the job
    Kinds,          \* event types, as numbers
    MaxDay,         \* bound: days told apart, all within the lookback
    Windows,        \* time_windows, in days
    MinSupport,     \* pattern_min_support
    MinConfidence,  \* pattern_min_confidence, in percent
    MaxRuns,        \* bound: runs of the job
    MineSets        \* the settings considered: sets of faults

VARIABLES
    mineFaults,     \* the faults of this behaviour: "overlap", "crash"
    hazards,        \* hazard_events of one region: pairs of a type and a day
    runs,           \* runs started so far
    findings,       \* committed rows of pattern_findings
    miner           \* per worker, the run it executes

mineVars == <<mineFaults, hazards, runs, findings, miner>>

ASSUME PatternAssumption ==
    /\ Kinds \subseteq Nat /\ Windows \subseteq Nat \ {0}
    /\ MinSupport \in Nat \ {0} /\ MinConfidence \in 0 .. 100
    /\ MineSets \subseteq SUBSET {"overlap", "crash"}

AllHazards == [kind : Kinds, day : 1 .. MaxDay]
Patterns == {p \in [source : Kinds, target : Kinds, window : Windows] : p.source # p.target}
Rows == [pattern : Patterns, run : 1 .. MaxRuns, version : 1 .. MaxRuns, active : BOOLEAN]

-----------------------------------------------------------------------------
(* The statistics *)

OfKind(evs, k) == {e \in evs : e.kind = k}

(* Pairs of a source event and a target event that follows it within the window. *)
co_occurrences(evs, p) ==
    {q \in OfKind(evs, p.source) \X OfKind(evs, p.target) :
        q[2].day - q[1].day \in 1 .. p.window}

support_count(evs, p) == Cardinality(co_occurrences(evs, p))

(* The lower end L of the Wilson interval of k successes in n trials solves
   n (k/n - L)^2 = z^2 L (1 - L) with L below k/n, so L is at least c percent
   exactly when k/n is and n (100k/n - c)^2 reaches z^2 c (100 - c).  z^2 is
   1.96^2 = 2401/625; more successes than trials count as n. *)
wilson_at_least(successes, n, c) ==
    LET k == Min({successes, n}) IN
    IF n = 0 \/ k = 0 THEN c = 0
    ELSE /\ 100 * k >= c * n
         /\ 625 * (100 * k - c * n) * (100 * k - c * n) >= 2401 * n * c * (100 - c)

(* The tests a candidate goes through, in the order of the loop's body: lift is
   the observed rate over the target's share of all events. *)
accepted(evs, p) ==
    LET k == support_count(evs, p)
        ns == Cardinality(OfKind(evs, p.source))
        nt == Cardinality(OfKind(evs, p.target))
    IN  /\ Cardinality(evs) >= 2
        /\ ns > 0 /\ nt > 0
        /\ k >= MinSupport
        /\ k * Cardinality(evs) > ns * nt
        /\ wilson_at_least(k, ns, MinConfidence)

-----------------------------------------------------------------------------
(* Runs *)

Resting == [pc |-> "idle", run |-> 0, alone |-> TRUE, todo |-> {}, seen |-> {},
            off |-> {}, new |-> {}]

MinerTypeOK(m) ==
    /\ m.pc \in {"idle", "next", "flush"} /\ m.run \in 0 .. MaxRuns /\ m.alone \in BOOLEAN
    /\ m.todo \subseteq Patterns
    /\ m.seen \subseteq Rows /\ m.off \subseteq Rows /\ m.new \subseteq Rows

MineTypeOK ==
    /\ mineFaults \in MineSets
    /\ hazards \subseteq AllHazards
    /\ runs \in 0 .. MaxRuns
    /\ findings \subseteq Rows
    /\ DOMAIN miner = Miners /\ \A w \in Miners : MinerTypeOK(miner[w])

MineInit ==
    /\ mineFaults \in MineSets
    /\ hazards \in SUBSET AllHazards
    /\ runs = 0
    /\ findings = {}
    /\ miner = [w \in Miners |-> Resting]

Busy == {w \in Miners : miner[w].pc # "idle"}

(* execute_pattern_mining selects the events and finds the patterns to save. *)
StartMining(w) ==
    /\ miner[w].pc = "idle" /\ runs < MaxRuns
    /\ "overlap" \in mineFaults \/ Busy = {}
    /\ runs' = runs + 1
    /\ miner' = [v \in Miners |->
          IF v = w THEN [Resting EXCEPT !.pc = "next", !.run = runs + 1, !.alone = Busy = {},
                                        !.todo = {p \in Patterns : accepted(hazards, p)}]
          ELSE [miner[v] EXCEPT !.alone = @ /\ miner[v].pc = "idle"]]
    /\ UNCHANGED <<mineFaults, hazards, findings>>

(* The loops go through the types and windows in one order. *)
Rank(p) == 100 * p.source + 10 * p.target + p.window
first(P) == CHOOSE p \in P : \A q \in P : Rank(p) <= Rank(q)

(* save_pattern_version reads the versions of the pattern ... *)
ReadVersions(w) ==
    /\ miner[w].pc = "next" /\ miner[w].todo # {}
    /\ miner' = [miner EXCEPT ![w].pc = "flush",
                     ![w].seen = {f \in findings : f.pattern = first(miner[w].todo)}]
    /\ UNCHANGED <<mineFaults, hazards, runs, findings>>

next_version(seen) == Max({f.version : f \in seen} \cup {0}) + 1

(* Slip: only the newest version is deactivated. *)
deactivated_newest(seen) == {f \in seen : f.active /\ f.run = Max({g.run : g \in seen})}

deactivated(seen) == {f \in seen : f.active}

(* ... and flushes: the updates wait for whoever else has updated those rows. *)
FlushVersion(w) ==
    LET m == miner[w]
        p == first(m.todo)
        row == [pattern |-> p, run |-> m.run, version |-> next_version(m.seen), active |-> TRUE]
    IN  /\ m.pc = "flush"
        /\ \A v \in Miners \ {w} : miner[v].off \cap deactivated(m.seen) = {}
        /\ miner' = [miner EXCEPT ![w] = [m EXCEPT !.pc = "next", !.todo = @ \ {p},
                        !.seen = {}, !.off = @ \cup deactivated(m.seen), !.new = @ \cup {row}]]
        /\ UNCHANGED <<mineFaults, hazards, runs, findings>>

Off(f) == [f EXCEPT !.active = FALSE]

(* An update sets the column whatever it has become since it was read. *)
CommitMining(w) ==
    LET m == miner[w] IN
    /\ m.pc = "next" /\ m.todo = {}
    /\ findings' = {IF f \in m.off THEN Off(f) ELSE f : f \in findings} \cup m.new
    /\ miner' = [miner EXCEPT ![w] = Resting]
    /\ UNCHANGED <<mineFaults, hazards, runs>>

(* The worker dies: the transaction is rolled back. *)
LoseMining(w) ==
    /\ "crash" \in mineFaults /\ miner[w].pc # "idle"
    /\ miner' = [miner EXCEPT ![w] = Resting]
    /\ UNCHANGED <<mineFaults, hazards, runs, findings>>

MineStep(w) == StartMining(w) \/ ReadVersions(w) \/ FlushVersion(w) \/ CommitMining(w)

MineNext == \E w \in Miners : MineStep(w) \/ LoseMining(w)

-----------------------------------------------------------------------------
Versions(p) == {f \in findings : f.pattern = p}
Active(F) == {f \in F : f.active}

(* Overlapping runs may leave several active rows of one pattern.  The next run
   that has the table to itself leaves exactly its own active. *)
LoneRunRepairs ==
    [][\A w \in Miners :
         (miner[w].pc = "next" /\ miner[w].todo = {} /\ miner[w].alone /\ miner'[w].pc = "idle"
          /\ findings' # findings)
         => \A f \in miner[w].new : Active({g \in findings' : g.pattern = f.pattern}) = {f}]_mineVars

=============================================================================
