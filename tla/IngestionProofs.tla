-------------------------- MODULE IngestionProofs --------------------------
(***************************************************************************)
(* Theorems about the ingestion jobs of DataJobs, for every source, any    *)
(* number of workers, stations and dates, any page size, and runs that     *)
(* overlap, die or read a stale cache.                                     *)
(*                                                                         *)
(* That an event the cursor has passed has its row is not inductive: a     *)
(* cursor moves because of the records of one run, while other runs insert *)
(* theirs. CursorInv says that the rows are closed (what is older than a   *)
(* stored event is stored), that every cursor, the one in the table and    *)
(* the one each run started from, is the date of a stored event, and that  *)
(* the records a run carries leave out only events that are stored         *)
(* already. The page that a source answers with holds all that has no row, *)
(* since a backlog never exceeds it: what does not fit is older, or for    *)
(* arXiv was updated earlier, and is stored.                               *)
(***************************************************************************)
EXTENDS DataJobs, FilteringTheorems, FiniteSetTheorems

\* A run of the ingestion job.
IngestRun == [pc : {"idle", "fetch", "dedup", "commit"}, since : 0 .. MaxDate,
              todo : SUBSET Stations, records : SUBSET Events]

(* Rows, answers and records are of events that have been published. *)
FeedInv ==
    /\ <<feedSource, feedFaults>> \in SourceSets
    /\ today \in Dates
    /\ published \subseteq Events
    /\ updated \in [Events -> Dates]
    /\ \A e \in published : e.at <= today /\ e.station \in asked
    /\ copies \in [Events -> Nat]
    /\ \A e \in Events : copies[e] > 0 => e \in published
    /\ cursor \in 0 .. MaxDate
    /\ DOMAIN remembered = Stations
    /\ \A p \in Stations : remembered[p].value \subseteq published
    /\ job \in [Jobs -> IngestRun]
    /\ \A j \in Jobs : job[j].records \subseteq published

\* Run j has begun and not ended.
Working(j) == job[j].pc # "idle"

\* What run t has found lies beyond the cursor c it started from.
Ahead(t, c) == t.since = c /\ \A e \in t.records : e.at > c

(* Without overlap one run is at work, and the papers it has found are newer
   than any that has rows: a revised paper is not stored again. *)
OnceInv ==
    /\ "overlap" \notin feedFaults => \A i, j \in Jobs : Working(i) /\ Working(j) => i = j
    /\ feedSource # "arxiv" \/ "overlap" \notin feedFaults => \A e \in Events : copies[e] <= 1
    /\ feedSource = "arxiv" /\ "overlap" \notin feedFaults =>
          /\ \A e \in Events : copies[e] > 0 => e.at <= cursor
          /\ \A j \in Jobs : Working(j) => Ahead(job[j], cursor)

(* C holds the rows per event, P the events published, A the records of a run,
   c a cursor and p a station. *)
Closed(P, C) == \A e, f \in P : e.at < f.at /\ C[f] > 0 => C[e] > 0
Past(c, P, C) == c = 0 \/ \E f \in P : f.at = c /\ C[f] > 0
Covered(A, P, C) == \A e \in P, f \in A : e.at < f.at => e \in A \/ C[e] > 0
Complete(A, p, P, C) == \A e \in P : e.station = p => e \in A \/ C[e] > 0

(* A run that is going round the stations has what those that answered had
   published before today. *)
RunCovers(t, P, C, d) ==
    /\ Past(t.since, P, C)
    /\ t.pc = "fetch" =>
          /\ t.todo # {} /\ t.todo \subseteq asked
          /\ t.todo = asked => t.records = {}
          /\ \A e \in P : e.station \notin t.todo /\ e.at < d => e \in t.records \/ C[e] > 0
    /\ t.pc \in {"dedup", "commit"} => Covered(t.records, P, C)

(* Runs see the whole of what GDELT matches only one after another. *)
Steady == Ordinary /\ (feedSource = "gdelt" => "overlap" \notin feedFaults)

\* The invariant of the cursor.
CursorInv ==
    /\ Closed(published, copies)
    /\ Past(cursor, published, copies)
    /\ \A j \in Jobs : RunCovers(job[j], published, copies, today)
    /\ ~loops(feedSource) =>
          \A p \in Stations : Covered(remembered[p].value, published, copies)
    /\ \A p \in asked : Cardinality(Backlog(p)) <= page
    /\ feedSource = "gdelt" => \A j \in Jobs : Working(j) =>
          job[j].since = cursor /\ \A e \in job[j].records : e.at >= cursor

LEMMA OneAsked ==
    ASSUME ~loops(feedSource)
    PROVE  \E p \in Stations : asked = {p}
BY IngestionAssumption, Zenon DEF asked

LEMMA AskedStations == asked \subseteq Stations
<1>1. CASE loops(feedSource)
  BY <1>1, Zenon DEF asked
<1>2. CASE ~loops(feedSource)
  BY <1>2, OneAsked, Zenon
<1> QED
  BY <1>1, <1>2, Zenon

LEMMA SameEvent ==
    ASSUME NEW e \in Events, NEW f \in Events, e.station = f.station, e.at = f.at
    PROVE  e = f
BY DEF Events

LEMMA OnItsDate ==
    ASSUME NEW e \in Events
    PROVE  e.station \in Stations /\ e.at \in Dates /\ e.at \in Nat /\ e.at > 0
BY DEF Events, Dates

LEMMA NextDatesOK ==
    ASSUME FeedInv, NEW d \in NextDates
    PROVE  /\ d \in 1 .. today
           /\ "late" \notin feedFaults => /\ \A f \in published : f.at <= d
                                          /\ d < today => BetweenRounds
<1> DEFINE T == {1} \cup {e.at : e \in published}
<1>1. \A e \in published : e.at \in Nat /\ e.at > 0 /\ e.at <= today /\ e.at \in 0 .. MaxDate
  BY OnItsDate DEF FeedInv, Dates
<1>2. today \in Nat /\ today > 0 /\ MaxDate \in Nat /\ 1 \in 0 .. MaxDate
  BY IngestionAssumption DEF FeedInv, Dates
<1>3. T \in SUBSET (0 .. MaxDate) /\ T # {}
  BY <1>1, <1>2, Zenon
<1>4. Max(T) \in T /\ \A y \in T : Max(T) >= y
  <2> HIDE DEF T
  <2>1. \E x \in T : \A y \in T : x >= y
    BY <1>2, <1>3, GreatestNumber, Zenon
  <2> QED
    BY <2>1, Zenon DEF Max
<1>5. Max(T) \in Nat /\ Max(T) > 0 /\ Max(T) <= today /\ \A f \in published : Max(T) >= f.at
  <2>1. \A f \in published : f.at \in T
    BY Zenon
  <2>2. \A y \in T : y \in Nat /\ y > 0 /\ y <= today
    BY <1>1, <1>2
  <2> HIDE DEF T
  <2> QED
    BY <1>4, <2>1, <2>2, Zenon
<1>6. CASE "late" \in feedFaults
  BY <1>6, Zenon DEF NextDates
<1>7. CASE "late" \notin feedFaults /\ BetweenRounds
  <2>1. d \in Max(T) .. today
    BY <1>7, Zenon DEF NextDates
  <2> HIDE DEF T
  <2> QED
    BY <1>1, <1>2, <1>5, <1>7, <2>1
<1>8. CASE "late" \notin feedFaults /\ ~BetweenRounds
  <2>1. d = today
    BY <1>8, Zenon DEF NextDates
  <2> QED
    BY <1>1, <1>2, <2>1
<1> QED
  BY <1>6, <1>7, <1>8

LEMMA SourceType ==
    ASSUME <<feedSource, feedFaults>> \in SourceSets
    PROVE  feedSource \in Sources
BY IngestionAssumption

(* One run changes. *)
LEMMA RunChanged ==
    ASSUME job \in [Jobs -> IngestRun], NEW j \in Jobs, NEW t \in IngestRun,
           job' = [job EXCEPT ![j] = t]
    PROVE  /\ job' \in [Jobs -> IngestRun]
           /\ job'[j] = t
           /\ \A i \in Jobs : i # j => job'[i] = job[i]
OBVIOUS

LEMMA IdleRun == Idle \in IngestRun /\ Idle.pc = "idle" /\ Idle.since = 0 /\ Idle.records = {}
BY IngestionAssumption DEF Idle, IngestRun

LEMMA KeptIsPart ==
    ASSUME feedSource \in Sources, NEW A, NEW since
    PROVE  Kept(A, since) \in SUBSET A
<1> USE DEF Kept, fetch_recent_usgs_events, fetch_recent_noaa_events,
            fetch_recent_copernicus_events, fetch_recent_era5_events,
            fetch_recent_gdelt_events, fetch_new_arxiv_papers
<1> QED
  BY DEF Sources

(* What becomes of a run when a station has answered. *)
Next_station(m, p, A) == Fetched([m EXCEPT !.todo = @ \ {p}, !.records = @ \cup A])

LEMMA AfterAnswer ==
    ASSUME NEW m \in IngestRun, NEW p, NEW A \in SUBSET Events, m.pc = "fetch"
    PROVE  /\ Next_station(m, p, A) \in IngestRun
           /\ \/ /\ m.todo \ {p} # {}
                 /\ Next_station(m, p, A).pc = "fetch"
                 /\ Next_station(m, p, A).since = m.since
                 /\ Next_station(m, p, A).todo = m.todo \ {p}
                 /\ Next_station(m, p, A).records = m.records \cup A
              \/ /\ m.todo \ {p} = {}
                 /\ Next_station(m, p, A).pc = IF feedSource = "arxiv" THEN "dedup" ELSE "commit"
                 /\ Next_station(m, p, A).since = m.since
                 /\ Next_station(m, p, A).records = m.records \cup A
              \/ Next_station(m, p, A) = Idle
<1> DEFINE t == [m EXCEPT !.todo = @ \ {p}, !.records = @ \cup A]
<1>1. /\ t \in IngestRun
      /\ t.pc = "fetch" /\ t.since = m.since /\ t.todo = m.todo \ {p} /\ t.records = m.records \cup A
  BY DEF IngestRun
<1>2. Next_station(m, p, A) = Fetched(t)
  BY Zenon DEF Next_station
<1> HIDE DEF t
<1>3. CASE t.todo # {}
  BY <1>1, <1>2, <1>3, Zenon DEF Fetched
<1>4. CASE t.todo = {} /\ feedSource # "arxiv"
  <2>1. Fetched(t) = [t EXCEPT !.pc = "commit"]
    BY <1>4, Zenon DEF Fetched
  <2>2. /\ [t EXCEPT !.pc = "commit"] \in IngestRun /\ [t EXCEPT !.pc = "commit"].pc = "commit"
        /\ [t EXCEPT !.pc = "commit"].since = t.since /\ [t EXCEPT !.pc = "commit"].records = t.records
    BY <1>1 DEF IngestRun
  <2> QED
    BY <1>1, <1>2, <1>4, <2>1, <2>2, Zenon
<1>5. CASE t.todo = {} /\ feedSource = "arxiv" /\ t.records = {}
  BY <1>2, <1>5, IdleRun, Zenon DEF Fetched
<1>6. CASE t.todo = {} /\ feedSource = "arxiv" /\ t.records # {}
  <2>1. Fetched(t) = [t EXCEPT !.pc = "dedup"]
    BY <1>6, Zenon DEF Fetched
  <2>2. /\ [t EXCEPT !.pc = "dedup"] \in IngestRun /\ [t EXCEPT !.pc = "dedup"].pc = "dedup"
        /\ [t EXCEPT !.pc = "dedup"].since = t.since /\ [t EXCEPT !.pc = "dedup"].records = t.records
    BY <1>1 DEF IngestRun
  <2> QED
    BY <1>1, <1>2, <1>6, <2>1, <2>2, Zenon
<1> QED
  BY <1>3, <1>4, <1>5, <1>6, Zenon

LEMMA Answers ==
    ASSUME feedSource \in Sources, NEW p, NEW since, NEW A \in Responses(p, since)
    PROVE  A \subseteq {e \in published : e.station = p}
<1> DEFINE S == {e \in published : e.station = p}
<1>1. CASE feedSource = "usgs"
  BY <1>1 DEF Responses, get_recent_earthquakes
<1>2. CASE feedSource = "noaa"
  BY <1>2 DEF Responses, get_water_temperature, Newest
<1>3. CASE feedSource = "copernicus"
  BY <1>3 DEF Responses, get_wildfire_products, Newest
<1>4. CASE feedSource = "era5"
  BY <1>4 DEF Responses, get_atmospheric_baseline
<1>5. CASE feedSource = "gdelt"
  BY <1>5 DEF Responses, get_hazard_articles
<1>6. CASE feedSource = "arxiv"
  BY <1>6 DEF Responses, fetch_arxiv
<1> QED
  BY <1>1, <1>2, <1>3, <1>4, <1>5, <1>6 DEF Sources

(* The cursor a commit writes is the date of one of its records. *)
LEMMA LatestOf ==
    ASSUME NEW R \in SUBSET Events, R # {}
    PROVE  \E e \in R : advanced(R) = e.at /\ \A f \in R : f.at <= e.at
<1> DEFINE T == {e.at : e \in R}
<1>1. T \in SUBSET (0 .. MaxDate) /\ T # {} /\ MaxDate \in Nat
  <2>1. \A e \in R : e.at \in 0 .. MaxDate
    BY DEF Events, Dates
  <2> QED
    BY <2>1, IngestionAssumption, Zenon
<1> HIDE DEF T
<1>2. \E x \in T : \A y \in T : x >= y
  BY <1>1, GreatestNumber, Zenon
<1>3. Max(T) \in T /\ \A y \in T : Max(T) >= y
  BY <1>2, Zenon DEF Max
<1>4. advanced(R) = Max(T)
  BY Zenon DEF advanced, T
<1>5. PICK e \in R : e.at = Max(T)
  BY <1>3, Zenon DEF T
<1>6. \A f \in R : f.at \in T /\ f.at \in Int
  BY <1>1 DEF T, Events, Dates
<1>7. \A f \in R : f.at <= e.at
  BY <1>3, <1>5, <1>6
<1> QED
  BY <1>4, <1>5, <1>7, Zenon

LEMMA FeedInitInv == IngestInit => FeedInv
<1> SUFFICES ASSUME IngestInit PROVE FeedInv
  OBVIOUS
<1>1. <<feedSource, feedFaults>> \in SourceSets
  BY IngestionAssumption DEF IngestInit
<1>2. today \in Dates /\ cursor \in 0 .. MaxDate /\ published = {}
  BY IngestionAssumption DEF IngestInit, Dates
<1>3. /\ copies \in [Events -> Nat] /\ \A e \in Events : ~(copies[e] > 0)
      /\ updated \in [Events -> Dates]
  BY OnItsDate DEF IngestInit
<1>4. DOMAIN remembered = Stations /\ \A p \in Stations : remembered[p].value = {}
  BY Zenon DEF IngestInit
<1>5. job \in [Jobs -> IngestRun] /\ \A j \in Jobs : job[j].records = {}
  BY IdleRun, Zenon DEF IngestInit
<1> QED
  BY <1>1, <1>2, <1>3, <1>4, <1>5, Zenon DEF FeedInv

(* The parts of an answer that a step records: an answer itself, or nothing, or
   the answer that was cached. *)
LEMMA FeedRun ==
    ASSUME FeedInv, NEW j \in Jobs, NEW t \in IngestRun, t.records \subseteq published,
           job' = [job EXCEPT ![j] = t]
    PROVE  /\ job' \in [Jobs -> IngestRun]
           /\ \A i \in Jobs : job'[i].records \subseteq published
<1>1. /\ job' \in [Jobs -> IngestRun] /\ job'[j] = t
      /\ \A i \in Jobs : i # j => job'[i] = job[i]
  BY RunChanged, Zenon DEF FeedInv
<1> QED
  BY <1>1, Zenon DEF FeedInv

LEMMA FeedAnswered ==
    ASSUME FeedInv, NEW j \in Jobs, NEW p, NEW A \in SUBSET published, job[j].pc = "fetch",
           Answered(j, p, A)
    PROVE  /\ job' \in [Jobs -> IngestRun]
           /\ \A i \in Jobs : job'[i].records \subseteq published
<1> DEFINE t == Next_station(job[j], p, A)
<1>1. job[j] \in IngestRun /\ job[j].records \subseteq published /\ A \in SUBSET Events
  BY Zenon DEF FeedInv
<1>2. job' = [job EXCEPT ![j] = t]
  BY Zenon DEF Answered, Next_station
<1>3. t \in IngestRun /\ (t.records = job[j].records \cup A \/ t = Idle)
  BY <1>1, AfterAnswer, Zenon
<1> HIDE DEF t
<1>4. t.records \subseteq published
  BY <1>1, <1>3, IdleRun, Zenon
<1> QED
  BY <1>2, <1>3, <1>4, FeedRun, Zenon

LEMMA FeedNextInv == FeedInv /\ [IngestNext]_ingestVars => FeedInv'
<1> SUFFICES ASSUME FeedInv, [IngestNext]_ingestVars PROVE FeedInv'
  OBVIOUS
<1>a. feedSource' = feedSource => asked' = asked
  BY Zenon DEF asked, loops
<1>b. feedSource \in Sources
  BY SourceType, Zenon DEF FeedInv
<1>1. ASSUME NEW p \in Stations, Publish(p) PROVE FeedInv'
  <2>0. PICK d \in NextDates : /\ [station |-> p, at |-> d] \notin published
                               /\ published' = published \cup {[station |-> p, at |-> d]}
    BY <1>1, Zenon DEF Publish
  <2>1. d \in 1 .. today
    BY NextDatesOK, Zenon
  <2> DEFINE e == [station |-> p, at |-> d]
  <2>2. e \in Events /\ e.at <= today /\ e.station \in asked
    BY <1>1, <2>1, IngestionAssumption DEF Publish, FeedInv, Dates, Events
  <2>3. published' = published \cup {e}
    BY <2>0, Zenon
  <2> HIDE DEF e
  <2>4. UNCHANGED <<feedSource, feedFaults, today, updated, copies, cursor, remembered, job>>
    BY <1>1, Zenon DEF Publish
  <2> QED
    BY <1>a, <2>2, <2>3, <2>4, Zenon DEF FeedInv
<1>2. CASE NextDate
  <2>1. UNCHANGED <<feedSource, feedFaults, published, updated, copies, cursor, remembered, job>>
    BY <1>2, Zenon DEF NextDate
  <2>2. today' \in Dates /\ \A e \in published : e.at <= today'
    BY <1>2, OnItsDate, IngestionAssumption DEF NextDate, FeedInv, Dates
  <2> QED
    BY <1>a, <2>1, <2>2, Zenon DEF FeedInv
<1>3. ASSUME UNCHANGED <<feedSource, feedFaults, today, published, updated, copies, cursor, remembered>>,
             job' \in [Jobs -> IngestRun], \A i \in Jobs : job'[i].records \subseteq published
      PROVE  FeedInv'
  BY <1>a, <1>3, Zenon DEF FeedInv
<1>4. ASSUME NEW j \in Jobs, StartIngestion(j) PROVE FeedInv'
  <2> DEFINE t == [Idle EXCEPT !.pc = "fetch", !.since = cursor, !.todo = asked]
  <2>1. t \in IngestRun /\ t.records = {}
    BY IdleRun, AskedStations DEF IngestRun, FeedInv, Idle
  <2>2. job' = [job EXCEPT ![j] = t]
    BY <1>4, Zenon DEF StartIngestion
  <2> HIDE DEF t
  <2>3. job' \in [Jobs -> IngestRun] /\ \A i \in Jobs : job'[i].records \subseteq published
    BY <2>1, <2>2, FeedRun, Zenon
  <2> QED
    BY <1>3, <1>4, <2>3, Zenon DEF StartIngestion
<1>5. ASSUME NEW j \in Jobs, FetchStation(j) PROVE FeedInv'
  <2>1. PICK p \in job[j].todo : \E A \in Responses(p, job[j].since) :
          /\ Answered(j, p, Kept(A, job[j].since))
          /\ \/ remembered' = [remembered EXCEPT
                                 ![p] = [key |-> cache_key(job[j].since), value |-> A]]
             \/ "cache" \in feedFaults /\ UNCHANGED remembered
    BY <1>5, Zenon DEF FetchStation
  <2>2. PICK A \in Responses(p, job[j].since) :
          /\ Answered(j, p, Kept(A, job[j].since))
          /\ \/ remembered' = [remembered EXCEPT
                                 ![p] = [key |-> cache_key(job[j].since), value |-> A]]
             \/ "cache" \in feedFaults /\ UNCHANGED remembered
    BY <2>1, Zenon
  <2>3. A \subseteq published
    BY <1>b, Answers, Zenon
  <2>4. Kept(A, job[j].since) \in SUBSET published
    BY <1>b, <2>3, KeptIsPart, Zenon
  <2>5. job' \in [Jobs -> IngestRun] /\ \A i \in Jobs : job'[i].records \subseteq published
    BY <1>5, <2>2, <2>4, FeedAnswered, Zenon DEF FetchStation
  <2>6. /\ DOMAIN remembered' = Stations
        /\ \A q \in Stations : remembered'[q].value \subseteq published
    BY <2>2, <2>3 DEF FeedInv
  <2>7. UNCHANGED <<feedSource, feedFaults, today, published, updated, copies, cursor>>
    BY <1>5, Zenon DEF FetchStation
  <2> QED
    BY <1>a, <2>5, <2>6, <2>7, Zenon DEF FeedInv
<1>6. ASSUME NEW j \in Jobs, StationUnavailable(j) PROVE FeedInv'
  <2>1. PICK p \in job[j].todo : \/ Answered(j, p, {})
                                 \/ Answered(j, p, Kept(remembered[p].value, job[j].since))
    BY <1>6, Zenon DEF StationUnavailable
  <2>2. p \in Stations
    BY DEF FeedInv, IngestRun
  <2>3. remembered[p].value \subseteq published
    BY <2>2, Zenon DEF FeedInv
  <2>4. Kept(remembered[p].value, job[j].since) \in SUBSET published
    BY <1>b, <2>3, KeptIsPart, Zenon
  <2>5. {} \in SUBSET published
    BY Zenon
  <2>6. job[j].pc = "fetch"
    BY <1>6, Zenon DEF StationUnavailable
  <2>7. job' \in [Jobs -> IngestRun] /\ \A i \in Jobs : job'[i].records \subseteq published
    BY <2>1, <2>4, <2>5, <2>6, FeedAnswered, Zenon
  <2> QED
    BY <1>3, <1>6, <2>7, Zenon DEF StationUnavailable
<1>7. ASSUME NEW j \in Jobs, Deduplicate(j) PROVE FeedInv'
  <2>0. PICK D \in SUBSET {e \in job[j].records :
                             copies[e] \in 1 .. MaxCopies /\ e.at < updated[e]} :
          job' = [job EXCEPT ![j].pc = "commit",
                             ![j].records = {e \in job[j].records : copies[e] = 0} \cup D]
    BY <1>7, Zenon DEF Deduplicate
  <2> DEFINE t == [job[j] EXCEPT !.pc = "commit",
                                 !.records = {e \in job[j].records : copies[e] = 0} \cup D]
  <2>1. t \in IngestRun /\ t.records \subseteq published
    BY <2>0 DEF FeedInv, IngestRun
  <2>2. job' = [job EXCEPT ![j] = t]
    BY <2>0 DEF FeedInv, IngestRun
  <2> HIDE DEF t
  <2>3. job' \in [Jobs -> IngestRun] /\ \A i \in Jobs : job'[i].records \subseteq published
    BY <2>1, <2>2, FeedRun, Zenon
  <2> QED
    BY <1>3, <1>7, <2>3, ZenonT(30) DEF Deduplicate
<1>8. ASSUME NEW j \in Jobs, CommitIngestion(j) PROVE FeedInv'
  <2> DEFINE R == job[j].records
  <2>1. R \subseteq published /\ R \subseteq Events
    BY Zenon DEF FeedInv
  <2>2. /\ copies' = [e \in Events |-> IF e \in R THEN inserted(e) ELSE copies[e]]
        /\ cursor' = IF R = {} THEN cursor ELSE advanced(R)
    BY <1>8, Zenon DEF CommitIngestion
  <2>3. job' \in [Jobs -> IngestRun] /\ \A i \in Jobs : job'[i].records \subseteq published
    BY <1>8, FeedRun, IdleRun, Zenon DEF CommitIngestion
  <2>4. UNCHANGED <<feedSource, feedFaults, today, published, updated, remembered>>
    BY <1>8, Zenon DEF CommitIngestion
  <2> HIDE DEF R
  <2>5. \A e \in Events : inserted(e) \in Nat
    BY DEF FeedInv, inserted
  <2>6. copies' \in [Events -> Nat] /\ \A e \in Events : copies'[e] > 0 => e \in published
    BY <2>1, <2>2, <2>5, Zenon DEF FeedInv
  <2>7. cursor' \in 0 .. MaxDate
    <3>1. CASE R = {}
      BY <2>2, <3>1, Zenon DEF FeedInv
    <3>2. CASE R # {}
      <4>1. \E e \in R : advanced(R) = e.at
        BY <2>1, <3>2, LatestOf, Zenon
      <4>2. \A e \in R : e.at \in 0 .. MaxDate
        BY <2>1 DEF Events, Dates
      <4> QED
        BY <2>2, <3>2, <4>1, <4>2, Zenon
    <3> QED
      BY <3>1, <3>2, Zenon
  <2> QED
    BY <1>a, <2>3, <2>4, <2>6, <2>7, Zenon DEF FeedInv
<1>9. ASSUME NEW j \in Jobs, LoseIngestion(j) PROVE FeedInv'
  <2>1. job' \in [Jobs -> IngestRun] /\ \A i \in Jobs : job'[i].records \subseteq published
    BY <1>9, FeedRun, IdleRun, Zenon DEF LoseIngestion
  <2> QED
    BY <1>3, <1>9, <2>1, Zenon DEF LoseIngestion
<1>11. ASSUME NEW p \in Stations, Revise(p) PROVE FeedInv'
  <2>1. PICK e \in published : updated' = [updated EXCEPT ![e] = today]
    BY <1>11, Zenon DEF Revise
  <2>2. UNCHANGED <<feedSource, feedFaults, today, published, copies, cursor, remembered, job>>
    BY <1>11, Zenon DEF Revise
  <2>3. updated' \in [Events -> Dates]
    BY <2>1, Zenon DEF FeedInv
  <2> QED
    BY <1>a, <2>2, <2>3, Zenon DEF FeedInv
<1>10. CASE UNCHANGED ingestVars
  BY <1>3, <1>10, Zenon DEF ingestVars, FeedInv
<1> QED
  BY <1>1, <1>2, <1>4, <1>5, <1>6, <1>7, <1>8, <1>9, <1>10, <1>11, ZenonT(30) DEF IngestNext, IngestStep

LEMMA OnceInitInv == IngestInit => OnceInv
<1> SUFFICES ASSUME IngestInit PROVE OnceInv
  OBVIOUS
<1>1. \A j \in Jobs : job[j].pc = "idle"
  BY IdleRun, Zenon DEF IngestInit
<1>2. \A e \in Events : copies[e] <= 1
  BY DEF IngestInit
<1>3. \A e \in Events : ~(copies[e] > 0)
  BY DEF IngestInit
<1> QED
  BY <1>1, <1>2, <1>3, Zenon DEF OnceInv, Working

(* A run that was at work goes on, or ends, without a commit of its own. *)
LEMMA OnceRun ==
    ASSUME FeedInv, OnceInv, NEW j \in Jobs, NEW t \in IngestRun, job' = [job EXCEPT ![j] = t],
           UNCHANGED <<feedSource, feedFaults, copies, cursor>>,
           \/ job[j].pc # "idle" \/ t.pc = "idle"
           \/ "overlap" \in feedFaults \/ \A i \in Jobs : job[i].pc = "idle",
           feedSource = "arxiv" /\ "overlap" \notin feedFaults /\ t.pc # "idle" => Ahead(t, cursor)
    PROVE  OnceInv'
<1>1. job'[j] = t /\ \A i \in Jobs : i # j => job'[i] = job[i]
  BY RunChanged, Zenon DEF FeedInv
<1>2. "overlap" \notin feedFaults => \A i, k \in Jobs : job'[i].pc # "idle" /\ job'[k].pc # "idle" => i = k
  BY <1>1, ZenonT(30) DEF OnceInv, Working
<1>3. feedSource = "arxiv" /\ "overlap" \notin feedFaults =>
          \A i \in Jobs : job'[i].pc # "idle" => Ahead(job'[i], cursor)
  BY <1>1, Zenon DEF OnceInv, Working
<1> QED
  BY <1>2, <1>3, Zenon DEF OnceInv, Working, Ahead

LEMMA OnceAnswered ==
    ASSUME FeedInv, OnceInv, NEW j \in Jobs, NEW p, NEW A \in SUBSET Events, job[j].pc = "fetch",
           Answered(j, p, A), UNCHANGED <<feedSource, feedFaults, copies, cursor>>,
           feedSource = "arxiv" => \A e \in A : e.at > job[j].since
    PROVE  OnceInv'
<1> DEFINE t == Next_station(job[j], p, A)
<1>1. job[j] \in IngestRun
  BY Zenon DEF FeedInv
<1>2. job' = [job EXCEPT ![j] = t]
  BY Zenon DEF Answered, Next_station
<1>3. /\ t \in IngestRun
      /\ t = Idle \/ (t.since = job[j].since /\ t.records = job[j].records \cup A)
  BY <1>1, AfterAnswer, Zenon
<1> HIDE DEF t
<1>4. job[j].pc # "idle"
  OBVIOUS
<1>5. feedSource = "arxiv" /\ "overlap" \notin feedFaults => Ahead(job[j], cursor)
  BY <1>4, Zenon DEF OnceInv, Working
<1>6. feedSource = "arxiv" /\ "overlap" \notin feedFaults /\ t.pc # "idle" => Ahead(t, cursor)
  BY <1>3, <1>5, IdleRun, Zenon DEF Ahead
<1> QED
  BY <1>2, <1>3, <1>4, <1>6, OnceRun, Zenon

LEMMA KeptIsNew ==
    ASSUME feedSource = "arxiv", NEW A, NEW since, NEW e \in Kept(A, since)
    PROVE  e.at > since
BY DEF Kept, fetch_new_arxiv_papers

LEMMA OnceNextInv == FeedInv /\ OnceInv /\ [IngestNext]_ingestVars => OnceInv'
<1> SUFFICES ASSUME FeedInv, OnceInv, [IngestNext]_ingestVars PROVE OnceInv'
  OBVIOUS
<1>b. feedSource \in Sources
  BY SourceType, Zenon DEF FeedInv
<1>1. ASSUME UNCHANGED <<feedSource, feedFaults, copies, cursor, job>> PROVE OnceInv'
  BY <1>1, Zenon DEF OnceInv, Working, Ahead
<1>2. ASSUME NEW j \in Jobs, StartIngestion(j) PROVE OnceInv'
  <2> DEFINE t == [Idle EXCEPT !.pc = "fetch", !.since = cursor, !.todo = asked]
  <2>1. t \in IngestRun /\ t.since = cursor /\ t.records = {}
    BY IdleRun, AskedStations DEF IngestRun, FeedInv, Idle
  <2>2. /\ job' = [job EXCEPT ![j] = t] /\ UNCHANGED <<feedSource, feedFaults, copies, cursor>>
        /\ "overlap" \in feedFaults \/ \A i \in Jobs : job[i].pc = "idle"
    BY <1>2, Zenon DEF StartIngestion
  <2> HIDE DEF t
  <2>3. Ahead(t, cursor)
    BY <2>1, Zenon DEF Ahead
  <2> QED
    BY <2>1, <2>2, <2>3, OnceRun, Zenon
<1>3. ASSUME NEW j \in Jobs, FetchStation(j) PROVE OnceInv'
  <2>1. PICK p \in job[j].todo : \E A \in Responses(p, job[j].since) :
          Answered(j, p, Kept(A, job[j].since))
    BY <1>3, Zenon DEF FetchStation
  <2>2. PICK A \in Responses(p, job[j].since) : Answered(j, p, Kept(A, job[j].since))
    BY <2>1, Zenon
  <2>3. A \subseteq published
    BY <1>b, Answers, Zenon
  <2>4. Kept(A, job[j].since) \in SUBSET Events
    BY <1>b, <2>3, KeptIsPart, Zenon DEF FeedInv
  <2>5. job[j].pc = "fetch" /\ UNCHANGED <<feedSource, feedFaults, copies, cursor>>
    BY <1>3, Zenon DEF FetchStation
  <2>6. feedSource = "arxiv" => \A e \in Kept(A, job[j].since) : e.at > job[j].since
    BY KeptIsNew, Zenon
  <2> QED
    BY <2>2, <2>4, <2>5, <2>6, OnceAnswered, Zenon
<1>4. ASSUME NEW j \in Jobs, StationUnavailable(j) PROVE OnceInv'
  <2>1. PICK p \in job[j].todo : \/ Answered(j, p, {})
                                 \/ Answered(j, p, Kept(remembered[p].value, job[j].since))
    BY <1>4, Zenon DEF StationUnavailable
  <2>2. p \in Stations
    BY DEF FeedInv, IngestRun
  <2>3. remembered[p].value \subseteq published
    BY <2>2, Zenon DEF FeedInv
  <2>4. Kept(remembered[p].value, job[j].since) \in SUBSET Events /\ {} \in SUBSET Events
    BY <1>b, <2>3, KeptIsPart, Zenon DEF FeedInv
  <2>5. job[j].pc = "fetch" /\ UNCHANGED <<feedSource, feedFaults, copies, cursor>>
    BY <1>4, Zenon DEF StationUnavailable
  <2>6. feedSource = "arxiv" =>
           \A e \in Kept(remembered[p].value, job[j].since) : e.at > job[j].since
    BY KeptIsNew, Zenon
  <2>7. CASE Answered(j, p, {})
    BY <2>4, <2>5, <2>7, OnceAnswered, Zenon
  <2>8. CASE Answered(j, p, Kept(remembered[p].value, job[j].since))
    BY <2>4, <2>5, <2>6, <2>8, OnceAnswered, Zenon
  <2> QED
    BY <2>1, <2>7, <2>8
<1>5. ASSUME NEW j \in Jobs, Deduplicate(j) PROVE OnceInv'
  <2>0. PICK D \in SUBSET {e \in job[j].records :
                             copies[e] \in 1 .. MaxCopies /\ e.at < updated[e]} :
          job' = [job EXCEPT ![j].pc = "commit",
                             ![j].records = {e \in job[j].records : copies[e] = 0} \cup D]
    BY <1>5, Zenon DEF Deduplicate
  <2> DEFINE t == [job[j] EXCEPT !.pc = "commit",
                                 !.records = {e \in job[j].records : copies[e] = 0} \cup D]
  <2>1. t \in IngestRun /\ t.since = job[j].since /\ t.records \subseteq job[j].records
    BY <2>0 DEF FeedInv, IngestRun
  <2>2. job' = [job EXCEPT ![j] = t]
    BY <2>0 DEF FeedInv, IngestRun
  <2> HIDE DEF t
  <2>3. job[j].pc # "idle"
    BY <1>5 DEF Deduplicate
  <2>4. UNCHANGED <<feedSource, feedFaults, copies, cursor>>
    BY <1>5, Zenon DEF Deduplicate
  <2>5. feedSource = "arxiv" /\ "overlap" \notin feedFaults => Ahead(t, cursor)
    BY <2>1, <2>3, Zenon DEF OnceInv, Working, Ahead
  <2> QED
    BY <2>1, <2>2, <2>3, <2>4, <2>5, OnceRun, ZenonT(30)
<1>6. ASSUME NEW j \in Jobs, CommitIngestion(j) PROVE OnceInv'
  <2> DEFINE R == job[j].records
             Lone == feedSource = "arxiv" /\ "overlap" \notin feedFaults
  <2>1. /\ copies' = [e \in Events |-> IF e \in R THEN inserted(e) ELSE copies[e]]
        /\ cursor' = IF R = {} THEN cursor ELSE advanced(R)
    BY <1>6, Zenon DEF CommitIngestion
  <2>2. /\ job[j].pc = "commit" /\ job' = [job EXCEPT ![j] = Idle]
        /\ UNCHANGED <<feedSource, feedFaults>>
    BY <1>6, Zenon DEF CommitIngestion
  <2>3. job'[j] = Idle /\ \A i \in Jobs : i # j => job'[i] = job[i]
    BY <2>2, IdleRun, RunChanged, Zenon DEF FeedInv
  <2>4. Working(j) /\ R \in SUBSET Events /\ cursor \in Nat /\ copies \in [Events -> Nat]
    BY <2>2, IngestionAssumption DEF Working, FeedInv, IngestRun
  <2>5. Lone => /\ \A e \in R : e.at > cursor
                /\ \A e \in Events : copies[e] > 0 => e.at <= cursor
    BY <2>4, Zenon DEF OnceInv, Ahead
  <2> HIDE DEF R
  <2>6. Lone => \A e \in R : copies[e] = 0
    <3> SUFFICES ASSUME Lone, NEW e \in R PROVE copies[e] = 0
      BY Zenon
    <3>1. e.at \in Nat /\ e.at > cursor /\ copies[e] \in Nat /\ (copies[e] > 0 => e.at <= cursor)
      BY <2>4, <2>5, OnItsDate, Zenon
    <3> QED
      BY <2>4, <3>1
  <2>7. feedSource # "arxiv" \/ "overlap" \notin feedFaults => \A e \in Events : copies'[e] <= 1
    <3> SUFFICES ASSUME feedSource # "arxiv" \/ "overlap" \notin feedFaults, NEW e \in Events
                 PROVE  copies'[e] <= 1
      BY Zenon
    <3>1. CASE e \in R
      <4>1. inserted(e) = 1
        BY <2>6, <3>1 DEF inserted
      <4> QED
        BY <2>1, <3>1, <4>1
    <3>2. CASE e \notin R
      BY <2>1, <3>2, Zenon DEF OnceInv
    <3> QED
      BY <3>1, <3>2, Zenon
  <2>8. "overlap" \notin feedFaults => \A i \in Jobs : job'[i].pc = "idle"
    BY <2>3, <2>4, IdleRun, ZenonT(30) DEF OnceInv, Working
  <2>9. Lone => \A e \in Events : copies'[e] > 0 => e.at <= cursor'
    <3> SUFFICES ASSUME Lone, NEW e \in Events, copies'[e] > 0 PROVE e.at <= cursor'
      BY Zenon
    <3>1. e.at \in Nat /\ (e \in R \/ copies[e] > 0)
      BY <2>1, OnItsDate, Zenon
    <3>2. CASE R = {}
      BY <2>1, <2>5, <3>1, <3>2, Zenon
    <3>3. CASE R # {}
      <4>1. PICK g \in R : advanced(R) = g.at /\ \A f \in R : f.at <= g.at
        BY <2>4, <3>3, LatestOf, Zenon
      <4>2. cursor' = g.at /\ g.at \in Nat /\ g.at > cursor
        BY <2>1, <2>4, <2>5, <3>3, <4>1, OnItsDate, Zenon
      <4>3. e \in R => e.at <= g.at
        BY <4>1, Zenon
      <4>4. copies[e] > 0 => e.at <= cursor
        BY <2>5, Zenon
      <4> QED
        BY <2>4, <3>1, <4>2, <4>3, <4>4
    <3> QED
      BY <3>2, <3>3, Zenon
  <2> QED
    BY <2>2, <2>7, <2>8, <2>9, Zenon DEF OnceInv, Working
<1>7. ASSUME NEW j \in Jobs, LoseIngestion(j) PROVE OnceInv'
  BY <1>7, IdleRun, OnceRun, Zenon DEF LoseIngestion
<1> QED
  BY <1>1, <1>2, <1>3, <1>4, <1>5, <1>6, <1>7, ZenonT(30)
     DEF IngestNext, IngestStep, Publish, Revise, NextDate, ingestVars

-----------------------------------------------------------------------------
(* A station has one event per date. *)
LEMMA StationFinite ==
    ASSUME FeedInv, NEW p, NEW S \in SUBSET {e \in published : e.station = p}
    PROVE  IsFiniteSet(S)
<1> DEFINE f == [e \in S |-> e.at]
<1>1. \A e \in S : e \in Events /\ e.at \in Dates /\ e.station = p
  BY OnItsDate, Zenon DEF FeedInv
<1>2. f \in Injection(S, Dates)
  <2>1. f \in [S -> Dates]
    BY <1>1, Zenon
  <2>2. \A e, g \in S : f[e] = f[g] => e = g
    BY <1>1, SameEvent, Zenon
  <2> HIDE DEF f
  <2> QED
    BY <2>1, <2>2, Zenon DEF Injection, IsInjective
<1>3. IsFiniteSet(Dates)
  BY FS_Interval, IngestionAssumption DEF Dates
<1> HIDE DEF f
<1> QED
  BY <1>2, <1>3, FS_Injection, Zenon

LEMMA SubsetSize ==
    ASSUME NEW S, IsFiniteSet(S), NEW T \in SUBSET S
    PROVE  /\ IsFiniteSet(T) /\ Cardinality(T) \in Nat /\ Cardinality(S) \in Nat
           /\ Cardinality(T) <= Cardinality(S)
           /\ Cardinality(T) = Cardinality(S) => T = S
<1>1. IsFiniteSet(T) /\ Cardinality(T) <= Cardinality(S) /\ (Cardinality(S) = Cardinality(T) => S = T)
  BY FS_Subset, Zenon
<1> QED
  BY <1>1, FS_CardinalityType, Zenon

LEMMA MinOfTwo ==
    ASSUME NEW a \in Nat, NEW b \in Nat
    PROVE  Min({a, b}) = IF a <= b THEN a ELSE b
<1>1. \E x \in {a, b} : \A y \in {a, b} : x <= y
  OBVIOUS
<1>2. Min({a, b}) \in {a, b} /\ \A y \in {a, b} : Min({a, b}) <= y
  BY <1>1, Zenon DEF Min
<1> QED
  BY <1>2

(* A page leaves one of at most n events out only for another. *)
LEMMA PageCovers ==
    ASSUME NEW S, IsFiniteSet(S), NEW U \in SUBSET S, NEW n \in Nat, Cardinality(U) <= n,
           NEW A \in SUBSET S, Cardinality(A) = Min({n, Cardinality(S)}),
           NEW e \in U, e \notin A
    PROVE  \E g \in A : g \notin U
<1>1. /\ IsFiniteSet(U) /\ IsFiniteSet(A) /\ Cardinality(U) \in Nat /\ Cardinality(A) \in Nat
      /\ Cardinality(S) \in Nat /\ Cardinality(U) <= Cardinality(S)
  BY SubsetSize, Zenon
<1> SUFFICES ASSUME A \subseteq U PROVE FALSE
  BY Zenon
<1>2. Cardinality(A \cup {e}) = Cardinality(A) + 1
  BY <1>1, FS_AddElement, Zenon
<1>3. A \cup {e} \in SUBSET U
  BY Zenon
<1>4. Cardinality(A \cup {e}) <= Cardinality(U)
  BY <1>1, <1>3, SubsetSize, Zenon
<1>5. Min({n, Cardinality(S)}) = IF n <= Cardinality(S) THEN n ELSE Cardinality(S)
  BY <1>1, MinOfTwo, Zenon
<1> QED
  BY <1>1, <1>2, <1>4, <1>5

(* What a run has seen before its start has rows. *)
LEMMA BehindIsStored ==
    ASSUME FeedInv, Closed(published, copies), NEW c, Past(c, published, copies),
           NEW e \in published, e.at < c \/ (e.at <= c /\ feedSource = "arxiv")
    PROVE  copies[e] > 0
<1>1. e \in Events /\ e.at \in Nat /\ e.at > 0 /\ e.station \in asked
  BY OnItsDate DEF FeedInv
<1>2. c # 0
  BY <1>1
<1>3. PICK f \in published : f.at = c /\ copies[f] > 0
  BY <1>2, Zenon DEF Past
<1>4. f \in Events /\ f.at \in Nat /\ f.station \in asked
  BY OnItsDate, Zenon DEF FeedInv
<1>5. CASE e.at < c
  BY <1>3, <1>5, Zenon DEF Closed
<1>6. CASE e.at = c /\ feedSource = "arxiv"
  <2>1. ~loops(feedSource)
    BY <1>6 DEF loops
  <2>2. PICK p : asked = {p}
    BY <2>1, OneAsked, Zenon
  <2>3. e.station = p /\ f.station = p
    BY <1>1, <1>4, <2>2, Zenon
  <2> QED
    BY <1>1, <1>3, <1>4, <1>6, <2>3, SameEvent, ZenonT(30)
<1> QED
  BY <1>1, <1>3, <1>4, <1>5, <1>6, SMTT(30)

(* An adapter drops only what has a row. *)
LEMMA KeptIsEnough ==
    ASSUME FeedInv, Closed(published, copies), NEW since, Past(since, published, copies),
           NEW A, NEW e \in published, e \in A
    PROVE  e \in Kept(A, since) \/ copies[e] > 0
<1>b. feedSource \in Sources
  BY SourceType, Zenon DEF FeedInv
<1>1. e.at \in Nat /\ since \in Nat
  <2>1. \A f \in published : f.at \in Nat
    BY OnItsDate, Zenon DEF FeedInv
  <2> QED
    BY <2>1 DEF Past
<1>2. CASE feedSource = "usgs"
  BY <1>2 DEF Kept, fetch_recent_usgs_events
<1>3. CASE feedSource = "arxiv"
  <2>1. Kept(A, since) = {x \in A : x.at > since}
    BY <1>3 DEF Kept, fetch_new_arxiv_papers
  <2>2. CASE e.at > since
    BY <2>1, <2>2, Zenon
  <2>3. CASE e.at <= since
    BY <1>3, <2>3, BehindIsStored, ZenonT(30)
  <2> QED
    BY <1>1, <2>2, <2>3
<1>4. CASE feedSource \in {"noaa", "copernicus", "era5", "gdelt"}
  <2>1. Kept(A, since) = {x \in A : x.at >= since}
    BY <1>4 DEF Kept, fetch_recent_noaa_events, fetch_recent_copernicus_events,
                fetch_recent_era5_events, fetch_recent_gdelt_events
  <2>2. CASE e.at >= since
    BY <2>1, <2>2, Zenon
  <2>3. CASE e.at < since
    BY <2>3, BehindIsStored, Zenon
  <2> QED
    BY <1>1, <2>2, <2>3
<1> QED
  BY <1>b, <1>2, <1>3, <1>4 DEF Sources

(* An answer has every event of its station that has no row. *)
LEMMA AnswerComplete ==
    ASSUME FeedInv, CursorInv, NEW p \in asked, NEW since, Past(since, published, copies),
           feedSource = "gdelt" => since = cursor, NEW A \in Responses(p, since)
    PROVE  Complete(A, p, published, copies)
<1> DEFINE S == {e \in published : e.station = p}
           U == {e \in S : copies[e] = 0}
<1>a. Closed(published, copies) /\ Cardinality(Backlog(p)) <= page
  BY Zenon DEF CursorInv
<1>b. feedSource \in Sources
  BY SourceType, Zenon DEF FeedInv
<1>c. /\ copies \in [Events -> Nat] /\ published \subseteq Events /\ today \in Nat
      /\ \A e \in published : e.at \in Nat /\ e.at <= today
  BY OnItsDate, IngestionAssumption DEF FeedInv, Dates
<1>d. since \in Nat
  BY <1>c DEF Past
<1>1. CASE feedSource = "usgs"
  <2>1. A = {e \in S : e.at >= since}
    BY <1>1 DEF Responses, get_recent_earthquakes
  <2>2. ASSUME NEW e \in published, e.at < since PROVE copies[e] > 0
    BY <1>a, <2>2, BehindIsStored, Zenon
  <2> QED
    BY <1>c, <1>d, <2>1, <2>2 DEF Complete
<1>2. CASE feedSource = "era5"
  <2>1. A = {e \in S : e.at \in since .. today}
    BY <1>2, SMTT(30) DEF Responses, get_atmospheric_baseline
  <2>2. ASSUME NEW e \in published, e.at < since PROVE copies[e] > 0
    BY <1>a, <2>2, BehindIsStored, Zenon
  <2> QED
    BY <1>c, <1>d, <2>1, <2>2 DEF Complete
<1>3. CASE feedSource = "gdelt"
  <2> DEFINE M == {e \in S : e.at >= since}
  <2>1. A \in SUBSET M /\ Cardinality(A) = Min({PageSize, Cardinality(M)})
    BY <1>3 DEF Responses, get_hazard_articles
  <2>2. Backlog(p) \in SUBSET S /\ M \in SUBSET Backlog(p)
    BY <1>3, Zenon DEF Backlog
  <2>3. IsFiniteSet(Backlog(p)) /\ IsFiniteSet(M)
    BY <2>2, StationFinite, SubsetSize, Zenon
  <2>4. page = PageSize
    BY <1>3 DEF page
  <2>5. /\ Cardinality(M) <= Cardinality(Backlog(p)) /\ Cardinality(M) \in Nat
        /\ Cardinality(Backlog(p)) \in Nat
    BY <2>2, <2>3, SubsetSize, Zenon
  <2>6. Cardinality(M) <= PageSize /\ PageSize \in Nat
    BY <1>a, <2>4, <2>5, IngestionAssumption
  <2>7. Min({PageSize, Cardinality(M)}) = Cardinality(M)
    <3>1. Min({PageSize, Cardinality(M)}) = IF PageSize <= Cardinality(M) THEN PageSize ELSE Cardinality(M)
      BY <2>5, <2>6, MinOfTwo, Zenon
    <3> QED
      BY <2>5, <2>6, <3>1
  <2>8. A = M
    BY <2>1, <2>3, <2>7, SubsetSize, ZenonT(30)
  <2>9. ASSUME NEW e \in published, e.at < since PROVE copies[e] > 0
    BY <1>a, <2>9, BehindIsStored, Zenon
  <2> QED
    BY <1>c, <1>d, <2>8, <2>9 DEF Complete
<1>4. ASSUME NEW n \in Nat, page = n, A \in Newest(S, n), feedSource \notin {"gdelt", "arxiv"}
      PROVE  Complete(A, p, published, copies)
  <2>1. Backlog(p) = U
    BY <1>4, Zenon DEF Backlog
  <2>2. Cardinality(U) <= n /\ U \in SUBSET S
    BY <1>a, <1>4, <2>1, Zenon
  <2>3. IsFiniteSet(S)
    BY StationFinite, Zenon
  <2>4. ASSUME NEW e \in published, e.station = p, e \notin A, ~(copies[e] > 0) PROVE FALSE
    <3>1. e \in U
      BY <1>c, <2>4, SMTT(30)
    <3> HIDE DEF U, S
    <3>2. PICK g \in A : g \notin U
      BY <1>4, <2>2, <2>3, <2>4, <3>1, PageCovers, Zenon DEF Newest
    <3>3. g \in S
      BY <1>4, Zenon DEF Newest
    <3>4. g \in published /\ g.station = p /\ copies[g] > 0 /\ g \in Events /\ e \in Events
      <4>1. g \in published /\ g.station = p
        BY <3>3, Zenon DEF S
      <4>2. copies[g] # 0
        BY <3>2, <3>3, Zenon DEF U
      <4> QED
        BY <1>c, <4>1, <4>2
    <3>7. e.at <= g.at
      BY <1>4, <2>2, <2>4, <3>1, Zenon DEF Newest
    <3>5. CASE e.at = g.at
      BY <2>4, <3>4, <3>5, SameEvent, Zenon
    <3>6. CASE e.at < g.at
      BY <1>a, <2>4, <3>4, <3>6, Zenon DEF Closed
    <3> QED
      BY <1>c, <3>4, <3>5, <3>6, <3>7
  <2> QED
    BY <2>4, Zenon DEF Complete
<1>5. CASE feedSource = "noaa"
  <2>1. page = 1 /\ A \in Newest(S, 1) /\ feedSource \notin {"gdelt", "arxiv"}
    BY <1>5 DEF page, Responses, get_water_temperature
  <2> HIDE DEF S
  <2> QED
    BY <1>4, <2>1
<1>6. CASE feedSource = "copernicus"
  <2>1. page = PageSize /\ A \in Newest(S, PageSize) /\ feedSource \notin {"gdelt", "arxiv"}
    BY <1>6 DEF page, Responses, get_wildfire_products
  <2> HIDE DEF S
  <2> QED
    BY <1>4, <2>1, IngestionAssumption
\* What is on the page although it has rows was updated before all that has none.
<1>7. CASE feedSource = "arxiv"
  <2>1. /\ A \in SUBSET S /\ Cardinality(A) = Min({PageSize, Cardinality(S)})
        /\ \A e \in A, f \in S \ A : updated[f] <= updated[e]
    BY <1>7 DEF Responses, fetch_arxiv
  <2>2. Cardinality(Backlog(p)) <= PageSize /\ PageSize \in Nat
    BY <1>a, <1>7, IngestionAssumption DEF page
  <2>3. Backlog(p) \in SUBSET S /\ IsFiniteSet(S)
    BY StationFinite, Zenon DEF Backlog
  <2>4. ASSUME NEW e \in published, e.station = p, e \notin A, ~(copies[e] > 0) PROVE FALSE
    <3>1. e \in S /\ copies[e] = 0
      BY <1>c, <2>4, SMTT(30)
    <3>2. e \in Backlog(p)
      BY <3>1, Zenon DEF Backlog
    <3>3. PICK g \in A : g \notin Backlog(p)
      <4> HIDE DEF S
      <4> QED
        BY <2>1, <2>2, <2>3, <2>4, <3>2, PageCovers, Zenon
    <3>4. updated[e] <= updated[g] /\ g \in S
      BY <2>1, <2>4, <3>1, <3>3, Zenon
    <3>5. g \in Backlog(p)
      BY <1>7, <3>1, <3>4, Zenon DEF Backlog
    <3> QED
      BY <3>3, <3>5, Zenon
  <2> QED
    BY <2>4, Zenon DEF Complete
<1> QED
  BY <1>b, <1>1, <1>2, <1>3, <1>5, <1>6, <1>7 DEF Sources

LEMMA PageSizes == page \in Nat /\ page > 0
BY IngestionAssumption DEF page

LEMMA IdleCovers == \A P, C, d : RunCovers(Idle, P, C, d)
<1>1. "idle" \notin {"fetch", "dedup", "commit"}
  OBVIOUS
<1> QED
  BY <1>1, IdleRun, Zenon DEF RunCovers, Past

LEMMA CursorInitInv == IngestInit => CursorInv
<1> SUFFICES ASSUME IngestInit PROVE CursorInv
  OBVIOUS
<1>1. published = {} /\ cursor = 0
  BY Zenon DEF IngestInit
<1>2. \A j \in Jobs : job[j] = Idle
  BY Zenon DEF IngestInit
<1>3. \A p \in Stations : Covered(remembered[p].value, published, copies)
  BY <1>1, Zenon DEF Covered
<1>4. ASSUME NEW p PROVE Cardinality(Backlog(p)) <= page
  <2>1. Backlog(p) = {}
    BY <1>1, Zenon DEF Backlog
  <2>2. Cardinality({}) = 0
    BY FS_EmptySet, Zenon
  <2> QED
    BY <2>1, <2>2, PageSizes
<1>5. Closed(published, copies) /\ Past(cursor, published, copies)
  BY <1>1, Zenon DEF Closed, Past
<1>6. \A j \in Jobs : RunCovers(job[j], published, copies, today)
  BY <1>2, IdleCovers, Zenon
<1>7. \A j \in Jobs : ~Working(j)
  BY <1>2, IdleRun, Zenon DEF Working
<1> QED
  BY <1>3, <1>4, <1>5, <1>6, <1>7, Zenon DEF CursorInv

(* A step of one run that leaves the rows and upstream alone. *)
LEMMA CursorRun ==
    ASSUME FeedInv, CursorInv, NEW j \in Jobs, NEW t \in IngestRun, job' = [job EXCEPT ![j] = t],
           UNCHANGED <<feedSource, feedFaults, today, published, updated, copies, cursor>>,
           RunCovers(t, published, copies, today),
           feedSource = "gdelt" /\ t.pc # "idle" => t.since = cursor /\ \A e \in t.records : e.at >= cursor,
           ~loops(feedSource) => \A p \in Stations : Covered(remembered'[p].value, published, copies)
    PROVE  CursorInv'
<1>1. job'[j] = t /\ \A i \in Jobs : i # j => job'[i] = job[i]
  BY RunChanged, Zenon DEF FeedInv
<1>2. /\ feedSource' = feedSource /\ today' = today /\ published' = published
      /\ updated' = updated /\ copies' = copies /\ cursor' = cursor
  BY Zenon
<1>3. asked' = asked /\ page' = page /\ loops(feedSource)' = loops(feedSource)
  BY <1>2, Zenon DEF asked, loops, page
<1>4. \A p : Backlog(p)' = Backlog(p)
  BY <1>2, Zenon DEF Backlog
<1>5. ASSUME NEW i \in Jobs PROVE RunCovers(job[i], published, copies, today)'
  <2>1. RunCovers(job'[i], published, copies, today)
    BY <1>1, Zenon DEF CursorInv
  <2> QED
    BY <1>2, <1>3, <2>1, Zenon DEF RunCovers, Past, Covered
<1>6. /\ Closed(published, copies)' /\ Past(cursor, published, copies)'
      /\ \A p \in asked : Cardinality(Backlog(p)') <= page
  BY <1>2, <1>4, Zenon DEF CursorInv, Closed, Past
<1>7. feedSource = "gdelt" => \A i \in Jobs : job'[i].pc # "idle" =>
         job'[i].since = cursor /\ \A e \in job'[i].records : e.at >= cursor
  BY <1>1, Zenon DEF CursorInv, Working
<1>8. ~loops(feedSource) => \A p \in Stations : Covered(remembered[p].value, published, copies)'
  BY <1>2, Zenon DEF Covered
<1> QED
  BY <1>2, <1>3, <1>5, <1>6, <1>7, <1>8, ZenonT(30) DEF CursorInv, Working

LEMMA AnsweredCovers ==
    ASSUME FeedInv, CursorInv, NEW j \in Jobs, job[j].pc = "fetch", NEW p \in job[j].todo,
           NEW K \in SUBSET published,
           \/ Complete(K, p, published, copies)
           \/ ~loops(feedSource) /\ Covered(K, published, copies)
    PROVE  RunCovers(Next_station(job[j], p, K), published, copies, today)
<1> DEFINE m == job[j]
           t == Next_station(m, p, K)
<1> SUFFICES RunCovers(t, published, copies, today)
  OBVIOUS
<1>1. /\ m \in IngestRun /\ m.pc = "fetch" /\ p \in m.todo /\ K \in SUBSET Events
      /\ m.records \subseteq published
  BY Zenon DEF FeedInv
<1>2. /\ Past(m.since, published, copies) /\ m.todo \subseteq asked
      /\ m.todo = asked => m.records = {}
      /\ \A e \in published : e.station \notin m.todo /\ e.at < today
                                 => e \in m.records \/ copies[e] > 0
  BY Zenon DEF CursorInv, RunCovers
<1>3. \A e, f \in published : e.at < f.at => e.at < today
  <2>1. \A e \in published : e.at \in Nat /\ e.at <= today
    BY OnItsDate, Zenon DEF FeedInv
  <2>2. today \in Nat
    BY DEF FeedInv, Dates
  <2> QED
    BY <2>1, <2>2
<1>4. \/ /\ m.todo \ {p} # {} /\ t.pc = "fetch" /\ t.since = m.since
         /\ t.todo = m.todo \ {p} /\ t.records = m.records \cup K
      \/ /\ m.todo \ {p} = {} /\ t.pc = (IF feedSource = "arxiv" THEN "dedup" ELSE "commit")
         /\ t.since = m.since /\ t.records = m.records \cup K
      \/ t = Idle
  BY <1>1, AfterAnswer, Zenon
<1> HIDE DEF m, t
<1>5. ~loops(feedSource) => m.todo = asked /\ asked = {p}
  <2> SUFFICES ASSUME ~loops(feedSource) PROVE m.todo = asked /\ asked = {p}
    OBVIOUS
  <2>1. PICK q : asked = {q}
    BY OneAsked, Zenon
  <2> QED
    BY <1>1, <1>2, <2>1, ZenonT(30)
<1>6. CASE /\ m.todo \ {p} # {} /\ t.pc = "fetch" /\ t.since = m.since
           /\ t.todo = m.todo \ {p} /\ t.records = m.records \cup K
  <2>1. Complete(K, p, published, copies)
    BY <1>5, <1>6, Zenon
  <2>2. "fetch" \notin {"dedup", "commit"}
    OBVIOUS
  <2>3. t.todo # {} /\ t.todo \subseteq asked /\ t.todo # asked
    BY <1>1, <1>2, <1>6, Zenon
  <2>4. ASSUME NEW e \in published, e.station \notin t.todo, e.at < today
        PROVE  e \in t.records \/ copies[e] > 0
    BY <1>2, <1>6, <2>1, <2>4, Zenon DEF Complete
  <2> QED
    BY <1>2, <1>6, <2>2, <2>3, <2>4, ZenonT(30) DEF RunCovers
<1>7. CASE /\ m.todo \ {p} = {} /\ t.pc = (IF feedSource = "arxiv" THEN "dedup" ELSE "commit")
           /\ t.since = m.since /\ t.records = m.records \cup K
  <2>1. "fetch" \notin {"dedup", "commit"}
    OBVIOUS
  <2>2. CASE Complete(K, p, published, copies)
    <3>1. ASSUME NEW e \in published, NEW f \in t.records, e.at < f.at
          PROVE  e \in t.records \/ copies[e] > 0
      <4>1. e.at < today
        BY <1>1, <1>3, <1>7, <3>1, Zenon
      <4>2. e.station \notin m.todo \/ e.station = p
        BY <1>7, Zenon
      <4> QED
        BY <1>2, <1>7, <2>2, <4>1, <4>2, ZenonT(30) DEF Complete
    <3>2. Covered(t.records, published, copies)
      BY <3>1, Zenon DEF Covered
    <3> QED
      BY <1>2, <1>7, <2>1, <3>2, Zenon DEF RunCovers
  <2>3. CASE ~loops(feedSource) /\ Covered(K, published, copies)
    <3>1. t.records = K
      BY <1>2, <1>5, <1>7, <2>3, Zenon
    <3> QED
      BY <1>2, <1>7, <2>1, <2>3, <3>1, Zenon DEF RunCovers
  <2> QED
    BY <2>2, <2>3, Zenon
<1>8. CASE t = Idle
  BY <1>8, IdleCovers, Zenon
<1> QED
  BY <1>4, <1>6, <1>7, <1>8, ZenonT(30)

LEMMA CursorAnswered ==
    ASSUME FeedInv, CursorInv, NEW j \in Jobs, job[j].pc = "fetch", NEW p \in job[j].todo,
           NEW A \in SUBSET published, NEW K \in SUBSET Kept(A, job[j].since), Answered(j, p, K),
           UNCHANGED <<feedSource, feedFaults, today, published, updated, copies, cursor>>,
           \/ Complete(K, p, published, copies)
           \/ ~loops(feedSource) /\ Covered(K, published, copies),
           ~loops(feedSource) => \A q \in Stations : Covered(remembered'[q].value, published, copies)
    PROVE  CursorInv'
<1> DEFINE t == Next_station(job[j], p, K)
<1>1. K \in SUBSET published
  BY SourceType, KeptIsPart, Zenon DEF FeedInv
<1>2. RunCovers(t, published, copies, today)
  BY <1>1, AnsweredCovers, Zenon
<1>3. job' = [job EXCEPT ![j] = t]
  BY Zenon DEF Answered, Next_station
<1>4. job[j] \in IngestRun /\ K \in SUBSET Events
  BY <1>1, Zenon DEF FeedInv
<1>5. t \in IngestRun /\ (t = Idle \/ (t.since = job[j].since /\ t.records = job[j].records \cup K))
  BY <1>4, AfterAnswer, Zenon
<1>6. ASSUME feedSource = "gdelt"
      PROVE  job[j].since = cursor /\ \A e \in job[j].records \cup K : e.at >= cursor
  <2>1. job[j].since = cursor /\ \A e \in job[j].records : e.at >= cursor
    <3>1. Working(j)
      BY DEF Working
    <3> QED
      BY <1>6, <3>1, Zenon DEF CursorInv
  <2>2. Kept(A, cursor) = {e \in A : e.at >= cursor}
    BY <1>6 DEF Kept, fetch_recent_gdelt_events
  <2> QED
    BY <2>1, <2>2, Zenon
<1> HIDE DEF t
<1>7. feedSource = "gdelt" /\ t.pc # "idle" => t.since = cursor /\ \A e \in t.records : e.at >= cursor
  BY <1>5, <1>6, IdleRun, Zenon
<1> QED
  BY <1>2, <1>3, <1>5, <1>7, CursorRun, ZenonT(30)

(* The new event is as new as any, and has no row. *)
LEMMA CursorPublish ==
    ASSUME FeedInv, CursorInv, Steady, NEW p \in Stations, Publish(p)
    PROVE  CursorInv'
<1>0. PICK d \in NextDates : /\ [station |-> p, at |-> d] \notin published
                             /\ published' = published \cup {[station |-> p, at |-> d]}
  BY Zenon DEF Publish
<1> DEFINE e == [station |-> p, at |-> d]
<1>a. /\ d \in 1 .. today /\ \A f \in published : f.at <= d
      /\ d < today => BetweenRounds
  <2>1. "late" \notin feedFaults
    BY DEF Steady, Ordinary
  <2> QED
    BY <2>1, NextDatesOK, Zenon
<1>1. e \notin published /\ published' = published \cup {e} /\ p \in asked
  BY <1>0, Zenon DEF Publish
<1>2. /\ feedSource' = feedSource /\ today' = today /\ copies' = copies /\ cursor' = cursor
      /\ updated' = updated /\ remembered' = remembered /\ job' = job
  BY Zenon DEF Publish
<1>3. e \in Events /\ e.at = d /\ e.station = p
  BY <1>a, IngestionAssumption DEF FeedInv, Events, Dates
<1> HIDE DEF e
<1>4. ~(copies[e] > 0)
  BY <1>1, <1>3, Zenon DEF FeedInv
<1>5. \A f \in published : ~(d < f.at) /\ f.at \in Nat
  BY <1>a, OnItsDate DEF FeedInv, Dates
<1>6. asked' = asked /\ page' = page /\ loops(feedSource)' = loops(feedSource)
  BY <1>2, Zenon DEF asked, loops, page
<1>7. ~(d < d)
  BY <1>a
<1>8. Closed(published, copies)'
  BY <1>1, <1>2, <1>3, <1>4, <1>5, Zenon DEF CursorInv, Closed
<1>9. ASSUME NEW c, Past(c, published, copies) PROVE Past(c, published', copies)
  BY <1>1, <1>9, Zenon DEF Past
<1>10. ASSUME NEW A \in SUBSET published, Covered(A, published, copies)
       PROVE  Covered(A, published', copies)
  BY <1>1, <1>3, <1>5, <1>10, Zenon DEF Covered
<1>11. ASSUME NEW j \in Jobs PROVE RunCovers(job[j], published', copies, today)
  <2>1. RunCovers(job[j], published, copies, today) /\ job[j].records \in SUBSET published
    BY Zenon DEF CursorInv, FeedInv
  <2>2. job[j].pc = "fetch" /\ d < today => e.station \in job[j].todo
    BY <1>a, <1>1, <1>3, <2>1, Zenon DEF BetweenRounds, RunCovers
  <2>3. Past(job[j].since, published', copies)
    BY <1>9, <2>1, Zenon DEF RunCovers
  <2>4. job[j].pc \in {"dedup", "commit"} => Covered(job[j].records, published', copies)
    BY <1>10, <2>1, Zenon DEF RunCovers
  <2>5. ASSUME job[j].pc = "fetch", NEW f \in published', f.station \notin job[j].todo, f.at < today
        PROVE  f \in job[j].records \/ copies[f] > 0
    BY <1>1, <1>3, <2>1, <2>2, <2>5, Zenon DEF RunCovers
  <2> QED
    BY <2>1, <2>3, <2>4, <2>5, Zenon DEF RunCovers
<1>12. \A j \in Jobs : RunCovers(job[j], published, copies, today)'
  BY <1>2, <1>6, <1>11, Zenon DEF RunCovers, Past, Covered
<1>13. ~loops(feedSource) => \A q \in Stations : Covered(remembered[q].value, published, copies)'
  <2>1. \A q \in Stations : remembered[q].value \in SUBSET published
    BY Zenon DEF FeedInv
  <2>2. ~loops(feedSource) => \A q \in Stations : Covered(remembered[q].value, published', copies)
    BY <1>10, <2>1, Zenon DEF CursorInv
  <2> QED
    BY <1>2, <2>2, Zenon DEF Covered
<1>14. ASSUME NEW q \in asked PROVE Cardinality(Backlog(q)') <= page
  <2>1. CASE q # p
    <3>1. Backlog(q)' = Backlog(q)
      BY <1>1, <1>2, <1>3, <2>1, Zenon DEF Backlog
    <3> QED
      BY <3>1, Zenon DEF CursorInv
  <2>2. CASE q = p
    BY <1>6, <2>2 DEF Publish, FitsPage, Steady, Ordinary
  <2> QED
    BY <2>1, <2>2, Zenon
<1>15. Past(cursor, published, copies)'
  BY <1>2, <1>9, Zenon DEF CursorInv, Past
<1> QED
  BY <1>2, <1>6, <1>8, <1>12, <1>13, <1>14, <1>15, ZenonT(30) DEF CursorInv, Working

(* A new version of a paper only changes the order of the list. *)
LEMMA CursorRevise ==
    ASSUME FeedInv, CursorInv, Steady, NEW p \in Stations, Revise(p)
    PROVE  CursorInv'
<1>1. /\ feedSource' = feedSource /\ today' = today /\ copies' = copies /\ cursor' = cursor
      /\ published' = published /\ remembered' = remembered /\ job' = job
      /\ feedSource = "arxiv"
  BY Zenon DEF Revise
<1>2. asked' = asked /\ page' = page /\ loops(feedSource)' = loops(feedSource)
  BY <1>1, Zenon DEF asked, loops, page
<1>3. p \in asked /\ Cardinality(Backlog(p)') <= page
  <2>1. p \in asked
    BY Zenon DEF Revise, FeedInv
  <2> QED
    BY <1>2, <2>1 DEF Revise, FitsPage, Steady, Ordinary
<1>4. \A q \in asked : Cardinality(Backlog(q)') <= page
  <2>1. ~loops(feedSource)
    BY <1>1 DEF loops
  <2>2. PICK q : asked = {q}
    BY <2>1, OneAsked, Zenon
  <2> QED
    BY <1>3, <2>2, Zenon
<1>5. \A j \in Jobs : RunCovers(job[j], published, copies, today)'
  BY <1>1, <1>2, Zenon DEF CursorInv, RunCovers, Past, Covered
<1>6. /\ Closed(published, copies)' /\ Past(cursor, published, copies)'
      /\ ~loops(feedSource) => \A q \in Stations : Covered(remembered[q].value, published, copies)'
  BY <1>1, Zenon DEF CursorInv, Closed, Past, Covered
<1> QED
  BY <1>1, <1>2, <1>4, <1>5, <1>6, ZenonT(30) DEF CursorInv, Working

LEMMA CursorDate ==
    ASSUME FeedInv, CursorInv, Steady, NextDate
    PROVE  CursorInv'
<1>1. /\ feedSource' = feedSource /\ published' = published /\ copies' = copies /\ cursor' = cursor
      /\ updated' = updated /\ remembered' = remembered /\ job' = job
      /\ \A j \in Jobs : job[j].pc = "fetch" => job[j].todo \in {{}, asked}
  BY DEF NextDate, BetweenRounds, Steady, Ordinary
<1>2. asked' = asked /\ page' = page /\ loops(feedSource)' = loops(feedSource)
  BY <1>1, Zenon DEF asked, loops, page
<1>3. \A p : Backlog(p)' = Backlog(p)
  BY <1>1, Zenon DEF Backlog
<1>4. ASSUME NEW j \in Jobs PROVE RunCovers(job[j], published, copies, today')
  <2>1. RunCovers(job[j], published, copies, today)
    BY Zenon DEF CursorInv
  <2>2. job[j].pc = "fetch" => job[j].todo = asked
    BY <1>1, <2>1, Zenon DEF RunCovers
  <2>3. \A e \in published : e.station \in asked
    BY Zenon DEF FeedInv
  <2> QED
    BY <2>1, <2>2, <2>3, Zenon DEF RunCovers
<1>5. \A j \in Jobs : RunCovers(job[j], published, copies, today)'
  BY <1>1, <1>2, <1>4, Zenon DEF RunCovers, Past, Covered
<1>6. /\ Closed(published, copies)' /\ Past(cursor, published, copies)'
      /\ \A p \in asked : Cardinality(Backlog(p)') <= page
      /\ ~loops(feedSource) => \A p \in Stations : Covered(remembered[p].value, published, copies)'
  BY <1>1, <1>3, Zenon DEF CursorInv, Closed, Past, Covered
<1> QED
  BY <1>1, <1>2, <1>5, <1>6, ZenonT(30) DEF CursorInv, Working

LEMMA CursorCommit ==
    ASSUME FeedInv, OnceInv, CursorInv, Steady, NEW j \in Jobs, CommitIngestion(j)
    PROVE  CursorInv'
<1> DEFINE R == job[j].records
<1>1. /\ copies' = [e \in Events |-> IF e \in R THEN inserted(e) ELSE copies[e]]
      /\ cursor' = IF R = {} THEN cursor ELSE advanced(R)
      /\ job[j].pc = "commit" /\ job' = [job EXCEPT ![j] = Idle]
  BY Zenon DEF CommitIngestion
<1>2. /\ feedSource' = feedSource /\ today' = today /\ published' = published
      /\ updated' = updated /\ remembered' = remembered
  BY Zenon DEF CommitIngestion
<1>3. R \subseteq published /\ R \in SUBSET Events
  BY Zenon DEF FeedInv
<1>4. Covered(R, published, copies)
  BY <1>1, Zenon DEF CursorInv, RunCovers
<1>5. feedSource = "gdelt" => \A e \in R : e.at >= cursor
  <2>1. Working(j)
    BY <1>1 DEF Working
  <2> QED
    BY <2>1, Zenon DEF CursorInv
<1>6. job'[j] = Idle /\ \A i \in Jobs : i # j => job'[i] = job[i]
  BY <1>1, IdleRun, RunChanged, Zenon DEF FeedInv
<1>7. feedSource = "gdelt" => \A i \in Jobs : job'[i] = Idle \/ job'[i].pc = "idle"
  <2> SUFFICES ASSUME feedSource = "gdelt", NEW i \in Jobs, i # j PROVE job[i].pc = "idle"
    BY <1>6, Zenon
  <2>1. Working(j) /\ "overlap" \notin feedFaults
    BY <1>1 DEF Working, Steady
  <2> QED
    BY <2>1, Zenon DEF OnceInv, Working
<1> HIDE DEF R
<1>8. \A e \in Events : copies'[e] > 0 <=> e \in R \/ copies[e] > 0
  <2>1. \A e \in Events : inserted(e) > 0 /\ copies[e] \in Nat
    BY DEF inserted, FeedInv
  <2> QED
    BY <1>1, <2>1, Zenon
<1>9. \A e \in published : copies'[e] > 0 <=> e \in R \/ copies[e] > 0
  BY <1>8, Zenon DEF FeedInv
<1>10. Closed(published, copies')
  BY <1>4, <1>9, Zenon DEF CursorInv, Closed, Covered
<1>11. ASSUME NEW c, Past(c, published, copies) PROVE Past(c, published, copies')
  BY <1>9, <1>11, Zenon DEF Past
<1>12. ASSUME NEW A, Covered(A, published, copies) PROVE Covered(A, published, copies')
  BY <1>9, <1>12, Zenon DEF Covered
<1>13. Past(cursor', published, copies')
  <2>1. CASE R = {}
    BY <1>1, <1>11, <2>1, Zenon DEF CursorInv
  <2>2. CASE R # {}
    <3>1. PICK e \in R : advanced(R) = e.at
      BY <1>3, <2>2, LatestOf, Zenon
    <3>2. e \in published /\ copies'[e] > 0 /\ e.at = cursor'
      BY <1>1, <1>3, <1>9, <2>2, <3>1, Zenon
    <3> QED
      BY <3>2, Zenon DEF Past
  <2> QED
    BY <2>1, <2>2, Zenon
<1>14. ASSUME NEW i \in Jobs PROVE RunCovers(job'[i], published, copies', today)
  <2>1. CASE i = j
    BY <1>6, <2>1, IdleCovers, Zenon
  <2>2. CASE i # j
    <3>1. job'[i] = job[i] /\ RunCovers(job[i], published, copies, today)
      BY <1>6, <2>2, Zenon DEF CursorInv
    <3>2. RunCovers(job[i], published, copies', today)
      BY <1>9, <1>11, <1>12, <3>1, Zenon DEF RunCovers
    <3> QED
      BY <3>1, <3>2, Zenon
  <2> QED
    BY <2>1, <2>2, Zenon
<1>15. asked' = asked /\ page' = page /\ loops(feedSource)' = loops(feedSource)
  BY <1>2, Zenon DEF asked, loops, page
<1>16. \A i \in Jobs : RunCovers(job[i], published, copies, today)'
  BY <1>2, <1>14, <1>15, Zenon DEF RunCovers, Past, Covered
<1>17. ~loops(feedSource) => \A p \in Stations : Covered(remembered[p].value, published, copies)'
  <2>1. ~loops(feedSource) => \A p \in Stations : Covered(remembered[p].value, published, copies')
    BY <1>12, Zenon DEF CursorInv
  <2> QED
    BY <1>2, <2>1, Zenon DEF Covered
<1>18. feedSource = "gdelt" => cursor <= cursor'
  <2>1. cursor \in Nat
    BY IngestionAssumption DEF FeedInv
  <2>2. CASE R = {}
    BY <1>1, <2>1, <2>2
  <2>3. CASE R # {}
    <3>1. PICK e \in R : advanced(R) = e.at
      BY <1>3, <2>3, LatestOf, Zenon
    <3>2. e.at \in Nat
      BY <1>3, OnItsDate, Zenon
    <3> QED
      BY <1>1, <1>5, <2>1, <2>3, <3>1, <3>2, SMTT(30)
  <2> QED
    BY <2>2, <2>3, Zenon
<1>19. ASSUME NEW p \in asked PROVE Cardinality(Backlog(p)') <= page
  <2>1. ASSUME NEW e \in published, copies'[e] = 0 PROVE copies[e] = 0
    <3>1. copies[e] \in Nat /\ ~(copies'[e] > 0)
      BY <2>1 DEF FeedInv
    <3> QED
      BY <1>9, <3>1
  <2>2. ASSUME NEW e \in published, feedSource = "gdelt", e.at >= cursor' PROVE e.at >= cursor
    <3>1. e.at \in Int /\ cursor \in Int /\ cursor' \in Int
      <4>1. \A x \in published : x.at \in Int
        BY OnItsDate DEF FeedInv
      <4> QED
        BY <1>13, <4>1 DEF FeedInv, Past
    <3> QED
      BY <1>18, <2>2, <3>1
  <2>3. Backlog(p)' \in SUBSET Backlog(p)
    BY <1>2, <2>1, <2>2, Zenon DEF Backlog
  <2>4. Backlog(p) \in SUBSET {x \in published : x.station = p}
    BY Zenon DEF Backlog
  <2>5. IsFiniteSet(Backlog(p))
    BY <2>4, StationFinite, Zenon
  <2>6. /\ Cardinality(Backlog(p)') <= Cardinality(Backlog(p))
        /\ Cardinality(Backlog(p)') \in Nat /\ Cardinality(Backlog(p)) \in Nat
    BY <2>3, <2>5, SubsetSize, Zenon
  <2>7. Cardinality(Backlog(p)) <= page
    BY Zenon DEF CursorInv
  <2> QED
    BY <2>6, <2>7, PageSizes
<1>20. feedSource = "gdelt" => \A i \in Jobs : ~Working(i)'
  BY <1>7, IdleRun, Zenon DEF Working
<1>21. Closed(published, copies)' /\ Past(cursor, published, copies)'
  BY <1>2, <1>10, <1>13, Zenon DEF Closed, Past
<1> QED
  BY <1>2, <1>15, <1>16, <1>17, <1>19, <1>20, <1>21, Zenon DEF CursorInv

LEMMA CursorNextInv == FeedInv /\ OnceInv /\ CursorInv /\ Steady /\ [IngestNext]_ingestVars => CursorInv'
<1> SUFFICES ASSUME FeedInv, OnceInv, CursorInv, Steady, [IngestNext]_ingestVars PROVE CursorInv'
  OBVIOUS
<1>a. /\ Closed(published, copies)
      /\ ~loops(feedSource) => \A q \in Stations : Covered(remembered[q].value, published, copies)
      /\ \A j \in Jobs : RunCovers(job[j], published, copies, today)
  BY Zenon DEF CursorInv
<1>b. feedSource \in Sources
  BY SourceType, Zenon DEF FeedInv
<1>1. ASSUME NEW j \in Jobs, StartIngestion(j) PROVE CursorInv'
  <2> DEFINE t == [Idle EXCEPT !.pc = "fetch", !.since = cursor, !.todo = asked]
  <2>1. t \in IngestRun /\ t.pc = "fetch" /\ t.since = cursor /\ t.todo = asked /\ t.records = {}
    BY IdleRun, AskedStations DEF IngestRun, FeedInv, Idle
  <2>2. /\ job' = [job EXCEPT ![j] = t]
        /\ UNCHANGED <<feedSource, feedFaults, today, published, updated, copies, cursor, remembered>>
    BY <1>1, Zenon DEF StartIngestion
  <2> HIDE DEF t
  <2>3. asked # {}
    <3>1. CASE loops(feedSource)
      BY <3>1, IngestionAssumption, Zenon DEF asked
    <3>2. CASE ~loops(feedSource)
      BY <3>2, OneAsked, Zenon
    <3> QED
      BY <3>1, <3>2, Zenon
  <2>4. "fetch" \notin {"dedup", "commit"}
    OBVIOUS
  <2>5. RunCovers(t, published, copies, today)
    BY <2>1, <2>3, <2>4, Zenon DEF RunCovers, CursorInv, FeedInv
  <2> QED
    BY <1>a, <2>1, <2>2, <2>5, CursorRun, Zenon
<1>2. ASSUME NEW j \in Jobs, FetchStation(j) PROVE CursorInv'
  <2> DEFINE since == job[j].since
  <2>1. PICK p \in job[j].todo : \E A \in Responses(p, since) :
          /\ Answered(j, p, Kept(A, since))
          /\ \/ remembered' = [remembered EXCEPT ![p] = [key |-> cache_key(since), value |-> A]]
             \/ UNCHANGED remembered
    BY <1>2, Zenon DEF FetchStation
  <2>2. PICK A \in Responses(p, since) :
          /\ Answered(j, p, Kept(A, since))
          /\ \/ remembered' = [remembered EXCEPT ![p] = [key |-> cache_key(since), value |-> A]]
             \/ UNCHANGED remembered
    BY <2>1, Zenon
  <2>3. /\ job[j].pc = "fetch"
        /\ UNCHANGED <<feedSource, feedFaults, today, published, updated, copies, cursor>>
    BY <1>2, Zenon DEF FetchStation
  <2>4. A \in SUBSET published
    BY <1>b, Answers, Zenon
  <2>5. p \in asked /\ Past(since, published, copies)
    BY <1>a, <2>3, Zenon DEF RunCovers
  <2>6. feedSource = "gdelt" => since = cursor
    <3>1. Working(j)
      BY <2>3 DEF Working
    <3> QED
      BY <3>1, Zenon DEF CursorInv
  <2>7. Complete(A, p, published, copies)
    BY <2>5, <2>6, AnswerComplete, Zenon
  <2>8. Complete(Kept(A, since), p, published, copies)
    <3>1. ASSUME NEW e \in published, e.station = p PROVE e \in Kept(A, since) \/ copies[e] > 0
      <4>1. e \in A \/ copies[e] > 0
        BY <2>7, <3>1, Zenon DEF Complete
      <4> QED
        BY <1>a, <2>5, <4>1, KeptIsEnough, Zenon
    <3> QED
      BY <3>1, Zenon DEF Complete
  <2>9. ASSUME ~loops(feedSource), NEW q \in Stations
        PROVE  Covered(remembered'[q].value, published, copies)
    <3>1. asked = {p}
      <4>1. PICK r : asked = {r}
        BY <2>9, OneAsked, Zenon
      <4> QED
        BY <2>5, <4>1, Zenon
    <3>2. \A e \in published : e \in A \/ copies[e] > 0
      BY <2>7, <3>1, Zenon DEF FeedInv, Complete
    <3>3. Covered(A, published, copies)
      BY <3>2, Zenon DEF Covered
    <3>4. remembered'[q].value \in {A, remembered[q].value}
      <4>1. CASE UNCHANGED remembered
        BY <4>1, Zenon
      <4>2. CASE remembered' = [remembered EXCEPT ![p] = [key |-> cache_key(since), value |-> A]]
        <5>1. q = p => remembered'[q] = [key |-> cache_key(since), value |-> A]
          BY <4>2, Zenon DEF FeedInv
        <5>2. q # p => remembered'[q] = remembered[q]
          BY <4>2, Zenon DEF FeedInv
        <5>3. [key |-> cache_key(since), value |-> A].value = A
          BY Zenon
        <5> HIDE DEF since
        <5> QED
          BY <5>1, <5>2, <5>3, Zenon
      <4> QED
        BY <2>2, <4>1, <4>2, Zenon
    <3> QED
      BY <1>a, <2>9, <3>3, <3>4, Zenon
  <2>10. Kept(A, since) \in SUBSET Kept(A, job[j].since)
    BY Zenon
  <2> QED
    BY <2>2, <2>3, <2>4, <2>8, <2>9, <2>10, CursorAnswered, ZenonT(30)
<1>3. ASSUME NEW j \in Jobs, StationUnavailable(j) PROVE CursorInv'
  <2> DEFINE since == job[j].since
  <2>1. PICK p \in job[j].todo : \/ Answered(j, p, {})
                                 \/ Answered(j, p, Kept(remembered[p].value, since))
    BY <1>3, ZenonT(30) DEF StationUnavailable
  <2>2. /\ job[j].pc = "fetch" /\ ~loops(feedSource)
        /\ UNCHANGED <<feedSource, feedFaults, today, published, updated, copies, cursor, remembered>>
    BY <1>3, SMTT(30) DEF StationUnavailable, Steady, Ordinary
  <2>3. p \in Stations
    BY DEF FeedInv, IngestRun
  <2> DEFINE A == remembered[p].value
  <2>4. A \in SUBSET published /\ Covered(A, published, copies)
    BY <1>a, <2>2, <2>3, Zenon DEF FeedInv
  <2>5. Past(since, published, copies)
    BY <1>a, <2>2, Zenon DEF RunCovers
  <2>6. Kept(A, since) \in SUBSET A
    BY <1>b, KeptIsPart, Zenon
  <2>7. Covered(Kept(A, since), published, copies)
    <3>1. ASSUME NEW e \in published, NEW f \in Kept(A, since), e.at < f.at
          PROVE  e \in Kept(A, since) \/ copies[e] > 0
      <4>1. e \in A \/ copies[e] > 0
        BY <2>4, <2>6, <3>1, Zenon DEF Covered
      <4> QED
        BY <1>a, <2>5, <4>1, KeptIsEnough, Zenon
    <3> QED
      BY <3>1, Zenon DEF Covered
  <2>8. Covered({}, published, copies) /\ {} \in SUBSET Kept(A, since)
    BY Zenon DEF Covered
  <2>9. \A q \in Stations : Covered(remembered'[q].value, published, copies)
    BY <1>a, <2>2, Zenon
  <2>10. CASE Answered(j, p, {})
    BY <2>2, <2>4, <2>8, <2>9, <2>10, CursorAnswered, ZenonT(30)
  <2>11. CASE Answered(j, p, Kept(A, since))
    <3>1. Kept(A, since) \in SUBSET Kept(A, since)
      BY Zenon
    <3> QED
      BY <2>2, <2>4, <2>7, <2>9, <2>11, <3>1, CursorAnswered, ZenonT(30)
  <2> QED
    BY <2>1, <2>10, <2>11, Zenon
<1>4. ASSUME NEW j \in Jobs, Deduplicate(j) PROVE CursorInv'
  <2>0. PICK D \in SUBSET {e \in job[j].records :
                             copies[e] \in 1 .. MaxCopies /\ e.at < updated[e]} :
          job' = [job EXCEPT ![j].pc = "commit",
                             ![j].records = {e \in job[j].records : copies[e] = 0} \cup D]
    BY <1>4, Zenon DEF Deduplicate
  <2> DEFINE m == job[j]
             t == [job[j] EXCEPT !.pc = "commit",
                                !.records = {e \in job[j].records : copies[e] = 0} \cup D]
  <2>1. /\ t \in IngestRun /\ t.pc = "commit" /\ t.since = m.since
        /\ t.records = {e \in m.records : copies[e] = 0} \cup D /\ D \subseteq m.records
    BY <2>0 DEF FeedInv, IngestRun
  <2>2. job' = [job EXCEPT ![j] = t]
    BY <2>0 DEF FeedInv, IngestRun
  <2>3. /\ m.pc = "dedup"
        /\ UNCHANGED <<feedSource, feedFaults, today, published, updated, copies, cursor, remembered>>
    BY <1>4, Zenon DEF Deduplicate
  <2>4. RunCovers(m, published, copies, today) /\ m.records \subseteq published
    BY <1>a, Zenon DEF FeedInv
  <2>5. feedSource = "gdelt" => m.since = cursor /\ \A e \in m.records : e.at >= cursor
    <3>1. Working(j)
      BY <2>3 DEF Working
    <3> QED
      BY <3>1, Zenon DEF CursorInv
  <2> HIDE DEF t, m
  <2>6. Covered(m.records, published, copies) /\ Past(m.since, published, copies)
    BY <2>3, <2>4, Zenon DEF RunCovers
  <2>7. \A e \in published : copies[e] = 0 \/ copies[e] > 0
    BY DEF FeedInv
  <2>8. Covered(t.records, published, copies)
    BY <2>1, <2>6, <2>7, Zenon DEF Covered
  <2>9. "commit" # "fetch"
    OBVIOUS
  <2>10. RunCovers(t, published, copies, today)
    BY <2>1, <2>6, <2>8, <2>9, Zenon DEF RunCovers
  <2>11. \A e \in t.records : e \in m.records
    BY <2>1, Zenon
  <2> QED
    BY <1>a, <2>1, <2>2, <2>3, <2>5, <2>10, <2>11, CursorRun, ZenonT(30)
<1>5. ASSUME NEW j \in Jobs, LoseIngestion(j) PROVE CursorInv'
  <2>1. /\ job' = [job EXCEPT ![j] = Idle]
        /\ UNCHANGED <<feedSource, feedFaults, today, published, updated, copies, cursor, remembered>>
    BY <1>5, Zenon DEF LoseIngestion
  <2>2. RunCovers(Idle, published, copies, today)
    BY IdleCovers, Zenon
  <2> QED
    BY <1>a, <2>1, <2>2, IdleRun, CursorRun, ZenonT(30)
<1>6. CASE UNCHANGED ingestVars
  <2>1. /\ feedSource' = feedSource /\ today' = today /\ published' = published /\ copies' = copies
        /\ updated' = updated /\ cursor' = cursor /\ remembered' = remembered /\ job' = job
    BY <1>6, Zenon DEF ingestVars
  <2> QED
    BY <2>1, ZenonT(30) DEF CursorInv, Closed, Past, RunCovers, Covered, asked, page, loops, Backlog, Working
<1> QED
  BY <1>1, <1>2, <1>3, <1>4, <1>5, <1>6, CursorPublish, CursorRevise, CursorDate, CursorCommit, ZenonT(30)
     DEF IngestNext, IngestStep

LEMMA CursorInvImplies ==
    ASSUME FeedInv, CursorInv
    PROVE  CursorCovers
<1> SUFFICES ASSUME NEW e \in published, ~(copies[e] > 0) PROVE is_new(e, cursor)
  BY Zenon DEF CursorCovers
<1>1. e.at \in Nat
  BY OnItsDate, Zenon DEF FeedInv
<1>2. cursor \in Nat
  BY IngestionAssumption DEF FeedInv
<1>3. Closed(published, copies) /\ Past(cursor, published, copies)
  BY Zenon DEF CursorInv
<1>4. ~(e.at < cursor) /\ ~(e.at <= cursor /\ feedSource = "arxiv")
  BY <1>3, BehindIsStored, Zenon
<1> QED
  BY <1>1, <1>2, <1>4 DEF is_new

(* Steady is a matter of the settings, which no step changes. *)
IngestInv == FeedInv /\ OnceInv /\ (Steady => CursorInv)

LEMMA IngestNextInv == IngestInv /\ [IngestNext]_ingestVars => IngestInv'
<1> SUFFICES ASSUME IngestInv, [IngestNext]_ingestVars PROVE IngestInv'
  OBVIOUS
<1>1. FeedInv /\ OnceInv /\ (Steady => CursorInv)
  BY Zenon DEF IngestInv
<1>2. feedSource' = feedSource /\ feedFaults' = feedFaults
  BY Zenon DEF IngestNext, IngestStep, ingestVars, Publish, Revise, NextDate, StartIngestion,
               FetchStation, StationUnavailable, Deduplicate, CommitIngestion, LoseIngestion
<1>3. Steady' = Steady
  BY <1>2, Zenon DEF Steady, Ordinary
<1>4. FeedInv' /\ OnceInv'
  BY <1>1, FeedNextInv, OnceNextInv, Zenon
<1>5. Steady => CursorInv'
  BY <1>1, CursorNextInv, Zenon
<1> QED
  BY <1>3, <1>4, <1>5, Zenon DEF IngestInv

LEMMA IngestSteps ==
    ASSUME [Next]_jobVars
    PROVE  [IngestNext]_ingestVars
BY Zenon DEF Next, jobVars

LEMMA IngestInvariant == Spec => []IngestInv
<1>1. Init => IngestInv
  BY FeedInitInv, OnceInitInv, CursorInitInv, Zenon DEF Init, IngestInv
<1>2. IngestInv /\ [Next]_jobVars => IngestInv'
  BY IngestNextInv, IngestSteps, Zenon
<1> QED
  BY <1>1, <1>2, PTL DEF Spec

(* However many runs overlap, are lost or start again from an old cursor, an
   event has one row, and a paper has one where no two runs overlap: ON CONFLICT
   DO NOTHING, and the look-up of source_id before a paper is inserted. *)
THEOREM RowsAreStoredOnce == Spec => []StoredOnce
<1>1. IngestInv => StoredOnce
  BY Zenon DEF IngestInv, OnceInv, StoredOnce
<1> QED
  BY <1>1, IngestInvariant, PTL

(* The cursor that _async_run_ingestion_job commits with the rows has passed no event
   that is not stored, for every source, any number of workers and stations and
   any page size, with runs that overlap or die, papers that are revised and caches
   that fail, in the surroundings CursorCovers names (Ordinary); only GDELT, which
   pages in no order, needs its runs one after another. *)
THEOREM NothingIsPassedOver ==
    Spec => []((feedSource = "gdelt" => "overlap" \notin feedFaults) => CursorCovers)
<1>1. IngestInv => ((feedSource = "gdelt" => "overlap" \notin feedFaults) => CursorCovers)
  <2> SUFFICES ASSUME IngestInv, feedSource = "gdelt" => "overlap" \notin feedFaults
               PROVE  CursorCovers
    OBVIOUS
  <2>1. CASE Ordinary
    BY <2>1, CursorInvImplies, Zenon DEF IngestInv, Steady
  <2>2. CASE ~Ordinary
    BY <2>2, Zenon DEF CursorCovers
  <2> QED
    BY <2>1, <2>2, Zenon
<1> QED
  BY <1>1, IngestInvariant, PTL
=============================================================================
