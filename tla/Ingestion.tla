----------------------------- MODULE Ingestion -----------------------------
(***************************************************************************)
(* Scheduled ingestion of hazard events and of literature                  *)
(* (workers/jobs/ingestion_jobs.py, literature_ingestion_job.py and the    *)
(* source adapters).  A job reads the cursor of its source, asks the       *)
(* source for what is newer, and commits the new rows together with the    *)
(* new cursor.  Everything upstream is an event of a station on a date.    *)
(***************************************************************************)
EXTENDS Integers, FiniteSets, FiniteSetsExt

CONSTANTS
    Jobs,           \* the workers that may run the job
    Stations,       \* the stations, regions or locations an adapter loops over
    MaxDate,        \* bound: dates told apart
    PageSize,       \* $top, maxrecords, max_results: the most a source answers
    SourceSets      \* the settings considered: pairs of a source and faults

VARIABLES
    feedSource,     \* the source of this behaviour
    feedFaults,     \* its faults: "station", "slow", "late", "burst", "cache", "overlap", "crash"
    today,          \* the date upstream
    published,      \* the events the source has published
    updated,        \* arXiv: the date of a paper's last version
    copies,         \* per event, its rows in hazard_events or literature_chunks
    cursor,         \* ingestion_cursors.last_ingested_at, 0 when there is no row
    remembered,     \* per station, resilient_call's cached answer and the key it is under
    job             \* per worker, the job it runs

ingestVars == <<feedSource, feedFaults, today, published, updated, copies, cursor, remembered, job>>

Sources == {"usgs", "noaa", "copernicus", "era5", "gdelt", "arxiv"}
IngestFaults == {"station", "slow", "late", "burst", "cache", "overlap", "crash"}

ASSUME IngestionAssumption ==
    /\ MaxDate \in Nat \ {0} /\ PageSize \in Nat \ {0}
    /\ IsFiniteSet(Stations) /\ Stations # {}
    /\ SourceSets \subseteq Sources \X SUBSET IngestFaults

MaxCopies == 1      \* bound: how many stored versions of a paper may be joined by another
Dates == 1 .. MaxDate
Events == [station : Stations, at : Dates]
Keys == {<<>>} \cup {<<d>> : d \in 0 .. MaxDate} \cup (0 .. MaxDate) \X Dates

(* The adapters that make one request per station and go on when one fails;
   the others make one request. *)
loops(s) == s \in {"noaa", "copernicus", "era5"}

asked == IF loops(feedSource) THEN Stations ELSE {CHOOSE p \in Stations : TRUE}

(* The most events one request returns: NOAA is asked for the latest only. *)
page == CASE feedSource = "noaa" -> 1
          [] feedSource \in {"copernicus", "gdelt", "arxiv"} -> PageSize
          [] OTHER -> MaxDate

JobTypeOK(t) ==
    /\ t.pc \in {"idle", "fetch", "dedup", "commit"}
    /\ t.since \in 0 .. MaxDate
    /\ t.todo \subseteq Stations
    /\ t.records \subseteq Events

IngestTypeOK ==
    /\ <<feedSource, feedFaults>> \in SourceSets
    /\ today \in Dates
    /\ published \subseteq Events
    /\ updated \in [Events -> Dates]
    /\ copies \in [Events -> 0 .. Cardinality(Jobs) + MaxCopies]
    /\ cursor \in 0 .. MaxDate
    /\ \A p \in Stations : remembered[p].key \in Keys /\ remembered[p].value \subseteq Events
    /\ DOMAIN job = Jobs /\ \A j \in Jobs : JobTypeOK(job[j])

Idle == [pc |-> "idle", since |-> 0, todo |-> {}, records |-> {}]

IngestInit ==
    /\ \E s \in SourceSets : feedSource = s[1] /\ feedFaults = s[2]
    /\ today = 1
    /\ published = {}
    /\ updated = [e \in Events |-> e.at]
    /\ copies = [e \in Events |-> 0]
    /\ cursor = 0
    /\ remembered = [p \in Stations |-> [key |-> <<>>, value |-> {}]]
    /\ job = [j \in Jobs |-> Idle]

-----------------------------------------------------------------------------
(* Upstream.  An event may appear any time after its date.  Without "late" the
   events appear in the order of their dates, and none with an older date while
   an adapter is going round its stations.  Without "burst" a page holds what is
   to be fetched from a station: for arXiv, which lists papers by their last
   update, every paper updated since one that has no rows. *)

Backlog(p) ==
    LET S == {e \in published : e.station = p} IN
    {e \in S : \/ copies[e] = 0
               \/ feedSource = "gdelt" /\ e.at >= cursor
               \/ feedSource = "arxiv" /\ \E f \in S : copies[f] = 0 /\ updated[f] <= updated[e]}

FitsPage(p) == "burst" \in feedFaults \/ Cardinality(Backlog(p)) <= page

BetweenRounds == \A j \in Jobs : job[j].pc = "fetch" => job[j].todo \in {{}, asked}

NextDates ==
    IF "late" \in feedFaults THEN 1 .. today
    ELSE IF BetweenRounds THEN Max({1} \cup {e.at : e \in published}) .. today
    ELSE {today}

Publish(p) ==
    /\ p \in asked
    /\ \E d \in NextDates :
          LET e == [station |-> p, at |-> d] IN
          /\ e \notin published
          /\ published' = published \cup {e}
    /\ UNCHANGED <<feedSource, feedFaults, today, updated, copies, cursor, remembered, job>>
    /\ FitsPage(p)'

(* A new version of a paper: it is listed in the place of the last one, under
   another source_id, with the date on which the paper first appeared. *)
Revise(p) ==
    /\ feedSource = "arxiv"
    /\ \E e \in published :
          /\ e.station = p /\ updated[e] < today
          /\ updated' = [updated EXCEPT ![e] = today]
    /\ UNCHANGED <<feedSource, feedFaults, today, published, copies, cursor, remembered, job>>
    /\ FitsPage(p)'

(* Without "slow" no date passes while an adapter is going round its stations. *)
NextDate ==
    /\ today < MaxDate
    /\ "slow" \in feedFaults \/ BetweenRounds
    /\ today' = today + 1
    /\ UNCHANGED <<feedSource, feedFaults, published, updated, copies, cursor, remembered, job>>

-----------------------------------------------------------------------------
(* The job *)

(* Due, and its feature flag is set: the cursor is read.  A queue served by
   one worker has one run at a time. *)
StartIngestion(j) ==
    /\ job[j].pc = "idle"
    /\ "overlap" \in feedFaults \/ \A i \in Jobs : job[i].pc = "idle"
    /\ job' = [job EXCEPT ![j] = [Idle EXCEPT !.pc = "fetch", !.since = cursor,
                                              !.todo = asked]]
    /\ UNCHANGED <<feedSource, feedFaults, today, published, updated, copies, cursor, remembered>>

(* What a request to a source may return: one operator per client.  Answers
   come from what is published for the station. *)

Newest(S, n) ==
    {A \in SUBSET S : /\ Cardinality(A) = Min({n, Cardinality(S)})
                      /\ \A e \in A, f \in S \ A : f.at <= e.at}

get_recent_earthquakes(S, since) == {{e \in S : e.at >= since}}
get_water_temperature(S) == Newest(S, 1)
get_wildfire_products(S) == Newest(S, PageSize)
get_atmospheric_baseline(S, since) == {{e \in S : e.at \in since .. today}}

(* GDELT does not say which of the matching articles make up the page. *)
get_hazard_articles(S, since) ==
    LET matching == {e \in S : e.at >= since}
    IN  {A \in SUBSET matching : Cardinality(A) = Min({PageSize, Cardinality(matching)})}

(* sortBy=lastUpdatedDate, sortOrder=descending. *)
fetch_arxiv(S) ==
    {A \in SUBSET S : /\ Cardinality(A) = Min({PageSize, Cardinality(S)})
                      /\ \A e \in A, f \in S \ A : updated[f] <= updated[e]}

Responses(p, since) ==
    LET S == {e \in published : e.station = p} IN
    CASE feedSource = "usgs" -> get_recent_earthquakes(S, since)
      [] feedSource = "noaa" -> get_water_temperature(S)
      [] feedSource = "copernicus" -> get_wildfire_products(S)
      [] feedSource = "era5" -> get_atmospheric_baseline(S, since)
      [] feedSource = "gdelt" -> get_hazard_articles(S, since)
      [] feedSource = "arxiv" -> fetch_arxiv(S)

(* The part of the cache key that depends on the cursor and the day. *)
cache_key(since) ==
    CASE feedSource = "era5" -> <<since, today>>
      [] feedSource = "gdelt" -> <<since>>
      [] OTHER -> <<0>>

(* What an adapter makes of an answer.  The one for USGS leaves it to the source
   to honour starttime. *)

fetch_recent_usgs_events(A, since) == A
fetch_recent_noaa_events(A, since) == {e \in A : e.at >= since}
fetch_recent_copernicus_events(A, since) == {e \in A : e.at >= since}
fetch_recent_era5_events(A, since) == {e \in A : e.at >= since}
fetch_recent_gdelt_events(A, since) == {e \in A : e.at >= since}

fetch_new_arxiv_papers(A, since) == {e \in A : e.at > since}

Kept(A, since) ==
    CASE feedSource = "usgs" -> fetch_recent_usgs_events(A, since)
      [] feedSource = "noaa" -> fetch_recent_noaa_events(A, since)
      [] feedSource = "copernicus" -> fetch_recent_copernicus_events(A, since)
      [] feedSource = "era5" -> fetch_recent_era5_events(A, since)
      [] feedSource = "gdelt" -> fetch_recent_gdelt_events(A, since)
      [] feedSource = "arxiv" -> fetch_new_arxiv_papers(A, since)

(* Where fetching leads: arXiv's papers are looked up first, and without any
   the job returns. *)
Fetched(t) ==
    IF t.todo # {} THEN t
    ELSE IF feedSource # "arxiv" THEN [t EXCEPT !.pc = "commit"]
    ELSE IF t.records = {} THEN Idle ELSE [t EXCEPT !.pc = "dedup"]

Answered(j, p, A) ==
    job' = [job EXCEPT ![j] = Fetched([job[j] EXCEPT !.todo = @ \ {p}, !.records = @ \cup A])]

(* An answer is cached ("cache": writing it may fail), and the adapter goes on to
   the next station. *)
FetchStation(j) ==
    LET since == job[j].since IN
    /\ job[j].pc = "fetch"
    /\ \E p \in job[j].todo : \E A \in Responses(p, since) :
          /\ Answered(j, p, Kept(A, since))
          /\ \/ remembered' = [remembered EXCEPT
                                 ![p] = [key |-> cache_key(since), value |-> A]]
             \/ "cache" \in feedFaults /\ UNCHANGED remembered
    /\ UNCHANGED <<feedSource, feedFaults, today, published, updated, copies, cursor>>

(* The source is unavailable: resilient_call returns the answer cached under the
   same key, or no value when there is none or it has expired. *)
StationUnavailable(j) ==
    LET since == job[j].since IN
    /\ job[j].pc = "fetch"
    /\ loops(feedSource) => "station" \in feedFaults
    /\ \E p \in job[j].todo :
          \/ Answered(j, p, {})
          \/ /\ remembered[p].key = cache_key(since)
             /\ Answered(j, p, Kept(remembered[p].value, since))
    /\ UNCHANGED <<feedSource, feedFaults, today, published, updated, copies, cursor, remembered>>

(* Papers that have rows already are skipped; the rows of another run that is
   not committed are not seen.  source_id names the version: a paper that has
   been revised may be a version without rows. *)
Deduplicate(j) ==
    /\ job[j].pc = "dedup"
    /\ LET fresh == {e \in job[j].records : copies[e] = 0}
           revised == {e \in job[j].records : copies[e] \in 1 .. MaxCopies /\ e.at < updated[e]}
       IN  \E again \in SUBSET revised :
              job' = [job EXCEPT ![j].pc = "commit", ![j].records = fresh \cup again]
    /\ UNCHANGED <<feedSource, feedFaults, today, published, updated, copies, cursor, remembered>>

(* Slip: the cursor is set to the clock. *)
advanced_to_now(records) == today

(* max(event_date) of the records, or of the papers that were new. *)
advanced(records) == Max({e.at : e \in records})

(* Slip: the insert has no ON CONFLICT clause and the table no constraint. *)
inserted_anyway(e) == copies[e] + 1

(* ON CONFLICT (source, external_id) DO NOTHING; literature_chunks has no
   such constraint. *)
inserted(e) == IF feedSource = "arxiv" THEN copies[e] + 1 ELSE 1

(* One transaction writes the rows and the cursor. *)
CommitIngestion(j) ==
    /\ job[j].pc = "commit"
    /\ LET records == job[j].records IN
       /\ copies' = [e \in Events |-> IF e \in records THEN inserted(e) ELSE copies[e]]
       /\ cursor' = IF records = {} THEN cursor ELSE advanced(records)
    /\ job' = [job EXCEPT ![j] = Idle]
    /\ UNCHANGED <<feedSource, feedFaults, today, published, updated, remembered>>

(* The worker dies or the job runs into its time limit. *)
LoseIngestion(j) ==
    /\ "crash" \in feedFaults /\ job[j].pc # "idle"
    /\ job' = [job EXCEPT ![j] = Idle]
    /\ UNCHANGED <<feedSource, feedFaults, today, published, updated, copies, cursor, remembered>>

IngestStep(j) == FetchStation(j) \/ Deduplicate(j) \/ CommitIngestion(j)

IngestNext ==
    \/ \E p \in Stations : Publish(p) \/ Revise(p)
    \/ NextDate
    \/ \E j \in Jobs : \/ StartIngestion(j) \/ IngestStep(j)
                       \/ StationUnavailable(j) \/ LoseIngestion(j)

-----------------------------------------------------------------------------
(* Rows are in step with upstream except for these faults. *)
Ordinary == feedFaults \cap {"station", "slow", "late", "burst"} = {}

(* Does a run that starts from this cursor still see the event? *)
is_new(e, since) == IF feedSource = "arxiv" THEN e.at > since ELSE e.at >= since

(* "only fetches genuinely new data": the next run will not ask for what the
   cursor has passed, so everything it has passed has its row, wherever runs
   overlap, die, or find the source unavailable.  It takes stations that all
   answer within a date, events in the order of their dates, and pages that hold
   what is outstanding. *)
CursorCovers ==
    Ordinary => \A e \in published :
        copies[e] > 0 \/ is_new(e, cursor)

(* "correctly skipped, not double-inserted": an event fetched by several runs
   has one row; a paper too, unless two runs overlap. *)
StoredOnce ==
    feedSource # "arxiv" \/ "overlap" \notin feedFaults => \A e \in Events : copies[e] <= 1

=============================================================================
