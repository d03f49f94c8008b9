------------------------------- MODULE Backup -------------------------------
(***************************************************************************)
(* Backups, retention and restore drills (ops/backup/, workers/jobs/       *)
(* backup_jobs.py) and the scheduler that is to start them.  A backup run  *)
(* records itself, describes the live database, dumps it, uploads the      *)
(* dump, marks its record and purges expired backups.  A drill takes the   *)
(* newest successful backup, downloads and restores it and compares the    *)
(* result with the description.                                            *)
(*                                                                         *)
(* The database is its version: a dump holds the version it was taken of,  *)
(* which its SHA-256 tells from any other.  A description tells less apart *)
(* (Described).  A file or a restored database that is neither absent nor  *)
(* whole is Torn.  Time matters only for retention, which outlasts every   *)
(* run.                                                                    *)
(***************************************************************************)
EXTENDS Scheduler

CONSTANTS
    MaxBackups,     \* backups taken, in order of created_at
    MaxJobs,        \* backups and drills started by hand
    Retention,      \* backup_retention_days, in ticks
    Versions,       \* number of versions of the database told apart
    Alike,          \* number of versions in a row that have one description
    Runs, Drills,   \* backup and drill jobs that may overlap
    FaultSets,      \* the sets of faults that may occur together
    Triggers        \* who may start jobs: "scheduler" or "operator"

(* "crash": a job's process dies; "timeout": RQ's job timeout cancels a drill
   (for a backup this is a crash); "storage": a storage call fails; "db":
   Postgres goes away and comes back; "rot": a stored file is damaged; "psql":
   psql restores only part of the dump; "write": the database changes. *)
ASSUME BackupAssumption ==
    /\ MaxBackups \in Nat \ {0} /\ MaxJobs \in Nat /\ Retention \in Nat 
    /\ Versions \in Nat \ {0} /\ Alike \in Nat \ {0}
    /\ FaultSets \subseteq SUBSET {"crash", "timeout", "storage", "db", "rot", "psql", "write",
                                "restart", "get_jobs"}
    /\ Triggers \subseteq {"scheduler", "operator"}

Ids == 1 .. MaxBackups
Blind == -3         \* a description cut short by the loss of the connection
Absent == -2
Torn == -1
Version == 0 .. Versions - 1
File == Version \cup {Torn, Absent}

(* extract_verification_metadata: row counts and samples of 100 rows of eight
   tables, and the migration version.  Versions that differ elsewhere have one
   description.  A table described has rows: of an empty one nothing is compared
   but the count, which a missing table shares. *)
Described(v) == v \div Alike
Description == 0 .. Versions - 1
Metadata == Description \cup {Blind, Absent}

VARIABLES
    by,             \* who starts the jobs of this behaviour
    db, dbUp,       \* the live database
    rec,            \* backup_records, by identifier
    store,          \* BackupStorage: the file of each backup
    temp,           \* <backup_id>_restore.sql in the worker's temp directory
    run, drill,     \* the jobs
    next,           \* the identifier of the next backup
    drills,         \* drills started by hand
    rotten,         \* backups whose file was damaged after its upload (history)
    moved           \* backups described before a write and dumped after it (history)

backupVars == <<by, db, dbUp, rec, store, temp, run, drill, next, drills, rotten, moved>>
vars == <<schedVars, faults, backupVars>>

Statuses == {"none", "PENDING", "RUNNING", "SUCCESS", "FAILED"}
NoRec == [status |-> "none", age |-> 0, checksum |-> Absent, metadata |-> Absent]
IdleRun == [pc |-> "idle", id |-> 0, meta |-> Absent, dump |-> Absent,
            todo |-> <<>>, committed |-> FALSE]
IdleDrill == [pc |-> "idle", id |-> 0, status |-> "none", checksum |-> Absent,
              meta |-> Absent, restored |-> Absent, shown |-> Absent, scratch |-> "none"]

TypeOK ==
    /\ SchedTypeOK
    /\ faults \in FaultSets /\ by \in Triggers
    /\ db \in Version /\ dbUp \in BOOLEAN
    /\ rec \in [Ids -> [status: Statuses, age: 0 .. Retention + 1,
                        checksum: File, metadata: Metadata]]
    /\ store \in [Ids -> File] /\ temp \in [Ids -> File]
    /\ next \in 1 .. MaxBackups + 1 /\ drills \in 0 .. MaxJobs 
    /\ rotten \subseteq Ids /\ moved \subseteq Ids
    /\ run \in [Runs -> [pc: {"idle", "pending", "running", "metadata", "dump", "upload",
                              "success", "expired", "clean_file", "clean_row", "except"},
                         id: Ids \cup {0}, meta: Metadata,
                         dump: Version \cup {Absent}, todo: Seq(Ids),
                         committed: BOOLEAN]]
    /\ drill \in [Drills -> [pc: {"idle", "pending", "running", "download", "copying", "checksum",
                                  "scratch", "restore", "verify", "metric", "except",
                                  "finally"},
                             id: Ids \cup {0}, status: Statuses, checksum: File,
                             meta: Metadata, restored: File, shown: Metadata,
                             scratch: {"none", "known", "unknown"}]]

Init ==
    /\ SchedInit
    /\ faults \in FaultSets /\ by \in Triggers
    /\ db = 0 /\ dbUp = TRUE
    /\ rec = [b \in Ids |-> NoRec]
    /\ store = [b \in Ids |-> Absent] /\ temp = [b \in Ids |-> Absent]
    /\ run = [r \in Runs |-> IdleRun] /\ drill = [d \in Drills |-> IdleDrill]
    /\ next = 1 /\ drills = 0 /\ rotten = {} /\ moved = {}

-----------------------------------------------------------------------------
(* run_postgres_backup.                                                    *)

Goto(r, pc) == run' = [run EXCEPT ![r].pc = pc]

(* The job is started by an operator: the scheduler's call raises. *)
StartBackup(r) ==
    /\ run[r].pc = "idle" /\ next <= MaxBackups /\ next + drills <= MaxJobs
    /\ run' = [run EXCEPT ![r] = [IdleRun EXCEPT !.pc = "pending", !.id = next]]
    /\ next' = next + 1
    /\ UNCHANGED <<schedVars, faults, by, db, dbUp, rec, store, temp, drill, drills, rotten, moved>>

(* PENDING, then RUNNING; with the database away both are skipped. *)
RecordPending(r) ==
    /\ run[r].pc = "pending"
    /\ IF dbUp THEN /\ rec' = [rec EXCEPT ![run[r].id] = [NoRec EXCEPT !.status = "PENDING"]]
                    /\ Goto(r, "running")
               ELSE UNCHANGED rec /\ Goto(r, "metadata")
    /\ UNCHANGED <<schedVars, faults, by, db, dbUp, store, temp, drill, next, drills, rotten, moved>>

RecordRunning(r) ==
    /\ run[r].pc = "running"
    /\ rec' = IF dbUp THEN [rec EXCEPT ![run[r].id].status = "RUNNING"] ELSE rec
    /\ Goto(r, "metadata")
    /\ UNCHANGED <<schedVars, faults, by, db, dbUp, store, temp, drill, next, drills, rotten, moved>>

(* A query that fails is passed over, so the loss of an open connection
   leaves a description without tables instead of raising. *)
ExtractMetadata(r) ==
    /\ run[r].pc = "metadata"
    /\ IF dbUp THEN \E m \in {Described(db)} \cup (IF "db" \in faults THEN {Blind} ELSE {}) :
                        run' = [run EXCEPT ![r].pc = "dump", ![r].meta = m]
               ELSE Goto(r, "except")
    /\ UNCHANGED <<schedVars, faults, by, db, dbUp, rec, store, temp, drill, next, drills, rotten, moved>>

(* pg_dump sees one snapshot of the database, later than the description. *)
CreateDump(r) ==
    /\ run[r].pc = "dump"
    /\ run' = [run EXCEPT ![r] = IF dbUp THEN [@ EXCEPT !.pc = "upload", !.dump = db]
                                         ELSE [@ EXCEPT !.pc = "except"]]
    /\ UNCHANGED <<schedVars, faults, by, db, dbUp, rec, store, temp, drill, next, drills, rotten, moved>>

(* Slip: the clean-up follows a failed upload too. *)
Upload_then_purge(r) ==
    /\ run[r].pc = "upload"
    /\ \/ store' = [store EXCEPT ![run[r].id] = run[r].dump] /\ Goto(r, "success")
       \/ "storage" \in faults /\ UNCHANGED store /\ Goto(r, "expired")
    /\ UNCHANGED <<schedVars, faults, by, db, dbUp, rec, temp, drill, next, drills, rotten, moved>>

(* A failed upload may have stored nothing, part of the dump, or all of it. *)
Upload(r) ==
    /\ run[r].pc = "upload"
    /\ \/ store' = [store EXCEPT ![run[r].id] = run[r].dump] /\ Goto(r, "success")
       \/ /\ "storage" \in faults
          /\ \E f \in {Absent, Torn, run[r].dump} : store' = [store EXCEPT ![run[r].id] = f]
          /\ Goto(r, "except")
    /\ UNCHANGED <<schedVars, faults, by, db, dbUp, rec, temp, drill, next, drills, rotten, moved>>

(* Slip: the record is marked before the file is there. *)
MarkSuccess_any(r) ==
    /\ run[r].pc \in {"upload", "success"}
    /\ rec' = IF dbUp /\ rec[run[r].id].status # "none"
              THEN [rec EXCEPT ![run[r].id].status = "SUCCESS",
                               ![run[r].id].checksum = run[r].dump,
                               ![run[r].id].metadata = run[r].meta]
              ELSE rec
    /\ Goto(r, IF run[r].pc = "upload" THEN "upload" ELSE "expired")
    /\ UNCHANGED <<schedVars, faults, by, db, dbUp, store, temp, drill, next, drills, rotten, moved>>

(* Without a record, or with the database away, only the returned object is
   marked; the metric that follows changes nothing here. *)
MarkSuccess(r) ==
    /\ run[r].pc = "success"
    /\ rec' = IF dbUp /\ rec[run[r].id].status # "none"
              THEN [rec EXCEPT ![run[r].id].status = "SUCCESS",
                               ![run[r].id].checksum = run[r].dump,
                               ![run[r].id].metadata = run[r].meta]
              ELSE rec
    /\ Goto(r, "expired")
    /\ UNCHANGED <<schedVars, faults, by, db, dbUp, store, temp, drill, next, drills, rotten, moved>>

(* The failure is recorded if there is a record and a database. *)
FailBackup(r) ==
    /\ run[r].pc = "except"
    /\ rec' = IF dbUp /\ rec[run[r].id].status # "none"
              THEN [rec EXCEPT ![run[r].id].status = "FAILED"] ELSE rec
    /\ run' = [run EXCEPT ![r] = IdleRun]
    /\ UNCHANGED <<schedVars, faults, by, db, dbUp, store, temp, drill, next, drills, rotten, moved>>

-----------------------------------------------------------------------------
(* cleanup_expired_backups, at the end of a successful run.                *)

Expired == {b \in Ids : rec[b].status # "none" /\ rec[b].age > Retention}

(* The query does not order its result. *)
InAnyOrder(S) ==
    {list \in UNION {[1 .. n -> S] : n \in 0 .. MaxBackups} :
        /\ \A i, j \in DOMAIN list : list[i] = list[j] => i = j
        /\ S = {list[i] : i \in DOMAIN list}}

(* The rest of the list is worked off, or the run returns. *)
After(r, todo, committed) ==
    run' = [run EXCEPT ![r] = IF todo = <<>> THEN IdleRun
                              ELSE [@ EXCEPT !.pc = "clean_file", !.todo = todo,
                                             !.committed = committed]]

ListExpired(r) ==
    /\ run[r].pc = "expired"
    /\ \E todo \in IF dbUp THEN InAnyOrder(Expired) ELSE {<<>>} : After(r, todo, FALSE)
    /\ UNCHANGED <<schedVars, faults, by, db, dbUp, rec, store, temp, drill, next, drills, rotten, moved>>

(* Slip: the row goes although the file could not be removed. *)
CleanFile_regardless(r) ==
    LET b == Head(run[r].todo) IN
    /\ run[r].pc = "clean_file" /\ Goto(r, "clean_row")
    /\ \/ store' = [store EXCEPT ![b] = Absent]
       \/ "storage" \in faults /\ UNCHANGED store
    /\ UNCHANGED <<schedVars, faults, by, db, dbUp, rec, temp, drill, next, drills, rotten, moved>>

(* The handler of a failure logs rec.backup_id.  When a transaction was open its
   rollback has expired the records, reading the attribute raises, and the
   cleanup ends; right after a commit none is open and the loop goes on. *)
CleanFile(r) ==
    LET b == Head(run[r].todo) IN
    /\ run[r].pc = "clean_file"
    /\ \/ store' = [store EXCEPT ![b] = Absent] /\ Goto(r, "clean_row")
       \/ /\ "storage" \in faults
          /\ \E f \in {Absent, store[b]} : store' = [store EXCEPT ![b] = f]
          /\ After(r, IF run[r].committed THEN Tail(run[r].todo) ELSE <<>>, TRUE)
    /\ UNCHANGED <<schedVars, faults, by, db, dbUp, rec, temp, drill, next, drills, rotten, moved>>

CleanRow(r) ==
    /\ run[r].pc = "clean_row"
    /\ IF dbUp THEN /\ rec' = [rec EXCEPT ![Head(run[r].todo)] = NoRec]
                    /\ After(r, Tail(run[r].todo), TRUE)
               ELSE UNCHANGED rec /\ After(r, <<>>, FALSE)
    /\ UNCHANGED <<schedVars, faults, by, db, dbUp, store, temp, drill, next, drills, rotten, moved>>

-----------------------------------------------------------------------------
(* run_restore_drill.  A finished drill keeps its record until the job runs
   again.                                                                  *)

DrillUnchanged == UNCHANGED <<schedVars, faults, by, db, dbUp, rec, store, run, next, rotten, moved>>
DrillGoto(d, pc) == drill' = [drill EXCEPT ![d].pc = pc]
NoBackupFound == [IdleDrill EXCEPT !.status = "FAILED"]

(* want = 0 asks for the newest successful backup. *)
BeginDrill(d) ==
    /\ by = "operator" /\ drill[d].pc = "idle" /\ dbUp
    /\ next + drills <= MaxJobs /\ drills' = drills + 1
    /\ \E want \in Ids \cup {0} :
         LET good == {b \in Ids : rec[b].status = "SUCCESS" /\ want \in {0, b}} IN
         \/ good = {} /\ drill' = [drill EXCEPT ![d] = NoBackupFound]
         \/ \E b \in good :
               /\ \A c \in good : c <= b
               /\ drill' = [drill EXCEPT ![d] =
                      [IdleDrill EXCEPT !.pc = "pending", !.id = b,
                                        !.checksum = rec[b].checksum,
                                        !.meta = rec[b].metadata]]
    /\ UNCHANGED temp /\ DrillUnchanged

(* PENDING, then RUNNING; a failure here is outside the try. *)
RecordDrill(d) ==
    /\ drill[d].pc \in {"pending", "running"}
    /\ drill' = [drill EXCEPT ![d] =
           IF ~dbUp THEN [@ EXCEPT !.pc = "idle"]
           ELSE IF @.pc = "pending" THEN [@ EXCEPT !.pc = "running", !.status = "PENDING"]
           ELSE [@ EXCEPT !.pc = "download", !.status = "RUNNING"]]
    /\ UNCHANGED <<temp, drills>> /\ DrillUnchanged

(* Drills of one backup share the downloaded file. *)
BeginDownload(d) ==
    LET b == drill[d].id IN
    /\ drill[d].pc = "download"
    /\ IF store[b] = Absent THEN UNCHANGED temp /\ DrillGoto(d, "except")
       ELSE temp' = [temp EXCEPT ![b] = Torn] /\ DrillGoto(d, "copying")
    /\ UNCHANGED drills /\ DrillUnchanged

(* A failing MinIO answers "cached" when an earlier download succeeded, which
   passes for a download. *)
EndDownload(d) ==
    LET b == drill[d].id IN
    /\ drill[d].pc = "copying"
    /\ \/ temp' = [temp EXCEPT ![b] = store[b]] /\ DrillGoto(d, "checksum")
       \/ /\ "storage" \in faults
          /\ \/ temp' = [temp EXCEPT ![b] = Absent] /\ DrillGoto(d, "except")
             \/ UNCHANGED temp /\ DrillGoto(d, "checksum")
    /\ UNCHANGED drills /\ DrillUnchanged

CompareChecksum(d) ==
    /\ drill[d].pc = "checksum"
    /\ DrillGoto(d, IF temp[drill[d].id] = drill[d].checksum THEN "scratch" ELSE "except")
    /\ UNCHANGED <<temp, drills>> /\ DrillUnchanged

CreateScratch(d) ==
    /\ drill[d].pc = "scratch"
    /\ drill' = [drill EXCEPT ![d] = IF dbUp THEN [@ EXCEPT !.pc = "restore", !.scratch = "known"]
                                             ELSE [@ EXCEPT !.pc = "except"]]
    /\ UNCHANGED <<temp, drills>> /\ DrillUnchanged

(* A psql that fails is only logged.  Another drill may have begun to download
   the file again since its checksum was compared. *)
Restore(d) ==
    LET file == temp[drill[d].id] IN
    /\ drill[d].pc = "restore"
    /\ IF file = Absent THEN DrillGoto(d, "except")
       ELSE \E v \in (IF dbUp THEN {file} ELSE {Absent})
                     \cup (IF faults \cap {"psql", "db"} # {} THEN {Torn} ELSE {}) :
                drill' = [drill EXCEPT ![d].pc = "verify", ![d].restored = v]
    /\ UNCHANGED <<temp, drills>> /\ DrillUnchanged

(* What the description of the scratch database can be.  A restore that broke
   off may have got through the tables described, to any point of them. *)
Shown(d) ==
    CASE drill[d].restored = Absent -> {Blind}
      [] drill[d].restored = Torn -> Description \cup {Blind}
      [] OTHER -> {Described(drill[d].restored)} \cup (IF "db" \in faults THEN {Blind} ELSE {})

(* Slip: only a restore that left nothing counts as a discrepancy. *)
Matches_nonempty(m, shown) == {shown # Blind}

(* The tables that were described are compared, and the migration version.  Of
   a description cut short that may be nothing, or a version nobody could read. *)
Matches(m, shown) == IF m = Blind THEN BOOLEAN ELSE {shown = m}

(* Extraction, comparison and the outcome in the drill's record. *)
Verify(d) ==
    /\ drill[d].pc = "verify"
    /\ \E shown \in Shown(d) : \E ok \in Matches(drill[d].meta, shown) :
         drill' = [drill EXCEPT ![d] =
             IF dbUp THEN [@ EXCEPT !.pc = "metric", !.shown = shown,
                                    !.status = IF ok THEN "SUCCESS" ELSE "FAILED"]
                     ELSE [@ EXCEPT !.pc = "except"]]
    /\ UNCHANGED <<temp, drills>> /\ DrillUnchanged

(* The metric is inside the try: failing to store it fails the drill. *)
PersistDrillMetric(d) ==
    /\ drill[d].pc = "metric"
    /\ DrillGoto(d, IF dbUp THEN "finally" ELSE "except")
    /\ UNCHANGED <<temp, drills>> /\ DrillUnchanged

FailDrill(d) ==
    /\ drill[d].pc = "except"
    /\ drill' = [drill EXCEPT ![d].pc = "finally", ![d].status = IF dbUp THEN "FAILED" ELSE @]
    /\ UNCHANGED <<temp, drills>> /\ DrillUnchanged

Finally(d) ==
    /\ drill[d].pc = "finally"
    /\ drill' = [drill EXCEPT ![d].pc = "idle",
                              ![d].scratch = IF @ = "known" /\ dbUp THEN "none" ELSE @]
    /\ temp' = [temp EXCEPT ![drill[d].id] = Absent]
    /\ UNCHANGED drills /\ DrillUnchanged

(* The job timeout cancels the coroutine: the finally clause still runs, unless
   the drill had not entered its try or was already leaving it.  A scratch
   database created at that moment is not known to the finally clause. *)
TimeoutDrill(d) ==
    /\ "timeout" \in faults /\ drill[d].pc # "idle"
    /\ \E s \in {drill[d].scratch} \cup (IF drill[d].pc = "scratch" THEN {"unknown"} ELSE {}) :
         drill' = [drill EXCEPT ![d].scratch = s,
             ![d].pc = IF @ \in {"pending", "running", "finally"} THEN "idle" ELSE "finally"]
    /\ UNCHANGED <<temp, drills>> /\ DrillUnchanged

-----------------------------------------------------------------------------
(* What the scheduler starts.                                              *)

(* The scheduled call of run_postgres_backup_job. *)
ScheduledBackup(r) ==
    IF takes_source("postgres_backup")
    THEN Due("postgres_backup") /\ StartBackup(r)
    ELSE CallRaises("postgres_backup") /\ UNCHANGED <<faults, backupVars>>

(* run_restore_drill_job is called with "restore_drill", which it takes for the
   identifier of a backup; there is none of that name. *)
ScheduledDrill(d) ==
    /\ Due("restore_drill") /\ drill[d].pc = "idle" /\ dbUp
    /\ drill' = [drill EXCEPT ![d] = NoBackupFound]
    /\ UNCHANGED <<temp, drills>> /\ DrillUnchanged

-----------------------------------------------------------------------------
(* The environment.                                                        *)

Quiet == (\A r \in Runs : run[r].pc = "idle") /\ (\A d \in Drills : drill[d].pc = "idle")

Tick ==
    /\ Quiet
    /\ rec' = [b \in Ids |-> IF rec[b].status = "none" \/ rec[b].age > Retention THEN rec[b]
                             ELSE [rec[b] EXCEPT !.age = @ + 1]]
    /\ UNCHANGED <<schedVars, faults, by, db, dbUp, store, temp, run, drill, next, drills, rotten, moved>>

WriteDb ==
    /\ "write" \in faults
    /\ db' = (db + 1) % Versions
    /\ moved' = moved \cup {run[r].id : r \in {q \in Runs : run[q].pc = "dump"}}
    /\ UNCHANGED <<schedVars, faults, by, dbUp, rec, store, temp, run, drill, next, drills, rotten>>

FlipDb ==
    /\ "db" \in faults
    /\ dbUp' = ~dbUp
    /\ UNCHANGED <<schedVars, faults, by, db, rec, store, temp, run, drill, next, drills, rotten, moved>>

Rot(b) ==
    /\ "rot" \in faults /\ store[b] \in Version
    /\ \A r \in Runs : run[r].id # b
    /\ \E f \in {Torn, Absent} : store' = [store EXCEPT ![b] = f]
    /\ rotten' = rotten \cup {b}
    /\ UNCHANGED <<schedVars, faults, by, db, dbUp, rec, temp, run, drill, next, drills, moved>>

(* A worker dies; an upload it was in the middle of is cut short. *)
CrashBackup(r) ==
    /\ "crash" \in faults /\ run[r].pc # "idle"
    /\ \E f \in {store[run[r].id]} \cup (IF run[r].pc = "upload" THEN {Torn} ELSE {}) :
         store' = [store EXCEPT ![run[r].id] = f]
    /\ run' = [run EXCEPT ![r] = IdleRun]
    /\ UNCHANGED <<schedVars, faults, by, db, dbUp, rec, temp, drill, next, drills, rotten, moved>>

CrashDrill(d) ==
    /\ "crash" \in faults /\ drill[d].pc # "idle"
    /\ DrillGoto(d, "idle")
    /\ UNCHANGED <<temp, drills>> /\ DrillUnchanged

-----------------------------------------------------------------------------
BackupStep(r) ==
    \/ RecordPending(r) \/ RecordRunning(r) \/ ExtractMetadata(r) \/ CreateDump(r)
    \/ Upload(r) \/ MarkSuccess(r) \/ FailBackup(r)
    \/ ListExpired(r) \/ CleanFile(r) \/ CleanRow(r)

DrillStep(d) ==
    \/ RecordDrill(d) \/ BeginDownload(d) \/ EndDownload(d) \/ CompareChecksum(d)
    \/ CreateScratch(d) \/ Restore(d) \/ Verify(d) \/ PersistDrillMetric(d)
    \/ FailDrill(d) \/ Finally(d)

SchedulerStep == by = "scheduler" /\ SchedStep /\ UNCHANGED <<faults, backupVars>>

Next ==
    \/ SchedulerStep \/ (StopScheduler /\ UNCHANGED <<faults, backupVars>>)
    \/ \E r \in Runs : \/ by = "operator" /\ StartBackup(r)
                       \/ ScheduledBackup(r) \/ BackupStep(r) \/ CrashBackup(r)
    \/ \E d \in Drills : \/ BeginDrill(d) \/ ScheduledDrill(d) \/ DrillStep(d)
                         \/ TimeoutDrill(d) \/ CrashDrill(d)
    \/ Tick \/ WriteDb \/ FlipDb \/ (\E b \in Ids : Rot(b))

(* The scheduler is kept running by its deployment, a due job is taken by a
   worker, and a worker goes on with the job it has. *)
Fairness ==
    /\ WF_vars(SchedulerStep)
    /\ \A r \in Runs : WF_vars(ScheduledBackup(r)) /\ WF_vars(BackupStep(r))
    /\ \A d \in Drills : WF_vars(DrillStep(d))

Spec == Init /\ [][Next]_vars
FairSpec == Spec /\ Fairness

-----------------------------------------------------------------------------
(* A backup that is recorded as successful, is within its retention and was
   not damaged in storage can be restored: its file is there and has the
   recorded checksum.  Uploads that break off, dying workers, outages and
   overlapping clean-ups do not change that. *)
Restorable ==
    \A b \in Ids \ rotten :
        rec[b].status = "SUCCESS" /\ rec[b].age <= Retention
            => store[b] = rec[b].checksum

(* "Only if file removal succeeds (or file is absent) is the metadata row
   deleted": no clean-up loses track of a file that is still stored, however
   two of them and their failures interleave. *)
RowOutlivesFile ==
    [][\A b \in Ids : rec[b].status # "none" /\ rec'[b].status = "none"
                          => store[b] = Absent]_vars

Good(b) == rec[b].status = "SUCCESS" /\ store[b] = rec[b].checksum

(* Retention never purges the last backup that can be restored: the clean-up
   follows a newer one.  This needs Postgres to stay up: a run that could not
   record itself purges the old backups all the same. *)
PurgeKeepsOne ==
    [][faults \cap {"db", "rot"} = {} /\ (\E b \in Ids : Good(b))
          => (\E b \in Ids : Good(b))']_vars

(* A drill that is recorded as successful restored the dump of its backup or a
   part of it, whatever other drills did to the shared download, and found in its
   scratch database what there is to describe of the dump: the row counts, the
   samples and the migration version the live database had when it was dumped.
   The backup has to be fully described, with no write between description and
   dump.  That the rest of the dump was restored no drill can tell. *)
DrillSound ==
    \A d \in Drills : drill[d].status = "SUCCESS" /\ drill[d].meta # Blind =>
        /\ drill[d].restored \in {drill[d].checksum, Torn}
        /\ drill[d].id \notin moved => drill[d].shown = Described(drill[d].checksum)

(* "Backups are triggered on a cron schedule": once the scheduler runs, a
   backup is recorded. *)
BackupsHappen == <>(\E b \in Ids : rec[b].status # "none")
=============================================================================
