----------------------------- MODULE Calibration -----------------------------
(***************************************************************************)
(* Simulation parameters of one model: calibration_job.py and report.py    *)
(* write a numbered file and then the file that says which parameters are  *)
(* in use; parameter_loader.py reads the latter through a cache that the   *)
(* threads of a process share.  A set of parameters is known by its        *)
(* version; 0 stands for the defaults.                                     *)
(***************************************************************************)
EXTENDS Integers, FiniteSets, FiniteSetsExt

CONSTANTS
    Threads,        \* the threads of one process that run simulations
    MaxVersion      \* bound: parameter versions

VARIABLES
    versionFile,    \* {model}_v{n}.yaml: "none", "empty" or "full"
    latest,         \* {model}_latest.yaml: is there one, its modification time and version
    cache,          \* _parameter_cache of the process: is it checked recently, time, version
    thread,         \* per thread, where load_calibrated_parameters is
    calibrator      \* where the calibration job is

calVars == <<versionFile, latest, cache, thread, calibrator>>

ASSUME CalibrationAssumption == MaxVersion \in Nat \ {0}

Defaults == 0
Empty == -1     \* a file opened for writing and not yet written
VersionNumbers == 1 .. MaxVersion
MaxTime == 2 * MaxVersion

CalTypeOK ==
    /\ versionFile \in [VersionNumbers -> {"none", "empty", "full"}]
    /\ latest \in [exists : BOOLEAN, mtime : 0 .. MaxTime, version : Empty .. MaxVersion]
    /\ cache \in [held : BOOLEAN, fresh : BOOLEAN, mtime : 0 .. MaxTime, version : 0 .. MaxVersion]
    /\ thread \in [Threads -> [pc : {"idle", "stat", "compare", "read", "store"},
                               mtime : 0 .. MaxTime, version : 0 .. MaxVersion]]
    /\ calibrator \in [pc : {"idle", "version", "open", "write", "open_latest", "write_latest"},
                       version : 0 .. MaxVersion]

AtRest == [pc |-> "idle", mtime |-> 0, version |-> Defaults]
NotRunning == [pc |-> "idle", version |-> Defaults]

CalInit ==
    /\ versionFile = [n \in VersionNumbers |-> "none"]
    /\ latest = [exists |-> FALSE, mtime |-> 0, version |-> Defaults]
    /\ cache = [held |-> FALSE, fresh |-> FALSE, mtime |-> 0, version |-> Defaults]
    /\ thread = [t \in Threads |-> AtRest]
    /\ calibrator = NotRunning

-----------------------------------------------------------------------------
(* load_calibrated_parameters.  Returning brings a thread back to rest. *)

Goto(t, pc) == thread' = [thread EXCEPT ![t].pc = pc]
Return(t) == thread' = [thread EXCEPT ![t] = AtRest]

(* The cache is used unchecked within CACHE_TTL_SECONDS; otherwise the file is
   looked for, and without one the defaults are used. *)
Load(t) ==
    /\ thread[t].pc = "idle"
    /\ ~(cache.held /\ cache.fresh) /\ latest.exists
    /\ Goto(t, "stat")
    /\ UNCHANGED <<versionFile, latest, cache, calibrator>>

Stat(t) ==
    /\ thread[t].pc = "stat"
    /\ thread' = [thread EXCEPT ![t] = [@ EXCEPT !.pc = "compare", !.mtime = latest.mtime]]
    /\ UNCHANGED <<versionFile, latest, cache, calibrator>>

(* Under the lock: an unchanged file means that the cache is good. *)
Compare(t) ==
    /\ thread[t].pc = "compare"
    /\ IF cache.held /\ cache.mtime = thread[t].mtime
       THEN Return(t) /\ cache' = [cache EXCEPT !.fresh = TRUE]
       ELSE Goto(t, "read") /\ UNCHANGED cache
    /\ UNCHANGED <<versionFile, latest, calibrator>>

(* validate_parameters_yaml *)
validates == latest.version # Empty

(* A file that does not validate gives the defaults, which are not cached. *)
ReadFile(t) ==
    /\ thread[t].pc = "read"
    /\ IF ~validates THEN Return(t)
       ELSE thread' = [thread EXCEPT ![t] = [@ EXCEPT !.pc = "store", !.version = latest.version]]
    /\ UNCHANGED <<versionFile, latest, cache, calibrator>>

(* Slip: the time stored is the file's after it was read. *)
entry_late(t) == [held |-> TRUE, fresh |-> TRUE, mtime |-> latest.mtime,
                  version |-> thread[t].version]

entry(t) == [held |-> TRUE, fresh |-> TRUE, mtime |-> thread[t].mtime,
             version |-> thread[t].version]

Store(t) ==
    /\ thread[t].pc = "store"
    /\ cache' = entry(t)
    /\ Return(t)
    /\ UNCHANGED <<versionFile, latest, calibrator>>

CacheExpires ==
    /\ cache.held /\ cache.fresh
    /\ cache' = [cache EXCEPT !.fresh = FALSE]
    /\ UNCHANGED <<versionFile, latest, thread, calibrator>>

-----------------------------------------------------------------------------
(* The calibration job, in a process of its own *)

(* Too few samples, or a worse score than the parameters in use have on the
   validation samples, and nothing is written: no step.  Otherwise the candidate
   is promoted. *)
Promote ==
    /\ calibrator.pc = "idle"
    /\ calibrator' = [calibrator EXCEPT !.pc = "version"]
    /\ UNCHANGED <<versionFile, latest, cache, thread>>

next_parameter_version == Max({n \in VersionNumbers : versionFile[n] # "none"} \cup {0}) + 1

(* Slip: the numbered file comes after the one in use, and then not at all. *)
ChooseVersionOnly ==
    /\ calibrator.pc = "version" /\ next_parameter_version <= MaxVersion
    /\ calibrator' = [pc |-> "open_latest", version |-> next_parameter_version]
    /\ UNCHANGED <<versionFile, latest, cache, thread>>

ChooseVersion ==
    /\ calibrator.pc = "version" /\ next_parameter_version <= MaxVersion
    /\ calibrator' = [pc |-> "open", version |-> next_parameter_version]
    /\ UNCHANGED <<versionFile, latest, cache, thread>>

(* Opening a file for writing truncates it. *)
WriteVersion(from, to, content) ==
    /\ calibrator.pc = from
    /\ versionFile' = [versionFile EXCEPT ![calibrator.version] = content]
    /\ calibrator' = [calibrator EXCEPT !.pc = to]
    /\ UNCHANGED <<latest, cache, thread>>

OpenVersion == WriteVersion("open", "write", "empty")
FillVersion == WriteVersion("write", "open_latest", "full")

OpenLatest ==
    /\ calibrator.pc = "open_latest" /\ latest.mtime < MaxTime
    /\ latest' = [exists |-> TRUE, mtime |-> latest.mtime + 1, version |-> Empty]
    /\ calibrator' = [calibrator EXCEPT !.pc = "write_latest"]
    /\ UNCHANGED <<versionFile, cache, thread>>

(* The clock of the file system may not have moved since the file was opened.
   The job invalidates the cache of its own process only. *)
FillLatest ==
    /\ calibrator.pc = "write_latest"
    /\ \E m \in {latest.mtime, latest.mtime + 1} \cap 0 .. MaxTime :
          latest' = [exists |-> TRUE, mtime |-> m, version |-> calibrator.version]
    /\ calibrator' = NotRunning
    /\ UNCHANGED <<versionFile, cache, thread>>

LoseCalibration ==
    /\ calibrator.pc # "idle"
    /\ calibrator' = NotRunning
    /\ UNCHANGED <<versionFile, latest, cache, thread>>

CalNext ==
    \/ \E t \in Threads : Load(t) \/ Stat(t) \/ Compare(t) \/ ReadFile(t) \/ Store(t)
    \/ CacheExpires
    \/ Promote \/ ChooseVersion \/ OpenVersion \/ FillVersion \/ OpenLatest \/ FillLatest
    \/ LoseCalibration

-----------------------------------------------------------------------------
(* A cache entry is trusted again when the file's time is the entry's.  Then it
   holds what the file holds, however threads and the job interleave: a reload
   never leaves superseded parameters behind under the newer time. *)
CacheCoherent ==
    (cache.held /\ cache.mtime = latest.mtime /\ validates) => cache.version = latest.version

(* Parameters in use, in the file or in the cache, are on record in their
   numbered file, wherever the job dies. *)
ParametersOnRecord ==
    \A v \in {latest.version, cache.version} \cap VersionNumbers : versionFile[v] = "full"

=============================================================================
