---------------------------- MODULE BackupProofs ----------------------------
(***************************************************************************)
(* The inductive invariant of Backup, for any number of backups, jobs that *)
(* overlap, versions of the database and jobs in the scheduler's list, and *)
(* for any set of faults.  The scheduler, the drills, the environment and  *)
(* the start of a backup preserve it; so does a backup run, up to its      *)
(* clean-up because its own record and file are nobody else's, and in the  *)
(* clean-up.  Then the theorems that follow from the invariant.            *)
(***************************************************************************)
EXTENDS Backup, TLAPS

Record == [status: Statuses, age: 0 .. Retention + 1, checksum: File, metadata: Metadata]
RunPc == {"idle", "pending", "running", "metadata", "dump", "upload", "success", "expired",
          "clean_file", "clean_row", "except"}
Run == [pc: RunPc, id: Ids \cup {0}, meta: Metadata, dump: Version \cup {Absent},
        todo: Seq(Ids), committed: BOOLEAN]
DrillPc == {"idle", "pending", "running", "download", "copying", "checksum", "scratch",
            "restore", "verify", "metric", "except", "finally"}
Drill == [pc: DrillPc, id: Ids \cup {0}, status: Statuses, checksum: File, meta: Metadata,
          restored: File, shown: Metadata, scratch: {"none", "known", "unknown"}]

RestType ==
    /\ faults \in FaultSets /\ by \in Triggers
    /\ db \in Version /\ dbUp \in BOOLEAN
    /\ next \in 1 .. MaxBackups + 1 /\ drills \in 0 .. MaxJobs 
    /\ rotten \subseteq Ids /\ moved \subseteq Ids
    /\ "db" \notin faults => dbUp
    /\ "rot" \notin faults => rotten = {}

TablesType ==
    /\ rec \in [Ids -> Record] /\ store \in [Ids -> File] /\ temp \in [Ids -> File]
    /\ run \in [Runs -> Run] /\ drill \in [Drills -> Drill]

SchedInv == SchedTypeOK

\* A run before its record is marked, and after.
Early == {"pending", "running", "metadata", "dump", "upload", "success", "except"}
Cleaning == {"expired", "clean_file", "clean_row"}

\* A run works on a backup of its own, which is too young to expire and which
\* no drill has been told of before it is stored and recorded.
RunInv(r) ==
    /\ run[r].pc # "idle" =>
          /\ run[r].id \in Ids /\ run[r].id < next /\ rec[run[r].id].age = 0
          /\ \A s \in Runs \ {r} : run[s].pc # "idle" => run[s].id # run[r].id
    /\ run[r].pc \in Early =>
          /\ rec[run[r].id].status # "SUCCESS" /\ temp[run[r].id] = Absent
          /\ \A d \in Drills : drill[d].pc # "idle" => drill[d].id # run[r].id
    /\ run[r].pc \in {"dump", "upload", "success"} => run[r].meta # Absent
    /\ run[r].pc \in {"upload", "success"} => run[r].dump \in Version
    /\ run[r].pc = "success" => store[run[r].id] = run[r].dump
    /\ run[r].pc \notin {"idle", "pending"} /\ "db" \notin faults
          => rec[run[r].id].status # "none"
    /\ run[r].pc \in Cleaning /\ faults \cap {"db", "rot"} = {} => Good(run[r].id)

\* What a clean-up has listed is expired or gone, and no run's own backup; a
\* row is about to go only when its file is gone.
Listed(b, nx, rc, rn) ==
    /\ b \in Ids /\ b < nx /\ (rc[b].status = "none" \/ rc[b].age > Retention)
    /\ \A s \in Runs : rn[s].pc # "idle" => rn[s].id # b

CleanInv(r) ==
    /\ run[r].pc \in {"clean_file", "clean_row"} => run[r].todo # <<>>
    /\ run[r].pc = "clean_row" => store[Head(run[r].todo)] = Absent
    /\ \A i \in 1 .. Len(run[r].todo) : Listed(run[r].todo[i], next, rec, run)

\* A file of a backup recorded as successful is the dump, or damaged, or gone.
RecInv(b) ==
    /\ b >= next => rec[b] = NoRec /\ store[b] = Absent /\ temp[b] = Absent
    /\ rec[b].status = "SUCCESS" =>
          /\ rec[b].checksum \in Version /\ rec[b].metadata # Absent
          /\ {store[b], temp[b]} \subseteq {rec[b].checksum, Torn, Absent}
          /\ rec[b].age <= Retention /\ b \notin rotten => store[b] = rec[b].checksum

EarlyDrill == {"pending", "running", "download", "copying", "checksum", "scratch",
               "restore", "verify"}

\* A drill knows the checksum of its backup, also when the row is gone.
DrillInv(d) ==
    /\ drill[d].pc # "idle" =>
          LET b == drill[d].id IN
          /\ b \in Ids /\ b < next
          /\ drill[d].checksum \in Version /\ drill[d].meta # Absent
          /\ {store[b], temp[b]} \subseteq {drill[d].checksum, Torn, Absent}
          /\ rec[b].status = "SUCCESS" => rec[b].checksum = drill[d].checksum
    /\ drill[d].pc = "verify" => drill[d].restored \in {drill[d].checksum, Torn, Absent}
    /\ drill[d].pc \in EarlyDrill => drill[d].status # "SUCCESS"
    /\ drill[d].status = "SUCCESS" /\ drill[d].meta # Blind
          => drill[d].restored \in {drill[d].checksum, Torn}

IInv ==
    /\ SchedInv /\ RestType /\ TablesType
    /\ \A r \in Runs : RunInv(r) /\ CleanInv(r)
    /\ \A b \in Ids : RecInv(b)
    /\ \A d \in Drills : DrillInv(d)

LEMMA Constants ==
    /\ Absent \in File /\ Torn \in File /\ Version \subseteq File /\ Absent # Torn
    /\ Absent \notin Version /\ Torn \notin Version /\ Blind \notin Version
    /\ Absent \in Metadata /\ Blind \in Metadata /\ Description \subseteq Metadata
    /\ Absent \notin Description /\ Blind \notin Description
    /\ Absent # Blind /\ 0 \in Version /\ 0 \in 0 .. Retention + 1 /\ 0 \notin Ids
    /\ Metadata = Description \cup {Blind, Absent} /\ File = Version \cup {Torn, Absent}
BY BackupAssumption DEF Absent, Torn, Blind, Version, File, Description, Metadata, Ids

LEMMA IdleTypes == NoRec \in Record /\ IdleRun \in Run /\ IdleDrill \in Drill
BY Constants DEF NoRec, Record, Statuses, IdleRun, Run, RunPc, IdleDrill, Drill, DrillPc

LEMMA InitIInv == Init => IInv
<1> SUFFICES ASSUME Init PROVE IInv
  BY Zenon
<1>1. SchedInv
  BY SchedulerAssumption DEF Init, SchedInit, SchedInv, SchedTypeOK, ScheduledJobs
<1>2. RestType
  BY Constants, BackupAssumption DEF Init, RestType
<1>3. TablesType
  BY Constants, IdleTypes, Zenon DEF Init, TablesType
<1>4. \A r \in Runs : RunInv(r) /\ CleanInv(r)
  BY DEF Init, RunInv, CleanInv, IdleRun, Early, Cleaning
<1>5. \A b \in Ids : RecInv(b)
  BY Zenon DEF Init, RecInv, NoRec
<1>6. \A d \in Drills : DrillInv(d)
  BY Zenon DEF Init, DrillInv, IdleDrill, EarlyDrill
<1> QED
  BY <1>1, <1>2, <1>3, <1>4, <1>5, <1>6, Zenon DEF IInv

-----------------------------------------------------------------------------
\* The scheduler.
LEMMA SchedKept ==
    ASSUME IInv, faults' = faults,
           \/ StartScheduler \/ RegisterJob \/ StopScheduler
           \/ (\E j \in ScheduledJobs : CallRaises(j)) \/ UNCHANGED schedVars
    PROVE  SchedInv'
<1>1. Len(JobOrder) \in Nat /\ DOMAIN JobOrder = 1 .. Len(JobOrder)
  BY SchedulerAssumption
<1>2. SchedTypeOK
  BY Zenon DEF IInv, SchedInv
<1>3. CASE StartScheduler
  BY <1>1, <1>2, <1>3 DEF StartScheduler, SchedInv, SchedTypeOK
<1>4. CASE StopScheduler
  BY <1>1, <1>2, <1>4 DEF StopScheduler, SchedInv, SchedTypeOK
<1>5. CASE \E j \in ScheduledJobs : CallRaises(j)
  BY <1>1, <1>2, <1>5, Zenon DEF CallRaises, SchedInv, SchedTypeOK
<1>6. CASE UNCHANGED schedVars
  BY <1>1, <1>2, <1>6, Zenon DEF schedVars, SchedInv, SchedTypeOK
<1>7. CASE RegisterJob
  <2> DEFINE j == JobOrder[sched]
  <2>1. j \in ScheduledJobs /\ sched' \in 0 .. Len(JobOrder) + 1 /\ raised' = raised
    BY <1>1, <1>2, <1>7 DEF RegisterJob, ScheduledJobs, SchedTypeOK
  <2>2. \/ entries' = entries
        \/ entries' = [entries EXCEPT ![j] = IF @ < MaxEntries THEN @ + 1 ELSE @]
    BY <1>2, <1>7, <2>1, SchedulerAssumption DEF RegisterJob, already_scheduled, SchedTypeOK
  <2>3. entries' \in [ScheduledJobs -> 0 .. MaxEntries]
    BY <1>2, <2>1, <2>2, SchedulerAssumption, SMTT(30) DEF SchedTypeOK
  <2> QED
    BY <1>2, <2>1, <2>3, Zenon DEF SchedInv, SchedTypeOK
<1> QED
  BY <1>3, <1>4, <1>5, <1>6, <1>7, Zenon

LEMMA SameBackups ==
    ASSUME IInv, SchedInv', UNCHANGED <<faults, backupVars>>
    PROVE  IInv'
<1>1. RestType' /\ TablesType'
  BY ZenonT(30) DEF IInv, RestType, TablesType, backupVars
<1>2. \A r \in Runs : RunInv(r)' /\ CleanInv(r)'
  BY DEF IInv, RunInv, CleanInv, Listed, backupVars, Good
<1>3. (\A b \in Ids : RecInv(b)') /\ \A d \in Drills : DrillInv(d)'
  BY ZenonT(30) DEF IInv, RecInv, DrillInv, backupVars
<1> QED
  BY <1>1, <1>2, <1>3, Zenon DEF IInv

LEMMA SchedulerInv ==
    ASSUME IInv,
           \/ SchedulerStep \/ (StopScheduler /\ UNCHANGED <<faults, backupVars>>)
           \/ \E r \in Runs : ScheduledBackup(r)
    PROVE  IInv'
<1>1. UNCHANGED <<faults, backupVars>>
  BY Zenon DEF SchedulerStep, ScheduledBackup, takes_source
<1>2. \/ StartScheduler \/ RegisterJob \/ StopScheduler
      \/ \E j \in ScheduledJobs : CallRaises(j)
  BY Zenon DEF SchedulerStep, SchedStep, ScheduledBackup, takes_source, CallRaises, Due
<1> QED
  BY <1>1, <1>2, SchedKept, SameBackups, Zenon

-----------------------------------------------------------------------------
\* A step of drill d: it goes on with its backup, or begins with one that is
\* recorded as successful; the shared file is torn, gone or as it is stored.
LEMMA DrillStepInv ==
    ASSUME IInv, NEW d \in Drills, NEW x \in Drill, DrillUnchanged,
           drills' \in 0 .. MaxJobs, drill' = [drill EXCEPT ![d] = x],
           \/ temp' = temp
           \/ /\ drill[d].pc # "idle"
              /\ \E f \in {Absent, Torn, store[drill[d].id]} :
                     temp' = [temp EXCEPT ![drill[d].id] = f],
           x.pc # "idle" =>
              \/ /\ drill[d].pc # "idle"
                 /\ x.id = drill[d].id /\ x.checksum = drill[d].checksum /\ x.meta = drill[d].meta
              \/ /\ x.id \in Ids /\ rec[x.id].status = "SUCCESS"
                 /\ x.checksum = rec[x.id].checksum /\ x.meta = rec[x.id].metadata,
           x.pc = "verify" => x.restored \in {x.checksum, Torn, Absent},
           x.pc \in EarlyDrill => x.status # "SUCCESS",
           x.status = "SUCCESS" /\ x.meta # Blind => x.restored \in {x.checksum, Torn}
    PROVE  IInv'
<1>1. /\ SchedInv' /\ RestType'
      /\ UNCHANGED <<rec, store, run, next, rotten, faults>>
  BY SchedKept, Zenon DEF DrillUnchanged, IInv, RestType
<1>2. PICK f \in File, b \in Ids : temp' = [temp EXCEPT ![b] = f] /\
         \/ f = temp[b]
         \/ b = drill[d].id /\ drill[d].pc # "idle" /\ f \in {Absent, Torn, store[b]}
  <2>1. 1 \in Ids /\ temp = [temp EXCEPT ![1] = temp[1]] /\ temp[1] \in File
    BY BackupAssumption DEF IInv, TablesType, Ids
  <2>2. drill[d].pc # "idle" => drill[d].id \in Ids /\ store[drill[d].id] \in File
    BY Zenon DEF IInv, DrillInv, TablesType
  <2> QED
    BY <2>1, <2>2, Constants
<1>3. TablesType'
  BY <1>1, <1>2, ZenonT(30) DEF IInv, TablesType
<1>4. /\ b \in Ids
      /\ \A c \in Ids : temp'[c] = IF c = b THEN f ELSE temp[c]
      /\ \A e \in Drills : drill'[e] = IF e = d THEN x ELSE drill[e]
  BY <1>2 DEF IInv, TablesType, DrillInv
<1>5. ASSUME NEW e \in Drills PROVE DrillInv(e)'
  <2>1. ASSUME drill'[e].pc # "idle"
        PROVE  LET c == drill'[e].id IN
          /\ c \in Ids /\ c < next
          /\ drill'[e].checksum \in Version /\ drill'[e].meta # Absent
          /\ {store[c], temp[c]} \subseteq {drill'[e].checksum, Torn, Absent}
          /\ rec[c].status = "SUCCESS" => rec[c].checksum = drill'[e].checksum
    <3>1. CASE drill[e].pc # "idle" /\ drill'[e].id = drill[e].id
               /\ drill'[e].checksum = drill[e].checksum /\ drill'[e].meta = drill[e].meta
      BY <3>1 DEF IInv, DrillInv
    <3>2. CASE LET c == drill'[e].id IN
               /\ c \in Ids /\ rec[c].status = "SUCCESS"
               /\ drill'[e].checksum = rec[c].checksum /\ drill'[e].meta = rec[c].metadata
      <4>1. drill'[e].id < next
        BY <3>2, SMTT(30) DEF IInv, RecInv, NoRec, RestType, Ids
      <4> QED
        BY <3>2, <4>1, ZenonT(30) DEF IInv, RecInv
    <3> QED
      BY <1>4, <2>1, <3>1, <3>2, SMTT(30)
  <2>2. ASSUME drill'[e].pc # "idle"
        PROVE  temp'[drill'[e].id] \in {drill'[e].checksum, Torn, Absent}
    BY <1>4, <1>2, <2>1, <2>2, SMTT(30)
  <2>3. /\ drill'[e].pc = "verify" => drill'[e].restored \in {drill'[e].checksum, Torn, Absent}
        /\ drill'[e].pc \in EarlyDrill => drill'[e].status # "SUCCESS"
        /\ drill'[e].status = "SUCCESS" /\ drill'[e].meta # Blind
              => drill'[e].restored \in {drill'[e].checksum, Torn}
    BY <1>4 DEF IInv, DrillInv
  <2> QED
    BY <1>1, <2>1, <2>2, <2>3, ZenonT(30) DEF DrillInv
<1>6. ASSUME NEW c \in Ids PROVE RecInv(c)'
  <2>1. CASE temp'[c] = temp[c]
    BY <1>1, <2>1, ZenonT(30) DEF IInv, RecInv
  <2>2. CASE c = drill[d].id /\ drill[d].pc # "idle" /\ temp'[c] \in {Absent, Torn, store[c]}
    <3>1. c < next /\ RecInv(c)
      BY <2>2, Zenon DEF IInv, DrillInv
    <3>2. next \in Nat /\ c \in Nat
      BY SMTT(30) DEF IInv, RestType, Ids
    <3> QED
      BY <1>1, <2>2, <3>1, <3>2 DEF RecInv
  <2> QED
    BY <1>2, <1>4, <2>1, <2>2
<1>7. ASSUME NEW r \in Runs PROVE RunInv(r)' /\ CleanInv(r)'
  <2>1. CleanInv(r)'
    BY <1>1, Zenon DEF IInv, CleanInv, Listed
  <2>2. ASSUME run[r].pc \in Early
        PROVE  /\ temp'[run[r].id] = Absent
               /\ \A e \in Drills : drill'[e].pc # "idle" => drill'[e].id # run[r].id
    <3>1. /\ rec[run[r].id].status # "SUCCESS" /\ temp[run[r].id] = Absent
          /\ \A e \in Drills : drill[e].pc # "idle" => drill[e].id # run[r].id
          /\ run[r].id \in Ids
      BY <2>2, Zenon DEF IInv, RunInv, Early
    <3> QED
      BY <1>2, <1>4, <3>1
  <2> QED
    BY <1>1, <2>1, <2>2 DEF IInv, RunInv, Good
<1> QED
  BY <1>1, <1>3, <1>5, <1>6, <1>7, Zenon DEF IInv

\* A drill under way goes on with the backup, checksum and description it has.
GoesOn(d) ==
    /\ drill' = [drill EXCEPT ![d] = drill'[d]] /\ drill'[d] \in Drill
    /\ drill'[d].checksum = drill[d].checksum /\ drill'[d].meta = drill[d].meta
    /\ drill'[d].pc # "idle" => drill'[d].id = drill[d].id

LEMMA DrillGoesOn ==
    ASSUME IInv, NEW d \in Drills, drill[d].pc # "idle", DrillUnchanged, drills' = drills,
           GoesOn(d),
           \/ temp' = temp
           \/ \E f \in {Absent, Torn, store[drill[d].id]} :
                  temp' = [temp EXCEPT ![drill[d].id] = f],
           drill'[d].pc = "verify" => drill'[d].restored \in {drill[d].checksum, Torn, Absent},
           drill'[d].pc \in EarlyDrill => drill'[d].status # "SUCCESS",
           drill'[d].status = "SUCCESS" /\ drill[d].meta # Blind
              => drill'[d].restored \in {drill[d].checksum, Torn}
    PROVE  IInv'
<1>1. drills \in 0 .. MaxJobs
  BY Zenon DEF IInv, RestType
<1> HIDE DEF IInv, Drill
<1> QED
  BY <1>1, DrillStepInv DEF GoesOn

LEMMA ShownTypes ==
    ASSUME NEW d \in Drills, drill[d].restored \in File, NEW shown \in Shown(d)
    PROVE  shown \in Metadata /\ (drill[d].restored = Absent => shown = Blind)
<1>1. ASSUME NEW v \in Version PROVE Described(v) \in Description
  BY BackupAssumption DEF Described, Description, Version
<1> QED
  BY <1>1, Constants, SMTT(30) DEF Shown

LEMMA DrillInvs ==
    ASSUME IInv, NEW d \in Drills,
           DrillStep(d) \/ TimeoutDrill(d) \/ CrashDrill(d)
    PROVE  IInv'
<1> DEFINE dr == drill[d]
           \* The step leaves the outcome alone.
           Same == drill'[d].status = dr.status /\ drill'[d].restored = dr.restored
<1>1. /\ dr \in Drill /\ drill \in [Drills -> Drill] /\ temp \in [Ids -> File]
      /\ DrillInv(d)
  BY Zenon DEF IInv, TablesType
<1>2. dr.pc # "idle"
  BY Zenon DEF DrillStep, RecordDrill, BeginDownload, EndDownload, CompareChecksum,
         CreateScratch, Restore, Verify, PersistDrillMetric, FailDrill, Finally,
         TimeoutDrill, CrashDrill
<1>3. /\ dr.pc \in EarlyDrill => dr.status # "SUCCESS"
      /\ dr.status = "SUCCESS" /\ dr.meta # Blind => dr.restored \in {dr.checksum, Torn}
      /\ dr.pc = "verify" => dr.restored \in {dr.checksum, Torn, Absent}
      /\ dr.id \in Ids /\ dr.checksum \in Version /\ dr.meta # Absent
      /\ temp[dr.id] \in {dr.checksum, Torn, Absent}
  BY <1>1, <1>2, Zenon DEF DrillInv
<1>4. ASSUME NEW pc \in DrillPc, DrillGoto(d, pc)
      PROVE  GoesOn(d) /\ Same /\ drill'[d].pc = pc
  BY <1>1, <1>4, Zenon DEF DrillGoto, GoesOn, Drill
\* A step that leaves the outcome alone and does not go back.
<1>5. ASSUME GoesOn(d), Same, DrillUnchanged, drills' = drills,
             \/ temp' = temp
             \/ \E f \in {Absent, Torn, store[dr.id]} : temp' = [temp EXCEPT ![dr.id] = f],
             drill'[d].pc # "verify",
             drill'[d].pc \in EarlyDrill => dr.pc \in EarlyDrill
      PROVE  IInv'
  BY <1>2, <1>3, <1>5, DrillGoesOn, Zenon
<1>6. CASE RecordDrill(d)
  <2>1. /\ GoesOn(d) /\ drill'[d].pc \in {"idle", "running", "download"}
        /\ Same \/ drill'[d].status \in {"PENDING", "RUNNING"}
    BY <1>1, <1>6, ZenonT(30) DEF RecordDrill, GoesOn, Drill, DrillPc, Statuses
  <2>2. dr.pc \in EarlyDrill
    BY <1>6, Zenon DEF RecordDrill, EarlyDrill
  <2> QED
    BY <1>2, <1>3, <1>6, <2>1, <2>2, DrillGoesOn, Zenon DEF RecordDrill
<1>7. CASE BeginDownload(d)
  BY <1>4, <1>5, <1>7, Zenon DEF BeginDownload, DrillPc, EarlyDrill
<1>8. CASE EndDownload(d)
  BY <1>4, <1>5, <1>8, Zenon DEF EndDownload, DrillPc, EarlyDrill
<1>9. CASE CompareChecksum(d)
  BY <1>4, <1>5, <1>9, Zenon DEF CompareChecksum, DrillPc, EarlyDrill
<1>10. CASE CreateScratch(d)
  <2>1. GoesOn(d) /\ Same /\ drill'[d].pc \in {"restore", "except"}
    BY <1>1, <1>10, Zenon DEF CreateScratch, GoesOn, Drill, DrillPc
  <2> QED
    BY <1>5, <1>10, <2>1, Zenon DEF CreateScratch, EarlyDrill
<1>11. CASE Restore(d)
  <2>1. dr.pc = "restore" /\ dr.status # "SUCCESS"
    BY <1>3, <1>11, Zenon DEF Restore, EarlyDrill
  <2>2. CASE DrillGoto(d, "except")
    BY <1>4, <1>5, <1>11, <2>2, Zenon DEF Restore, DrillPc, EarlyDrill
  <2>3. ASSUME NEW v \in {temp[dr.id], Absent, Torn},
               drill' = [drill EXCEPT ![d].pc = "verify", ![d].restored = v]
        PROVE  IInv'
    <3>1. v \in File /\ v \in {dr.checksum, Torn, Absent}
      BY <1>1, <1>3, Constants, Zenon
    <3>2. GoesOn(d) /\ drill'[d].status = dr.status /\ drill'[d].restored = v
      BY <1>1, <2>3, <3>1, Zenon DEF GoesOn, Drill, DrillPc
    <3> QED
      BY <1>2, <1>11, <2>1, <3>1, <3>2, DrillGoesOn, Zenon DEF Restore
  <2> QED
    BY <1>11, <2>2, <2>3, Zenon DEF Restore
<1>12. CASE Verify(d)
  <2> DEFINE Outcome(shown, ok) ==
               [drill EXCEPT ![d] =
                   IF dbUp THEN [@ EXCEPT !.pc = "metric", !.shown = shown,
                                          !.status = IF ok THEN "SUCCESS" ELSE "FAILED"]
                           ELSE [@ EXCEPT !.pc = "except"]]
  <2>0. PICK shown \in Shown(d) :
           \E ok \in Matches(dr.meta, shown) : drill' = Outcome(shown, ok)
    BY <1>12, Zenon DEF Verify
  <2>1. PICK ok \in Matches(dr.meta, shown) : drill' = Outcome(shown, ok)
    BY <2>0, Zenon
  <2>2. shown \in Metadata /\ (dr.restored = Absent => shown = Blind)
    <3>1. dr.restored \in File
      BY <1>1, Zenon DEF Drill
    <3> QED
      BY <2>0, <3>1, ShownTypes, Zenon
  <2>3. /\ GoesOn(d) /\ drill'[d].pc \in {"metric", "except"}
        /\ drill'[d].restored = dr.restored
        /\ drill'[d].status = "SUCCESS" => ok \/ dr.status = "SUCCESS"
    <3>1. CASE dbUp
      BY <1>1, <1>12, <2>1, <2>2, <3>1, ZenonT(30) DEF GoesOn, Drill, DrillPc, Statuses
    <3>2. CASE ~dbUp
      BY <1>1, <1>12, <2>1, <3>2, ZenonT(30) DEF GoesOn, Drill, DrillPc, Statuses
    <3> QED
      BY <3>1, <3>2, Zenon
  <2>4. ok /\ dr.meta # Blind => dr.restored \in {dr.checksum, Torn}
    <3>1. ok /\ dr.meta # Blind => shown # Blind
      BY <2>1, Zenon DEF Matches
    <3> QED
      BY <1>3, <1>12, <2>2, <3>1, Zenon DEF Verify
  <2> QED
    BY <1>2, <1>3, <1>12, <2>3, <2>4, DrillGoesOn, Zenon DEF Verify, EarlyDrill
<1>13. CASE PersistDrillMetric(d)
  BY <1>4, <1>5, <1>13, Zenon DEF PersistDrillMetric, DrillPc, EarlyDrill
<1>14. CASE FailDrill(d)
  <2>1. /\ GoesOn(d) /\ drill'[d].pc = "finally" /\ drill'[d].restored = dr.restored
        /\ drill'[d].status \in {dr.status, "FAILED"}
    BY <1>1, <1>14, Zenon DEF FailDrill, GoesOn, Drill, DrillPc, Statuses
  <2> QED
    BY <1>2, <1>3, <1>14, <2>1, DrillGoesOn, Zenon DEF FailDrill, EarlyDrill
<1>15. CASE Finally(d)
  <2>1. GoesOn(d) /\ Same /\ drill'[d].pc = "idle"
    BY <1>1, <1>15, Zenon DEF Finally, GoesOn, Drill, DrillPc
  <2> QED
    BY <1>5, <1>15, <2>1, Zenon DEF Finally, EarlyDrill
<1>16. CASE TimeoutDrill(d)
  <2>1. GoesOn(d) /\ Same /\ drill'[d].pc \in {"idle", "finally"}
    <3>1. PICK sc \in {"none", "known", "unknown"}, pc \in {"idle", "finally"} :
             drill' = [drill EXCEPT ![d].scratch = sc, ![d].pc = pc]
      <4>1. PICK sc \in {dr.scratch, "unknown"} :
               drill' = [drill EXCEPT ![d].scratch = sc,
                   ![d].pc = IF @ \in {"pending", "running", "finally"} THEN "idle"
                             ELSE "finally"]
        BY <1>16, Zenon DEF TimeoutDrill
      <4>2. sc \in {"none", "known", "unknown"}
        BY <1>1, Zenon DEF Drill
      <4>3. CASE dr.pc \in {"pending", "running", "finally"}
        <5>1. drill' = [drill EXCEPT ![d].scratch = sc, ![d].pc = "idle"]
          BY <1>1, <4>1, <4>3, Zenon
        <5> QED
          BY <4>2, <5>1, Zenon
      <4>4. CASE dr.pc \notin {"pending", "running", "finally"}
        <5>1. drill' = [drill EXCEPT ![d].scratch = sc, ![d].pc = "finally"]
          BY <1>1, <4>1, <4>4, Zenon
        <5> QED
          BY <4>2, <5>1, Zenon
      <4> QED
        BY <4>3, <4>4, Zenon
    <3> QED
      BY <1>1, <3>1, Zenon DEF GoesOn, Drill, DrillPc
  <2> QED
    BY <1>5, <1>16, <2>1, Zenon DEF TimeoutDrill, EarlyDrill
<1>17. CASE CrashDrill(d)
  <2>1. GoesOn(d) /\ Same /\ drill'[d].pc = "idle"
    BY <1>4, <1>17, Zenon DEF CrashDrill, DrillPc
  <2> QED
    BY <1>5, <1>17, <2>1, Zenon DEF CrashDrill, EarlyDrill
<1> QED
  BY <1>6, <1>7, <1>8, <1>9, <1>10, <1>11, <1>12, <1>13, <1>14, <1>15, <1>16, <1>17, Zenon
     DEF DrillStep

LEMMA DrillBegins ==
    ASSUME IInv, NEW d \in Drills, BeginDrill(d) \/ ScheduledDrill(d)
    PROVE  IInv'
<1>1. DrillUnchanged /\ temp' = temp /\ drills' \in 0 .. MaxJobs
  <2>1. drills \in 0 .. MaxJobs /\ next \in Nat \ {0} /\ MaxJobs \in Nat
    BY BackupAssumption DEF IInv, RestType
  <2> QED
    <3>1. CASE BeginDrill(d)
      <4>1. DrillUnchanged /\ temp' = temp /\ drills' = drills + 1 /\ next + drills <= MaxJobs
        BY <3>1, Zenon DEF BeginDrill
      <4> QED
        BY <2>1, <4>1
    <3>2. CASE ScheduledDrill(d)
      BY <2>1, <3>2, Zenon DEF ScheduledDrill
    <3> QED
      BY <3>1, <3>2, Zenon
<1>2. CASE drill' = [drill EXCEPT ![d] = NoBackupFound]
  <2>1. /\ NoBackupFound \in Drill
        /\ NoBackupFound.pc = "idle" /\ NoBackupFound.status = "FAILED"
    BY IdleTypes, Zenon DEF NoBackupFound, IdleDrill, Drill, Statuses
  <2> QED
    BY <1>1, <1>2, <2>1, DrillStepInv, Zenon DEF EarlyDrill
<1>3. ASSUME NEW b \in Ids, rec[b].status = "SUCCESS",
             drill' = [drill EXCEPT ![d] =
                          [IdleDrill EXCEPT !.pc = "pending", !.id = b,
                                            !.checksum = rec[b].checksum,
                                            !.meta = rec[b].metadata]]
      PROVE  IInv'
  <2> DEFINE x == [IdleDrill EXCEPT !.pc = "pending", !.id = b, !.checksum = rec[b].checksum,
                                    !.meta = rec[b].metadata]
  <2>1. rec[b].checksum \in File /\ rec[b].metadata \in Metadata
    BY Zenon DEF IInv, TablesType, Record
  <2>2. /\ x \in Drill /\ x.pc = "pending" /\ x.id = b /\ x.status = "none"
        /\ x.checksum = rec[b].checksum /\ x.meta = rec[b].metadata
    BY <2>1, IdleTypes, Zenon DEF IdleDrill, Drill, DrillPc
  <2> QED
    BY <1>1, <1>3, <2>2, DrillStepInv, Zenon
<1> QED
  BY <1>2, <1>3, Zenon DEF BeginDrill, ScheduledDrill

-----------------------------------------------------------------------------
(* The environment.                                                        *)

LEMMA TickInv == ASSUME IInv, Tick PROVE IInv'
<1>1. /\ UNCHANGED <<faults, store, temp, run, drill, next, rotten>>
      /\ \A r \in Runs : run[r].pc = "idle"
  BY Zenon DEF Tick, Quiet
<1>2. SchedInv' /\ RestType'
  BY SchedKept, Zenon DEF Tick, IInv, RestType
<1>3. \A b \in Ids : /\ rec'[b] \in Record /\ rec'[b].status = rec[b].status
                     /\ rec'[b].checksum = rec[b].checksum
                     /\ rec'[b].metadata = rec[b].metadata
                     /\ rec[b].age \in Nat /\ rec'[b].age \in Nat /\ rec'[b].age >= rec[b].age
                     /\ rec[b].status = "none" => rec'[b] = rec[b]
  <2> SUFFICES ASSUME NEW b \in Ids
               PROVE  /\ rec'[b] \in Record /\ rec'[b].status = rec[b].status
                      /\ rec'[b].checksum = rec[b].checksum
                      /\ rec'[b].metadata = rec[b].metadata
                      /\ rec[b].age \in Nat /\ rec'[b].age \in Nat /\ rec'[b].age >= rec[b].age
                      /\ rec[b].status = "none" => rec'[b] = rec[b]
    BY Zenon
  <2>1. rec[b] \in Record /\ rec[b].age \in 0 .. Retention + 1
    BY Zenon DEF IInv, TablesType, Record
  <2>2. CASE rec[b].status = "none" \/ rec[b].age > Retention
    <3>1. rec'[b] = rec[b]
      BY <2>2, Zenon DEF Tick
    <3> QED
      BY <2>1, <3>1, BackupAssumption
  <2>3. CASE ~(rec[b].status = "none" \/ rec[b].age > Retention)
    <3>1. rec'[b] = [rec[b] EXCEPT !.age = @ + 1]
      BY <2>3, Zenon DEF Tick
    <3>2. rec[b].age + 1 \in 0 .. Retention + 1
      BY <2>1, <2>3, BackupAssumption
    <3> QED
      BY <2>1, <2>3, <3>1, <3>2, BackupAssumption DEF Record
  <2> QED
    BY <2>2, <2>3, Zenon
<1>4. TablesType'
  <2>1. rec' \in [Ids -> Record]
    BY <1>3, Zenon DEF Tick
  <2> QED
    BY <1>1, <2>1, Zenon DEF IInv, TablesType
<1>5. ASSUME NEW r \in Runs PROVE RunInv(r)'
  BY <1>1, Zenon DEF RunInv, Early, Cleaning
<1>6. ASSUME NEW r \in Runs PROVE CleanInv(r)'
  <2>1. ASSUME NEW c, Listed(c, next, rec, run) PROVE Listed(c, next', rec', run')
    BY <1>1, <1>3, <2>1, BackupAssumption DEF Listed
  <2> QED
    BY <1>1, <2>1, Zenon DEF IInv, CleanInv
<1>7. ASSUME NEW b \in Ids PROVE RecInv(b)'
  <2>1. RecInv(b) /\ (rec[b] = NoRec => rec[b].status = "none")
    BY DEF IInv, NoRec
  <2>2. rec'[b].age <= Retention => rec[b].age <= Retention
    BY <1>3, BackupAssumption
  <2> QED
    BY <1>1, <1>3, <2>1, <2>2, Zenon DEF RecInv
<1>8. ASSUME NEW d \in Drills PROVE DrillInv(d)'
  BY <1>1, <1>3, ZenonT(30) DEF IInv, DrillInv
<1> QED
  BY <1>2, <1>4, <1>5, <1>6, <1>7, <1>8, Zenon DEF IInv

LEMMA DatabaseInv == ASSUME IInv, WriteDb \/ FlipDb PROVE IInv'
<1>1. UNCHANGED <<schedVars, faults, by, rec, store, temp, run, drill, next, drills, rotten>>
  BY Zenon DEF WriteDb, FlipDb
<1>0. moved' \subseteq Ids
  <2>1. \A r \in Runs : run[r].pc = "dump" => run[r].id \in Ids
    BY Zenon DEF IInv, RunInv
  <2>2. moved \subseteq Ids
    BY Zenon DEF IInv, RestType
  <2>3. CASE WriteDb
    BY <2>1, <2>2, <2>3, SMTT(30) DEF WriteDb
  <2>4. CASE FlipDb
    BY <2>2, <2>4, Zenon DEF FlipDb
  <2> QED
    BY <2>3, <2>4
<1>2. db' \in Version /\ dbUp' \in BOOLEAN /\ ("db" \notin faults => dbUp')
  <2>1. CASE WriteDb
    <3>1. db \in Int /\ Versions \in Nat \ {0} /\ db' = (db + 1) % Versions
      BY <2>1, BackupAssumption DEF WriteDb, IInv, RestType, Version
    <3> QED
      BY <2>1, <3>1 DEF WriteDb, Version, IInv, RestType
  <2>2. CASE FlipDb
    BY <2>2, Zenon DEF FlipDb, IInv, RestType
  <2> QED
    BY <2>1, <2>2, Zenon
<1>3. SchedInv' /\ RestType' /\ TablesType'
  <2>1. SchedInv'
    BY <1>1, SchedKept, Zenon
  <2>2. RestType'
    <3>1. RestType
      BY Zenon DEF IInv
    <3>2. /\ faults' = faults /\ by' = by /\ next' = next /\ drills' = drills
          /\ rotten' = rotten
      BY <1>1, Zenon
    <3> QED
      BY <1>0, <1>2, <3>1, <3>2, Zenon DEF RestType
  <2>3. TablesType'
    BY <1>1, Zenon DEF IInv, TablesType
  <2> QED
    BY <2>1, <2>2, <2>3, Zenon
<1>4. ASSUME NEW r \in Runs PROVE RunInv(r)' /\ CleanInv(r)'
  BY <1>1, Zenon DEF IInv, RunInv, CleanInv, Good
<1>5. ASSUME NEW b \in Ids PROVE RecInv(b)'
  BY <1>1, Zenon DEF IInv, RecInv
<1>6. ASSUME NEW d \in Drills PROVE DrillInv(d)'
  BY <1>1, Zenon DEF IInv, DrillInv
<1> QED
  BY <1>3, <1>4, <1>5, <1>6, Zenon DEF IInv

LEMMA RotInv == ASSUME IInv, NEW b \in Ids, Rot(b) PROVE IInv'
<1>1. PICK f \in {Torn, Absent} : store' = [store EXCEPT ![b] = f]
  BY Zenon DEF Rot
<1>2. /\ UNCHANGED <<schedVars, faults, by, db, dbUp, rec, temp, run, drill, next, drills, moved>>
      /\ "rot" \in faults /\ store[b] \in Version /\ rotten' = rotten \cup {b}
      /\ \A r \in Runs : run[r].id # b
      /\ store'[b] = f /\ \A c \in Ids : c # b => store'[c] = store[c]
  BY <1>1, Zenon DEF Rot, IInv, TablesType
<1>3. SchedInv' /\ RestType' /\ TablesType'
  BY <1>1, <1>2, SchedKept, Constants, Zenon DEF IInv, RestType, TablesType
<1>4. ASSUME NEW r \in Runs PROVE RunInv(r)'
  <2>1. RunInv(r) /\ (run[r].pc # "idle" => run[r].id \in Ids)
    BY Zenon DEF IInv, RunInv
  <2>2. run[r].pc # "idle" => store'[run[r].id] = store[run[r].id]
    BY <1>2, <2>1, Zenon
  <2>3. ~(faults \cap {"db", "rot"} = {})
    BY <1>2, Zenon
  <2> QED
    BY <1>2, <2>1, <2>2, <2>3, Zenon DEF RunInv
<1>5. ASSUME NEW r \in Runs PROVE CleanInv(r)'
  <2>1. CleanInv(r) /\ run[r].todo \in Seq(Ids)
    BY Zenon DEF IInv, TablesType, Run
  <2>2. ASSUME run[r].pc = "clean_row" PROVE store'[Head(run[r].todo)] = Absent
    <3>1. Head(run[r].todo) \in Ids /\ store[Head(run[r].todo)] = Absent
      BY <2>1, <2>2, SMTT(30) DEF CleanInv
    <3> QED
      BY <1>2, <3>1, Constants, Zenon
  <2> QED
    BY <1>2, <2>1, <2>2, Zenon DEF CleanInv
<1>6. ASSUME NEW c \in Ids PROVE RecInv(c)'
  BY <1>2, Constants DEF IInv, RecInv
<1>7. ASSUME NEW d \in Drills PROVE DrillInv(d)'
  <2>1. drill[d].pc # "idle" =>
          drill[d].id \in Ids /\ store'[drill[d].id] \in {store[drill[d].id], Torn, Absent}
    BY <1>2, Zenon DEF IInv, DrillInv
  <2> QED
    BY <1>2, <2>1, ZenonT(30) DEF IInv, DrillInv
<1> QED
  BY <1>3, <1>4, <1>5, <1>6, <1>7, Zenon DEF IInv

\* A backup that starts has an identifier nobody has used.
LEMMA StartInv ==
    ASSUME IInv, NEW r \in Runs, StartBackup(r)
    PROVE  IInv'
<1> DEFINE x == [IdleRun EXCEPT !.pc = "pending", !.id = next]
<1>1. next \in Ids /\ next' = next + 1 /\ RestType' /\ next \in Nat
  BY BackupAssumption DEF StartBackup, IInv, RestType, Ids
<1>2. /\ x \in Run /\ x.pc = "pending" /\ x.id = next /\ x.todo = <<>>
  BY <1>1, IdleTypes, Zenon DEF IdleRun, Run, RunPc
<1>3. /\ run'[r] = x /\ \A s \in Runs : s # r => run'[s] = run[s]
      /\ UNCHANGED <<rec, store, temp, drill, rotten, faults>>
  BY Zenon DEF StartBackup, IInv, TablesType
<1>4. TablesType' /\ SchedInv'
  BY <1>2, SchedKept, Zenon DEF StartBackup, IInv, TablesType
<1> HIDE DEF x
<1>5. /\ rec[next] = NoRec /\ store[next] = Absent /\ temp[next] = Absent
      /\ \A s \in Runs : run[s].pc # "idle" => run[s].id \in Ids /\ run[s].id < next
      /\ \A d \in Drills : drill[d].pc # "idle" => drill[d].id \in Ids /\ drill[d].id < next
  <2>1. rec[next] = NoRec /\ store[next] = Absent /\ temp[next] = Absent
    <3>1. RecInv(next) /\ next >= next
      BY <1>1 DEF IInv
    <3> QED
      BY <3>1, Zenon DEF RecInv
  <2>2. \A s \in Runs : run[s].pc # "idle" => run[s].id \in Ids /\ run[s].id < next
    BY Zenon DEF IInv, RunInv
  <2>3. \A d \in Drills : drill[d].pc # "idle" => drill[d].id \in Ids /\ drill[d].id < next
    BY Zenon DEF IInv, DrillInv
  <2> QED
    BY <2>1, <2>2, <2>3, Zenon
<1>6. ASSUME NEW s \in Runs PROVE RunInv(s)'
  <2>1. CASE s = r
    <3>1. run'[s] = x /\ x.id = next /\ next \in Ids /\ next < next' /\ rec'[next] = NoRec
      BY <1>1, <1>2, <1>3, <1>5, <2>1, SMTT(30)
    <3>2. \A q \in Runs \ {s} : run'[q].pc # "idle" => run'[q].id # next
      BY <1>1, <1>3, <1>5, <2>1 DEF Ids
    <3>3. \A d \in Drills : drill'[d].pc # "idle" => drill'[d].id # next
      BY <1>1, <1>3, <1>5 DEF Ids
    <3>4. temp'[next] = Absent /\ x.pc = "pending" /\ NoRec.age = 0 /\ NoRec.status = "none"
      BY <1>2, <1>3, <1>5, Zenon DEF NoRec
    <3> QED
      BY <3>1, <3>2, <3>3, <3>4, Zenon DEF RunInv, Early, Cleaning
  <2>2. CASE s # r
    <3>1. run'[s] = run[s] /\ RunInv(s) /\ (run[s].pc # "idle" => run[s].id # next)
      BY <1>1, <1>3, <1>5, <2>2 DEF IInv, Ids
    <3>2. run[s].pc # "idle" =>
             \A q \in Runs \ {s} : run'[q].pc # "idle" => run'[q].id # run[s].id
      BY <1>2, <1>3, <3>1 DEF RunInv
    <3>3. run[s].pc # "idle" => run[s].id < next'
      BY <1>1, <1>5 DEF Ids
    <3> QED
      BY <1>3, <3>1, <3>2, <3>3, ZenonT(30) DEF RunInv, Good
  <2> QED
    BY <2>1, <2>2, Zenon
<1>7. ASSUME NEW s \in Runs PROVE CleanInv(s)'
  <2>1. ASSUME NEW c, Listed(c, next, rec, run) PROVE Listed(c, next', rec', run')
    BY <1>1, <1>2, <1>3, <2>1 DEF Listed, Ids
  <2>2. CASE s = r
    BY <1>2, <1>3, <2>2 DEF CleanInv
  <2>3. CASE s # r
    <3>1. run'[s] = run[s] /\ CleanInv(s)
      BY <1>3, <2>3, Zenon DEF IInv
    <3> QED
      BY <1>3, <2>1, <3>1, Zenon DEF CleanInv
  <2> QED
    BY <2>2, <2>3, Zenon
<1>8. ASSUME NEW b \in Ids PROVE RecInv(b)'
  BY <1>1, <1>3, SMTT(30) DEF IInv, RecInv, Ids
<1>9. ASSUME NEW d \in Drills PROVE DrillInv(d)'
  BY <1>1, <1>3 DEF IInv, DrillInv, Ids
<1> QED
  BY <1>1, <1>4, <1>6, <1>7, <1>8, <1>9, Zenon DEF IInv

-----------------------------------------------------------------------------

\* A step of backup run r up to its clean-up, or its end: it writes nothing
\* but the record and the file of its own backup.
OwnStep(r) ==
    LET b == run[r].id IN
    /\ run[r].pc # "idle"
    /\ run' = [run EXCEPT ![r] = run'[r]] /\ run'[r] \in Run
    /\ rec' = [rec EXCEPT ![b] = rec'[b]] /\ rec'[b] \in Record
    /\ store' = [store EXCEPT ![b] = store'[b]] /\ store'[b] \in File
    /\ UNCHANGED <<schedVars, faults, by, db, dbUp, temp, drill, next, drills, rotten, moved>>

\* What the step makes of the run (x), of its record (y) and of its file (f).
OwnOK(r, b, x, y, f) ==
    /\ y.age = 0
    /\ run[r].pc \in Early \/ (y = rec[b] /\ f = store[b])
    /\ y.status = "SUCCESS" =>
          \/ y = rec[b] /\ f = store[b]
          \/ y.checksum \in Version /\ y.metadata # Absent /\ f = y.checksum
    /\ x.pc # "idle" => x.id = b
    /\ x.todo \in {run[r].todo, <<>>} /\ x.pc \notin {"clean_file", "clean_row"}
    /\ x.pc \in Early => run[r].pc \in Early /\ y.status # "SUCCESS"
    /\ x.pc \in {"dump", "upload", "success"} => x.meta # Absent
    /\ x.pc \in {"upload", "success"} => x.dump \in Version
    /\ x.pc = "success" => f = x.dump
    /\ x.pc \notin {"idle", "pending"} /\ "db" \notin faults => y.status # "none"
    /\ x.pc \in Cleaning /\ faults \cap {"db", "rot"} = {}
          => y.status = "SUCCESS" /\ f = y.checksum

LEMMA OwnStepInv ==
    ASSUME IInv, NEW r \in Runs, OwnStep(r),
           OwnOK(r, run[r].id, run'[r], rec'[run[r].id], store'[run[r].id])
    PROVE  IInv'
<1> DEFINE b == run[r].id
           x == run'[r]
           y == rec'[b]
           f == store'[b]
<1>0. OwnOK(r, b, x, y, f)
  BY Zenon
<1> HIDE DEF b, x, y, f
<1>1. SchedInv'
  BY SchedKept, Zenon DEF OwnStep
<1>2. RestType'
  BY ZenonT(30) DEF IInv, RestType, OwnStep
<1>3. /\ b \in Ids /\ b < next /\ run[r].pc # "idle" /\ next \in Nat /\ b \in Nat
      /\ \A s \in Runs \ {r} : run[s].pc # "idle" => run[s].id # b
      /\ run[r].pc \in Early => /\ temp[b] = Absent /\ rec[b].status # "SUCCESS"
                                /\ \A d \in Drills : drill[d].pc # "idle" => drill[d].id # b
  <2>1. RunInv(r) /\ run[r].pc # "idle" /\ next \in Nat
    BY DEF IInv, OwnStep, RestType
  <2> QED
    BY <2>1, SMTT(30) DEF RunInv, Ids, b
<1>4. TablesType'
  BY <1>3, Zenon DEF IInv, TablesType, OwnStep, b
<1>5. /\ \A s \in Runs : run'[s] = IF s = r THEN x ELSE run[s]
      /\ \A c \in Ids : rec'[c] = IF c = b THEN y ELSE rec[c]
      /\ \A c \in Ids : store'[c] = IF c = b THEN f ELSE store[c]
      /\ UNCHANGED <<temp, drill, next, faults, rotten>>
  BY ZenonT(30) DEF IInv, TablesType, OwnStep, b, x, y, f
<1>6. ASSUME NEW c \in Ids PROVE RecInv(c)'
  <2>1. CASE c # b
    BY <1>5, <2>1, SMTT(30) DEF IInv, RecInv
  <2>2. CASE c = b /\ y = rec[b] /\ f = store[b]
    BY <1>3, <1>5, <2>2, SMTT(30) DEF IInv, RecInv
  <2>3. CASE c = b /\ run[r].pc \in Early
    BY <1>0, <1>3, <1>5, <2>3, SMTT(30) DEF RecInv, OwnOK
  <2> QED
    BY <1>0, <2>1, <2>2, <2>3, Zenon DEF OwnOK
<1>7. ASSUME NEW d \in Drills PROVE DrillInv(d)'
  <2>1. drill[d].pc # "idle" => /\ drill[d].id \in Ids
                                /\ rec'[drill[d].id] = rec[drill[d].id]
                                /\ store'[drill[d].id] = store[drill[d].id]
    BY <1>0, <1>3, <1>5, ZenonT(30) DEF IInv, DrillInv, OwnOK
  <2> QED
    BY <1>5, <2>1 DEF IInv, DrillInv
<1>8. ASSUME NEW s \in Runs PROVE CleanInv(s)'
  <2>1. run[s].todo \in Seq(Ids) /\ CleanInv(s)
    BY Zenon DEF IInv, TablesType, Run
  <2>2. ASSUME NEW c, Listed(c, next, rec, run)
        PROVE  Listed(c, next', rec', run') /\ store'[c] = store[c]
    <3>1. c # b
      BY <1>3, <2>2, Zenon DEF Listed, b
    <3> QED
      BY <1>0, <1>5, <2>2, <3>1 DEF Listed, OwnOK
  <2>3. \A i \in 1 .. Len(run[s].todo) : Listed(run[s].todo[i], next', rec', run')
    BY <2>1, <2>2, Zenon DEF CleanInv
  <2>4. CASE s # r
    <3>1. run'[s] = run[s]
      BY <1>5, <2>4, Zenon
    <3>2. ASSUME run[s].pc = "clean_row" PROVE store'[Head(run[s].todo)] = Absent
      <4>1. Head(run[s].todo) = run[s].todo[1] /\ 1 \in 1 .. Len(run[s].todo)
        BY <2>1, <3>2 DEF CleanInv
      <4>2. Listed(run[s].todo[1], next, rec, run) /\ store[run[s].todo[1]] = Absent
        BY <2>1, <3>2, <4>1, Zenon DEF CleanInv
      <4> QED
        BY <2>2, <4>1, <4>2, ZenonT(30)
    <3>3. run[s].pc \in {"clean_file", "clean_row"} => run[s].todo # <<>>
      BY <2>1, Zenon DEF CleanInv
    <3> QED
      BY <2>3, <3>1, <3>2, <3>3, Zenon DEF CleanInv
  <2>5. CASE s = r
    <3>1. run'[s] = x
      BY <1>5, <2>5, Zenon
    <3>2. \A i \in 1 .. Len(x.todo) : Listed(x.todo[i], next', rec', run')
      <4>1. CASE x.todo = <<>>
        BY <4>1
      <4>2. CASE x.todo = run[s].todo
        BY <2>3, <4>2, Zenon
      <4> QED
        BY <1>0, <2>5, <4>1, <4>2, Zenon DEF OwnOK
    <3> QED
      BY <1>0, <3>1, <3>2, Zenon DEF CleanInv, OwnOK
  <2> QED
    BY <2>4, <2>5, Zenon
<1>9. ASSUME NEW s \in Runs PROVE RunInv(s)'
  <2>1. CASE s # r
    <3>1. run'[s] = run[s] /\ RunInv(s)
      BY <1>5, <2>1, Zenon DEF IInv
    <3>2. run[s].pc # "idle" => /\ run[s].id \in Ids /\ run[s].id # b
                                /\ rec'[run[s].id] = rec[run[s].id]
                                /\ store'[run[s].id] = store[run[s].id]
      BY <1>3, <1>5, <2>1, <3>1, ZenonT(30) DEF RunInv
    <3>3. run[s].pc # "idle" =>
             \A q \in Runs \ {s} : run'[q].pc # "idle" => run'[q].id # run[s].id
      BY <1>0, <1>3, <1>5, <2>1, <3>1, <3>2, ZenonT(30) DEF RunInv, OwnOK
    <3>4. CASE run[s].pc = "idle"
      BY <3>1, <3>4, Zenon DEF RunInv, Early, Cleaning
    <3>5. CASE run[s].pc # "idle"
      BY <1>5, <3>1, <3>2, <3>3, <3>5, ZenonT(30) DEF RunInv, Good
    <3> QED
      BY <3>4, <3>5, Zenon
  <2>2. CASE s = r
    <3>1. run'[s] = x /\ rec'[b] = y /\ store'[b] = f
      BY <1>3, <1>5, <2>2, Zenon
    <3>2. x.pc # "idle" => \A q \in Runs \ {s} : run'[q].pc # "idle" => run'[q].id # x.id
      BY <1>0, <1>3, <1>5, <2>2 DEF OwnOK
    <3>3. CASE x.pc = "idle"
      BY <3>1, <3>3, ZenonT(30) DEF RunInv, Early, Cleaning
    <3>4. CASE x.pc # "idle"
      <4>1. x.id = b
        BY <1>0, <3>4, Zenon DEF OwnOK
      <4> QED
        BY <1>0, <1>3, <1>5, <3>1, <3>2, <3>4, <4>1 DEF RunInv, Good, OwnOK
    <3> QED
      BY <3>3, <3>4, Zenon
  <2> QED
    BY <2>1, <2>2, Zenon
<1> QED
  BY <1>1, <1>2, <1>4, <1>6, <1>7, <1>8, <1>9, Zenon DEF IInv

\* The steps of a run up to its clean-up, and the death of its process.
LEMMA OwnSteps ==
    ASSUME IInv, NEW r \in Runs,
           \/ RecordPending(r) \/ RecordRunning(r) \/ ExtractMetadata(r) \/ CreateDump(r)
           \/ Upload(r) \/ MarkSuccess(r) \/ FailBackup(r) \/ CrashBackup(r)
    PROVE  IInv'
<1> DEFINE b == run[r].id
           R == run[r]
<1>1. /\ run \in [Runs -> Run] /\ rec \in [Ids -> Record] /\ store \in [Ids -> File]
      /\ R \in Run /\ RunInv(r) /\ db \in Version
      /\ "db" \notin faults => dbUp
  BY Zenon DEF IInv, TablesType, RestType
<1>2. /\ R.pc # "idle" /\ b \in Ids /\ rec[b].age = 0
      /\ rec[b] \in Record /\ store[b] \in File
      /\ rec = [rec EXCEPT ![b] = rec[b]] /\ store = [store EXCEPT ![b] = store[b]]
  BY <1>1, Zenon DEF RunInv, RecordPending, RecordRunning, ExtractMetadata, CreateDump, Upload,
              MarkSuccess, FailBackup, CrashBackup
<1>3. ASSUME RecordPending(r) PROVE IInv'
  <2> DEFINE pending == [NoRec EXCEPT !.status = "PENDING"]
  <2>1. pending \in Record /\ pending.age = 0 /\ pending.status = "PENDING"
    BY Constants, Zenon DEF NoRec, Record, Statuses
  <2>2. PICK y \in Record, pc \in {"running", "metadata"} :
           /\ rec' = [rec EXCEPT ![b] = y] /\ Goto(r, pc)
           /\ y.age = 0 /\ y.status # "SUCCESS" /\ (dbUp => y.status # "none")
    <3>1. CASE dbUp
      BY <1>3, <2>1, <3>1, Zenon DEF RecordPending
    <3>2. CASE ~dbUp
      BY <1>1, <1>2, <1>3, <3>2, Zenon DEF RecordPending, RunInv, Early
    <3> QED
      BY <3>1, <3>2, Zenon
  <2>3. /\ OwnStep(r) /\ run'[r].id = b /\ run'[r].todo = R.todo /\ run'[r].pc = pc
        /\ rec'[b] = y /\ store' = store
    BY <1>1, <1>2, <1>3, <2>2, Zenon DEF RecordPending, Goto, OwnStep, Run, RunPc
  <2>4. OwnOK(r, b, run'[r], rec'[b], store'[b])
    BY <1>1, <1>3, <2>2, <2>3, Zenon DEF RecordPending, OwnOK, Early, Cleaning
  <2> QED
    BY <2>3, <2>4, OwnStepInv, Zenon
<1>4. ASSUME RecordRunning(r) PROVE IInv'
  <2>1. OwnStep(r)
    BY <1>1, <1>2, <1>4, ZenonT(30) DEF RecordRunning, Goto, OwnStep, Run, RunPc, Record, Statuses
  <2>2. /\ run'[r].pc = "metadata" /\ run'[r].id = b /\ run'[r].todo = R.todo
        /\ rec'[b].age = 0 /\ rec'[b].status \in {rec[b].status, "RUNNING"}
        /\ store' = store
    BY <1>1, <1>2, <1>4, Zenon DEF RecordRunning, Goto, Run, Record
  <2>3. OwnOK(r, b, run'[r], rec'[b], store'[b])
    BY <1>1, <1>2, <1>4, <2>2, Zenon DEF RecordRunning, OwnOK, Early, Cleaning, RunInv
  <2> QED
    BY <2>1, <2>3, OwnStepInv, Zenon
<1>5. ASSUME ExtractMetadata(r) PROVE IInv'
  <2>1. PICK m \in Metadata, pc \in {"dump", "except"} :
           /\ run' = [run EXCEPT ![r].pc = pc, ![r].meta = m]
           /\ m # Absent \/ pc = "except"
    <3>1. CASE dbUp
      <4>1. Described(db) \in Description
        BY <1>1, BackupAssumption DEF Described, Description, Version
      <4> QED
        BY <1>1, <1>5, <3>1, <4>1, Constants, Zenon DEF ExtractMetadata
    <3>2. CASE ~dbUp
      <4>1. R.meta \in Metadata /\ run' = [run EXCEPT ![r].pc = "except", ![r].meta = R.meta]
        BY <1>1, <1>5, <3>2, Zenon DEF ExtractMetadata, Goto, Run
      <4> QED
        BY <4>1, Zenon
    <3> QED
      BY <3>1, <3>2, Zenon
  <2>2. OwnStep(r)
    BY <1>1, <1>2, <1>5, <2>1, Zenon DEF ExtractMetadata, OwnStep, Run, RunPc
  <2>3. /\ run'[r].pc = pc /\ run'[r].id = b /\ run'[r].todo = R.todo /\ run'[r].meta = m
        /\ rec' = rec /\ store' = store
    BY <1>1, <1>5, <2>1, Zenon DEF ExtractMetadata, Run
  <2>4. OwnOK(r, b, run'[r], rec'[b], store'[b])
    BY <1>1, <1>2, <1>5, <2>1, <2>3, Zenon DEF ExtractMetadata, OwnOK, Early, Cleaning, RunInv
  <2> QED
    BY <2>2, <2>4, OwnStepInv, Zenon
<1>6. ASSUME CreateDump(r) PROVE IInv'
  <2>1. /\ OwnStep(r) /\ run'[r].id = b /\ run'[r].todo = R.todo /\ run'[r].meta = R.meta
        /\ \/ run'[r].pc = "upload" /\ run'[r].dump = db
           \/ run'[r].pc = "except"
        /\ rec' = rec /\ store' = store
    BY <1>1, <1>2, <1>6, Zenon DEF CreateDump, OwnStep, Run, RunPc
  <2>2. OwnOK(r, b, run'[r], rec'[b], store'[b])
    BY <1>1, <1>2, <1>6, <2>1, Zenon DEF CreateDump, OwnOK, Early, Cleaning, RunInv
  <2> QED
    BY <2>1, <2>2, OwnStepInv, Zenon
<1>7. ASSUME Upload(r) PROVE IInv'
  <2>1. R.dump \in Version /\ R.meta # Absent /\ R.pc = "upload"
    BY <1>1, <1>7, Zenon DEF Upload, RunInv
  <2>2. PICK f \in File, pc \in {"success", "except"} :
           /\ store' = [store EXCEPT ![b] = f] /\ Goto(r, pc)
           /\ pc = "success" => f = R.dump
    BY <1>7, <2>1, Constants, Zenon DEF Upload
  <2>3. /\ OwnStep(r) /\ run'[r].id = b /\ run'[r].todo = R.todo /\ run'[r].meta = R.meta
        /\ run'[r].pc = pc /\ run'[r].dump = R.dump
        /\ rec' = rec /\ store'[b] = f
    BY <1>1, <1>2, <1>7, <2>2, ZenonT(30) DEF Upload, Goto, OwnStep, Run, RunPc
  <2>4. OwnOK(r, b, run'[r], rec'[b], store'[b])
    BY <1>1, <1>2, <2>1, <2>2, <2>3, Zenon DEF OwnOK, Early, Cleaning, RunInv
  <2> QED
    BY <2>3, <2>4, OwnStepInv, Zenon
<1>8. ASSUME MarkSuccess(r) PROVE IInv'
  <2>1. /\ R.dump \in Version /\ R.meta # Absent /\ R.pc = "success"
        /\ store[b] = R.dump /\ R.meta \in Metadata /\ R.dump \in File
    BY <1>1, <1>8, Constants, Zenon DEF MarkSuccess, RunInv, Run
  <2> DEFINE marked == [rec[b] EXCEPT !.status = "SUCCESS", !.checksum = R.dump,
                                      !.metadata = R.meta]
  <2>2. /\ marked \in Record /\ marked.age = 0 /\ marked.status = "SUCCESS"
        /\ marked.checksum = R.dump /\ marked.metadata = R.meta
    BY <1>2, <2>1, Zenon DEF Record, Statuses
  <2>3. PICK y \in Record :
           /\ rec' = [rec EXCEPT ![b] = y] /\ y.age = 0
           /\ \/ y = rec[b] /\ ~(dbUp /\ rec[b].status # "none")
              \/ y.status = "SUCCESS" /\ y.checksum = R.dump /\ y.metadata = R.meta
    <3>1. CASE dbUp /\ rec[b].status # "none"
      <4>1. rec' = [rec EXCEPT ![b] = marked]
        BY <1>1, <1>2, <1>8, <3>1, Zenon DEF MarkSuccess
      <4> QED
        BY <2>2, <4>1, Zenon
    <3>2. CASE ~(dbUp /\ rec[b].status # "none")
      BY <1>2, <1>8, <3>2, Zenon DEF MarkSuccess
    <3> QED
      BY <3>1, <3>2, Zenon
  <2>4. /\ OwnStep(r) /\ run'[r].id = b /\ run'[r].todo = R.todo /\ run'[r].pc = "expired"
        /\ rec'[b] = y /\ store' = store
    BY <1>1, <1>2, <1>8, <2>3, Zenon DEF MarkSuccess, Goto, OwnStep, Run, RunPc
  <2>5. rec[b].status # "SUCCESS" /\ ("db" \notin faults => dbUp /\ rec[b].status # "none")
    BY <1>1, <2>1, Zenon DEF RunInv, Early
  <2>6. OwnOK(r, b, run'[r], rec'[b], store'[b])
    BY <2>1, <2>3, <2>4, <2>5, Zenon DEF OwnOK, Early, Cleaning
  <2> QED
    BY <2>4, <2>6, OwnStepInv, Zenon
<1>9. ASSUME FailBackup(r) PROVE IInv'
  <2>1. /\ OwnStep(r) /\ run'[r] = IdleRun /\ store' = store
        /\ rec'[b].age = 0 /\ rec'[b].status \in {rec[b].status, "FAILED"}
    BY <1>1, <1>2, <1>9, IdleTypes, Zenon DEF FailBackup, OwnStep, Record, Statuses
  <2>2. OwnOK(r, b, run'[r], rec'[b], store'[b])
    BY <1>1, <1>2, <1>9, <2>1, Zenon DEF FailBackup, OwnOK, Early, Cleaning, RunInv, IdleRun
  <2> QED
    BY <2>1, <2>2, OwnStepInv, Zenon
<1>10. ASSUME CrashBackup(r) PROVE IInv'
  <2>1. PICK f \in File : /\ store' = [store EXCEPT ![b] = f]
                          /\ f = store[b] \/ R.pc = "upload"
    BY <1>2, <1>10, Constants, Zenon DEF CrashBackup
  <2>2. OwnStep(r) /\ run'[r] = IdleRun /\ rec' = rec /\ store'[b] = f
    BY <1>1, <1>2, <1>10, <2>1, IdleTypes, Zenon DEF CrashBackup, OwnStep
  <2>3. R.pc = "upload" => R.pc \in Early /\ rec[b].status # "SUCCESS"
    BY <1>1, ZenonT(30) DEF RunInv, Early
  <2>4. OwnOK(r, b, run'[r], rec'[b], store'[b])
    BY <1>2, <2>1, <2>2, <2>3 DEF OwnOK, IdleRun, Early, Cleaning
  <2> QED
    BY <2>2, <2>4, OwnStepInv, Zenon
<1> QED
  BY <1>3, <1>4, <1>5, <1>6, <1>7, <1>8, <1>9, <1>10, Zenon

\* A step of a clean-up: it touches one backup at most, an expired one.
CleanStep(r, c) ==
    /\ run[r].pc \in Cleaning
    /\ run' = [run EXCEPT ![r] = run'[r]] /\ run'[r] \in Run
    /\ run'[r].pc \in {"idle", "clean_file", "clean_row"}
    /\ run'[r].pc # "idle" => run'[r].id = run[r].id
    /\ rec' = [rec EXCEPT ![c] = rec'[c]] /\ rec'[c] \in {rec[c], NoRec}
    /\ store' = [store EXCEPT ![c] = store'[c]] /\ store'[c] \in {store[c], Absent}
    /\ Listed(c, next, rec, run) \/ (rec'[c] = rec[c] /\ store'[c] = store[c])
    /\ UNCHANGED <<schedVars, faults, by, db, dbUp, temp, drill, next, drills, rotten, moved>>

LEMMA CleanStepInv ==
    ASSUME IInv, NEW r \in Runs, NEW c \in Ids, CleanStep(r, c),
           run'[r].pc \in {"clean_file", "clean_row"} => run'[r].todo # <<>>,
           run'[r].pc = "clean_row" => store'[Head(run'[r].todo)] = Absent,
           \A i \in 1 .. Len(run'[r].todo) : Listed(run'[r].todo[i], next, rec, run)
    PROVE  IInv'
<1>1. SchedInv' /\ RestType'
  BY SchedKept, ZenonT(30) DEF CleanStep, IInv, RestType
<1>2. TablesType'
  BY IdleTypes, Constants, SMTT(30) DEF CleanStep, IInv, TablesType
<1>3. /\ \A s \in Runs : s # r => run'[s] = run[s]
      /\ \A b \in Ids : b # c => rec'[b] = rec[b] /\ store'[b] = store[b]
      /\ UNCHANGED <<temp, drill, next, faults, rotten>>
      /\ rec'[c] \in {rec[c], NoRec} /\ store'[c] \in {store[c], Absent}
      /\ run[r].pc # "idle" /\ next \in Nat
  BY DEF CleanStep, IInv, TablesType, Cleaning, RestType
<1>4. \A s \in Runs : run[s].pc # "idle" => /\ run[s].id \in Ids
                                            /\ rec'[run[s].id] = rec[run[s].id]
                                            /\ store'[run[s].id] = store[run[s].id]
  <2>1. \A s \in Runs : run[s].pc # "idle" => run[s].id \in Ids
    BY Zenon DEF IInv, RunInv
  <2>2. CASE Listed(c, next, rec, run)
    BY <1>3, <2>1, <2>2, Zenon DEF Listed
  <2>3. CASE rec'[c] = rec[c] /\ store'[c] = store[c]
    BY <1>3, <2>1, <2>3, Zenon
  <2> QED
    BY <2>2, <2>3, Zenon DEF CleanStep
<1>5. \A s \in Runs : run'[s].pc # "idle" => run[s].pc # "idle" /\ run'[s].id = run[s].id
  BY <1>3, ZenonT(30) DEF CleanStep
<1>6. ASSUME NEW b, Listed(b, next, rec, run) PROVE Listed(b, next', rec', run')
  BY <1>3, <1>5, <1>6 DEF Listed, NoRec
<1>7. ASSUME NEW s \in Runs PROVE CleanInv(s)'
  <2>1. CASE s = r
    BY <1>6, <2>1, Zenon DEF CleanInv
  <2>2. CASE s # r
    <3>1. run'[s] = run[s] /\ CleanInv(s) /\ run[s].todo \in Seq(Ids)
      BY <1>3, <2>2, Zenon DEF IInv, TablesType, Run
    <3>2. ASSUME run[s].pc = "clean_row" PROVE store'[Head(run[s].todo)] = Absent
      <4>1. Head(run[s].todo) \in Ids /\ store[Head(run[s].todo)] = Absent
        BY <3>1, <3>2 DEF CleanInv
      <4> QED
        BY <1>3, <4>1, ZenonT(30)
    <3> QED
      BY <1>6, <3>1, <3>2, Zenon DEF CleanInv
  <2> QED
    BY <2>1, <2>2, Zenon
<1>8. ASSUME NEW s \in Runs PROVE RunInv(s)'
  <2>1. CASE s = r
    <3>1. CASE run'[r].pc = "idle"
      BY <2>1, <3>1, ZenonT(30) DEF RunInv, Early, Cleaning
    <3>2. CASE run'[r].pc \in {"clean_file", "clean_row"}
      <4>1. run'[r].id = run[r].id /\ run[r].pc \in Cleaning /\ RunInv(r)
        BY <3>2, Zenon DEF CleanStep, IInv
      <4>2. \A q \in Runs \ {r} : run'[q].pc # "idle" => run'[q].id # run[r].id
        BY <1>3, <4>1 DEF RunInv, Cleaning
      <4>3. /\ run[r].pc \notin {"idle", "pending"} \cup Early
            /\ run'[r].pc \notin {"idle", "pending"} \cup Early
        BY <3>2, <4>1 DEF Early, Cleaning
      <4>4. /\ run'[r].id \in Ids /\ run'[r].id < next' /\ faults' = faults
            /\ rec'[run'[r].id] = rec[run[r].id] /\ store'[run'[r].id] = store[run[r].id]
            /\ rec[run[r].id].age = 0
        BY <1>3, <1>4, <4>1, <4>3, Zenon DEF RunInv
      <4>5. /\ "db" \notin faults' => rec'[run'[r].id].status # "none"
            /\ faults' \cap {"db", "rot"} = {} => Good(run[r].id)'
        BY <4>1, <4>3, <4>4, ZenonT(30) DEF RunInv, Good
      <4>6. run'[r].pc \notin {"dump", "upload", "success"}
        BY <3>2
      <4> QED
        BY <2>1, <4>1, <4>2, <4>3, <4>4, <4>5, <4>6, ZenonT(30) DEF RunInv
    <3> QED
      BY <3>1, <3>2, Zenon DEF CleanStep
  <2>2. CASE s # r
    <3>1. run'[s] = run[s] /\ RunInv(s)
      BY <1>3, <2>2, Zenon DEF IInv
    <3>2. run[s].pc # "idle" =>
             \A q \in Runs \ {s} : run'[q].pc # "idle" => run'[q].id # run[s].id
      BY <1>5, <3>1, Zenon DEF RunInv
    <3>3. CASE run[s].pc = "idle"
      BY <3>1, <3>3, Zenon DEF RunInv, Early, Cleaning
    <3>4. CASE run[s].pc # "idle"
      <4>1. /\ rec'[run[s].id] = rec[run[s].id] /\ store'[run[s].id] = store[run[s].id]
            /\ next' = next /\ temp' = temp /\ drill' = drill /\ faults' = faults
        BY <1>3, <1>4, <3>4, Zenon
      <4> QED
        BY <3>1, <3>2, <3>4, <4>1, ZenonT(30) DEF RunInv, Good
    <3> QED
      BY <3>3, <3>4, Zenon
  <2> QED
    BY <2>1, <2>2, Zenon
<1>9. ASSUME NEW b \in Ids PROVE RecInv(b)'
  <2>1. CASE rec'[b] = rec[b] /\ store'[b] = store[b]
    BY <1>3, <2>1, ZenonT(30) DEF IInv, RecInv
  <2>2. CASE b = c /\ Listed(c, next, rec, run)
    <3>0. rec[c].age \in Int /\ RecInv(c)
      BY BackupAssumption DEF IInv, TablesType, Record
    <3>1. /\ ~(c >= next) /\ RecInv(c)
          /\ rec[c].status = "none" \/ ~(rec[c].age <= Retention)
      BY <1>3, <2>2, <3>0, BackupAssumption DEF Listed, Ids
    <3>2. NoRec.status # "SUCCESS"
      BY DEF NoRec
    <3>3. /\ next' = next /\ temp' = temp /\ rotten' = rotten /\ b = c
          /\ rec'[c] \in {rec[c], NoRec} /\ store'[c] \in {store[c], Absent}
      BY <1>3, <2>2, Zenon
    <3>4. CASE rec'[c] = NoRec
      BY <3>1, <3>2, <3>3, <3>4, Zenon DEF RecInv
    <3>5. CASE rec'[c] = rec[c]
      BY <3>1, <3>3, <3>5, ZenonT(30) DEF RecInv
    <3> QED
      BY <3>3, <3>4, <3>5, Zenon
  <2> QED
    BY <1>3, <2>1, <2>2, ZenonT(30) DEF CleanStep
<1>10. ASSUME NEW d \in Drills PROVE DrillInv(d)'
  <2>1. drill[d].pc # "idle" =>
          /\ drill[d].id \in Ids
          /\ store'[drill[d].id] \in {store[drill[d].id], Absent}
          /\ rec'[drill[d].id] \in {rec[drill[d].id], NoRec}
    BY <1>3, Zenon DEF IInv, DrillInv
  <2>2. NoRec.status # "SUCCESS"
    BY DEF NoRec
  <2>3. DrillInv(d) /\ drill' = drill /\ next' = next /\ temp' = temp
    BY <1>3, Zenon DEF IInv
  <2> QED
    BY <2>1, <2>2, <2>3, ZenonT(30) DEF DrillInv
<1> QED
  BY <1>1, <1>2, <1>7, <1>8, <1>9, <1>10, Zenon DEF IInv

LEMMA AfterRun ==
    ASSUME IInv, NEW r \in Runs, NEW todo \in Seq(Ids), NEW committed \in BOOLEAN,
           After(r, todo, committed)
    PROVE  /\ run' = [run EXCEPT ![r] = run'[r]] /\ run'[r] \in Run
           /\ run'[r].pc \in {"idle", "clean_file"} /\ run'[r].todo = todo
           /\ run'[r].pc # "idle" => todo # <<>> /\ run'[r].id = run[r].id
<1>1. run \in [Runs -> Run]
  BY Zenon DEF IInv, TablesType
<1> DEFINE x == [run[r] EXCEPT !.pc = "clean_file", !.todo = todo, !.committed = committed]
<1>2. x \in Run /\ x.pc = "clean_file" /\ x.todo = todo /\ x.id = run[r].id
  BY <1>1, Zenon DEF Run, RunPc
<1>3. IdleRun \in Run /\ IdleRun.pc = "idle" /\ IdleRun.todo = <<>>
  BY IdleTypes, Zenon DEF IdleRun
<1>4. run' = [run EXCEPT ![r] = IF todo = <<>> THEN IdleRun ELSE x]
  BY Zenon DEF After
<1> HIDE DEF x
<1>5. CASE todo = <<>>
  BY <1>1, <1>3, <1>4, <1>5, Zenon
<1>6. CASE todo # <<>>
  BY <1>1, <1>2, <1>4, <1>6, Zenon
<1> QED
  BY <1>5, <1>6, Zenon

LEMMA ListExpiredInv ==
    ASSUME IInv, NEW r \in Runs, ListExpired(r)
    PROVE  IInv'
<1>1. run[r].pc \in Cleaning /\ run[r].pc # "idle" /\ run[r].id \in Ids
  BY Zenon DEF ListExpired, Cleaning, IInv, RunInv
<1>2. PICK todo \in IF dbUp THEN InAnyOrder(Expired) ELSE {<<>>} : After(r, todo, FALSE)
  BY Zenon DEF ListExpired
<1>3. todo \in Seq(Ids) /\ \A i \in 1 .. Len(todo) : todo[i] \in Expired
  <2>1. CASE todo = <<>>
    BY <2>1
  <2>2. CASE todo \in InAnyOrder(Expired)
    <3>1. PICK n \in 0 .. MaxBackups : todo \in [1 .. n -> Expired]
      BY <2>2, Zenon DEF InAnyOrder
    <3>2. Len(todo) = n /\ todo \in Seq(Expired)
      BY <3>1, BackupAssumption
    <3>3. Expired \subseteq Ids
      BY Zenon DEF Expired
    <3> QED
      BY <3>1, <3>2, <3>3
  <2> QED
    BY <1>2, <2>1, <2>2, Zenon
<1>4. ASSUME NEW b \in Expired PROVE Listed(b, next, rec, run)
  <2>1. b \in Ids /\ rec[b].age > Retention /\ rec[b].status # "none"
    BY Zenon DEF Expired
  <2>2. b < next
    <3>1. rec[b] # NoRec
      BY <2>1, SMTT(30) DEF NoRec
    <3> QED
      BY <2>1, <3>1, BackupAssumption DEF IInv, RecInv, RestType, Ids
  <2>3. \A s \in Runs : run[s].pc # "idle" => run[s].id # b
    <3>1. \A s \in Runs : run[s].pc # "idle" => rec[run[s].id].age = 0
      BY Zenon DEF IInv, RunInv
    <3> QED
      BY <2>1, <3>1, BackupAssumption
  <2> QED
    BY <2>1, <2>2, <2>3, Zenon DEF Listed
<1>5. /\ run' = [run EXCEPT ![r] = run'[r]] /\ run'[r] \in Run
      /\ run'[r].pc \in {"idle", "clean_file"} /\ run'[r].todo = todo
      /\ run'[r].pc # "idle" => todo # <<>> /\ run'[r].id = run[r].id
  BY <1>2, <1>3, AfterRun, Zenon
<1>6. CleanStep(r, run[r].id)
  BY <1>1, <1>5, Zenon DEF CleanStep, ListExpired, IInv, TablesType
<1>7. \A i \in 1 .. Len(todo) : Listed(todo[i], next, rec, run)
  BY <1>3, <1>4, Zenon
<1> QED
  BY <1>1, <1>5, <1>6, <1>7, CleanStepInv, Zenon

LEMMA CleanFileInv ==
    ASSUME IInv, NEW r \in Runs, CleanFile(r)
    PROVE  IInv'
<1> DEFINE todo == run[r].todo
           b == Head(todo)
<1>1. /\ run[r].pc = "clean_file" /\ run[r].pc \in Cleaning /\ run[r] \in Run
      /\ todo \in Seq(Ids) /\ todo # <<>>
      /\ \A i \in 1 .. Len(todo) : Listed(todo[i], next, rec, run)
  BY Zenon DEF CleanFile, Cleaning, IInv, TablesType, Run, CleanInv
<1>2. b \in Ids /\ Listed(b, next, rec, run)
  <2>1. b = todo[1] /\ 1 \in 1 .. Len(todo) /\ b \in Ids
    BY <1>1
  <2> QED
    BY <1>1, <2>1, ZenonT(30)
<1>3. Tail(todo) \in Seq(Ids) /\ \A i \in 1 .. Len(Tail(todo)) : Listed(Tail(todo)[i], next, rec, run)
  <2>1. Tail(todo) \in Seq(Ids) /\ Len(Tail(todo)) = Len(todo) - 1 /\ Len(todo) \in Nat
    BY <1>1
  <2>2. \A i \in 1 .. Len(Tail(todo)) : Tail(todo)[i] = todo[i + 1] /\ i + 1 \in 1 .. Len(todo)
    BY <1>1, <2>1
  <2> QED
    BY <1>1, <2>1, <2>2, Zenon
<1>4. PICK f \in {Absent, store[b]} : store' = [store EXCEPT ![b] = f]
  BY Zenon DEF CleanFile
<1>5. store' = [store EXCEPT ![b] = store'[b]] /\ store'[b] \in {store[b], Absent}
  BY <1>2, <1>4, Zenon DEF IInv, TablesType
<1>6. rec' = [rec EXCEPT ![b] = rec'[b]] /\ rec'[b] = rec[b]
  BY <1>2, Zenon DEF CleanFile, IInv, TablesType
<1>7. CASE store' = [store EXCEPT ![b] = Absent] /\ Goto(r, "clean_row")
  <2> DEFINE x == [run[r] EXCEPT !.pc = "clean_row"]
  <2>1. x \in Run /\ x.pc = "clean_row" /\ x.id = run[r].id /\ x.todo = todo
    BY <1>1, Zenon DEF Run, RunPc
  <2>2. run' = [run EXCEPT ![r] = x] /\ run \in [Runs -> Run]
    BY <1>7, Zenon DEF Goto, IInv, TablesType
  <2> HIDE DEF x
  <2>3. run'[r] = x /\ run' = [run EXCEPT ![r] = run'[r]] /\ store'[b] = Absent
    BY <1>2, <1>7, <2>2, Zenon DEF IInv, TablesType
  <2>4. CleanStep(r, b)
    BY <1>1, <1>2, <1>5, <1>6, <2>1, <2>3, Zenon DEF CleanStep, CleanFile
  <2> HIDE DEF b
  <2>5. b = Head(run'[r].todo)
    BY <2>1, <2>3, Zenon DEF b
  <2> QED
    BY <1>1, <1>2, <2>1, <2>3, <2>4, <2>5, CleanStepInv, Zenon
<1>8. CASE After(r, IF run[r].committed THEN Tail(todo) ELSE <<>>, TRUE)
  <2> DEFINE rest == IF run[r].committed THEN Tail(todo) ELSE <<>>
  <2>1. rest \in {<<>>, Tail(todo)} /\ After(r, rest, TRUE)
    BY <1>8, Zenon
  <2> HIDE DEF rest
  <2>2. rest \in Seq(Ids) /\ \A i \in 1 .. Len(rest) : Listed(rest[i], next, rec, run)
    <3>1. CASE rest = <<>>
      BY <3>1
    <3>2. CASE rest = Tail(todo)
      BY <1>3, <3>2, Zenon
    <3> QED
      BY <2>1, <3>1, <3>2, Zenon
  <2>3. /\ run' = [run EXCEPT ![r] = run'[r]] /\ run'[r] \in Run
        /\ run'[r].pc \in {"idle", "clean_file"} /\ run'[r].todo = rest
        /\ run'[r].pc # "idle" => rest # <<>> /\ run'[r].id = run[r].id
    BY <2>1, <2>2, AfterRun, Zenon
  <2>4. CleanStep(r, b)
    BY <1>1, <1>2, <1>5, <1>6, <2>3, Zenon DEF CleanStep, CleanFile
  <2> QED
    BY <1>2, <2>2, <2>3, <2>4, CleanStepInv, Zenon
<1> QED
  BY <1>7, <1>8, Zenon DEF CleanFile

LEMMA CleanRowInv ==
    ASSUME IInv, NEW r \in Runs, CleanRow(r)
    PROVE  IInv'
<1> DEFINE todo == run[r].todo
           b == Head(todo)
<1>1. /\ run[r].pc = "clean_row" /\ run[r].pc \in Cleaning /\ run[r] \in Run
      /\ todo \in Seq(Ids) /\ todo # <<>>
      /\ \A i \in 1 .. Len(todo) : Listed(todo[i], next, rec, run)
  BY Zenon DEF CleanRow, Cleaning, IInv, TablesType, Run, CleanInv
<1>2. b \in Ids /\ Listed(b, next, rec, run)
  <2>1. b = todo[1] /\ 1 \in 1 .. Len(todo) /\ b \in Ids
    BY <1>1
  <2> QED
    BY <1>1, <2>1, Zenon
<1>3. Tail(todo) \in Seq(Ids) /\ \A i \in 1 .. Len(Tail(todo)) : Listed(Tail(todo)[i], next, rec, run)
  <2>1. Tail(todo) \in Seq(Ids) /\ Len(Tail(todo)) = Len(todo) - 1 /\ Len(todo) \in Nat
    BY <1>1
  <2>2. \A i \in 1 .. Len(Tail(todo)) : Tail(todo)[i] = todo[i + 1] /\ i + 1 \in 1 .. Len(todo)
    BY <1>1, <2>1
  <2> QED
    BY <1>1, <2>1, <2>2, Zenon
<1>4. store' = [store EXCEPT ![b] = store'[b]] /\ store'[b] = store[b]
  BY <1>2, Zenon DEF CleanRow, IInv, TablesType
<1>5. PICK rest \in {<<>>, Tail(todo)}, committed \in BOOLEAN : After(r, rest, committed)
  BY Zenon DEF CleanRow
<1>6. rec' = [rec EXCEPT ![b] = rec'[b]] /\ rec'[b] \in {rec[b], NoRec}
  BY <1>2, Zenon DEF CleanRow, IInv, TablesType
<1>7. rest \in Seq(Ids) /\ \A i \in 1 .. Len(rest) : Listed(rest[i], next, rec, run)
  <2>1. CASE rest = <<>>
    BY <2>1
  <2>2. CASE rest = Tail(todo)
    BY <1>3, <2>2, Zenon
  <2> QED
    BY <2>1, <2>2, Zenon
<1>8. /\ run' = [run EXCEPT ![r] = run'[r]] /\ run'[r] \in Run
      /\ run'[r].pc \in {"idle", "clean_file"} /\ run'[r].todo = rest
      /\ run'[r].pc # "idle" => rest # <<>> /\ run'[r].id = run[r].id
  BY <1>5, <1>7, AfterRun
<1>9. CleanStep(r, b)
  BY <1>1, <1>2, <1>4, <1>6, <1>8, Zenon DEF CleanStep, CleanRow
<1> QED
  BY <1>2, <1>7, <1>8, <1>9, CleanStepInv, Zenon

LEMMA NextInv == IInv /\ [Next]_vars => IInv'
<1> SUFFICES ASSUME IInv, [Next]_vars PROVE IInv'
  BY Zenon
<1>1. CASE SchedulerStep \/ (StopScheduler /\ UNCHANGED <<faults, backupVars>>)
  BY <1>1, SchedulerInv, Zenon
<1>2. ASSUME NEW r \in Runs,
             \/ by = "operator" /\ StartBackup(r)
             \/ ScheduledBackup(r) \/ BackupStep(r) \/ CrashBackup(r)
      PROVE  IInv'
  BY <1>2, StartInv, SchedulerInv, OwnSteps, ListExpiredInv, CleanFileInv, CleanRowInv, Zenon
  DEF BackupStep
<1>3. ASSUME NEW d \in Drills,
             \/ BeginDrill(d) \/ ScheduledDrill(d) \/ DrillStep(d)
             \/ TimeoutDrill(d) \/ CrashDrill(d)
      PROVE  IInv'
  BY <1>3, DrillBegins, DrillInvs, Zenon
<1>4. CASE Tick \/ WriteDb \/ FlipDb \/ (\E b \in Ids : Rot(b))
  BY <1>4, TickInv, DatabaseInv, RotInv, Zenon
<1>5. CASE UNCHANGED vars
  BY <1>5, SameBackups, SchedKept, Zenon DEF vars, IInv
<1> QED
  BY <1>1, <1>2, <1>3, <1>4, <1>5, Zenon DEF Next

-----------------------------------------------------------------------------
LEMMA Invariant == Spec => []IInv
BY InitIInv, NextInv, PTL DEF Spec

\* What a backup is described by is what its dump has to show, unless the
\* database moved in between; a drill that succeeded was shown it.
Truthful(m, v, b, M) == m # Blind /\ b \notin M => m = Described(v)

RunSound(r) ==
    /\ run[r].pc = "dump" => Truthful(run[r].meta, db, run[r].id, moved)
    /\ run[r].pc \in {"upload", "success"}
          => Truthful(run[r].meta, run[r].dump, run[r].id, moved)

RecSound(b) ==
    rec[b].status = "SUCCESS" => Truthful(rec[b].metadata, rec[b].checksum, b, moved)

ShownSound(x) ==
    /\ x.pc \in EarlyDrill => x.status # "SUCCESS"
    /\ x.status = "SUCCESS" /\ x.meta # Blind => x.shown = x.meta

DrillSoundInv(d) ==
    /\ drill[d].pc # "idle" \/ drill[d].status = "SUCCESS"
          => Truthful(drill[d].meta, drill[d].checksum, drill[d].id, moved)
    /\ ShownSound(drill[d])

SoundInv ==
    /\ \A r \in Runs : RunSound(r)
    /\ \A b \in Ids : RecSound(b)
    /\ \A d \in Drills : DrillSoundInv(d)

LEMMA SoundInit == Init => SoundInv
BY DEF Init, SoundInv, RunSound, RecSound, DrillSoundInv, ShownSound, EarlyDrill, IdleRun,
       IdleDrill, NoRec

\* The steps of one backup run: its own record is written only by MarkSuccess.
LEMMA SoundRun ==
    ASSUME IInv, SoundInv, NEW r \in Runs,
           BackupStep(r) \/ CrashBackup(r) \/ StartBackup(r)
    PROVE  SoundInv'
<1>1. /\ run \in [Runs -> Run] /\ rec \in [Ids -> Record] /\ RunSound(r) /\ run[r] \in Run
      /\ run[r].pc # "idle" => run[r].id \in Ids
  BY Zenon DEF IInv, TablesType, SoundInv, RunInv
<1>2. drill' = drill /\ moved' = moved /\ db' = db
  BY Zenon DEF BackupStep, RecordPending, RecordRunning, ExtractMetadata, CreateDump, Upload,
     MarkSuccess, FailBackup, ListExpired, CleanFile, CleanRow, CrashBackup, StartBackup
<1>3. \A s \in Runs : s # r => run'[s] = run[s]
  BY <1>1, ZenonT(30) DEF BackupStep, RecordPending, RecordRunning, ExtractMetadata, CreateDump,
     Upload, MarkSuccess, FailBackup, ListExpired, CleanFile, CleanRow, CrashBackup,
     StartBackup, Goto, After
<1>4. RunSound(r)'
  <2>1. CASE ExtractMetadata(r)
    <3>1. CASE run'[r].pc = "except"
      BY <3>1 DEF RunSound
    <3>2. CASE run'[r].pc # "except"
      <4>1. PICK m \in {Described(db), Blind} :
               run' = [run EXCEPT ![r].pc = "dump", ![r].meta = m]
        BY <1>1, <2>1, <3>2, ZenonT(30) DEF ExtractMetadata, Goto, Run
      <4>2. run'[r].pc = "dump" /\ run'[r].meta = m
        BY <1>1, <4>1, Zenon DEF Run
      <4> QED
        BY <1>2, <4>2 DEF RunSound, Truthful
    <3> QED
      BY <3>1, <3>2, Zenon
  <2>2. CASE CreateDump(r)
    <3>1. /\ run[r].pc = "dump"
          /\ \/ /\ run'[r].pc = "upload" /\ run'[r].dump = db
                /\ run'[r].id = run[r].id /\ run'[r].meta = run[r].meta
             \/ run'[r].pc = "except"
      BY <1>1, <2>2, ZenonT(30) DEF CreateDump, Run
    <3> QED
      BY <1>1, <1>2, <3>1 DEF RunSound
  <2>3. CASE Upload(r)
    <3>1. /\ run[r].pc = "upload" /\ run'[r].pc \in {"success", "except"}
          /\ run'[r].dump = run[r].dump
          /\ run'[r].id = run[r].id /\ run'[r].meta = run[r].meta
      <4>1. run[r].pc = "upload" /\ \E pc \in {"success", "except"} : Goto(r, pc)
        BY <2>3, Zenon DEF Upload
      <4>2. PICK pc \in {"success", "except"} : run' = [run EXCEPT ![r].pc = pc]
        BY <4>1, Zenon DEF Goto
      <4>3. run'[r] = [run[r] EXCEPT !.pc = pc]
        BY <1>1, <4>2, Zenon
      <4> QED
        BY <1>1, <4>1, <4>3, Zenon DEF Run
    <3> QED
      BY <1>1, <1>2, <3>1 DEF RunSound
  <2>4. CASE \/ RecordPending(r) \/ RecordRunning(r) \/ MarkSuccess(r) \/ FailBackup(r)
             \/ ListExpired(r) \/ CleanFile(r) \/ CleanRow(r)
             \/ CrashBackup(r) \/ StartBackup(r)
    <3>1. run'[r].pc \notin {"dump", "upload", "success"}
      <4>1. CASE \E pc \in {"running", "metadata", "expired", "clean_row"} : Goto(r, pc)
        <5>1. PICK pc \in {"running", "metadata", "expired", "clean_row"} : Goto(r, pc)
          BY <4>1, Zenon
        <5>2. run'[r].pc = pc
          BY <1>1, <5>1, Zenon DEF Goto, Run
        <5> QED
          BY <5>2
      <4>2. CASE run' = [run EXCEPT ![r] = IdleRun] \/ StartBackup(r)
        <5>1. run'[r].pc = "idle" \/ run'[r].pc = "pending"
          <6>1. CASE run' = [run EXCEPT ![r] = IdleRun]
            BY <1>1, <6>1, Zenon DEF IdleRun
          <6>2. CASE StartBackup(r)
            <7>1. run'[r] = [IdleRun EXCEPT !.pc = "pending", !.id = next]
              BY <1>1, <6>2, Zenon DEF StartBackup
            <7> QED
              BY <7>1 DEF IdleRun
          <6> QED
            BY <4>2, <6>1, <6>2, Zenon
        <5> QED
          BY <5>1
      <4>3. ASSUME NEW todo, NEW committed, After(r, todo, committed)
            PROVE  run'[r].pc \notin {"dump", "upload", "success"}
        <5>1. CASE todo = <<>>
          BY <1>1, <4>2, <4>3, <5>1, Zenon DEF After
        <5>2. CASE todo # <<>>
          BY <1>1, <4>3, <5>2, Zenon DEF After, Run
        <5> QED
          BY <5>1, <5>2, Zenon
      <4> QED
        BY <2>4, <4>1, <4>2, <4>3, Zenon DEF RecordPending, RecordRunning, MarkSuccess,
           FailBackup, ListExpired, CleanFile, CleanRow, CrashBackup
    <3> QED
      BY <3>1, Zenon DEF RunSound
  <2> QED
    BY <2>1, <2>2, <2>3, <2>4, Zenon DEF BackupStep
<1>5. ASSUME NEW s \in Runs PROVE RunSound(s)'
  BY <1>2, <1>3, <1>4, ZenonT(30) DEF SoundInv, RunSound
<1>6. ASSUME NEW b \in Ids PROVE RecSound(b)'
  <2>1. CASE MarkSuccess(r) /\ b = run[r].id /\ rec'[b] # rec[b]
    <3>1. /\ run[r].pc = "success"
          /\ rec'[b].metadata = run[r].meta /\ rec'[b].checksum = run[r].dump
      BY <1>1, <2>1, ZenonT(30) DEF MarkSuccess, Record
    <3> QED
      BY <1>1, <1>2, <2>1, <3>1 DEF RunSound, RecSound
  <2>2. CASE rec'[b] = rec[b] \/ rec'[b].status # "SUCCESS"
    BY <1>2, <2>2, Zenon DEF SoundInv, RecSound
  <2>3. CASE MarkSuccess(r) /\ b # run[r].id
    <3>1. rec'[b] = rec[b]
      BY <1>1, <2>3, Zenon DEF MarkSuccess
    <3> QED
      BY <2>2, <3>1, Zenon
  <2>4. CASE \/ RecordPending(r) \/ RecordRunning(r) \/ ExtractMetadata(r) \/ CreateDump(r)
             \/ Upload(r) \/ FailBackup(r) \/ ListExpired(r) \/ CleanFile(r) \/ CleanRow(r)
             \/ CrashBackup(r) \/ StartBackup(r)
    <3>1. rec'[b] = rec[b] \/ rec'[b].status # "SUCCESS"
      <4>1. CASE RecordPending(r)
        BY <1>1, <4>1, ZenonT(30) DEF RecordPending, NoRec
      <4>2. CASE RecordRunning(r) \/ FailBackup(r)
        BY <1>1, <4>2, ZenonT(30) DEF RecordRunning, FailBackup, Record
      <4>3. CASE CleanRow(r)
        <5>1. rec' = rec \/ rec' = [rec EXCEPT ![Head(run[r].todo)] = NoRec]
          BY <4>3, Zenon DEF CleanRow
        <5>2. NoRec.status = "none"
          BY Zenon DEF NoRec
        <5> QED
          BY <1>1, <5>1, <5>2, Zenon
      <4>4. CASE \/ ExtractMetadata(r) \/ CreateDump(r) \/ Upload(r) \/ ListExpired(r)
                 \/ CleanFile(r) \/ CrashBackup(r) \/ StartBackup(r)
        BY <4>4, Zenon DEF ExtractMetadata, CreateDump, Upload, ListExpired, CleanFile,
           CrashBackup, StartBackup
      <4> QED
        BY <2>4, <4>1, <4>2, <4>3, <4>4, Zenon
    <3> QED
      BY <2>2, <3>1, Zenon
  <2> QED
    BY <2>1, <2>2, <2>3, <2>4, Zenon DEF BackupStep
<1>7. ASSUME NEW d \in Drills PROVE DrillSoundInv(d)'
  BY <1>2, Zenon DEF SoundInv, DrillSoundInv, ShownSound
<1> QED
  BY <1>5, <1>6, <1>7, Zenon DEF SoundInv

\* The steps of one drill: it is told of a backup when it begins, and of what
\* the scratch database shows when it is verified.
LEMMA SoundDrill ==
    ASSUME IInv, SoundInv, NEW d \in Drills,
           \/ BeginDrill(d) \/ ScheduledDrill(d) \/ DrillStep(d)
           \/ TimeoutDrill(d) \/ CrashDrill(d)
    PROVE  SoundInv'
<1> DEFINE dr == drill[d]
           x == drill'[d]
<1>1. /\ drill \in [Drills -> Drill] /\ dr \in Drill /\ DrillSoundInv(d)
      /\ ShownSound(dr)
  BY Zenon DEF IInv, TablesType, SoundInv, DrillSoundInv
<1>2. DrillUnchanged
  BY Zenon DEF BeginDrill, ScheduledDrill, DrillStep, TimeoutDrill, CrashDrill, RecordDrill,
     BeginDownload, EndDownload, CompareChecksum, CreateScratch, Restore, Verify,
     PersistDrillMetric, FailDrill, Finally
<1>3. rec' = rec /\ run' = run /\ db' = db /\ moved' = moved
  BY <1>2, Zenon DEF DrillUnchanged
<1>4. \A e \in Drills : e # d => drill'[e] = drill[e]
  BY <1>1, ZenonT(30) DEF BeginDrill, ScheduledDrill, DrillStep, TimeoutDrill, CrashDrill,
     RecordDrill, BeginDownload, EndDownload, CompareChecksum, CreateScratch, Restore, Verify,
     PersistDrillMetric, FailDrill, Finally, DrillGoto
\* A drill that goes on keeps its backup, and what it was shown with its outcome.
<1>5. ASSUME dr.pc # "idle", x.id = dr.id, x.checksum = dr.checksum, x.meta = dr.meta,
             \/ x.status = dr.status /\ x.shown = dr.shown
             \/ x.status # "SUCCESS"
             \/ dr.meta # Blind => x.shown = dr.meta,
             x.pc \in EarlyDrill => dr.pc \in EarlyDrill /\ x.status # "SUCCESS"
      PROVE  DrillSoundInv(d)'
  <2>1. Truthful(dr.meta, dr.checksum, dr.id, moved)
    BY <1>1, <1>5, Zenon DEF DrillSoundInv
  <2>2. ShownSound(x)
    BY <1>1, <1>5, Zenon DEF ShownSound
  <2> QED
    BY <1>3, <1>5, <2>1, <2>2, Zenon DEF DrillSoundInv
<1>6. ASSUME NEW pc \in DrillPc, DrillGoto(d, pc), dr.pc # "idle",
             pc \in EarlyDrill => dr.pc \in EarlyDrill
      PROVE  DrillSoundInv(d)'
  <2>1. x = [dr EXCEPT !.pc = pc]
    BY <1>1, <1>6, Zenon DEF DrillGoto
  <2>2. /\ x.id = dr.id /\ x.checksum = dr.checksum /\ x.meta = dr.meta /\ x.pc = pc
        /\ x.status = dr.status /\ x.shown = dr.shown
    BY <1>1, <2>1, Zenon DEF Drill
  <2> QED
    BY <1>1, <1>5, <1>6, <2>2, Zenon DEF ShownSound
<1> SUFFICES DrillSoundInv(d)'
  <2>1. ASSUME NEW e \in Drills, e # d PROVE DrillSoundInv(e)'
    BY <1>3, <1>4, <2>1, Zenon DEF SoundInv, DrillSoundInv, ShownSound
  <2>2. (\A r \in Runs : RunSound(r)') /\ (\A b \in Ids : RecSound(b)')
    BY <1>3, Zenon DEF SoundInv, RunSound, RecSound
  <2> QED
    BY <2>1, <2>2, Zenon DEF SoundInv
<1>7. CASE BeginDrill(d) \/ ScheduledDrill(d)
  <2>1. CASE drill' = [drill EXCEPT ![d] = NoBackupFound]
    <3>1. x.pc = "idle" /\ x.status = "FAILED"
      BY <1>1, <2>1, Zenon DEF NoBackupFound, IdleDrill
    <3> QED
      BY <3>1, Zenon DEF DrillSoundInv, ShownSound, EarlyDrill
  <2>2. ASSUME NEW b \in Ids, rec[b].status = "SUCCESS",
               drill' = [drill EXCEPT ![d] =
                            [IdleDrill EXCEPT !.pc = "pending", !.id = b,
                                              !.checksum = rec[b].checksum,
                                              !.meta = rec[b].metadata]]
        PROVE  DrillSoundInv(d)'
    <3>1. /\ x.id = b /\ x.checksum = rec[b].checksum /\ x.meta = rec[b].metadata
          /\ x.status = "none"
      BY <1>1, <2>2, Zenon DEF IdleDrill
    <3>2. Truthful(rec[b].metadata, rec[b].checksum, b, moved)
      BY <2>2, Zenon DEF SoundInv, RecSound
    <3> QED
      BY <1>3, <3>1, <3>2, Zenon DEF DrillSoundInv, ShownSound
  <2> QED
    BY <1>7, <2>1, <2>2, Zenon DEF BeginDrill, ScheduledDrill
<1>8. CASE RecordDrill(d)
  <2>1. /\ dr.pc \in {"pending", "running"} /\ x.pc \in {"idle", "running", "download"}
        /\ x.id = dr.id /\ x.checksum = dr.checksum /\ x.meta = dr.meta
        /\ x.shown = dr.shown /\ x.status \in {dr.status, "PENDING", "RUNNING"}
    BY <1>1, <1>8, ZenonT(30) DEF RecordDrill, Drill
  <2>2. dr.status # "SUCCESS"
    BY <1>1, <2>1, Zenon DEF ShownSound, EarlyDrill
  <2> QED
    BY <1>5, <2>1, <2>2, Zenon DEF EarlyDrill
<1>9. CASE BeginDownload(d) \/ EndDownload(d) \/ CompareChecksum(d)
  BY <1>6, <1>9, ZenonT(30) DEF BeginDownload, EndDownload, CompareChecksum, DrillPc, EarlyDrill
<1>10. CASE CreateScratch(d)
  <2>1. /\ dr.pc = "scratch" /\ x.id = dr.id /\ x.checksum = dr.checksum /\ x.meta = dr.meta
        /\ x.shown = dr.shown /\ x.status = dr.status
    BY <1>1, <1>10, ZenonT(30) DEF CreateScratch, Drill
  <2> QED
    BY <1>1, <1>5, <2>1, Zenon DEF EarlyDrill, ShownSound
<1>11. CASE Restore(d)
  <2>1. CASE DrillGoto(d, "except")
    BY <1>6, <1>11, <2>1, Zenon DEF Restore, DrillPc, EarlyDrill
  <2>2. ASSUME NEW v, drill' = [drill EXCEPT ![d].pc = "verify", ![d].restored = v]
        PROVE  DrillSoundInv(d)'
    <3>1. /\ dr.pc = "restore" /\ x.id = dr.id /\ x.checksum = dr.checksum /\ x.meta = dr.meta
          /\ x.shown = dr.shown /\ x.status = dr.status
      BY <1>1, <1>11, <2>2, Zenon DEF Restore, Drill
    <3> QED
      BY <1>1, <1>5, <3>1, Zenon DEF EarlyDrill, ShownSound
  <2> QED
    BY <1>11, <2>1, <2>2, Zenon DEF Restore
<1>12. CASE Verify(d)
  <2>1. PICK shown \in Shown(d) : \E ok \in Matches(dr.meta, shown) :
           drill' = [drill EXCEPT ![d] =
               IF dbUp THEN [@ EXCEPT !.pc = "metric", !.shown = shown,
                                      !.status = IF ok THEN "SUCCESS" ELSE "FAILED"]
                       ELSE [@ EXCEPT !.pc = "except"]]
    BY <1>12, Zenon DEF Verify
  <2>2. dr.pc = "verify" /\ dr.status # "SUCCESS"
    BY <1>1, <1>12, Zenon DEF Verify, ShownSound, EarlyDrill
  <2>3. CASE dbUp
    <3>1. PICK ok \in Matches(dr.meta, shown) :
             x = [dr EXCEPT !.pc = "metric", !.shown = shown,
                            !.status = IF ok THEN "SUCCESS" ELSE "FAILED"]
      BY <1>1, <2>1, <2>3, Zenon
    <3>2. /\ x.id = dr.id /\ x.checksum = dr.checksum /\ x.meta = dr.meta
          /\ x.shown = shown /\ x.pc = "metric" /\ (x.status = "SUCCESS" => ok)
      BY <1>1, <3>1, Zenon DEF Drill
    <3>3. dr.meta # Blind /\ ok => shown = dr.meta
      BY <3>1, Zenon DEF Matches
    <3> QED
      BY <1>5, <2>2, <3>2, <3>3, Zenon DEF EarlyDrill
  <2>4. CASE ~dbUp
    <3>1. x = [dr EXCEPT !.pc = "except"]
      BY <1>1, <2>1, <2>4, Zenon
    <3>2. /\ x.id = dr.id /\ x.checksum = dr.checksum /\ x.meta = dr.meta
          /\ x.status = dr.status /\ x.pc = "except"
      BY <1>1, <3>1, Zenon DEF Drill
    <3> QED
      BY <1>5, <2>2, <3>2, Zenon DEF EarlyDrill
  <2> QED
    BY <2>3, <2>4, Zenon
<1>13. CASE PersistDrillMetric(d)
  BY <1>6, <1>13, Zenon DEF PersistDrillMetric, DrillPc, EarlyDrill
<1>14. CASE FailDrill(d) \/ Finally(d)
  <2>1. /\ dr.pc # "idle" /\ x.pc \in {"idle", "finally"}
        /\ x.id = dr.id /\ x.checksum = dr.checksum /\ x.meta = dr.meta
        /\ x.shown = dr.shown /\ x.status \in {dr.status, "FAILED"}
    <3>1. CASE FailDrill(d)
      BY <1>1, <3>1, SMTT(30) DEF FailDrill, Drill
    <3>2. CASE Finally(d)
      BY <1>1, <3>2, SMTT(30) DEF Finally, Drill
    <3> QED
      BY <1>14, <3>1, <3>2
  <2> QED
    BY <1>5, <2>1, Zenon DEF EarlyDrill
<1>15. CASE TimeoutDrill(d)
  <2>1. PICK s : drill' = [drill EXCEPT ![d].scratch = s,
             ![d].pc = IF @ \in {"pending", "running", "finally"} THEN "idle" ELSE "finally"]
    BY <1>15, Zenon DEF TimeoutDrill
  <2>2. PICK pc \in {"idle", "finally"} : x = [dr EXCEPT !.scratch = s, !.pc = pc]
    <3>1. CASE dr.pc \in {"pending", "running", "finally"}
      <4>1. x = [dr EXCEPT !.scratch = s, !.pc = "idle"]
        BY <1>1, <2>1, <3>1, Zenon
      <4> QED
        BY <4>1, Zenon
    <3>2. CASE dr.pc \notin {"pending", "running", "finally"}
      <4>1. x = [dr EXCEPT !.scratch = s, !.pc = "finally"]
        BY <1>1, <2>1, <3>2, Zenon
      <4> QED
        BY <4>1, Zenon
    <3> QED
      BY <3>1, <3>2, Zenon
  <2>3. /\ x.pc \in {"idle", "finally"}
        /\ x.id = dr.id /\ x.checksum = dr.checksum /\ x.meta = dr.meta
        /\ x.shown = dr.shown /\ x.status = dr.status
    BY <1>1, <2>2, Zenon DEF Drill
  <2> QED
    BY <1>5, <1>15, <2>3, Zenon DEF TimeoutDrill, EarlyDrill
<1>16. CASE CrashDrill(d)
  BY <1>6, <1>16, Zenon DEF CrashDrill, DrillPc, EarlyDrill
<1> QED
  BY <1>7, <1>8, <1>9, <1>10, <1>11, <1>12, <1>13, <1>14, <1>15, <1>16, Zenon DEF DrillStep

LEMMA SoundNext == IInv /\ SoundInv /\ [Next]_vars => SoundInv'
<1> SUFFICES ASSUME IInv, SoundInv, [Next]_vars PROVE SoundInv'
  BY Zenon
<1>1. CASE WriteDb
  <2>1. /\ rec' = rec /\ run' = run /\ drill' = drill
        /\ \A b : b \notin moved' => b \notin moved
        /\ \A r \in Runs : run[r].pc = "dump" => run[r].id \in moved'
    BY <1>1, ZenonT(30) DEF WriteDb
  <2>2. (\A r \in Runs : RunSound(r)') /\ (\A b \in Ids : RecSound(b)')
    BY <2>1, ZenonT(30) DEF SoundInv, RunSound, RecSound, Truthful
  <2>3. \A d \in Drills : DrillSoundInv(d)'
    BY <2>1, ZenonT(30) DEF SoundInv, DrillSoundInv, ShownSound, Truthful
  <2> QED
    BY <2>2, <2>3, Zenon DEF SoundInv
<1>2. CASE Tick
  <2>1. run' = run /\ drill' = drill /\ db' = db /\ moved' = moved
    BY <1>2, Zenon DEF Tick
  <2>2. ASSUME NEW b \in Ids PROVE RecSound(b)'
    <3>1. rec[b] \in Record
      BY Zenon DEF IInv, TablesType
    <3>2. rec'[b] = rec[b] \/ rec'[b] = [rec[b] EXCEPT !.age = @ + 1]
      BY <1>2, Zenon DEF Tick
    <3>3. /\ rec'[b].status = rec[b].status /\ rec'[b].checksum = rec[b].checksum
          /\ rec'[b].metadata = rec[b].metadata
      BY <3>1, <3>2, Zenon DEF Record
    <3> QED
      BY <2>1, <3>3, Zenon DEF SoundInv, RecSound
  <2>3. (\A r \in Runs : RunSound(r)') /\ (\A d \in Drills : DrillSoundInv(d)')
    BY <2>1, Zenon DEF SoundInv, RunSound, DrillSoundInv, ShownSound
  <2> QED
    BY <2>2, <2>3, Zenon DEF SoundInv
<1>3. CASE UNCHANGED <<rec, run, drill, db, moved>>
  BY <1>3, Zenon DEF SoundInv, RunSound, RecSound, DrillSoundInv, ShownSound
<1>4. CASE \/ SchedulerStep \/ (StopScheduler /\ UNCHANGED <<faults, backupVars>>)
           \/ FlipDb \/ (\E b \in Ids : Rot(b)) \/ UNCHANGED vars
           \/ (\E r \in Runs : ScheduledBackup(r))
  BY <1>3, <1>4, ZenonT(30) DEF SchedulerStep, FlipDb, Rot, vars, backupVars, ScheduledBackup,
     takes_source
<1> QED
  BY <1>1, <1>2, <1>4, SoundRun, SoundDrill, Zenon DEF Next

(***************************************************************************)
(* Safety of backups and drills, for any number of overlapping runs and    *)
(* drills and every set of faults: a backup that is recorded as successful *)
(* and was not damaged in storage can be restored until it expires, and a  *)
(* drill that reports success restored the dump or part of it and found    *)
(* all that was described of it.                                           *)
(***************************************************************************)
THEOREM BackupSafety == Spec => [](TypeOK /\ Restorable /\ DrillSound)
<1>1. IInv => TypeOK
  BY Zenon DEF IInv, SchedInv, RestType, TablesType, Record, Run, RunPc, Drill, DrillPc, TypeOK
<1>2. IInv => Restorable
  BY Zenon DEF IInv, RecInv, Restorable
<1>3. IInv /\ SoundInv => DrillSound
  BY Zenon DEF IInv, DrillInv, SoundInv, DrillSoundInv, ShownSound, Truthful,
     DrillSound
<1>4. Spec => []SoundInv
  BY SoundInit, SoundNext, Invariant, PTL DEF Spec
<1> QED
  BY <1>1, <1>2, <1>3, <1>4, Invariant, PTL

(* A drill that overlaps others on the shared download, or whose psql restored
   only part of the dump, is recorded as a success only if everything described
   of the dump is there. *)
COROLLARY DrillsAreSound == Spec => []DrillSound
BY BackupSafety, PTL

\* What the steps that are no clean-up do to the rows and to the good backups.
LEMMA OtherSteps ==
    ASSUME IInv, [Next]_vars,
           ~(\E r \in Runs : ListExpired(r) \/ CleanFile(r) \/ CleanRow(r))
    PROVE  \A b \in Ids : /\ rec[b].status # "none" => rec'[b].status # "none"
                          /\ Good(b) /\ "rot" \notin faults => Good(b)'
<1> SUFFICES ASSUME NEW b \in Ids
             PROVE  /\ rec[b].status # "none" => rec'[b].status # "none"
                    /\ Good(b) /\ "rot" \notin faults => Good(b)'
  BY Zenon
<1>1. CASE UNCHANGED <<rec, store>>
  BY <1>1, Zenon DEF Good
<1>2. CASE Tick
  <2>1. rec[b] \in Record
    BY Zenon DEF IInv, TablesType
  <2>2. rec'[b] = rec[b] \/ rec'[b] = [rec[b] EXCEPT !.age = @ + 1]
    BY <1>2, Zenon DEF Tick
  <2>3. rec'[b].status = rec[b].status /\ rec'[b].checksum = rec[b].checksum
    BY <2>1, <2>2, Zenon DEF Record
  <2> QED
    BY <1>2, <2>3, Zenon DEF Tick, Good
<1>3. CASE \E c \in Ids : Rot(c)
  BY <1>3, Zenon DEF Rot
<1>4. ASSUME NEW r \in Runs,
             \/ RecordPending(r) \/ RecordRunning(r) \/ ExtractMetadata(r) \/ CreateDump(r)
             \/ Upload(r) \/ MarkSuccess(r) \/ FailBackup(r)
      PROVE  /\ rec[b].status # "none" => rec'[b].status # "none"
             /\ Good(b) => Good(b)'
  <2>1. run[r].id \in Ids /\ rec[run[r].id].status # "SUCCESS"
    BY <1>4, Zenon DEF IInv, RunInv, Early, RecordPending, RecordRunning, ExtractMetadata, CreateDump,
                Upload, MarkSuccess, FailBackup
  <2>2. b # run[r].id => rec'[b] = rec[b] /\ store'[b] = store[b]
    BY <1>4, Zenon DEF IInv, TablesType, RecordPending, RecordRunning, ExtractMetadata, CreateDump,
                Upload, MarkSuccess, FailBackup
  <2>3. rec'[run[r].id] = rec[run[r].id] \/ rec'[run[r].id].status # "none"
    <3>1. rec \in [Ids -> Record]
      BY Zenon DEF IInv, TablesType
    <3>2. CASE RecordPending(r)
      BY <2>1, <3>1, <3>2, ZenonT(30) DEF RecordPending, NoRec
    <3>3. CASE RecordRunning(r)
      BY <2>1, <3>1, <3>3, Zenon DEF RecordRunning, Record
    <3>4. CASE MarkSuccess(r)
      BY <2>1, <3>1, <3>4 DEF MarkSuccess, Record
    <3>5. CASE FailBackup(r)
      BY <2>1, <3>1, <3>5, Zenon DEF FailBackup, Record
    <3>6. CASE ExtractMetadata(r) \/ CreateDump(r) \/ Upload(r)
      BY <3>6, Zenon DEF ExtractMetadata, CreateDump, Upload
    <3> QED
      BY <1>4, <3>2, <3>3, <3>4, <3>5, <3>6, Zenon
  <2>4. CASE b # run[r].id
    BY <2>2, <2>4, Zenon DEF Good
  <2>5. CASE b = run[r].id
    BY <2>1, <2>3, <2>5, Zenon DEF Good
  <2> QED
    BY <2>4, <2>5, Zenon
<1>5. ASSUME NEW r \in Runs, CrashBackup(r)
      PROVE  /\ rec[b].status # "none" => rec'[b].status # "none"
             /\ Good(b) => Good(b)'
  <2>1. /\ rec' = rec /\ run[r].id \in Ids
        /\ run[r].pc = "upload" => rec[run[r].id].status # "SUCCESS"
    BY <1>5, Zenon DEF CrashBackup, IInv, RunInv, Early
  <2>2. store'[b] = store[b] \/ (b = run[r].id /\ run[r].pc = "upload")
    BY <1>5, <2>1, Zenon DEF CrashBackup, IInv, TablesType
  <2> QED
    BY <2>1, <2>2, Zenon DEF Good
<1>6. ASSUME NEW r \in Runs, StartBackup(r) \/ ScheduledBackup(r)
      PROVE  UNCHANGED <<rec, store>>
  BY <1>6, Zenon DEF StartBackup, ScheduledBackup, takes_source, backupVars
<1>7. ASSUME NEW d \in Drills,
             \/ BeginDrill(d) \/ ScheduledDrill(d) \/ DrillStep(d)
             \/ TimeoutDrill(d) \/ CrashDrill(d)
      PROVE  UNCHANGED <<rec, store>>
  BY <1>7, Zenon DEF BeginDrill, ScheduledDrill, DrillStep, TimeoutDrill, CrashDrill, DrillUnchanged,
              RecordDrill, BeginDownload, EndDownload, CompareChecksum, CreateScratch, Restore,
              Verify, PersistDrillMetric, FailDrill, Finally
<1>8. CASE \/ SchedulerStep \/ (StopScheduler /\ UNCHANGED <<faults, backupVars>>)
           \/ WriteDb \/ FlipDb \/ UNCHANGED vars
  BY <1>1, <1>8, Zenon DEF SchedulerStep, WriteDb, FlipDb, vars, backupVars
<1> QED
  BY <1>1, <1>2, <1>3, <1>4, <1>5, <1>6, <1>7, <1>8, Zenon DEF Next, BackupStep

(***************************************************************************)
(* Only the clean-up deletes rows, and a row goes only when its file is    *)
(* gone: for any number of overlapping clean-ups and failing deletions     *)
(* (CleanInv: a run about to delete a row has removed the file, and nobody *)
(* uploads to an expired backup).                                          *)
(***************************************************************************)
THEOREM RowsOutliveFiles == Spec => RowOutlivesFile
<1>1. ASSUME IInv, [Next]_vars
      PROVE  \A b \in Ids : rec[b].status # "none" /\ rec'[b].status = "none"
                                => store[b] = Absent
  <2>1. CASE \E r \in Runs : ListExpired(r) \/ CleanFile(r)
    BY <2>1, Zenon DEF ListExpired, CleanFile
  <2>2. ASSUME NEW r \in Runs, CleanRow(r)
        PROVE  \A b \in Ids : rec[b].status # "none" /\ rec'[b].status = "none"
                                  => store[b] = Absent
    <3>1. run[r].pc = "clean_row" /\ store[Head(run[r].todo)] = Absent
      BY <1>1, <2>2, Zenon DEF CleanRow, IInv, CleanInv
    <3>2. \A b \in Ids : b # Head(run[r].todo) => rec'[b] = rec[b]
      BY <1>1, <2>2, Zenon DEF CleanRow, IInv, TablesType
    <3> QED
      BY <3>1, <3>2, Zenon
  <2> QED
    BY <1>1, <2>1, <2>2, OtherSteps, Zenon
<1>2. IInv /\ [Next]_vars
        => [\A b \in Ids : rec[b].status # "none" /\ rec'[b].status = "none"
                               => store[b] = Absent]_vars
  BY <1>1, Zenon
<1> QED
  BY <1>2, Invariant, PTL DEF Spec, RowOutlivesFile

(***************************************************************************)
(* As long as Postgres stays up and storage does not rot, the last backup  *)
(* that can be restored is never purged: the run that cleans up has just   *)
(* recorded one, which cannot have expired (RunInv).                       *)
(***************************************************************************)
THEOREM PurgesKeepOne == Spec => PurgeKeepsOne
<1>1. ASSUME IInv, [Next]_vars, faults \cap {"db", "rot"} = {}, \E b \in Ids : Good(b)
      PROVE  (\E b \in Ids : Good(b))'
  <2>1. ASSUME NEW r \in Runs, ListExpired(r) \/ CleanFile(r) \/ CleanRow(r)
        PROVE  (\E b \in Ids : Good(b))'
    <3>1. run[r].pc \in {"expired", "clean_file", "clean_row"}
      BY <2>1, Zenon DEF ListExpired, CleanFile, CleanRow
    <3>2. run[r].id \in Ids /\ Good(run[r].id) /\ run[r].pc # "idle"
      BY <1>1, <3>1, Zenon DEF IInv, RunInv, Cleaning
    <3>3. CASE ListExpired(r)
      BY <3>2, <3>3, Zenon DEF ListExpired, Good
    <3>4. CASE CleanFile(r) \/ CleanRow(r)
      <4>1. run[r].todo # <<>> /\ run[r].todo \in Seq(Ids) /\ CleanInv(r)
        BY <1>1, <3>4, Zenon DEF CleanFile, CleanRow, IInv, CleanInv, TablesType, Run
      <4>2. Head(run[r].todo) = run[r].todo[1] /\ 1 \in 1 .. Len(run[r].todo)
        BY <4>1
      <4>3. Head(run[r].todo) # run[r].id
        BY <3>2, <4>1, <4>2, Zenon DEF CleanInv, Listed
      <4>4. rec'[run[r].id] = rec[run[r].id] /\ store'[run[r].id] = store[run[r].id]
        BY <1>1, <3>2, <3>4, <4>3, Zenon DEF CleanFile, CleanRow, IInv, TablesType
      <4> QED
        BY <3>2, <4>4, Zenon DEF Good
    <3> QED
      BY <2>1, <3>3, <3>4, Zenon
  <2>2. CASE ~(\E r \in Runs : ListExpired(r) \/ CleanFile(r) \/ CleanRow(r))
    BY <1>1, <2>2, OtherSteps, Zenon
  <2> QED
    BY <2>1, <2>2, Zenon
<1>2. IInv /\ [Next]_vars
        => [faults \cap {"db", "rot"} = {} /\ (\E b \in Ids : Good(b))
               => (\E b \in Ids : Good(b))']_vars
  BY <1>1, Zenon
<1> QED
  BY <1>2, Invariant, PTL DEF Spec, PurgeKeepsOne
=============================================================================
