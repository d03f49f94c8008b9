--------------------------- MODULE DataJobsProofs ---------------------------
(***************************************************************************)
(* Theorems about four of the jobs of DataJobs that share the workers and  *)
(* the database: the dataset export, the calibration, the pattern mining   *)
(* and the scaling telemetry. Each has an invariant over its own variables *)
(* (ExportInv, CalInv, MineInv, ScalingInv), which the other jobs leave    *)
(* alone (JobSteps). They hold for any number of exports, versions,        *)
(* threads, miners, patterns and samples, and any fault.                   *)
(*                                                                         *)
(* The verdict of the scaling policy is a fold over a window of samples.   *)
(* WalkIsRight says what it computes for every window, by induction along  *)
(* the samples with the sets of FilteringTheorems.                         *)
(***************************************************************************)
EXTENDS DataJobs, FilteringTheorems

-----------------------------------------------------------------------------
(* A step of the system is a step of one job, or leaves that job alone. *)

LEMMA JobSteps ==
    ASSUME [Next]_jobVars
    PROVE  /\ [IngestNext]_ingestVars
           /\ [MineNext]_mineVars
           /\ [CalNext]_calVars
           /\ [ExportNext]_exportVars
           /\ [ScalingNext]_scalingVars
BY Zenon DEF Next, jobVars

-----------------------------------------------------------------------------
(* Dataset export *)

\* A file of export n.
File(place, kind, n, whole) == [place |-> place, kind |-> kind, export |-> n, whole |-> whole]

(* An export that runs has no manifest in the storage yet, and the files that
   it has copied are complete. *)
ExportInv ==
    /\ ExportTypeOK
    /\ \A f \in exportFiles : f.export <= exports
    /\ exportStep # 0 => exports # 0 /\ File("stored", "manifest", exports, TRUE) \notin exportFiles
    /\ exportStep >= 5 => File("stored", "archive", exports, TRUE) \in exportFiles
    /\ exportStep >= 6 => File("stored", "checksum", exports, TRUE) \in exportFiles
    /\ \A n \in 1 .. MaxExports : \A k \in {"archive", "checksum"} :
          File("stored", "manifest", n, TRUE) \in exportFiles
             => File("stored", k, n, TRUE) \in exportFiles

LEMMA FileType ==
    ASSUME NEW p \in {"local", "stored"}, NEW k \in {"archive", "checksum", "manifest"},
           NEW n \in 1 .. MaxExports, NEW w \in BOOLEAN
    PROVE  File(p, k, n, w) \in Files
BY DEF File, Files

LEMMA FileIsItsFields ==
    ASSUME NEW f \in Files
    PROVE  f = File(f.place, f.kind, f.export, f.whole)
BY DEF File, Files

\* The write of one file leaves every other file alone.
LEMMA WrittenFiles ==
    ASSUME ExportInv, exportStep # 0, NEW b \in BOOLEAN, Written(b)
    PROVE  /\ exportFiles' \subseteq Files
           /\ \A f \in exportFiles' : f.export <= exports
           /\ \A p, k, n, w :
                 (n # exports /\ k # "manifest") =>
                    (File(p, k, n, w) \in exportFiles' <=> File(p, k, n, w) \in exportFiles)
           /\ \A n, w : exportStep # 6 =>
                 (File("stored", "manifest", n, w) \in exportFiles'
                    <=> File("stored", "manifest", n, w) \in exportFiles)
           /\ \A n : (exportStep = 6 /\ File("stored", "manifest", n, TRUE) \in exportFiles')
                 => n = exports /\ b
           /\ \A k, w : <<"stored", k>> # Writes[exportStep] =>
                 (File("stored", k, exports, w) \in exportFiles'
                    <=> File("stored", k, exports, w) \in exportFiles)
           /\ File(Writes[exportStep][1], Writes[exportStep][2], exports, b) \in exportFiles'
<1> DEFINE w == Writes[exportStep]
           new == File(w[1], w[2], exports, b)
<1>1. /\ exportFiles \subseteq Files /\ exportStep \in 1 .. 6 /\ exports \in 1 .. MaxExports
      /\ \A f \in exportFiles : f.export <= exports
  BY DEF ExportInv, ExportTypeOK
<1>2. /\ w = <<w[1], w[2]>> /\ w[1] \in {"local", "stored"}
      /\ w[2] \in {"archive", "checksum", "manifest"}
      /\ exportStep = 6 <=> w = <<"stored", "manifest">>
  <2>1. \/ /\ exportStep # 6
           /\ exportStep = 1 \/ exportStep = 2 \/ exportStep = 3 \/ exportStep = 4 \/ exportStep = 5
        \/ exportStep = 6
    BY <1>1
  <2>2. /\ Writes[1] = <<"local", "archive">> /\ Writes[2] = <<"local", "checksum">>
        /\ Writes[3] = <<"local", "manifest">> /\ Writes[4] = <<"stored", "archive">>
        /\ Writes[5] = <<"stored", "checksum">> /\ Writes[6] = <<"stored", "manifest">>
    BY DEF Writes
  <2>3. /\ exportStep = 1 => w = <<"local", "archive">>
        /\ exportStep = 2 => w = <<"local", "checksum">>
        /\ exportStep = 3 => w = <<"local", "manifest">>
        /\ exportStep = 4 => w = <<"stored", "archive">>
        /\ exportStep = 5 => w = <<"stored", "checksum">>
        /\ exportStep = 6 => w = <<"stored", "manifest">>
    BY <2>2, Zenon
  <2> HIDE DEF w
  <2>4. CASE exportStep = 6
    BY <2>3, <2>4
  <2>5. CASE exportStep = 5
    BY <2>3, <2>5
  <2>6. CASE exportStep = 4
    BY <2>3, <2>6
  <2>7. CASE exportStep \in {1, 2, 3}
    <3>1. \E k \in {"archive", "checksum", "manifest"} : w = <<"local", k>>
      BY <2>3, <2>7, Zenon
    <3> QED
      BY <2>7, <3>1
  <2> QED
    BY <2>1, <2>4, <2>5, <2>6, <2>7, Zenon
<1>3. new \in Files /\ new.place = w[1] /\ new.kind = w[2] /\ new.export = exports /\ new.whole = b
  <2> HIDE DEF w
  <2>1. new \in Files
    BY <1>1, <1>2, FileType, Zenon
  <2>2. new.place = w[1] /\ new.kind = w[2] /\ new.export = exports /\ new.whole = b
    BY Zenon DEF File
  <2> QED
    BY <2>1, <2>2, Zenon
<1>4. exportFiles' = {f \in exportFiles : ~replaced(f, w)} \cup {new}
  BY DEF Written, File
<1> HIDE DEF w, new
<1>5. exports <= exports
  BY <1>1
<1>6. exportFiles' \subseteq Files /\ \A f \in exportFiles' : f.export <= exports
  BY <1>1, <1>3, <1>4, <1>5, Zenon
<1>7. ASSUME NEW p, NEW k, NEW n, NEW v
      PROVE  /\ File(p, k, n, v) \in exportFiles' <=>
                   \/ File(p, k, n, v) = new
                   \/ File(p, k, n, v) \in exportFiles /\ ~(<<p, k>> = w /\ (k = "manifest" \/ n = exports))
             /\ File(p, k, n, v) = new => p = w[1] /\ k = w[2] /\ n = exports /\ v = b
  <2> DEFINE f == File(p, k, n, v)
  <2>1. f.place = p /\ f.kind = k /\ f.export = n /\ f.whole = v
    BY Zenon DEF File
  <2> HIDE DEF f
  <2>2. f \in exportFiles' <=> f = new \/ (f \in exportFiles /\ ~replaced(f, w))
    BY <1>4, Zenon
  <2>3. replaced(f, w) <=> <<p, k>> = w /\ (k = "manifest" \/ n = exports)
    BY <2>1, Zenon DEF replaced
  <2>4. f = new => p = w[1] /\ k = w[2] /\ n = exports /\ v = b
    BY <1>3, <2>1, Zenon
  <2> QED
    BY <2>2, <2>3, <2>4, Zenon DEF f
<1>8. \A k : <<"stored", k>> = w <=> ("stored" = w[1] /\ k = w[2])
  BY <1>2
<1>9. ASSUME NEW p, NEW k, NEW n, NEW v, n # exports, k # "manifest"
      PROVE  File(p, k, n, v) \in exportFiles' <=> File(p, k, n, v) \in exportFiles
  BY <1>7, <1>9, Zenon
<1>10. ASSUME NEW n, NEW v, exportStep # 6
       PROVE  File("stored", "manifest", n, v) \in exportFiles'
                    <=> File("stored", "manifest", n, v) \in exportFiles
  BY <1>2, <1>7, <1>8, <1>10, Zenon
<1>11. ASSUME NEW n, exportStep = 6, File("stored", "manifest", n, TRUE) \in exportFiles'
       PROVE  n = exports /\ b
  BY <1>2, <1>7, <1>11, Zenon
<1>12. ASSUME NEW k, NEW v, <<"stored", k>> # w
       PROVE  File("stored", k, exports, v) \in exportFiles'
                    <=> File("stored", k, exports, v) \in exportFiles
  BY <1>7, <1>8, <1>12, Zenon
<1>13. new \in exportFiles'
  BY <1>4, Zenon
<1> QED
  BY <1>6, <1>9, <1>10, <1>11, <1>12, <1>13, Zenon DEF w, new

LEMMA WritesOrder ==
    /\ Writes[4] = <<"stored", "archive">> /\ Writes[5] = <<"stored", "checksum">>
    /\ Writes[6] = <<"stored", "manifest">>
    /\ Writes[4][1] = "stored" /\ Writes[4][2] = "archive"
    /\ Writes[5][1] = "stored" /\ Writes[5][2] = "checksum"
    /\ <<"stored", "archive">> # <<"stored", "checksum">>
    /\ <<"stored", "archive">> # <<"stored", "manifest">>
    /\ <<"stored", "checksum">> # <<"stored", "manifest">>
BY DEF Writes

LEMMA ExportInitInv == ExportInit => ExportInv
BY ExportAssumption DEF ExportInit, ExportInv, ExportTypeOK

LEMMA ExportNextInv ==
    ASSUME ExportInv, [ExportNext]_exportVars
    PROVE  ExportInv'
<1> USE DEF ExportTypeOK
<1>1. CASE UNCHANGED exportVars
  BY <1>1, Zenon DEF ExportInv, ExportTypeOK, exportVars
<1>2. CASE StartExport
  <2>1. exportFiles' = exportFiles /\ exportStep' = 1 /\ exports' = exports + 1
    BY <1>2 DEF StartExport
  <2>2. exports' \in 1 .. MaxExports /\ \A f \in exportFiles : f.export <= exports' /\ f.export # exports'
    BY <1>2, <2>1, ExportAssumption DEF StartExport, ExportInv, Files
  <2>3. File("stored", "manifest", exports', TRUE) \notin exportFiles
    BY <2>2, Zenon DEF File
  <2>4. exportStep' \in 0 .. 6 /\ exportStep' # 0 /\ ~(exportStep' >= 5) /\ ~(exportStep' >= 6)
        /\ exports' \in 0 .. MaxExports /\ exports' # 0
    BY <2>1, <2>2
  <2> QED
    BY <2>1, <2>2, <2>3, <2>4, Zenon DEF ExportInv
<1>3. ASSUME NEW b \in BOOLEAN, exportStep # 0, exports' = exports, Written(b),
             \/ ~b /\ exportStep' = exportStep
             \/ b /\ exportStep' = (exportStep + 1) % 7
      PROVE  ExportInv'
  <2>1. /\ exportFiles' \subseteq Files
        /\ \A f \in exportFiles' : f.export <= exports
        /\ \A p, k, n, w :
              (n # exports /\ k # "manifest") =>
                 (File(p, k, n, w) \in exportFiles' <=> File(p, k, n, w) \in exportFiles)
        /\ \A n, w : exportStep # 6 =>
              (File("stored", "manifest", n, w) \in exportFiles'
                 <=> File("stored", "manifest", n, w) \in exportFiles)
        /\ \A n : (exportStep = 6 /\ File("stored", "manifest", n, TRUE) \in exportFiles')
              => n = exports /\ b
        /\ \A k, w : <<"stored", k>> # Writes[exportStep] =>
              (File("stored", k, exports, w) \in exportFiles'
                 <=> File("stored", k, exports, w) \in exportFiles)
        /\ File(Writes[exportStep][1], Writes[exportStep][2], exports, b) \in exportFiles'
    BY <1>3, WrittenFiles, Zenon
  <2>2. /\ exportStep \in 1 .. 6 /\ exports \in 1 .. MaxExports
        /\ File("stored", "manifest", exports, TRUE) \notin exportFiles
        /\ exportStep >= 5 => File("stored", "archive", exports, TRUE) \in exportFiles
        /\ exportStep >= 6 => File("stored", "checksum", exports, TRUE) \in exportFiles
        /\ \A n \in 1 .. MaxExports : \A k \in {"archive", "checksum"} :
              File("stored", "manifest", n, TRUE) \in exportFiles
                 => File("stored", k, n, TRUE) \in exportFiles
    <3>1. exports # 0 /\ exportStep \in 0 .. 6 /\ exports \in 0 .. MaxExports
      BY <1>3, Zenon DEF ExportInv
    <3>2. exportStep \in 1 .. 6 /\ exports \in 1 .. MaxExports
      BY <1>3, <3>1
    <3> QED
      BY <1>3, <3>2, Zenon DEF ExportInv
  <2>3. /\ exportStep' \in 0 .. 6 /\ exports' \in 0 .. MaxExports /\ exports # 0
        /\ exportStep' # 0 /\ b => exportStep # 6
        /\ exportStep' >= 5 => (exportStep = 4 /\ b) \/ exportStep >= 5
        /\ exportStep' >= 6 => (exportStep = 5 /\ b) \/ exportStep >= 6
        /\ exportStep >= 5 => exportStep = 5 \/ exportStep = 6
        /\ exportStep >= 6 => exportStep = 6
        /\ exportStep = 6 => exportStep >= 5 /\ exportStep >= 6
    BY <1>3, <2>2
  <2>4. exportStep' # 0 => File("stored", "manifest", exports, TRUE) \notin exportFiles'
    BY <2>1, <2>2, <2>3, Zenon
  <2>5. exportStep' >= 5 => File("stored", "archive", exports, TRUE) \in exportFiles'
    <3>1. CASE exportStep = 4 /\ b
      BY <2>1, <3>1, WritesOrder, Zenon
    <3>2. CASE exportStep >= 5
      BY <2>1, <2>2, <2>3, <3>2, WritesOrder, Zenon
    <3> QED
      BY <2>3, <3>1, <3>2, Zenon
  <2>6. exportStep' >= 6 => File("stored", "checksum", exports, TRUE) \in exportFiles'
    <3>1. CASE exportStep = 5 /\ b
      BY <2>1, <3>1, WritesOrder, Zenon
    <3>2. CASE exportStep >= 6
      BY <2>1, <2>2, <2>3, <3>2, WritesOrder, Zenon
    <3> QED
      BY <2>3, <3>1, <3>2, Zenon
  <2>7. ASSUME NEW n \in 1 .. MaxExports, NEW k \in {"archive", "checksum"},
               File("stored", "manifest", n, TRUE) \in exportFiles'
        PROVE  File("stored", k, n, TRUE) \in exportFiles'
    <3>1. CASE exportStep = 6
      <4>1. n = exports
        BY <2>1, <2>7, <3>1, Zenon
      <4>2. File("stored", k, exports, TRUE) \in exportFiles
        BY <2>2, <2>3, <3>1, Zenon
      <4>3. <<"stored", k>> # Writes[exportStep]
        BY <3>1, WritesOrder, Zenon
      <4> QED
        BY <2>1, <4>1, <4>2, <4>3, Zenon
    <3>2. CASE exportStep # 6
      <4>1. File("stored", "manifest", n, TRUE) \in exportFiles
        BY <2>1, <2>7, <3>2, Zenon
      <4>2. n # exports /\ File("stored", k, n, TRUE) \in exportFiles
        BY <2>2, <4>1, Zenon
      <4>3. k # "manifest"
        OBVIOUS
      <4> QED
        BY <2>1, <4>2, <4>3, Zenon
    <3> QED
      BY <3>1, <3>2, Zenon
  <2> QED
    BY <1>3, <2>1, <2>3, <2>4, <2>5, <2>6, <2>7, Zenon DEF ExportInv
<1>4. CASE OpenFile
  BY <1>3, <1>4, Zenon DEF OpenFile
<1>5. CASE CloseFile
  BY <1>3, <1>5, Zenon DEF CloseFile
<1>6. CASE LoseExport
  <2>1. exportStep' = 0 /\ exports' = exports /\ exportFiles' = exportFiles
    BY <1>6, Zenon DEF LoseExport
  <2>2. exportStep' \in 0 .. 6 /\ ~(exportStep' >= 5) /\ ~(exportStep' >= 6)
    BY <2>1
  <2> QED
    BY <2>1, <2>2, Zenon DEF ExportInv
<1> QED
  BY <1>1, <1>2, <1>4, <1>5, <1>6, Zenon DEF ExportNext

LEMMA ExportInvImplies == ExportInv => ManifestSound
<1> SUFFICES ASSUME ExportInv, NEW m \in exportFiles,
                    m.place = "stored", m.kind = "manifest", m.whole,
                    NEW k \in {"archive", "checksum"}
             PROVE  [m EXCEPT !.kind = k] \in exportFiles
  BY Zenon DEF ManifestSound
<1>1. m \in Files
  BY Zenon DEF ExportInv, ExportTypeOK
<1>2. m.export \in 1 .. MaxExports /\ m.whole = TRUE
  <2>1. m.export \in 1 .. MaxExports /\ m.whole \in BOOLEAN
    BY <1>1 DEF Files
  <2> QED
    BY <2>1, Zenon
<1> DEFINE n == m.export
<1>3. m = File("stored", "manifest", n, TRUE)
  BY <1>1, <1>2, FileIsItsFields, Zenon
<1>4. n \in 1 .. MaxExports
  BY <1>2, Zenon
<1> HIDE DEF n
<1>5. [File("stored", "manifest", n, TRUE) EXCEPT !.kind = k] = File("stored", k, n, TRUE)
  <2>1. \A w : [File("stored", "manifest", n, w) EXCEPT !.kind = k] = File("stored", k, n, w)
    BY DEF File
  <2> QED
    BY <2>1, Zenon
<1>6. [m EXCEPT !.kind = k] = File("stored", k, n, TRUE)
  BY <1>3, <1>5, Zenon
<1>7. File("stored", "manifest", n, TRUE) \in exportFiles
  BY <1>3, Zenon
<1> QED
  BY <1>4, <1>6, <1>7, Zenon DEF ExportInv

(* Whoever reads the stored manifest finds the archive and the checksum that it
   names, complete, whatever exports died before or are running now. *)
THEOREM StoredManifestsAreSound == Spec => []ManifestSound
<1>1. Init => ExportInv
  BY ExportInitInv, Zenon DEF Init
<1>2. ExportInv /\ [Next]_jobVars => ExportInv'
  BY ExportNextInv, JobSteps, Zenon
<1> QED
  BY <1>1, <1>2, ExportInvImplies, PTL DEF Spec

-----------------------------------------------------------------------------
(* Calibration *)

\* A version that has a number has its file, complete.
OnRecord(v) == v \in VersionNumbers => versionFile[v] = "full"

(* An entry read from the file in use, at the time the file had before. *)
Coherent(m, v) == m = latest.mtime => v = latest.version

(* The time of the file in use only grows, and with every change to what a
   reader may have stored; the job's number is one that no file had when the
   job chose it. *)
CalInv ==
    /\ CalTypeOK
    /\ OnRecord(latest.version) /\ OnRecord(cache.version)
    /\ cache.held => cache.mtime <= latest.mtime /\ Coherent(cache.mtime, cache.version)
    /\ \A t \in Threads :
          /\ thread[t].mtime <= latest.mtime
          /\ OnRecord(thread[t].version)
          /\ thread[t].pc = "store" => Coherent(thread[t].mtime, thread[t].version)
    /\ calibrator.pc \notin {"idle", "version"} => calibrator.version \in VersionNumbers
    /\ calibrator.pc = "open" => versionFile[calibrator.version] = "none"
    /\ calibrator.pc = "write" => versionFile[calibrator.version] = "empty"
    /\ calibrator.pc \in {"open_latest", "write_latest"} => versionFile[calibrator.version] = "full"
    /\ calibrator.pc = "write_latest" => latest.version = Empty

LEMMA CalInitInv == CalInit => CalInv
<1> SUFFICES ASSUME CalInit PROVE CalInv
  OBVIOUS
<1>1. CalTypeOK
  BY CalibrationAssumption DEF CalInit, CalTypeOK, AtRest, NotRunning, Defaults, Empty, MaxTime
<1>2. 0 \notin VersionNumbers /\ 0 <= 0
  BY DEF VersionNumbers
<1> QED
  BY <1>1, <1>2 DEF CalInit, CalInv, OnRecord, Coherent, AtRest, NotRunning, Defaults

\* A step of a thread that leaves the files alone.
LEMMA ThreadInv ==
    ASSUME CalInv, NEW t \in Threads, NEW n, thread' = [thread EXCEPT ![t] = n],
           UNCHANGED <<versionFile, latest, cache, calibrator>>,
           n \in [pc : {"idle", "stat", "compare", "read", "store"},
                  mtime : 0 .. MaxTime, version : 0 .. MaxVersion],
           n.mtime <= latest.mtime, OnRecord(n.version),
           n.pc = "store" => Coherent(n.mtime, n.version)
    PROVE  CalInv'
<1>1. \A u \in Threads : thread'[u] = IF u = t THEN n ELSE thread[u]
  BY Zenon DEF CalInv, CalTypeOK
<1>2. CalTypeOK'
  BY DEF CalInv, CalTypeOK
<1>3. \A v : OnRecord(v)' <=> OnRecord(v)
  BY Zenon DEF OnRecord
<1>4. \A m, v : Coherent(m, v)' <=> Coherent(m, v)
  BY Zenon DEF Coherent
<1> QED
  BY <1>1, <1>2, <1>3, <1>4, ZenonT(30) DEF CalInv

\* A thread that returns, and a cache entry that it leaves.
LEMMA ReturnInv ==
    ASSUME CalInv, NEW t \in Threads, Return(t), UNCHANGED <<versionFile, latest, calibrator>>,
           \/ cache' = cache
           \/ cache' = [cache EXCEPT !.fresh = TRUE]
           \/ thread[t].pc = "store" /\ cache' = entry(t)
    PROVE  CalInv'
<1>1. /\ AtRest \in [pc : {"idle", "stat", "compare", "read", "store"},
                     mtime : 0 .. MaxTime, version : 0 .. MaxVersion]
      /\ AtRest.mtime = 0 /\ AtRest.version = 0 /\ AtRest.pc = "idle"
  BY CalibrationAssumption DEF AtRest, Defaults, MaxTime
<1>2. /\ latest.mtime \in 0 .. MaxTime
      /\ thread[t] \in [pc : {"idle", "stat", "compare", "read", "store"},
                         mtime : 0 .. MaxTime, version : 0 .. MaxVersion]
      /\ thread \in [Threads -> [pc : {"idle", "stat", "compare", "read", "store"},
                                 mtime : 0 .. MaxTime, version : 0 .. MaxVersion]]
      /\ cache \in [held : BOOLEAN, fresh : BOOLEAN, mtime : 0 .. MaxTime, version : 0 .. MaxVersion]
  BY DEF CalInv, CalTypeOK
<1>3. 0 <= latest.mtime /\ 0 \notin VersionNumbers
  BY <1>2 DEF VersionNumbers
<1>4. \A u \in Threads : thread'[u] = IF u = t THEN AtRest ELSE thread[u]
  BY <1>2, Zenon DEF Return
<1>5. \A v : OnRecord(v)' <=> OnRecord(v)
  BY Zenon DEF OnRecord
<1>6. \A m, v : Coherent(m, v)' <=> Coherent(m, v)
  BY Zenon DEF Coherent
<1>7. /\ cache' \in [held : BOOLEAN, fresh : BOOLEAN, mtime : 0 .. MaxTime, version : 0 .. MaxVersion]
      /\ OnRecord(cache'.version)
      /\ cache'.held => cache'.mtime <= latest.mtime /\ Coherent(cache'.mtime, cache'.version)
  <2>1. CASE cache' = cache \/ cache' = [cache EXCEPT !.fresh = TRUE]
    <3>1. /\ cache' \in [held : BOOLEAN, fresh : BOOLEAN, mtime : 0 .. MaxTime, version : 0 .. MaxVersion]
          /\ cache'.version = cache.version /\ cache'.mtime = cache.mtime
      BY <1>2, <2>1
    <3>2. cache'.held = cache.held
      BY <1>2, <2>1
    <3> QED
      BY <3>1, <3>2, Zenon DEF CalInv
  <2>2. CASE thread[t].pc = "store" /\ cache' = entry(t)
    <3>1. thread[t].mtime \in 0 .. MaxTime /\ thread[t].version \in 0 .. MaxVersion
      BY <1>2
    <3>2. /\ cache' \in [held : BOOLEAN, fresh : BOOLEAN, mtime : 0 .. MaxTime, version : 0 .. MaxVersion]
          /\ cache'.version = thread[t].version /\ cache'.mtime = thread[t].mtime
      BY <2>2, <3>1 DEF entry
    <3> QED
      BY <2>2, <3>2, Zenon DEF CalInv
  <2> QED
    BY <2>1, <2>2, Zenon
<1>8. CalTypeOK'
  <2>1. thread' \in [Threads -> [pc : {"idle", "stat", "compare", "read", "store"},
                                mtime : 0 .. MaxTime, version : 0 .. MaxVersion]]
    BY <1>1, <1>2 DEF Return
  <2> QED
    BY <1>7, <2>1, Zenon DEF CalInv, CalTypeOK
<1>9. ASSUME NEW u \in Threads
      PROVE  /\ thread'[u].mtime <= latest.mtime
             /\ OnRecord(thread'[u].version)
             /\ thread'[u].pc = "store" => Coherent(thread'[u].mtime, thread'[u].version)
  <2>1. CASE u = t
    BY <1>1, <1>3, <1>4, <2>1 DEF OnRecord
  <2>2. CASE u # t
    BY <1>4, <2>2, Zenon DEF CalInv
  <2> QED
    BY <2>1, <2>2, Zenon
<1> QED
  BY <1>5, <1>6, <1>7, <1>8, <1>9, Zenon DEF CalInv

LEMMA LoadInv ==
    ASSUME CalInv, NEW t \in Threads, Load(t) \/ Stat(t) \/ Compare(t) \/ ReadFile(t) \/ Store(t)
    PROVE  CalInv'
<1> DEFINE Step == [pc : {"idle", "stat", "compare", "read", "store"},
                    mtime : 0 .. MaxTime, version : 0 .. MaxVersion]
<1>1. /\ thread[t] \in Step /\ thread[t].mtime <= latest.mtime /\ OnRecord(thread[t].version)
      /\ latest.mtime \in 0 .. MaxTime /\ latest.version \in Empty .. MaxVersion
      /\ OnRecord(latest.version)
  BY DEF CalInv, CalTypeOK
<1>2. ASSUME NEW pc \in {"stat", "read"}, Goto(t, pc), UNCHANGED <<versionFile, latest, cache, calibrator>>
      PROVE  CalInv'
  <2> DEFINE n == [thread[t] EXCEPT !.pc = pc]
  <2>1. n \in Step /\ n.mtime = thread[t].mtime /\ n.version = thread[t].version /\ n.pc # "store"
    BY <1>1
  <2>2. thread' = [thread EXCEPT ![t] = n]
    BY <1>2, Zenon DEF Goto
  <2> HIDE DEF n
  <2> QED
    BY <1>1, <1>2, <2>1, <2>2, ThreadInv, Zenon
<1>3. CASE Load(t)
  BY <1>2, <1>3, Zenon DEF Load
<1>4. CASE Stat(t)
  <2> DEFINE n == [thread[t] EXCEPT !.pc = "compare", !.mtime = latest.mtime]
  <2>1. n \in Step
    BY <1>1
  <2>2. n.mtime = latest.mtime /\ n.version = thread[t].version /\ n.pc # "store"
    BY <1>1
  <2>3. latest.mtime <= latest.mtime
    BY <1>1
  <2>4. thread' = [thread EXCEPT ![t] = n] /\ UNCHANGED <<versionFile, latest, cache, calibrator>>
    BY <1>4 DEF Stat
  <2> HIDE DEF n
  <2> QED
    BY <1>1, <2>1, <2>2, <2>3, <2>4, ThreadInv, Zenon
<1>5. CASE Compare(t)
  <2>1. CASE cache.held /\ cache.mtime = thread[t].mtime
    BY <1>5, <2>1, ReturnInv, Zenon DEF Compare
  <2>2. CASE ~(cache.held /\ cache.mtime = thread[t].mtime)
    BY <1>2, <1>5, <2>2, Zenon DEF Compare
  <2> QED
    BY <2>1, <2>2, Zenon
<1>6. CASE ReadFile(t)
  <2>1. CASE ~validates
    BY <1>6, <2>1, ReturnInv, Zenon DEF ReadFile
  <2>2. CASE validates
    <3> DEFINE n == [thread[t] EXCEPT !.pc = "store", !.version = latest.version]
    <3>0. latest.version \in 0 .. MaxVersion
      BY <1>1, <2>2 DEF validates, Empty
    <3>1. n \in Step
      BY <1>1, <3>0
    <3>4. n.mtime = thread[t].mtime /\ n.version = latest.version
      BY <1>1
    <3>2. thread' = [thread EXCEPT ![t] = n] /\ UNCHANGED <<versionFile, latest, cache, calibrator>>
      BY <1>6, <2>2 DEF ReadFile
    <3> HIDE DEF n
    <3>3. Coherent(n.mtime, n.version)
      BY <3>4, Zenon DEF Coherent
    <3> QED
      BY <1>1, <3>1, <3>2, <3>3, <3>4, ThreadInv, Zenon
  <2> QED
    BY <2>1, <2>2, Zenon
<1>7. CASE Store(t)
  BY <1>7, ReturnInv, Zenon DEF Store
<1> QED
  BY <1>3, <1>4, <1>5, <1>6, <1>7, Zenon

LEMMA FreshNumber ==
    ASSUME CalInv, next_parameter_version <= MaxVersion
    PROVE  /\ next_parameter_version \in VersionNumbers
           /\ versionFile[next_parameter_version] = "none"
<1> DEFINE T == {n \in VersionNumbers : versionFile[n] # "none"} \cup {0}
<1>1. T \in SUBSET (0 .. MaxVersion) /\ T # {} /\ MaxVersion \in Nat
  BY CalibrationAssumption DEF VersionNumbers
<1>2. \E x \in T : \A y \in T : x >= y
  BY <1>1, GreatestNumber, Zenon
<1>3. Max(T) \in T /\ \A y \in T : Max(T) >= y
  BY <1>2, Zenon DEF Max
<1>4. next_parameter_version = Max(T) + 1
  BY Zenon DEF next_parameter_version
<1> DEFINE m == Max(T)
<1> HIDE DEF m, T
<1>5. m \in 0 .. MaxVersion /\ m + 1 \in VersionNumbers /\ ~(m >= m + 1)
  <2>1. m \in T /\ m + 1 <= MaxVersion
    BY <1>3, <1>4, Zenon DEF m
  <2> QED
    BY <1>1, <2>1 DEF VersionNumbers
<1>6. m + 1 \notin T
  BY <1>3, <1>5, Zenon DEF m
<1>7. versionFile[m + 1] = "none"
  BY <1>5, <1>6, Zenon DEF T
<1> QED
  BY <1>4, <1>5, <1>7, Zenon DEF m

\* A step of the job that changes at most its own position and a numbered file
\* that nobody uses.
LEMMA VersionInv ==
    ASSUME CalInv, UNCHANGED <<latest, cache, thread>>,
           CalTypeOK',
           \A v : OnRecord(v) => OnRecord(v)',
           (/\ calibrator.pc \notin {"idle", "version"} => calibrator.version \in VersionNumbers
            /\ calibrator.pc = "open" => versionFile[calibrator.version] = "none"
            /\ calibrator.pc = "write" => versionFile[calibrator.version] = "empty"
            /\ calibrator.pc \in {"open_latest", "write_latest"} => versionFile[calibrator.version] = "full"
            /\ calibrator.pc # "write_latest")'
    PROVE  CalInv'
<1>1. \A m, v : Coherent(m, v)' <=> Coherent(m, v)
  BY Zenon DEF Coherent
<1>2. /\ OnRecord(latest.version)' /\ OnRecord(cache.version)'
      /\ \A t \in Threads : OnRecord(thread[t].version)'
  BY Zenon DEF CalInv
<1> QED
  BY <1>1, <1>2, Zenon DEF CalInv

LEMMA CalibratorInv ==
    ASSUME CalInv,
           \/ Promote \/ ChooseVersion \/ OpenVersion \/ FillVersion \/ LoseCalibration
    PROVE  CalInv'
<1> DEFINE Place == [pc : {"idle", "version", "open", "write", "open_latest", "write_latest"},
                     version : 0 .. MaxVersion]
           Content == {"none", "empty", "full"}
<1>1. /\ calibrator \in Place /\ versionFile \in [VersionNumbers -> Content]
      /\ VersionNumbers \subseteq 0 .. MaxVersion /\ MaxVersion \in Nat
  BY CalibrationAssumption DEF CalInv, CalTypeOK, VersionNumbers
<1>2. ASSUME versionFile' \in [VersionNumbers -> Content], calibrator' \in Place,
             UNCHANGED <<latest, cache, thread>>
      PROVE  CalTypeOK'
  BY <1>2, Zenon DEF CalInv, CalTypeOK
<1>3. ASSUME versionFile' = versionFile PROVE \A v : OnRecord(v) => OnRecord(v)'
  BY <1>3, Zenon DEF OnRecord
<1>4. CASE Promote
  <2>1. calibrator' \in Place /\ calibrator'.pc = "version"
    BY <1>1, <1>4 DEF Promote
  <2>2. versionFile' = versionFile /\ UNCHANGED <<latest, cache, thread>>
    BY <1>4, Zenon DEF Promote
  <2>3. "version" \notin {"open", "write", "open_latest", "write_latest"}
    OBVIOUS
  <2> QED
    BY <1>1, <1>2, <1>3, <2>1, <2>2, <2>3, VersionInv, Zenon
<1>5. CASE ChooseVersion
  <2>1. next_parameter_version \in VersionNumbers /\ versionFile[next_parameter_version] = "none"
    BY <1>5, FreshNumber, Zenon DEF ChooseVersion
  <2> DEFINE v == next_parameter_version
  <2>2. calibrator' = [pc |-> "open", version |-> v]
    BY <1>5, Zenon DEF ChooseVersion
  <2>3. versionFile' = versionFile /\ UNCHANGED <<latest, cache, thread>>
    BY <1>5, Zenon DEF ChooseVersion
  <2> HIDE DEF v
  <2>4. calibrator' \in Place /\ calibrator'.pc = "open" /\ calibrator'.version = v
    BY <1>1, <2>1, <2>2 DEF v
  <2>5. "open" \notin {"write", "open_latest", "write_latest"}
    OBVIOUS
  <2> QED
    BY <1>1, <1>2, <1>3, <2>1, <2>3, <2>4, <2>5, VersionInv, Zenon DEF v
<1>6. ASSUME NEW from \in {"open", "write"}, NEW to \in {"write", "open_latest"},
             NEW content \in Content, WriteVersion(from, to, content),
             from = "open" => to = "write" /\ content = "empty",
             from = "write" => to = "open_latest" /\ content = "full"
      PROVE  CalInv'
  <2> DEFINE v == calibrator.version
  <2>1. v \in VersionNumbers /\ versionFile[v] # "full"
    <3>1. /\ calibrator.pc = from /\ from \notin {"idle", "version"}
          /\ "none" # "full" /\ "empty" # "full"
      BY <1>6 DEF WriteVersion
    <3> QED
      BY <1>6, <3>1, Zenon DEF CalInv
  <2>2. versionFile' = [versionFile EXCEPT ![v] = content] /\ calibrator' = [calibrator EXCEPT !.pc = to]
        /\ UNCHANGED <<latest, cache, thread>>
    BY <1>6, Zenon DEF WriteVersion
  <2>3. calibrator' \in Place /\ calibrator'.pc = to /\ calibrator'.version = v
    BY <1>1, <2>2
  <2> HIDE DEF v
  <2>4. versionFile' \in [VersionNumbers -> Content] /\ versionFile'[v] = content
        /\ \A n \in VersionNumbers : n # v => versionFile'[n] = versionFile[n]
    BY <1>1, <2>1, <2>2, Zenon
  <2>5. \A n : OnRecord(n) => OnRecord(n)'
    BY <2>1, <2>4, Zenon DEF OnRecord
  <2>6. /\ "write" \notin {"open", "open_latest", "write_latest"}
        /\ "open_latest" \notin {"open", "write", "write_latest"}
    OBVIOUS
  <2>7. (to = "write" /\ content = "empty") \/ (to = "open_latest" /\ content = "full")
    BY <1>6, Zenon
  <2> QED
    BY <1>2, <2>1, <2>2, <2>3, <2>4, <2>5, <2>6, <2>7, VersionInv, ZenonT(30)
<1>7. CASE OpenVersion
  BY <1>6, <1>7 DEF OpenVersion
<1>8. CASE FillVersion
  BY <1>6, <1>8 DEF FillVersion
<1>9. CASE LoseCalibration
  <2>1. calibrator' \in Place /\ calibrator'.pc = "idle"
    BY <1>1, <1>9 DEF LoseCalibration, NotRunning, Defaults
  <2>2. versionFile' = versionFile /\ UNCHANGED <<latest, cache, thread>>
    BY <1>9, Zenon DEF LoseCalibration
  <2>3. "idle" \notin {"open", "write", "open_latest", "write_latest"}
    OBVIOUS
  <2> QED
    BY <1>1, <1>2, <1>3, <2>1, <2>2, <2>3, VersionInv, Zenon
<1> QED
  BY <1>4, <1>5, <1>7, <1>8, <1>9, ZenonT(30)

\* A new file in use, at a time or in a state in which no reader has stored it.
LEMMA LatestInv ==
    ASSUME CalInv, UNCHANGED <<versionFile, cache, thread>>,
           latest' \in [exists : BOOLEAN, mtime : 0 .. MaxTime, version : Empty .. MaxVersion],
           latest'.mtime >= latest.mtime,
           latest'.mtime = latest.mtime => latest.version = Empty,
           OnRecord(latest'.version),
           calibrator' \in [pc : {"idle", "version", "open", "write", "open_latest", "write_latest"},
                            version : 0 .. MaxVersion],
           \/ calibrator'.pc = "idle"
           \/ /\ calibrator'.pc = "write_latest" /\ calibrator'.version \in VersionNumbers
              /\ versionFile[calibrator'.version] = "full" /\ latest'.version = Empty
    PROVE  CalInv'
<1>1. CalTypeOK'
  BY Zenon DEF CalInv, CalTypeOK
<1>2. \A v : OnRecord(v)' <=> OnRecord(v)
  BY Zenon DEF OnRecord
<1>3. /\ latest.mtime \in 0 .. MaxTime /\ latest'.mtime \in 0 .. MaxTime
      /\ cache.mtime \in 0 .. MaxTime /\ cache.version \in 0 .. MaxVersion
      /\ \A t \in Threads : thread[t].mtime \in 0 .. MaxTime /\ thread[t].version \in 0 .. MaxVersion
  BY DEF CalInv, CalTypeOK
<1>4. ASSUME NEW m \in 0 .. MaxTime, NEW v \in 0 .. MaxVersion, m <= latest.mtime
      PROVE  m <= latest'.mtime /\ (Coherent(m, v) => Coherent(m, v)')
  <2>1. m <= latest'.mtime /\ (m = latest'.mtime => m = latest.mtime /\ latest'.mtime = latest.mtime)
    BY <1>3, <1>4
  <2>2. v # Empty
    BY DEF Empty
  <2> QED
    BY <2>1, <2>2, Zenon DEF Coherent
<1>5. "idle" \notin {"open", "write", "open_latest", "write_latest"}
      /\ "write_latest" \notin {"open", "write"}
  OBVIOUS
<1>6. /\ OnRecord(latest.version)' /\ OnRecord(cache.version)'
      /\ (cache.held => cache.mtime <= latest.mtime /\ Coherent(cache.mtime, cache.version))'
  BY <1>2, <1>3, <1>4, Zenon DEF CalInv
<1>7. ASSUME NEW t \in Threads
      PROVE  (/\ thread[t].mtime <= latest.mtime
              /\ OnRecord(thread[t].version)
              /\ thread[t].pc = "store" => Coherent(thread[t].mtime, thread[t].version))'
  BY <1>2, <1>3, <1>4, Zenon DEF CalInv
<1>8. (/\ calibrator.pc \notin {"idle", "version"} => calibrator.version \in VersionNumbers
       /\ calibrator.pc = "open" => versionFile[calibrator.version] = "none"
       /\ calibrator.pc = "write" => versionFile[calibrator.version] = "empty"
       /\ calibrator.pc \in {"open_latest", "write_latest"} => versionFile[calibrator.version] = "full"
       /\ calibrator.pc = "write_latest" => latest.version = Empty)'
  BY <1>5, Zenon
<1> QED
  BY <1>1, <1>6, <1>7, <1>8, Zenon DEF CalInv

LEMMA FileInUseInv ==
    ASSUME CalInv, OpenLatest \/ FillLatest
    PROVE  CalInv'
<1> DEFINE File0 == [exists : BOOLEAN, mtime : 0 .. MaxTime, version : Empty .. MaxVersion]
           Place == [pc : {"idle", "version", "open", "write", "open_latest", "write_latest"},
                     version : 0 .. MaxVersion]
<1>1. latest \in File0 /\ calibrator \in Place /\ latest.mtime \in 0 .. MaxTime
      /\ calibrator.version \in 0 .. MaxVersion /\ MaxVersion \in Nat /\ MaxTime \in Nat
  BY CalibrationAssumption DEF CalInv, CalTypeOK, MaxTime
<1>2. Empty \in Empty .. MaxVersion /\ Empty \notin VersionNumbers
      /\ calibrator.version \in Empty .. MaxVersion
  BY <1>1 DEF Empty, VersionNumbers
<1>3. calibrator.pc \in {"open_latest", "write_latest"} =>
          calibrator.version \in VersionNumbers /\ versionFile[calibrator.version] = "full"
  <2>1. calibrator.pc \in {"open_latest", "write_latest"} => calibrator.pc \notin {"idle", "version"}
    OBVIOUS
  <2> QED
    BY <2>1, Zenon DEF CalInv
<1>4. CASE OpenLatest
  <2>1. latest' = [exists |-> TRUE, mtime |-> latest.mtime + 1, version |-> Empty]
        /\ calibrator' = [calibrator EXCEPT !.pc = "write_latest"]
        /\ UNCHANGED <<versionFile, cache, thread>> /\ latest.mtime < MaxTime
        /\ calibrator.pc = "open_latest"
    BY <1>4, Zenon DEF OpenLatest
  <2>2. latest.mtime + 1 \in 0 .. MaxTime
    BY <1>1, <2>1
  <2> DEFINE m == latest.mtime + 1
  <2>3. m >= latest.mtime /\ m # latest.mtime
    BY <1>1
  <2>4. latest' = [exists |-> TRUE, mtime |-> m, version |-> Empty] /\ m \in 0 .. MaxTime
    BY <2>1, <2>2, Zenon
  <2> HIDE DEF m
  <2>5. latest' \in File0 /\ latest'.mtime = m /\ latest'.version = Empty
    BY <1>2, <2>4, Zenon
  <2>6. calibrator' \in Place /\ calibrator'.pc = "write_latest" /\ calibrator'.version = calibrator.version
    BY <1>1, <2>1
  <2> QED
    BY <1>2, <1>3, <2>1, <2>3, <2>5, <2>6, LatestInv, Zenon DEF OnRecord
<1>5. CASE FillLatest
  <2>1. PICK m \in {latest.mtime, latest.mtime + 1} \cap 0 .. MaxTime :
                latest' = [exists |-> TRUE, mtime |-> m, version |-> calibrator.version]
    BY <1>5, Zenon DEF FillLatest
  <2>2. calibrator' = NotRunning /\ UNCHANGED <<versionFile, cache, thread>>
        /\ calibrator.pc = "write_latest"
    BY <1>5, Zenon DEF FillLatest
  <2>3. m >= latest.mtime /\ m \in 0 .. MaxTime
    BY <1>1
  <2>4. latest' \in File0 /\ latest'.mtime = m /\ latest'.version = calibrator.version
    BY <1>2, <2>1, <2>3, Zenon
  <2>5. calibrator' \in Place /\ calibrator'.pc = "idle"
    BY <1>1, <2>2 DEF NotRunning, Defaults
  <2>6. latest.version = Empty
    BY <2>2, Zenon DEF CalInv
  <2> QED
    BY <1>3, <2>2, <2>3, <2>4, <2>5, <2>6, LatestInv, Zenon DEF OnRecord
<1> QED
  BY <1>4, <1>5, Zenon

LEMMA CalNextInv ==
    ASSUME CalInv, [CalNext]_calVars
    PROVE  CalInv'
<1>1. CASE UNCHANGED calVars
  BY <1>1, ZenonT(30) DEF calVars, CalInv, CalTypeOK, OnRecord, Coherent
<1>2. CASE CacheExpires
  <2>1. cache' = [cache EXCEPT !.fresh = FALSE] /\ UNCHANGED <<versionFile, latest, thread, calibrator>>
    BY <1>2, Zenon DEF CacheExpires
  <2>2. cache \in [held : BOOLEAN, fresh : BOOLEAN, mtime : 0 .. MaxTime, version : 0 .. MaxVersion]
    BY Zenon DEF CalInv, CalTypeOK
  <2>3. /\ cache' \in [held : BOOLEAN, fresh : BOOLEAN, mtime : 0 .. MaxTime, version : 0 .. MaxVersion]
        /\ cache'.version = cache.version /\ cache'.mtime = cache.mtime
    BY <2>1, <2>2
  <2>4. cache'.held = cache.held
    BY <2>1, <2>2
  <2> QED
    BY <2>1, <2>3, <2>4, Zenon DEF CalInv, CalTypeOK, OnRecord, Coherent
<1> QED
  BY <1>1, <1>2, LoadInv, CalibratorInv, FileInUseInv, Zenon DEF CalNext

LEMMA CalInvImplies == CalInv => CacheCoherent /\ ParametersOnRecord
BY Zenon DEF CalInv, CacheCoherent, ParametersOnRecord, Coherent, OnRecord

(* A cache entry that is trusted again because the file's time is the entry's
   holds what the file holds, and parameters in use are on record in their
   numbered file, for every interleaving of the threads that load parameters
   with the job that promotes them, and wherever that job dies. *)
THEOREM ParametersAreCoherent == Spec => [](CacheCoherent /\ ParametersOnRecord)
<1>1. Init => CalInv
  BY CalInitInv, Zenon DEF Init
<1>2. CalInv /\ [Next]_jobVars => CalInv'
  BY CalNextInv, JobSteps, Zenon
<1> QED
  BY <1>1, <1>2, CalInvImplies, PTL DEF Spec

(* The record on its own: check_and_promote_parameters writes the numbered file
   before the one in use, so that a death between the two leaves no version
   unrecorded. *)
COROLLARY VersionsStayOnRecord == Spec => []ParametersOnRecord
BY ParametersAreCoherent, PTL

-----------------------------------------------------------------------------
(* Pattern mining *)

\* The patterns for which a run has prepared a row.
Mined(m) == {f.pattern : f \in m.new}

(* What a run has prepared: one active row for every pattern that it is done
   with. *)
RunOK(m) ==
    /\ DOMAIN m = {"pc", "run", "alone", "todo", "seen", "off", "new"}
    /\ m.todo \subseteq Patterns
    /\ m.pc = "idle" => m.new = {}
    /\ m.pc = "flush" => m.todo # {}
    /\ \A f \in m.new : "active" \in DOMAIN f /\ f.active = TRUE /\ f.pattern \notin m.todo
    /\ \A f, g \in m.new : f.pattern = g.pattern => f = g

(* A run that has the table to itself has read it as it is now, and deactivates
   every active row of the patterns that it is done with. *)
LoneOK(m, F) ==
    /\ \A f \in F : f.active /\ f.pattern \in Mined(m) => f \in m.off
    /\ m.pc = "flush" => m.seen = {f \in F : f.pattern = first(m.todo)}

\* Runs that found nobody else at work are still the only ones.
MineInv ==
    /\ \A f \in findings : "active" \in DOMAIN f
    /\ DOMAIN miner = Miners
    /\ \A w \in Miners :
          /\ miner[w].pc \in {"idle", "next", "flush"}
          /\ RunOK(miner[w])
          /\ (miner[w].pc # "idle" /\ miner[w].alone) =>
                /\ \A v \in Miners : miner[v].pc # "idle" => v = w
                /\ LoneOK(miner[w], findings)

LEMMA FirstIsMember ==
    ASSUME NEW P \in SUBSET Patterns, P # {}
    PROVE  first(P) \in P
<1> DEFINE T == {Rank(p) : p \in P}
<1>1. ASSUME NEW p \in P PROVE Rank(p) \in Nat
  <2>1. p.source \in Nat /\ p.target \in Nat /\ p.window \in Nat
    BY PatternAssumption DEF Patterns
  <2> QED
    BY <2>1 DEF Rank
<1>2. T \in SUBSET Nat /\ T # {}
  BY <1>1, Zenon
<1>3. PICK x \in T : \A y \in T : x <= y
  BY <1>2, LeastNumber, Zenon
<1>4. \E p \in P : \A q \in P : Rank(p) <= Rank(q)
  BY <1>3, Zenon
<1> QED
  BY <1>4, Zenon DEF first

LEMMA RestingOK ==
    Resting.pc = "idle" /\ Resting.new = {} /\ RunOK(Resting)
<1>1. /\ Resting.pc = "idle" /\ Resting.todo = {} /\ Resting.new = {} /\ "idle" # "flush"
  BY DEF Resting
<1>2. DOMAIN Resting = {"pc", "run", "alone", "todo", "seen", "off", "new"}
  BY Zenon DEF Resting
<1> QED
  BY <1>1, <1>2, Zenon DEF RunOK

LEMMA MineInitInv == MineInit => MineInv
BY RestingOK, Zenon DEF MineInit, MineInv

\* One run goes on or ends, and the table is not touched.
LEMMA RunInv ==
    ASSUME MineInv, NEW w \in Miners, NEW n, miner' = [miner EXCEPT ![w] = n], findings' = findings,
           n.pc \in {"idle", "next", "flush"}, RunOK(n), miner[w].pc # "idle",
           n.pc # "idle" /\ n.alone => miner[w].alone /\ LoneOK(n, findings)
    PROVE  MineInv'
<1>1. \A v \in Miners : miner'[v] = IF v = w THEN n ELSE miner[v]
  BY Zenon DEF MineInv
<1>2. DOMAIN miner' = Miners
  BY Zenon DEF MineInv
<1>3. ASSUME NEW v \in Miners
      PROVE  /\ miner'[v].pc \in {"idle", "next", "flush"}
             /\ RunOK(miner'[v])
             /\ (miner'[v].pc # "idle" /\ miner'[v].alone) =>
                   /\ \A u \in Miners : miner'[u].pc # "idle" => u = v
                   /\ LoneOK(miner'[v], findings)
  <2>1. CASE v = w
    BY <1>1, <2>1, Zenon DEF MineInv
  <2>2. CASE v # w
    BY <1>1, <2>2, Zenon DEF MineInv
  <2> QED
    BY <2>1, <2>2, Zenon
<1> QED
  BY <1>2, <1>3, Zenon DEF MineInv

LEMMA StartMiningInv ==
    ASSUME MineInv, NEW w \in Miners, StartMining(w)
    PROVE  MineInv'
<1> DEFINE n == [Resting EXCEPT !.pc = "next", !.run = runs + 1, !.alone = Busy = {},
                                !.todo = {p \in Patterns : accepted(hazards, p)}]
           Other(v) == [miner[v] EXCEPT !.alone = @ /\ miner[v].pc = "idle"]
<1>1. miner' = [v \in Miners |-> IF v = w THEN n ELSE Other(v)] /\ findings' = findings
      /\ miner[w].pc = "idle"
  BY Zenon DEF StartMining
<1>2. /\ n.pc = "next" /\ n.new = {} /\ n.todo = {p \in Patterns : accepted(hazards, p)}
      /\ n.off = {} /\ DOMAIN n = {"pc", "run", "alone", "todo", "seen", "off", "new"}
  BY DEF Resting
<1>3. n.alone = (Busy = {})
  BY DEF Resting
<1>4. n.pc \in {"idle", "next", "flush"} /\ RunOK(n) /\ LoneOK(n, findings) /\ n.pc # "idle"
  <2>1. "next" # "idle" /\ "next" # "flush"
    OBVIOUS
  <2> HIDE DEF n
  <2> QED
    BY <1>2, <2>1, Zenon DEF RunOK, LoneOK, Mined
<1>5. n.alone => \A v \in Miners : miner[v].pc = "idle"
  BY <1>3, Zenon DEF Busy
<1>6. ASSUME NEW v \in Miners
      PROVE  /\ Other(v).pc = miner[v].pc /\ RunOK(Other(v))
             /\ Other(v).pc # "idle" => ~Other(v).alone
  <2>1. RunOK(miner[v]) /\ DOMAIN miner[v] = {"pc", "run", "alone", "todo", "seen", "off", "new"}
    BY Zenon DEF MineInv, RunOK
  <2>2. /\ Other(v).pc = miner[v].pc /\ Other(v).todo = miner[v].todo /\ Other(v).new = miner[v].new
        /\ DOMAIN Other(v) = DOMAIN miner[v]
    BY <2>1
  <2>3. Other(v).pc # "idle" => ~Other(v).alone
    BY <2>1, <2>2, Zenon
  <2> HIDE DEF Other
  <2> QED
    BY <2>1, <2>2, <2>3, Zenon DEF RunOK
<1> HIDE DEF n, Other
<1>7. \A v \in Miners : miner'[v] = IF v = w THEN n ELSE Other(v)
  BY <1>1, Zenon
<1>8. ASSUME NEW v \in Miners
      PROVE  /\ miner'[v].pc \in {"idle", "next", "flush"}
             /\ RunOK(miner'[v])
             /\ (miner'[v].pc # "idle" /\ miner'[v].alone) =>
                   /\ \A u \in Miners : miner'[u].pc # "idle" => u = v
                   /\ LoneOK(miner'[v], findings)
  <2>1. CASE v = w
    <3>1. miner'[v] = n
      BY <1>7, <2>1, Zenon
    <3>2. n.alone => \A u \in Miners : miner'[u].pc # "idle" => u = w
      BY <1>5, <1>6, <1>7, Zenon
    <3> QED
      BY <1>4, <2>1, <3>1, <3>2, Zenon
  <2>2. CASE v # w
    <3>1. miner'[v] = Other(v)
      BY <1>7, <2>2, Zenon
    <3>2. miner[v].pc \in {"idle", "next", "flush"}
      BY Zenon DEF MineInv
    <3> QED
      BY <1>6, <3>1, <3>2, Zenon
  <2> QED
    BY <2>1, <2>2, Zenon
<1> QED
  BY <1>1, <1>8, Zenon DEF MineInv

LEMMA ReadVersionsInv ==
    ASSUME MineInv, NEW w \in Miners, ReadVersions(w)
    PROVE  MineInv'
<1> DEFINE m == miner[w]
           S == {f \in findings : f.pattern = first(m.todo)}
           n == [m EXCEPT !.pc = "flush", !.seen = S]
<1>1. /\ RunOK(m) /\ DOMAIN m = {"pc", "run", "alone", "todo", "seen", "off", "new"}
      /\ m.pc = "next" /\ m.todo # {} /\ findings' = findings
      /\ m.alone => LoneOK(m, findings)
  <2>1. m.pc # "idle"
    BY DEF ReadVersions
  <2> QED
    BY <2>1, Zenon DEF MineInv, RunOK, ReadVersions
<1>2. miner' = [miner EXCEPT ![w] = n]
  BY ZenonT(30) DEF ReadVersions
<1>3. /\ n.pc = "flush" /\ n.todo = m.todo /\ n.new = m.new /\ n.off = m.off /\ n.seen = S
      /\ n.alone = m.alone /\ DOMAIN n = DOMAIN m
  <2> HIDE DEF S, m
  <2> QED
    BY <1>1
<1> HIDE DEF n
<1>4. "flush" \in {"idle", "next", "flush"} /\ "flush" # "idle" /\ "next" # "idle"
  OBVIOUS
<1>5. RunOK(n)
  BY <1>1, <1>3, <1>4, Zenon DEF RunOK
<1>6. m.alone => LoneOK(n, findings)
  BY <1>1, <1>3, Zenon DEF LoneOK, Mined
<1> QED
  BY <1>1, <1>2, <1>3, <1>4, <1>5, <1>6, RunInv, ZenonT(30)

LEMMA FlushVersionInv ==
    ASSUME MineInv, NEW w \in Miners, FlushVersion(w)
    PROVE  MineInv'
<1> DEFINE m == miner[w]
           p == first(m.todo)
           row == [pattern |-> p, run |-> m.run, version |-> next_version(m.seen), active |-> TRUE]
           n == [m EXCEPT !.pc = "next", !.todo = @ \ {p}, !.seen = {},
                          !.off = @ \cup deactivated(m.seen), !.new = @ \cup {row}]
<1>1. /\ RunOK(m) /\ DOMAIN m = {"pc", "run", "alone", "todo", "seen", "off", "new"}
      /\ m.pc = "flush" /\ m.todo # {} /\ m.todo \subseteq Patterns /\ findings' = findings
      /\ m.alone => LoneOK(m, findings)
  <2>1. m.pc = "flush" /\ m.pc # "idle"
    BY DEF FlushVersion
  <2> QED
    BY <2>1, Zenon DEF MineInv, RunOK, FlushVersion
<1>2. miner' = [miner EXCEPT ![w] = n]
  BY Zenon DEF FlushVersion
<1>3. p \in m.todo
  BY <1>1, FirstIsMember, Zenon
<1>4. "active" \in DOMAIN row /\ row.active = TRUE /\ row.pattern = p
  BY Zenon
<1> DEFINE off == deactivated(m.seen)
<1>5. /\ n.pc = "next" /\ n.todo = m.todo \ {p} /\ n.new = m.new \cup {row}
      /\ n.off = m.off \cup off /\ n.alone = m.alone /\ DOMAIN n = DOMAIN m
  <2> HIDE DEF m, p, row, off
  <2>1. n = [m EXCEPT !.pc = "next", !.todo = @ \ {p}, !.seen = {},
                      !.off = @ \cup off, !.new = @ \cup {row}]
    BY Zenon DEF off, m
  <2> HIDE DEF n
  <2> QED
    BY <1>1, <2>1
<1> HIDE DEF n, row
<1>6. "next" \in {"idle", "next", "flush"} /\ "flush" # "idle" /\ "next" # "idle" /\ "next" # "flush"
  OBVIOUS
<1>7. RunOK(n)
  <2>1. \A f \in m.new : f.pattern # p
    BY <1>1, <1>3, Zenon DEF RunOK
  <2>2. /\ n.todo \subseteq Patterns
        /\ DOMAIN n = {"pc", "run", "alone", "todo", "seen", "off", "new"}
        /\ n.pc # "idle" /\ n.pc # "flush"
    BY <1>1, <1>5, <1>6, Zenon
  <2>3. \A f \in n.new : "active" \in DOMAIN f /\ f.active = TRUE /\ f.pattern \notin n.todo
    BY <1>1, <1>4, <1>5, ZenonT(30) DEF RunOK
  <2>4. \A f, g \in n.new : f.pattern = g.pattern => f = g
    <3>1. \A f \in n.new : f \in m.new \/ f = row
      BY <1>5, Zenon
    <3>2. \A f, g \in m.new : f.pattern = g.pattern => f = g
      BY <1>1, Zenon DEF RunOK
    <3> QED
      BY <1>4, <2>1, <3>1, <3>2, ZenonT(30)
  <2> QED
    BY <2>2, <2>3, <2>4, ZenonT(30) DEF RunOK
<1>8. m.alone => LoneOK(n, findings)
  <2> SUFFICES ASSUME m.alone PROVE LoneOK(n, findings)
    OBVIOUS
  <2>1. LoneOK(m, findings) /\ m.seen = {f \in findings : f.pattern = p}
    BY <1>1, Zenon DEF LoneOK
  <2>2. ASSUME NEW f \in findings, f.active, f.pattern \in Mined(n) PROVE f \in n.off
    <3>1. f.pattern \in Mined(m) \/ f.pattern = p
      BY <1>4, <1>5, <2>2, Zenon DEF Mined
    <3>2. CASE f.pattern \in Mined(m)
      BY <1>5, <2>1, <2>2, <3>2, Zenon DEF LoneOK
    <3>3. CASE f.pattern = p
      <4>1. f \in m.seen
        BY <2>1, <3>3, Zenon
      <4> QED
        BY <1>5, <2>2, <4>1, Zenon DEF deactivated
    <3> QED
      BY <3>1, <3>2, <3>3, Zenon
  <2> QED
    BY <1>5, <1>6, <2>2, Zenon DEF LoneOK
<1> QED
  BY <1>1, <1>2, <1>5, <1>6, <1>7, <1>8, RunInv, Zenon

LEMMA CommitMiningInv ==
    ASSUME MineInv, NEW w \in Miners, CommitMining(w)
    PROVE  MineInv'
<1> DEFINE m == miner[w]
           Row(f) == IF f \in m.off THEN Off(f) ELSE f
<1>1. findings' = {Row(f) : f \in findings} \cup m.new /\ miner' = [miner EXCEPT ![w] = Resting]
      /\ m.pc = "next"
  BY Zenon DEF CommitMining
<1>2. ASSUME NEW f \in findings' PROVE "active" \in DOMAIN f
  <2>1. ASSUME NEW g \in findings PROVE "active" \in DOMAIN Row(g)
    <3>1. "active" \in DOMAIN g
      BY Zenon DEF MineInv
    <3>2. DOMAIN Off(g) = DOMAIN g
      BY Zenon DEF Off
    <3> QED
      BY <3>1, <3>2, Zenon
  <2>2. \A g \in m.new : "active" \in DOMAIN g
    BY Zenon DEF MineInv, RunOK
  <2> QED
    BY <1>1, <2>1, <2>2, Zenon
<1>3. m.pc # "idle"
  BY <1>1
<1>4. \A v \in Miners : miner'[v] = IF v = w THEN Resting ELSE miner[v]
  BY <1>1, Zenon DEF MineInv
<1>5. DOMAIN miner' = Miners
  BY <1>1, Zenon DEF MineInv
<1>6. ASSUME NEW v \in Miners
      PROVE  /\ miner'[v].pc \in {"idle", "next", "flush"}
             /\ RunOK(miner'[v])
             /\ ~(miner'[v].pc # "idle" /\ miner'[v].alone)
  <2>1. CASE v = w
    BY <1>4, <2>1, RestingOK, Zenon
  <2>2. CASE v # w
    <3>1. miner'[v] = miner[v]
      BY <1>4, <2>2, Zenon
    <3>2. miner[v].pc # "idle" => ~miner[v].alone
      BY <1>3, <2>2, Zenon DEF MineInv
    <3> QED
      BY <3>1, <3>2, Zenon DEF MineInv
  <2> QED
    BY <2>1, <2>2, Zenon
<1> QED
  BY <1>2, <1>5, <1>6, Zenon DEF MineInv

LEMMA MineNextInv ==
    ASSUME MineInv, [MineNext]_mineVars
    PROVE  MineInv'
<1>1. CASE UNCHANGED mineVars
  <2>1. findings' = findings /\ miner' = miner
    BY <1>1, Zenon DEF mineVars
  <2> QED
    BY <2>1, Zenon DEF MineInv
<1>2. ASSUME NEW w \in Miners, LoseMining(w) PROVE MineInv'
  BY <1>2, RestingOK, RunInv, Zenon DEF LoseMining
<1> QED
  BY <1>1, <1>2, StartMiningInv, ReadVersionsInv, FlushVersionInv, CommitMiningInv, ZenonT(30)
     DEF MineNext, MineStep

\* What a step does that changes the table: some run commits.
LEMMA LoneCommit ==
    ASSUME MineInv, [MineNext]_mineVars, NEW w \in Miners,
           miner[w].pc = "next", miner[w].alone, findings' # findings,
           NEW f \in miner[w].new
    PROVE  Active({g \in findings' : g.pattern = f.pattern}) = {f}
<1> DEFINE m == miner[w]
<1>1. PICK v \in Miners : CommitMining(v)
  BY ZenonT(30) DEF MineNext, MineStep, StartMining, ReadVersions, FlushVersion, LoseMining, mineVars
<1>2. miner[v].pc # "idle" /\ m.pc # "idle"
  BY <1>1 DEF CommitMining
<1>3. v = w /\ LoneOK(m, findings) /\ RunOK(m)
  BY <1>2, Zenon DEF MineInv
<1>4. findings' = {IF g \in m.off THEN Off(g) ELSE g : g \in findings} \cup m.new
  BY <1>1, <1>3, Zenon DEF CommitMining
<1>5. f.active = TRUE /\ f \in findings'
  BY <1>3, <1>4, Zenon DEF RunOK
<1>6. ASSUME NEW g \in findings', g.active, g.pattern = f.pattern PROVE g = f
  <2>1. CASE g \in m.new
    BY <1>3, <1>6, <2>1, Zenon DEF RunOK
  <2>2. ASSUME NEW h \in findings, g = IF h \in m.off THEN Off(h) ELSE h PROVE FALSE
    <3>1. CASE h \in m.off
      <4>1. "active" \in DOMAIN h /\ g = Off(h)
        BY <2>2, <3>1, ZenonT(30) DEF MineInv
      <4>2. Off(h).active = FALSE
        BY <4>1, Zenon DEF Off
      <4> QED
        BY <1>6, <4>1, <4>2, Zenon
    <3>2. CASE h \notin m.off
      <4>1. g = h /\ h.active /\ h.pattern \in Mined(m)
        BY <1>6, <2>2, <3>2, Zenon DEF Mined
      <4> QED
        BY <1>3, <3>2, <4>1, Zenon DEF LoneOK
    <3> QED
      BY <3>1, <3>2, Zenon
  <2> QED
    BY <1>4, <2>1, <2>2, Zenon
<1> QED
  BY <1>5, <1>6, Zenon DEF Active

(* However many active rows overlapping runs have left of a pattern, a run that
   had the table to itself leaves its own as the only active one. *)
THEOREM ALoneRunRepairs == Spec => LoneRunRepairs
<1>1. Init => MineInv
  BY MineInitInv, Zenon DEF Init
<1>2. MineInv /\ [Next]_jobVars => MineInv'
  BY MineNextInv, JobSteps, Zenon
<1>3. MineInv /\ [Next]_jobVars =>
        [\A w \in Miners :
            (miner[w].pc = "next" /\ miner[w].todo = {} /\ miner[w].alone /\ miner'[w].pc = "idle"
             /\ findings' # findings)
            => \A f \in miner[w].new : Active({g \in findings' : g.pattern = f.pattern}) = {f}]_mineVars
  BY LoneCommit, JobSteps, Zenon
<1> QED
  BY <1>1, <1>2, <1>3, PTL DEF Spec, LoneRunRepairs

-----------------------------------------------------------------------------
(* Scaling telemetry *)

\* The state of the walk over the samples.
Acc == [start : Int, last : Int, met : BOOLEAN]

\* Samples are appended as the clock goes.
InOrder(s) == \A i, j \in 1 .. Len(s) : i < j => s[i].ts <= s[j].ts

\* The samples from i to j are over the threshold and follow one another.
Breach(s, over, i, j) ==
    /\ \A k \in i .. j : s[k] \in over
    /\ \A k \in i .. j - 1 : s[k + 1].ts - s[k].ts <= MaxGap

\* One of the first n samples completes a breach of duration d.
SustainedBy(s, over, d, n) ==
    \E i, j \in 1 .. n : i <= j /\ s[j].ts - s[i].ts >= d /\ Breach(s, over, i, j)

(* What the walk knows after n samples of which none completed a sustained breach:
   when the last one is over the threshold, where the breach that it belongs to
   began. *)
Knows(s, over, a, n) ==
    IF n = 0 \/ s[n] \notin over THEN a.start = -1 /\ a.last = -1
    ELSE \E b \in 1 .. n :
            /\ a.start = s[b].ts /\ a.last = s[n].ts
            /\ Breach(s, over, b, n)
            /\ b = 1 \/ s[b - 1] \notin over \/ s[b].ts - s[b - 1].ts > MaxGap

LEMMA ScalingConstants ==
    /\ MaxClock \in Nat /\ MaxSamples \in Nat /\ PoolSize \in Nat /\ DepthThreshold \in Nat
    /\ Retention \in Nat /\ Depths \subseteq Nat
    /\ JobDuration \in Nat \ {0} /\ TargetWait \in Nat \ {0} /\ DepthSustained \in Nat \ {0}
    /\ BusySustained \in Nat \ {0} /\ MaxGap \in Nat \ {0}
BY ScalingAssumption, Zenon

LEMMA WalkedFields ==
    ASSUME NEW a \in Acc, NEW ts \in Nat, NEW x, NEW over, NEW d \in Nat
    PROVE  LET c == walked(a, ts, x \in over, d)
               b == IF a.start = -1 \/ (a.last # -1 /\ ts - a.last > MaxGap) THEN ts ELSE a.start
           IN  /\ c \in Acc
               /\ a.met => c = a
               /\ ~a.met /\ x \notin over => c.start = -1 /\ c.last = -1 /\ ~c.met
               /\ ~a.met /\ x \in over => c.start = b /\ c.last = ts /\ (c.met <=> ts - b >= d)
<1> DEFINE c == walked(a, ts, x \in over, d)
           b == IF a.start = -1 \/ (a.last # -1 /\ ts - a.last > MaxGap) THEN ts ELSE a.start
           m == ts - b >= d
           new == [start |-> b, last |-> ts, met |-> m]
<1>1. b \in Int /\ ts \in Int
  BY DEF Acc
<1>2. m \in BOOLEAN
  OBVIOUS
<1>3. c = IF a.met THEN a ELSE IF x \notin over THEN NoBreach ELSE new
  BY Zenon DEF walked
<1>4. NoBreach \in Acc /\ NoBreach.start = -1 /\ NoBreach.last = -1
  BY DEF NoBreach, Acc
<1>5. NoBreach.met = FALSE
  BY Zenon DEF NoBreach
<1> HIDE DEF b, m
<1>6. new \in Acc
  BY <1>1, <1>2, Zenon DEF Acc
<1>7. new.start = b /\ new.last = ts /\ new.met = m
  BY Zenon
<1> HIDE DEF c, new
<1>8. c \in Acc
  BY <1>3, <1>4, <1>6, Zenon
<1>9. ~a.met /\ x \notin over => c.start = -1 /\ c.last = -1 /\ ~c.met
  BY <1>3, <1>4, <1>5, Zenon
<1>10. ~a.met /\ x \in over => c.start = b /\ c.last = ts /\ (c.met <=> m)
  BY <1>3, <1>7, Zenon
<1> QED
  BY <1>3, <1>8, <1>9, <1>10, ZenonT(30) DEF c, b, m

\* The walk over one more sample.
LEMMA OneMoreSample ==
    ASSUME NEW s \in Seq(Samples), InOrder(s), NEW over, NEW d \in Nat \ {0},
           NEW n \in Nat, n + 1 <= Len(s), NEW a \in Acc,
           a.met <=> SustainedBy(s, over, d, n),
           ~a.met => Knows(s, over, a, n)
    PROVE  LET c == walked(a, s[n + 1].ts, s[n + 1] \in over, d)
           IN  /\ c \in Acc
               /\ c.met <=> SustainedBy(s, over, d, n + 1)
               /\ ~c.met => Knows(s, over, c, n + 1)
<1> DEFINE o == n + 1
           t == s[o].ts
           in == s[o] \in over
           c == walked(a, t, in, d)
           b == IF a.start = -1 \/ (a.last # -1 /\ t - a.last > MaxGap) THEN t ELSE a.start
           Goal == /\ c.met <=> SustainedBy(s, over, d, o)
                   /\ ~c.met => Knows(s, over, c, o)
<1>1. ASSUME NEW k \in 1 .. Len(s) PROVE s[k].ts \in Nat
  <2>1. s[k] \in Samples
    OBVIOUS
  <2>2. s[k].ts \in 0 .. MaxClock
    BY <2>1, Zenon DEF Samples
  <2> QED
    BY <2>2
<1>2. o \in 1 .. Len(s) /\ o # 0 /\ Len(s) \in Nat
  OBVIOUS
<1>3. t \in Nat /\ in \in BOOLEAN /\ d \in Nat
  BY <1>1, <1>2
<1>4. /\ c \in Acc
      /\ a.met => c = a
      /\ ~a.met /\ ~in => c.start = -1 /\ c.last = -1 /\ ~c.met
      /\ ~a.met /\ in => c.start = b /\ c.last = t /\ (c.met <=> t - b >= d)
  <2> DEFINE x == s[o]
  <2> HIDE DEF t, x, b
  <2>1. /\ walked(a, t, x \in over, d) \in Acc
        /\ a.met => walked(a, t, x \in over, d) = a
        /\ ~a.met /\ x \notin over =>
              /\ walked(a, t, x \in over, d).start = -1
              /\ walked(a, t, x \in over, d).last = -1 /\ ~walked(a, t, x \in over, d).met
        /\ ~a.met /\ x \in over =>
              /\ walked(a, t, x \in over, d).start = b
              /\ walked(a, t, x \in over, d).last = t /\ (walked(a, t, x \in over, d).met <=> t - b >= d)
    BY <1>3, WalkedFields DEF b
  <2> QED
    BY <2>1, ZenonT(30) DEF x
<1> HIDE DEF c
<1>5. SustainedBy(s, over, d, n) => SustainedBy(s, over, d, o)
  <2>1. \A i \in 1 .. n : i \in 1 .. o
    OBVIOUS
  <2> HIDE DEF o
  <2> QED
    BY <2>1, Zenon DEF SustainedBy
<1>6. ASSUME SustainedBy(s, over, d, o), ~SustainedBy(s, over, d, n)
      PROVE  \E i \in 1 .. o : t - s[i].ts >= d /\ Breach(s, over, i, o)
  <2>1. PICK i \in 1 .. o, j \in 1 .. o :
             i <= j /\ s[j].ts - s[i].ts >= d /\ Breach(s, over, i, j)
    BY <1>6, ZenonT(30) DEF SustainedBy
  <2>2. j = o \/ (i \in 1 .. n /\ j \in 1 .. n)
    BY <2>1
  <2>3. j = o
    BY <1>6, <2>1, <2>2, Zenon DEF SustainedBy
  <2> QED
    BY <2>1, <2>3, ZenonT(30)
<1>7. ASSUME a.met PROVE Goal
  BY <1>4, <1>5, <1>7, Zenon
<1>8. ASSUME ~a.met, ~in PROVE Goal
  <2>1. Knows(s, over, c, o)
    BY <1>4, <1>8, Zenon DEF Knows
  <2>2. \A i \in 1 .. o : o \in i .. o
    BY <1>2
  <2>3. ~SustainedBy(s, over, d, o)
    BY <1>6, <1>8, <2>2, Zenon DEF Breach
  <2> QED
    BY <1>4, <1>8, <2>1, <2>3, Zenon
<1>9. ASSUME ~a.met, in PROVE Goal
  <2>1. PICK e \in 1 .. o :
            /\ b = s[e].ts /\ Breach(s, over, e, o)
            /\ e = 1 \/ s[e - 1] \notin over \/ s[e].ts - s[e - 1].ts > MaxGap
    <3>1. Breach(s, over, o, o)
      <4>1. \A k \in o .. o : k = o
        BY <1>2
      <4>2. \A k \in o .. o - 1 : FALSE
        BY <1>2
      <4> HIDE DEF o
      <4> QED
        BY <1>9, <4>1, <4>2, ZenonT(30) DEF Breach
    <3>2. o - 1 = n
      OBVIOUS
    <3>3. CASE n = 0 \/ s[n] \notin over
      <4>1. b = t
        BY <1>9, <3>3, Zenon DEF Knows
      <4>2. o = 1 \/ s[o - 1] \notin over
        BY <3>2, <3>3
      <4>3. o \in 1 .. o
        BY <1>2
      <4> HIDE DEF b
      <4> QED
        BY <3>1, <4>1, <4>2, <4>3, ZenonT(30)
    <3>4. CASE ~(n = 0 \/ s[n] \notin over)
      <4>1. PICK f \in 1 .. n :
                /\ a.start = s[f].ts /\ a.last = s[n].ts /\ Breach(s, over, f, n)
                /\ f = 1 \/ s[f - 1] \notin over \/ s[f].ts - s[f - 1].ts > MaxGap
        BY <1>9, <3>4, Zenon DEF Knows
      <4>2. n \in 1 .. Len(s) /\ f \in 1 .. Len(s) /\ f \in 1 .. o /\ o \in 1 .. o
        BY <3>4, <1>2, SMTT(30)
      <4>3. a.start # -1 /\ a.last # -1
        <5>1. s[f].ts \in Nat /\ s[n].ts \in Nat
          BY <1>1, <4>2, Zenon
        <5> QED
          BY <4>1, <5>1
      <4>4. CASE t - s[n].ts > MaxGap
        <5>1. b = t
          BY <4>1, <4>3, <4>4, Zenon
        <5>2. s[o].ts - s[o - 1].ts > MaxGap
          BY <3>2, <4>4, Zenon
        <5> HIDE DEF b
        <5> QED
          BY <3>1, <4>2, <5>1, <5>2, ZenonT(30)
      <4>5. CASE ~(t - s[n].ts > MaxGap)
        <5>1. b = s[f].ts
          BY <4>1, <4>3, <4>5, ZenonT(30)
        <5>2. t - s[n].ts <= MaxGap
          BY <1>1, <1>3, <4>2, <4>5, ScalingConstants, SMTT(30)
        <5>3. Breach(s, over, f, o)
          <6>1. \A k \in f .. o : k = o \/ k \in f .. n
            BY <4>2
          <6>2. \A k \in f .. o - 1 : k = n \/ k \in f .. n - 1
            BY <4>2
          <6> QED
            BY <1>9, <4>1, <5>2, <6>1, <6>2, ZenonT(30) DEF Breach
        <5> HIDE DEF b
        <5> QED
          BY <4>1, <4>2, <5>1, <5>3, ZenonT(30)
      <4> QED
        BY <4>4, <4>5, Zenon
    <3> QED
      BY <3>3, <3>4, Zenon
  <2>2. Knows(s, over, c, o)
    BY <1>2, <1>4, <1>9, <2>1, Zenon DEF Knows
  <2>3. c.met => SustainedBy(s, over, d, o)
    <3>1. e <= o /\ o \in 1 .. o
      BY <1>2
    <3> QED
      BY <1>4, <1>9, <2>1, <3>1, ZenonT(30) DEF SustainedBy
  <2>4. ASSUME SustainedBy(s, over, d, o) PROVE c.met
    <3>1. PICK i \in 1 .. o : t - s[i].ts >= d /\ Breach(s, over, i, o)
      BY <1>6, <1>9, <2>4, ZenonT(30)
    <3>2. e <= i
      <4> SUFFICES ASSUME i < e PROVE FALSE
        BY <1>2
      <4>1. e - 1 \in i .. o /\ e - 1 \in i .. o - 1 /\ e # 1 /\ (e - 1) + 1 = e
        BY <1>2
      <4>2. s[e - 1] \in over /\ s[e].ts - s[e - 1].ts <= MaxGap
        BY <3>1, <4>1, Zenon DEF Breach
      <4>3. s[e].ts \in Nat /\ s[e - 1].ts \in Nat
        <5>1. e \in 1 .. Len(s) /\ e - 1 \in 1 .. Len(s)
          BY <1>2, <4>1
        <5> QED
          BY <1>1, <5>1, Zenon
      <4> QED
        BY <2>1, <4>1, <4>2, <4>3, ScalingConstants, SMTT(30)
    <3>3. e \in 1 .. Len(s) /\ i \in 1 .. Len(s) /\ (e = i \/ e < i)
      BY <1>2, <3>2
    <3>4. s[e].ts <= s[i].ts
      <4>1. s[e].ts <= s[e].ts
        BY <1>1, <3>3, SMTT(30)
      <4> QED
        BY <3>3, <4>1, ZenonT(30) DEF InOrder
    <3>5. t - s[e].ts >= d
      BY <1>1, <1>3, <3>1, <3>3, <3>4, SMTT(30)
    <3> QED
      BY <1>4, <1>9, <2>1, <3>5, ZenonT(30)
  <2> QED
    BY <1>4, <2>2, <2>3, <2>4, Zenon
<1> QED
  BY <1>3, <1>4, <1>7, <1>8, <1>9, ZenonT(30) DEF c

\* The walk ends on a sustained breach exactly when there is one.
LEMMA WalkIsRight ==
    ASSUME NEW s \in Seq(Samples), InOrder(s), NEW over, NEW d \in Nat \ {0}
    PROVE  walk(s, over, d).met <=> Sustained(s, over, d)
<1> DEFINE N == Len(s)
           Next1(a, i) == walked(a, s[i].ts, s[i] \in over, d)
           Along(f) == [n \in 0 .. N |-> IF n = 0 THEN NoBreach ELSE Next1(f[n - 1], n)]
<1>1. N \in Nat /\ NoBreach \in Acc /\ NoBreach.start = -1 /\ NoBreach.last = -1
  BY DEF NoBreach, Acc
<1>2. NoBreach.met = FALSE
  BY Zenon DEF NoBreach
<1>3. ASSUME NEW i \in 1 .. N, NEW a \in Acc PROVE Next1(a, i) \in Acc
  <2>1. s[i] \in Samples
    OBVIOUS
  <2>2. s[i].ts \in 0 .. MaxClock
    BY <2>1, Zenon DEF Samples
  <2> DEFINE t == s[i].ts
             x == s[i]
  <2>3. t \in Nat /\ d \in Nat
    BY <2>2, SMTT(30)
  <2> HIDE DEF t, x
  <2>4. walked(a, t, x \in over, d) \in Acc
    BY <2>3, WalkedFields
  <2> QED
    BY <2>4, Zenon DEF t, x
<1>4. \E f : f = Along(f)
  <2> DEFINE step == [i \in 1 .. N |-> [a \in Acc |-> Next1(a, i)]]
  <2>1. step \in [1 .. N -> [Acc -> Acc]]
    <3> HIDE DEF Next1, N
    <3> QED
      BY <1>3, Zenon
  <2> HIDE DEF Next1, N
  <2>2. PICK f \in [0 .. N -> Acc] : f[0] = NoBreach /\ \A i \in 1 .. N : f[i] = step[i][f[i - 1]]
    <3> HIDE DEF step, Along
    <3> QED
      BY <1>1, <2>1, Recursion, SMTT(30)
  <2>3. ASSUME NEW i \in 1 .. N PROVE f[i] = Next1(f[i - 1], i)
    <3>1. f[i - 1] \in Acc
      <4>1. i - 1 \in 0 .. N
        BY <1>1
      <4> QED
        BY <4>1, Zenon
    <3> QED
      BY <2>2, <3>1, Zenon
  <2>4. ASSUME NEW n \in 0 .. N PROVE f[n] = Along(f)[n]
    <3>1. n = 0 \/ n \in 1 .. N
      BY <1>1
    <3>2. Along(f)[n] = IF n = 0 THEN NoBreach ELSE Next1(f[n - 1], n)
      BY Zenon
    <3> HIDE DEF Along
    <3> QED
      BY <2>2, <2>3, <3>1, <3>2, Zenon
  <2>5. f = Along(f)
    BY <2>4, Zenon
  <2> QED
    BY <2>5, Zenon
<1>5. PICK f : f = Along(f) /\ walk(s, over, d) = f[N]
  BY <1>4, Zenon DEF walk
<1>6. f[0] = NoBreach /\ \A n \in 0 .. N : n # 0 => f[n] = Next1(f[n - 1], n)
  <2> HIDE DEF Next1, N
  <2>1. 0 \in 0 .. N
    BY <1>1
  <2>2. \A n \in 0 .. N : f[n] = IF n = 0 THEN NoBreach ELSE Next1(f[n - 1], n)
    BY <1>5, Zenon
  <2> HIDE DEF Along
  <2> QED
    BY <2>1, <2>2, Zenon
<1> HIDE DEF Along
<1> DEFINE Right(n) == /\ f[n] \in Acc
                       /\ f[n].met <=> SustainedBy(s, over, d, n)
                       /\ ~f[n].met => Knows(s, over, f[n], n)
           A == {n \in Nat : n <= N => Right(n)}
<1>7. 0 \in A
  <2>1. ~SustainedBy(s, over, d, 0)
    <3>1. \A i \in 1 .. 0 : FALSE
      OBVIOUS
    <3> QED
      BY <3>1, Zenon DEF SustainedBy
  <2> QED
    BY <1>1, <1>2, <1>6, <2>1, Zenon DEF Knows
<1>8. ASSUME NEW n \in A PROVE n + 1 \in A
  <2> SUFFICES ASSUME n + 1 <= N PROVE Right(n + 1)
    BY SMTT(30)
  <2>1. n \in Nat /\ n <= N
    BY <1>1
  <2>2. Right(n)
    BY <2>1, ZenonT(30)
  <2>3. n + 1 \in 0 .. N /\ n + 1 # 0 /\ (n + 1) - 1 = n
    BY <1>1, <2>1
  <2>4. f[n + 1] = Next1(f[n], n + 1)
    BY <1>6, <2>3, Zenon
  <2> DEFINE a == f[n]
             c == walked(a, s[n + 1].ts, s[n + 1] \in over, d)
  <2>5. /\ a \in Acc /\ (a.met <=> SustainedBy(s, over, d, n)) /\ (~a.met => Knows(s, over, a, n))
    BY <2>2, Zenon
  <2>6. f[n + 1] = c
    BY <2>4, Zenon
  <2> HIDE DEF a, Right, A
  <2>7. /\ c \in Acc
        /\ c.met <=> SustainedBy(s, over, d, n + 1)
        /\ ~c.met => Knows(s, over, c, n + 1)
    BY <2>1, <2>5, OneMoreSample, Zenon
  <2> HIDE DEF c
  <2> QED
    BY <2>6, <2>7, ZenonT(30) DEF Right
<1>9. A = Nat
  <2> HIDE DEF A
  <2>1. A \in SUBSET Nat
    BY Zenon DEF A
  <2> QED
    BY <1>7, <1>8, <2>1, SetInduction, Zenon
<1>10. Right(N)
  <2>1. N <= N
    BY <1>1
  <2> HIDE DEF Right, N
  <2> QED
    BY <1>1, <1>9, <2>1, Zenon
<1>11. SustainedBy(s, over, d, N) <=> Sustained(s, over, d)
  <2>1. DOMAIN s = 1 .. N
    OBVIOUS
  <2> HIDE DEF N
  <2> QED
    BY <2>1, Zenon DEF SustainedBy, Sustained, Breach
<1> QED
  BY <1>5, <1>10, <1>11, Zenon

\* What is kept of samples in order is in order.
LEMMA KeptInOrder ==
    ASSUME NEW s \in Seq(Samples), InOrder(s), NEW S
    PROVE  Where(s, S) \in Seq(Samples) /\ InOrder(Where(s, S))
<1> DEFINE w == Where(s, S)
<1>1. w \in Seq(Samples)
  BY WherePicks, Zenon
<1>2. ASSUME NEW i \in 1 .. Len(w), NEW j \in 1 .. Len(w), i < j PROVE w[i].ts <= w[j].ts
  <2>1. PICK k, l \in 1 .. Len(s) : k < l /\ w[i] = s[k] /\ w[j] = s[l]
    BY <1>2, WhereOrder
  <2> HIDE DEF w
  <2> QED
    BY <2>1, Zenon DEF InOrder
<1> QED
  BY <1>1, <1>2, Zenon DEF InOrder

\* The samples kept are in order and not of the future.
ScalingInv ==
    /\ clock \in 0 .. MaxClock
    /\ samples \in Seq(Samples) /\ InOrder(samples)
    /\ \A x \in Range(samples) : x.ts <= clock

LEMMA ScalingInitInv == ScalingInit => ScalingInv
BY ScalingConstants DEF ScalingInit, ScalingInv, InOrder, Range

LEMMA SampleType ==
    ASSUME clock \in 0 .. MaxClock, NEW depth \in Depths, NEW busy \in BOOLEAN
    PROVE  get_scaling_metrics(depth, busy) \in Samples /\ get_scaling_metrics(depth, busy).ts = clock
<1> DEFINE q == (depth * JobDuration + TargetWait - 1) \div TargetWait
           p == recommended_pool_size(depth)
<1>1. depth \in Nat /\ PoolSize \in Nat /\ JobDuration \in Nat /\ TargetWait \in Nat /\ TargetWait > 0
  BY ScalingConstants
<1>2. q \in Int
  BY <1>1
<1> HIDE DEF q
<1>3. \E x \in {1, PoolSize, q} : \A y \in {1, PoolSize, q} : x >= y
  BY <1>1, <1>2
<1>4. p \in {1, PoolSize, q} /\ p >= 1
  <2>1. p = Max({1, PoolSize, q})
    BY Zenon DEF recommended_pool_size, q
  <2> QED
    BY <1>3, <2>1, Zenon DEF Max
<1> HIDE DEF p
<1>5. p \in Nat
  BY <1>1, <1>2, <1>4
<1>6. get_scaling_metrics(depth, busy) = [ts |-> clock, depth |-> depth, busy |-> busy, pool |-> p]
  BY Zenon DEF get_scaling_metrics, p
<1> QED
  BY <1>5, <1>6 DEF Samples

LEMMA ScalingNextInv ==
    ASSUME ScalingInv, [ScalingNext]_scalingVars
    PROVE  ScalingInv'
<1>1. /\ clock \in 0 .. MaxClock /\ MaxClock \in Nat
      /\ samples \in Seq(Samples) /\ InOrder(samples) /\ Len(samples) \in Nat
      /\ DOMAIN samples = 1 .. Len(samples)
      /\ \A i \in 1 .. Len(samples) : samples[i].ts <= clock
  BY ScalingConstants DEF ScalingInv, Range
<1>2. CASE UNCHANGED <<clock, samples>>
  BY <1>2, Zenon DEF ScalingInv
<1>3. CASE RecordSample
  <2>1. PICK depth \in Depths, busy \in BOOLEAN :
             samples' = Append(samples, get_scaling_metrics(depth, busy))
    BY <1>3, Zenon DEF RecordSample
  <2> DEFINE x == get_scaling_metrics(depth, busy)
             n == Len(samples) + 1
  <2>2. x \in Samples /\ x.ts = clock /\ clock' = clock
    BY <1>1, <1>3, SampleType, ZenonT(30) DEF RecordSample
  <2> HIDE DEF x
  <2>3. /\ samples' \in Seq(Samples) /\ Len(samples') = n /\ DOMAIN samples' = 1 .. n
        /\ \A i \in 1 .. n : i = n \/ i \in 1 .. Len(samples)
        /\ samples'[n] = x /\ \A i \in 1 .. Len(samples) : samples'[i] = samples[i]
    BY <1>1, <2>1, <2>2 DEF x
  <2>4. clock <= clock /\ \A i \in 1 .. n : ~(n < i)
    BY <1>1
  <2>5. \A i \in 1 .. n : samples'[i].ts <= clock
    BY <1>1, <2>2, <2>3, <2>4, Zenon
  <2>6. ASSUME NEW i \in 1 .. n, NEW j \in 1 .. n, i < j PROVE samples'[i].ts <= samples'[j].ts
    <3>1. CASE j = n
      BY <2>2, <2>3, <2>5, <3>1, Zenon
    <3>2. CASE j # n
      <4>1. i \in 1 .. Len(samples) /\ j \in 1 .. Len(samples)
        BY <2>3, <2>4, <2>6, <3>2, Zenon
      <4> QED
        BY <1>1, <2>3, <2>6, <4>1, Zenon DEF InOrder
    <3> QED
      BY <3>1, <3>2, Zenon
  <2> HIDE DEF n
  <2> QED
    BY <1>1, <2>2, <2>3, <2>5, <2>6, ZenonT(30) DEF ScalingInv, InOrder, Range
<1>4. CASE PruneSamples
  <2>1. samples' = Where(samples, Since(Retention)) /\ clock' = clock
    BY <1>4, Zenon DEF PruneSamples
  <2>2. samples' \in Seq(Samples) /\ InOrder(samples')
    BY <1>1, <2>1, KeptInOrder, Zenon
  <2>3. Range(samples') \subseteq Range(samples)
    BY <1>1, <2>1, WhereRange, Zenon
  <2> QED
    BY <1>1, <2>1, <2>2, <2>3, Zenon DEF ScalingInv, InOrder
<1>5. CASE TimePasses
  <2>1. clock' = clock + 1 /\ clock < MaxClock /\ samples' = samples
    BY <1>5, Zenon DEF TimePasses
  <2>2. clock' \in 0 .. MaxClock
    BY <1>1, <2>1
  <2>3. \A i \in 1 .. Len(samples) : samples[i].ts <= clock'
    <3>1. \A i \in 1 .. Len(samples) : samples[i] \in Samples
      BY <1>1
    <3>2. \A i \in 1 .. Len(samples) : samples[i].ts \in 0 .. MaxClock
      BY <3>1, Zenon DEF Samples
    <3> QED
      BY <1>1, <2>1, <3>2
  <2> QED
    BY <1>1, <2>1, <2>2, <2>3, Zenon DEF ScalingInv, InOrder, Range
<1> QED
  BY <1>2, <1>3, <1>4, <1>5, ZenonT(30) DEF ScalingNext, scalingVars, LoseSampler

LEMMA ScalingInvImplies == ScalingInv => VerdictIsRight
<1> SUFFICES ASSUME ScalingInv, NEW days \in 0 .. MaxClock
             PROVE  LET s == Window(days)
                    IN  /\ (scaling_verdict(s) = "triggered") <=>
                              \/ Sustained(s, Deep, DepthSustained)
                              \/ Sustained(s, AllBusy, BusySustained)
                        /\ (scaling_verdict(s) = "never crossed") <=>
                              \A i \in DOMAIN s : s[i].depth <= DepthThreshold /\ ~s[i].busy
  BY Zenon DEF VerdictIsRight
<1> DEFINE s == Window(days)
<1>1. s \in Seq(Samples) /\ InOrder(s)
  BY KeptInOrder, Zenon DEF ScalingInv, Window
<1> HIDE DEF s
<1> DEFINE deep == Sustained(s, Deep, DepthSustained)
           busy == Sustained(s, AllBusy, BusySustained)
<1>2. evaluate_sustained_queue_depth_breach(s) <=> deep
  BY <1>1, ScalingConstants, WalkIsRight, Zenon DEF evaluate_sustained_queue_depth_breach
<1>3. evaluate_sustained_utilization_breach(s) <=> busy
  BY <1>1, ScalingConstants, WalkIsRight, Zenon DEF evaluate_sustained_utilization_breach
<1>4. ASSUME NEW i \in DOMAIN s
      PROVE  s[i] \in Deep \cup AllBusy <=> ~(s[i].depth <= DepthThreshold /\ ~s[i].busy)
  <2>1. s[i] \in Samples
    BY <1>1
  <2>2. s[i].depth \in Nat
    BY <2>1, ScalingConstants DEF Samples
  <2>3. s[i].depth > DepthThreshold <=> ~(s[i].depth <= DepthThreshold)
    BY <2>2, ScalingConstants
  <2> QED
    BY <2>1, <2>3, Zenon DEF Deep, AllBusy
<1>5. threshold_crossed(s) <=> ~\A i \in DOMAIN s : s[i].depth <= DepthThreshold /\ ~s[i].busy
  BY <1>4, Zenon DEF threshold_crossed
<1>6. deep \/ busy => threshold_crossed(s)
  <2>1. ASSUME NEW over, NEW d, Sustained(s, over, d) PROVE \E i \in DOMAIN s : s[i] \in over
    <3>1. PICK i, j \in DOMAIN s : i <= j /\ \A k \in i .. j : s[k] \in over
      BY <2>1, Zenon DEF Sustained
    <3>2. i \in i .. j
      BY <1>1, <3>1
    <3> QED
      BY <3>1, <3>2, Zenon
  <2> QED
    BY <2>1, Zenon DEF threshold_crossed
<1>7. "triggered" # "never crossed" /\ "transient" # "never crossed" /\ "transient" # "triggered"
  OBVIOUS
<1> HIDE DEF deep, busy
<1>8. (scaling_verdict(s) = "triggered") <=> deep \/ busy
  BY <1>2, <1>3, <1>7, Zenon DEF scaling_verdict
<1>9. (scaling_verdict(s) = "never crossed") <=> ~threshold_crossed(s)
  BY <1>2, <1>3, <1>6, <1>7, Zenon DEF scaling_verdict
<1> QED
  BY <1>5, <1>8, <1>9, Zenon DEF deep, busy, s

(* Over every window of the samples that are kept, the walk calls for scaling out
   exactly when a breach lasts as long as configured without a longer gap, and
   calls a threshold never crossed exactly when it never was. *)
THEOREM VerdictsAreRight == Spec => []VerdictIsRight
<1>1. Init => ScalingInv
  BY ScalingInitInv, Zenon DEF Init
<1>2. ScalingInv /\ [Next]_jobVars => ScalingInv'
  BY ScalingNextInv, JobSteps, Zenon
<1> QED
  BY <1>1, <1>2, ScalingInvImplies, PTL DEF Spec

=============================================================================
