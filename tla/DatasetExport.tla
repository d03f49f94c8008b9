---------------------------- MODULE DatasetExport ----------------------------
(***************************************************************************)
(* workers/jobs/dataset_export_job.py: the research dataset is written to  *)
(* the export directory and copied to the storage backend, an archive and  *)
(* its checksum under names of their own and the manifest that leads to    *)
(* them under one name.  An export is known by its number, which stands    *)
(* for the time in its file names.                                         *)
(***************************************************************************)
EXTENDS Integers, Sequences

CONSTANT MaxExports     \* bound: exports started

VARIABLES
    exports,    \* exports started
    exportStep, \* the file being written, counted along Writes; 0 when no job runs
    exportFiles \* the files: where, which, of which export, and whether all of it is there

exportVars == <<exports, exportStep, exportFiles>>

ASSUME ExportAssumption == MaxExports \in Nat \ {0}

(* Slip: the manifest is uploaded first. *)
WritesManifestFirst ==
    <<<<"local", "archive">>, <<"local", "checksum">>, <<"local", "manifest">>,
      <<"stored", "manifest">>, <<"stored", "archive">>, <<"stored", "checksum">>>>

(* The order in which the files are written. *)
Writes ==
    <<<<"local", "archive">>, <<"local", "checksum">>, <<"local", "manifest">>,
      <<"stored", "archive">>, <<"stored", "checksum">>, <<"stored", "manifest">>>>

Files == [place : {"local", "stored"}, kind : {"archive", "checksum", "manifest"},
          export : 1 .. MaxExports, whole : BOOLEAN]

ExportTypeOK ==
    /\ exports \in 0 .. MaxExports
    /\ exportStep \in 0 .. 6
    /\ exportFiles \subseteq Files

ExportInit == exports = 0 /\ exportStep = 0 /\ exportFiles = {}

(* dataset_export_enabled, and a session to be had *)
StartExport ==
    /\ exportStep = 0 /\ exports < MaxExports
    /\ exports' = exports + 1
    /\ exportStep' = 1
    /\ UNCHANGED exportFiles

(* The file that a write replaces: the manifest has one name for all exports. *)
replaced(f, w) ==
    /\ <<f.place, f.kind>> = w
    /\ f.kind = "manifest" \/ f.export = exports

Written(whole) ==
    LET w == Writes[exportStep] IN
    exportFiles' = {f \in exportFiles : ~replaced(f, w)}
        \cup {[place |-> w[1], kind |-> w[2], export |-> exports, whole |-> whole]}

(* A file is opened, or its copy begun ... *)
OpenFile ==
    /\ exportStep # 0
    /\ Written(FALSE)
    /\ UNCHANGED <<exports, exportStep>>

(* ... and closed. *)
CloseFile ==
    /\ exportStep # 0
    /\ \E f \in exportFiles : ~f.whole /\ replaced(f, Writes[exportStep]) /\ f.export = exports
    /\ Written(TRUE)
    /\ exportStep' = (exportStep + 1) % 7
    /\ UNCHANGED exports

(* The worker dies, or the query or a write raises. *)
LoseExport ==
    /\ exportStep # 0
    /\ exportStep' = 0
    /\ UNCHANGED <<exports, exportFiles>>

ExportNext == StartExport \/ OpenFile \/ CloseFile \/ LoseExport

-----------------------------------------------------------------------------
(* Whoever reads the stored manifest finds the archive and the checksum it
   names, complete, wherever an earlier or a later export died. *)
ManifestSound ==
    \A m \in exportFiles :
        (m.place = "stored" /\ m.kind = "manifest" /\ m.whole) =>
            \A k \in {"archive", "checksum"} :
                [m EXCEPT !.kind = k] \in exportFiles
=============================================================================
