------------------------------ MODULE DataJobs ------------------------------
(***************************************************************************)
(* The recurring jobs that gather and refine data: ingestion, pattern      *)
(* mining, calibration, dataset export and scaling telemetry.  They run    *)
(* under the same scheduler and workers and share no state with each       *)
(* other, so a behaviour is about one of them.                             *)
(***************************************************************************)
EXTENDS Ingestion, PatternMining, Calibration, DatasetExport, ScalingTelemetry

VARIABLE part   \* the job this behaviour is about

jobVars == <<part, ingestVars, mineVars, calVars, exportVars, scalingVars>>

Parts == {"ingestion", "mining", "calibration", "export", "scaling"}

(* Every job's tables, files and registers hold what their code can put there. *)
TypeOK == part \in Parts /\ IngestTypeOK /\ MineTypeOK /\ CalTypeOK /\ ExportTypeOK /\ ScalingTypeOK

(* A setting of a job that this behaviour is not about does not matter. *)
Init ==
    /\ part \in Parts
    /\ IngestInit /\ MineInit /\ CalInit /\ ExportInit /\ ScalingInit
    /\ part # "ingestion" => <<feedSource, feedFaults>> = CHOOSE s \in SourceSets : TRUE
    /\ part # "mining" => hazards = {} /\ mineFaults = CHOOSE f \in MineSets : TRUE

Next ==
    \/ part = "ingestion" /\ IngestNext
          /\ UNCHANGED <<part, mineVars, calVars, exportVars, scalingVars>>
    \/ part = "mining" /\ MineNext
          /\ UNCHANGED <<part, ingestVars, calVars, exportVars, scalingVars>>
    \/ part = "calibration" /\ CalNext
          /\ UNCHANGED <<part, ingestVars, mineVars, exportVars, scalingVars>>
    \/ part = "export" /\ ExportNext
          /\ UNCHANGED <<part, ingestVars, mineVars, calVars, scalingVars>>
    \/ part = "scaling" /\ ScalingNext
          /\ UNCHANGED <<part, ingestVars, mineVars, calVars, exportVars>>

Spec == Init /\ [][Next]_jobVars
=============================================================================
