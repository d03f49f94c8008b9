-------------------------- MODULE ScalingTelemetry --------------------------
(***************************************************************************)
(* workers/scaling_policy.py and scaling_telemetry_job.py: samples of the  *)
(* queue's depth and of the workers' utilization are recorded and pruned,  *)
(* and judged: is a threshold crossed for long enough to scale out?  Time  *)
(* is counted in sampling intervals.                                       *)
(***************************************************************************)
EXTENDS Integers, Sequences, FiniteSets, FiniteSetsExt, Filtering

CONSTANTS
    MaxClock,       \* bound: time
    MaxSamples,     \* bound: samples kept in the table
    Depths,         \* the depths of the queue considered
    PoolSize,       \* worker_pool_size
    JobDuration,    \* DEFAULT_AVG_JOB_DURATION_S
    TargetWait,     \* worker_target_max_wait_s
    DepthThreshold, \* queue_depth_threshold
    DepthSustained, \* queue_depth_sustained_seconds
    BusySustained,  \* utilization_sustained_seconds
    MaxGap,         \* max_gap_seconds
    Retention       \* retention_days

VARIABLES
    clock,      \* the time
    samples,    \* scaling_telemetry_samples, in the order of their time
    sampler     \* the job: "idle", or "prune" once its sample is committed

scalingVars == <<clock, samples, sampler>>

ASSUME ScalingAssumption ==
    /\ {MaxClock, MaxSamples, PoolSize, DepthThreshold, Retention} \cup Depths \subseteq Nat
    /\ {JobDuration, TargetWait, DepthSustained, BusySustained, MaxGap} \subseteq Nat \ {0}

(* A sample's utilization matters as "all workers busy" (100 %) or not. *)
Samples == [ts : 0 .. MaxClock, depth : Depths, busy : BOOLEAN, pool : Nat]

ScalingTypeOK ==
    /\ clock \in 0 .. MaxClock
    /\ samples \in Seq(Samples) /\ Len(samples) <= MaxSamples
    /\ sampler \in {"idle", "prune"}

ScalingInit == clock = 0 /\ samples = <<>> /\ sampler = "idle"

recommended_pool_size(depth) ==
    Max({1, PoolSize, (depth * JobDuration + TargetWait - 1) \div TargetWait})

(* get_scaling_metrics: an empty queue and idle workers are also what is
   reported when Redis cannot be reached. *)
get_scaling_metrics(depth, busy) ==
    [ts |-> clock, depth |-> depth, busy |-> busy, pool |-> recommended_pool_size(depth)]

RecordSample ==
    /\ sampler = "idle" /\ Len(samples) < MaxSamples
    /\ \E depth \in Depths, busy \in BOOLEAN :
          samples' = Append(samples, get_scaling_metrics(depth, busy))
    /\ sampler' = "prune"
    /\ UNCHANGED clock

(* The samples of the last days *)
Since(days) == {x \in Samples : x.ts >= clock - days}

PruneSamples ==
    /\ sampler = "prune"
    /\ samples' = Where(samples, Since(Retention))
    /\ sampler' = "idle"
    /\ UNCHANGED clock

LoseSampler ==
    /\ sampler = "prune"
    /\ sampler' = "idle"
    /\ UNCHANGED <<clock, samples>>

TimePasses ==
    /\ clock < MaxClock
    /\ clock' = clock + 1
    /\ UNCHANGED <<samples, sampler>>

ScalingNext == RecordSample \/ PruneSamples \/ LoseSampler \/ TimePasses

-----------------------------------------------------------------------------
(* The verdict.  evaluate_sustained_queue_depth_breach and
   evaluate_sustained_utilization_breach walk along the samples, with the start
   of the present breach and its last sample; -1 stands for None. *)

NoBreach == [start |-> -1, last |-> -1, met |-> FALSE]

(* Slip: a gap in the samples does not end a breach. *)
walked_over_gaps(acc, ts, over, sustained) ==
    LET start == IF acc.start = -1 THEN ts ELSE acc.start
    IN  IF acc.met THEN acc
        ELSE IF ~over THEN NoBreach
        ELSE [start |-> start, last |-> ts, met |-> ts - start >= sustained]

walked(acc, ts, over, sustained) ==
    LET start == IF acc.start = -1 \/ (acc.last # -1 /\ ts - acc.last > MaxGap) THEN ts
                 ELSE acc.start
    IN  IF acc.met THEN acc
        ELSE IF ~over THEN NoBreach
        ELSE [start |-> start, last |-> ts, met |-> ts - start >= sustained]

walk(s, over, sustained) ==
    LET along[n \in 0 .. Len(s)] ==
            IF n = 0 THEN NoBreach
            ELSE walked(along[n - 1], s[n].ts, s[n] \in over, sustained)
    IN  along[Len(s)]

Deep == {x \in Samples : x.depth > DepthThreshold}
AllBusy == {x \in Samples : x.busy}

evaluate_sustained_queue_depth_breach(s) == walk(s, Deep, DepthSustained).met
evaluate_sustained_utilization_breach(s) == walk(s, AllBusy, BusySustained).met

(* get_historical_scaling_telemetry over a window *)
Window(days) == Where(samples, Since(days))

threshold_crossed(s) == \E i \in DOMAIN s : s[i] \in Deep \cup AllBusy

scaling_verdict(s) ==
    IF evaluate_sustained_queue_depth_breach(s) \/ evaluate_sustained_utilization_breach(s)
    THEN "triggered"
    ELSE IF threshold_crossed(s) THEN "transient" ELSE "never crossed"

-----------------------------------------------------------------------------
(* What "sustained" means: samples that follow one another without a longer gap,
   all of them over the threshold, from one end of the duration to the other. *)
Sustained(s, over, duration) ==
    \E i, j \in DOMAIN s :
        /\ i <= j /\ s[j].ts - s[i].ts >= duration
        /\ \A k \in i .. j : s[k] \in over
        /\ \A k \in i .. j - 1 : s[k + 1].ts - s[k].ts <= MaxGap

(* For every history of samples, pruned or not, and every window into it, the
   walk scales out exactly on a sustained breach, and calls a crossing transient
   otherwise. *)
VerdictIsRight ==
    \A days \in 0 .. MaxClock : \E s \in {Window(days)} :
        /\ (scaling_verdict(s) = "triggered") <=>
              \/ Sustained(s, Deep, DepthSustained)
              \/ Sustained(s, AllBusy, BusySustained)
        /\ (scaling_verdict(s) = "never crossed") <=>
              \A i \in DOMAIN s : s[i].depth <= DepthThreshold /\ ~s[i].busy

=============================================================================
