----------------------------- MODULE Scheduler -----------------------------
(***************************************************************************)
(* workers/scheduler.py: on every start the scheduler process walks down   *)
(* its list of recurring jobs, registers in Redis those that it does not   *)
(* find there, and then enqueues each registered job whenever it is due.   *)
(* Every job is registered with one argument, the name the next start will *)
(* recognise it by, and a worker calls the job's function with it.         *)
(***************************************************************************)
EXTENDS Integers, Sequences, FiniteSets

CONSTANTS
    JobOrder,       \* the jobs considered, in the order of registration
    MaxEntries      \* registrations of one job that are told apart

RecurringJobs ==
    {"ingestion", "literature", "alert_evaluation", "postgres_backup", "restore_drill",
     "scaling_summary", "scaling_telemetry", "simulation_calibration",
     "longitudinal_patterns"}

ASSUME SchedulerAssumption ==
    /\ JobOrder \in Seq(RecurringJobs)
    /\ MaxEntries \in Nat \ {0}

VARIABLES
    sched,      \* 0: not running; i: about to register the i-th job; past the end: running
    entries,    \* per job, how often it is registered
    raised,     \* the jobs whose function could not be called (RQ's failed registry)
    faults      \* the faults of this behaviour; here "restart": the process dies,
                \* and "get_jobs": reading the registered jobs fails

schedVars == <<sched, entries, raised>>

ScheduledJobs == {JobOrder[i] : i \in DOMAIN JobOrder}

SchedTypeOK ==
    /\ sched \in 0 .. Len(JobOrder) + 1
    /\ entries \in [ScheduledJobs -> 0 .. MaxEntries]
    /\ raised \subseteq ScheduledJobs

SchedInit ==
    /\ sched = 0
    /\ entries = [j \in ScheduledJobs |-> 0]
    /\ raised = {}

(* The functions that take a positional argument.  run_postgres_backup_job and
   run_calibration_job have no parameter: calling them with one raises TypeError. *)
takes_source(j) == j \notin {"postgres_backup", "simulation_calibration"}

StartScheduler ==
    /\ sched = 0
    /\ sched' = 1
    /\ UNCHANGED <<entries, raised>>

(* is_job_already_scheduled, which answers FALSE when it cannot tell. *)
already_scheduled(j) == entries[j] > 0

RegisterJob ==
    /\ sched \in DOMAIN JobOrder
    /\ LET j == JobOrder[sched]
           register == entries' = [entries EXCEPT
                           ![j] = IF @ < MaxEntries THEN @ + 1 ELSE @]
       IN  \/ IF already_scheduled(j) THEN UNCHANGED entries ELSE register
           \/ "get_jobs" \in faults /\ register
    /\ sched' = sched + 1
    /\ UNCHANGED raised

(* The process is restarted at any time; what is in Redis stays. *)
StopScheduler ==
    /\ "restart" \in faults /\ sched # 0
    /\ sched' = 0
    /\ UNCHANGED <<entries, raised>>

(* A registered job is due, is enqueued, and a worker takes it. *)
Due(j) == sched = Len(JobOrder) + 1 /\ j \in ScheduledJobs /\ entries[j] > 0

(* The worker cannot call the function. *)
CallRaises(j) ==
    /\ Due(j) /\ ~takes_source(j)
    /\ raised' = raised \cup {j}
    /\ UNCHANGED <<sched, entries>>

SchedStep == StartScheduler \/ RegisterJob
=============================================================================
