--------------------------- MODULE Investigation ---------------------------
(***************************************************************************)
(* The life of one investigation: POST /investigations, the RQ queue and   *)
(* its retries, workers/jobs/investigation_job.py around the graph of      *)
(* TaskGraph.tla, the Redis checkpointer, the row in Postgres and a client *)
(* on the event stream.  Without queued execution the graph runs as        *)
(* a background task of the API process (run_investigation_graph).         *)
(*                                                                         *)
(* Investigations share nothing but the worker pool, so one is enough.     *)
(* Redis and Postgres go away and come back at any step, a node may raise, *)
(* RQ's alarm may fire and the worker may die, each if faults has it.      *)
(***************************************************************************)
EXTENDS TaskGraph

CONSTANTS
    QueuedExecution,    \* the values of use_queued_execution considered
    JobMaxRetries,      \* Settings.job_max_retries, at least 1 (rq.Retry refuses 0)
    FaultSets           \* the combinations of AllFaults considered

AllFaults == {"node", "timeout", "crash", "db", "redis", "expiry"}

ASSUME QueuedExecutionAssumption == QueuedExecution \subseteq BOOLEAN
ASSUME JobMaxRetriesAssumption == JobMaxRetries \in Nat \ {0}
ASSUME FaultsAssumption == FaultSets \subseteq SUBSET AllFaults

VARIABLES
    api,        \* where the POST handler is, or what it answered
    job,        \* the RQ job: its state and retries_left
    worker,     \* where the process that runs the job is
    ckpt,       \* the thread's checkpoint keys in Redis
    redisUp, dbUp,
    queued,     \* Settings.use_queued_execution, fixed at the start
    faults      \* the faults that can happen, fixed at the start

vars == <<g, row, stream, api, job, worker, ckpt, redisUp, dbUp, queued, faults>>

ApiStates == {"idle", "create_row", "enqueue", "202", "503", "500"}

JobState ==
    [state: {"none", "queued", "started", "finished", "failed"},
     retries_left: 0 .. JobMaxRetries]

(***************************************************************************)
(* setup    from the job's start to the inner try                          *)
(* invoke   graph.ainvoke reads the thread's last checkpoint               *)
(* aput     the checkpointer stores a checkpoint under its own key         *)
(* latest   ... and then the :latest key that points to it                 *)
(* node     the graph runs g.node                                          *)
(* publish  finalize_node has written the row and not yet sent "done"      *)
(* metric   ainvoke has returned; JobCompleted is to be stored             *)
(* except   the inner try has caught an exception                          *)
(* raise    the job function has raised; RQ decides about the retry        *)
(***************************************************************************)
WorkerStates ==
    {"idle", "setup", "invoke", "aput", "latest", "node", "publish", "metric",
     "except", "raise"}

(* "orphan": a checkpoint is stored and no :latest key points to it. *)
CkptStates == {"none", "orphan", "stored"}

TypeOK ==
    /\ g \in GraphState /\ row \in RowState /\ stream \in StreamState
    /\ api \in ApiStates /\ job \in JobState /\ worker \in WorkerStates
    /\ ckpt \in CkptStates /\ redisUp \in BOOLEAN /\ dbUp \in BOOLEAN
    /\ queued \in BOOLEAN /\ faults \in FaultSets

Init ==
    /\ g = StartState /\ row = NoRow /\ stream = NoStream
    /\ api = "idle" /\ job = [state |-> "none", retries_left |-> 0]
    /\ worker = "idle" /\ ckpt = "none"
    /\ redisUp = TRUE /\ dbUp = TRUE
    /\ queued \in QueuedExecution /\ faults \in FaultSets

graphVars == <<g, row, stream>>
envVars   == <<redisUp, dbUp, queued, faults>>

----------------------------------------------------------------------------
(* POST /investigations: ping, row, queue, in that order. *)
Ping ==
    /\ api = "idle"
    /\ api' = IF redisUp THEN "create_row" ELSE "503"
    /\ UNCHANGED <<graphVars, job, worker, ckpt, envVars>>

create_investigation ==
    /\ api = "create_row"
    /\ IF dbUp THEN row' = [NoRow EXCEPT !.status = "planning"] /\ api' = "enqueue"
               ELSE api' = "500" /\ UNCHANGED row
    /\ UNCHANGED <<g, stream, job, worker, ckpt, envVars>>

(* Slip: the request is answered and never queued. *)
enqueue_lost ==
    /\ queued /\ api = "enqueue"
    /\ api' = "202"
    /\ UNCHANGED <<graphVars, job, worker, ckpt, envVars>>

enqueue ==
    /\ queued /\ api = "enqueue"
    /\ IF redisUp
       THEN job' = [state |-> "queued", retries_left |-> JobMaxRetries] /\ api' = "202"
       ELSE api' = "500" /\ UNCHANGED job
    /\ UNCHANGED <<graphVars, worker, ckpt, envVars>>

(* background_tasks.add_task: no queue, no setup, no retry. *)
add_task ==
    /\ ~queued /\ api = "enqueue"
    /\ job' = [state |-> "started", retries_left |-> 0]
    /\ worker' = "invoke" /\ api' = "202"
    /\ UNCHANGED <<graphVars, ckpt, envVars>>

----------------------------------------------------------------------------
(* An RQ worker takes the job from the queue (external). *)
Dequeue ==
    /\ job.state = "queued" /\ redisUp
    /\ job' = [job EXCEPT !.state = "started"]
    /\ worker' = "setup"
    /\ UNCHANGED <<graphVars, api, ckpt, envVars>>

(* init_redis pings, JobStarted is committed: a failure of either is outside
   the inner try, and leaves the job without touching the row. *)
Setup ==
    /\ worker = "setup"
    /\ worker' = IF redisUp /\ dbUp THEN "invoke" ELSE "raise"
    /\ UNCHANGED <<graphVars, api, job, ckpt, envVars>>

(***************************************************************************)
(* aget_tuple.  The client is created with decode_responses=True, so what  *)
(* it returns for a stored checkpoint is a str (or the decoding itself     *)
(* fails), and the b":" in data of GaiaOSSerializer.loads raises: a thread *)
(* that has a checkpoint cannot be invoked again.                          *)
(***************************************************************************)
loads_raises(c) == c = "stored"

Invoke ==
    /\ worker = "invoke"
    /\ IF ~redisUp \/ loads_raises(ckpt)
       THEN worker' = "except" /\ UNCHANGED g
       ELSE worker' = "aput" /\ g' = StartState
    /\ UNCHANGED <<row, stream, api, job, ckpt, envVars>>

aput_checkpoint ==
    /\ worker = "aput"
    /\ IF redisUp
       THEN worker' = "latest" /\ ckpt' = IF ckpt = "none" THEN "orphan" ELSE ckpt
       ELSE worker' = "except" /\ UNCHANGED ckpt
    /\ UNCHANGED <<graphVars, api, job, envVars>>

(* After the checkpoint of the last node ainvoke returns. *)
aput_latest ==
    /\ worker = "latest"
    /\ IF redisUp
       THEN /\ ckpt' = "stored"
            /\ worker' = IF g.node = "end" THEN "metric" ELSE "node"
       ELSE worker' = "except" /\ UNCHANGED ckpt
    /\ UNCHANGED <<graphVars, api, job, envVars>>

RunNode ==
    /\ worker = "node" /\ GraphNode(redisUp)
    /\ worker' = "aput"
    /\ UNCHANGED <<api, job, ckpt, envVars>>

FinalizeWrite ==
    /\ worker = "node" /\ g.node = "finalize"
    /\ IF dbUp THEN worker' = "publish" /\ row' = final_row
               ELSE worker' = "except" /\ UNCHANGED row
    /\ UNCHANGED <<g, stream, api, job, ckpt, envVars>>

FinalizePublish ==
    /\ worker = "publish" /\ finalize_publish(redisUp)
    /\ worker' = "aput"
    /\ UNCHANGED <<api, job, ckpt, envVars>>

(* Slip: a job that has finished is put back in the queue. *)
JobCompleted_requeued ==
    /\ worker = "metric"
    /\ worker' = "idle" /\ job' = [state |-> "queued", retries_left |-> 0]
    /\ UNCHANGED <<graphVars, api, ckpt, envVars>>

(* JobCompleted is stored inside the same try as ainvoke.  The background
   task has no metric. *)
JobCompleted ==
    /\ worker = "metric"
    /\ IF queued /\ ~dbUp
       THEN worker' = "except" /\ UNCHANGED job
       ELSE worker' = "idle" /\ job' = [job EXCEPT !.state = "finished"]
    /\ UNCHANGED <<graphVars, api, ckpt, envVars>>

----------------------------------------------------------------------------
is_terminal_failure(retries_left) == retries_left <= 0

(* The except clause, which ends in raise.  JobFailed is stored after the
   row is updated, and whether that works or not an exception leaves the job. *)
Except ==
    /\ worker = "except"
    /\ row' = IF is_terminal_failure(job.retries_left) /\ dbUp
              THEN update_failed(row) ELSE row
    /\ worker' = "raise"
    /\ UNCHANGED <<g, stream, api, job, ckpt, envVars>>

(* RQ: a failed job is queued again while it has retries left (external). *)
AfterFailure(j) ==
    IF queued /\ j.retries_left > 0
    THEN [state |-> "queued", retries_left |-> j.retries_left - 1]
    ELSE [j EXCEPT !.state = "failed"]

HandleJobFailure ==
    /\ worker = "raise" /\ redisUp
    /\ job' = AfterFailure(job)
    /\ worker' = "idle"
    /\ UNCHANGED <<graphVars, api, ckpt, envVars>>

----------------------------------------------------------------------------
(* A node raises, or RQ's alarm interrupts the code of the task itself. *)
NodeError ==
    /\ "node" \in faults
    /\ worker = "node" /\ worker' = "except"
    /\ UNCHANGED <<graphVars, api, job, ckpt, envVars>>

(* RQ's alarm fires while the event loop waits: the exception leaves
   asyncio.run, the task is cancelled, and CancelledError is no Exception. *)
JobTimeout ==
    /\ "timeout" \in faults /\ queued
    /\ worker \in WorkerStates \ {"idle", "raise"}
    /\ worker' = "raise"
    /\ UNCHANGED <<graphVars, api, job, ckpt, envVars>>

(* The process dies.  RQ's supervision of the work horse, or the cleanup of
   the started jobs, treats the job as failed without running its code. *)
Crash ==
    /\ "crash" \in faults
    /\ worker # "idle"
    /\ worker' = "idle" /\ job' = AfterFailure(job)
    /\ UNCHANGED <<graphVars, api, ckpt, envVars>>

(* The TTL outlasts every attempt but not every wait in the queue. *)
Expire ==
    /\ "expiry" \in faults
    /\ worker = "idle" /\ ckpt # "none"
    /\ ckpt' = "none"
    /\ UNCHANGED <<graphVars, api, job, worker, envVars>>

DbFlip ==
    /\ "db" \in faults
    /\ dbUp' = ~dbUp
    /\ UNCHANGED <<graphVars, api, job, worker, ckpt, redisUp, queued, faults>>

(* A listener loses its connection when Redis goes away, and its stream ends. *)
RedisFlip ==
    /\ "redis" \in faults
    /\ redisUp' = ~redisUp
    /\ stream' = IF stream.state = "listening" THEN [stream EXCEPT !.state = "closed"]
                                               ELSE stream
    /\ UNCHANGED <<g, row, api, job, worker, ckpt, dbUp, queued, faults>>

(* GET /investigations/{id}/stream: 404 without a row, 503 without Redis. *)
Subscribe ==
    /\ stream.state # "listening" /\ row.status # "none" /\ redisUp /\ dbUp
    /\ stream' = [stream EXCEPT !.state = "listening"]
    /\ UNCHANGED <<g, row, api, job, worker, ckpt, envVars>>

Disconnect ==
    /\ stream.state = "listening"
    /\ stream' = [stream EXCEPT !.state = "closed"]
    /\ UNCHANGED <<g, row, api, job, worker, ckpt, envVars>>

----------------------------------------------------------------------------
ApiStep == Ping \/ create_investigation \/ enqueue \/ add_task

JobStep ==
    \/ Dequeue \/ Setup \/ Invoke \/ aput_checkpoint \/ aput_latest \/ RunNode
    \/ FinalizeWrite \/ FinalizePublish \/ JobCompleted \/ Except \/ HandleJobFailure

FaultStep == NodeError \/ JobTimeout \/ Crash \/ Expire \/ DbFlip \/ RedisFlip

ClientStep == Subscribe \/ Disconnect

Next == ApiStep \/ JobStep \/ FaultStep \/ ClientStep

Spec == Init /\ [][Next]_vars

(* The API process and a worker keep running: neither stops between two
   steps for ever.  Faults and clients are under no obligation. *)
FairSpec == Spec /\ WF_vars(ApiStep) /\ WF_vars(JobStep)

----------------------------------------------------------------------------
(* finalize_node: the stored answer was synthesised from all the evidence the
   trace counts, the last replan's included, and it carries the note exactly
   when high flags are left after the last permitted cycle. *)
AnswerIsHonest ==
    row.status = "complete" =>
        LET t == row.execution_trace
        IN  /\ row.answer = t.agent_outputs
            /\ t.agent_outputs = t.replan_count + 1
            /\ EnableReplanLoop => (row.note <=> "high" \in t.critic_flags)

(* The replan loop ends: no attempt runs the agents more than three times,
   however often the critic objects (docs/Roadmap_Phase3.md, "cycle 2
   triggers, cycle 3 must not"). *)
ReplanCap == g.replan_count <= 2 /\ g.agent_outputs <= 3

(* The job gives up only when RQ does: a row is "failed" only when the job
   has no attempt left, so no later attempt works on a settled failure. *)
NoPrematureFailure == row.status = "failed" => job.retries_left = 0

(* A client that was sent "done" finds the answer when it polls, whatever
   happens afterwards. *)
DoneHasAnswer == stream.done => row.answer # 0 /\ row.status \in {"complete", "failed"}

(* docs/Roadmap_Phase3.md, 13: "job retries exhausted -> asserts
   status='failed' with the specific error code, never stuck": a job RQ has
   given up on has left a settled row. *)
NeverStuck == job.state = "failed" => row.status \in {"complete", "failed"}

(* The infrastructure holds: nodes fail and checkpoints expire, no more. *)
Calm == faults \subseteq {"node", "expiry"}

(* An accepted investigation settles while the infrastructure holds: POST's
   202 is followed by a row that is complete or failed. *)
Settles == (Calm /\ api = "202") ~> (row.status \in {"complete", "failed"})

(* A client listening while the investigation is under way is told "done",
   unless its stream ends first (it leaves, or the parser rejects an event)
   or the investigation fails. *)
ListenerHearsDone ==
    (Calm /\ stream.state = "listening" /\ row.status = "planning")
        ~> (stream.done \/ stream.state # "listening" \/ row.status = "failed")

Status == INSTANCE InvestigationStatus WITH
    status <- IF Calm THEN row.status ELSE "none"

(* The status promised by the API while the infrastructure holds: one
   acceptance, one outcome. *)
StatusIsTerminal == Status!Spec

(* docs/phase3/task_execution.md: "If a worker crashes mid-job, the job is
   re-enqueued. When picked up by a new worker, the RedisCheckpointSaver
   automatically resumes graph execution".  When nothing but crashes can
   happen, no attempt reaches the except clause of the job: the attempt that
   follows a crash resumes the graph, it does not raise. *)
CrashIsResumed == worker # "except"
=============================================================================
