------------------------ MODULE InvestigationProofs ------------------------
(***************************************************************************)
(* The safety of an investigation, for every retry budget, every set of    *)
(* faults, both ways of execution and the replan loop on or off.           *)
(*                                                                         *)
(* The argument.  GraphInv ties the graph's state to the node it is at:    *)
(* the evidence gathered is one round more than the replans, what synthesis*)
(* and critic made of it is up to date once they have run, and finalize is *)
(* only reached when the critic is content or the cycles are used up.      *)
(* ApiInv says that nothing runs before the POST has queued it, so that    *)
(* the retry budget is never refilled under a settled row.  PublishInv     *)
(* says that "done" is sent with the answer stored.  FanInv, at the end,   *)
(* does the same for the fan-out node, which is a model of its own.        *)
(***************************************************************************)
EXTENDS Investigation, FanOut, FilteringTheorems

Gathered == {"simulation", "synthesis", "critic", "replan", "finalize", "end"}

GraphInv ==
    /\ g.replan_count <= 2
    /\ g.node \in {"supervisor", "fan_out"} => g.agent_outputs = 0 /\ g.replan_count = 0
    /\ g.node \in Gathered => g.agent_outputs = g.replan_count + 1
    /\ g.node \in {"critic", "finalize", "end"} => g.synthesis_output = g.agent_outputs
    /\ g.node \in {"finalize", "end"} =>
           /\ g.final_answer = g.agent_outputs
           /\ EnableReplanLoop /\ "high" \in g.critic_flags => g.replan_count >= 2
    /\ g.node = "replan" => g.replan_count < 2

ApiInv ==
    /\ api \in {"idle", "create_row", "enqueue"} => worker = "idle" /\ job.state = "none"
    /\ api \in {"idle", "create_row"} => row.status = "none"
    /\ api = "enqueue" => row.status = "planning"

PublishInv ==
    worker = "publish" => row.answer # 0 /\ row.status = "complete" /\ g.node = "finalize"

IInv ==
    /\ TypeOK /\ GraphInv /\ ApiInv /\ PublishInv
    /\ AnswerIsHonest /\ NoPrematureFailure /\ DoneHasAnswer

----------------------------------------------------------------------------
(* The constant records and the helpers stay in type. *)
LEMMA ConstantTypes ==
    StartState \in GraphState /\ NoRow \in RowState /\ NoStream \in StreamState
BY Zenon DEF StartState, GraphState, Nodes, NoRow, RowState, NoTrace, NoStream, StreamState, Severity

LEMMA DeliveredType ==
    ASSUME NEW s \in StreamState, NEW e \in Events
    PROVE  /\ Delivered(s, e) \in StreamState
           /\ e # "done" => Delivered(s, e).done = s.done
BY Zenon DEF Delivered, StreamState

LEMMA UpdateFailedType ==
    ASSUME NEW r \in RowState
    PROVE  /\ update_failed(r) \in RowState
           /\ update_failed(r).status = "failed"
           /\ update_failed(r).answer = r.answer
BY Zenon DEF update_failed, RowState, ErrorTrace, NoTrace

LEMMA AfterFailureType ==
    ASSUME NEW j \in JobState
    PROVE  /\ AfterFailure(j) \in JobState
           /\ j.retries_left = 0 => AfterFailure(j).retries_left = 0
           /\ AfterFailure(j).state \in {"queued", "failed"}
BY JobMaxRetriesAssumption DEF AfterFailure, JobState

(* What finalize_node writes, when it is reached in a state of GraphInv. *)
LEMMA FinalRow ==
    ASSUME g \in GraphState, GraphInv, g.node = "finalize"
    PROVE  /\ final_row \in RowState
           /\ final_row.status = "complete"
           /\ final_row.answer # 0
           /\ final_row.answer = final_row.execution_trace.agent_outputs
           /\ final_row.execution_trace.agent_outputs
                  = final_row.execution_trace.replan_count + 1
           /\ EnableReplanLoop =>
                  (final_row.note <=> "high" \in final_row.execution_trace.critic_flags)
<1> DEFINE n == conflict_note(g.critic_flags, g.replan_count)
<1>1. n \in BOOLEAN
  BY Zenon DEF conflict_note
<1>2. /\ g.agent_outputs \in Nat /\ g.final_answer \in Nat /\ g.replan_count \in Nat
      /\ g.critic_flags \in SUBSET Severity
  BY Zenon DEF GraphState
<1>3. g.final_answer = g.agent_outputs /\ g.agent_outputs = g.replan_count + 1
  BY Zenon DEF GraphInv, Gathered
<1>4. EnableReplanLoop => (n <=> "high" \in g.critic_flags)
  BY <1>2, Zenon DEF GraphInv, conflict_note
<1>5. g.final_answer # 0
  BY <1>2, <1>3
<1> HIDE DEF n
<1>6. final_row =
        [status |-> "complete", answer |-> g.final_answer, note |-> n,
         execution_trace |-> [kind |-> "run", agent_outputs |-> g.agent_outputs,
                              critic_flags |-> g.critic_flags,
                              replan_count |-> g.replan_count]]
  BY Zenon DEF final_row, n
<1>7. final_row \in RowState
  BY <1>1, <1>2, <1>6, Zenon DEF RowState
<1> QED
  BY <1>3, <1>4, <1>5, <1>6, <1>7, Zenon

----------------------------------------------------------------------------
LEMMA InitInv == Init => IInv
<1> SUFFICES ASSUME Init PROVE IInv
  BY Zenon
<1>1. TypeOK
  BY ConstantTypes, JobMaxRetriesAssumption, QueuedExecutionAssumption
     DEF Init, TypeOK, ApiStates, JobState, WorkerStates, CkptStates
<1> QED
  BY <1>1 DEF Init, IInv, GraphInv, ApiInv, PublishInv, AnswerIsHonest,
     NoPrematureFailure, DoneHasAnswer, StartState, NoRow, NoStream, Gathered

(* A step that leaves graph, row and stream alone and neither starts a
   publication nor touches the job preserves the invariant if it preserves
   the types and ApiInv. *)
LEMMA QuietStep ==
    ASSUME IInv, UNCHANGED <<g, row, stream>>, TypeOK', ApiInv', worker' # "publish" \/ worker' = worker,
           job'.retries_left = job.retries_left \/ row.status # "failed"
    PROVE  IInv'
<1>1. GraphInv' /\ AnswerIsHonest' /\ DoneHasAnswer'
  BY DEF IInv, GraphInv, AnswerIsHonest, DoneHasAnswer
<1>2. PublishInv' /\ NoPrematureFailure'
  BY Zenon DEF IInv, PublishInv, NoPrematureFailure
<1> QED
  BY <1>1, <1>2, Zenon DEF IInv

LEMMA ApiStepInv == IInv /\ ApiStep => IInv'
<1> SUFFICES ASSUME IInv, ApiStep PROVE IInv'
  BY Zenon
<1>1. CASE Ping
  <2>1. TypeOK' /\ ApiInv'
    BY <1>1, Zenon DEF Ping, IInv, TypeOK, ApiInv, ApiStates, graphVars, envVars
  <2> QED
    BY <1>1, <2>1, QuietStep, Zenon DEF Ping, graphVars
<1>2. CASE create_investigation
  <2>1. CASE dbUp
    <3>1. row' = [NoRow EXCEPT !.status = "planning"] /\ api' = "enqueue"
      BY <1>2, <2>1, Zenon DEF create_investigation
    <3>2. row' \in RowState /\ row'.status = "planning"
      BY <3>1, Zenon DEF NoRow, RowState, NoTrace, Severity
    <3>3. UNCHANGED <<g, stream, job, worker, ckpt, redisUp, dbUp, queued, faults>> /\ api = "create_row"
      BY <1>2, Zenon DEF create_investigation, envVars
    <3>4. TypeOK'
      BY <3>1, <3>2, <3>3, Zenon DEF IInv, TypeOK, ApiStates
    <3>5. worker = "idle" /\ job.state = "none" /\ ~stream.done
      BY <3>3, Zenon DEF IInv, ApiInv, DoneHasAnswer
    <3>6. GraphInv' /\ ApiInv' /\ PublishInv'
      BY <3>1, <3>2, <3>3, <3>5, Zenon DEF IInv, GraphInv, ApiInv, PublishInv
    <3>7. AnswerIsHonest' /\ NoPrematureFailure' /\ DoneHasAnswer'
      BY <3>2, <3>3, <3>5, Zenon DEF AnswerIsHonest, NoPrematureFailure, DoneHasAnswer
    <3> QED
      BY <3>4, <3>6, <3>7, Zenon DEF IInv
  <2>2. CASE ~dbUp
    <3>1. /\ api' = "500"
          /\ UNCHANGED <<g, row, stream, job, worker, ckpt, redisUp, dbUp, queued, faults>>
      BY <1>2, <2>2, Zenon DEF create_investigation, envVars
    <3>2. TypeOK' /\ ApiInv'
      BY <3>1, Zenon DEF IInv, TypeOK, ApiInv, ApiStates
    <3> QED
      BY <3>1, <3>2, QuietStep, Zenon
  <2> QED
    BY <2>1, <2>2, Zenon
<1>3. CASE enqueue
  <2>1. UNCHANGED <<g, row, stream, worker, ckpt, redisUp, dbUp, queued, faults>> /\ api = "enqueue"
    BY <1>3, Zenon DEF enqueue, graphVars, envVars
  <2>2. job' \in JobState /\ api' \in {"202", "500"}
    BY <1>3, JobMaxRetriesAssumption DEF enqueue, IInv, TypeOK, JobState
  <2>3. TypeOK' /\ ApiInv'
    BY <2>1, <2>2, Zenon DEF IInv, TypeOK, ApiInv, ApiStates
  <2>4. row.status # "failed"
    BY <2>1, Zenon DEF IInv, ApiInv
  <2> QED
    BY <2>1, <2>3, <2>4, QuietStep, Zenon
<1>4. CASE add_task
  <2>1. UNCHANGED <<g, row, stream, ckpt, redisUp, dbUp, queued, faults>> /\ api = "enqueue"
    BY <1>4, Zenon DEF add_task, graphVars, envVars
  <2>2. job' \in JobState /\ api' = "202" /\ worker' = "invoke"
    BY <1>4, JobMaxRetriesAssumption DEF add_task, JobState
  <2>3. TypeOK' /\ ApiInv'
    BY <2>1, <2>2, Zenon DEF IInv, TypeOK, ApiInv, ApiStates, WorkerStates
  <2>4. row.status # "failed"
    BY <2>1, Zenon DEF IInv, ApiInv
  <2> QED
    BY <2>1, <2>2, <2>3, <2>4, QuietStep, Zenon
<1> QED
  BY <1>1, <1>2, <1>3, <1>4, Zenon DEF ApiStep

----------------------------------------------------------------------------
LEMMA PublishType ==
    ASSUME NEW e \in Events, NEW r, stream \in StreamState, Publish(e, r)
    PROVE  /\ stream' \in StreamState
           /\ e # "done" => stream'.done = stream.done
BY DeliveredType, Zenon DEF Publish

(* Every node up to finalize keeps GraphInv, the row and what the client has
   been told about the end. *)
LEMMA GraphNodeInv ==
    ASSUME g \in GraphState, stream \in StreamState, GraphInv, GraphNode(redisUp)
    PROVE  /\ g' \in GraphState /\ GraphInv'
           /\ stream' \in StreamState /\ stream'.done = stream.done /\ row' = row
<1>0. /\ g.agent_outputs \in Nat /\ g.synthesis_output \in Nat
      /\ g.final_answer \in Nat /\ g.replan_count \in Nat
  BY Zenon DEF GraphState
<1>1. CASE supervisor_node(redisUp)
  <2>1. PICK sim \in BOOLEAN :
            g' = [g EXCEPT !.node = "fan_out", !.needs_simulation = sim]
    BY <1>1, Zenon DEF supervisor_node
  <2>2. g' \in GraphState
    BY <2>1, Zenon DEF GraphState, Nodes
  <2>3. /\ g'.node = "fan_out" /\ g'.agent_outputs = g.agent_outputs
        /\ g'.replan_count = g.replan_count
    BY <2>1, Zenon DEF GraphState
  <2>4. GraphInv'
    BY <1>1, <2>3, Zenon DEF GraphInv, Gathered, supervisor_node
  <2> QED
    BY <1>1, <2>2, <2>4, PublishType, Zenon DEF supervisor_node, Events
<1>2. CASE fan_out_node(redisUp)
  <2> DEFINE n == g.agent_outputs + 1
             next == IF g.needs_simulation THEN "simulation" ELSE "synthesis"
  <2>a. n \in Nat /\ n = g.agent_outputs + 1 /\ next \in {"simulation", "synthesis"}
    BY <1>0
  <2>b. g' = [g EXCEPT !.agent_outputs = n, !.node = next]
    BY <1>2, Zenon DEF fan_out_node
  <2> HIDE DEF n, next
  <2>1. /\ g' \in GraphState /\ g'.node \in {"simulation", "synthesis"}
        /\ g'.agent_outputs = g.agent_outputs + 1 /\ g'.replan_count = g.replan_count
    BY <2>a, <2>b, Zenon DEF GraphState, Nodes
  <2>2. GraphInv'
    BY <1>0, <1>2, <2>1, Zenon DEF GraphInv, Gathered, fan_out_node
  <2> QED
    BY <1>2, <2>1, <2>2, PublishType, Zenon DEF fan_out_node, Events
<1>3. CASE simulation_node(redisUp)
  <2>1. /\ g' \in GraphState /\ g'.node = "synthesis"
        /\ g'.agent_outputs = g.agent_outputs /\ g'.replan_count = g.replan_count
    BY <1>3, Zenon DEF simulation_node, GraphState, Nodes
  <2>2. GraphInv'
    BY <1>0, <1>3, <2>1, Zenon DEF GraphInv, Gathered, simulation_node
  <2> QED
    BY <1>3, <2>1, <2>2, PublishType, Zenon DEF simulation_node, Events
<1>4. CASE synthesis_node(redisUp)
  <2>1. /\ g' \in GraphState /\ g'.node = "critic"
        /\ g'.agent_outputs = g.agent_outputs /\ g'.replan_count = g.replan_count
        /\ g'.synthesis_output = g.agent_outputs
    BY <1>0, <1>4, Zenon DEF synthesis_node, GraphState, Nodes
  <2>2. GraphInv'
    BY <1>0, <1>4, <2>1, Zenon DEF GraphInv, Gathered, synthesis_node
  <2> QED
    BY <1>4, <2>1, <2>2, PublishType, Zenon DEF synthesis_node, Events
<1>5. CASE critic_node(redisUp)
  <2>1. PICK f \in SUBSET Severity :
            /\ g' = [g EXCEPT !.critic_flags = f, !.final_answer = g.synthesis_output,
                              !.node = IF should_replan(f, g.replan_count)
                                       THEN "replan" ELSE "finalize"]
            /\ IF f = {} THEN UNCHANGED stream ELSE Publish("critic_flag", redisUp)
    BY <1>5, Zenon DEF critic_node
  <2> DEFINE again == should_replan(f, g.replan_count)
  <2>2. again <=> EnableReplanLoop /\ g.replan_count < 2 /\ "high" \in f
    BY <1>0 DEF should_replan, MaxReplans
  <2> HIDE DEF again
  <2>3. g' = [g EXCEPT !.critic_flags = f, !.final_answer = g.synthesis_output,
                       !.node = IF again THEN "replan" ELSE "finalize"]
    BY <2>1, Zenon DEF again
  <2>4. /\ g' \in GraphState /\ g'.node = (IF again THEN "replan" ELSE "finalize")
        /\ g'.agent_outputs = g.agent_outputs /\ g'.replan_count = g.replan_count
        /\ g'.synthesis_output = g.synthesis_output
        /\ g'.final_answer = g.synthesis_output /\ g'.critic_flags = f
    BY <1>0, <2>3, Zenon DEF GraphState, Nodes
  <2>5. /\ g.replan_count <= 2 /\ g.agent_outputs = g.replan_count + 1
        /\ g.synthesis_output = g.agent_outputs
    BY <1>5, Zenon DEF GraphInv, Gathered, critic_node
  <2>6. GraphInv'
    BY <1>0, <2>2, <2>4, <2>5 DEF GraphInv, Gathered
  <2>7. stream' \in StreamState /\ stream'.done = stream.done
    BY <2>1, PublishType, Zenon DEF Events
  <2> QED
    BY <1>5, <2>4, <2>6, <2>7, Zenon DEF critic_node
<1>6. CASE replan_node(redisUp)
  <2> DEFINE n == g.agent_outputs + 1
             c == g.replan_count + 1
  <2>a. n \in Nat /\ n = g.agent_outputs + 1 /\ c \in Nat /\ c = g.replan_count + 1
    BY <1>0
  <2>b. g' = [g EXCEPT !.replan_count = c, !.agent_outputs = n, !.node = "synthesis"]
    BY <1>6, Zenon DEF replan_node
  <2> HIDE DEF n, c
  <2>1. /\ g' \in GraphState /\ g'.node = "synthesis"
        /\ g'.agent_outputs = g.agent_outputs + 1 /\ g'.replan_count = g.replan_count + 1
    BY <2>a, <2>b, Zenon DEF GraphState, Nodes
  <2>2. GraphInv'
    BY <1>0, <1>6, <2>1 DEF GraphInv, Gathered, replan_node
  <2> QED
    BY <1>6, <2>1, <2>2, PublishType, Zenon DEF replan_node, Events
<1> QED
  BY <1>1, <1>2, <1>3, <1>4, <1>5, <1>6, Zenon DEF GraphNode

(* RQ's reaction to a failed or dead attempt. *)
LEMMA FailureStep ==
    ASSUME IInv, UNCHANGED <<g, row, stream, api, ckpt, redisUp, dbUp, queued, faults>>,
           worker # "idle", worker' = "idle", job' = AfterFailure(job)
    PROVE  IInv'
<1>1. /\ job' \in JobState
      /\ job.retries_left = 0 => job'.retries_left = 0
  BY AfterFailureType, Zenon DEF IInv, TypeOK
<1>2. TypeOK' /\ ApiInv'
  BY <1>1, Zenon DEF IInv, TypeOK, ApiInv, WorkerStates
<1>3. job'.retries_left = job.retries_left \/ row.status # "failed"
  BY <1>1, Zenon DEF IInv, NoPrematureFailure
<1> QED
  BY <1>2, <1>3, QuietStep, Zenon

----------------------------------------------------------------------------
LEMMA JobStepInv == IInv /\ JobStep => IInv'
<1> SUFFICES ASSUME IInv, JobStep PROVE IInv'
  BY Zenon
<1> USE DEF graphVars, envVars
<1>1. CASE Dequeue
  <2>1. /\ UNCHANGED <<g, row, stream, api, ckpt, redisUp, dbUp, queued, faults>> /\ worker' = "setup"
        /\ job.state = "queued" /\ job' = [job EXCEPT !.state = "started"]
    BY <1>1, Zenon DEF Dequeue
  <2>2. job' \in JobState /\ job'.retries_left = job.retries_left
    BY <2>1, Zenon DEF IInv, TypeOK, JobState
  <2>3. TypeOK' /\ ApiInv'
    BY <2>1, <2>2, Zenon DEF IInv, TypeOK, ApiInv, WorkerStates
  <2> QED
    BY <2>1, <2>2, <2>3, QuietStep, Zenon
<1>2. CASE Setup
  <2>1. TypeOK' /\ ApiInv'
    BY <1>2, Zenon DEF Setup, IInv, TypeOK, ApiInv, WorkerStates
  <2> QED
    BY <1>2, <2>1, QuietStep, Zenon DEF Setup
<1>3. CASE Invoke
  <2>1. CASE ~redisUp \/ loads_raises(ckpt)
    <3>1. /\ UNCHANGED <<g, row, stream, api, job, ckpt, redisUp, dbUp, queued, faults>>
          /\ worker = "invoke" /\ worker' = "except"
      BY <1>3, <2>1, Zenon DEF Invoke
    <3>2. TypeOK' /\ ApiInv'
      BY <3>1, Zenon DEF IInv, TypeOK, ApiInv, WorkerStates
    <3> QED
      BY <3>1, <3>2, QuietStep, Zenon
  <2>2. CASE ~(~redisUp \/ loads_raises(ckpt))
    <3>1. /\ UNCHANGED <<row, stream, api, job, ckpt, redisUp, dbUp, queued, faults>>
          /\ worker = "invoke" /\ worker' = "aput" /\ g' = StartState
      BY <1>3, <2>2, Zenon DEF Invoke
    <3>2. TypeOK' /\ ApiInv' /\ PublishInv'
      BY <3>1, ConstantTypes, Zenon DEF IInv, TypeOK, ApiInv, PublishInv, WorkerStates
    <3>3. GraphInv'
      BY <3>1 DEF GraphInv, StartState, Gathered
    <3>4. AnswerIsHonest' /\ NoPrematureFailure' /\ DoneHasAnswer'
      BY <3>1, Zenon DEF IInv, AnswerIsHonest, NoPrematureFailure, DoneHasAnswer
    <3> QED
      BY <3>2, <3>3, <3>4, Zenon DEF IInv
  <2> QED
    BY <2>1, <2>2, Zenon
<1>4. CASE aput_checkpoint
  <2>1. TypeOK' /\ ApiInv'
    BY <1>4, Zenon DEF aput_checkpoint, IInv, TypeOK, ApiInv, WorkerStates, CkptStates
  <2> QED
    BY <1>4, <2>1, QuietStep, Zenon DEF aput_checkpoint
<1>5. CASE aput_latest
  <2>1. TypeOK' /\ ApiInv'
    BY <1>5, Zenon DEF aput_latest, IInv, TypeOK, ApiInv, WorkerStates, CkptStates
  <2> QED
    BY <1>5, <2>1, QuietStep, Zenon DEF aput_latest
<1>6. CASE RunNode
  <2>1. /\ UNCHANGED <<api, job, ckpt, redisUp, dbUp, queued, faults>>
        /\ worker = "node" /\ worker' = "aput" /\ GraphNode(redisUp)
    BY <1>6, Zenon DEF RunNode
  <2>2. /\ g' \in GraphState /\ GraphInv'
        /\ stream' \in StreamState /\ stream'.done = stream.done /\ row' = row
    BY <2>1, GraphNodeInv, Zenon DEF IInv, TypeOK
  <2>3. TypeOK' /\ ApiInv' /\ PublishInv'
    BY <2>1, <2>2, Zenon DEF IInv, TypeOK, ApiInv, PublishInv, WorkerStates
  <2>4. AnswerIsHonest' /\ NoPrematureFailure' /\ DoneHasAnswer'
    BY <2>1, <2>2, Zenon DEF IInv, AnswerIsHonest, NoPrematureFailure, DoneHasAnswer
  <2> QED
    BY <2>2, <2>3, <2>4, Zenon DEF IInv
<1>7. CASE FinalizeWrite
  <2>1. CASE dbUp
    <3>1. /\ UNCHANGED <<g, stream, api, job, ckpt, redisUp, dbUp, queued, faults>> /\ worker = "node"
          /\ g.node = "finalize" /\ row' = final_row /\ worker' = "publish"
      BY <1>7, <2>1, Zenon DEF FinalizeWrite
    <3>2. /\ row' \in RowState /\ row'.status = "complete" /\ row'.answer # 0
          /\ row'.answer = row'.execution_trace.agent_outputs
          /\ row'.execution_trace.agent_outputs = row'.execution_trace.replan_count + 1
          /\ EnableReplanLoop =>
                (row'.note <=> "high" \in row'.execution_trace.critic_flags)
      BY <3>1, FinalRow, Zenon DEF IInv, TypeOK
    <3>3. TypeOK' /\ GraphInv' /\ ApiInv' /\ PublishInv'
      BY <3>1, <3>2, Zenon DEF IInv, TypeOK, GraphInv, ApiInv, PublishInv, WorkerStates
    <3>4. AnswerIsHonest' /\ NoPrematureFailure' /\ DoneHasAnswer'
      BY <3>1, <3>2, Zenon DEF AnswerIsHonest, NoPrematureFailure, DoneHasAnswer
    <3> QED
      BY <3>3, <3>4, Zenon DEF IInv
  <2>2. CASE ~dbUp
    <3>1. /\ UNCHANGED <<g, row, stream, api, job, ckpt, redisUp, dbUp, queued, faults>>
          /\ worker = "node" /\ worker' = "except"
      BY <1>7, <2>2, Zenon DEF FinalizeWrite
    <3>2. TypeOK' /\ ApiInv'
      BY <3>1, Zenon DEF IInv, TypeOK, ApiInv, WorkerStates
    <3> QED
      BY <3>1, <3>2, QuietStep, Zenon
  <2> QED
    BY <2>1, <2>2, Zenon
<1>8. CASE FinalizePublish
  <2>1. /\ UNCHANGED <<row, api, job, ckpt, redisUp, dbUp, queued, faults>>
        /\ worker = "publish" /\ worker' = "aput" /\ Publish("done", redisUp)
        /\ g.node = "finalize" /\ g' = [g EXCEPT !.node = "end"]
    BY <1>8, Zenon DEF FinalizePublish, finalize_publish
  <2>2. stream' \in StreamState
    BY <2>1, PublishType, Zenon DEF IInv, TypeOK, Events
  <2>3. /\ g' \in GraphState /\ g'.node = "end" /\ g'.agent_outputs = g.agent_outputs
        /\ g'.replan_count = g.replan_count /\ g'.critic_flags = g.critic_flags
        /\ g'.synthesis_output = g.synthesis_output /\ g'.final_answer = g.final_answer
    BY <2>1, Zenon DEF IInv, TypeOK, GraphState, Nodes
  <2>4. GraphInv'
    BY <2>1, <2>3, Zenon DEF IInv, GraphInv, Gathered
  <2>5. TypeOK' /\ ApiInv' /\ PublishInv'
    BY <2>1, <2>2, <2>3, Zenon DEF IInv, TypeOK, ApiInv, PublishInv, WorkerStates
  <2>6. AnswerIsHonest' /\ NoPrematureFailure' /\ DoneHasAnswer'
    BY <2>1, Zenon DEF IInv, PublishInv, AnswerIsHonest, NoPrematureFailure, DoneHasAnswer
  <2> QED
    BY <2>4, <2>5, <2>6, Zenon DEF IInv
<1>9. CASE JobCompleted
  <2>1. /\ UNCHANGED <<g, row, stream, api, ckpt, redisUp, dbUp, queued, faults>> /\ worker = "metric"
        /\ worker' \in {"except", "idle"}
        /\ job' = job \/ job' = [job EXCEPT !.state = "finished"]
    BY <1>9, Zenon DEF JobCompleted
  <2>2. job' \in JobState /\ job'.retries_left = job.retries_left
    BY <2>1, Zenon DEF IInv, TypeOK, JobState
  <2>3. TypeOK' /\ ApiInv'
    BY <2>1, <2>2, Zenon DEF IInv, TypeOK, ApiInv, WorkerStates
  <2> QED
    BY <2>1, <2>2, <2>3, QuietStep, Zenon
<1>10. CASE Except
  <2>1. /\ UNCHANGED <<g, stream, api, job, ckpt, redisUp, dbUp, queued, faults>>
        /\ worker = "except" /\ worker' = "raise"
        /\ row' = row \/ (row' = update_failed(row) /\ is_terminal_failure(job.retries_left))
    BY <1>10, Zenon DEF Except
  <2>2. CASE row' = row
    <3>1. TypeOK' /\ ApiInv'
      BY <2>1, <2>2, Zenon DEF IInv, TypeOK, ApiInv, WorkerStates
    <3> QED
      BY <2>1, <2>2, <3>1, QuietStep, Zenon
  <2>3. CASE row' = update_failed(row) /\ is_terminal_failure(job.retries_left)
    <3>1. row' \in RowState /\ row'.status = "failed" /\ row'.answer = row.answer
      BY <2>3, UpdateFailedType, Zenon DEF IInv, TypeOK
    <3>2. job.retries_left = 0
      BY <2>3, JobMaxRetriesAssumption DEF is_terminal_failure, IInv, TypeOK, JobState
    <3>3. TypeOK' /\ GraphInv' /\ PublishInv'
      BY <2>1, <3>1 DEF IInv, TypeOK, GraphInv, PublishInv, WorkerStates
    <3>4. ApiInv'
      BY <2>1, Zenon DEF IInv, ApiInv
    <3>5. AnswerIsHonest' /\ NoPrematureFailure' /\ DoneHasAnswer'
      BY <2>1, <3>1, <3>2, Zenon DEF IInv, AnswerIsHonest, NoPrematureFailure, DoneHasAnswer
    <3> QED
      BY <3>3, <3>4, <3>5, Zenon DEF IInv
  <2> QED
    BY <2>1, <2>2, <2>3, Zenon
<1>11. CASE HandleJobFailure
  <2>1. /\ UNCHANGED <<g, row, stream, api, ckpt, redisUp, dbUp, queued, faults>>
        /\ worker = "raise" /\ worker' = "idle" /\ job' = AfterFailure(job)
    BY <1>11, Zenon DEF HandleJobFailure
  <2> QED
    BY <2>1, FailureStep, Zenon
<1> QED
  BY <1>1, <1>2, <1>3, <1>4, <1>5, <1>6, <1>7, <1>8, <1>9, <1>10, <1>11, Zenon DEF JobStep

LEMMA OtherStepInv == IInv /\ (FaultStep \/ ClientStep) => IInv'
<1> SUFFICES ASSUME IInv, FaultStep \/ ClientStep PROVE IInv'
  BY Zenon
<1> USE DEF graphVars, envVars
<1>1. CASE NodeError
  <2>1. TypeOK' /\ ApiInv'
    BY <1>1, Zenon DEF NodeError, IInv, TypeOK, ApiInv, WorkerStates
  <2> QED
    BY <1>1, <2>1, QuietStep, Zenon DEF NodeError
<1>2. CASE JobTimeout
  <2>1. TypeOK' /\ ApiInv'
    BY <1>2, Zenon DEF JobTimeout, IInv, TypeOK, ApiInv, WorkerStates
  <2> QED
    BY <1>2, <2>1, QuietStep, Zenon DEF JobTimeout
<1>3. CASE Crash
  BY <1>3, FailureStep, Zenon DEF Crash
<1>4. CASE Expire
  <2>1. TypeOK' /\ ApiInv'
    BY <1>4, Zenon DEF Expire, IInv, TypeOK, ApiInv, CkptStates
  <2> QED
    BY <1>4, <2>1, QuietStep, Zenon DEF Expire
<1>5. CASE DbFlip
  <2>1. TypeOK' /\ ApiInv'
    BY <1>5, Zenon DEF DbFlip, IInv, TypeOK, ApiInv
  <2> QED
    BY <1>5, <2>1, QuietStep, Zenon DEF DbFlip
<1>6. CASE RedisFlip \/ Subscribe \/ Disconnect
  <2>1. /\ UNCHANGED <<g, row, api, job, worker, ckpt, dbUp, queued, faults>> /\ redisUp' \in BOOLEAN
        /\ \/ stream' = stream
           \/ \E st \in {"listening", "closed"} : stream' = [stream EXCEPT !.state = st]
    BY <1>6, Zenon DEF RedisFlip, Subscribe, Disconnect, IInv, TypeOK
  <2>2. stream' \in StreamState /\ stream'.done = stream.done
    BY <2>1, Zenon DEF IInv, TypeOK, StreamState
  <2>3. TypeOK' /\ GraphInv' /\ ApiInv' /\ PublishInv'
    BY <2>1, <2>2 DEF IInv, TypeOK, GraphInv, ApiInv, PublishInv
  <2>4. AnswerIsHonest' /\ NoPrematureFailure' /\ DoneHasAnswer'
    BY <2>1, <2>2, Zenon DEF IInv, AnswerIsHonest, NoPrematureFailure, DoneHasAnswer
  <2> QED
    BY <2>3, <2>4, Zenon DEF IInv
<1> QED
  BY <1>1, <1>2, <1>3, <1>4, <1>5, <1>6, Zenon DEF FaultStep, ClientStep

(* Whatever fails, an investigation's stored answer is complete and honest,
   its replan loop is bounded, it is declared failed only with no attempt
   left, and "done" is never announced without an answer. *)
THEOREM InvestigationSafety ==
    Spec => [](TypeOK /\ AnswerIsHonest /\ ReplanCap /\ NoPrematureFailure /\ DoneHasAnswer)
<1>1. IInv /\ UNCHANGED vars => IInv'
  BY DEF IInv, vars, TypeOK, GraphInv, ApiInv, PublishInv, AnswerIsHonest,
     NoPrematureFailure, DoneHasAnswer
<1>2. IInv /\ [Next]_vars => IInv'
  BY <1>1, ApiStepInv, JobStepInv, OtherStepInv, Zenon DEF Next
<1>3. IInv => ReplanCap
  BY DEF IInv, TypeOK, GraphState, Nodes, GraphInv, Gathered, ReplanCap
<1>4. IInv => TypeOK /\ AnswerIsHonest /\ NoPrematureFailure /\ DoneHasAnswer
  BY Zenon DEF IInv
<1> QED
  BY InitInv, <1>2, <1>3, <1>4, PTL DEF Spec

-----------------------------------------------------------------------------
(* While the infrastructure holds, an investigation implements the status
   InvestigationStatus promises.  The row is written in three places, so each of
   them must be shown to run at the right moment: create_investigation before any
   job exists, finalize_node and the except clause only while the row is still
   "planning".  StatusInv therefore says what the row holds at every place the
   worker can be at, and that a job waiting in the queue has an unsettled row: a
   retry never starts over an outcome. *)

StatusInv ==
    Calm =>
      /\ redisUp /\ dbUp
      /\ api \in {"503", "500"} => FALSE
      /\ job.state = "queued" => worker = "idle" /\ row.status = "planning"
      /\ worker \in {"setup", "invoke", "node", "except"} => row.status = "planning"
      /\ worker \in {"aput", "latest"} /\ g.node # "end" => row.status = "planning"
      /\ worker \in {"aput", "latest"} /\ g.node = "end" => row.status = "complete"
      /\ worker = "node" => g.node # "end"
      /\ worker \in {"publish", "metric"} => row.status = "complete"
      /\ worker = "raise" =>
             row.status = IF job.retries_left = 0 THEN "failed" ELSE "planning"

LEMMA InitStatusInv == Init => StatusInv
BY DEF Init, StatusInv, NoRow

(* The faults that Calm excludes do not happen, and it stays as it is. *)
LEMMA CalmStep ==
    ASSUME Calm, Next
    PROVE  /\ ~DbFlip /\ ~RedisFlip /\ ~JobTimeout /\ ~Crash
           /\ faults' = faults
<1>1. ~DbFlip /\ ~RedisFlip /\ ~JobTimeout /\ ~Crash
  BY Zenon DEF Calm, DbFlip, RedisFlip, JobTimeout, Crash
<1>2. faults' = faults
  BY <1>1, Zenon DEF Next, ApiStep, JobStep, FaultStep, ClientStep, Ping, create_investigation,
     enqueue, add_task, Dequeue, Setup, Invoke, aput_checkpoint, aput_latest, RunNode,
     FinalizeWrite, FinalizePublish, JobCompleted, Except, HandleJobFailure, NodeError,
     Expire, Subscribe, Disconnect, envVars
<1> QED
  BY <1>1, <1>2, Zenon

(* No node but finalize leads to the end of the graph. *)
LEMMA GraphNodeEnd ==
    ASSUME g \in GraphState, GraphNode(redisUp)
    PROVE  g'.node # "end" /\ row' = row
<1>1. CASE critic_node(redisUp)
  <2>1. PICK f \in SUBSET Severity :
            g' = [g EXCEPT !.critic_flags = f, !.final_answer = g.synthesis_output,
                           !.node = IF should_replan(f, g.replan_count)
                                    THEN "replan" ELSE "finalize"]
    BY <1>1, Zenon DEF critic_node
  <2> DEFINE next == IF should_replan(f, g.replan_count) THEN "replan" ELSE "finalize"
  <2>2. next # "end"
    BY Zenon
  <2> HIDE DEF next
  <2>3. g' = [g EXCEPT !.critic_flags = f, !.final_answer = g.synthesis_output, !.node = next]
    BY <2>1, Zenon DEF next
  <2> QED
    BY <1>1, <2>2, <2>3, Zenon DEF critic_node, GraphState
<1>2. CASE supervisor_node(redisUp)
  BY <1>2, Zenon DEF supervisor_node, GraphState
<1>3. CASE fan_out_node(redisUp)
  BY <1>3, Zenon DEF fan_out_node, GraphState
<1>4. CASE simulation_node(redisUp) \/ synthesis_node(redisUp) \/ replan_node(redisUp)
  BY <1>4, Zenon DEF simulation_node, synthesis_node, replan_node, GraphState
<1> QED
  BY <1>1, <1>2, <1>3, <1>4, Zenon DEF GraphNode

----------------------------------------------------------------------------
(* Every step of a calm investigation keeps StatusInv and is a step of
   InvestigationStatus, or leaves the status alone. *)
LEMMA StatusStep ==
    ASSUME IInv, StatusInv, Calm, Next
    PROVE  /\ StatusInv'
           /\ \/ row.status = "none" /\ row'.status = "planning"
              \/ row.status = "planning" /\ row'.status \in {"complete", "failed"}
              \/ row'.status = row.status
<1> USE DEF graphVars, envVars
<1>0. faults' = faults /\ redisUp /\ dbUp
  BY CalmStep, Zenon DEF StatusInv
<1>1. CASE Ping
  BY <1>1, Zenon DEF Ping, StatusInv, Calm
<1>2. CASE create_investigation
  <2>1. row' = [NoRow EXCEPT !.status = "planning"] /\ api' = "enqueue"
    BY <1>0, <1>2, Zenon DEF create_investigation
  <2>2. row'.status = "planning"
    BY <2>1, Zenon DEF NoRow
  <2>3. row.status = "none" /\ worker = "idle" /\ job.state = "none"
    BY <1>2, Zenon DEF create_investigation, IInv, ApiInv
  <2> QED
    BY <1>2, <2>1, <2>2, <2>3, Zenon DEF create_investigation, StatusInv, Calm
<1>3. CASE enqueue
  <2>1. row.status = "planning" /\ worker = "idle"
    BY <1>3, Zenon DEF enqueue, IInv, ApiInv
  <2> QED
    BY <1>0, <1>3, <2>1, Zenon DEF enqueue, StatusInv, Calm
<1>4. CASE add_task
  <2>1. row.status = "planning" /\ worker = "idle"
    BY <1>4, Zenon DEF add_task, IInv, ApiInv
  <2> QED
    BY <1>4, <2>1, Zenon DEF add_task, StatusInv, Calm
<1>5. CASE Dequeue
  <2>1. job'.state = "started"
    BY <1>5, Zenon DEF Dequeue, IInv, TypeOK, JobState
  <2> QED
    BY <1>5, <2>1, Zenon DEF Dequeue, StatusInv, Calm
<1>6. CASE Setup
  BY <1>0, <1>6, Zenon DEF Setup, StatusInv, Calm
<1>7. CASE Invoke
  <2>1. g'.node # "end" \/ worker' = "except"
    BY <1>7 DEF Invoke, StartState
  <2> QED
    BY <1>0, <1>7, <2>1, Zenon DEF Invoke, StatusInv, Calm
<1>8. CASE aput_checkpoint
  BY <1>0, <1>8, Zenon DEF aput_checkpoint, StatusInv, Calm
<1>9. CASE aput_latest
  BY <1>0, <1>9, Zenon DEF aput_latest, StatusInv, Calm
<1>10. CASE RunNode
  <2>1. g'.node # "end" /\ row' = row
    BY <1>10, GraphNodeEnd, Zenon DEF RunNode, IInv, TypeOK
  <2> QED
    BY <1>0, <1>10, <2>1, Zenon DEF RunNode, StatusInv, Calm
<1>11. CASE FinalizeWrite
  <2>1. row' = final_row /\ worker' = "publish" /\ row.status = "planning"
    BY <1>0, <1>11, Zenon DEF FinalizeWrite, StatusInv
  <2>2. row'.status = "complete"
    BY <2>1, Zenon DEF final_row
  <2> QED
    BY <1>0, <1>11, <2>1, <2>2, Zenon DEF FinalizeWrite, StatusInv, Calm
<1>12. CASE FinalizePublish
  <2>1. g'.node = "end" /\ row' = row
    BY <1>12, Zenon DEF FinalizePublish, finalize_publish, IInv, TypeOK, GraphState
  <2> QED
    BY <1>0, <1>12, <2>1, Zenon DEF FinalizePublish, StatusInv, Calm
<1>13. CASE JobCompleted
  <2>1. worker' = "idle" /\ job' = [job EXCEPT !.state = "finished"] /\ row' = row
    BY <1>0, <1>13, Zenon DEF JobCompleted
  <2>2. job'.state = "finished"
    BY <2>1, Zenon DEF IInv, TypeOK, JobState
  <2> QED
    BY <1>0, <1>13, <2>1, <2>2, Zenon DEF JobCompleted, StatusInv, Calm
<1>14. CASE Except
  <2>1. row.status = "planning" /\ worker' = "raise" /\ job' = job /\ worker = "except"
    BY <1>14, Zenon DEF Except, StatusInv
  <2>2. row'.status = IF job.retries_left = 0 THEN "failed" ELSE "planning"
    <3>1. job.retries_left \in Nat
      BY JobMaxRetriesAssumption DEF IInv, TypeOK, JobState
    <3>2. update_failed(row).status = "failed"
      BY UpdateFailedType, Zenon DEF IInv, TypeOK
    <3> QED
      BY <1>0, <1>14, <2>1, <3>1, <3>2 DEF Except, is_terminal_failure
  <2> QED
    BY <1>0, <1>14, <2>1, <2>2, Zenon DEF Except, StatusInv, Calm
<1>15. CASE HandleJobFailure
  <2>1. /\ worker = "raise" /\ worker' = "idle" /\ row' = row /\ api' = api
        /\ UNCHANGED <<redisUp, dbUp>> /\ job' = AfterFailure(job)
    BY <1>15, Zenon DEF HandleJobFailure
  <2>2. job'.state = "queued" => row.status = "planning"
    BY <2>1, JobMaxRetriesAssumption DEF AfterFailure, StatusInv, IInv, TypeOK, JobState
  <2> QED
    BY <1>0, <2>1, <2>2, Zenon DEF StatusInv, Calm
<1>16. CASE NodeError
  BY <1>0, <1>16, Zenon DEF NodeError, StatusInv, Calm
<1>17. CASE Expire
  BY <1>0, <1>17, Zenon DEF Expire, StatusInv, Calm
<1>18. CASE Subscribe \/ Disconnect
  BY <1>0, <1>18, Zenon DEF Subscribe, Disconnect, StatusInv, Calm
<1> QED
  BY CalmStep, <1>1, <1>2, <1>3, <1>4, <1>5, <1>6, <1>7, <1>8, <1>9, <1>10, <1>11, <1>12,
     <1>13, <1>14, <1>15, <1>16, <1>17, <1>18, Zenon DEF Next, ApiStep, JobStep, FaultStep, ClientStep

(* Calm is decided at the start. *)
LEMMA FaultsFixed == Next => faults' = faults
BY Zenon DEF Next, ApiStep, JobStep, FaultStep, ClientStep, Ping, create_investigation,
   enqueue, add_task, Dequeue, Setup, Invoke, aput_checkpoint, aput_latest, RunNode,
   FinalizeWrite, FinalizePublish, JobCompleted, Except, HandleJobFailure, NodeError,
   JobTimeout, Crash, DbFlip, RedisFlip, Expire, Subscribe, Disconnect, envVars

(* While the infrastructure holds, the row of an investigation is accepted
   once, settles once, and a retry, a late node failure or an expired
   checkpoint never reopens or overturns the outcome. *)
THEOREM InvestigationImplementsStatus == Spec => StatusIsTerminal
<1> DEFINE shown == IF Calm THEN row.status ELSE "none"
<1>1. Init => Status!Init
  BY DEF Init, NoRow, Status!Init
<1>2. StatusInv /\ IInv /\ [Next]_vars => StatusInv'
  <2>1. ASSUME StatusInv, IInv, Next PROVE StatusInv'
    <3>1. CASE Calm
      BY <2>1, <3>1, StatusStep, Zenon
    <3>2. CASE ~Calm
      BY <2>1, <3>2, FaultsFixed, Zenon DEF StatusInv, Calm
    <3> QED
      BY <3>1, <3>2, Zenon
  <2>2. ASSUME StatusInv, UNCHANGED vars PROVE StatusInv'
    BY <2>2, Zenon DEF StatusInv, Calm, vars
  <2> QED
    BY <2>1, <2>2, Zenon
<1>3. StatusInv /\ IInv /\ [Next]_vars => [Status!Accept \/ Status!Settle]_shown
  <2>1. ASSUME StatusInv, IInv, Next PROVE [Status!Accept \/ Status!Settle]_shown
    <3>1. CASE Calm
      <4>1. Calm'
        BY <3>1, <2>1, FaultsFixed, Zenon DEF Calm
      <4> QED
        BY <2>1, <3>1, <4>1, StatusStep, Zenon DEF Status!Accept, Status!Settle
    <3>2. CASE ~Calm
      BY <2>1, <3>2, FaultsFixed, Zenon DEF Calm
    <3> QED
      BY <3>1, <3>2, Zenon
  <2>2. ASSUME UNCHANGED vars PROVE shown' = shown
    BY <2>2, Zenon DEF vars, Calm
  <2> QED
    BY <2>1, <2>2, Zenon
<1>4. Spec => []IInv
  <2>1. IInv /\ UNCHANGED vars => IInv'
    BY DEF IInv, vars, TypeOK, GraphInv, ApiInv, PublishInv, AnswerIsHonest,
       NoPrematureFailure, DoneHasAnswer
  <2>2. IInv /\ [Next]_vars => IInv'
    BY <2>1, ApiStepInv, JobStepInv, OtherStepInv, Zenon DEF Next
  <2> QED
    BY InitInv, <2>2, PTL DEF Spec
<1> QED
  BY InitStatusInv, <1>1, <1>2, <1>3, <1>4, PTL DEF Spec, StatusIsTerminal, Status!Spec

----------------------------------------------------------------------------
(* The fan-out node.  FanInv says that once the agents have been joined the
   results are those of the agents' last runs, position by position, except
   for the one that is being refined. *)

\* The i-th result is what became of the i-th agent's last run.
Settled(i) ==
    task[Domains[i]] # "running" /\ results[i] = AsOutput(Domains[i], task[Domains[i]])

FanInv ==
    /\ FanTypeOK
    /\ pc # "raised" /\ \A d \in Agents : task[d] # "alien"
    /\ pc = "refining" => idx <= Len(Domains)
    /\ pc # "gather" =>
          /\ Len(results) = Len(Domains)
          /\ \A i \in 1 .. Len(Domains) : Settled(i) \/ (pc = "refining" /\ i = idx)

LEMMA DomainFacts ==
    /\ Len(Domains) \in Nat /\ DOMAIN Domains = 1 .. Len(Domains) /\ Domains \in Seq(Agents)
    /\ \A i \in 1 .. Len(Domains) : Domains[i] \in Agents
    /\ \A i, j \in 1 .. Len(Domains) : Domains[i] = Domains[j] => i = j
    /\ \A d \in Agents : \E i \in 1 .. Len(Domains) : Domains[i] = d
BY FanOutAssumption DEF Agents, Range, IsInjective

LEMMA FanInitInv == FanInit => FanInv
BY DomainFacts DEF FanInit, FanInv, FanTypeOK, Endings

LEMMA AsOutputType ==
    ASSUME NEW d \in Agents, NEW e
    PROVE  AsOutput(d, e) \in Output
BY Zenon DEF AsOutput, Output

LEMMA AgentInv ==
    ASSUME "alien" \notin Returns, FanInv, NEW d \in Agents, Agent(d)
    PROVE  FanInv'
<1>1. CASE broadcast(d)
  BY <1>1 DEF broadcast, FanInv, FanTypeOK, Settled, Endings
<1>2. ASSUME NEW e \in Endings \ {"alien"}, EndRun(d, e) PROVE FanInv'
  <2>1. /\ UNCHANGED <<pc, said, bus, idx, results>> /\ task[d] = "running"
        /\ task' = [task EXCEPT ![d] = e]
    BY <1>2, Zenon DEF EndRun
  <2>2. FanTypeOK' /\ \A c \in Agents : task'[c] # "alien"
    BY <1>2, <2>1, Zenon DEF FanInv, FanTypeOK, Endings
  <2>3. ASSUME NEW i \in 1 .. Len(Domains), Settled(i) PROVE Settled(i)'
    BY <2>1, <2>3, DomainFacts DEF Settled, FanInv, FanTypeOK
  <2> QED
    BY <2>1, <2>2, <2>3, Zenon DEF FanInv
<1>3. Return(d) \/ Missing(d) \/ Timeout(d) => \E e \in Endings \ {"alien"} : EndRun(d, e)
  BY FanOutAssumption, Zenon DEF Return, Missing, Timeout, Endings
<1> QED
  BY <1>1, <1>2, <1>3, Zenon DEF Agent

LEMMA GatherInv == ASSUME FanInv, Gather PROVE FanInv'
<1>1. Where(Domains, {d \in Agents : task[d] # "alien"}) = Domains
  BY DomainFacts, WhereAll, Zenon DEF FanInv
<1>2. results' = [i \in 1 .. Len(Domains) |-> AsOutput(Domains[i], task[Domains[i]])]
  BY <1>1, Zenon DEF Gather, Processed
<1>3. results' \in Seq(Output) /\ Len(results') = Len(Domains)
  BY <1>2, DomainFacts, AsOutputType
<1>4. \A i \in 1 .. Len(Domains) : Settled(i)'
  BY <1>2, DomainFacts, Zenon DEF Settled, Gather, AsOutput
<1> QED
  BY <1>3, <1>4, Zenon DEF Gather, FanInv, FanTypeOK

LEMMA RefineInv == ASSUME FanInv, Refine PROVE FanInv'
<1>1. /\ idx \in 1 .. Len(Domains) /\ pc = "stage_b" /\ UNCHANGED <<bus, results>>
      /\ Domains[idx] \in Agents
  BY DomainFacts DEF Refine, FanInv, FanTypeOK
<1>2. CASE idx' = idx + 1 /\ UNCHANGED <<pc, task, said>>
  BY <1>1, <1>2, DomainFacts DEF FanInv, FanTypeOK, Settled
<1>3. CASE /\ pc' = "refining" /\ UNCHANGED idx
           /\ task' = [task EXCEPT ![Domains[idx]] = "running"]
           /\ said' = said \ {Domains[idx]}
  <2>1. FanTypeOK' /\ \A c \in Agents : task'[c] # "alien"
    BY <1>1, <1>3, Zenon DEF FanInv, FanTypeOK, Endings
  <2>2. ASSUME NEW i \in 1 .. Len(Domains), i # idx PROVE Settled(i)'
    BY <1>1, <1>3, <2>2, DomainFacts DEF FanInv, FanTypeOK, Settled, AsOutput
  <2> QED
    BY <1>1, <1>3, <2>1, <2>2 DEF FanInv
<1> QED
  BY <1>2, <1>3, Zenon DEF Refine

LEMMA StoreInv == ASSUME FanInv, Store PROVE FanInv'
<1> DEFINE d == Domains[idx]
<1>1. idx \in 1 .. Len(Domains) /\ Len(results) = Len(Domains) /\ d \in Agents
  BY DomainFacts DEF Store, FanInv, FanTypeOK
<1>2. /\ results' = [results EXCEPT ![idx] = AsOutput(d, task[d])]
      /\ pc' = "stage_b" /\ idx' = idx + 1 /\ UNCHANGED <<task, said, bus>> /\ task[d] # "running"
  BY <1>1 DEF Store
<1>3. results' \in Seq(Output) /\ Len(results') = Len(Domains)
  BY <1>1, <1>2, AsOutputType DEF FanInv, FanTypeOK
<1>4. FanTypeOK'
  BY <1>1, <1>2, <1>3, DomainFacts DEF FanInv, FanTypeOK
<1>5. ASSUME NEW i \in 1 .. Len(Domains) PROVE Settled(i)'
  BY <1>1, <1>2, DomainFacts DEF FanInv, FanTypeOK, Settled, AsOutput, Store
<1> QED
  BY <1>2, <1>3, <1>4, <1>5, Zenon DEF FanInv

LEMMA FanNextInv ==
    ASSUME "alien" \notin Returns
    PROVE  FanInv /\ [FanNext]_fanVars => FanInv'
<1> SUFFICES ASSUME FanInv, [FanNext]_fanVars PROVE FanInv'
  BY Zenon
<1>1. CASE UNCHANGED fanVars
  BY <1>1, Zenon DEF fanVars, FanInv, FanTypeOK, Settled
<1>2. CASE Finish
  BY <1>2, Zenon DEF Finish, FanInv, FanTypeOK, Settled
<1> QED
  BY <1>1, <1>2, AgentInv, GatherInv, RefineInv, StoreInv, Zenon DEF FanNext, Finished

\* What the invariant says once run has returned.
LEMMA FanInvImplies == FanInv => Aligned /\ SiblingsKeepEvidence /\ pc # "raised"
<1> SUFFICES ASSUME FanInv, pc = "done"
             PROVE  Aligned /\ SiblingsKeepEvidence
  BY Zenon DEF FanInv, Aligned, SiblingsKeepEvidence
<1>1. /\ Len(results) = Len(Domains) /\ DOMAIN results = 1 .. Len(results)
      /\ \A i \in 1 .. Len(Domains) : results[i] = AsOutput(Domains[i], task[Domains[i]])
  BY DEF FanInv, FanTypeOK, Settled
<1>2. Aligned
  BY <1>1 DEF Aligned, AsOutput
<1>3. ASSUME NEW d \in Agents, task[d] = "evidence"
      PROVE  [agent |-> d, kind |-> "evidence"] \in Range(results)
  <2>1. PICK i \in 1 .. Len(Domains) : Domains[i] = d
    BY DomainFacts, Zenon
  <2>2. results[i] = [agent |-> d, kind |-> "evidence"]
    BY <1>1, <1>3, <2>1, Zenon DEF AsOutput
  <2> QED
    BY <1>1, <2>2, Zenon DEF Range
<1> QED
  BY <1>2, <1>3, Zenon DEF SiblingsKeepEvidence

(***************************************************************************)
(* The fan-out, for every list of domains, every registry and every order  *)
(* in which agents answer, fail, hang and broadcast: if the runners return *)
(* outputs or raise, the results follow the order of the domains, the      *)
(* evidence of every agent is among them, and storing a refined output     *)
(* never runs past their end.                                              *)
(***************************************************************************)
THEOREM FanOutSafety ==
    ASSUME "alien" \notin Returns
    PROVE  FanSpec => [](Aligned /\ SiblingsKeepEvidence /\ pc # "raised")
BY FanInitInv, FanNextInv, FanInvImplies, PTL DEF FanSpec

(* gather(return_exceptions) and the error boundary of each runner: one failure
   never costs a sibling its evidence. *)
COROLLARY SiblingsKeepTheirEvidence ==
    ASSUME "alien" \notin Returns
    PROVE  FanSpec => []SiblingsKeepEvidence
BY FanOutSafety, PTL
=============================================================================
