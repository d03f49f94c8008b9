----------------------------- MODULE TaskGraph -----------------------------
(***************************************************************************)
(* The investigation graph: the nodes of orchestrator/graph/builder.py and *)
(* the bounded replan loop of orchestrator/agents/critic/replan.py.        *)
(*                                                                         *)
(*   supervisor -> fan_out -> (simulation) -> synthesis -> critic          *)
(*                                             ^            |              *)
(*                                             +-- replan <-+-> finalize   *)
(*                                                                         *)
(* The module defines what each node does to the graph's state g, to the   *)
(* row of the investigations table and to the stream of a connected        *)
(* client.  Investigation.tla decides when a node runs, fails or is lost.  *)
(*                                                                         *)
(* Evidence is abstracted to how much of it there is: agent_outputs counts *)
(* the FanOutCoordinator runs whose outputs the reducer (operator.add) has *)
(* appended, synthesis_output and final_answer are the amount they were    *)
(* made from, 0 standing for None.  A critic flag is its severity.         *)
(***************************************************************************)
EXTENDS Integers

CONSTANTS
    EnableReplanLoop    \* Settings.enable_replan_loop

ASSUME EnableReplanLoopAssumption == EnableReplanLoop \in BOOLEAN

VARIABLES
    g,          \* TaskGraphState, and the node the graph runs next
    row,        \* the investigation's row in Postgres
    stream      \* one client of GET /investigations/{id}/stream

Severity == {"low", "high"}

MaxReplans == 2     \* the default of should_replan's max_replans

Nodes == {"supervisor", "fan_out", "simulation", "synthesis", "critic",
          "replan", "finalize", "end"}

GraphState ==
    [node: Nodes, needs_simulation: BOOLEAN, agent_outputs: Nat,
     synthesis_output: Nat, final_answer: Nat,
     critic_flags: SUBSET Severity, replan_count: Nat]

(* The state ainvoke is called with, before any node has run. *)
StartState ==
    [node |-> "supervisor", needs_simulation |-> FALSE, agent_outputs |-> 0,
     synthesis_output |-> 0, final_answer |-> 0, critic_flags |-> {},
     replan_count |-> 0]

(***************************************************************************)
(* The row: status, the answer and whether it carries the note             *)
(* "Unresolved conflicting evidence.", and the execution trace finalize    *)
(* stores (or the error the job stores in its place).                      *)
(***************************************************************************)
NoTrace == [kind |-> "none", agent_outputs |-> 0, critic_flags |-> {}, replan_count |-> 0]

ErrorTrace == [NoTrace EXCEPT !.kind = "error"]

RowState ==
    [status: {"none", "planning", "complete", "failed"},
     answer: Nat, note: BOOLEAN,
     execution_trace: [kind: {"none", "run", "error"}, agent_outputs: Nat,
                       critic_flags: SUBSET Severity, replan_count: Nat]]

NoRow == [status |-> "none", answer |-> 0, note |-> FALSE, execution_trace |-> NoTrace]

(* An update that passes answer=None leaves the stored answer alone.  Two
   updates of one row never overlap: only the attempt that runs writes it. *)
update_failed(r) == [r EXCEPT !.status = "failed", !.execution_trace = ErrorTrace]

----------------------------------------------------------------------------
(***************************************************************************)
(* Events.  A client's stream yields what is published while it listens.   *)
(* parse_event knows six event types; for any other it raises ValueError,  *)
(* sse_event_generator logs it and ends, and the response is over.         *)
(***************************************************************************)
Events == {"planning", "agent", "synthesizing", "critic_flag", "replanning", "done"}

StreamState == [state: {"off", "listening", "closed", "died"}, done: BOOLEAN]

NoStream == [state |-> "off", done |-> FALSE]

ParsedEvents == Events \ {"replanning"}

Delivered(s, event) ==
    IF s.state # "listening" THEN s
    ELSE IF event \notin ParsedEvents THEN [s EXCEPT !.state = "died"]
    ELSE IF event = "done" THEN [s EXCEPT !.done = TRUE]
    ELSE s

(* _safe_publish_event swallows every error: with Redis down the event is lost. *)
Publish(event, redisUp) ==
    stream' = IF redisUp THEN Delivered(stream, event) ELSE stream

----------------------------------------------------------------------------
(* The classifier may fail; the node then falls back to no simulation. *)
supervisor_node(redisUp) ==
    /\ g.node = "supervisor"
    /\ Publish("planning", redisUp)
    /\ \E sim \in BOOLEAN :
           g' = [g EXCEPT !.node = "fan_out", !.needs_simulation = sim]
    /\ UNCHANGED row

fan_out_node(redisUp) ==
    /\ g.node = "fan_out"
    /\ Publish("agent", redisUp)
    /\ g' = [g EXCEPT !.agent_outputs = @ + 1,
                      !.node = IF g.needs_simulation THEN "simulation" ELSE "synthesis"]
    /\ UNCHANGED row

(* The simulation agent's one output is part of the first round of evidence. *)
simulation_node(redisUp) ==
    /\ g.node = "simulation"
    /\ Publish("agent", redisUp)
    /\ g' = [g EXCEPT !.node = "synthesis"]
    /\ UNCHANGED row

synthesis_node(redisUp) ==
    /\ g.node = "synthesis"
    /\ Publish("synthesizing", redisUp)
    /\ g' = [g EXCEPT !.synthesis_output = g.agent_outputs, !.node = "critic"]
    /\ UNCHANGED row

should_replan(critic_flags, replan_count) ==
    EnableReplanLoop /\ ~(replan_count >= MaxReplans) /\ "high" \in critic_flags

(* Any flags may come back: the critic is a model, and it fails open. *)
critic_node(redisUp) ==
    /\ g.node = "critic"
    /\ \E critic_flags \in SUBSET Severity :
           /\ g' = [g EXCEPT !.critic_flags = critic_flags,
                             !.final_answer = g.synthesis_output,
                             !.node = IF should_replan(critic_flags, g.replan_count)
                                      THEN "replan" ELSE "finalize"]
           /\ IF critic_flags = {} THEN UNCHANGED stream
                                   ELSE Publish("critic_flag", redisUp)
    /\ UNCHANGED row

(* The events of the agents it re-runs follow the replanning event, which
   has already ended the stream of every listener. *)
replan_node(redisUp) ==
    /\ g.node = "replan"
    /\ Publish("replanning", redisUp)
    /\ g' = [g EXCEPT !.replan_count = @ + 1, !.agent_outputs = @ + 1,
                      !.node = "synthesis"]
    /\ UNCHANGED row

(* Slip: the note is only written above the cap. *)
conflict_note_above_cap(critic_flags, replan_count) ==
    replan_count > 2 /\ "high" \in critic_flags

conflict_note(critic_flags, replan_count) ==
    replan_count >= 2 /\ "high" \in critic_flags

final_row ==
    [status |-> "complete", answer |-> g.final_answer,
     note |-> conflict_note(g.critic_flags, g.replan_count),
     execution_trace |-> [kind |-> "run", agent_outputs |-> g.agent_outputs,
                          critic_flags |-> g.critic_flags,
                          replan_count |-> g.replan_count]]

(* Slip: the event is never sent. *)
finalize_publish_silent(redisUp) ==
    /\ g.node = "finalize"
    /\ g' = [g EXCEPT !.node = "end"]
    /\ UNCHANGED <<row, stream>>

(* finalize_node sends "done" once its write of final_row is committed. *)
finalize_publish(redisUp) ==
    /\ g.node = "finalize"
    /\ Publish("done", redisUp)
    /\ g' = [g EXCEPT !.node = "end"]
    /\ UNCHANGED row

(* The nodes up to finalize. *)
GraphNode(redisUp) ==
    \/ supervisor_node(redisUp) \/ fan_out_node(redisUp) \/ simulation_node(redisUp)
    \/ synthesis_node(redisUp) \/ critic_node(redisUp) \/ replan_node(redisUp)
=============================================================================
