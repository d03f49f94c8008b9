------------------------------- MODULE FanOut -------------------------------
(***************************************************************************)
(* FanOutCoordinator.run (orchestrator/graph/fan_out_coordinator.py): the  *)
(* domain agents of one investigation run concurrently, each under its own *)
(* timeout and error boundary, may broadcast findings to each other on the *)
(* CollaborationBus, and are joined by asyncio.gather.  In a second stage  *)
(* the agents that listen are run once more, one after the other, with an  *)
(* input refined by a peer's finding, and the new output takes the place   *)
(* of the first one.                                                       *)
(*                                                                         *)
(* An agent's output is abstracted to whether it has evidence.  "alien" is *)
(* a returned value that is no AgentOutput, which nothing stops a plugin   *)
(* from returning.                                                         *)
(***************************************************************************)
EXTENDS Integers, Sequences, Functions, Filtering

CONSTANTS
    Domains,            \* the matched domains, in order
    Registered,         \* the domains the AgentRegistry knows
    Listeners,          \* the domains whose runner has on_peer_finding
    Collaboration,      \* Settings.enable_agent_collaboration
    Returns             \* what a runner may come back with

Agents == Range(Domains)

ASSUME FanOutAssumption ==
    /\ Domains \in Seq(STRING) /\ IsInjective(Domains)
    /\ Registered \subseteq Agents /\ Listeners \subseteq Registered
    /\ Collaboration \in BOOLEAN
    /\ Returns \subseteq {"evidence", "empty", "raises", "alien"}

VARIABLES
    pc,         \* gather, stage_b, refining, done, or raised
    task,       \* per domain, its run: "running" or how it ended
    said,       \* the domains that have broadcast in their present run
    bus,        \* the CollaborationBus: who broadcast, in order
    idx,        \* the position of the second stage
    results     \* processed_results

fanVars == <<pc, task, said, bus, idx, results>>

Endings == {"evidence", "empty", "raises", "alien", "timeout", "missing"}

Output == [agent: Agents, kind: {"evidence", "empty", "alien"}]

FanTypeOK ==
    /\ pc \in {"gather", "stage_b", "refining", "done", "raised"}
    /\ task \in [Agents -> Endings \cup {"running"}]
    /\ said \subseteq Agents
    /\ bus \in Seq(Agents)
    /\ idx \in 1 .. Len(Domains) + 1
    /\ results \in Seq(Output)

FanInit ==
    /\ pc = "gather" /\ idx = 1 /\ results = <<>> /\ bus = <<>> /\ said = {}
    /\ task = [d \in Agents |-> "running"]

----------------------------------------------------------------------------
(* _run_agent_with_monitoring: an exception and a timeout become an output
   without evidence; whatever else comes back is handed on. *)
AsOutput(d, ending) ==
    [agent |-> d, kind |-> IF ending \in {"evidence", "alien"} THEN ending ELSE "empty"]

broadcast(d) ==
    /\ Collaboration /\ d \in Registered /\ task[d] = "running" /\ d \notin said
    /\ bus' = Append(bus, d) /\ said' = said \cup {d}
    /\ UNCHANGED <<pc, task, idx, results>>

EndRun(d, ending) ==
    /\ task[d] = "running"
    /\ task' = [task EXCEPT ![d] = ending]
    /\ UNCHANGED <<pc, said, bus, idx, results>>

(* The runner returns or raises. *)
Return(d) == d \in Registered /\ \E r \in Returns : EndRun(d, r)

(* _make_failed_runner stands in for an agent the registry does not know. *)
Missing(d) == d \notin Registered /\ EndRun(d, "missing")

(* Slip: only the first run is given a timeout. *)
Timeout_first_run(d) == pc = "gather" /\ d \in Registered /\ EndRun(d, "timeout")

(* asyncio.wait_for. *)
Timeout(d) == d \in Registered /\ EndRun(d, "timeout")

----------------------------------------------------------------------------
(* Slip: the outputs are collected as the agents complete, failures first. *)
Processed_reordered(ds) ==
    LET failed == Where(ds, {d \in Agents : task[d] \in {"raises", "timeout", "missing"}})
        kept == Where(ds, {d \in Agents : task[d] \in {"evidence", "empty"}})
    IN  [i \in 1 .. Len(kept) |-> AsOutput(kept[i], task[kept[i]])]
        \o [i \in 1 .. Len(failed) |-> AsOutput(failed[i], "empty")]

(* Slip: gather without return_exceptions: a failure loses the others. *)
Processed_all_or_nothing(ds) ==
    IF \E d \in Range(ds) : task[d] = "raises"
    THEN [i \in 1 .. Len(ds) |-> AsOutput(ds[i], "empty")]
    ELSE [i \in 1 .. Len(ds) |-> AsOutput(ds[i], task[ds[i]])]

(* The loop over gather's results keeps outputs and exceptions and passes
   over anything else. *)
Processed(ds) ==
    LET kept == Where(ds, {d \in Agents : task[d] # "alien"})
    IN  [i \in 1 .. Len(kept) |-> AsOutput(kept[i], task[kept[i]])]

Gather ==
    /\ pc = "gather" /\ \A d \in Agents : task[d] # "running"
    /\ results' = Processed(Domains)
    /\ pc' = IF Collaboration /\ bus # <<>> THEN "stage_b" ELSE "done"
    /\ UNCHANGED <<task, said, bus, idx>>

(* bus.peer_findings *)
PeerFindings(d) == {i \in 1 .. Len(bus) : bus[i] # d}

(* One turn of the second stage's loop.  The hook answers each finding with a
   refined input, with None or with an exception: the findings it accepts are
   any set.  The latest of them is used, and the agent runs again. *)
Refine ==
    /\ pc = "stage_b" /\ idx <= Len(Domains)
    /\ \E candidates \in SUBSET PeerFindings(Domains[idx]) :
           LET d == Domains[idx]
           IN  /\ candidates # {} => d \in Listeners
               /\ IF candidates = {}
                  THEN idx' = idx + 1 /\ UNCHANGED <<pc, task, said>>
                  ELSE /\ pc' = "refining"
                       /\ task' = [task EXCEPT ![d] = "running"]
                       /\ said' = said \ {d}
                       /\ UNCHANGED idx
    /\ UNCHANGED <<bus, results>>

(* processed_results[idx] = refined_output, an IndexError past its end. *)
Store ==
    /\ pc = "refining" /\ task[Domains[idx]] # "running"
    /\ IF idx <= Len(results)
       THEN /\ results' = [results EXCEPT ![idx] =
                               AsOutput(Domains[idx], task[Domains[idx]])]
            /\ pc' = "stage_b" /\ idx' = idx + 1
       ELSE pc' = "raised" /\ UNCHANGED <<results, idx>>
    /\ UNCHANGED <<task, said, bus>>

Finish ==
    /\ pc = "stage_b" /\ idx > Len(Domains)
    /\ pc' = "done"
    /\ UNCHANGED <<task, said, bus, idx, results>>

(* run has returned, or raised to fan_out_node. *)
Finished == pc \in {"done", "raised"} /\ UNCHANGED fanVars

Agent(d) == broadcast(d) \/ Return(d) \/ Missing(d) \/ Timeout(d)

FanNext == (\E d \in Agents : Agent(d)) \/ Gather \/ Refine \/ Store \/ Finish \/ Finished

(* The event loop runs what is ready and fires timers; whether an agent ever
   returns by itself is its own affair. *)
FanSpec ==
    /\ FanInit /\ [][FanNext]_fanVars
    /\ \A d \in Agents : WF_fanVars(Timeout(d)) /\ WF_fanVars(Missing(d))
    /\ WF_fanVars(Gather \/ Refine \/ Store \/ Finish)

----------------------------------------------------------------------------
(* The i-th result is the i-th domain's: enumerate(results) and
   processed_results[idx] are indexed by the position in domains, and
   synthesis reads gaps off the agents that are missing. *)
Aligned ==
    pc = "done" =>
        /\ Len(results) = Len(Domains)
        /\ \A i \in 1 .. Len(Domains) : results[i].agent = Domains[i]

(* "One failure must never cancel siblings": the evidence of an agent whose
   last run came back with evidence is in the result, whatever the others do. *)
SiblingsKeepEvidence ==
    pc = "done" =>
        \A d \in Agents : task[d] = "evidence" =>
            [agent |-> d, kind |-> "evidence"] \in Range(results)

(* docs/Roadmap_Phase2.md, fan-out milestone: an agent that hangs or fails
   never makes the investigation hang. *)
Terminates == <>(pc \in {"done", "raised"})

=============================================================================
