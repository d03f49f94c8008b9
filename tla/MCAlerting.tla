----------------------------- MODULE MCAlerting -----------------------------
(* Undisturbed, a rule that is notified in its second violation, one that is
   notified at once, and an SLO; the first with runs that die, and an SLO without
   data or an administrator and a webhook that fails; and two runs that overlap. *)
EXTENDS Alerting

MCRules == <<"queue_depth", "p95_latency">>
MCCycles == [r \in Range(MCRules) |-> IF r = "queue_depth" THEN 2 ELSE 1]
MCSlos == <<"ece">>

MCSettings ==
    {[names |-> {"queue_depth", "p95_latency", "ece"}, jobs |-> {"j1"}, faults |-> {}],
     [names |-> {"queue_depth", "ece"}, jobs |-> {"j1"}, faults |-> {"crash", "no_data"}],
     [names |-> {"queue_depth"}, jobs |-> {"j1"}, faults |-> {"crash", "webhook", "toggle"}],
     [names |-> {"queue_depth"}, jobs |-> {"j1", "j2"}, faults |-> {}]}
=============================================================================
