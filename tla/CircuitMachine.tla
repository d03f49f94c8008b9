--------------------------- MODULE CircuitMachine ---------------------------
(***************************************************************************)
(* The circuit breaker of one external source as the header of             *)
(* resilience/circuit_breaker.py documents it: one atomic step per         *)
(* transition, no replicas, no Redis.                                      *)
(***************************************************************************)
EXTENDS CircuitState

VARIABLES status, failure_count, opened_for

machineVars == <<status, failure_count, opened_for>>

MachineInit ==
    /\ status = CLOSED
    /\ failure_count = 0
    /\ opened_for = NotOpened

\* closed -> open after Threshold consecutive failures; half-open -> open on
\* the failure of a probe.  The time of opening is taken when the failure is
\* seen, at or before the moment the circuit opens.
Fail ==
    /\ status \in {CLOSED, HALF_OPEN}
    /\ failure_count' = Bump(failure_count)
    /\ IF status = HALF_OPEN \/ failure_count' >= Threshold
       THEN status' = OPEN /\ opened_for' \in 0..HalfOpenTimeout
       ELSE UNCHANGED <<status, opened_for>>

\* half-open -> closed on the success of a probe; a success also ends a run of
\* failures.
Succeed ==
    /\ status \in {CLOSED, HALF_OPEN}
    /\ status' = CLOSED
    /\ failure_count' = 0
    /\ opened_for' = NotOpened

\* open -> half-open after HalfOpenTimeout.
Elapse ==
    /\ status = OPEN
    /\ opened_for >= HalfOpenTimeout
    /\ status' = HALF_OPEN
    /\ UNCHANGED <<failure_count, opened_for>>

Wait ==
    /\ opened_for' = Older(opened_for)
    /\ UNCHANGED <<status, failure_count>>

MachineNext == Fail \/ Succeed \/ Elapse \/ Wait

MachineSpec == MachineInit /\ [][MachineNext]_machineVars

=============================================================================
