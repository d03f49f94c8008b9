---------------------------- MODULE CircuitState ----------------------------
(***************************************************************************)
(* The state of the circuit of one external source, shared by the          *)
(* documented machine (CircuitMachine) and the code (CircuitBreaker).      *)
(***************************************************************************)
EXTENDS Integers

CONSTANTS Threshold,        \* circuit_failure_threshold
          HalfOpenTimeout   \* circuit_half_open_timeout_s, in clock ticks

ASSUME CircuitAssumption ==
    /\ Threshold \in Nat \ {0}
    /\ HalfOpenTimeout \in Nat

CLOSED == "closed"
OPEN == "open"
HALF_OPEN == "half-open"
Status == {CLOSED, OPEN, HALF_OPEN}

\* opened_at: the time since the circuit last opened, capped at
\* HalfOpenTimeout; NotOpened stands for null.
NotOpened == -1
Age == {NotOpened} \cup 0..HalfOpenTimeout

\* A count of failures saturates at the threshold: no code compares it with
\* anything but zero and the threshold.
Bump(n) == IF n < Threshold THEN n + 1 ELSE n

\* One tick of an age.
Older(age) == IF age \in 0..(HalfOpenTimeout - 1) THEN age + 1 ELSE age

=============================================================================
