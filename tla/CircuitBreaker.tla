--------------------------- MODULE CircuitBreaker ---------------------------
(***************************************************************************)
(* resilience/circuit_breaker.py, degraded_mode.py and retry_policy.py:    *)
(* several workers call one external source through resilient_call.  The   *)
(* circuit is one Redis value that every worker reads and later writes     *)
(* back, with an await between the two, so reads and writes of different   *)
(* workers interleave.  A worker's call is cancelled by the agent timeout  *)
(* at any await.                                                           *)
(*                                                                         *)
(* The response cache is the remaining lifetime of the one cached entry.   *)
(* Time is a tick that ages the circuit, every copy of it and the cache.   *)
(***************************************************************************)
EXTENDS CircuitState, FiniteSets

CONSTANTS Workers,      \* concurrent callers of the source, on any replica
          MAX_ATTEMPTS, \* attempts of the retry policy
          CacheTTL,     \* effective_ttl, in clock ticks
          Settings      \* the surroundings considered: who calls, whether Redis fails

ASSUME BreakerAssumption ==
    /\ MAX_ATTEMPTS \in Nat \ {0}
    /\ CacheTTL \in Nat \ {0}
    /\ Settings \subseteq [workers: SUBSET Workers, redisFaults: BOOLEAN]

VARIABLES
    circuit,    \* the value of gaiaos:circuit:{source}
    cache,      \* ticks the cached response has left to live, 0 when absent
    redisUp,    \* whether Redis answers
    sourceUp,   \* whether the source answers, and within the deadline
    call,       \* the resilient_call each worker is in
    setting     \* the surroundings of this behaviour

vars == <<circuit, cache, redisUp, sourceUp, call, setting>>

Circuit == [status: Status, failure_count: 0..Threshold, opened_at: Age]

Fresh == [status |-> CLOSED, failure_count |-> 0, opened_at |-> NotOpened]

Pc == {"idle", "set_half_open", "live", "cache_result", "success_read",
       "success_set", "failure_read", "failure_set", "serve"}

Outcome == {"none", "live", "cached", "unavailable", "raised", "cancelled"}

\* pc: the next await; state: the copy of the circuit the call holds; read: the
\* status that copy had when it was read; attempt: live attempts made.
Call == [pc: Pc, state: Circuit, read: Status, attempt: 0..MAX_ATTEMPTS,
         outcome: Outcome]

Idle == [pc |-> "idle", state |-> Fresh, read |-> CLOSED, attempt |-> 0,
         outcome |-> "none"]

TypeOK ==
    /\ circuit \in Circuit
    /\ cache \in 0..CacheTTL
    /\ redisUp \in BOOLEAN
    /\ sourceUp \in BOOLEAN
    /\ call \in [Workers -> Call]
    /\ setting \in Settings

Init ==
    /\ circuit = Fresh
    /\ cache = 0
    /\ redisUp = TRUE
    /\ sourceUp = TRUE
    /\ call = [w \in Workers |-> Idle]
    /\ setting \in Settings

At(w, pc) == call[w].pc = pc

Goto(w, pc) == call' = [call EXCEPT ![w].pc = pc]

\* The call returns, or leaves by an exception, and the worker may call again.
Finish(w, outcome) ==
    call' = [call EXCEPT ![w] = [Idle EXCEPT !.outcome = outcome]]

\* A new call; the state it read lives on only where a later write needs it.
Begin(w, pc, read, state) ==
    call' = [call EXCEPT ![w] = [Idle EXCEPT !.pc = pc, !.read = read,
                                             !.state = state]]

\* The state record_success and record_failure derived, for the write to come.
Hold(w, pc, read, state) ==
    call' = [call EXCEPT ![w].pc = pc, ![w].read = read, ![w].state = state]

GetState == IF redisUp THEN circuit ELSE Fresh

SetState(state) == circuit' = IF redisUp THEN state ELSE circuit

-----------------------------------------------------------------------------
\* is_open, up to its decision: let the call through, write half-open first,
\* or skip the live attempt.
IsOpen(w) ==
    LET state == GetState
        corrupt == state.opened_at = NotOpened IN
    /\ At(w, "idle") /\ w \in setting.workers
    /\ \/ /\ state.status # OPEN \/ corrupt
          /\ Begin(w, "live", state.status, Fresh)
       \/ /\ state.status = OPEN /\ ~corrupt
          /\ state.opened_at >= HalfOpenTimeout
          /\ Begin(w, "set_half_open", OPEN,
                   [state EXCEPT !.status = HALF_OPEN])
       \/ /\ state.status = OPEN /\ ~corrupt
          /\ state.opened_at < HalfOpenTimeout
          /\ Begin(w, "serve", OPEN, Fresh)
    /\ UNCHANGED <<circuit, cache, redisUp, sourceUp>>

\* is_open writes the half-open state it derived from what it read.
SetHalfOpen(w) ==
    /\ At(w, "set_half_open")
    /\ SetState(call[w].state)
    /\ Goto(w, "live")
    /\ UNCHANGED <<cache, redisUp, sourceUp>>

\* One attempt of the wrapped fn succeeds.
LiveSuccess(w) ==
    /\ At(w, "live")
    /\ sourceUp
    /\ call' = [call EXCEPT ![w].pc = "cache_result", ![w].attempt = @ + 1]
    /\ UNCHANGED <<circuit, cache, redisUp, sourceUp>>

\* One attempt raises httpx.HTTPError: retried until the attempts run out.
LiveHTTPError(w) ==
    LET attempt == call[w].attempt + 1 IN
    /\ At(w, "live")
    /\ ~sourceUp
    /\ call' = [call EXCEPT
         ![w].attempt = attempt,
         ![w].pc = IF attempt < MAX_ATTEMPTS THEN "live" ELSE "failure_read"]
    /\ UNCHANGED <<circuit, cache, redisUp, sourceUp>>

\* One attempt raises anything else (a response body that is not JSON): not
\* retried, not caught, nothing recorded.
LiveOtherError(w) ==
    /\ At(w, "live")
    /\ ~sourceUp
    /\ Finish(w, "raised")
    /\ UNCHANGED <<circuit, cache, redisUp, sourceUp>>

CacheResult(w) ==
    /\ At(w, "cache_result")
    /\ cache' = IF redisUp THEN CacheTTL ELSE cache
    /\ Goto(w, "success_read")
    /\ UNCHANGED <<circuit, redisUp, sourceUp>>

\* Slip: a success resets the count but forgets half-open.
RecordSuccessOnlyClosed(w) ==
    LET state == GetState IN
    /\ At(w, "success_read")
    /\ IF state.status = CLOSED /\ state.failure_count # 0
       THEN Hold(w, "success_set", state.status, Fresh)
       ELSE Finish(w, "live")
    /\ UNCHANGED <<circuit, cache, redisUp, sourceUp>>

\* record_success writes only when there is something to reset.
RecordSuccess(w) ==
    LET state == GetState IN
    /\ At(w, "success_read")
    /\ IF state.status # CLOSED \/ state.failure_count # 0
       THEN Hold(w, "success_set", state.status, Fresh)
       ELSE Finish(w, "live")
    /\ UNCHANGED <<circuit, cache, redisUp, sourceUp>>

\* Slip: the status is closed but the count is not cleared.
SetSuccessKeepsCount(w) ==
    /\ At(w, "success_set")
    /\ SetState([circuit EXCEPT !.status = CLOSED])
    /\ Finish(w, "live")
    /\ UNCHANGED <<cache, redisUp, sourceUp>>

SetSuccess(w) ==
    /\ At(w, "success_set")
    /\ SetState(call[w].state)
    /\ Finish(w, "live")
    /\ UNCHANGED <<cache, redisUp, sourceUp>>

\* Slip: opens one failure early.
FailedEarly(state) ==
    LET count == Bump(state.failure_count) IN
    IF state.status \in {CLOSED, HALF_OPEN} /\ count >= Threshold - 1
    THEN [status |-> OPEN, failure_count |-> count, opened_at |-> 0]
    ELSE [state EXCEPT !.failure_count = count]

\* The state record_failure derives from the one it read.
Failed(state) ==
    LET count == Bump(state.failure_count) IN
    IF state.status \in {CLOSED, HALF_OPEN} /\ count >= Threshold
    THEN [status |-> OPEN, failure_count |-> count, opened_at |-> 0]
    ELSE [state EXCEPT !.failure_count = count]

RecordFailure(w) ==
    /\ At(w, "failure_read")
    /\ Hold(w, "failure_set", GetState.status, Failed(GetState))
    /\ UNCHANGED <<circuit, cache, redisUp, sourceUp>>

SetFailure(w) ==
    /\ At(w, "failure_set")
    /\ SetState(call[w].state)
    /\ Goto(w, "serve")
    /\ UNCHANGED <<cache, redisUp, sourceUp>>

ServeFromCache(w) ==
    /\ At(w, "serve")
    /\ Finish(w, IF redisUp /\ cache > 0 THEN "cached" ELSE "unavailable")
    /\ UNCHANGED <<circuit, cache, redisUp, sourceUp>>

-----------------------------------------------------------------------------
\* asyncio.wait_for in the fan-out coordinator cancels an agent that overruns
\* its deadline, at whichever await it is.
Cancel(w) ==
    /\ ~At(w, "idle")
    /\ ~sourceUp
    /\ Finish(w, "cancelled")
    /\ UNCHANGED <<circuit, cache, redisUp, sourceUp, setting>>

SourceFlip ==
    /\ sourceUp' = ~sourceUp
    /\ UNCHANGED <<circuit, cache, redisUp, call, setting>>

RedisFlip ==
    /\ setting.redisFaults
    /\ redisUp' = ~redisUp
    /\ UNCHANGED <<circuit, cache, sourceUp, call, setting>>

Tick ==
    /\ circuit' = [circuit EXCEPT !.opened_at = Older(@)]
    /\ call' = [w \in Workers |->
                  [call[w] EXCEPT !.state.opened_at = Older(@)]]
    /\ cache' = IF cache > 0 THEN cache - 1 ELSE 0
    /\ UNCHANGED <<redisUp, sourceUp, setting>>

Step(w) ==
    /\ \/ IsOpen(w)
       \/ SetHalfOpen(w)
       \/ LiveSuccess(w)
       \/ LiveHTTPError(w)
       \/ LiveOtherError(w)
       \/ CacheResult(w)
       \/ RecordSuccess(w)
       \/ SetSuccess(w)
       \/ RecordFailure(w)
       \/ SetFailure(w)
       \/ ServeFromCache(w)
    /\ UNCHANGED setting

Next ==
    \/ \E w \in Workers : Step(w) \/ Cancel(w)
    \/ SourceFlip
    \/ RedisFlip
    \/ Tick

Spec == Init /\ [][Next]_vars

\* Agents keep calling the source and the event loop runs their steps.
Fairness == WF_vars(Tick) /\ \A w \in Workers : WF_vars(Step(w))

FairSpec == Spec /\ Fairness

-----------------------------------------------------------------------------
\* Every copy of the circuit that is, or may yet be, in Redis.
Copies == {circuit} \cup {call[w].state : w \in Workers}

\* The circuit only leaves closed with a full count of failures and a time of
\* opening, in Redis and in every copy a worker is about to write back: no
\* interleaving of stale writes opens it early or leaves the corrupt open
\* state that is_open would let through forever.
OpenIsEarned ==
    \A c \in Copies : c.status # CLOSED =>
        /\ c.failure_count >= Threshold
        /\ c.opened_at # NotOpened

\* A probe that fails reopens the circuit: record_failure has no rule of its
\* own for half-open and relies on the count having survived open and
\* half-open, whoever wrote them.
ProbeFailureReopens ==
    \A w \in Workers :
        At(w, "failure_set") /\ call[w].read = HALF_OPEN
            => call[w].state.status = OPEN

\* One worker, and a Redis that answers: nobody else writes the circuit.
Alone == ~setting.redisFaults /\ \E w \in Workers : setting.workers = {w}

\* Once the source and Redis stay up the circuit closes for good, whatever
\* stale states the workers still had to write.
Recovers ==
    <>[](sourceUp /\ redisUp) => <>[](circuit.status = CLOSED)

\* Where workers race, the machine below is not looked at.
Seen == IF Alone THEN circuit ELSE Fresh

Documented == INSTANCE CircuitMachine WITH
    status <- Seen.status,
    failure_count <- Seen.failure_count,
    opened_for <- Seen.opened_at

\* For a worker on its own, the value in Redis moves only as the state machine
\* in the header of circuit_breaker.py says.
ImplementsDocumentedMachine == Documented!MachineSpec

=============================================================================
