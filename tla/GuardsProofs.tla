---------------------------- MODULE GuardsProofs ----------------------------
(***************************************************************************)
(* The two guards that live in Redis.  What holds of CircuitBreaker for    *)
(* every set of workers, every threshold, timeout, cache lifetime and      *)
(* number of attempts; and of RateLimiter for every capacity, refill rate, *)
(* length of a second and set of concurrent requests.                      *)
(***************************************************************************)
EXTENDS CircuitBreaker, RateLimiter, TLAPS

\* Counting a failure and ageing a circuit stay in type.
LEMMA BumpType ==
    ASSUME NEW n \in 0..Threshold
    PROVE  Bump(n) \in 0..Threshold
BY CircuitAssumption DEF Bump

LEMMA OlderType ==
    ASSUME NEW a \in Age
    PROVE  Older(a) \in Age /\ (Older(a) = NotOpened <=> a = NotOpened)
BY CircuitAssumption DEF Older, Age, NotOpened

LEMMA FreshType == Fresh \in Circuit
BY CircuitAssumption DEF Fresh, Circuit, Status, CLOSED, Age, NotOpened

LEMMA IdleType == Idle \in Call
BY FreshType, BreakerAssumption DEF Idle, Call, Pc, Outcome, Status, CLOSED

LEMMA FailedType ==
    ASSUME NEW c \in Circuit
    PROVE  Failed(c) \in Circuit
<1>1. Bump(c.failure_count) \in 0..Threshold
  BY BumpType DEF Circuit
<1>2. 0 \in Age /\ OPEN \in Status
  BY CircuitAssumption DEF Age, Status
<1> QED
  BY <1>1, <1>2 DEF Failed, Circuit

\* A circuit that is not closed has a full count and a time of opening.
Earned(c) == c.status # CLOSED => /\ c.failure_count >= Threshold
                                  /\ c.opened_at # NotOpened

\* What a failure makes of an earned circuit is earned, and open if the
\* circuit was half-open.
LEMMA FailedEarned ==
    ASSUME NEW c \in Circuit, Earned(c)
    PROVE  /\ Earned(Failed(c))
           /\ c.status = HALF_OPEN => Failed(c).status = OPEN
<1>1. c.failure_count >= Threshold => Bump(c.failure_count) >= Threshold
  BY CircuitAssumption DEF Bump, Circuit
<1> QED
  BY <1>1 DEF Failed, Earned, Circuit, Status, NotOpened, CLOSED, OPEN, HALF_OPEN

\* The inductive invariant: the two invariants, one worker at a time, and what
\* keeps the attempts of a call within MAX_ATTEMPTS.
CallInv(c) ==
    /\ Earned(c.state)
    /\ c.pc = "failure_set" /\ c.read = HALF_OPEN => c.state.status = OPEN
    /\ c.pc \in {"set_half_open", "live"} => c.attempt < MAX_ATTEMPTS

IInv ==
    /\ TypeOK
    /\ Earned(circuit)
    /\ \A w \in Workers : CallInv(call[w])

LEMMA IInvImplies == IInv => OpenIsEarned /\ ProbeFailureReopens
BY DEF IInv, CallInv, Earned, OpenIsEarned, ProbeFailureReopens, Copies, At

LEMMA IdleInv == ASSUME NEW o \in Outcome
                 PROVE  /\ [Idle EXCEPT !.outcome = o] \in Call
                        /\ CallInv([Idle EXCEPT !.outcome = o])
BY IdleType DEF Idle, Call, CallInv, Earned, Fresh, CLOSED

LEMMA GetStateInv == IInv => GetState \in Circuit /\ Earned(GetState)
BY FreshType DEF IInv, TypeOK, GetState, Earned, Fresh

LEMMA InitInv == Init => IInv
<1> SUFFICES ASSUME Init PROVE IInv
  OBVIOUS
<1>1. TypeOK
  BY FreshType, IdleType, CircuitAssumption, BreakerAssumption
     DEF Init, TypeOK
<1>2. Earned(Fresh) /\ CallInv(Idle)
  BY BreakerAssumption DEF Earned, Fresh, CallInv, Idle
<1> QED
  BY <1>1, <1>2 DEF Init, IInv

\* A step of w that leaves the circuit or writes an earned one, and leaves w in
\* a good call, preserves the invariant.
LEMMA CallStep ==
    ASSUME IInv, NEW w \in Workers, NEW c \in Call, CallInv(c),
           call' = [call EXCEPT ![w] = c],
           circuit' \in Circuit, Earned(circuit'),
           cache' \in 0..CacheTTL, redisUp' \in BOOLEAN, sourceUp' \in BOOLEAN,
           setting' = setting
    PROVE  IInv'
<1>1. call' \in [Workers -> Call]
  BY DEF IInv, TypeOK
<1>2. \A v \in Workers : CallInv(call'[v])
  BY DEF IInv, TypeOK
<1>3. \A v \in Workers : CallInv(call[v])'
  BY <1>2 DEF CallInv, Earned
<1> QED
  BY <1>1, <1>3 DEF IInv, TypeOK, Earned

\* What SetState leaves in Redis when the written state is earned.
LEMMA SetStateInv ==
    ASSUME IInv, NEW c \in Circuit, Earned(c), SetState(c)
    PROVE  circuit' \in Circuit /\ Earned(circuit')
BY DEF IInv, TypeOK, SetState

\* Every step preserves the invariant.
LEMMA NextInv == IInv /\ [Next]_vars => IInv'
<1> SUFFICES ASSUME IInv, [Next]_vars PROVE IInv'
  OBVIOUS
<1> USE DEF TypeOK
<1>t. TypeOK
  BY DEF IInv
<1>g. GetState \in Circuit /\ Earned(GetState)
  BY GetStateInv
<1>f. Fresh \in Circuit /\ Earned(Fresh)
  BY FreshType DEF Earned, Fresh
<1>c. \A w \in Workers : call[w] \in Call /\ CallInv(call[w])
  BY <1>t DEF IInv
<1>e. circuit \in Circuit /\ Earned(circuit)
  BY <1>t DEF IInv
<1>s. setting' = setting
  BY Zenon DEF Next, Step, Cancel, SourceFlip, RedisFlip, Tick, vars
<1>1. ASSUME NEW w \in Workers, IsOpen(w) PROVE IInv'
  <2>1. ASSUME NEW pc \in Pc \ {"failure_set"}, NEW st \in Circuit, Earned(st),
               Begin(w, pc, GetState.status, st)
        PROVE  IInv'
    <3> DEFINE c == [Idle EXCEPT !.pc = pc, !.read = GetState.status, !.state = st]
    <3>1. c \in Call /\ CallInv(c)
      <4>1. c.pc = pc /\ c.attempt = 0 /\ c.state = st
        BY DEF Idle
      <4>2. c \in Call
        BY <1>g, <2>1, IdleType, Zenon DEF Call, Circuit
      <4> QED
        BY <2>1, <4>1, <4>2, BreakerAssumption DEF CallInv
    <3> QED
      BY <1>s, <1>1, <1>t, <1>e, <2>1, <3>1, CallStep, Zenon DEF IsOpen, Begin
  <2>2. CASE Begin(w, "live", GetState.status, Fresh)
    BY <2>1, <2>2, <1>f DEF Pc
  <2>3. CASE /\ GetState.status = OPEN
             /\ Begin(w, "set_half_open", OPEN,
                      [GetState EXCEPT !.status = HALF_OPEN])
    <3> DEFINE st == [GetState EXCEPT !.status = HALF_OPEN]
    <3>1. st \in Circuit /\ Earned(st)
      BY <1>g, <2>3 DEF Circuit, Earned, Status, OPEN, CLOSED, HALF_OPEN
    <3> QED
      BY <2>1, <2>3, <3>1 DEF Pc
  <2>4. CASE GetState.status = OPEN /\ Begin(w, "serve", OPEN, Fresh)
    BY <2>1, <2>4, <1>f DEF Pc
  <2> QED
    BY <1>1, <2>2, <2>3, <2>4 DEF IsOpen
<1>2. ASSUME NEW w \in Workers, NEW pc \in Pc \ {"failure_set", "set_half_open"},
             Goto(w, pc), pc = "live" => At(w, "set_half_open"),
             circuit' \in Circuit, Earned(circuit'),
             cache' \in 0..CacheTTL,
             UNCHANGED <<redisUp, sourceUp>>
      PROVE  IInv'
  <2> DEFINE c == [call[w] EXCEPT !.pc = pc]
  <2>1. c \in Call /\ CallInv(c)
    <3>1. /\ c \in Call /\ c.pc = pc /\ c.pc # "failure_set"
          /\ c.attempt = call[w].attempt /\ c.state = call[w].state
      BY <1>c, <1>2 DEF Call
    <3>2. c.pc \in {"set_half_open", "live"} => c.attempt < MAX_ATTEMPTS
      BY <1>c, <1>2, <3>1 DEF CallInv, At
    <3> QED
      BY <1>c, <3>1, <3>2 DEF CallInv
  <2>2. call' = [call EXCEPT ![w] = c]
    BY <1>2, <1>t DEF Goto
  <2> QED
    BY <1>s, <1>t, <1>2, <2>1, <2>2, CallStep, Zenon
<1>3. ASSUME NEW w \in Workers, NEW o \in Outcome, Finish(w, o),
             circuit' \in Circuit, Earned(circuit'),
             UNCHANGED <<cache, redisUp, sourceUp>>
      PROVE  IInv'
  BY <1>s, <1>t, <1>3, IdleInv, CallStep, Zenon DEF Finish
<1>4. ASSUME NEW w \in Workers, SetHalfOpen(w) PROVE IInv'
  BY <1>4, <1>2, <1>c, <1>t, SetStateInv DEF SetHalfOpen, Pc, CallInv, Call
<1>5. ASSUME NEW w \in Workers, LiveSuccess(w) PROVE IInv'
  <2> DEFINE c == [call[w] EXCEPT !.pc = "cache_result", !.attempt = @ + 1]
  <2>1. call[w].attempt + 1 \in 0..MAX_ATTEMPTS
    BY <1>c, <1>5, BreakerAssumption DEF LiveSuccess, At, Call, CallInv
  <2>2. c \in Call /\ CallInv(c)
    BY <1>c, <2>1, Zenon DEF Call, CallInv, Pc
  <2>3. call' = [call EXCEPT ![w] = c]
    BY <1>5, <1>t, Zenon DEF LiveSuccess
  <2> QED
    <3>1. /\ circuit' = circuit /\ cache' = cache /\ redisUp' = redisUp
          /\ sourceUp' = sourceUp
      BY <1>5, CircuitAssumption DEF LiveSuccess
    <3> QED
      BY <1>s, <1>t, <1>e, <2>2, <2>3, <3>1, CallStep, Zenon
<1>6. ASSUME NEW w \in Workers, LiveHTTPError(w) PROVE IInv'
  <2> DEFINE a == call[w].attempt + 1
             p == IF a < MAX_ATTEMPTS THEN "live" ELSE "failure_read"
             c == [call[w] EXCEPT !.attempt = a, !.pc = p]
  <2>1. a \in 0..MAX_ATTEMPTS
    BY <1>c, <1>6, BreakerAssumption DEF LiveHTTPError, At, Call, CallInv
  <2>2. c \in Call /\ CallInv(c)
    BY <1>c, <2>1, Zenon DEF Call, CallInv, Pc
  <2>3. call' = [call EXCEPT ![w] = c]
    BY <1>6, <1>t, Zenon DEF LiveHTTPError
  <2> QED
    BY <1>s, <1>t, <1>e, <1>6, <2>2, <2>3, CallStep, Zenon DEF LiveHTTPError
<1>7. ASSUME NEW w \in Workers, LiveOtherError(w) PROVE IInv'
  BY <1>7, <1>3, <1>e DEF LiveOtherError, Outcome
<1>8. ASSUME NEW w \in Workers, CacheResult(w) PROVE IInv'
  BY <1>8, <1>2, <1>e, <1>t, BreakerAssumption DEF CacheResult, Pc
<1>9. ASSUME NEW w \in Workers, NEW pc \in {"success_set", "failure_set"},
             NEW st \in Circuit, Earned(st),
             pc = "failure_set" /\ GetState.status = HALF_OPEN
                 => st.status = OPEN,
             Hold(w, pc, GetState.status, st),
             UNCHANGED <<circuit, cache, redisUp, sourceUp>>
      PROVE  IInv'
  <2> DEFINE c == [call[w] EXCEPT !.pc = pc, !.read = GetState.status,
                                  !.state = st]
  <2>1. c \in Call /\ CallInv(c)
    BY <1>c, <1>g, <1>9, Zenon DEF Call, CallInv, Pc, Circuit
  <2>2. call' = [call EXCEPT ![w] = c]
    BY <1>9, <1>t, Zenon DEF Hold
  <2> QED
    BY <1>s, <1>t, <1>e, <1>9, <2>1, <2>2, CallStep, Zenon
<1>10. ASSUME NEW w \in Workers, RecordSuccess(w) PROVE IInv'
  BY <1>10, <1>9, <1>3, <1>e, <1>f DEF RecordSuccess, Outcome
<1>11. ASSUME NEW w \in Workers, SetSuccess(w) PROVE IInv'
  BY <1>11, <1>3, <1>c, SetStateInv DEF SetSuccess, Outcome, CallInv, Call
<1>12. ASSUME NEW w \in Workers, RecordFailure(w) PROVE IInv'
  BY <1>12, <1>9, <1>g, FailedType, FailedEarned DEF RecordFailure
<1>13. ASSUME NEW w \in Workers, SetFailure(w) PROVE IInv'
  BY <1>13, <1>2, <1>c, <1>t, SetStateInv DEF SetFailure, Pc, CallInv, Call
<1>14. ASSUME NEW w \in Workers, ServeFromCache(w) PROVE IInv'
  BY <1>14, <1>3, <1>e DEF ServeFromCache, Outcome
<1>15. ASSUME NEW w \in Workers, Cancel(w) PROVE IInv'
  BY <1>15, <1>3, <1>e DEF Cancel, Outcome
<1>16. ASSUME SourceFlip \/ RedisFlip \/ UNCHANGED vars PROVE IInv'
  <2>1. UNCHANGED <<circuit, cache, call>> /\ redisUp' \in BOOLEAN
        /\ sourceUp' \in BOOLEAN
    <3>2. CASE SourceFlip
      BY <1>t, <3>2, Zenon DEF SourceFlip
    <3>3. CASE RedisFlip
      BY <1>t, <3>3, Zenon DEF RedisFlip
    <3>4. CASE UNCHANGED vars
      BY <1>t, <3>4, Zenon DEF vars
    <3> QED
      BY <1>16, <3>2, <3>3, <3>4
  <2>2. (\A w \in Workers : CallInv(call[w]))'
    BY <1>c, <2>1 DEF CallInv, Earned
  <2> QED
    BY <1>s, <1>t, <1>e, <2>1, <2>2 DEF IInv, Earned
<1>17. ASSUME Tick PROVE IInv'
  <2>1. circuit' \in Circuit /\ Earned(circuit)'
    BY <1>17, <1>e, OlderType DEF Tick, Circuit, Earned
  <2>2. ASSUME NEW w \in Workers
        PROVE  call'[w] \in Call /\ CallInv(call[w])'
    <3>1. call'[w] = [call[w] EXCEPT !.state.opened_at = Older(@)]
      BY <1>17 DEF Tick
    <3>2. call[w].state \in Circuit
      BY <1>c DEF Call
    <3>3. Older(call[w].state.opened_at) \in Age
          /\ (Older(call[w].state.opened_at) = NotOpened
                <=> call[w].state.opened_at = NotOpened)
      BY <3>2, OlderType DEF Circuit
    <3> QED
      BY <1>c, <3>1, <3>2, <3>3 DEF Call, Circuit, CallInv, Earned
  <2>3. cache' \in 0..CacheTTL
    BY <1>17, <1>t, BreakerAssumption DEF Tick
  <2> QED
    BY <1>s, <1>17, <1>t, <2>1, <2>2, <2>3, Zenon DEF Tick, IInv
<1> QED
  BY <1>1, <1>4, <1>5, <1>6, <1>7, <1>8, <1>10, <1>11, <1>12, <1>13, <1>14,
     <1>15, <1>16, <1>17 DEF Next, Step

\* For every number of workers and every interleaving of their reads, stale
\* writes, cancellations and Redis outages: the circuit only opens on a full
\* count, and a failed probe reopens it.
THEOREM BreakerSafety == Spec => [](TypeOK /\ OpenIsEarned /\ ProbeFailureReopens)
<1>1. IInv => TypeOK
  BY DEF IInv
<1> QED
  BY <1>1, InitInv, NextInv, IInvImplies, PTL DEF Spec

-----------------------------------------------------------------------------
\* The documented machine.  A worker on its own is the only one to write the
\* circuit, so what it holds still fits the value in Redis when it writes:
\* HeldIn says so for every await between the read and the write, for the value
\* k.
FailedFrom(s, k) ==
    /\ s.failure_count = Bump(k.failure_count)
    /\ IF s.failure_count >= Threshold
       THEN s.status = OPEN /\ s.opened_at \in 0..HalfOpenTimeout
       ELSE s.status = k.status /\ s.opened_at = k.opened_at

HeldIn(c, k) ==
    /\ c.pc = "set_half_open" =>
           /\ k.status = OPEN /\ k.opened_at >= HalfOpenTimeout
           /\ c.state = [k EXCEPT !.status = HALF_OPEN]
    /\ c.pc \in {"live", "cache_result", "success_read", "success_set",
                 "failure_read", "failure_set"} => k.status # OPEN
    /\ c.pc = "success_set" => c.state = Fresh
    /\ c.pc = "failure_set" => FailedFrom(c.state, k)

AloneInv ==
    Alone =>
      /\ redisUp
      /\ \A w \in Workers : HeldIn(call[w], circuit)
      /\ \A w \in Workers \ setting.workers : At(w, "idle")

\* One step of the documented machine from k to l.
MachineStep(k, l) ==
    \/ /\ k.status # OPEN /\ l.failure_count = Bump(k.failure_count)
       /\ IF k.status = HALF_OPEN \/ l.failure_count >= Threshold
          THEN l.status = OPEN /\ l.opened_at \in 0..HalfOpenTimeout
          ELSE l.status = k.status /\ l.opened_at = k.opened_at
    \/ k.status # OPEN /\ l = Fresh
    \/ /\ k.status = OPEN /\ k.opened_at >= HalfOpenTimeout
       /\ l = [k EXCEPT !.status = HALF_OPEN]
    \/ l = [k EXCEPT !.opened_at = Older(@)]
    \/ l = k

LEMMA InitAlone == Init => AloneInv
BY DEF Init, AloneInv, HeldIn, At, Idle

\* A step of the worker on its own that leaves it with a fitting call.
LEMMA AloneCall ==
    ASSUME IInv, AloneInv, Alone, NEW u \in Workers, setting.workers = {u},
           NEW c, call' = [call EXCEPT ![u] = c],
           UNCHANGED <<redisUp, setting>>,
           HeldIn(c, circuit')
    PROVE  AloneInv'
<1>1. call'[u] = c /\ \A v \in Workers \ {u} : call'[v] = call[v]
  BY DEF IInv, TypeOK
<1>2. \A v \in Workers \ {u} : call[v].pc = "idle"
  BY DEF AloneInv, At
<1>3. \A v \in Workers \ {u} : HeldIn(call'[v], circuit')
  BY <1>1, <1>2 DEF HeldIn
<1>4. \A v \in Workers : HeldIn(call'[v], circuit')
  BY <1>1, <1>3
<1>5. \A v \in Workers \ setting'.workers : call'[v].pc = "idle"
  BY <1>1, <1>2
<1> QED
  BY <1>4, <1>5 DEF AloneInv, At

LEMMA AloneStep ==
    ASSUME IInv, AloneInv, Alone, NEW w \in Workers, Step(w) \/ Cancel(w)
    PROVE  AloneInv' /\ MachineStep(circuit, circuit')
<1>0. PICK u \in Workers : setting.workers = {u}
  BY DEF Alone
<1>1. w = u
  <2>1. CASE At(w, "idle")
    BY <1>0, <2>1 DEF Step, Cancel, At, IsOpen, SetHalfOpen, LiveSuccess, LiveHTTPError,
       LiveOtherError, CacheResult, RecordSuccess, SetSuccess, RecordFailure, SetFailure,
       ServeFromCache
  <2>2. CASE ~At(w, "idle")
    BY <1>0, <2>2 DEF AloneInv
  <2> QED
    BY <2>1, <2>2
<1>t. /\ circuit \in Circuit /\ Earned(circuit) /\ call[w] \in Call /\ CallInv(call[w])
      /\ call \in [Workers -> Call] /\ redisUp /\ HeldIn(call[w], circuit)
      /\ setting' = setting /\ GetState = circuit
  BY Zenon DEF IInv, TypeOK, AloneInv, Step, Cancel, GetState
\* A step that writes nothing and ends in the call c.
<1>q. ASSUME NEW c, call' = [call EXCEPT ![w] = c], UNCHANGED <<circuit, redisUp>>,
             HeldIn(c, circuit)
      PROVE  AloneInv' /\ MachineStep(circuit, circuit')
  BY <1>0, <1>1, <1>q, <1>t, AloneCall, Zenon DEF MachineStep
<1>f. ASSUME NEW o, Finish(w, o), UNCHANGED <<circuit, redisUp>>
      PROVE  AloneInv' /\ MachineStep(circuit, circuit')
  <2> DEFINE c == [Idle EXCEPT !.outcome = o]
  <2>1. HeldIn(c, circuit)
    BY DEF HeldIn, Idle
  <2>2. call' = [call EXCEPT ![w] = c]
    BY <1>f DEF Finish
  <2> QED
    BY <1>f, <1>q, <2>1, <2>2, Zenon
<1>2. CASE IsOpen(w)
  <2>a. circuit.status = OPEN => circuit.opened_at # NotOpened
    BY <1>t DEF Earned, OPEN, CLOSED
  <2>b. UNCHANGED <<circuit, redisUp>>
    BY <1>2 DEF IsOpen
  <2>1. CASE circuit.status # OPEN /\ Begin(w, "live", circuit.status, Fresh)
    <3> DEFINE c == [Idle EXCEPT !.pc = "live", !.read = circuit.status, !.state = Fresh]
    <3>1. HeldIn(c, circuit)
      BY <2>1 DEF HeldIn, Idle
    <3> QED
      BY <1>q, <2>1, <2>b, <3>1, Zenon DEF Begin
  <2>2. CASE /\ circuit.status = OPEN /\ circuit.opened_at >= HalfOpenTimeout
             /\ Begin(w, "set_half_open", OPEN, [circuit EXCEPT !.status = HALF_OPEN])
    <3> DEFINE c == [Idle EXCEPT !.pc = "set_half_open", !.read = OPEN,
                                 !.state = [circuit EXCEPT !.status = HALF_OPEN]]
    <3>1. HeldIn(c, circuit)
      BY <2>2 DEF HeldIn, Idle
    <3> QED
      BY <1>q, <2>2, <2>b, <3>1, Zenon DEF Begin
  <2>3. CASE Begin(w, "serve", OPEN, Fresh)
    <3> DEFINE c == [Idle EXCEPT !.pc = "serve", !.read = OPEN, !.state = Fresh]
    <3>1. HeldIn(c, circuit)
      BY DEF HeldIn, Idle
    <3> QED
      BY <1>q, <2>3, <2>b, <3>1, Zenon DEF Begin
  <2> QED
    BY <1>2, <1>t, <2>a, <2>1, <2>2, <2>3 DEF IsOpen
<1>3. CASE SetHalfOpen(w)
  <2> DEFINE c == [call[w] EXCEPT !.pc = "live"]
  <2>1. /\ circuit.status = OPEN /\ circuit.opened_at >= HalfOpenTimeout
        /\ circuit' = [circuit EXCEPT !.status = HALF_OPEN]
    BY <1>3, <1>t DEF SetHalfOpen, At, HeldIn, SetState
  <2>2. c.pc = "live" /\ circuit'.status # OPEN
    BY <1>t, <2>1 DEF Call, Circuit, OPEN, HALF_OPEN
  <2>3. HeldIn(c, circuit')
    BY <2>2 DEF HeldIn
  <2>4. call' = [call EXCEPT ![w] = c] /\ redisUp' = redisUp
    BY <1>3, <1>t DEF SetHalfOpen, Goto
  <2> QED
    BY <1>0, <1>1, <1>t, <2>1, <2>3, <2>4, AloneCall, Zenon DEF MachineStep
<1>4. CASE LiveSuccess(w)
  <2> DEFINE c == [call[w] EXCEPT !.pc = "cache_result", !.attempt = @ + 1]
  <2>1. HeldIn(c, circuit)
    BY <1>4, <1>t DEF LiveSuccess, At, HeldIn, Call
  <2> QED
    BY <1>4, <1>q, <1>t, <2>1, Zenon DEF LiveSuccess
<1>5. CASE LiveHTTPError(w)
  <2> DEFINE p == IF call[w].attempt + 1 < MAX_ATTEMPTS THEN "live" ELSE "failure_read"
             c == [call[w] EXCEPT !.attempt = call[w].attempt + 1, !.pc = p]
  <2>1. p \in {"live", "failure_read"}
    OBVIOUS
  <2>2. call' = [call EXCEPT ![w] = c] /\ UNCHANGED <<circuit, redisUp>>
    BY <1>5, <1>t, Zenon DEF LiveHTTPError
  <2> HIDE DEF p
  <2>3. HeldIn(c, circuit)
    BY <1>5, <1>t, <2>1 DEF LiveHTTPError, At, HeldIn, Call
  <2> QED
    BY <1>q, <2>2, <2>3, Zenon
<1>6. CASE LiveOtherError(w)
  BY <1>6, <1>f DEF LiveOtherError
<1>7. CASE CacheResult(w)
  <2> DEFINE c == [call[w] EXCEPT !.pc = "success_read"]
  <2>1. HeldIn(c, circuit)
    BY <1>7, <1>t DEF CacheResult, At, HeldIn, Call
  <2> QED
    BY <1>7, <1>q, <1>t, <2>1, Zenon DEF CacheResult, Goto
<1>8. CASE RecordSuccess(w)
  <2>1. CASE Hold(w, "success_set", circuit.status, Fresh)
    <3> DEFINE c == [call[w] EXCEPT !.pc = "success_set", !.read = circuit.status,
                                    !.state = Fresh]
    <3>1. HeldIn(c, circuit)
      BY <1>8, <1>t DEF RecordSuccess, At, HeldIn, Call
    <3> QED
      BY <1>8, <1>q, <1>t, <2>1, <3>1, Zenon DEF RecordSuccess, Hold
  <2>2. CASE Finish(w, "live")
    BY <1>8, <1>f, <2>2 DEF RecordSuccess
  <2> QED
    BY <1>8, <1>t, <2>1, <2>2 DEF RecordSuccess
<1>9. CASE SetSuccess(w)
  <2>1. circuit' = Fresh /\ circuit.status # OPEN
    BY <1>9, <1>t DEF SetSuccess, At, HeldIn, SetState
  <2> DEFINE c == [Idle EXCEPT !.outcome = "live"]
  <2>2. redisUp' = redisUp /\ call' = [call EXCEPT ![w] = c]
    BY <1>9 DEF SetSuccess, Finish
  <2>3. HeldIn(c, circuit')
    BY DEF HeldIn, Idle
  <2>4. AloneInv'
    BY <1>0, <1>1, <1>t, <2>2, <2>3, AloneCall, Zenon
  <2> QED
    BY <2>1, <2>4 DEF MachineStep
<1>10. CASE RecordFailure(w)
  <2> DEFINE c == [call[w] EXCEPT !.pc = "failure_set", !.read = circuit.status,
                                  !.state = Failed(circuit)]
  <2>1. circuit.status # OPEN
    BY <1>10, <1>t DEF RecordFailure, At, HeldIn
  <2>2. FailedFrom(Failed(circuit), circuit)
    <3>1. Bump(circuit.failure_count) \in 0..Threshold /\ circuit.failure_count \in 0..Threshold
      BY <1>t, BumpType DEF Circuit
    <3>2. circuit.status \in {CLOSED, HALF_OPEN}
      BY <1>t, <2>1 DEF Circuit, Status
    <3>3. 0 \in 0..HalfOpenTimeout
      BY CircuitAssumption
    <3> HIDE DEF c
    <3> QED
      BY <1>t, <3>1, <3>2, <3>3 DEF Failed, FailedFrom, Circuit
  <2>3. c.pc = "failure_set" /\ c.state = Failed(circuit)
    BY <1>t DEF Call
  <2>4. HeldIn(c, circuit)
    BY <2>1, <2>2, <2>3 DEF HeldIn
  <2> QED
    BY <1>10, <1>q, <1>t, <2>4, Zenon DEF RecordFailure, Hold
<1>11. CASE SetFailure(w)
  <2> DEFINE c == [call[w] EXCEPT !.pc = "serve"]
  <2>1. circuit' = call[w].state /\ circuit.status # OPEN /\ FailedFrom(circuit', circuit)
    BY <1>11, <1>t DEF SetFailure, At, HeldIn, SetState
  <2>2. circuit.status = HALF_OPEN => circuit'.failure_count >= Threshold
    BY <1>t, <2>1, CircuitAssumption DEF FailedFrom, Earned, Circuit, HALF_OPEN, CLOSED, Bump
  <2>3. MachineStep(circuit, circuit')
    BY <2>1, <2>2 DEF MachineStep, FailedFrom
  <2>4. HeldIn(c, circuit')
    BY <1>t DEF Call, HeldIn
  <2>5. call' = [call EXCEPT ![w] = c] /\ redisUp' = redisUp
    BY <1>11, <1>t DEF SetFailure, Goto
  <2> QED
    BY <1>0, <1>1, <1>t, <2>3, <2>4, <2>5, AloneCall, Zenon
<1>12. CASE ServeFromCache(w)
  BY <1>12, <1>f DEF ServeFromCache
<1>13. CASE Cancel(w)
  BY <1>13, <1>f DEF Cancel
<1> QED
  BY <1>2, <1>3, <1>4, <1>5, <1>6, <1>7, <1>8, <1>9, <1>10, <1>11, <1>12, <1>13 DEF Step

\* The clock ages what is held as it ages the value in Redis.
LEMMA AloneTick ==
    ASSUME IInv, AloneInv, Alone, Tick
    PROVE  AloneInv' /\ MachineStep(circuit, circuit')
<1>1. circuit' = [circuit EXCEPT !.opened_at = Older(@)]
  BY DEF Tick
<1>2. circuit \in Circuit /\ Earned(circuit)
  BY DEF IInv, TypeOK
<1>3. ASSUME NEW w \in Workers
      PROVE  call'[w].pc = call[w].pc /\ HeldIn(call'[w], circuit')
  <2>1. call[w] \in Call /\ HeldIn(call[w], circuit)
    BY DEF IInv, TypeOK, AloneInv
  <2> DEFINE s == call[w].state
             t == [s EXCEPT !.opened_at = Older(s.opened_at)]
  <2>2. call'[w] = [call[w] EXCEPT !.state = t]
    BY <2>1 DEF Tick, Call, Circuit
  <2>3. call'[w].pc = call[w].pc /\ call'[w].state = t
    BY <2>1, <2>2 DEF Call
  <2>4. s \in Circuit
    BY <2>1 DEF Call
  <2>5. /\ circuit'.status = circuit.status /\ circuit'.failure_count = circuit.failure_count
        /\ circuit'.opened_at = Older(circuit.opened_at)
    BY <1>1, <1>2 DEF Circuit
  <2>6. /\ t.status = s.status /\ t.failure_count = s.failure_count
        /\ t.opened_at = Older(s.opened_at)
    BY <2>4 DEF Circuit
  <2>7. ASSUME call[w].pc = "set_half_open"
        PROVE  /\ circuit'.status = OPEN /\ circuit'.opened_at >= HalfOpenTimeout
               /\ t = [circuit' EXCEPT !.status = HALF_OPEN]
    <3>1. /\ circuit.status = OPEN /\ circuit.opened_at >= HalfOpenTimeout
          /\ s = [circuit EXCEPT !.status = HALF_OPEN]
      BY <2>1, <2>7 DEF HeldIn
    <3>2. Older(circuit.opened_at) >= HalfOpenTimeout
      BY <1>2, <3>1, CircuitAssumption DEF Older, Circuit, Age, NotOpened
    <3>3. t = [circuit' EXCEPT !.status = HALF_OPEN]
      BY <1>1, <1>2, <3>1, Zenon DEF Circuit
    <3> QED
      BY <2>5, <3>1, <3>2, <3>3
  <2>8. ASSUME call[w].pc = "success_set" PROVE t = Fresh
    <3>1. s = Fresh
      BY <2>1, <2>8 DEF HeldIn
    <3>2. Older(NotOpened) = NotOpened
      BY CircuitAssumption DEF Older, NotOpened
    <3> QED
      BY <3>1, <3>2 DEF Fresh
  <2>9. ASSUME call[w].pc = "failure_set" PROVE FailedFrom(t, circuit')
    <3>1. FailedFrom(s, circuit)
      BY <2>1, <2>9 DEF HeldIn
    <3>2. s.opened_at \in 0..HalfOpenTimeout => Older(s.opened_at) \in 0..HalfOpenTimeout
      BY CircuitAssumption DEF Older
    <3> HIDE DEF s, t
    <3> QED
      BY <2>5, <2>6, <3>1, <3>2 DEF FailedFrom
  <2> HIDE DEF s, t
  <2> QED
    BY <2>1, <2>3, <2>5, <2>7, <2>8, <2>9 DEF HeldIn
<1>4. AloneInv'
  BY <1>3, Zenon DEF AloneInv, Alone, At, Tick
<1> QED
  BY <1>1, <1>4 DEF MachineStep

\* For every threshold and timeout, a worker on its own moves the value in Redis
\* only as the header of circuit_breaker.py documents, although it reads and
\* writes it at different awaits and may be cancelled between them.
THEOREM BreakerImplementsMachine == Spec => ImplementsDocumentedMachine
<1> DEFINE shown == <<Seen.status, Seen.failure_count, Seen.opened_at>>
<1>1. Init => Documented!MachineInit
  BY DEF Init, Seen, Fresh, Documented!MachineInit, Documented!NotOpened, NotOpened,
     Documented!CLOSED, CLOSED
<1>2. ASSUME IInv, AloneInv, [Next]_vars
      PROVE  AloneInv' /\ setting' = setting /\ (Alone => MachineStep(circuit, circuit'))
  <2>1. setting' = setting
    BY <1>2, Zenon DEF Next, Step, Cancel, SourceFlip, RedisFlip, Tick, vars
  <2>2. CASE ~Alone
    BY <2>1, <2>2 DEF AloneInv, Alone
  <2>3. CASE Alone /\ \E w \in Workers : Step(w) \/ Cancel(w)
    BY <1>2, <2>1, <2>3, AloneStep
  <2>4. CASE Alone /\ Tick
    BY <1>2, <2>1, <2>4, AloneTick
  <2>5. CASE Alone /\ (SourceFlip \/ RedisFlip \/ UNCHANGED vars)
    <3>1. UNCHANGED <<circuit, call, redisUp>>
      BY <2>5 DEF SourceFlip, RedisFlip, Alone, vars
    <3> QED
      BY <1>2, <2>1, <2>5, <3>1 DEF AloneInv, Alone, At, HeldIn, FailedFrom, MachineStep
  <2> QED
    BY <1>2, <2>2, <2>3, <2>4, <2>5 DEF Next
<1>3. ASSUME IInv, AloneInv, [Next]_vars
      PROVE  [Documented!MachineNext]_shown
  <2>1. CASE ~Alone
    BY <1>2, <1>3, <2>1 DEF Seen, Alone
  <2>2. CASE Alone
    <3>1. /\ Seen = circuit /\ Seen' = circuit' /\ MachineStep(circuit, circuit')
          /\ circuit \in Circuit
      BY <1>2, <1>3, <2>2 DEF Seen, Alone, IInv, TypeOK
    <3> USE DEF Documented!OPEN, Documented!CLOSED, Documented!HALF_OPEN,
        Documented!NotOpened, Documented!Older, Documented!Bump, OPEN, CLOSED, HALF_OPEN,
        NotOpened, Older, Bump
    <3>2. circuit.status \in {"closed", "open", "half-open"}
      BY <3>1 DEF Circuit, Status
    <3>3. CASE circuit.status # OPEN /\ circuit' = Fresh
      BY <3>1, <3>2, <3>3 DEF Documented!MachineNext, Documented!Succeed, Fresh
    <3>4. CASE circuit' = circuit
      BY <3>1, <3>4
    <3>5. CASE circuit' = [circuit EXCEPT !.opened_at = Older(@)]
      BY <3>1, <3>5 DEF Documented!MachineNext, Documented!Wait, Circuit
    <3>6. CASE /\ circuit.status = OPEN /\ circuit.opened_at >= HalfOpenTimeout
               /\ circuit' = [circuit EXCEPT !.status = HALF_OPEN]
      BY <3>1, <3>6 DEF Documented!MachineNext, Documented!Elapse, Circuit
    <3>7. CASE /\ circuit.status # OPEN /\ circuit'.failure_count = Bump(circuit.failure_count)
               /\ IF circuit.status = HALF_OPEN \/ circuit'.failure_count >= Threshold
                  THEN circuit'.status = OPEN /\ circuit'.opened_at \in 0..HalfOpenTimeout
                  ELSE circuit'.status = circuit.status /\ circuit'.opened_at = circuit.opened_at
      BY <3>1, <3>2, <3>7 DEF Documented!MachineNext, Documented!Fail
    <3> QED
      BY <3>1, <3>3, <3>4, <3>5, <3>6, <3>7 DEF MachineStep
  <2> QED
    BY <2>1, <2>2
<1>4. AloneInv /\ IInv /\ [Next]_vars => AloneInv'
  BY <1>2
<1>5. AloneInv /\ IInv /\ [Next]_vars => [Documented!MachineNext]_shown
  BY <1>3
<1> QED
  BY InitInv, NextInv, InitAlone, <1>1, <1>4, <1>5, PTL
     DEF Spec, ImplementsDocumentedMachine, Documented!MachineSpec, Documented!machineVars

-----------------------------------------------------------------------------
(* The rate limiter.  A caller never draws more than burst, refill and the
   staleness of the readings its tokens were granted on. *)

LEMMA FullNat == Full \in Nat /\ Full >= TokenTicks
<1>1. \A a, b \in Nat \ {0} : a * b \in Nat /\ a * b >= b
  OBVIOUS
<1> QED
  BY <1>1, LimiterAssumption DEF Full

\* Rounding up to whole seconds never shortens a time.
LEMMA CeilBound ==
    ASSUME NEW n \in Nat
    PROVE  CeilSeconds(n) \in Nat /\ CeilSeconds(n) >= n
<1> DEFINE S == SecondTicks
           q == (n + S - 1) \div S
<1>1. S \in Nat /\ S > 0
  BY LimiterAssumption
<1>2. /\ q \in Int /\ (n + S - 1) % S \in 0..(S - 1)
      /\ n + S - 1 = S * q + ((n + S - 1) % S)
  BY <1>1
<1>3. S * q >= n /\ q * S = S * q
  BY <1>1, <1>2
<1>4. q * S \in Int
  BY <1>1, <1>2
<1> QED
  BY <1>3, <1>4 DEF CeilSeconds

LEMMA CeilMonotone ==
    ASSUME NEW n \in Nat, NEW m \in Nat, n <= m
    PROVE  CeilSeconds(n) <= CeilSeconds(m)
<1> DEFINE S == SecondTicks
           p == (n + S - 1) \div S
           q == (m + S - 1) \div S
<1>1. S \in Nat /\ S > 0
  BY LimiterAssumption
<1>2. /\ p \in Int /\ (n + S - 1) % S \in 0..(S - 1)
      /\ n + S - 1 = S * p + ((n + S - 1) % S)
  BY <1>1
<1>3. /\ q \in Int /\ (m + S - 1) % S \in 0..(S - 1)
      /\ m + S - 1 = S * q + ((m + S - 1) % S)
  BY <1>1
<1>4. \A a, b \in Int : a <= b => a * S <= b * S
  BY <1>1
<1>5. p <= q
  <2> SUFFICES ASSUME q + 1 <= p PROVE FALSE
    BY <1>2, <1>3
  <2>1. (q + 1) * S <= p * S
    BY <1>2, <1>3, <1>4
  <2>2. (q + 1) * S = S * q + S /\ p * S = S * p
    BY <1>1, <1>2, <1>3
  <2> HIDE DEF p, q
  <2>3. S * q \in Int /\ S * p \in Int
    BY <1>1, <1>2, <1>3
  <2> QED
    BY <1>1, <1>2, <1>3, <2>1, <2>2, <2>3
<1> QED
  BY <1>2, <1>3, <1>4, <1>5 DEF CeilSeconds

\* The ideal level covers what the bucket would grant now; a key that is gone
\* was gone only after the ideal level was full again.
Covered ==
    /\ ideal >= 0
    /\ bucket.ttl = 0 => ideal = Full
    /\ bucket.ttl > 0 => /\ ideal >= CapTo(bucket.tokens + bucket.age, Full)
                         /\ bucket.age + bucket.ttl >= Full

LimiterInv == LimiterTypeOK /\ Covered

LEMMA LimiterInitInv == LimiterInit => LimiterInv
<1> SUFFICES ASSUME LimiterInit PROVE LimiterInv
  OBVIOUS
<1>1. LimiterTypeOK
  <2>1. Ttl \in Nat /\ MaxWait \in Nat
    BY CeilBound, FullNat, LimiterAssumption DEF Ttl, MaxWait
  <2>2. NoRequest \in [pc: LimiterPc, lag: 0..MaxLag, outcome: Verdict]
    BY LimiterAssumption DEF NoRequest, LimiterPc, Verdict
  <2> QED
    <3>1. bucket \in [tokens: 0..Full, age: 0..MaxAge, ttl: 0..Ttl]
      BY <2>1, FullNat, LimiterAssumption DEF LimiterInit, Absent, MaxAge
    <3>2. refusal \in [wait: 0..MaxWait, age: 0..(MaxWait + MaxLag)]
      BY <2>1, LimiterAssumption DEF LimiterInit, NoRefusal
    <3>3. req \in [Requests -> [pc: LimiterPc, lag: 0..MaxLag, outcome: Verdict]]
      BY <2>2 DEF LimiterInit
    <3>4. ideal \in Overdrawn..Full
      BY FullNat DEF LimiterInit, Overdrawn
    <3>5. sha \in BOOLEAN
      BY Zenon DEF LimiterInit
    <3> QED
      BY <3>1, <3>2, <3>3, <3>4, <3>5 DEF LimiterTypeOK
<1>2. Covered
  BY FullNat DEF LimiterInit, Covered, Absent
<1> QED
  BY <1>1, <1>2 DEF LimiterInv

\* What the script finds by a clock reading of any age, the exact bucket has.
LEMMA RefilledCovered ==
    ASSUME LimiterInv, NEW lag \in 0..MaxLag
    PROVE  Refilled(lag) \in 0..Full /\ Refilled(lag) <= ideal
BY FullNat, LimiterAssumption
   DEF LimiterInv, LimiterTypeOK, Covered, Refilled, Elapsed, CapTo, MaxAge

LEMMA TakeTokenInv ==
    ASSUME LimiterInv, NEW lag \in 0..MaxLag, TakeToken(lag),
           req' \in [Requests -> [pc: LimiterPc, lag: 0..MaxLag, outcome: Verdict]],
           sha' \in BOOLEAN
    PROVE  LimiterInv'
<1> DEFINE n == Refilled(lag) - TokenTicks
<1>1. /\ TokenTicks \in Nat /\ TokenTicks > 0 /\ Full \in Nat /\ MaxLag \in Nat
      /\ ideal \in 0..Full /\ lag \in 0..MaxLag
  BY FullNat, LimiterAssumption DEF LimiterInv, LimiterTypeOK, Covered, Overdrawn
<1>2. n \in 0..Full /\ ideal - TokenTicks >= n
  BY <1>1, RefilledCovered DEF TakeToken, Allowed
<1>3. ideal' = CapTo(ideal + lag - TokenTicks, Full)
  <2>1. ideal # Overdrawn /\ ~(ideal + lag - TokenTicks < 0)
    BY <1>1, <1>2 DEF Overdrawn
  <2> QED
    BY <2>1 DEF TakeToken, Drawn
<1>4. Ttl \in Nat /\ Ttl >= Full /\ MaxWait \in Nat
  BY <1>1, CeilBound DEF Ttl, MaxWait
<1>5. bucket' = [tokens |-> n, age |-> lag, ttl |-> Ttl]
  BY DEF TakeToken
<1>6. refusal' \in [wait: 0..MaxWait, age: 0..(MaxWait + MaxLag)]
  BY <1>1, <1>4 DEF TakeToken, NoRefusal
<1> HIDE DEF n
<1>7. bucket' \in [tokens: 0..Full, age: 0..MaxAge, ttl: 0..Ttl]
  BY <1>1, <1>2, <1>4, <1>5 DEF MaxAge
<1>8. ideal' \in 0..Full /\ ideal' >= CapTo(n + lag, Full)
  BY <1>1, <1>2, <1>3 DEF CapTo
<1>9. Covered'
  <2>1. /\ bucket'.ttl = Ttl /\ bucket'.age = lag /\ bucket'.tokens = n
    BY <1>5
  <2>2. Ttl > 0
    BY <1>1, <1>4, FullNat
  <2> QED
    BY <1>1, <1>4, <1>8, <2>1, <2>2 DEF Covered, CapTo
<1>10. ideal' \in Overdrawn..Full
  BY <1>1, <1>8 DEF Overdrawn
<1> QED
  BY <1>6, <1>7, <1>9, <1>10 DEF LimiterInv, LimiterTypeOK

LEMMA LimiterNextInv == LimiterInv /\ [LimiterNext]_limiterVars => LimiterInv'
<1> SUFFICES ASSUME LimiterInv, [LimiterNext]_limiterVars PROVE LimiterInv'
  OBVIOUS
<1> DEFINE Req == [pc: LimiterPc, lag: 0..MaxLag, outcome: Verdict]
<1>t. /\ LimiterTypeOK /\ Covered
      /\ TokenTicks \in Nat /\ TokenTicks > 0 /\ Full \in Nat
      /\ Ttl \in Nat /\ MaxWait \in Nat
      /\ req \in [Requests -> Req]
  BY CeilBound, FullNat, LimiterAssumption DEF LimiterInv, LimiterTypeOK, Ttl, MaxWait
<1>l. \A r \in Requests : req[r] \in Req /\ req[r].lag \in 0..MaxLag
  BY <1>t
<1>1. ASSUME NEW r \in Requests, NEW pc \in LimiterPc, ReqGoto(r, pc)
      PROVE  req' \in [Requests -> Req]
  BY <1>1, <1>t, <1>l DEF ReqGoto
<1>2. ASSUME NEW r \in Requests, NEW o \in Verdict, Answer(r, o)
      PROVE  req' \in [Requests -> Req]
  <2>1. [NoRequest EXCEPT !.outcome = o] \in Req
    BY LimiterAssumption DEF NoRequest, LimiterPc
  <2> QED
    BY <1>2, <1>t, <2>1 DEF Answer
<1>3. ASSUME req' \in [Requests -> Req], sha' \in BOOLEAN,
             UNCHANGED <<bucket, ideal>>,
             refusal' \in [wait: 0..MaxWait, age: 0..(MaxWait + MaxLag)]
      PROVE  LimiterInv'
  BY <1>3, <1>t DEF LimiterInv, LimiterTypeOK, Covered, CapTo
<1>4. ASSUME NEW lag \in 0..MaxLag, RefuseToken(lag)
      PROVE  /\ UNCHANGED <<bucket, ideal>>
             /\ refusal' \in [wait: 0..MaxWait, age: 0..(MaxWait + MaxLag)]
  <2> DEFINE short == TokenTicks - Refilled(lag)
  <2>1. short \in 1..TokenTicks
    BY <1>4, <1>t, RefilledCovered DEF RefuseToken, Allowed
  <2>2. CeilSeconds(short) \in 0..MaxWait
    BY <1>t, <2>1, CeilBound, CeilMonotone DEF MaxWait
  <2>3. SecondTicks \in 0..MaxWait
    <3>1. CeilSeconds(1) = SecondTicks
      BY LimiterAssumption DEF CeilSeconds
    <3> QED
      BY <1>t, <3>1, CeilMonotone, LimiterAssumption DEF MaxWait
  <2> QED
    BY <1>4, <1>t, <2>2, <2>3, LimiterAssumption DEF RefuseToken
<1>5. ASSUME NEW r \in Requests, RunScript(r), UNCHANGED sha PROVE LimiterInv'
  <2>1. CASE TakeToken(req[r].lag) /\ Answer(r, "admitted")
    BY <2>1, <1>t, <1>l, <1>5, <1>2, TakeTokenInv DEF Verdict, LimiterTypeOK
  <2>2. CASE RefuseToken(req[r].lag) /\ Answer(r, "refused")
    BY <2>2, <1>t, <1>l, <1>5, <1>2, <1>3, <1>4 DEF Verdict, LimiterTypeOK
  <2> QED
    BY <1>5, <2>1, <2>2 DEF RunScript
<1>6. ASSUME NEW r \in Requests, req' \in [Requests -> Req], UNCHANGED sha,
             \/ UNCHANGED <<bucket, ideal, refusal>>
             \/ ScriptUnheard(r)
      PROVE  LimiterInv'
  BY <1>6, <1>t, <1>l, <1>3, TakeTokenInv DEF ScriptUnheard, LimiterTypeOK
<1>7. ASSUME NEW r \in Requests, Check(r) PROVE LimiterInv'
  <2> DEFINE q == [NoRequest EXCEPT !.pc = IF sha THEN "evalsha" ELSE "load"]
  <2>1. q \in Req
    BY LimiterAssumption DEF NoRequest, LimiterPc, Verdict
  <2>2. req' \in [Requests -> Req]
    BY <1>7, <1>t, <2>1 DEF Check
  <2> QED
    BY <1>7, <1>t, <2>2, <1>3 DEF Check, LimiterTypeOK
<1>8. ASSUME NEW r \in Requests, ScriptLoad(r) PROVE LimiterInv'
  BY <1>8, <1>t, <1>1, <1>3 DEF ScriptLoad, LimiterTypeOK, LimiterPc
<1>9. ASSUME NEW r \in Requests, EvalSha(r) \/ Eval(r) PROVE LimiterInv'
  BY <1>9, <1>5 DEF EvalSha, Eval
<1>10. ASSUME NEW r \in Requests, EvalShaError(r) PROVE LimiterInv'
  BY <1>10, <1>1, <1>6 DEF EvalShaError, LimiterPc
<1>11. ASSUME NEW r \in Requests, FailOpen(r) PROVE LimiterInv'
  BY <1>11, <1>2, <1>6 DEF FailOpen, Verdict
<1>12. ASSUME LimiterTick PROVE LimiterInv'
  <2>1. req' \in [Requests -> Req]
    <3>1. \A r \in Requests : Busy(r) => req[r].lag + 1 \in 0..MaxLag
      BY <1>12, <1>l, LimiterAssumption DEF LimiterTick
    <3> QED
      BY <1>12, <1>t, <1>l, <3>1 DEF LimiterTick
  <2>2. refusal' \in [wait: 0..MaxWait, age: 0..(MaxWait + MaxLag)]
    BY <1>12, <1>t, LimiterAssumption DEF LimiterTick, LimiterTypeOK, CapTo
  <2>3. bucket' \in [tokens: 0..Full, age: 0..MaxAge, ttl: 0..Ttl]
    <3>1. /\ bucket \in [tokens: 0..Full, age: 0..MaxAge, ttl: 0..Ttl]
          /\ MaxAge \in Nat /\ MaxAge >= Full
      BY <1>t, LimiterAssumption DEF LimiterTypeOK, MaxAge
    <3>2. CASE bucket.ttl <= 1
      BY <1>12, <1>t, <3>1, <3>2 DEF LimiterTick, Absent
    <3>3. CASE ~(bucket.ttl <= 1)
      <4>1. /\ CapTo(bucket.age + 1, MaxAge) \in 0..MaxAge
            /\ bucket.ttl - 1 \in 0..Ttl
        BY <1>t, <3>1, <3>3 DEF CapTo
      <4>2. bucket' = [bucket EXCEPT !.age = CapTo(bucket.age + 1, MaxAge),
                                     !.ttl = bucket.ttl - 1]
        BY <1>12, <3>3 DEF LimiterTick
      <4> QED
        BY <3>1, <4>1, <4>2, Zenon
    <3> QED
      BY <3>2, <3>3
  <2>4. ideal' \in 0..Full /\ ideal' = CapTo(ideal + 1, Full)
    BY <1>12, <1>t DEF LimiterTick, LimiterTypeOK, CapTo, Covered, Overdrawn
  <2>5. Covered'
    <3>1. CASE bucket.ttl <= 1
      <4>1. bucket' = Absent
        BY <1>12, <3>1 DEF LimiterTick
      <4>2. ideal' = Full
        BY <1>t, <2>4, <3>1, LimiterAssumption DEF LimiterTypeOK, Covered, CapTo, MaxAge
      <4> QED
        BY <1>t, <4>1, <4>2 DEF Covered, Absent
    <3>2. CASE bucket.ttl > 1
      <4>1. /\ bucket'.tokens = bucket.tokens
            /\ bucket'.age = CapTo(bucket.age + 1, MaxAge)
            /\ bucket'.ttl = bucket.ttl - 1
        BY <1>12, <1>t, <3>2 DEF LimiterTick, LimiterTypeOK, MaxAge
      <4> QED
        BY <1>t, <2>4, <3>2, <4>1, LimiterAssumption
           DEF LimiterTypeOK, Covered, CapTo, MaxAge
    <3> QED
      BY <1>t, <3>1, <3>2 DEF LimiterTypeOK
  <2> QED
    BY <1>12, <1>t, <2>1, <2>2, <2>3, <2>4, <2>5
       DEF LimiterTick, LimiterInv, LimiterTypeOK, Overdrawn
<1>13. CASE UNCHANGED limiterVars
  BY <1>13, <1>t, <1>3 DEF limiterVars, LimiterTypeOK
<1> QED
  BY <1>7, <1>8, <1>9, <1>10, <1>11, <1>12, <1>13 DEF LimiterNext

\* For every staleness of the clock readings, no caller draws a token that the
\* exact bucket, credited with that staleness, does not have, whatever
\* interleaving, expiry, failure or double execution.
THEOREM RateLimiterSafety == LimiterSpec => [](LimiterTypeOK /\ NeverOverdrawn)
<1>1. LimiterInv => LimiterTypeOK /\ NeverOverdrawn
  BY DEF LimiterInv, Covered, NeverOverdrawn, Overdrawn
<1> QED
  BY <1>1, LimiterInitInv, LimiterNextInv, PTL DEF LimiterSpec
-----------------------------------------------------------------------------
(* Retry-After.  The promise is about the time a caller reads off its own
   clock. *)

\* What the last refusal promised and has not yet elapsed, added to what the
\* bucket would grant an exact clock, makes a token.
Promised ==
    refusal.wait > 0 => \/ bucket.ttl = 0
                        \/ bucket.age = MaxAge
                        \/ bucket.tokens + bucket.age + refusal.wait - refusal.age
                             >= TokenTicks

LimiterStored ==
    /\ bucket \in [tokens: 0..Full, age: 0..MaxAge, ttl: 0..Ttl]
    /\ refusal \in [wait: 0..MaxWait, age: 0..(MaxWait + MaxLag)]

\* A request being decided has no outcome yet.
Undecided ==
    /\ req \in [Requests -> [pc: LimiterPc, lag: 0..MaxLag, outcome: Verdict]]
    /\ \A r \in Requests : Busy(r) => req[r].outcome = "none"

RetryInv == LimiterStored /\ Promised /\ Undecided

LEMMA LimiterNumbers ==
    /\ TokenTicks \in Nat /\ TokenTicks > 0
    /\ Full \in Nat /\ Full >= TokenTicks
    /\ MaxLag \in Nat /\ MaxAge = Full + MaxLag /\ MaxAge \in Nat
    /\ Ttl \in Nat /\ MaxWait \in Nat
<1>1. TokenTicks \in Nat /\ TokenTicks > 0 /\ MaxLag \in Nat
  BY LimiterAssumption
<1> QED
  BY <1>1, FullNat, CeilBound DEF MaxAge, Ttl, MaxWait

\* What the script finds is never more than the bucket holds by an exact
\* clock, and lacks at most the staleness of the reading.
LEMMA RefilledBounds ==
    ASSUME LimiterStored, NEW lag \in 0..MaxLag
    PROVE  /\ Refilled(lag) \in 0..Full
           /\ bucket.ttl = 0 => Refilled(lag) = Full
           /\ bucket.ttl # 0 /\ ~Allowed(lag) =>
                /\ Refilled(lag) <= bucket.tokens + bucket.age
                /\ Refilled(lag) >= bucket.tokens + bucket.age - lag
<1>1. /\ bucket.tokens \in 0..Full /\ bucket.age \in 0..MaxAge
      /\ bucket.ttl \in 0..Ttl
  BY DEF LimiterStored
<1> QED
  BY <1>1, LimiterNumbers DEF Refilled, Allowed, Elapsed, CapTo

LEMMA TakeTokenPromise ==
    ASSUME LimiterStored, NEW lag \in 0..MaxLag, TakeToken(lag)
    PROVE  LimiterStored' /\ Promised'
<1>1. /\ Refilled(lag) - TokenTicks \in 0..Full /\ lag \in 0..MaxAge
      /\ Ttl \in 0..Ttl /\ 0 \in 0..MaxWait /\ 0 \in 0..(MaxWait + MaxLag)
  BY RefilledBounds, LimiterNumbers DEF TakeToken, Allowed
<1>2. bucket' = [tokens |-> Refilled(lag) - TokenTicks, age |-> lag, ttl |-> Ttl]
  BY DEF TakeToken
<1>3. refusal' = [wait |-> 0, age |-> 0]
  BY DEF TakeToken, NoRefusal
<1>4. bucket' \in [tokens: 0..Full, age: 0..MaxAge, ttl: 0..Ttl]
  BY <1>1, <1>2, Zenon
<1>5. refusal' \in [wait: 0..MaxWait, age: 0..(MaxWait + MaxLag)]
  BY <1>1, <1>3, Zenon
<1> QED
  BY <1>3, <1>4, <1>5 DEF LimiterStored, Promised

LEMMA RefuseTokenPromise ==
    ASSUME LimiterStored, NEW lag \in 0..MaxLag, RefuseToken(lag)
    PROVE  LimiterStored' /\ Promised'
<1> DEFINE short == TokenTicks - Refilled(lag)
           ceil == CeilSeconds(short)
<1>1. short \in 1..TokenTicks
  BY RefilledBounds, LimiterNumbers DEF RefuseToken, Allowed
<1>2. ceil \in 0..MaxWait /\ ceil >= short
  BY <1>1, LimiterNumbers, CeilBound, CeilMonotone DEF MaxWait
<1>3. SecondTicks \in 0..MaxWait
  <2>1. CeilSeconds(1) = SecondTicks
    BY LimiterAssumption DEF CeilSeconds
  <2> QED
    BY <2>1, LimiterNumbers, CeilMonotone, LimiterAssumption DEF MaxWait
<1>4. PICK w \in 0..MaxWait : w >= short /\ refusal' = [wait |-> w, age |-> 0]
  <2>1. refusal' = [wait |-> IF ceil < SecondTicks THEN SecondTicks ELSE ceil,
                    age |-> 0]
    BY DEF RefuseToken
  <2> HIDE DEF ceil, short
  <2>2. /\ (IF ceil < SecondTicks THEN SecondTicks ELSE ceil) \in 0..MaxWait
        /\ (IF ceil < SecondTicks THEN SecondTicks ELSE ceil) >= short
    BY <1>1, <1>2, <1>3, LimiterNumbers
  <2> QED
    BY <2>1, <2>2
<1>5. bucket' = bucket /\ ~Allowed(lag) /\ bucket.ttl # 0
  BY RefilledBounds, LimiterNumbers DEF RefuseToken, Allowed
<1>6. bucket.tokens + bucket.age + w >= TokenTicks
  <2>1. /\ Refilled(lag) <= bucket.tokens + bucket.age
        /\ Refilled(lag) \in 0..Full
    BY <1>5, RefilledBounds
  <2>2. bucket.tokens \in Nat /\ bucket.age \in Nat /\ w \in Nat
    BY LimiterNumbers DEF LimiterStored
  <2> QED
    BY <1>4, <2>1, <2>2, LimiterNumbers
<1>7. LimiterStored'
  <2>1. 0 \in 0..(MaxWait + MaxLag)
    BY LimiterNumbers
  <2> QED
    BY <1>4, <1>5, <2>1 DEF LimiterStored
<1>8. Promised'
  <2>1. bucket.tokens + bucket.age + w - 0 >= TokenTicks
    BY <1>6, LimiterNumbers DEF LimiterStored
  <2> QED
    BY <1>4, <1>5, <2>1 DEF Promised
<1> QED
  BY <1>7, <1>8

\* A tick brings the promise and the bucket one part closer alike.
LEMMA TickPromise ==
    ASSUME LimiterStored, Promised, LimiterTick
    PROVE  LimiterStored' /\ Promised'
<1> DEFINE w == refusal.wait
           a == refusal.age
<1>1. /\ w \in 0..MaxWait /\ a \in 0..(MaxWait + MaxLag)
      /\ bucket.tokens \in 0..Full /\ bucket.age \in 0..MaxAge
      /\ bucket.ttl \in 0..Ttl
  BY DEF LimiterStored
<1>2. PICK b \in 0..(MaxWait + MaxLag) :
        /\ refusal' = [wait |-> w, age |-> b]
        /\ w > 0 => b <= a + 1
  <2>1. refusal = [wait |-> w, age |-> a]
    BY DEF LimiterStored
  <2>2. CASE w = 0
    BY <1>1, <2>1, <2>2, LimiterNumbers DEF LimiterTick
  <2>3. CASE w # 0
    <3>1. refusal' = [wait |-> w, age |-> CapTo(a + 1, MaxWait + MaxLag)]
      BY <2>1, <2>3 DEF LimiterTick
    <3>2. /\ CapTo(a + 1, MaxWait + MaxLag) \in 0..(MaxWait + MaxLag)
          /\ CapTo(a + 1, MaxWait + MaxLag) <= a + 1
      BY <1>1, LimiterNumbers DEF CapTo
    <3> QED
      BY <3>1, <3>2
  <2> QED
    BY <2>2, <2>3
<1>3. refusal' \in [wait: 0..MaxWait, age: 0..(MaxWait + MaxLag)]
  BY <1>1, <1>2
<1>4. CASE bucket.ttl <= 1
  <2>1. bucket' = [tokens |-> 0, age |-> 0, ttl |-> 0]
    BY <1>4 DEF LimiterTick, Absent
  <2>2. 0 \in 0..Full /\ 0 \in 0..MaxAge /\ 0 \in 0..Ttl
    BY LimiterNumbers
  <2> QED
    BY <1>3, <2>1, <2>2 DEF LimiterStored, Promised
<1>5. CASE ~(bucket.ttl <= 1)
  <2> DEFINE e == CapTo(bucket.age + 1, MaxAge)
  <2>1. bucket' = [tokens |-> bucket.tokens, age |-> e, ttl |-> bucket.ttl - 1]
    BY <1>5 DEF LimiterTick, LimiterStored
  <2>2. /\ e \in 0..MaxAge /\ bucket.ttl - 1 \in 0..Ttl
        /\ e = MaxAge \/ e = bucket.age + 1
        /\ bucket.age = MaxAge => e = MaxAge
    BY <1>1, <1>5, LimiterNumbers DEF CapTo
  <2> HIDE DEF e
  <2>3. LimiterStored'
    <3>1. bucket' \in [tokens: 0..Full, age: 0..MaxAge, ttl: 0..Ttl]
      BY <1>1, <2>1, <2>2, Zenon
    <3> QED
      BY <1>3, <3>1 DEF LimiterStored
  <2>4. ASSUME w > 0, e # MaxAge
        PROVE  bucket.tokens + e + w - b >= TokenTicks
    <3>1. bucket.tokens + bucket.age + w - a >= TokenTicks
      BY <1>5, <2>2, <2>4, LimiterNumbers DEF Promised
    <3> QED
      BY <1>1, <1>2, <2>2, <2>4, <3>1, LimiterNumbers
  <2>5. Promised'
    BY <1>2, <2>1, <2>4 DEF Promised
  <2> QED
    BY <2>3, <2>5
<1> QED
  BY <1>4, <1>5

LEMMA RetryInitInv == LimiterInit => RetryInv
<1> SUFFICES ASSUME LimiterInit PROVE RetryInv
  OBVIOUS
<1>1. LimiterTypeOK
  BY LimiterInitInv DEF LimiterInv
<1>2. /\ LimiterStored
      /\ req \in [Requests -> [pc: LimiterPc, lag: 0..MaxLag, outcome: Verdict]]
  BY <1>1 DEF LimiterTypeOK, LimiterStored
<1>3. \A r \in Requests : Busy(r) => req[r].outcome = "none"
  BY DEF LimiterInit, NoRequest, Busy, ReqAt
<1>4. Promised
  BY DEF LimiterInit, NoRefusal, Promised
<1> QED
  BY <1>2, <1>3, <1>4 DEF RetryInv, Undecided

LEMMA UndecidedInv == Undecided /\ [LimiterNext]_limiterVars => Undecided'
<1> SUFFICES ASSUME Undecided, [LimiterNext]_limiterVars PROVE Undecided'
  OBVIOUS
<1> DEFINE Req == [pc: LimiterPc, lag: 0..MaxLag, outcome: Verdict]
<1>t. req \in [Requests -> Req] /\ \A r \in Requests : req[r] \in Req
  BY DEF Undecided
<1>b. \A r \in Requests : req[r].pc # "idle" => req[r].outcome = "none"
  BY DEF Undecided, Busy, ReqAt
<1>n. 0 \in 0..MaxLag
  BY LimiterNumbers
<1>0. ASSUME NEW r \in Requests, NEW q \in Req, req' = [req EXCEPT ![r] = q],
             q.pc # "idle" => q.outcome = "none"
      PROVE  Undecided'
  BY <1>0, <1>t, <1>b DEF Undecided, Busy, ReqAt
<1>1. ASSUME NEW r \in Requests, NEW pc \in LimiterPc, ReqGoto(r, pc),
             req[r].pc # "idle"
      PROVE  Undecided'
  <2> DEFINE q == [req[r] EXCEPT !.pc = pc]
  <2>1. q \in Req /\ q.outcome = "none"
    BY <1>1, <1>t, <1>b
  <2>2. req' = [req EXCEPT ![r] = q]
    BY <1>1 DEF ReqGoto
  <2> HIDE DEF q
  <2> QED
    BY <1>0, <2>1, <2>2
<1>2. ASSUME NEW r \in Requests, NEW o \in Verdict, Answer(r, o) PROVE Undecided'
  <2> DEFINE q == [pc |-> "idle", lag |-> 0, outcome |-> o]
  <2>1. q \in Req /\ q.pc = "idle"
    BY <1>n DEF LimiterPc
  <2>2. req' = [req EXCEPT ![r] = q]
    <3>1. [NoRequest EXCEPT !.outcome = o] = q
      BY DEF NoRequest
    <3> QED
      BY <1>2, <3>1, Zenon DEF Answer
  <2> HIDE DEF q
  <2> QED
    BY <1>0, <2>1, <2>2
<1>3. ASSUME NEW r \in Requests, Check(r) PROVE Undecided'
  <2>1. PICK pc \in LimiterPc :
          req' = [req EXCEPT ![r] = [pc |-> pc, lag |-> 0, outcome |-> "none"]]
    <3> DEFINE c == IF sha THEN "evalsha" ELSE "load"
    <3>1. c \in LimiterPc
      BY DEF LimiterPc
    <3> HIDE DEF c
    <3>2. [NoRequest EXCEPT !.pc = c] = [pc |-> c, lag |-> 0, outcome |-> "none"]
      BY DEF NoRequest
    <3>3. req' = [req EXCEPT ![r] = [NoRequest EXCEPT !.pc = c]]
      BY <1>3, Zenon DEF Check, c
    <3> QED
      BY <3>1, <3>2, <3>3
  <2> DEFINE q == [pc |-> pc, lag |-> 0, outcome |-> "none"]
  <2>2. q \in Req /\ q.outcome = "none"
    BY <1>n DEF Verdict
  <2>3. req' = [req EXCEPT ![r] = q]
    BY <2>1
  <2> HIDE DEF q
  <2> QED
    BY <1>0, <2>2, <2>3
<1>4. ASSUME NEW r \in Requests, ScriptLoad(r) PROVE Undecided'
  BY <1>4, <1>1 DEF ScriptLoad, ReqAt, LimiterPc
<1>5. ASSUME NEW r \in Requests, EvalSha(r) \/ Eval(r) PROVE Undecided'
  BY <1>5, <1>2 DEF EvalSha, Eval, RunScript, Verdict
<1>6. ASSUME NEW r \in Requests, EvalShaError(r) PROVE Undecided'
  BY <1>6, <1>1 DEF EvalShaError, ReqAt, LimiterPc
<1>7. ASSUME NEW r \in Requests, FailOpen(r) PROVE Undecided'
  BY <1>7, <1>2 DEF FailOpen, Verdict
<1>8. ASSUME LimiterTick PROVE Undecided'
  <2>1. \A r \in Requests : Busy(r) => req[r].lag + 1 \in 0..MaxLag
    BY <1>8, <1>t, LimiterNumbers DEF LimiterTick
  <2>2. ASSUME NEW r \in Requests
        PROVE  /\ req'[r] \in Req
               /\ req'[r].pc = req[r].pc /\ req'[r].outcome = req[r].outcome
    BY <1>8, <1>t, <2>1 DEF LimiterTick
  <2>3. req' = [r \in Requests |-> req'[r]]
    BY <1>8 DEF LimiterTick
  <2>4. req' \in [Requests -> Req]
    BY <2>2, <2>3
  <2> QED
    BY <1>b, <2>2, <2>4 DEF Undecided, Busy, ReqAt
<1>9. CASE UNCHANGED limiterVars
  BY <1>9, <1>t, <1>b DEF limiterVars, Undecided, Busy, ReqAt
<1> QED
  BY <1>3, <1>4, <1>5, <1>6, <1>7, <1>8, <1>9 DEF LimiterNext

LEMMA RetryNextInv == RetryInv /\ [LimiterNext]_limiterVars => RetryInv'
<1> SUFFICES ASSUME RetryInv, [LimiterNext]_limiterVars PROVE RetryInv'
  OBVIOUS
<1>t. LimiterStored /\ Promised /\ \A r \in Requests : req[r].lag \in 0..MaxLag
  BY DEF RetryInv, Undecided
<1>0. ASSUME UNCHANGED <<bucket, refusal>> PROVE LimiterStored' /\ Promised'
  BY <1>0, <1>t DEF LimiterStored, Promised
<1>1. ASSUME NEW r \in Requests, Check(r) \/ ScriptLoad(r)
      PROVE  LimiterStored' /\ Promised'
  BY <1>0, <1>1 DEF Check, ScriptLoad
<1>2. ASSUME NEW r \in Requests, EvalSha(r) \/ Eval(r)
      PROVE  LimiterStored' /\ Promised'
  BY <1>2, <1>t, TakeTokenPromise, RefuseTokenPromise DEF EvalSha, Eval, RunScript
<1>3. ASSUME NEW r \in Requests, EvalShaError(r) \/ FailOpen(r)
      PROVE  LimiterStored' /\ Promised'
  BY <1>3, <1>0, <1>t, TakeTokenPromise DEF EvalShaError, FailOpen, ScriptUnheard
<1>4. ASSUME LimiterTick PROVE LimiterStored' /\ Promised'
  BY <1>4, <1>t, TickPromise
<1>5. CASE UNCHANGED limiterVars
  BY <1>5, <1>0, UndecidedInv DEF limiterVars, RetryInv
<1>6. LimiterStored' /\ Promised'
  BY <1>1, <1>2, <1>3, <1>4, <1>5 DEF LimiterNext, RetryInv
<1> QED
  BY <1>6, UndecidedInv DEF RetryInv

\* Whoever waits, by its own clock, as long as the last 429 told it to is not
\* refused while nobody took a token: for every capacity and refill rate, every
\* staleness of the clock readings, through expiry, lost replies and repeats.
THEOREM RetryAfterIsHonoured == LimiterSpec => RetryAfterHonoured
<1> DEFINE Kept ==
      \A r \in Requests :
         /\ refusal.wait > 0
         /\ refusal.age - req[r].lag >= refusal.wait
         => ~(Busy(r) /\ req'[r].outcome = "refused")
<1>1. RetryInv /\ [LimiterNext]_limiterVars => [Kept]_limiterVars
  <2> SUFFICES ASSUME RetryInv, LimiterNext, NEW r \in Requests,
                      refusal.wait > 0,
                      refusal.age - req[r].lag >= refusal.wait,
                      Busy(r), req'[r].outcome = "refused"
               PROVE  FALSE
    OBVIOUS
  <2>1. /\ req[r].lag \in 0..MaxLag /\ req[r].outcome = "none"
        /\ LimiterStored /\ Promised
        /\ req \in [Requests -> [pc: LimiterPc, lag: 0..MaxLag, outcome: Verdict]]
    BY DEF RetryInv, Undecided
  <2>2. Allowed(req[r].lag)
    <3> DEFINE lag == req[r].lag
    <3>1. /\ bucket.tokens \in 0..Full /\ bucket.age \in 0..MaxAge
          /\ refusal.wait \in 0..MaxWait /\ refusal.age \in 0..(MaxWait + MaxLag)
      BY <2>1 DEF LimiterStored
    <3>2. CASE bucket.ttl = 0
      BY <3>2, <2>1, RefilledBounds, LimiterNumbers DEF Allowed
    <3>3. CASE bucket.ttl # 0
      <4> SUFFICES ASSUME ~Allowed(lag) PROVE FALSE
        OBVIOUS
      <4>1. /\ Refilled(lag) \in 0..Full /\ Refilled(lag) < TokenTicks
            /\ Refilled(lag) >= bucket.tokens + bucket.age - lag
        BY <3>3, <2>1, RefilledBounds, LimiterNumbers DEF Allowed
      <4>2. \/ bucket.age = MaxAge
            \/ bucket.tokens + bucket.age + refusal.wait - refusal.age >= TokenTicks
        BY <3>3, <2>1 DEF Promised
      <4> HIDE DEF lag
      <4>3. lag \in 0..MaxLag /\ refusal.age - lag >= refusal.wait
        BY <2>1 DEF lag
      <4> QED
        BY <3>1, <4>1, <4>2, <4>3, LimiterNumbers
    <3> QED
      BY <3>2, <3>3
  <2>3. ASSUME NEW s \in Requests, NEW q, req' = [req EXCEPT ![s] = q],
               q.outcome # "refused"
        PROVE  FALSE
    BY <2>1, <2>3
  <2>4. ASSUME NEW s \in Requests, RunScript(s) PROVE FALSE
    <3>1. CASE s = r
      BY <2>1, <2>2, <2>4, <3>1 DEF RunScript, RefuseToken, Answer, NoRequest
    <3>2. CASE s # r
      BY <2>1, <2>4, <3>2 DEF RunScript, Answer
    <3> QED
      BY <3>1, <3>2
  <2>5. ASSUME NEW s \in Requests, Check(s) PROVE FALSE
    BY <2>1, <2>5 DEF Check, NoRequest
  <2>6. ASSUME NEW s \in Requests, NEW pc, ReqGoto(s, pc) PROVE FALSE
    BY <2>1, <2>6 DEF ReqGoto
  <2>7. ASSUME NEW s \in Requests, Answer(s, "failed_open") PROVE FALSE
    BY <2>1, <2>7 DEF Answer, NoRequest
  <2>8. ASSUME LimiterTick PROVE FALSE
    BY <2>1, <2>8 DEF LimiterTick
  <2> QED
    BY <2>4, <2>5, <2>6, <2>7, <2>8
       DEF LimiterNext, ScriptLoad, EvalSha, EvalShaError, Eval, FailOpen
<1> QED
  BY <1>1, RetryInitInv, RetryNextInv, PTL DEF LimiterSpec, RetryAfterHonoured
=============================================================================
