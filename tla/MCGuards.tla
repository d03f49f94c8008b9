------------------------------ MODULE MCGuards ------------------------------
(* The two guards that live in Redis, each on its own: the circuit breaker,
   for two workers and a Redis that may fail or for one worker and one that
   does not, and the rate limiter. *)
EXTENDS CircuitBreaker, RateLimiter

CONSTANTS w1, w2

VARIABLE part       \* the guard this behaviour is about

guardVars == <<vars, limiterVars, part>>

MCWorkers == {w1, w2}

MCSettings == {[workers |-> MCWorkers, redisFaults |-> TRUE],
               [workers |-> {w1}, redisFaults |-> FALSE]}

GuardsInit ==
    /\ Init /\ LimiterInit
    /\ part \in {"breaker", "limiter"}
    /\ part = "limiter" => setting.redisFaults

InBreaker(A) == part = "breaker" /\ A /\ UNCHANGED <<limiterVars, part>>

InLimiter(A) == part = "limiter" /\ A /\ UNCHANGED <<vars, part>>

GuardsNext == InBreaker(Next) \/ InLimiter(LimiterNext)

GuardsSpec ==
    /\ GuardsInit /\ [][GuardsNext]_guardVars
    /\ WF_guardVars(InBreaker(Tick))
    /\ \A w \in Workers : WF_guardVars(InBreaker(Step(w)))
=============================================================================
