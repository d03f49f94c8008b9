----------------------------- MODULE RateLimiter -----------------------------
(***************************************************************************)
(* gateway/rate_limiter_redis.py: concurrent requests of one caller and    *)
(* scope draw on one token bucket.  The Lua script is atomic, but the time *)
(* it is given is the client's, read before the await, and a request that  *)
(* loses the reply of EVALSHA runs the script again with EVAL.             *)
(*                                                                         *)
(* Tokens are counted in parts: one tick refills one part, a token is      *)
(* TokenTicks parts, a second SecondTicks ticks.  Times are kept as ages:  *)
(* how long ago a clock was read, or last_updated was.                     *)
(***************************************************************************)
EXTENDS Integers

CONSTANTS Requests,     \* requests in flight together
          Capacity,     \* tokens of a full bucket
          TokenTicks,   \* 1 / refill_rate, in ticks
          SecondTicks,  \* ticks of a second, the unit of EXPIRE and Retry-After
          MaxLag,       \* longest time from reading the clock to the script
          RedisFaults   \* whether calls to Redis may fail or lose their reply

ASSUME LimiterAssumption ==
    /\ Capacity \in Nat \ {0}
    /\ TokenTicks \in Nat \ {0}
    /\ SecondTicks \in Nat \ {0}
    /\ MaxLag \in Nat
    /\ RedisFaults \in BOOLEAN

Full == Capacity * TokenTicks

VARIABLES
    bucket,     \* the hash in Redis: tokens, age of last_updated, time to live
    req,        \* each request: next call, age of its clock reading, result
    sha,        \* _script_sha is set
    ideal,      \* history: the level of an exact bucket, see Drawn
    refusal     \* history: age and Retry-After of the last 429, when current

limiterVars == <<bucket, req, sha, ideal, refusal>>

CapTo(n, bound) == IF n <= bound THEN n ELSE bound

\* math.ceil(parts / refill_rate), in seconds, given in ticks.
CeilSeconds(parts) ==
    ((parts + SecondTicks - 1) \div SecondTicks) * SecondTicks

Ttl == CeilSeconds(Full)
MaxWait == CeilSeconds(TokenTicks)
MaxAge == Full + MaxLag

\* The ideal level of a caller who drew a token that was not there, for good.
Overdrawn == -1

\* The exact bucket has no expiry and a clock of its own.  It is charged for
\* every token, and credited with the age of the reading the token was granted on.
Drawn(lag) ==
    LET left == ideal + lag - TokenTicks IN
    IF ideal = Overdrawn \/ left < 0 THEN Overdrawn ELSE CapTo(left, Full)

Absent == [tokens |-> 0, age |-> 0, ttl |-> 0]
NoRefusal == [wait |-> 0, age |-> 0]

LimiterPc == {"idle", "load", "evalsha", "eval"}
Verdict == {"none", "admitted", "refused", "failed_open"}

LimiterTypeOK ==
    /\ bucket \in [tokens: 0..Full, age: 0..MaxAge, ttl: 0..Ttl]
    /\ req \in [Requests -> [pc: LimiterPc, lag: 0..MaxLag, outcome: Verdict]]
    /\ sha \in BOOLEAN
    /\ ideal \in Overdrawn..Full
    /\ refusal \in [wait: 0..MaxWait, age: 0..(MaxWait + MaxLag)]

NoRequest == [pc |-> "idle", lag |-> 0, outcome |-> "none"]

LimiterInit ==
    /\ bucket = Absent
    /\ req = [r \in Requests |-> NoRequest]
    /\ sha = FALSE
    /\ ideal = Full
    /\ refusal = NoRefusal

-----------------------------------------------------------------------------
ReqAt(r, pc) == req[r].pc = pc

ReqGoto(r, pc) == req' = [req EXCEPT ![r].pc = pc]

Answer(r, outcome) == req' = [req EXCEPT ![r] = [NoRequest EXCEPT !.outcome = outcome]]

\* The script: the tokens it finds for a clock reading lag ticks old.
Elapsed(age, lag) == IF age > lag THEN age - lag ELSE 0

Refilled(lag) ==
    IF bucket.ttl = 0 THEN Full
    ELSE CapTo(bucket.tokens + Elapsed(bucket.age, lag), Full)

Allowed(lag) == Refilled(lag) >= TokenTicks

\* Slip: the expiry is taken in whole seconds rounded down.
TakeTokenShortTtl(lag) ==
    /\ Allowed(lag)
    /\ bucket' = [tokens |-> Refilled(lag) - TokenTicks, age |-> lag,
                  ttl |-> (Full \div SecondTicks) * SecondTicks]
    /\ ideal' = Drawn(lag)
    /\ refusal' = NoRefusal

\* The script takes a token, stores the caller's time, restarts the expiry.
TakeToken(lag) ==
    /\ Allowed(lag)
    /\ bucket' = [tokens |-> Refilled(lag) - TokenTicks, age |-> lag, ttl |-> Ttl]
    /\ ideal' = Drawn(lag)
    /\ refusal' = NoRefusal

\* Slip: Retry-After rounds down.
RefuseTokenRoundsDown(lag) ==
    LET short == TokenTicks - Refilled(lag)
        wait == (short \div SecondTicks) * SecondTicks IN
    /\ ~Allowed(lag)
    /\ refusal' = [wait |-> IF wait < SecondTicks THEN SecondTicks ELSE wait,
                   age |-> 0]
    /\ UNCHANGED <<bucket, ideal>>

\* The script refuses, writing nothing; check answers 429 with Retry-After.
RefuseToken(lag) ==
    LET wait == CeilSeconds(TokenTicks - Refilled(lag)) IN
    /\ ~Allowed(lag)
    /\ refusal' = [wait |-> IF wait < SecondTicks THEN SecondTicks ELSE wait,
                   age |-> 0]
    /\ UNCHANGED <<bucket, ideal>>

RunScript(r) ==
    \/ TakeToken(req[r].lag) /\ Answer(r, "admitted")
    \/ RefuseToken(req[r].lag) /\ Answer(r, "refused")

\* The script runs but its reply is lost.
ScriptUnheard(r) ==
    \/ TakeToken(req[r].lag)
    \/ ~Allowed(req[r].lag) /\ UNCHANGED <<bucket, ideal, refusal>>

-----------------------------------------------------------------------------
\* check: read the clock, then load the script once per process.
Check(r) ==
    /\ ReqAt(r, "idle")
    /\ req' = [req EXCEPT ![r] = [NoRequest EXCEPT !.pc = IF sha THEN "evalsha"
                                                            ELSE "load"]]
    /\ UNCHANGED <<bucket, sha, ideal, refusal>>

ScriptLoad(r) ==
    /\ ReqAt(r, "load")
    /\ sha' = TRUE
    /\ ReqGoto(r, "evalsha")
    /\ UNCHANGED <<bucket, ideal, refusal>>

EvalSha(r) ==
    /\ ReqAt(r, "evalsha")
    /\ RunScript(r)
    /\ UNCHANGED sha

\* EVALSHA raises, before the script ran (it was flushed) or after.
EvalShaError(r) ==
    /\ RedisFaults
    /\ ReqAt(r, "evalsha")
    /\ \/ UNCHANGED <<bucket, ideal, refusal>>
       \/ ScriptUnheard(r)
    /\ ReqGoto(r, "eval")
    /\ UNCHANGED sha

Eval(r) ==
    /\ ReqAt(r, "eval")
    /\ RunScript(r)
    /\ UNCHANGED sha

\* Any other failure of Redis lets the request through.
FailOpen(r) ==
    /\ RedisFaults
    /\ \/ ReqAt(r, "load") /\ UNCHANGED <<bucket, ideal, refusal>>
       \/ ReqAt(r, "eval") /\ UNCHANGED <<bucket, ideal, refusal>>
       \/ ReqAt(r, "eval") /\ ScriptUnheard(r)
    /\ Answer(r, "failed_open")
    /\ UNCHANGED sha

Busy(r) == ~ReqAt(r, "idle")

\* One tick: the bucket refills and may expire, clock readings grow old.
LimiterTick ==
    /\ \A r \in Requests : Busy(r) => req[r].lag < MaxLag
    /\ bucket' = IF bucket.ttl <= 1 THEN Absent
                 ELSE [bucket EXCEPT !.age = CapTo(@ + 1, MaxAge),
                                     !.ttl = @ - 1]
    /\ req' = [r \in Requests |-> IF Busy(r) THEN [req[r] EXCEPT !.lag = @ + 1]
                                             ELSE req[r]]
    /\ ideal' = IF ideal = Overdrawn THEN Overdrawn ELSE CapTo(ideal + 1, Full)
    /\ refusal' = IF refusal.wait = 0 THEN refusal
                  ELSE [refusal EXCEPT !.age = CapTo(@ + 1, MaxWait + MaxLag)]
    /\ UNCHANGED sha

LimiterNext ==
    \/ \E r \in Requests :
         \/ Check(r)
         \/ ScriptLoad(r)
         \/ EvalSha(r)
         \/ EvalShaError(r)
         \/ Eval(r)
         \/ FailOpen(r)
    \/ LimiterTick

LimiterSpec == LimiterInit /\ [][LimiterNext]_limiterVars

-----------------------------------------------------------------------------
\* The caller never draws more than burst, refill and, for every token it is
\* granted, the time its clock reading had waited for the script: scripts that
\* run in another order than their clocks were read, a last_updated that moves
\* back, expiry in whole seconds and scripts that run twice grant nothing else.
NeverOverdrawn == ideal # Overdrawn

\* Whoever waits as long as a 429 told them to, while nobody else takes a
\* token, is admitted: rounding, expiry and a lost reply never break the
\* promise of Retry-After.
RetryAfterHonoured ==
    [][\A r \in Requests :
         /\ refusal.wait > 0
         /\ refusal.age - req[r].lag >= refusal.wait
         => ~(Busy(r) /\ req'[r].outcome = "refused")]_limiterVars

=============================================================================
