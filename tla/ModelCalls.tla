------------------------------ MODULE ModelCalls ------------------------------
(* kron services: iModel.invoke behind its rate limiter, Calling with its hooks,
   and Endpoint.call with retries around the circuit breaker.

   Times are ages in ticks, each capped where the code no longer tells larger
   ones apart, so the clock itself needs no bound. One tick earns RefillRate
   tokens.                                                                     *)
EXTENDS Integers, FiniteSets

CONSTANTS
    Callers,            \* tasks that invoke the model
    Capacity,           \* RateLimitConfig.capacity
    RefillRate,         \* RateLimitConfig.refill_rate, tokens a tick
    InvokeTimeout,      \* iModel.invoke(timeout=...)
    FailureThreshold, RecoveryTime, HalfOpenMaxCalls,   \* CircuitBreaker
    MaxRetries, MaxDelay                                \* RetryConfig, delays doubling from 1

ASSUME CallAssumption ==
    /\ Capacity \in Nat /\ RefillRate \in Nat \ {0} /\ RecoveryTime \in Nat
    /\ FailureThreshold \in Nat \ {0} /\ InvokeTimeout \in Nat

VARIABLES
    limited, guarded,   \* is there a rate limiter; are there a circuit breaker and retries
    tokens, since,      \* TokenBucket.tokens, age of last_refill
    bucketOp,           \* the last operation on the bucket
    circuit, failures, failureAge, trials,   \* CircuitBreaker state
    task,               \* where each caller is, and its local variables
    shared,             \* _status of a Calling that several callers were given
    backendCalls        \* how often that Calling reached backend.call

bucketVars == <<tokens, since, bucketOp>>
breakerVars == <<circuit, failures, failureAge, trials>>
sharedVars == <<shared, backendCalls>>
callVars == <<limited, guarded, bucketVars, breakerVars, task, sharedVars>>

\* own: the Calling is the caller's own, made for this invocation and forgotten after it.
Idle == [at |-> "idle", own |-> TRUE, attempt |-> 0, wait |-> 0, elapsed |-> 0]

Lower(a, b) == IF a < b THEN a ELSE b

Ceiling(n, d) == (n + d - 1) \div d

\* Past this age a refill no longer adds anything.
FullAge == Ceiling(Capacity, RefillRate)

CallInit ==
    /\ limited \in BOOLEAN /\ guarded \in BOOLEAN
    /\ tokens = Capacity /\ since = 0 /\ bucketOp = "tick"
    /\ circuit = "closed" /\ failures = 0 /\ failureAge = RecoveryTime /\ trials = 0
    /\ task = [c \in Callers |-> Idle]
    /\ shared = "pending" /\ backendCalls = 0
-----------------------------------------------------------------------------
(* TokenBucket *)

Refilled == Lower(Capacity, tokens + since * RefillRate)

TakeTokens_KeepsAge(n) ==
    /\ Refilled >= n
    /\ tokens' = Refilled - n /\ since' = since /\ bucketOp' = "take"

TakeTokens(n) ==
    /\ Refilled >= n
    /\ tokens' = Refilled - n /\ since' = 0 /\ bucketOp' = "take"

RefuseTokens(n) ==
    /\ Refilled < n
    /\ tokens' = Refilled /\ since' = 0 /\ bucketOp' = "refuse"

NoCaller == UNCHANGED <<limited, guarded, breakerVars, task, sharedVars>>

try_acquire(n) == limited /\ (TakeTokens(n) \/ RefuseTokens(n)) /\ NoCaller

reset == limited /\ tokens' = Capacity /\ since' = 0 /\ bucketOp' = "reset" /\ NoCaller

\* release() adds without refilling first.
release(n) ==
    /\ limited
    /\ tokens' = Lower(Capacity, tokens + n) /\ since' = since /\ bucketOp' = "release"
    /\ NoCaller
-----------------------------------------------------------------------------
(* iModel.invoke *)

GoTo(c, label) == task' = [task EXCEPT ![c].at = label]

Sleep(c, label, ticks) == task' = [task EXCEPT ![c].at = label, ![c].wait = ticks]

\* The caller's task ends, with this status of its Calling.
Return(c, s) ==
    /\ task' = [task EXCEPT ![c] = Idle]
    /\ shared' = IF task[c].own THEN shared ELSE s
    /\ UNCHANGED backendCalls

Begin(c, own) ==
    /\ task[c].at = "idle"
    /\ task' = [task EXCEPT ![c].at = IF limited THEN "acquire" ELSE "invoke", ![c].own = own]
    /\ UNCHANGED <<limited, guarded, bucketVars, breakerVars, sharedVars>>

acquire(c) ==
    /\ task[c].at = "acquire"
    /\ \/ TakeTokens(1) /\ task' = [task EXCEPT ![c].at = "invoke", ![c].elapsed = 0]
       \/ /\ RefuseTokens(1)
          /\ LET needed == Ceiling(1 - Refilled, RefillRate)
             IN  IF task[c].elapsed + needed > InvokeTimeout
                 THEN task' = [task EXCEPT ![c] = Idle]          \* TimeoutError
                 ELSE Sleep(c, "sleep", needed)
    /\ UNCHANGED <<limited, guarded, breakerVars, sharedVars>>

Wake(c) ==
    /\ task[c].wait = 0
    /\ \/ task[c].at = "sleep" /\ GoTo(c, "acquire")
       \/ task[c].at = "backoff" /\ GoTo(c, "attempt")
    /\ UNCHANGED <<limited, guarded, bucketVars, breakerVars, sharedVars>>
-----------------------------------------------------------------------------
(* Calling.invoke *)

\* The status is tested and set before the first await.
invoke_SetsLater(c) ==
    /\ task[c].at = "invoke"
    /\ IF ~task[c].own /\ shared # "pending" THEN Return(c, shared)
       ELSE GoTo(c, "hook") /\ UNCHANGED sharedVars
    /\ UNCHANGED <<limited, guarded, bucketVars, breakerVars>>

invoke(c) ==
    /\ task[c].at = "invoke"
    /\ IF ~task[c].own /\ shared # "pending" THEN Return(c, shared)
       ELSE /\ GoTo(c, "hook") /\ UNCHANGED backendCalls
            /\ shared' = IF task[c].own THEN shared ELSE "processing"
    /\ UNCHANGED <<limited, guarded, bucketVars, breakerVars>>

\* The PreInvocation hook: an exception in it, or its cancellation, refuses the call.
pre_invocation(c) ==
    /\ task[c].at = "hook"
    /\ \/ /\ GoTo(c, "attempt") /\ UNCHANGED shared
          /\ backendCalls' = IF task[c].own THEN backendCalls ELSE Lower(backendCalls + 1, 2)
       \/ Return(c, "failed")
    /\ UNCHANGED <<limited, guarded, bucketVars, breakerVars>>
-----------------------------------------------------------------------------
(* CircuitBreaker and retry_with_backoff *)

Delay(n) == Lower(2 ^ n, MaxDelay)

BackOff(c, n) ==
    \E d \in Ceiling(Delay(n), 2)..Delay(n) :
        task' = [task EXCEPT ![c].at = "backoff", ![c].wait = d, ![c].attempt = n + 1]

\* An exception of retry_on: sleep between half and all of the delay, or give up.
Retry(c) ==
    IF task[c].attempt >= MaxRetries THEN Return(c, "failed")
    ELSE BackOff(c, task[c].attempt) /\ UNCHANGED sharedVars

MayTry == circuit = "open" => failureAge >= RecoveryTime

\* _check_state admits the call ...
Admit_Any(c) ==
    /\ task[c].at = "attempt" /\ GoTo(c, "http")
    /\ UNCHANGED <<limited, guarded, bucketVars, breakerVars, sharedVars>>

Admit(c) ==
    /\ task[c].at = "attempt" /\ GoTo(c, "http")
    /\ IF ~guarded \/ circuit = "closed" THEN UNCHANGED breakerVars
       ELSE LET used == IF circuit = "open" THEN 0 ELSE trials
            IN  /\ MayTry /\ used < HalfOpenMaxCalls
                /\ circuit' = "half_open" /\ trials' = used + 1
                /\ UNCHANGED <<failures, failureAge>>
    /\ UNCHANGED <<limited, guarded, bucketVars, sharedVars>>

\* ... or refuses it with CircuitBreakerOpenError, which is retried.
Reject(c) ==
    /\ task[c].at = "attempt" /\ guarded
    /\ ~MayTry \/ (circuit = "half_open" /\ trials >= HalfOpenMaxCalls)
    /\ Retry(c)
    /\ UNCHANGED <<limited, guarded, bucketVars, breakerVars>>

RecordSuccess ==
    IF guarded /\ circuit = "half_open"
    THEN circuit' = "closed" /\ failures' = 0 /\ UNCHANGED <<failureAge, trials>>
    ELSE UNCHANGED breakerVars

RecordFailure ==
    IF ~guarded THEN UNCHANGED breakerVars
    ELSE LET count == Lower(failures + 1, FailureThreshold)
         IN  /\ failures' = count /\ failureAge' = 0 /\ UNCHANGED trials
             /\ circuit' = IF \/ circuit = "half_open"
                              \/ circuit = "closed" /\ count >= FailureThreshold
                           THEN "open" ELSE circuit

\* The request answers: with a result, or with an error, which is retried when it is
\* a connection error of kron and not when it is one of httpx.
Answer(c) ==
    /\ task[c].at = "http"
    /\ \/ RecordSuccess /\ Return(c, "completed")
       \/ RecordFailure /\ Return(c, "failed")
       \/ guarded /\ RecordFailure /\ Retry(c)
    /\ UNCHANGED <<limited, guarded, bucketVars>>

\* An excluded exception leaves the breaker as it is; so does a cancellation, which
\* "except Exception" does not catch and which leaves the Calling "processing".
Excluded(c) ==
    /\ task[c].at = "http" /\ Return(c, "failed")
    /\ UNCHANGED <<limited, guarded, bucketVars, breakerVars>>

Cancel(c) ==
    /\ task[c].at \in {"acquire", "sleep", "attempt", "http", "backoff"} /\ Return(c, shared)
    /\ UNCHANGED <<limited, guarded, bucketVars, breakerVars>>
-----------------------------------------------------------------------------
Older(t) ==
    [t EXCEPT !.wait = IF @ > 0 THEN @ - 1 ELSE 0,
              !.elapsed = IF t.at \in {"acquire", "sleep"} THEN Lower(@ + 1, InvokeTimeout + 1) ELSE @]

Tick ==
    /\ since' = Lower(since + 1, FullAge) /\ bucketOp' = "tick" /\ UNCHANGED tokens
    /\ failureAge' = Lower(failureAge + 1, RecoveryTime)
    /\ task' = [c \in Callers |-> Older(task[c])]
    /\ UNCHANGED <<limited, guarded, circuit, failures, trials, sharedVars>>

\* What a caller's task does by itself: the client's timeout bounds the request.
CallerStep(c) ==
    \/ acquire(c) \/ Wake(c) \/ invoke(c) \/ pre_invocation(c)
    \/ Admit(c) \/ Reject(c) \/ Answer(c)

CallNext ==
    \/ Tick
    \/ \E c \in Callers : Begin(c, TRUE) \/ Begin(c, FALSE) \/ CallerStep(c) \/ Excluded(c) \/ Cancel(c)
    \/ reset
    \/ \E n \in 1..Capacity : try_acquire(n) \/ release(n)

CallSpec == CallInit /\ [][CallNext]_callVars

-----------------------------------------------------------------------------
Meter == INSTANCE RateMeter WITH level <- Refilled, op <- bucketOp

(* The bucket, which only refills when it is looked at, implements the meter that
   rises with the clock: whatever the order in which callers acquire, give up, hand
   back or reset, no token is granted that time has not earned.                    *)
BucketIsMeter == Meter!MeterSpec

(* CircuitBreaker: CLOSED opens only when the threshold is reached, OPEN is left only
   after recovery_time since the last failure and never straight to CLOSED, and no
   request reaches the service while the circuit is open.                         *)
BreakerProtocol ==
    [][/\ circuit = "closed" /\ circuit' # "closed" => circuit' = "open" /\ failures' >= FailureThreshold
       /\ circuit = "open" /\ circuit' # "open" => circuit' = "half_open" /\ failureAge = RecoveryTime
       /\ \A c \in Callers : task[c].at = "attempt" /\ task'[c].at = "http" /\ guarded => circuit' # "open"]_callVars

(* A closed circuit has fewer failures on record than the threshold, and a half-open
   one has admitted a trial: the states in which a late answer finds the breaker.  *)
CountsMatchState ==
    guarded => /\ circuit = "closed" => failures < FailureThreshold
               /\ circuit = "half_open" => trials > 0

(* Calling.invoke: however many tasks invoke one Calling, its backend is called at
   most once, hooks that wait included.                                           *)
CalledOnce == backendCalls <= 1

(* iModel.invoke returns: neither the wait for tokens, whatever other tasks take
   from the bucket, nor retries against an open circuit hold a caller for ever.    *)
ReturnsTo(c) == task[c].at # "idle" ~> task[c].at = "idle"
=============================================================================
