---------------------------- MODULE RateLimiter ----------------------------
(***************************************************************************)
(* internal/ratelimit: the token bucket that a script keeps in Redis for   *)
(* all API instances, and RateLimitMiddleware's use of it.                 *)
(*                                                                         *)
(* One client's bucket is modelled; buckets share nothing.  A second has   *)
(* Scale ticks and a token Scale units, so that a bucket gains Rps units   *)
(* per tick.  The time since the bucket was touched stands for now and ts. *)
(* Requests that are let through because Redis does not answer are not     *)
(* metered.                                                                *)
(***************************************************************************)
EXTENDS Integers

CONSTANTS
  Burst,       \* burst, in tokens
  Rps,         \* rps, in tokens per second
  Scale,       \* ticks in a second, units in a token
  MaxElapsed,  \* bound on the length of a window
  MaxStep,     \* bound on the steps back of Redis's clock
  MaxLosses    \* bound on the losses of the bucket in a window

ASSUME LimiterAssumption ==
  /\ Burst \in Nat \ {0} /\ Rps \in Nat \ {0} /\ Scale \in Nat \ {0}
  /\ MaxElapsed \in Nat /\ MaxStep \in Nat /\ MaxLosses \in Nat

VARIABLES
  present,  \* does the bucket's key exist?
  tokens,   \* its tokens, in units
  idle,     \* now - ts
  promise,  \* the time a refused client still has to wait, or NoPromise
  granted,  \* requests admitted in the window
  elapsed,  \* length of the window
  losses,   \* how often Redis lost the bucket in the window
  stepped   \* how far the clock has been set back

vars == <<present, tokens, idle, promise, granted, elapsed, losses, stepped>>
windowVars == <<granted, elapsed, losses>>

NoPromise == -1

\* ceil(a / b) for a > 0.
CeilDiv(a, b) == (a + b - 1) \div b

Capacity == Burst * Scale

\* PEXPIRE with a second only.
ExpirySecond == Scale

\* PEXPIRE: the time to fill an empty bucket, and a second.
Expiry == CeilDiv(Capacity, Rps) + Scale

\* Refill without the cap.
RefilledUncapped == IF present THEN tokens + idle * Rps ELSE Capacity

\* The tokens at the time of a request; a bucket without a key is full.
Refilled ==
  IF present /\ tokens + idle * Rps < Capacity THEN tokens + idle * Rps ELSE Capacity

\* retry_ms rounded down.
RetryAfterFloor == (Scale - Refilled) \div Rps

\* retry_ms: the time until there is a token, rounded up.
RetryAfter == CeilDiv(Scale - Refilled, Rps)

Init ==
  /\ present = FALSE /\ tokens = Capacity /\ idle = 0
  /\ promise = NoPromise
  /\ granted = 0 /\ elapsed = 0 /\ losses = 0
  /\ stepped = 0

-----------------------------------------------------------------------------
\* HSET: the bucket holds n units as of now.
Store(n) == present' = TRUE /\ tokens' = n /\ idle' = 0

\* A script that takes a token it has only a part of.
AllowPart ==
  /\ Refilled > 0
  /\ Store(Refilled - Scale)
  /\ granted' = granted + 1
  /\ promise' = NoPromise
  /\ UNCHANGED <<elapsed, losses, stepped>>

\* The script finds a token and takes it.
Allow ==
  /\ Refilled >= Scale
  /\ Store(Refilled - Scale)
  /\ granted' = granted + 1
  /\ promise' = NoPromise
  /\ UNCHANGED <<elapsed, losses, stepped>>

\* The script took a token but its answer was lost: the client runs it again,
\* or gives up and the middleware fails open.
AllowAnswerLost ==
  /\ Refilled >= Scale
  /\ Store(Refilled - Scale)
  /\ promise' = NoPromise
  /\ UNCHANGED <<windowVars, stepped>>

\* The script finds no token: 429 with Retry-After.
Deny ==
  /\ Refilled < Scale
  /\ Store(Refilled)
  /\ promise' = RetryAfter
  /\ UNCHANGED <<windowVars, stepped>>

-----------------------------------------------------------------------------
\* Time passes.
Tick ==
  /\ elapsed < MaxElapsed
  /\ ~present \/ idle < Expiry
  /\ elapsed' = elapsed + 1
  /\ idle' = IF present THEN idle + 1 ELSE idle
  /\ promise' = IF promise > 0 THEN promise - 1 ELSE promise
  /\ UNCHANGED <<present, tokens, granted, losses, stepped>>

\* The key of an idle bucket expires.
Expire ==
  /\ present
  /\ idle = Expiry
  /\ present' = FALSE /\ tokens' = Capacity /\ idle' = 0
  /\ UNCHANGED <<promise, windowVars, stepped>>

\* The bucket is lost with its memory: Redis restarts, or evicts the key.
LoseBucket ==
  /\ present
  /\ losses < MaxLosses
  /\ losses' = losses + 1
  /\ present' = FALSE /\ tokens' = Capacity /\ idle' = 0
  /\ UNCHANGED <<promise, granted, elapsed, stepped>>

\* Redis's clock is set back.
StepBack ==
  /\ present
  /\ stepped < MaxStep
  /\ stepped' = stepped + 1
  /\ idle' = idle - 1
  /\ promise' = NoPromise
  /\ UNCHANGED <<present, tokens, windowVars>>

\* Start to count: any moment may be the beginning of the window.
OpenWindow ==
  /\ granted' = 0 /\ elapsed' = 0 /\ losses' = 0
  /\ UNCHANGED <<present, tokens, idle, promise, stepped>>

Next == Allow \/ AllowAnswerLost \/ Deny \/ Tick \/ Expire \/ LoseBucket \/ StepBack \/ OpenWindow

Spec == Init /\ [][Next]_vars

-----------------------------------------------------------------------------
\* The variables have their types, and a bucket is never above its capacity.
TypeOK ==
  /\ present \in BOOLEAN
  /\ tokens \in Int /\ tokens <= Capacity
  /\ idle \in Int /\ idle <= Expiry
  /\ promise \in Int
  /\ granted \in Nat
  /\ elapsed \in 0..MaxElapsed
  /\ losses \in 0..MaxLosses
  /\ stepped \in 0..MaxStep
  /\ present \/ idle = 0

\* A burst, another one for each loss of the bucket, and what the rate adds.
Budget == (1 + losses) * Capacity + elapsed * Rps

\* In every window of time, whenever it begins and whatever the bucket did
\* before, the script admits at most a burst, one more each time Redis loses the
\* bucket, and what the rate adds: expiry of the key, lost answers and a clock set
\* back never admit more.
RateBound == granted * Scale <= Budget

\* A refused client that waits as long as it is told finds a token, unless
\* another request of its took it or the clock was set back: "how long until a
\* token frees up" (Allow).
RetryAfterHonest == promise = 0 => Refilled >= Scale

\* "Reclaim idle buckets once they'd be fully refilled anyway": while the clock
\* runs forward, a bucket that expires is full.
ExpiryInvisible ==
  [][present /\ ~present' /\ stepped = 0 /\ losses' = losses => Refilled = Capacity]_vars

=============================================================================
