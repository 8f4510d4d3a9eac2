------------------------- MODULE RateLimiterProofs -------------------------
(***************************************************************************)
(* Theorems about RateLimiter: the bound on what the bucket admits in a    *)
(* window, the honesty of Retry-After and the harmlessness of expiry, for  *)
(* every burst, every rate and every resolution of the clock.              *)
(***************************************************************************)
EXTENDS RateLimiter, TLAPS

Positive(n) == IF n > 0 THEN n ELSE 0

\* What the bucket could hand out now, were it not capped.
Worth == IF present THEN Positive(tokens) + Positive(idle) * Rps ELSE Capacity

\* What was admitted in the window and what the bucket could still hand out is
\* within the budget: RateBound alone does not say what is left.
WorthBound == granted = 0 \/ granted * Scale + Worth <= Budget

\* A promise is kept while it runs: at its end the bucket holds a token.
PromiseKept ==
  promise # NoPromise =>
    promise \in Nat /\ (present => tokens + (idle + promise) * Rps >= Scale)

\* While the clock runs forward nothing is negative.
Forward == stepped = 0 => tokens >= 0 /\ idle >= 0

LimiterInv == TypeOK /\ WorthBound /\ PromiseKept /\ Forward

-----------------------------------------------------------------------------
(***************************************************************************)
(* Arithmetic.                                                             *)
(***************************************************************************)

\* Rounding up covers the dividend: CeilDiv is ceil of the script.
LEMMA CeilDivCovers ==
  ASSUME NEW a \in Int, NEW b \in Nat \ {0}
  PROVE  CeilDiv(a, b) \in Int /\ CeilDiv(a, b) * b >= a
  BY DEF CeilDiv

\* A wait that is not over is rounded up to a wait.
LEMMA CeilDivPositive ==
  ASSUME NEW a \in Nat \ {0}, NEW b \in Nat \ {0}
  PROVE  CeilDiv(a, b) \in Nat \ {0}
  BY DEF CeilDiv

\* A product with the rate has the sign of its other factor, and grows with it.
LEMMA Product ==
  ASSUME NEW m \in Int, NEW n \in Int, NEW r \in Nat, m <= n
  PROVE  m * r \in Int /\ n * r \in Int /\ m * r <= n * r /\ 0 * r = 0 /\ (n + 1) * r = n * r + r
  OBVIOUS

\* A bucket holds a token, and its key outlives the time it takes to fill.
LEMMA Sizes ==
  /\ Capacity \in Nat /\ Capacity >= Scale
  /\ Expiry \in Nat /\ Expiry * Rps >= Capacity
<1>1. Capacity \in Nat /\ Capacity >= Scale
  <2>1. 1 * Scale <= Burst * Scale
    BY LimiterAssumption, Product
  <2>2. QED
    BY <2>1, LimiterAssumption DEF Capacity
<1>2. Capacity \in Nat \ {0}
  BY <1>1, LimiterAssumption
<1>3. CeilDiv(Capacity, Rps) \in Nat \ {0} /\ CeilDiv(Capacity, Rps) * Rps >= Capacity
  BY <1>2, LimiterAssumption, CeilDivCovers, CeilDivPositive
<1>4. Expiry \in Nat /\ CeilDiv(Capacity, Rps) <= Expiry
  BY <1>3, LimiterAssumption DEF Expiry
<1>5. CeilDiv(Capacity, Rps) * Rps <= Expiry * Rps /\ Expiry * Rps \in Int
  BY <1>3, <1>4, LimiterAssumption, Product
<1>6. QED
  BY <1>1, <1>3, <1>4, <1>5, LimiterAssumption

\* The budget of a window covers a burst, and grows with time and with losses.
LEMMA Budgets ==
  ASSUME NEW l \in Nat, NEW e \in Nat
  PROVE  /\ (1 + l) * Capacity + e * Rps \in Int /\ (1 + l) * Capacity + e * Rps >= Capacity
         /\ (1 + l) * Capacity + (e + 1) * Rps = (1 + l) * Capacity + e * Rps + Rps
         /\ (1 + (l + 1)) * Capacity + e * Rps = (1 + l) * Capacity + e * Rps + Capacity
<1>1. /\ 0 * Rps <= e * Rps /\ e * Rps \in Int /\ 0 * Rps = 0 /\ (e + 1) * Rps = e * Rps + Rps
  BY LimiterAssumption, Product
<1>2. 1 * Capacity <= (1 + l) * Capacity
  BY Sizes, Product
<1>3. /\ (1 + l) * Capacity \in Int /\ ((1 + l) + 1) * Capacity = (1 + l) * Capacity + Capacity
  BY Sizes, Product
<1>4. 1 * Capacity = Capacity /\ 1 + (l + 1) = (1 + l) + 1
  BY Sizes
<1>5. QED
  BY <1>1, <1>2, <1>3, <1>4, Sizes, LimiterAssumption

\* A bound that grows as much as what it bounds still bounds it.
LEMMA Grows ==
  ASSUME NEW g \in Int, NEW w \in Int, NEW w2 \in Int, NEW b \in Int, NEW d \in Int,
         g + w <= b, w2 <= w + d
  PROVE  g + w2 <= b + d
  OBVIOUS

\* What a request finds is a part of what the bucket is worth.
LEMMA RefilledBounds ==
  ASSUME TypeOK
  PROVE  /\ Refilled \in Int /\ Refilled <= Capacity
         /\ Worth \in Int /\ 0 <= Worth /\ Refilled <= Worth
         /\ (tokens >= 0 /\ idle >= 0) => Refilled >= 0
         /\ idle * Rps \in Int
<1>1. /\ idle * Rps \in Int /\ Positive(idle) * Rps \in Int
      /\ idle * Rps <= Positive(idle) * Rps /\ 0 <= Positive(idle) * Rps
      /\ idle >= 0 => idle * Rps >= 0
  <2>1. idle \in Int /\ Positive(idle) \in Int /\ idle <= Positive(idle) /\ 0 <= Positive(idle)
    BY DEF TypeOK, Positive
  <2>2. idle * Rps <= Positive(idle) * Rps /\ 0 * Rps <= Positive(idle) * Rps
    BY <2>1, LimiterAssumption, Product
  <2>3. idle >= 0 => 0 * Rps <= idle * Rps
    BY <2>1, LimiterAssumption, Product
  <2>4. QED
    BY <2>1, <2>2, <2>3, LimiterAssumption, Product
<1>2. QED
  BY <1>1, Sizes DEF TypeOK, Refilled, Worth, Positive

-----------------------------------------------------------------------------
(***************************************************************************)
(* The invariant.                                                          *)
(***************************************************************************)

\* The bucket starts without a key, outside of any window.
LEMMA LimiterStart == Init => LimiterInv
<1> SUFFICES ASSUME Init PROVE LimiterInv
  OBVIOUS
<1>1. present \in BOOLEAN
  BY Zenon DEF Init
<1>2. TypeOK
  BY <1>1, Sizes, LimiterAssumption DEF Init, TypeOK, NoPromise
<1>3. QED
  BY <1>2, Sizes DEF Init, LimiterInv, WorthBound, PromiseKept, Forward, NoPromise

\* Every step keeps the types, and a bucket within its capacity.
LEMMA TypeStep == TypeOK /\ [Next]_vars => TypeOK'
<1> SUFFICES ASSUME TypeOK, [Next]_vars PROVE TypeOK'
  OBVIOUS
<1> USE LimiterAssumption, Sizes
<1>1. Refilled \in Int /\ Refilled <= Capacity
  BY RefilledBounds
<1>2. CASE Allow
  <2>1. present' \in BOOLEAN
    BY <1>2, Zenon DEF Allow, Store
  <2>2. QED
    BY <2>1, <1>1, <1>2 DEF Allow, Store, TypeOK, NoPromise
<1>3. CASE AllowAnswerLost
  <2>1. present' \in BOOLEAN
    BY <1>3, Zenon DEF AllowAnswerLost, Store
  <2>2. QED
    BY <2>1, <1>1, <1>3 DEF AllowAnswerLost, Store, TypeOK, NoPromise, windowVars
<1>4. CASE Deny
  <2>1. present' \in BOOLEAN
    BY <1>4, Zenon DEF Deny, Store
  <2>2. RetryAfter \in Int
    BY <1>1, CeilDivCovers DEF RetryAfter
  <2>3. QED
    BY <2>1, <2>2, <1>1, <1>4 DEF Deny, Store, TypeOK, windowVars
<1>5. CASE Tick
  BY <1>5 DEF Tick, TypeOK
<1>6. CASE Expire
  <2>1. present' \in BOOLEAN
    BY <1>6, Zenon DEF Expire
  <2>2. QED
    BY <2>1, <1>6 DEF Expire, TypeOK, windowVars
<1>7. CASE StepBack
  BY <1>7 DEF StepBack, TypeOK, NoPromise, windowVars
<1>8. CASE OpenWindow
  BY <1>8 DEF OpenWindow, TypeOK
<1>9. CASE LoseBucket
  <2>1. present' \in BOOLEAN
    BY <1>9, Zenon DEF LoseBucket
  <2>2. QED
    BY <2>1, <1>9 DEF LoseBucket, TypeOK
<1>10. CASE UNCHANGED vars
  BY <1>10 DEF vars, TypeOK
<1>11. QED
  BY <1>2, <1>3, <1>4, <1>5, <1>6, <1>7, <1>8, <1>9, <1>10 DEF Next

\* No step hands out more than the bucket is worth, and time adds the rate.
LEMMA WorthStep == TypeOK /\ WorthBound /\ [Next]_vars => WorthBound'
<1> SUFFICES ASSUME TypeOK, WorthBound, [Next]_vars PROVE WorthBound'
  OBVIOUS
<1>1. TypeOK'
  BY TypeStep
<1>2. /\ Refilled \in Int /\ Refilled <= Capacity /\ Refilled <= Worth
      /\ Worth \in Int /\ 0 <= Worth
  BY RefilledBounds
<1>3. /\ granted \in Nat /\ granted * Scale \in Int /\ (granted + 1) * Scale = granted * Scale + Scale
      /\ 0 * Scale = 0 /\ 0 * Rps = 0
      /\ Budget \in Int /\ Budget >= Capacity
      /\ elapsed' = elapsed /\ losses' = losses => Budget' = Budget
      /\ elapsed' = elapsed + 1 /\ losses' = losses => Budget' = Budget + Rps
      /\ elapsed' = elapsed /\ losses' = losses + 1 => Budget' = Budget + Capacity
  <2>1. losses \in Nat /\ elapsed \in Nat /\ granted \in Nat
    BY LimiterAssumption DEF TypeOK
  <2>2. /\ granted * Scale \in Int /\ (granted + 1) * Scale = granted * Scale + Scale
        /\ 0 * Scale = 0 /\ 0 * Rps = 0
    BY <2>1, LimiterAssumption, Product
  <2>3. /\ Budget \in Int /\ Budget >= Capacity
        /\ (1 + losses) * Capacity + (elapsed + 1) * Rps = Budget + Rps
        /\ (1 + (losses + 1)) * Capacity + elapsed * Rps = Budget + Capacity
    BY <2>1, Budgets DEF Budget
  <2>4. Budget' = (1 + losses') * Capacity + elapsed' * Rps
    BY DEF Budget, Capacity
  <2>5. QED
    BY <2>1, <2>2, <2>3, <2>4 DEF Budget
<1>4. ASSUME NEW n \in Int, Store(n) PROVE Worth' = Positive(n)
  BY <1>3, <1>4 DEF Store, Worth, Positive
<1>5. granted = 0 => granted * Scale = 0
  BY <1>3
<1>6. ASSUME Worth' \in Int, Worth' <= Worth, UNCHANGED <<granted, elapsed, losses>> PROVE WorthBound'
  <2>1. CASE granted = 0
    BY <1>6, <2>1 DEF WorthBound
  <2>2. CASE granted * Scale + Worth <= Budget
    <3>1. granted * Scale + Worth' <= Budget
      BY <2>2, <1>2, <1>3, <1>6, Sizes
    <3>2. QED
      BY <3>1, <1>3, <1>6 DEF WorthBound
  <2>3. QED
    BY <2>1, <2>2 DEF WorthBound
<1> USE LimiterAssumption, Sizes
<1>7. CASE Allow
  <2>1. Worth' = Refilled - Scale
    BY <1>2, <1>4, <1>7 DEF Allow, Positive
  <2>2. granted' * Scale = granted * Scale + Scale /\ Budget' = Budget
    BY <1>3, <1>7 DEF Allow
  <2>3. QED
    BY <2>1, <2>2, <1>2, <1>3, <1>5 DEF WorthBound
<1>8. CASE AllowAnswerLost
  <2>1. Worth' \in Int /\ Worth' <= Worth
    BY <1>2, <1>4, <1>8 DEF AllowAnswerLost, Positive
  <2>2. UNCHANGED <<granted, elapsed, losses>>
    BY <1>8 DEF AllowAnswerLost, windowVars
  <2>3. QED
    BY <2>1, <2>2, <1>6
<1>9. CASE Deny
  <2>1. Worth' \in Int /\ Worth' <= Worth
    BY <1>2, <1>4, <1>9 DEF Deny, Positive
  <2>2. UNCHANGED <<granted, elapsed, losses>>
    BY <1>9 DEF Deny, windowVars
  <2>3. QED
    BY <2>1, <2>2, <1>6
<1>10. CASE Tick
  <2>1. Worth' \in Int /\ Worth' <= Worth + Rps
    <3>1. CASE present
      <4>1. present' = present /\ tokens' = tokens /\ idle' = idle + 1
        BY <1>10, <3>1 DEF Tick
      <4>2. Positive(idle + 1) * Rps \in Int /\ Positive(idle + 1) * Rps <= Positive(idle) * Rps + Rps
        <5>1. /\ idle \in Int /\ Positive(idle + 1) \in Int /\ Positive(idle) \in Int
              /\ Positive(idle + 1) <= Positive(idle) + 1
          BY DEF TypeOK, Positive
        <5>2. Positive(idle + 1) * Rps <= (Positive(idle) + 1) * Rps
          BY <5>1, Product
        <5>3. QED
          BY <5>1, <5>2, Product
      <4>3. Worth = Positive(tokens) + Positive(idle) * Rps
        BY <3>1 DEF Worth
      <4>4. Worth' = Positive(tokens) + Positive(idle + 1) * Rps
        BY <3>1, <4>1 DEF Worth
      <4>5. Positive(tokens) \in Int /\ Positive(idle) * Rps \in Int
        BY Product DEF TypeOK, Positive
      <4>6. QED
        BY <4>2, <4>3, <4>4, <4>5
    <3>2. CASE ~present
      BY <1>2, <1>10, <3>2 DEF Tick, Worth
    <3>3. QED
      BY <3>1, <3>2
  <2>2. granted' = granted /\ Budget' = Budget + Rps
    BY <1>3, <1>10 DEF Tick
  <2>3. ASSUME granted * Scale + Worth <= Budget PROVE granted * Scale + Worth' <= Budget + Rps
    <3> DEFINE g == granted * Scale
    <3>1. g \in Int /\ Worth \in Int /\ Worth' \in Int /\ Budget \in Int /\ Rps \in Int
      BY <2>1, <1>2, <1>3
    <3>2. g + Worth <= Budget /\ Worth' <= Worth + Rps
      BY <2>1, <2>3
    <3> HIDE DEF g
    <3>3. g + Worth' <= Budget + Rps
      BY <3>1, <3>2, Grows
    <3>4. QED
      BY <3>3 DEF g
  <2>4. QED
    BY <2>2, <2>3 DEF WorthBound
<1>11. CASE Expire
  <2>1. Worth' \in Int /\ Worth' <= Worth
    <3>1. Positive(idle) * Rps = Expiry * Rps \/ Expiry = 0
      BY <1>11 DEF Expire, Positive
    <3>2. Expiry = 0 => Expiry * Rps = 0
      BY <1>3
    <3>3. Positive(idle) * Rps >= Capacity
      BY <3>1, <3>2, <1>11 DEF Expire, Positive
    <3>4. QED
      BY <3>3, <1>11, Product DEF Expire, Worth, Positive, TypeOK
  <2>2. UNCHANGED <<granted, elapsed, losses>>
    BY <1>11 DEF Expire, windowVars
  <2>3. QED
    BY <2>1, <2>2, <1>6
<1>12. CASE StepBack
  <2>1. Worth' \in Int /\ Worth' <= Worth
    <3>1. present' = present /\ present /\ tokens' = tokens /\ idle' = idle - 1
      BY <1>12 DEF StepBack
    <3>2. /\ Positive(idle - 1) \in Int /\ Positive(idle) \in Int /\ Positive(tokens) \in Int
          /\ Positive(idle - 1) <= Positive(idle)
      BY DEF TypeOK, Positive
    <3>3. /\ Positive(idle - 1) * Rps \in Int /\ Positive(idle) * Rps \in Int
          /\ Positive(idle - 1) * Rps <= Positive(idle) * Rps
      BY <3>2, Product
    <3>4. Worth' = Positive(tokens) + Positive(idle - 1) * Rps /\ Worth = Positive(tokens) + Positive(idle) * Rps
      BY <3>1 DEF Worth
    <3>5. QED
      BY <3>2, <3>3, <3>4
  <2>2. UNCHANGED <<granted, elapsed, losses>>
    BY <1>12 DEF StepBack, windowVars
  <2>3. QED
    BY <2>1, <2>2, <1>6
<1>13. CASE OpenWindow
  BY <1>13 DEF OpenWindow, WorthBound
<1>14. CASE LoseBucket
  <2>1. granted' = granted /\ Budget' = Budget + Capacity
    BY <1>3, <1>14 DEF LoseBucket
  <2>2. Worth' = Capacity
    BY <1>14 DEF LoseBucket, Worth
  <2>3. ASSUME granted * Scale + Worth <= Budget PROVE granted * Scale + Capacity <= Budget + Capacity
    BY <2>3, <1>2, <1>3
  <2>4. QED
    BY <2>1, <2>2, <2>3 DEF WorthBound
<1>15. CASE UNCHANGED vars
  <2>1. Worth' = Worth /\ Budget' = Budget /\ granted' = granted
    BY <1>3, <1>15 DEF vars, Worth
  <2>2. QED
    BY <2>1 DEF WorthBound
<1>16. QED
  BY <1>7, <1>8, <1>9, <1>10, <1>11, <1>12, <1>13, <1>14, <1>15 DEF Next

\* A promise shrinks no faster than the bucket fills, and nothing else touches
\* either while it stands.
LEMMA PromiseStep == TypeOK /\ PromiseKept /\ [Next]_vars => PromiseKept'
<1> SUFFICES ASSUME TypeOK, PromiseKept, [Next]_vars PROVE PromiseKept'
  OBVIOUS
<1>1. Refilled \in Int
  BY RefilledBounds
<1>2. CASE promise' = NoPromise
  BY <1>2 DEF PromiseKept
<1>3. CASE Deny
  <2>1. Scale - Refilled \in Nat \ {0}
    BY <1>1, <1>3, LimiterAssumption DEF Deny
  <2>2. RetryAfter \in Nat \ {0} /\ RetryAfter * Rps >= Scale - Refilled
    <3> DEFINE missing == Scale - Refilled
    <3>1. missing \in Nat \ {0} /\ missing \in Int /\ Rps \in Nat \ {0}
      BY <2>1, LimiterAssumption
    <3> HIDE DEF missing
    <3>2. CeilDiv(missing, Rps) \in Nat \ {0} /\ CeilDiv(missing, Rps) * Rps >= missing
      BY <3>1, CeilDivCovers, CeilDivPositive
    <3>3. QED
      BY <3>2 DEF RetryAfter, missing
  <2>3. tokens' + (idle' + promise') * Rps = Refilled + (0 + RetryAfter) * Rps
    BY <1>3 DEF Deny, Store
  <2>4. Refilled + (0 + RetryAfter) * Rps >= Scale
    <3>1. 0 + RetryAfter = RetryAfter /\ RetryAfter * Rps \in Int
      BY <2>2, LimiterAssumption
    <3>2. QED
      BY <3>1, <2>2, <1>1, LimiterAssumption
  <2>5. QED
    BY <2>2, <2>3, <2>4, <1>3 DEF Deny, Store, PromiseKept
<1>4. CASE Tick /\ promise # NoPromise
  <2>1. promise \in Nat /\ promise' \in Nat
    BY <1>4 DEF Tick, PromiseKept
  <2>2. CASE present
    <3>1. /\ idle + promise \in Int /\ idle' + promise' \in Int
          /\ idle + promise <= idle' + promise'
      BY <2>1, <2>2, <1>4 DEF Tick, TypeOK
    <3>2. /\ (idle + promise) * Rps \in Int /\ (idle' + promise') * Rps \in Int
          /\ (idle + promise) * Rps <= (idle' + promise') * Rps
      BY <3>1, LimiterAssumption, Product
    <3>3. tokens + (idle + promise) * Rps >= Scale /\ tokens' = tokens /\ tokens \in Int
      BY <2>2, <1>4 DEF Tick, PromiseKept, TypeOK
    <3>4. tokens + (idle' + promise') * Rps >= Scale
      BY <3>2, <3>3, LimiterAssumption
    <3>5. QED
      BY <2>1, <3>3, <3>4 DEF PromiseKept
  <2>3. CASE ~present
    BY <2>1, <2>3, <1>4 DEF Tick, PromiseKept
  <2>4. QED
    BY <2>2, <2>3
<1>5. CASE Tick /\ promise = NoPromise
  BY <1>2, <1>5 DEF Tick, NoPromise
<1>6. CASE Expire \/ LoseBucket
  BY <1>6 DEF Expire, LoseBucket, PromiseKept
<1>7. CASE OpenWindow
  BY <1>7 DEF OpenWindow, PromiseKept
<1>8. CASE UNCHANGED vars
  BY <1>8 DEF vars, PromiseKept
<1>9. CASE Allow \/ AllowAnswerLost \/ StepBack
  BY <1>2, <1>9 DEF Allow, AllowAnswerLost, StepBack
<1>10. QED
  BY <1>3, <1>4, <1>5, <1>6, <1>7, <1>8, <1>9 DEF Next

\* Only a clock that is set back makes the idle time or the tokens negative.
LEMMA ForwardStep == TypeOK /\ Forward /\ [Next]_vars => Forward'
<1> SUFFICES ASSUME TypeOK, Forward, [Next]_vars, stepped' = 0 PROVE tokens' >= 0 /\ idle' >= 0
  BY DEF Forward
<1> USE LimiterAssumption, Sizes
<1>1. CASE StepBack
  BY <1>1 DEF StepBack, TypeOK
<1>2. CASE ~StepBack
  <2>1. tokens >= 0 /\ idle >= 0
    BY <1>2 DEF Next, vars, Forward, Allow, AllowAnswerLost, Deny, Tick, Expire, LoseBucket, OpenWindow
  <2>2. Refilled \in Int /\ Refilled >= 0
    BY <2>1, RefilledBounds
  <2>3. CASE Allow \/ AllowAnswerLost \/ Deny
    BY <2>2, <2>3 DEF Allow, AllowAnswerLost, Deny, Store
  <2>4. CASE Tick \/ Expire \/ LoseBucket \/ OpenWindow \/ UNCHANGED vars
    BY <2>1, <2>4 DEF Tick, Expire, LoseBucket, OpenWindow, vars, TypeOK
  <2>5. QED
    BY <2>3, <2>4, <1>2 DEF Next
<1>3. QED
  BY <1>1, <1>2

\* Every behaviour of the limiter satisfies its inductive invariant.
THEOREM LimiterSafe == Spec => []LimiterInv
<1>1. LimiterInv /\ [Next]_vars => LimiterInv'
  BY TypeStep, WorthStep, PromiseStep, ForwardStep DEF LimiterInv
<1>2. QED
  BY LimiterStart, <1>1, PTL DEF Spec

-----------------------------------------------------------------------------
(***************************************************************************)
(* The theorems.                                                           *)
(***************************************************************************)

\* The variables keep their types, and the bucket its capacity.
THEOREM LimiterTypes == Spec => []TypeOK
<1>1. LimiterInv => TypeOK
  BY DEF LimiterInv
<1>2. QED
  BY LimiterSafe, <1>1, PTL

\* In every window, whenever it begins, the script admits at most a burst, one
\* more for each loss of the bucket, and what the rate adds: for every burst, rate and resolution of the clock.
THEOREM RateBoundHolds == Spec => []RateBound
<1>1. LimiterInv => RateBound
  <2> SUFFICES ASSUME LimiterInv PROVE RateBound
    OBVIOUS
  <2>1. Worth \in Int /\ 0 <= Worth
    BY RefilledBounds DEF LimiterInv
  <2>2. granted \in Nat /\ losses \in Nat /\ elapsed \in Nat
    BY LimiterAssumption DEF LimiterInv, TypeOK
  <2>3. granted * Scale \in Int /\ 0 * Scale = 0 /\ Budget \in Int /\ Budget >= Capacity
    BY <2>2, LimiterAssumption, Product, Budgets DEF Budget
  <2>4. CASE granted = 0
    <3>1. granted * Scale = 0
      BY <2>3, <2>4
    <3>2. QED
      BY <3>1, <2>3, Sizes DEF RateBound
  <2>5. CASE granted # 0
    <3>1. granted * Scale + Worth <= Budget
      BY <2>5 DEF LimiterInv, WorthBound
    <3>2. QED
      BY <3>1, <2>1, <2>3 DEF RateBound
  <2>6. QED
    BY <2>4, <2>5
<1>2. QED
  BY LimiterSafe, <1>1, PTL

\* A refused client that waits for as long as Retry-After says finds a token.
THEOREM RetryAfterHonestHolds == Spec => []RetryAfterHonest
<1>1. LimiterInv => RetryAfterHonest
  <2> SUFFICES ASSUME LimiterInv, promise = 0 PROVE Refilled >= Scale
    BY DEF RetryAfterHonest
  <2>1. present => tokens + (idle + 0) * Rps >= Scale
    BY DEF LimiterInv, PromiseKept, NoPromise
  <2>2. idle + 0 = idle
    BY DEF LimiterInv, TypeOK
  <2>3. QED
    BY <2>1, <2>2, Sizes DEF Refilled
<1>2. QED
  BY LimiterSafe, <1>1, PTL

\* While the clock runs forward the key of a bucket expires only when the bucket
\* is full, so that no client can tell.
THEOREM ExpiryInvisibleHolds == Spec => ExpiryInvisible
<1>1. LimiterInv /\ [Next]_vars =>
        [present /\ ~present' /\ stepped = 0 /\ losses' = losses => Refilled = Capacity]_vars
  <2> SUFFICES ASSUME LimiterInv, Next, present, ~present', stepped = 0, losses' = losses
               PROVE  Refilled = Capacity
    OBVIOUS
  <2>0. ~LoseBucket
    BY LimiterAssumption DEF LoseBucket, LimiterInv, TypeOK
  <2>1. Expire
    BY <2>0 DEF Next, Allow, AllowAnswerLost, Deny, Store, Tick, StepBack, OpenWindow
  <2>2. tokens \in Int /\ tokens >= 0 /\ idle = Expiry
    BY <2>1 DEF Expire, LimiterInv, TypeOK, Forward
  <2>3. tokens + idle * Rps \in Int /\ tokens + idle * Rps >= Capacity
    BY <2>2, Sizes, Product, LimiterAssumption
  <2>4. QED
    BY <2>3, Sizes DEF Refilled
<1>2. QED
  BY LimiterSafe, <1>1, PTL DEF Spec, ExpiryInvisible

=============================================================================
