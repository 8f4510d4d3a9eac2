------------------------- MODULE ApiLifecycleProofs ------------------------
(***************************************************************************)
(* Theorems about ApiLifecycle: what main's order of opening, waiting and  *)
(* closing guarantees, for every set of requests and all the timeouts that *)
(* LifecycleAssumption allows.                                             *)
(***************************************************************************)
EXTENDS ApiLifecycle, SequenceTheorems, TLAPS

Resources == {"observability", "pool", "redis", "worker", "publisher"}

Stages == {"starting", "serving", "notified", "draining", "closing", "stopped", "exited"}

Types ==
  /\ stage \in Stages /\ opened \in 0..7 /\ deferred \in Seq(Resources)
  /\ explicit \in BOOLEAN
  /\ cause \in {"none", "startup", "listen", "early", "crash", "drain"}
  /\ timer \in Nat /\ grace \in Nat /\ lag \in Nat
  /\ late \in BOOLEAN /\ routed \in BOOLEAN /\ key \in BOOLEAN /\ redisUp \in BOOLEAN
  /\ outages \in Nat /\ redisFailed \in BOOLEAN
  /\ req \in [Requests -> {"none", "running", "answered", "early", "refused", "cut"}]
  /\ click \in [Redirects -> {"none", "publishing", "delivered", "failed", "lost"}]
  /\ age \in [Redirects -> 0..DeliveryTimeout]

\* The deferred calls in the order of their registration.
Order ==
  IF explicit
    THEN <<"observability", "pool", "redis", "publisher">>
    ELSE <<"observability", "pool", "redis", "worker", "publisher">>

\* How many of them are registered after the steps that are done.
Registered ==
  IF opened <= 3 THEN opened
  ELSE IF opened <= 5 THEN Len(Order) - 1
  ELSE Len(Order)

\* The deferred calls are a prefix of Order: all that are registered until main
\* returns, fewer and fewer after that.
StackInv ==
  /\ Len(deferred) <= Registered
  /\ \A i \in 1..Len(deferred) : deferred[i] = Order[i]
  /\ stage \in {"starting", "serving", "notified", "draining"} => Len(deferred) = Registered
  /\ stage \in {"serving", "notified", "draining", "closing", "stopped"} => opened = 7
  /\ stage = "stopped" => deferred = <<>>

\* The worker ID's key is held from its lease to its release, which does not fail
\* unless Redis does.
KeyInv ==
  /\ stage \in {"serving", "notified", "draining"} => explicit \/ key
  /\ stage = "starting" /\ ~explicit /\ opened >= 4 => key
  /\ key => ~explicit
  /\ key /\ stage = "stopped" => redisFailed
  /\ key /\ stage = "closing" /\ ~redisFailed => Len(deferred) >= 4
  /\ ~explicit /\ opened >= 4 /\ ~redisFailed => redisUp

\* Requests run only while their resources are open; what is routed to a closed
\* listener is late or comes after a crash.
TrafficInv ==
  /\ Alive => cause = "none"
  /\ stage = "starting" => ~routed /\ \A r \in Requests : req[r] = "none"
  /\ stage = "notified" /\ routed /\ ~late => lag < timer
  /\ stage \in {"draining", "closing", "stopped"} /\ routed => late
  /\ stage = "exited" /\ routed => late \/ cause = "crash"
  /\ \A r \in Requests :
       /\ req[r] = "running" => stage \in {"serving", "notified", "draining"}
       /\ req[r] = "refused" => stage \notin {"starting", "serving"}

\* A click of before SIGTERM is as old as the signal, and as the sleep when that is over.
ClickInv ==
  \A r \in Redirects :
    req[r] = "early" /\ click[r] = "publishing" =>
      \/ stage = "serving"
      \/ stage = "notified" /\ PreStopDelay <= timer + age[r]
      \/ stage \in {"draining", "closing"} /\ PreStopDelay <= age[r]

\* What the deferred calls that wait behind the current one may take.
Owed ==
  (IF Len(deferred) >= 2 THEN FlushTimeout ELSE 0) + (IF Len(deferred) >= 3 THEN PingTimeout ELSE 0)
    + (IF Len(deferred) >= 5 THEN ReleaseTimeout ELSE 0)

\* The grace period covers what is still to be waited for.
GraceInv ==
  /\ stage \in {"starting", "serving"} => grace = GracePeriod
  /\ stage = "notified" => grace > timer + DrainTimeout + ReleaseTimeout + PingTimeout + FlushTimeout
  /\ stage = "draining" => grace > timer + ReleaseTimeout + PingTimeout + FlushTimeout
  /\ stage = "closing" => grace > timer + Owed

Traffic == TrafficInv /\ NoRequestDropped

Clicks == ClickInv /\ EarlyClicksKept

LifeInv == Types /\ StackInv /\ KeyInv /\ Traffic /\ Clicks /\ GraceInv

-----------------------------------------------------------------------------
(***************************************************************************)
(* Sequences and cases.                                                    *)
(***************************************************************************)

\* Taking the last element off a sequence leaves the others where they are.
LEMMA FrontStays ==
  ASSUME NEW S, NEW s \in Seq(S), s # <<>>
  PROVE  /\ SubSeq(s, 1, Len(s) - 1) \in Seq(S)
         /\ Len(s) \in Nat \ {0} /\ Len(SubSeq(s, 1, Len(s) - 1)) = Len(s) - 1
         /\ \A i \in 1..(Len(s) - 1) : SubSeq(s, 1, Len(s) - 1)[i] = s[i]
<1> DEFINE n == Len(s) - 1
<1>1. Len(s) \in Nat \ {0}
  BY EmptySeq
<1>2. n \in Nat /\ \A i \in 1..n : s[i] \in S
  BY <1>1, LenProperties
<1> HIDE DEF n
<1>3. /\ SubSeq(s, 1, n) \in Seq(S)
      /\ Len(SubSeq(s, 1, n)) = IF 1 <= n THEN n - 1 + 1 ELSE 0
      /\ \A i \in 1..(n - 1 + 1) : SubSeq(s, 1, n)[i] = s[1 + i - 1]
  BY <1>2, SubSeqProperties
<1>4. Len(SubSeq(s, 1, n)) = n /\ \A i \in 1..n : SubSeq(s, 1, n)[i] = s[i]
  BY <1>2, <1>3
<1>5. QED
  BY <1>1, <1>3, <1>4 DEF n

\* The steps of the start, in main's order.
LEMMA Steps ==
  /\ Len(Startup) = 7
  /\ Startup[1] = "observability" /\ Startup[2] = "pool" /\ Startup[3] = "redis"
  /\ Startup[4] = "worker" /\ Startup[5] = "codec" /\ Startup[6] = "publisher" /\ Startup[7] = "limits"
  BY DEF Startup

\* The deferred calls, in the order of their registration.
LEMMA Orders ==
  /\ Order[1] = "observability" /\ Order[2] = "pool" /\ Order[3] = "redis"
  /\ explicit => Len(Order) = 4 /\ Order[4] = "publisher"
  /\ ~explicit => Len(Order) = 5 /\ Order[4] = "worker" /\ Order[5] = "publisher"
<1>1. CASE explicit
  BY <1>1 DEF Order
<1>2. CASE ~explicit
  BY <1>2 DEF Order
<1>3. QED
  BY <1>1, <1>2

\* The ends that are not a return.
Ends == OpenFails \/ ListenFails \/ NotifyTooEarly \/ Crash \/ DrainFails

\* Where the process is when it ends without a return, and for what cause.
LEMMA EndCases ==
  ASSUME Ends
  PROVE  /\ stage' = "exited" /\ Alive /\ Gone
         /\ UNCHANGED <<opened, deferred, bad, explicit, timer, kubeVars, depVars>>
         /\ \/ stage = "starting" /\ cause' \in {"startup", "early"}
            \/ /\ stage = "serving" /\ cause' = "listen" /\ ~routed
               /\ \A r \in Requests : req[r] = "none"
            \/ stage = "draining" /\ cause' = "drain"
            \/ cause' = "crash"
  BY DEF Ends, OpenFails, ListenFails, NotifyTooEarly, Crash, DrainFails, Exit, Alive

\* What requests, clicks and their ages become with the process has its type.
LEMMA GoneTypes ==
  ASSUME Types, Gone
  PROVE  /\ req' \in [Requests -> {"none", "running", "answered", "early", "refused", "cut"}]
         /\ click' \in [Redirects -> {"none", "publishing", "delivered", "failed", "lost"}]
         /\ age' \in [Redirects -> 0..DeliveryTimeout]
<1>1. req' \in [Requests -> {"none", "running", "answered", "early", "refused", "cut"}]
  BY DEF Types, Gone
<1>2. click' \in [Redirects -> {"none", "publishing", "delivered", "failed", "lost"}]
  BY DEF Types, Gone
<1>3. age' \in [Redirects -> 0..DeliveryTimeout]
  BY DEF Types, Gone
<1>4. QED
  BY <1>1, <1>2, <1>3

-----------------------------------------------------------------------------
(***************************************************************************)
(* The invariant holds at the start.                                       *)
(***************************************************************************)

\* The process starts with nothing open.
LEMMA LifeStart == Init => LifeInv
<1> SUFFICES ASSUME Init PROVE LifeInv
  OBVIOUS
<1> USE LifecycleAssumption
<1>1. /\ explicit \in BOOLEAN /\ late \in BOOLEAN /\ routed \in BOOLEAN /\ key \in BOOLEAN
      /\ redisUp \in BOOLEAN /\ ~routed /\ ~key /\ redisFailed \in BOOLEAN
  BY Zenon DEF Init
<1>2. deferred \in Seq(Resources) /\ Len(deferred) = 0
  BY EmptySeq DEF Init
<1>3. Types
  BY <1>1, <1>2 DEF Init, Types, Stages
<1>4. StackInv
  BY <1>2 DEF Init, StackInv, Registered
<1>5. KeyInv
  BY <1>1 DEF Init, KeyInv
<1>6. TrafficInv
  BY <1>1 DEF Init, TrafficInv, Alive
<1>7. ClickInv /\ EarlyClicksKept
  BY DEF Init, ClickInv, EarlyClicksKept
<1>8. GraceInv
  BY DEF Init, GraceInv
<1>9. NoRequestDropped
  BY DEF Init, NoRequestDropped
<1>10. QED
  BY <1>3, <1>4, <1>5, <1>6, <1>7, <1>8, <1>9 DEF LifeInv, Traffic, Clicks

-----------------------------------------------------------------------------
(***************************************************************************)
(* Every step keeps it, part by part.                                      *)
(***************************************************************************)

\* The types are kept.
LEMMA TypesStep == Types /\ [Next]_vars => Types'
<1> SUFFICES ASSUME Types, [Next]_vars PROVE Types'
  OBVIOUS
<1>0. /\ outages \in Nat /\ age \in [Redirects -> 0..DeliveryTimeout] /\ DeliveryTimeout \in Nat
      /\ click \in [Redirects -> {"none", "publishing", "delivered", "failed", "lost"}]
  BY LifecycleAssumption DEF Types
<1> USE LifecycleAssumption DEF Stages, mainVars, kubeVars, depVars, userVars
<1>1. CASE Open
  <2>1. opened' \in 0..7
    BY <1>1, Steps DEF Open, Types
  <2>2. deferred' \in Seq(Resources)
    <3> DEFINE step == Startup[opened + 1]
    <3>1. CASE step \in Closed
      <4>1. step \in Resources /\ deferred' = Append(deferred, step)
        BY <1>1, <3>1 DEF Open, Closed, Resources
      <4>2. QED
        BY <4>1 DEF Types
    <3>2. CASE step \notin Closed
      BY <1>1, <3>2 DEF Open, Types
    <3>3. QED
      BY <3>1, <3>2
  <2>3. key' \in BOOLEAN
    BY <1>1, Zenon DEF Open
  <2>4. QED
    BY <2>1, <2>2, <2>3, <1>1 DEF Open, Types
<1>2. CASE Ends
  <2>1. /\ req' \in [Requests -> {"none", "running", "answered", "early", "refused", "cut"}]
        /\ click' \in [Redirects -> {"none", "publishing", "delivered", "failed", "lost"}]
        /\ age' \in [Redirects -> 0..DeliveryTimeout]
    BY <1>2, EndCases, GoneTypes
  <2>2. cause' \in {"none", "startup", "listen", "early", "crash", "drain"} /\ stage' = "exited"
    BY <1>2, EndCases
  <2>3. QED
    BY <2>1, <2>2, <1>2, EndCases DEF Types
<1>3. CASE Serve
  BY <1>3 DEF Serve, Types
<1>4. CASE Probe
  <2>1. routed' \in BOOLEAN
    BY <1>4, Zenon DEF Probe, Readyz
  <2>2. QED
    BY <2>1, <1>4 DEF Probe, Types
<1>5. CASE Notify
  <2>1. late' \in BOOLEAN /\ lag' \in Nat /\ timer' \in Nat /\ stage' = "notified"
    BY <1>5 DEF Notify
  <2>2. UNCHANGED <<opened, deferred, bad, explicit, cause, grace, routed, depVars, userVars>>
    BY <1>5 DEF Notify
  <2>3. QED
    BY <2>1, <2>2 DEF Types
<1>6. CASE Deregister
  <2>1. routed' \in BOOLEAN
    BY <1>6, Zenon DEF Deregister
  <2>2. QED
    BY <2>1, <1>6 DEF Deregister, Types
<1>7. CASE PostgresFlips
  <2>1. outages' = outages + 1 \/ outages' = outages
    BY <1>7, Zenon DEF PostgresFlips
  <2>2. outages' \in Nat
    BY <2>1, <1>0
  <2>3. UNCHANGED <<mainVars, kubeVars, key, redisUp, redisFailed, userVars>>
    BY <1>7 DEF PostgresFlips
  <2>4. QED
    BY <2>2, <2>3 DEF Types
<1>8. CASE RedisFlips
  <2>1. redisUp' \in BOOLEAN
    BY <1>8, Zenon DEF RedisFlips
  <2>2. outages' = outages + 1 \/ outages' = outages
    BY <1>8, Zenon DEF RedisFlips
  <2>3. outages' \in Nat
    BY <2>2, <1>0
  <2>4. redisFailed' \in BOOLEAN
    BY <1>8, Zenon DEF RedisFlips
  <2>5. QED
    BY <2>1, <2>3, <2>4, <1>8 DEF RedisFlips, Types
<1>9. ASSUME NEW r \in Requests, Arrive(r) \/ Answer(r) PROVE Types'
  <2>1. \E result \in {"running", "answered", "refused"} : req' = [req EXCEPT ![r] = result]
    BY <1>9 DEF Arrive, Answer
  <2>2. req' \in [Requests -> {"none", "running", "answered", "early", "refused", "cut"}]
    BY <2>1 DEF Types
  <2>3. UNCHANGED <<mainVars, kubeVars, depVars, click, age>>
    BY <1>9 DEF Arrive, Answer
  <2>4. QED
    BY <2>2, <2>3 DEF Types
<1>10. ASSUME NEW r \in Redirects, Redirect(r) PROVE Types'
  <2>1. r \in Requests
    BY DEF Requests
  <2>2. /\ req' \in [Requests -> {"none", "running", "answered", "early", "refused", "cut"}]
        /\ UNCHANGED <<mainVars, kubeVars, depVars, age>>
    BY <2>1, <1>10 DEF Redirect, Types
  <2>3. click' \in [Redirects -> {"none", "publishing", "delivered", "failed", "lost"}]
    BY <1>10, <1>0 DEF Redirect
  <2>4. QED
    BY <2>2, <2>3 DEF Types
<1>11. ASSUME NEW r \in Redirects, Publish(r) PROVE Types'
  <2>1. UNCHANGED <<mainVars, kubeVars, depVars, req>>
    BY <1>11 DEF Publish
  <2>2. /\ click' \in [Redirects -> {"none", "publishing", "delivered", "failed", "lost"}]
        /\ age' \in [Redirects -> 0..DeliveryTimeout]
    BY <1>11, <1>0 DEF Publish
  <2>3. QED
    BY <2>1, <2>2, SMTT(20) DEF Types
<1>12. CASE Drain
  BY <1>12 DEF Drain, Types
<1>13. ASSUME NEW calls, RunNext(calls) PROVE timer' \in Nat
  BY <1>13 DEF RunNext, Limit
<1>14. CASE Drained
  <2>1. timer' \in Nat
    BY <1>13, <1>14 DEF Drained
  <2>2. QED
    BY <2>1, <1>14 DEF Drained, Types
<1>15. CASE Close
  <2>1. timer' \in Nat
    BY <1>13, <1>15 DEF Close
  <2>2. deferred' \in Seq(Resources)
    BY <1>15, FrontStays DEF Close, Types
  <2>3. key' \in BOOLEAN
    BY <1>15, Zenon DEF Close, CloseEffect, Release, Types
  <2>4. /\ click' \in [Redirects -> {"none", "publishing", "delivered", "failed", "lost"}]
        /\ age' \in [Redirects -> 0..DeliveryTimeout]
    <3>1. CASE ClosePublisher
      BY <3>1 DEF ClosePublisher, Types
    <3>2. CASE UNCHANGED <<click, age>>
      BY <3>2 DEF Types
    <3>3. QED
      BY <3>1, <3>2, <1>15 DEF Close, CloseEffect
  <2>5. QED
    BY <2>1, <2>2, <2>3, <2>4, <1>15 DEF Close, Types
<1>16. CASE Stop
  <2>1. /\ req' \in [Requests -> {"none", "running", "answered", "early", "refused", "cut"}]
        /\ click' \in [Redirects -> {"none", "publishing", "delivered", "failed", "lost"}]
        /\ age' \in [Redirects -> 0..DeliveryTimeout]
    BY <1>16, GoneTypes DEF Stop
  <2>2. QED
    BY <2>1, <1>16 DEF Stop, Types
<1>17. CASE Tick
  <2>1. age' \in [Redirects -> 0..DeliveryTimeout]
    BY <1>17, <1>0 DEF Tick
  <2>2. timer' \in Nat /\ lag' \in Nat /\ grace' \in Nat
    BY <1>17 DEF Tick, Types
  <2>3. QED
    BY <2>1, <2>2, <1>17 DEF Tick, Types
<1>18. CASE UNCHANGED vars
  BY <1>18 DEF vars, Types
<1>19. QED
  BY <1>1, <1>2, <1>3, <1>4, <1>5, <1>6, <1>7, <1>8, <1>9, <1>10, <1>11, <1>12, <1>14, <1>15,
     <1>16, <1>17, <1>18 DEF Next, MainStep, Ends

\* A step of the start registers the next call of Order, or none.
LEMMA OpenRegisters ==
  ASSUME Types, StackInv, Open
  PROVE  /\ opened < 7 /\ opened' = opened + 1 /\ stage = "starting" /\ UNCHANGED <<stage, explicit>>
         /\ Len(deferred') = Registered'
         /\ \A i \in 1..Len(deferred') : deferred'[i] = Order[i]
<1> DEFINE step == Startup[opened + 1]
<1>1. /\ opened \in 0..6 /\ opened' = opened + 1 /\ stage = "starting" /\ UNCHANGED <<stage, explicit>>
      /\ deferred' = IF step \in Closed THEN Append(deferred, step) ELSE deferred
  BY Steps DEF Open, Types
<1>2. /\ Len(deferred) = Registered /\ deferred \in Seq(Resources)
      /\ \A i \in 1..Len(deferred) : deferred[i] = Order[i]
  BY <1>1 DEF StackInv, Types
<1>3. Registered' = IF opened + 1 <= 3 THEN opened + 1
                    ELSE IF opened + 1 <= 5 THEN Len(Order) - 1 ELSE Len(Order)
  BY <1>1 DEF Registered, Order
<1>4. IF step \in Closed THEN Registered' = Registered + 1 /\ step = Order[Registered + 1]
                         ELSE Registered' = Registered
  <2>1. CASE opened \in {0, 1, 2}
    <3>1. Registered = opened /\ Registered' = opened + 1
      BY <2>1, <1>3 DEF Registered
    <3>2. step = Order[opened + 1] /\ step \in {"observability", "pool", "redis"}
      BY <2>1, Steps, Orders
    <3>3. QED
      BY <3>1, <3>2 DEF Closed
  <2>2. CASE opened = 3
    <3>1. step = "worker" /\ Registered = 3 /\ Registered' = Len(Order) - 1
      BY <2>2, <1>3, Steps DEF Registered
    <3>2. QED
      BY <3>1, Orders DEF Closed
  <2>3. CASE opened = 4
    <3>1. step = "codec" /\ Registered = Len(Order) - 1 /\ Registered' = Len(Order) - 1
      BY <2>3, <1>3, Steps DEF Registered
    <3>2. QED
      BY <3>1, Orders DEF Closed
  <2>4. CASE opened = 5
    <3>1. step = "publisher" /\ Registered = Len(Order) - 1 /\ Registered' = Len(Order)
      BY <2>4, <1>3, Steps DEF Registered
    <3>2. Len(Order) \in Nat /\ Order[Len(Order)] = "publisher"
      <4>1. (Len(Order) = 4 /\ Order[4] = "publisher") \/ (Len(Order) = 5 /\ Order[5] = "publisher")
        BY Orders, Zenon
      <4>2. QED
        BY <4>1
    <3>3. QED
      BY <3>1, <3>2 DEF Closed
  <2>5. CASE opened = 6
    <3>1. step = "limits" /\ Registered = Len(Order) /\ Registered' = Len(Order)
      BY <2>5, <1>3, Steps DEF Registered
    <3>2. QED
      BY <3>1, Orders DEF Closed
  <2>6. QED
    BY <2>1, <2>2, <2>3, <2>4, <2>5, <1>1
<1>5. CASE step \in Closed
  <2>1. Registered' = Registered + 1 /\ step = Order[Registered + 1]
    BY <1>4, <1>5
  <2>2. /\ Len(Append(deferred, step)) = Len(deferred) + 1
        /\ \A i \in 1..Len(deferred) : Append(deferred, step)[i] = deferred[i]
        /\ Append(deferred, step)[Len(deferred) + 1] = step
        /\ Len(deferred) \in Nat
    BY <1>2
  <2>3. QED
    BY <2>1, <2>2, <1>1, <1>2, <1>5
<1>6. CASE step \notin Closed
  <2>1. Registered' = Registered
    BY <1>4, <1>6
  <2>2. QED
    BY <2>1, <1>1, <1>2, <1>6
<1>7. QED
  BY <1>1, <1>5, <1>6

\* The deferred calls stay a prefix of Order.
LEMMA StackStep == Types /\ StackInv /\ [Next]_vars => StackInv'
<1> SUFFICES ASSUME Types, StackInv, [Next]_vars PROVE StackInv'
  OBVIOUS
<1> USE DEF mainVars
<1>0. UNCHANGED <<opened, explicit>> => Registered' = Registered /\ Order' = Order
  BY DEF Registered, Order
<1>1. CASE Open
  <2>1. Order' = Order /\ stage' = "starting" /\ Registered' \in Nat
    BY <1>1, OpenRegisters, Orders DEF Order, Registered, Types
  <2>2. QED
    BY <2>1, <1>1, OpenRegisters DEF StackInv
<1>2. CASE Ends
  BY <1>0, <1>2, EndCases DEF StackInv
<1>3. CASE Serve
  <2>1. opened = 7 /\ stage' = "serving" /\ stage = "starting" /\ UNCHANGED <<opened, deferred, explicit>>
    BY <1>3, Steps DEF Serve
  <2>2. QED
    BY <2>1, <1>0 DEF StackInv
<1>4. CASE Notify \/ Drain \/ Drained
  <2>1. /\ UNCHANGED <<opened, deferred, explicit>> /\ stage \in {"serving", "notified", "draining"}
        /\ stage' \in {"notified", "draining", "closing"}
    BY <1>4 DEF Notify, Drain, Drained
  <2>2. QED
    BY <2>1, <1>0 DEF StackInv
<1>5. CASE Close
  <2>1. /\ stage = "closing" /\ deferred # <<>> /\ UNCHANGED <<stage, opened, explicit>>
        /\ deferred' = SubSeq(deferred, 1, Len(deferred) - 1)
    BY <1>5 DEF Close
  <2>2. /\ Len(deferred) \in Nat \ {0} /\ Len(deferred') = Len(deferred) - 1
        /\ \A i \in 1..(Len(deferred) - 1) : deferred'[i] = deferred[i]
    BY <2>1, FrontStays DEF Types
  <2>3. Registered \in Nat
    BY Orders DEF Registered, Types
  <2>4. QED
    BY <2>1, <2>2, <2>3, <1>0 DEF StackInv
<1>6. CASE Stop
  BY <1>0, <1>6 DEF Stop, StackInv
<1>7. ASSUME UNCHANGED <<stage, opened, deferred, explicit>> PROVE StackInv'
  BY <1>0, <1>7 DEF StackInv
<1>8. ASSUME NEW r \in Requests, Arrive(r) \/ Answer(r) PROVE UNCHANGED <<stage, opened, deferred, explicit>>
  BY <1>8 DEF Arrive, Answer
<1>9. ASSUME NEW r \in Redirects, Redirect(r) \/ Publish(r) PROVE UNCHANGED <<stage, opened, deferred, explicit>>
  BY <1>9 DEF Redirect, Publish
<1>10. CASE Probe \/ Deregister \/ PostgresFlips \/ RedisFlips \/ Tick \/ UNCHANGED vars
  <2>1. UNCHANGED <<stage, opened, deferred, explicit>>
    BY <1>10 DEF Probe, Deregister, PostgresFlips, RedisFlips, Tick, vars
  <2>2. QED
    BY <2>1, <1>7
<1>11. QED
  BY <1>1, <1>2, <1>3, <1>4, <1>5, <1>6, <1>7, <1>8, <1>9, <1>10 DEF Next, MainStep, Ends

\* The call that main runs next, when it is closing.
LEMMA LastDeferred ==
  ASSUME Types, StackInv, stage \in {"draining", "closing"}, deferred # <<>>
  PROVE  /\ Len(deferred) \in 1..5 /\ (explicit => Len(deferred) \in 1..4)
         /\ Len(deferred) = 1 => deferred[Len(deferred)] = "observability"
         /\ Len(deferred) \in {2, 3} => deferred[Len(deferred)] \in {"pool", "redis"}
         /\ Len(deferred) = 4 => deferred[Len(deferred)] = IF explicit THEN "publisher" ELSE "worker"
         /\ Len(deferred) = 5 => deferred[Len(deferred)] = "publisher"
<1> DEFINE n == Len(deferred)
<1>1. n \in Nat \ {0}
  BY EmptySeq DEF Types
<1>2. n <= Len(Order) /\ \A i \in 1..n : deferred[i] = Order[i]
  BY Orders DEF StackInv, Registered
<1> HIDE DEF n
<1>3. deferred[n] = Order[n]
  BY <1>1, <1>2
<1>4. (n = 1 => deferred[n] = "observability") /\ (n \in {2, 3} => deferred[n] \in {"pool", "redis"})
  <2>1. n = 1 => deferred[n] = Order[1]
    BY <1>3
  <2>2. n = 2 => deferred[n] = Order[2]
    BY <1>3
  <2>3. n = 3 => deferred[n] = Order[3]
    BY <1>3
  <2>4. QED
    BY <2>1, <2>2, <2>3, Orders
<1>5. CASE explicit
  <2>1. Len(Order) = 4 /\ Order[4] = "publisher"
    BY <1>5, Orders
  <2>2. n \in 1..4
    BY <2>1, <1>1, <1>2
  <2>3. n = 4 => deferred[n] = "publisher"
    BY <2>1, <1>3
  <2>4. QED
    BY <2>2, <2>3, <1>4, <1>5, SMTT(20) DEF n
<1>6. CASE ~explicit
  <2>1. Len(Order) = 5 /\ Order[4] = "worker" /\ Order[5] = "publisher"
    BY <1>6, Orders
  <2>2. n \in 1..5
    BY <2>1, <1>1, <1>2
  <2>3. (n = 4 => deferred[n] = "worker") /\ (n = 5 => deferred[n] = "publisher")
    BY <2>1, <1>3
  <2>4. QED
    BY <2>2, <2>3, <1>4, <1>6 DEF n
<1>7. QED
  BY <1>5, <1>6

\* The key is there while requests run, and goes before the Redis client does.
LEMMA KeyStep == Types /\ StackInv /\ KeyInv /\ [Next]_vars => KeyInv'
<1> SUFFICES ASSUME Types, StackInv, KeyInv, [Next]_vars PROVE KeyInv'
  OBVIOUS
<1> USE DEF mainVars, depVars
<1>1. CASE Open
  <2>1. opened < 7 /\ opened' = opened + 1 /\ stage = "starting" /\ UNCHANGED <<stage, explicit>>
    BY <1>1, OpenRegisters
  <2>2. /\ key' <=> (key \/ (Startup[opened + 1] = "worker" /\ ~explicit))
        /\ UNCHANGED <<redisUp, redisFailed>>
    BY <1>1, Zenon DEF Open
  <2>3. opened = 3 /\ ~explicit => redisUp
    BY <1>1, Steps DEF Open, StepFails
  <2>4. opened = 3 /\ ~explicit => key'
    BY <2>2, Steps
  <2>5. opened \in Nat /\ (opened' >= 4 => opened = 3 \/ opened >= 4)
    BY <2>1 DEF Types
  <2>6. QED
    BY <2>1, <2>2, <2>3, <2>4, <2>5 DEF KeyInv
<1>2. CASE Ends
  BY <1>2, EndCases DEF KeyInv
<1>3. CASE Serve
  <2>1. opened = 7 /\ stage' = "serving" /\ stage = "starting" /\ UNCHANGED <<opened, explicit, key, redisUp, redisFailed>>
    BY <1>3, Steps DEF Serve
  <2>2. QED
    BY <2>1 DEF KeyInv
<1>4. CASE Notify \/ Drain
  <2>1. /\ UNCHANGED <<opened, explicit, key, redisUp, redisFailed>> /\ stage \in {"serving", "notified"}
        /\ stage' \in {"notified", "draining"}
    BY <1>4 DEF Notify, Drain
  <2>2. QED
    BY <2>1 DEF KeyInv
<1>5. CASE Drained
  <2>1. /\ UNCHANGED <<opened, deferred, explicit, key, redisUp, redisFailed>>
        /\ stage = "draining" /\ stage' = "closing"
    BY <1>5 DEF Drained
  <2>2. opened = 7 /\ Len(deferred) = Registered
    BY <2>1 DEF StackInv
  <2>3. Len(deferred) = Len(Order)
    BY <2>2 DEF Registered
  <2>4. ~explicit => Len(deferred) = 5
    BY <2>3, Orders
  <2>5. key => Len(deferred) >= 4
    <3>1. key => Len(deferred) = 5
      BY <2>4, Zenon DEF KeyInv
    <3>2. QED
      BY <3>1
  <2>6. QED
    BY <2>1, <2>5 DEF KeyInv
<1>6. CASE Close
  <2>1. /\ stage = "closing" /\ deferred # <<>> /\ UNCHANGED <<stage, opened, explicit, redisUp, redisFailed>>
        /\ deferred' = SubSeq(deferred, 1, Len(deferred) - 1) /\ opened = 7
    BY <1>6 DEF Close, StackInv
  <2>2. Len(deferred) \in Nat \ {0} /\ Len(deferred') = Len(deferred) - 1
    BY <2>1, FrontStays DEF Types
  <2>3. key' => key
    BY <1>6 DEF Close, CloseEffect, Release
  <2>4. Len(deferred) = 4 /\ ~redisFailed => ~key'
    <3> SUFFICES ASSUME Len(deferred) = 4, ~redisFailed, key' PROVE FALSE
      OBVIOUS
    <3>1. key /\ ~explicit /\ redisUp
      BY <2>1, <2>3 DEF KeyInv
    <3>2. deferred[4] = "worker"
      BY <3>1, <2>1, LastDeferred
    <3>3. deferred[3] = "redis"
      BY Orders DEF StackInv
    <3>4. Holds("redis")
      BY <3>3 DEF Holds
    <3>5. Release
      BY <3>2, <1>6 DEF Close, CloseEffect
    <3>6. QED
      BY <3>1, <3>4, <3>5 DEF Release, Released
  <2>5. key' /\ ~redisFailed => Len(deferred') >= 4
    <3> SUFFICES ASSUME key', ~redisFailed PROVE Len(deferred') >= 4
      OBVIOUS
    <3>1. Len(deferred) >= 4
      BY <2>1, <2>3 DEF KeyInv
    <3>2. Len(deferred) # 4
      BY <2>4
    <3>3. QED
      BY <3>1, <3>2, <2>2
  <2>6. QED
    BY <2>1, <2>3, <2>5 DEF KeyInv
<1>7. CASE Stop
  <2>1. stage = "closing" /\ stage' = "stopped" /\ deferred = <<>> /\ UNCHANGED <<opened, explicit, key, redisUp, redisFailed>>
    BY <1>7 DEF Stop
  <2>2. Len(deferred) = 0
    BY <2>1, EmptySeq
  <2>3. key => redisFailed
    BY <2>1, <2>2 DEF KeyInv, Types
  <2>4. QED
    BY <2>1, <2>3 DEF KeyInv
<1>8. CASE PostgresFlips \/ RedisFlips
  <2>1. /\ UNCHANGED <<stage, opened, deferred, explicit, key>>
        /\ redisFailed => redisFailed'
        /\ ~redisFailed' /\ redisUp => redisUp'
    <3>1. CASE PostgresFlips
      BY <3>1 DEF PostgresFlips
    <3>2. CASE RedisFlips
      BY <3>2, Zenon DEF RedisFlips
    <3>3. QED
      BY <3>1, <3>2, <1>8
  <2>2. QED
    BY <2>1 DEF KeyInv
<1>9. ASSUME UNCHANGED <<stage, opened, deferred, explicit, key, redisUp, redisFailed>> PROVE KeyInv'
  BY <1>9 DEF KeyInv
<1>10. ASSUME NEW r \in Requests, Arrive(r) \/ Answer(r)
       PROVE  UNCHANGED <<stage, opened, deferred, explicit, key, redisUp, redisFailed>>
  BY <1>10 DEF Arrive, Answer
<1>11. ASSUME NEW r \in Redirects, Redirect(r) \/ Publish(r)
       PROVE  UNCHANGED <<stage, opened, deferred, explicit, key, redisUp, redisFailed>>
  BY <1>11 DEF Redirect, Publish
<1>12. CASE Probe \/ Deregister \/ Tick \/ UNCHANGED vars
  <2>1. UNCHANGED <<stage, opened, deferred, explicit, key, redisUp, redisFailed>>
    BY <1>12 DEF Probe, Deregister, Tick, vars
  <2>2. QED
    BY <2>1, <1>9
<1>13. QED
  BY <1>1, <1>2, <1>3, <1>4, <1>5, <1>6, <1>7, <1>8, <1>9, <1>10, <1>11, <1>12 DEF Next, MainStep, Ends

\* A request is dropped only by a late update of the endpoints, a crash or a drain
\* that runs out of time.
LEMMA TrafficStep == Types /\ Traffic /\ [Next]_vars => Traffic'
<1> SUFFICES ASSUME Types, Traffic, [Next]_vars PROVE Traffic'
  OBVIOUS
<1> USE DEF mainVars, kubeVars, depVars, userVars
<1>1. CASE Ends
  <2>1. /\ stage' = "exited" /\ Alive /\ cause = "none" /\ UNCHANGED <<routed, late>>
        /\ \A r \in Requests : req'[r] = IF req[r] = "running" THEN "cut" ELSE req[r]
        /\ \A r \in Requests : req[r] # "cut" /\ (req[r] = "refused" => late)
        /\ \/ stage = "starting" /\ cause' \in {"startup", "early"}
           \/ /\ stage = "serving" /\ cause' = "listen" /\ ~routed
              /\ \A r \in Requests : req[r] = "none"
           \/ stage = "draining" /\ cause' = "drain"
           \/ cause' = "crash"
    BY <1>1, EndCases DEF Gone, Traffic, TrafficInv, NoRequestDropped
  <2>2. TrafficInv'
    BY <2>1 DEF Traffic, TrafficInv, Alive
  <2>3. NoRequestDropped'
    BY <2>1 DEF Traffic, TrafficInv, NoRequestDropped
  <2>4. QED
    BY <2>2, <2>3 DEF Traffic
<1>2. ASSUME NEW r \in Requests, Arrive(r) PROVE Traffic'
  <2>1. /\ routed /\ UNCHANGED <<stage, cause, routed, late, lag, timer>>
        /\ req' = [req EXCEPT ![r] = IF Accepting THEN "running" ELSE "refused"]
    BY <1>2 DEF Arrive
  <2>2. CASE Accepting
    BY <2>1, <2>2 DEF Types, Traffic, TrafficInv, NoRequestDropped, Alive, Accepting
  <2>3. CASE ~Accepting
    <3>1. stage \notin {"starting", "serving", "notified"} /\ (late \/ cause = "crash")
      BY <2>1, <2>3 DEF Accepting, Types, Stages, Traffic, TrafficInv
    <3>2. QED
      BY <2>1, <2>3, <3>1 DEF Types, Traffic, TrafficInv, NoRequestDropped, Alive
  <2>4. QED
    BY <2>2, <2>3
<1>3. ASSUME NEW r \in Requests, NEW result \in {"answered", "early"}, req[r] = "running",
             req' = [req EXCEPT ![r] = result], UNCHANGED <<stage, cause, routed, late, lag, timer>>
      PROVE  Traffic'
  BY <1>3 DEF Types, Traffic, TrafficInv, NoRequestDropped, Alive
<1>4. ASSUME NEW r \in Requests, Answer(r) PROVE Traffic'
  BY <1>3, <1>4 DEF Answer
<1>5. ASSUME NEW r \in Redirects, Redirect(r) PROVE Traffic'
  <2>1. r \in Requests
    BY DEF Requests
  <2>2. QED
    BY <2>1, <1>3, <1>5 DEF Redirect
<1>6. CASE Notify
  <2>1. /\ stage = "serving" /\ stage' = "notified" /\ timer' = PreStopDelay /\ lag' \in 0..MaxLag
        /\ late' <=> (lag' >= PreStopDelay)
        /\ UNCHANGED <<cause, routed, req>>
    BY <1>6 DEF Notify
  <2>2. ~late' => lag' < timer'
    BY <2>1, LifecycleAssumption
  <2>3. QED
    BY <2>1, <2>2 DEF Traffic, TrafficInv, NoRequestDropped, Alive
<1>7. CASE Drain
  <2>1. /\ stage = "notified" /\ timer = 0 /\ stage' = "draining"
        /\ UNCHANGED <<cause, routed, late, req>>
    BY <1>7 DEF Drain
  <2>2. routed => late
    BY <2>1 DEF Types, Traffic, TrafficInv
  <2>3. QED
    BY <2>1, <2>2 DEF Traffic, TrafficInv, NoRequestDropped, Alive
<1>8. CASE Drained
  BY <1>8 DEF Drained, Traffic, TrafficInv, NoRequestDropped, Alive
<1>9. CASE Stop
  <2>1. /\ stage = "closing" /\ stage' = "stopped" /\ UNCHANGED <<cause, routed, late>>
        /\ \A r \in Requests : req'[r] = IF req[r] = "running" THEN "cut" ELSE req[r]
    BY <1>9 DEF Stop, Gone
  <2>2. \A r \in Requests : req[r] # "running" /\ req'[r] = req[r]
    BY <2>1 DEF Traffic, TrafficInv
  <2>3. QED
    BY <2>1, <2>2 DEF Traffic, TrafficInv, NoRequestDropped, Alive
<1>10. CASE Probe
  <2>1. stage = "serving" /\ UNCHANGED <<stage, cause, late, req>>
    BY <1>10 DEF Probe
  <2>2. QED
    BY <2>1 DEF Traffic, TrafficInv, NoRequestDropped, Alive
<1>11. CASE Deregister
  <2>1. /\ stage \in {"notified", "draining", "closing", "stopped"} /\ ~routed'
        /\ UNCHANGED <<stage, cause, late, req>>
    BY <1>11 DEF Deregister
  <2>2. QED
    BY <2>1 DEF Traffic, TrafficInv, NoRequestDropped, Alive
<1>12. CASE Tick
  <2>1. /\ UNCHANGED <<stage, cause, routed, late, req>> /\ stage # "starting"
        /\ (stage = "notified" /\ routed => timer' = timer - 1 /\ lag' = lag - 1)
    BY <1>12 DEF Tick
  <2>2. stage = "notified" /\ routed /\ ~late => lag' < timer'
    BY <2>1 DEF Types, Traffic, TrafficInv
  <2>3. QED
    BY <2>1, <2>2 DEF Traffic, TrafficInv, NoRequestDropped, Alive
<1>13. CASE Open \/ Close \/ Serve
  <2>1. /\ stage \in {"starting", "closing"} /\ (stage' = stage \/ (stage = "starting" /\ stage' = "serving"))
        /\ UNCHANGED <<cause, routed, late, req>>
    BY <1>13 DEF Open, Close, Serve
  <2>2. QED
    BY <2>1 DEF Traffic, TrafficInv, NoRequestDropped, Alive
<1>14. ASSUME UNCHANGED <<stage, cause, routed, late, lag, timer, req>> PROVE Traffic'
  BY <1>14 DEF Traffic, TrafficInv, NoRequestDropped, Alive
<1>15. ASSUME NEW r \in Redirects, Publish(r) PROVE Traffic'
  BY <1>14, <1>15 DEF Publish
<1>16. CASE PostgresFlips \/ RedisFlips \/ UNCHANGED vars
  BY <1>14, <1>16 DEF PostgresFlips, RedisFlips, vars
<1>17. QED
  BY <1>1, <1>2, <1>4, <1>5, <1>6, <1>7, <1>8, <1>9, <1>10, <1>11, <1>12, <1>13, <1>15, <1>16
     DEF Next, MainStep, Ends

\* A click of before SIGTERM that is not published when the sleep is over took as long.
LEMMA ClicksStep == Types /\ Traffic /\ Clicks /\ [Next]_vars => Clicks'
<1> SUFFICES ASSUME Types, Traffic, Clicks, [Next]_vars PROVE Clicks'
  OBVIOUS
<1> USE DEF mainVars, kubeVars, depVars, userVars
<1>0. /\ \A r \in Redirects : r \in Requests /\ age[r] \in Nat
      /\ timer \in Nat /\ PreStopDelay \in Nat
  BY LifecycleAssumption DEF Types, Requests
<1>1. CASE Ends
  <2>1. /\ \A r \in Redirects : req'[r] = IF req[r] = "running" THEN "cut" ELSE req[r]
        /\ \A r \in Redirects : click'[r] = IF click[r] = "publishing" THEN "lost" ELSE click[r]
        /\ cause = "none" /\ UNCHANGED age
        /\ \/ stage = "starting" /\ cause' \in {"startup", "early"}
           \/ /\ stage = "serving" /\ cause' = "listen"
              /\ \A r \in Requests : req[r] = "none"
           \/ stage = "draining" /\ cause' = "drain"
           \/ cause' = "crash"
    BY <1>0, <1>1, EndCases DEF Gone, Traffic, TrafficInv
  <2>2. \A r \in Redirects : req[r] = "early" /\ click[r] = "lost" => age[r] >= PreStopDelay
    BY <2>1 DEF Clicks, EarlyClicksKept
  <2>3. ASSUME NEW r \in Redirects, req[r] = "early", click[r] = "publishing"
        PROVE  cause' = "crash" \/ age[r] >= PreStopDelay
    BY <2>1, <2>3, <1>0 DEF Clicks, ClickInv
  <2>4. QED
    BY <2>1, <2>2, <2>3 DEF Clicks, ClickInv, EarlyClicksKept
<1>2. ASSUME NEW r \in Requests, NEW result \in {"running", "refused", "answered"},
             req' = [req EXCEPT ![r] = result], UNCHANGED <<stage, cause, timer, click, age>>
      PROVE  Clicks'
  BY <1>0, <1>2 DEF Types, Clicks, ClickInv, EarlyClicksKept
<1>3. ASSUME NEW r \in Requests, Arrive(r) \/ Answer(r) PROVE Clicks'
  BY <1>2, <1>3 DEF Arrive, Answer
<1>4. ASSUME NEW r \in Redirects, Redirect(r) PROVE Clicks'
  <2>1. /\ req' = [req EXCEPT ![r] = IF stage = "serving" THEN "early" ELSE "answered"]
        /\ click' = [click EXCEPT ![r] = "publishing"] /\ UNCHANGED <<stage, cause, timer, age>>
    BY <1>4 DEF Redirect
  <2>2. QED
    BY <2>1, <1>0 DEF Types, Clicks, ClickInv, EarlyClicksKept
<1>5. ASSUME NEW r \in Redirects, Publish(r) PROVE Clicks'
  <2>1. /\ \E result \in {"delivered", "failed"} : click' = [click EXCEPT ![r] = result]
        /\ age' = [age EXCEPT ![r] = 0] /\ UNCHANGED <<stage, cause, timer, req>>
    BY <1>5 DEF Publish
  <2>2. QED
    BY <2>1 DEF Types, Clicks, ClickInv, EarlyClicksKept
<1>6. CASE Notify
  <2>1. /\ stage = "serving" /\ stage' = "notified" /\ timer' = PreStopDelay
        /\ UNCHANGED <<cause, req, click, age>>
    BY <1>6 DEF Notify
  <2>2. QED
    BY <2>1, <1>0 DEF Clicks, ClickInv, EarlyClicksKept
<1>7. CASE Drain
  <2>1. /\ stage = "notified" /\ timer = 0 /\ stage' = "draining"
        /\ UNCHANGED <<cause, req, click, age>>
    BY <1>7 DEF Drain
  <2>2. \A r \in Redirects : req[r] = "early" /\ click[r] = "publishing" => PreStopDelay <= age[r]
    BY <2>1, <1>0 DEF Clicks, ClickInv
  <2>3. QED
    BY <2>1, <2>2 DEF Clicks, ClickInv, EarlyClicksKept
<1>8. CASE Drained
  <2>1. stage = "draining" /\ stage' = "closing" /\ UNCHANGED <<cause, req, click, age>>
    BY <1>8 DEF Drained
  <2>2. QED
    BY <2>1 DEF Clicks, ClickInv, EarlyClicksKept
<1>9. CASE Close \/ Stop
  <2>1. stage = "closing" /\ stage' \in {"closing", "stopped"} /\ UNCHANGED <<cause, age>>
    BY <1>9 DEF Close, Stop, Gone, CloseEffect, ClosePublisher
  <2>2. \A r \in Redirects : req'[r] = "early" => req[r] = "early"
    BY <1>0, <1>9 DEF Close, Stop, Gone
  <2>3. \A r \in Redirects :
          /\ click[r] # "publishing" => click'[r] = click[r]
          /\ stage' = "stopped" => click'[r] # "publishing"
    <3>1. CASE Stop
      BY <3>1 DEF Stop, Gone
    <3>2. CASE Close
      <4>1. stage' # "stopped" /\ (ClosePublisher \/ UNCHANGED <<click, age>>)
        BY <3>2 DEF Close, CloseEffect
      <4>2. QED
        BY <4>1 DEF ClosePublisher
    <3>3. QED
      BY <3>1, <3>2, <1>9
  <2>4. \A r \in Redirects : req[r] = "early" /\ click[r] = "publishing" => PreStopDelay <= age[r]
    BY <2>1 DEF Clicks, ClickInv
  <2>5. ClickInv'
    <3> SUFFICES ASSUME NEW r \in Redirects, req'[r] = "early", click'[r] = "publishing"
                 PROVE  stage' = "closing" /\ PreStopDelay <= age'[r]
      BY DEF ClickInv
    <3>1. req[r] = "early" /\ click[r] = "publishing"
      BY <2>2, <2>3
    <3>2. QED
      BY <3>1, <2>1, <2>3, <2>4
  <2>6. EarlyClicksKept'
    <3> SUFFICES ASSUME NEW r \in Redirects, req'[r] = "early", click'[r] = "lost"
                 PROVE  cause' = "crash" \/ age'[r] >= PreStopDelay
      BY DEF EarlyClicksKept
    <3>1. req[r] = "early" /\ click[r] \in {"publishing", "lost"}
      BY <2>2, <2>3
    <3>2. CASE click[r] = "publishing"
      BY <3>1, <3>2, <2>1, <2>4, <1>0
    <3>3. CASE click[r] = "lost"
      BY <3>1, <3>3, <2>1 DEF Clicks, EarlyClicksKept
    <3>4. QED
      BY <3>1, <3>2, <3>3
  <2>7. QED
    BY <2>5, <2>6 DEF Clicks
<1>10. CASE Tick
  <2>1. /\ UNCHANGED <<stage, cause, req, click>>
        /\ stage = "notified" => timer' = timer - 1 /\ timer > 0
        /\ \A r \in Redirects : age'[r] = IF click[r] = "publishing" THEN age[r] + 1 ELSE age[r]
    BY <1>10 DEF Tick
  <2>2. ASSUME NEW r \in Redirects, stage = "notified", click[r] = "publishing",
               PreStopDelay <= timer + age[r]
        PROVE  PreStopDelay <= timer' + age'[r]
    BY <2>1, <2>2, <1>0
  <2>3. \A r \in Redirects : age[r] >= PreStopDelay => age'[r] >= PreStopDelay
    BY <2>1, <1>0
  <2>4. QED
    BY <2>1, <2>2, <2>3 DEF Clicks, ClickInv, EarlyClicksKept
<1>11. CASE Open \/ Serve
  <2>1. stage = "starting" /\ UNCHANGED <<cause, req, click>>
    BY <1>11 DEF Open, Serve
  <2>2. \A r \in Redirects : req[r] # "early"
    BY <2>1, <1>0 DEF Traffic, TrafficInv
  <2>3. QED
    BY <2>1, <2>2 DEF Clicks, ClickInv, EarlyClicksKept
<1>12. CASE Probe \/ Deregister \/ PostgresFlips \/ RedisFlips \/ UNCHANGED vars
  <2>1. UNCHANGED <<stage, cause, timer, req, click, age>>
    BY <1>12 DEF Probe, Deregister, PostgresFlips, RedisFlips, vars
  <2>2. QED
    BY <2>1 DEF Clicks, ClickInv, EarlyClicksKept
<1>13. QED
  BY <1>1, <1>3, <1>4, <1>5, <1>6, <1>7, <1>8, <1>9, <1>10, <1>11, <1>12 DEF Next, MainStep, Ends

\* Time that covers what was owed covers what is left of it.
LEMMA Covers ==
  ASSUME NEW g \in Nat, NEW t \in Nat, NEW o \in Nat, NEW t2 \in Nat, NEW o2 \in Nat,
         g > t + o, t2 + o2 <= o
  PROVE  g > t2 + o2
  OBVIOUS

\* What is left of the grace period covers what main may still wait for.
LEMMA GraceStep == Types /\ StackInv /\ GraceInv /\ [Next]_vars => GraceInv'
<1> SUFFICES ASSUME Types, StackInv, GraceInv, [Next]_vars PROVE GraceInv'
  OBVIOUS
<1> USE DEF mainVars, kubeVars, depVars, userVars
<1>0. /\ timer \in Nat /\ grace \in Nat /\ PreStopDelay \in Nat /\ DrainTimeout \in Nat
      /\ ReleaseTimeout \in Nat /\ PingTimeout \in Nat /\ FlushTimeout \in Nat /\ GracePeriod \in Nat
      /\ PreStopDelay + DrainTimeout + ReleaseTimeout + PingTimeout + FlushTimeout < GracePeriod
      /\ deferred \in Seq(Resources)
  BY LifecycleAssumption DEF Types
<1>1. CASE Notify
  BY <1>0, <1>1 DEF Notify, GraceInv
<1>2. CASE Drain
  BY <1>0, <1>2 DEF Drain, GraceInv
<1>3. CASE Drained
  <2>1. /\ stage = "draining" /\ stage' = "closing" /\ UNCHANGED <<grace, deferred>> /\ RunNext(deferred)
    BY <1>3 DEF Drained
  <2>2. timer' = 0
    <3>1. CASE deferred = <<>>
      BY <2>1, <3>1 DEF RunNext
    <3>2. CASE deferred # <<>>
      <4>1. Len(deferred) = Len(Order)
        BY <2>1 DEF StackInv, Registered
      <4>2. deferred[Len(deferred)] = "publisher"
        <5>1. (Len(Order) = 4 /\ explicit) \/ (Len(Order) = 5 /\ ~explicit)
          BY Orders, Zenon
        <5>2. QED
          BY <5>1, <4>1, <3>2, <2>1, LastDeferred
      <4>3. QED
        BY <4>2, <2>1, <3>2 DEF RunNext, Limit
    <3>3. QED
      BY <3>1, <3>2
  <2>3. Owed' \in Nat /\ Owed' <= ReleaseTimeout + PingTimeout + FlushTimeout
    BY <2>1, <1>0 DEF Owed
  <2>4. /\ grace > timer + (ReleaseTimeout + PingTimeout + FlushTimeout)
        /\ ReleaseTimeout + PingTimeout + FlushTimeout \in Nat
    BY <2>1, <1>0 DEF GraceInv
  <2>5. grace > timer' + Owed'
    <3>1. timer' \in Nat /\ timer' + Owed' <= ReleaseTimeout + PingTimeout + FlushTimeout
      BY <2>2, <2>3
    <3>2. QED
      BY <3>1, <2>3, <2>4, <1>0, Covers
  <2>6. QED
    BY <2>1, <2>5 DEF GraceInv
<1>4. CASE Close
  <2>1. /\ stage = "closing" /\ deferred # <<>> /\ UNCHANGED <<stage, grace, opened, explicit>>
        /\ deferred' = SubSeq(deferred, 1, Len(deferred) - 1) /\ RunNext(deferred')
    BY <1>4 DEF Close
  <2>2. /\ Len(deferred) \in 1..5 /\ Len(deferred') = Len(deferred) - 1 /\ deferred' \in Seq(Resources)
        /\ \A i \in 1..(Len(deferred) - 1) : deferred'[i] = deferred[i]
    BY <2>1, <1>0, FrontStays, LastDeferred
  <2>3. grace > timer + Owed
    BY <2>1 DEF GraceInv
  <2>4. timer' \in Nat /\ Owed' \in Nat /\ Owed \in Nat /\ timer' + Owed' <= Owed
    <3>1. /\ \A i \in 1..(Len(deferred) - 1) : deferred'[i] = Order[i]
          /\ Len(deferred) > 1 => deferred' # <<>>
      <4>1. \A i \in 1..Len(deferred) : deferred[i] = Order[i]
        BY DEF StackInv
      <4>2. Len(deferred) > 1 => Len(deferred') # 0
        BY <2>2
      <4>3. QED
        BY <4>1, <4>2, <2>2, EmptySeq
    <3>2. CASE Len(deferred) = 1
      <4>1. deferred' = <<>>
        BY <3>2, <2>2, EmptySeq
      <4>2. timer' = 0 /\ Owed' = 0 /\ Owed = 0
        BY <4>1, <3>2, <2>1, <2>2 DEF RunNext, Owed
      <4>3. QED
        BY <4>2
    <3>3. CASE Len(deferred) = 2
      <4>1. deferred' # <<>> /\ Len(deferred') = 1 /\ deferred'[1] = "observability"
        BY <3>1, <3>3, <2>2, Orders
      <4>2. timer' = FlushTimeout /\ Owed' = 0 /\ Owed = FlushTimeout
        BY <4>1, <3>3, <2>1, <1>0 DEF RunNext, Limit, Owed
      <4>3. QED
        BY <4>2, <1>0
    <3>4. CASE Len(deferred) = 3
      <4>1. deferred' # <<>> /\ Len(deferred') = 2 /\ deferred'[2] = "pool"
        BY <3>1, <3>4, <2>2, Orders
      <4>2. timer' = PingTimeout
        BY <4>1, <2>1 DEF RunNext, Limit
      <4>3. Owed' = FlushTimeout /\ Owed = FlushTimeout + PingTimeout
        BY <4>1, <3>4, <1>0 DEF Owed
      <4>4. QED
        BY <4>2, <4>3, <1>0
    <3>5. CASE Len(deferred) = 4
      <4>1. deferred' # <<>> /\ Len(deferred') = 3 /\ deferred'[3] = "redis"
        BY <3>1, <3>5, <2>2, Orders
      <4>2. timer' = 0
        BY <4>1, <2>1 DEF RunNext, Limit
      <4>3. Owed' = FlushTimeout + PingTimeout /\ Owed = FlushTimeout + PingTimeout
        BY <4>1, <3>5, <1>0 DEF Owed
      <4>4. QED
        BY <4>2, <4>3, <1>0
    <3>6. CASE Len(deferred) = 5
      <4>1. ~explicit
        BY <3>6, <2>1, LastDeferred
      <4>2. Order[4] = "worker"
        BY <4>1, Orders
      <4>3. deferred' # <<>> /\ Len(deferred') = 4 /\ deferred'[4] = "worker"
        BY <4>2, <3>1, <3>6, <2>2
      <4>4. timer' = ReleaseTimeout
        BY <4>3, <2>1 DEF RunNext, Limit
      <4>5. Owed' = FlushTimeout + PingTimeout /\ Owed = FlushTimeout + PingTimeout + ReleaseTimeout
        BY <4>3, <3>6, <1>0 DEF Owed
      <4>6. QED
        BY <4>4, <4>5, <1>0
    <3>7. QED
      BY <3>2, <3>3, <3>4, <3>5, <3>6, <2>2
  <2>5. grace > timer' + Owed'
    BY <2>3, <2>4, <1>0, Covers
  <2>6. QED
    BY <2>1, <2>5 DEF GraceInv
<1>5. CASE Tick
  <2>1. /\ UNCHANGED <<stage, deferred>> /\ stage \in {"serving", "notified", "draining", "closing"}
        /\ stage = "serving" => grace' = grace
        /\ stage # "serving" => timer > 0 /\ timer' = timer - 1 /\ grace' = grace - 1
    BY <1>5 DEF Tick
  <2>2. Owed' = Owed /\ Owed \in Nat
    BY <2>1, <1>0 DEF Owed
  <2>3. QED
    BY <2>1, <2>2, <1>0 DEF GraceInv
<1>6. CASE Ends \/ Stop
  <2>1. stage' \in {"exited", "stopped"}
    BY <1>6, EndCases DEF Stop
  <2>2. QED
    BY <2>1 DEF GraceInv
<1>7. CASE Open \/ Serve
  <2>1. stage = "starting" /\ stage' \in {"starting", "serving"} /\ UNCHANGED grace
    BY <1>7 DEF Open, Serve
  <2>2. QED
    BY <2>1 DEF GraceInv
<1>8. ASSUME UNCHANGED <<stage, timer, grace, deferred>> PROVE GraceInv'
  BY <1>8 DEF GraceInv, Owed
<1>9. ASSUME NEW r \in Requests, Arrive(r) \/ Answer(r) PROVE GraceInv'
  BY <1>8, <1>9 DEF Arrive, Answer
<1>10. ASSUME NEW r \in Redirects, Redirect(r) \/ Publish(r) PROVE GraceInv'
  BY <1>8, <1>10 DEF Redirect, Publish
<1>11. CASE Probe \/ Deregister \/ PostgresFlips \/ RedisFlips \/ UNCHANGED vars
  <2>1. UNCHANGED <<stage, timer, grace, deferred>>
    BY <1>11 DEF Probe, Deregister, PostgresFlips, RedisFlips, vars
  <2>2. QED
    BY <2>1, <1>8
<1>12. QED
  BY <1>1, <1>2, <1>3, <1>4, <1>5, <1>6, <1>7, <1>9, <1>10, <1>11 DEF Next, MainStep, Ends

\* Every behaviour of the process satisfies the inductive invariant.
THEOREM LifeSafe == Spec => []LifeInv
<1>1. LifeInv /\ [Next]_vars => LifeInv'
  BY TypesStep, StackStep, KeyStep, TrafficStep, ClicksStep, GraceStep DEF LifeInv
<1>2. QED
  BY LifeStart, <1>1, PTL DEF Spec

-----------------------------------------------------------------------------
(***************************************************************************)
(* The theorems.                                                           *)
(***************************************************************************)

\* A request that runs finds everything open that its handler works with, and
\* the worker ID still its process's own.
THEOREM NoUseAfterCloseHolds == Spec => []NoUseAfterClose
<1>1. LifeInv => NoUseAfterClose
  <2> SUFFICES ASSUME LifeInv, NEW r \in Requests, req[r] = "running", NEW resource \in HandlerNeeds
               PROVE  (explicit \/ key) /\ Holds(resource)
    <3>1. "pool" \in HandlerNeeds
      BY DEF HandlerNeeds, Closed
    <3>2. QED
      BY <3>1 DEF NoUseAfterClose
  <2>1. stage \in {"serving", "notified", "draining"}
    BY DEF LifeInv, Traffic, TrafficInv
  <2>2. explicit \/ key
    BY <2>1 DEF LifeInv, KeyInv
  <2>3. Len(deferred) = Len(Order) /\ \A i \in 1..Len(deferred) : deferred[i] = Order[i]
    BY <2>1 DEF LifeInv, StackInv, Registered
  <2>4. resource \in {"pool", "redis", "publisher"} \/ (resource = "worker" /\ ~explicit)
    BY DEF HandlerNeeds, Closed
  <2>5. \E i \in 1..Len(Order) : Order[i] = resource
    <3>1. CASE explicit
      <4>1. Len(Order) = 4 /\ Order[4] = "publisher"
        BY <3>1, Orders
      <4>2. QED
        BY <4>1, <3>1, <2>4, Orders
    <3>2. CASE ~explicit
      <4>1. Len(Order) = 5 /\ Order[4] = "worker" /\ Order[5] = "publisher"
        BY <3>2, Orders
      <4>2. QED
        BY <4>1, <2>4, Orders
    <3>3. QED
      BY <3>1, <3>2
  <2>6. QED
    BY <2>2, <2>3, <2>5 DEF Holds
<1>2. QED
  BY LifeSafe, <1>1, PTL

\* A process that returns frees its slot, unless Redis failed.
THEOREM CleanStopFreesSlotHolds == Spec => []CleanStopFreesSlot
<1>1. LifeInv => CleanStopFreesSlot
  BY DEF LifeInv, KeyInv, Types, CleanStopFreesSlot
<1>2. QED
  BY LifeSafe, <1>1, PTL

\* A deploy drops no request, whatever the timing of the signal, the endpoints
\* and the requests, but for the causes NoRequestDropped names.
THEOREM NoRequestDroppedHolds == Spec => []NoRequestDropped
<1>1. LifeInv => NoRequestDropped
  BY DEF LifeInv, Traffic
<1>2. QED
  BY LifeSafe, <1>1, PTL

\* A click that was under way when SIGTERM came is lost only with a process that
\* dies, or if its publish takes preStopDelay or more, whatever DeliveryTimeout is.
THEOREM EarlyClicksKeptHolds == Spec => []EarlyClicksKept
<1>1. LifeInv => EarlyClicksKept
  BY DEF LifeInv, Clicks
<1>2. QED
  BY LifeSafe, <1>1, PTL

\* The grace period is never used up, for all timeouts that sum up to less.
THEOREM GraceSufficesHolds == Spec => []GraceSuffices
<1>1. LifeInv => GraceSuffices
  <2> SUFFICES ASSUME LifeInv, Alive PROVE grace > 0
    BY DEF GraceSuffices
  <2>1. stage \in {"starting", "serving", "notified", "draining", "closing"}
    BY DEF LifeInv, Types, Stages, Alive
  <2>2. /\ timer \in Nat /\ grace \in Nat /\ DrainTimeout \in Nat /\ ReleaseTimeout \in Nat
        /\ PingTimeout \in Nat /\ FlushTimeout \in Nat /\ GracePeriod \in Nat \ {0}
    BY LifecycleAssumption DEF LifeInv, Types
  <2>3. Owed \in Nat
    BY <2>2 DEF Owed
  <2>4. QED
    BY <2>1, <2>2, <2>3 DEF LifeInv, GraceInv
<1>2. QED
  BY LifeSafe, <1>1, PTL

=============================================================================
