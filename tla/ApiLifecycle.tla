---------------------------- MODULE ApiLifecycle ----------------------------
(***************************************************************************)
(* cmd/api/main.go: one API process from its start to its end, the probes  *)
(* of NewOpsRouter that Kubernetes routes by, the requests it serves and   *)
(* the clicks it publishes (internal/http/links.go, internal/events).      *)
(*                                                                         *)
(* main opens its resources in order and registers the closing of each;    *)
(* only a return runs what is registered, last first, and os.Exit does     *)
(* not.  Kubernetes is external: it routes to a pod that is ready, and on  *)
(* termination it sends SIGTERM, stops routing some time later, and kills  *)
(* the pod when the grace period is over, which GraceSuffices shows never  *)
(* to happen.                                                              *)
(***************************************************************************)
EXTENDS Integers, Sequences, FiniteSets

CONSTANTS
  Creates,         \* requests that create a link
  Redirects,       \* requests that follow one
  PreStopDelay,    \* preStopDelay, in units of time
  DrainTimeout,    \* the timeout of srv.Shutdown
  ReleaseTimeout,  \* the timeout of lease.Release
  PingTimeout,     \* the timeout of readyz
  FlushTimeout,    \* the timeout of the observability Shutdown
  GracePeriod,     \* terminationGracePeriodSeconds
  MaxLag,          \* bound on the time until endpoints are updated everywhere
  DeliveryTimeout, \* RecordDeliveryTimeout: a publish takes no longer
  MaxOutages       \* bound on outages of Postgres and Redis

Requests == Creates \union Redirects

ASSUME LifecycleAssumption ==
  /\ Creates \intersect Redirects = {}
  /\ {PreStopDelay, DrainTimeout, ReleaseTimeout, PingTimeout, FlushTimeout, GracePeriod} \subseteq Nat \ {0}
  /\ {MaxLag, DeliveryTimeout, MaxOutages} \subseteq Nat
  /\ PreStopDelay + DrainTimeout + ReleaseTimeout + PingTimeout + FlushTimeout < GracePeriod

VARIABLES
  stage,     \* where main is
  opened,    \* how many of the steps of the start are done
  deferred,  \* the deferred calls, in the order of their registration
  bad,       \* the step whose configuration is invalid, or "none"
  explicit,  \* is WORKER_ID set, so that nothing is leased?
  cause,     \* why the process ended without a return, or "none"
  timer,     \* time left of what main waits for
  grace,     \* time left until SIGKILL
  lag,       \* time left until nothing is routed here
  late,      \* was that preStopDelay or more when SIGTERM came?
  routed,    \* does the load balancer send requests here?
  key,       \* is the worker ID's key in Redis?  Renewals are WorkerLease's.
  pgUp, redisUp, outages,
  redisFailed,  \* did Redis fail since the process started?
  req,       \* per request, what became of it
  click,     \* per redirect, what became of its click
  age        \* per redirect, how long its publish takes already, or took when it was lost

mainVars == <<stage, opened, deferred, bad, explicit, cause, timer>>
kubeVars == <<grace, lag, late, routed>>
depVars == <<key, pgUp, redisUp, outages, redisFailed>>
userVars == <<req, click, age>>
vars == <<stage, opened, deferred, bad, explicit, cause, timer, grace, lag, late, routed,
          key, pgUp, redisUp, outages, redisFailed, req, click, age>>

-----------------------------------------------------------------------------
(***************************************************************************)
(* The steps of the start, in the order of main, and those that register   *)
(* a deferred call.  config.Load, before them, cannot fail.  "worker" is   *)
(* the worker ID, "codec" the encoder and the generator, "limits" the rate *)
(* and the burst.                                                          *)
(***************************************************************************)
Startup == <<"observability", "pool", "redis", "worker", "codec", "publisher", "limits">>

Closed == {"observability", "pool", "redis", "publisher"} \union (IF explicit THEN {} ELSE {"worker"})

\* What the handlers work with.
HandlerNeeds == Closed \ {"observability"}

Holds(resource) == \E i \in 1..Len(deferred) : deferred[i] = resource

\* How long a deferred call may take.  pool.Close waits for its connections: no handler
\* holds one any more, but a readyz of the ops server may, whose Shutdown is best-effort.
Limit(resource) ==
  CASE resource = "worker" -> ReleaseTimeout
    [] resource = "pool" -> PingTimeout
    [] resource = "observability" -> FlushTimeout
    [] OTHER -> 0

\* The server listens: from the end of the start until Shutdown.
Accepting == stage \in {"serving", "notified"}

Alive == stage \notin {"stopped", "exited"}

Init ==
  /\ stage = "starting" /\ opened = 0 /\ deferred = <<>> /\ cause = "none" /\ timer = 0
  /\ bad \in {Startup[i] : i \in 1..Len(Startup)} \union {"none"}
  /\ explicit \in BOOLEAN
  /\ grace = GracePeriod /\ lag = 0 /\ late = FALSE /\ routed = FALSE
  /\ key = FALSE /\ pgUp \in BOOLEAN /\ redisUp \in BOOLEAN /\ outages = 0 /\ redisFailed = FALSE
  /\ req = [r \in Requests |-> "none"]
  /\ click = [r \in Redirects |-> "none"]
  /\ age = [r \in Redirects |-> 0]

-----------------------------------------------------------------------------
(***************************************************************************)
(* The start.                                                              *)
(***************************************************************************)

\* The process is gone: connections are cut and goroutines with it.
Gone ==
  /\ req' = [r \in Requests |-> IF req[r] = "running" THEN "cut" ELSE req[r]]
  /\ click' = [r \in Redirects |-> IF click[r] = "publishing" THEN "lost" ELSE click[r]]
  /\ UNCHANGED age

\* os.Exit(1), or a signal that kills: nothing deferred runs.
Exit(why) ==
  /\ stage' = "exited"
  /\ cause' = why
  /\ Gone
  /\ UNCHANGED <<opened, deferred, bad, explicit, timer, kubeVars, depVars>>

\* The step at which main is fails: its configuration is invalid, Postgres
\* does not answer the ping, or Redis cannot lease a worker ID.  The ping of
\* Redis only warns.
StepFails ==
  LET step == Startup[opened + 1]
  IN step = bad \/ (step = "pool" /\ ~pgUp) \/ (step = "worker" /\ ~explicit /\ ~redisUp)

\* A step of the start succeeds; what it opened will be closed on return.
Open ==
  /\ stage = "starting" /\ opened < Len(Startup)
  /\ ~StepFails
  /\ LET step == Startup[opened + 1]
     IN /\ deferred' = IF step \in Closed THEN Append(deferred, step) ELSE deferred
        /\ key' = (key \/ (step = "worker" /\ ~explicit))
  /\ opened' = opened + 1
  /\ UNCHANGED <<stage, bad, explicit, cause, timer, kubeVars, pgUp, redisUp, outages, redisFailed, userVars>>

OpenFails == stage = "starting" /\ opened < Len(Startup) /\ StepFails /\ Exit("startup")

\* Both servers listen and main waits for a signal.
Serve ==
  /\ stage = "starting" /\ opened = Len(Startup)
  /\ stage' = "serving"
  /\ UNCHANGED <<opened, deferred, bad, explicit, cause, timer, kubeVars, depVars, userVars>>

\* ListenAndServe fails, before anything was routed here.
ListenFails == stage = "serving" /\ ~routed /\ (\A r \in Requests : req[r] = "none") /\ Exit("listen")

-----------------------------------------------------------------------------
(***************************************************************************)
(* Kubernetes and the dependencies.                                        *)
(***************************************************************************)

\* readyz answers 200: Postgres answers its ping.
Readyz == stage \in {"serving", "notified", "draining"} /\ pgUp

\* The readiness probe gates the pod in and out while it is not terminating.
Probe ==
  /\ stage = "serving"
  /\ routed # Readyz
  /\ routed' = Readyz
  /\ UNCHANGED <<mainVars, grace, lag, late, depVars, userVars>>

\* A SIGTERM that skips the sleep.
NotifyAtOnce ==
  /\ stage = "serving"
  /\ stage' = "draining"
  /\ timer' = DrainTimeout
  /\ lag' \in 0..MaxLag
  /\ late' = (lag' >= PreStopDelay)
  /\ UNCHANGED <<opened, deferred, bad, explicit, cause, grace, routed, depVars, userVars>>

\* SIGTERM: main starts to sleep, and the endpoints are on their way out.
Notify ==
  /\ stage = "serving"
  /\ stage' = "notified"
  /\ timer' = PreStopDelay
  /\ lag' \in 0..MaxLag
  /\ late' = (lag' >= PreStopDelay)
  /\ UNCHANGED <<opened, deferred, bad, explicit, cause, grace, routed, depVars, userVars>>

\* SIGTERM before signal.Notify.
NotifyTooEarly == stage = "starting" /\ Exit("early")

\* The endpoints are updated everywhere.
Deregister ==
  /\ stage \in {"notified", "draining", "closing", "stopped"}
  /\ routed /\ lag = 0
  /\ routed' = FALSE
  /\ UNCHANGED <<mainVars, grace, lag, late, depVars, userVars>>

\* The process is killed from outside, or panics outside of a handler.
Crash == stage # "starting" /\ Alive /\ Exit("crash")

PostgresFlips ==
  /\ IF pgUp THEN outages < MaxOutages /\ outages' = outages + 1 ELSE UNCHANGED outages
  /\ pgUp' = ~pgUp
  /\ UNCHANGED <<mainVars, kubeVars, key, redisUp, redisFailed, userVars>>

RedisFlips ==
  /\ IF redisUp THEN outages < MaxOutages /\ outages' = outages + 1 ELSE UNCHANGED outages
  /\ redisUp' = ~redisUp
  /\ redisFailed' = (redisFailed \/ redisUp)
  /\ UNCHANGED <<mainVars, kubeVars, key, pgUp, userVars>>

-----------------------------------------------------------------------------
(***************************************************************************)
(* Requests and clicks.                                                    *)
(***************************************************************************)

\* A request is routed here; a listener that is closed, or gone, refuses it.
Arrive(r) ==
  /\ routed
  /\ req[r] = "none"
  /\ req' = [req EXCEPT ![r] = IF Accepting THEN "running" ELSE "refused"]
  /\ UNCHANGED <<mainVars, kubeVars, depVars, click, age>>

\* createLink returns, or redirect without a link to follow.
Answer(r) ==
  /\ req[r] = "running"
  /\ req' = [req EXCEPT ![r] = "answered"]
  /\ UNCHANGED <<mainVars, kubeVars, depVars, click, age>>

\* redirect follows the link and starts a goroutine that publishes the click, which
\* nothing waits for.  early: the answer came before SIGTERM.
Redirect(r) ==
  /\ req[r] = "running"
  /\ req' = [req EXCEPT ![r] = IF stage = "serving" THEN "early" ELSE "answered"]
  /\ click' = [click EXCEPT ![r] = "publishing"]
  /\ UNCHANGED <<mainVars, kubeVars, depVars, age>>

\* ProduceSync returns: the broker has the record, or the failure is logged.
Publish(r) ==
  /\ Alive
  /\ click[r] = "publishing"
  /\ Holds("publisher")
  /\ \E result \in {"delivered", "failed"} : click' = [click EXCEPT ![r] = result]
  /\ age' = [age EXCEPT ![r] = 0]
  /\ UNCHANGED <<mainVars, kubeVars, depVars, req>>

-----------------------------------------------------------------------------
(***************************************************************************)
(* The end.                                                                *)
(***************************************************************************)

\* A Shutdown without a timeout of its own.
DrainUnbounded ==
  /\ stage = "notified" /\ timer = 0
  /\ stage' = "draining"
  /\ timer' = GracePeriod
  /\ UNCHANGED <<opened, deferred, bad, explicit, cause, kubeVars, depVars, userVars>>

\* The sleep is over and srv.Shutdown begins: the listener is closed.
Drain ==
  /\ stage = "notified" /\ timer = 0
  /\ stage' = "draining"
  /\ timer' = DrainTimeout
  /\ UNCHANGED <<opened, deferred, bad, explicit, cause, kubeVars, depVars, userVars>>

\* The deferred call that main runs next, with the time it may take.
RunNext(calls) == timer' = IF calls = <<>> THEN 0 ELSE Limit(calls[Len(calls)])

\* A Shutdown whose error is logged and forgotten.
DrainedAnyway ==
  /\ stage = "draining"
  /\ timer = 0 \/ \A r \in Requests : req[r] # "running"
  /\ stage' = "closing"
  /\ RunNext(deferred)
  /\ UNCHANGED <<opened, deferred, bad, explicit, cause, kubeVars, depVars, userVars>>

\* Every connection is idle: both Shutdowns return and main does.
Drained ==
  /\ stage = "draining"
  /\ \A r \in Requests : req[r] # "running"
  /\ stage' = "closing"
  /\ RunNext(deferred)
  /\ UNCHANGED <<opened, deferred, bad, explicit, cause, kubeVars, depVars, userVars>>

\* Shutdown runs out of time: os.Exit(1).
DrainFails ==
  /\ stage = "draining" /\ timer = 0
  /\ \E r \in Requests : req[r] = "running"
  /\ Exit("drain")

\* lease.Release reaches Redis: the client is open and Redis answers.
Released == Holds("redis") /\ redisUp

\* pub.Close: a click whose record is buffered may be flushed, one whose
\* goroutine has not produced it yet is lost.
ClosePublisher ==
  /\ \E flushed \in SUBSET Redirects :
       click' = [r \in Redirects |->
                   IF click[r] # "publishing" THEN click[r]
                   ELSE IF r \in flushed THEN "delivered" ELSE "lost"]
  /\ UNCHANGED age

\* Release without a timeout.
ReleaseWaits == Released /\ key' = FALSE

\* lease.Release: the slot is freed, or the call fails, which is only logged.
Release == IF Released THEN key' = FALSE ELSE UNCHANGED key

\* What the deferred call of a resource does, besides closing it.
CloseEffect(resource) ==
  /\ IF resource = "worker" THEN Release ELSE UNCHANGED key
  /\ IF resource = "publisher" THEN ClosePublisher ELSE UNCHANGED <<click, age>>

\* The deferred calls run in the order of their registration.
CloseFirst ==
  /\ stage = "closing" /\ deferred # <<>>
  /\ CloseEffect(Head(deferred))
  /\ deferred' = Tail(deferred)
  /\ timer' = IF Tail(deferred) = <<>> THEN 0 ELSE Limit(Head(Tail(deferred)))
  /\ UNCHANGED <<stage, opened, bad, explicit, cause, kubeVars, pgUp, redisUp, outages, redisFailed, req>>

\* The last deferred call that is left returns.
Close ==
  /\ stage = "closing" /\ deferred # <<>>
  /\ CloseEffect(deferred[Len(deferred)])
  /\ deferred' = SubSeq(deferred, 1, Len(deferred) - 1)
  /\ RunNext(deferred')
  /\ UNCHANGED <<stage, opened, bad, explicit, cause, kubeVars, pgUp, redisUp, outages, redisFailed, req>>

\* main has returned.
Stop ==
  /\ stage = "closing" /\ deferred = <<>>
  /\ stage' = "stopped"
  /\ Gone
  /\ UNCHANGED <<opened, deferred, bad, explicit, cause, timer, kubeVars, depVars>>

\* A unit of time passes.  What main waits for is over when its time is, and
\* a publish fails after DeliveryTimeout.
Tick ==
  /\ stage \in {"serving", "notified", "draining", "closing"}
  /\ stage # "serving" => timer > 0 /\ grace > 0
  /\ \A r \in Redirects : click[r] = "publishing" => age[r] < DeliveryTimeout
  /\ lag > 0 \/ ~routed \/ stage = "serving"
  /\ timer' = IF timer > 0 THEN timer - 1 ELSE 0
  /\ grace' = IF stage = "serving" THEN grace ELSE grace - 1
  /\ lag' = IF lag > 0 THEN lag - 1 ELSE 0
  /\ age' = [r \in Redirects |-> IF click[r] = "publishing" THEN age[r] + 1 ELSE age[r]]
  /\ UNCHANGED <<stage, opened, deferred, bad, explicit, cause, late, routed, depVars, req, click>>

MainStep ==
  Open \/ OpenFails \/ Serve \/ Drain \/ Drained \/ DrainFails \/ Close \/ Stop

Next ==
  \/ MainStep \/ Tick
  \/ ListenFails \/ Probe \/ Notify \/ NotifyTooEarly \/ Deregister \/ Crash
  \/ PostgresFlips \/ RedisFlips
  \/ \E r \in Requests : Arrive(r) \/ Answer(r)
  \/ \E r \in Redirects : Redirect(r) \/ Publish(r)

Spec == Init /\ [][Next]_vars

(***************************************************************************)
(* Fairness: main takes its next step, time passes, publishes return, and  *)
(* endpoints are updated.  Requests may hang.                              *)
(***************************************************************************)
FairSpec ==
  /\ Spec
  /\ WF_vars(MainStep) /\ WF_vars(Tick) /\ WF_vars(Deregister)
  /\ \A r \in Redirects : WF_vars(Publish(r))

-----------------------------------------------------------------------------
\* No handler works with what is closed, or mints with a worker ID that was
\* given back: "a replacement pod" that takes the slot finds no one else on it.
NoUseAfterClose ==
  \A r \in Requests : req[r] = "running" => (explicit \/ key) /\ \A resource \in HandlerNeeds : Holds(resource)

\* A process that returns has freed its slot, unless Redis failed, whatever Postgres did:
\* Release "runs before rdb closes".
CleanStopFreesSlot == stage = "stopped" /\ ~redisFailed => ~key

\* "What make[s] a deploy drop zero requests": a request is refused only if endpoints
\* took longer than preStopDelay or the process died, and cut only if it died
\* or the request outlived the drain.
NoRequestDropped ==
  \A r \in Requests :
    /\ req[r] = "refused" => late \/ cause = "crash"
    /\ req[r] = "cut" => cause \in {"crash", "drain"}

\* A click of before SIGTERM whose publish returns within preStopDelay is not lost, unless
\* the process dies: nothing waits for its goroutine but the sleep.  A publish
\* may take up to DeliveryTimeout, which is longer, and pub.Close does not save a slow one,
\* though it is called "so an in-flight event is not lost".
EarlyClicksKept ==
  \A r \in Redirects :
    req[r] = "early" /\ click[r] = "lost" => cause = "crash" \/ age[r] >= PreStopDelay

\* The drain and the deferred calls end within the grace period, whatever
\* hangs: Kubernetes never has to kill the process, which would skip the
\* release of the worker ID and the flush.
GraceSuffices == Alive => grace > 0

\* A process that was asked to stop does, whatever hangs.
Terminates == stage = "notified" ~> ~Alive

=============================================================================
