--------------------------- MODULE CircuitBreaker --------------------------
(***************************************************************************)
(* internal/resilience: the breaker every instance puts between its cache  *)
(* and Postgres, and the retries of its reads.                             *)
(*                                                                         *)
(* gobreaker is external: closed, open and half-open, with a generation    *)
(* that changes with the state.  The calls admitted in the current         *)
(* generation are the set fresh; the results of others are ignored.        *)
(***************************************************************************)
EXTENDS Integers, FiniteSets

CONSTANTS
  Calls,           \* slots for store calls in flight
  Reads,           \* the slots whose calls are reads, which are retried
  MaxConsecFails,  \* breakerMaxConsecFails
  Cooldown,        \* breakerCooldown
  HalfOpenProbes,  \* breakerHalfOpenProbes
  MaxTries,        \* tries of a read that fit into retryMaxElapsed
  MaxOutages,      \* bound on outages of Postgres
  MaxCancels       \* bound on calls whose client goes away

ASSUME BreakerAssumption ==
  /\ Reads \subseteq Calls
  /\ MaxConsecFails \in Nat \ {0} /\ Cooldown \in Nat \ {0}
  /\ HalfOpenProbes \in Nat \ {0} /\ MaxTries \in Nat \ {0}
  /\ MaxOutages \in Nat /\ MaxCancels \in Nat

VARIABLES
  state,      \* the breaker's state
  failures,   \* Counts.ConsecutiveFailures
  requests,   \* Counts.Requests, as far as half-open is concerned
  successes,  \* Counts.ConsecutiveSuccesses, likewise
  cooling,    \* the time an open breaker has left
  fresh,      \* the calls of the current generation
  call,       \* per call: "idle", "trying", or what it will return
  tries,      \* per call, the tries of a read so far
  up,         \* does Postgres answer?
  errors,     \* unexpected errors of calls since the breaker last closed, up to
              \* the threshold
  outages, cancels

breaker == <<state, failures, requests, successes, cooling>>
env == <<up, outages, cancels>>
vars == <<state, failures, requests, successes, cooling, fresh, call, tries, errors, up, outages, cancels>>

Init ==
  /\ state = "closed" /\ failures = 0 /\ requests = 0 /\ successes = 0 /\ cooling = 0
  /\ fresh = {}
  /\ call = [r \in Calls |-> "idle"]
  /\ tries = [r \in Calls |-> 0]
  /\ errors = 0
  /\ up = TRUE /\ outages = 0 /\ cancels = 0

-----------------------------------------------------------------------------
(***************************************************************************)
(* gobreaker.                                                              *)
(***************************************************************************)

\* setState: a new generation, with its counts cleared.
Enter(s) ==
  /\ state' = s
  /\ fresh' = {}
  /\ failures' = 0 /\ requests' = 0 /\ successes' = 0
  /\ cooling' = IF s = "open" THEN Cooldown ELSE 0
  /\ errors' = IF s = "closed" THEN 0 ELSE errors

\* beforeRequest lets a call through.
Ready == state = "closed" \/ (state = "halfopen" /\ requests < HalfOpenProbes)

\* onSuccess, for a call of the current generation.
OnSuccess(r) ==
  IF state = "halfopen" /\ successes + 1 >= HalfOpenProbes
  THEN Enter("closed")
  ELSE /\ failures' = 0
       /\ successes' = IF state = "halfopen" THEN successes + 1 ELSE 0
       /\ fresh' = fresh \ {r}
       /\ UNCHANGED <<state, requests, cooling, errors>>

\* onFailure with a ReadyToTrip that waits for one failure more.
OnFailureLate(r) ==
  IF state = "halfopen" \/ failures + 1 > MaxConsecFails
  THEN Enter("open")
  ELSE /\ failures' = failures + 1
       /\ fresh' = fresh \ {r}
       /\ UNCHANGED <<state, requests, successes, cooling, errors>>

\* onFailure, for a call of the current generation, with ReadyToTrip.
OnFailure(r) ==
  IF state = "halfopen" \/ failures + 1 >= MaxConsecFails
  THEN Enter("open")
  ELSE /\ failures' = failures + 1
       /\ fresh' = fresh \ {r}
       /\ UNCHANGED <<state, requests, successes, cooling, errors>>

\* afterRequest: the result of a call of an earlier generation is dropped.
AfterRequest(r, success) ==
  IF r \notin fresh
  THEN UNCHANGED <<breaker, fresh, errors>>
  ELSE IF success THEN OnSuccess(r) ELSE OnFailure(r)

-----------------------------------------------------------------------------
(***************************************************************************)
(* ResilientStore.                                                         *)
(***************************************************************************)

\* execute that calls the store although a half-open breaker is busy.
ExecuteAnyway(r) ==
  /\ call[r] = "idle"
  /\ state # "open"
  /\ requests' = IF state = "halfopen" THEN requests + 1 ELSE requests
  /\ fresh' = fresh \union {r}
  /\ call' = [call EXCEPT ![r] = "trying"]
  /\ tries' = [tries EXCEPT ![r] = 0]
  /\ UNCHANGED <<state, failures, successes, cooling, errors, env>>

\* execute: the call is admitted; other calls return ErrUnavailable at once,
\* which changes nothing.
Execute(r) ==
  /\ call[r] = "idle"
  /\ Ready
  /\ requests' = IF state = "halfopen" THEN requests + 1 ELSE requests
  /\ fresh' = fresh \union {r}
  /\ call' = [call EXCEPT ![r] = "trying"]
  /\ tries' = [tries EXCEPT ![r] = 0]
  /\ UNCHANGED <<state, failures, successes, cooling, errors, env>>

\* IsSuccessful that takes an expected error for a failure.
StoreAnswersUnexpected(r) ==
  /\ call[r] = "trying"
  /\ up
  /\ \E result \in {"good", "bad"} : call' = [call EXCEPT ![r] = result]
  /\ UNCHANGED <<breaker, fresh, tries, errors, env>>

\* Postgres answers: a row, or ErrNotFound or ErrCodeExists, which are expected.
StoreAnswers(r) ==
  /\ call[r] = "trying"
  /\ up
  /\ call' = [call EXCEPT ![r] = "good"]
  /\ UNCHANGED <<breaker, fresh, tries, errors, env>>

\* The call ends in an error that is not an expected one: one more cause for
\* the closed breaker that let it through.
Fail(r) ==
  /\ call' = [call EXCEPT ![r] = "bad"]
  /\ errors' = IF state = "closed" /\ r \in fresh /\ errors < MaxConsecFails THEN errors + 1 ELSE errors

\* Postgres fails a try; retryRead backs off and tries a read again until its
\* time is up, a write is not retried.
StoreFails(r) ==
  /\ call[r] = "trying"
  /\ ~up
  /\ tries' = [tries EXCEPT ![r] = @ + 1]
  /\ IF r \in Reads /\ tries[r] + 1 < MaxTries THEN UNCHANGED <<call, errors>> ELSE Fail(r)
  /\ UNCHANGED <<breaker, fresh, env>>

\* The client goes away: the context is cancelled and the call returns its
\* error, which is not an expected one.
Cancel(r) ==
  /\ call[r] = "trying"
  /\ cancels < MaxCancels
  /\ cancels' = cancels + 1
  /\ Fail(r)
  /\ UNCHANGED <<breaker, fresh, tries, up, outages>>

\* The call returns to the breaker.
Return(r) ==
  /\ call[r] \in {"good", "bad"}
  /\ AfterRequest(r, call[r] = "good")
  /\ call' = [call EXCEPT ![r] = "idle"]
  /\ UNCHANGED <<tries, env>>

-----------------------------------------------------------------------------
\* Time passes for an open breaker.
Cool ==
  /\ state = "open"
  /\ cooling > 0
  /\ cooling' = cooling - 1
  /\ UNCHANGED <<state, failures, requests, successes, fresh, call, tries, errors, env>>

\* currentState: the cooldown is over.
HalfOpen ==
  /\ state = "open"
  /\ cooling = 0
  /\ Enter("halfopen")
  /\ UNCHANGED <<call, tries, env>>

\* Postgres goes down and comes back.
GoDown ==
  /\ up
  /\ outages < MaxOutages
  /\ up' = FALSE
  /\ outages' = outages + 1
  /\ UNCHANGED <<breaker, fresh, call, tries, errors, cancels>>

ComeBack ==
  /\ ~up
  /\ up' = TRUE
  /\ UNCHANGED <<breaker, fresh, call, tries, errors, outages, cancels>>

CallStep(r) == StoreAnswers(r) \/ StoreFails(r) \/ Return(r)

Next ==
  \/ \E r \in Calls : Execute(r) \/ CallStep(r) \/ Cancel(r)
  \/ Cool \/ HalfOpen
  \/ GoDown \/ ComeBack

Spec == Init /\ [][Next]_vars

(***************************************************************************)
(* Fairness: time passes, a call returns, Postgres comes back, and         *)
(* requests keep coming.                                                   *)
(***************************************************************************)
Fairness ==
  /\ WF_vars(Cool) /\ WF_vars(HalfOpen) /\ WF_vars(ComeBack)
  /\ \A r \in Calls : WF_vars(CallStep(r)) /\ WF_vars(Execute(r))

FairSpec == Spec /\ Fairness

-----------------------------------------------------------------------------
\* The variables have their types; the counts stay below the thresholds that
\* end a generation.
TypeOK ==
  /\ state \in {"closed", "open", "halfopen"}
  /\ failures \in 0..(MaxConsecFails - 1)
  /\ requests \in 0..HalfOpenProbes
  /\ successes \in 0..(HalfOpenProbes - 1)
  /\ cooling \in 0..Cooldown
  /\ fresh \subseteq {r \in Calls : call[r] # "idle"}
  /\ call \in [Calls -> {"idle", "trying", "good", "bad"}]
  /\ tries \in [Calls -> 0..MaxTries]
  /\ errors \in 0..MaxConsecFails
  /\ up \in BOOLEAN /\ outages \in Nat /\ cancels \in Nat

\* While the breaker is half-open no more than the allowed probes are in flight
\* on its behalf, however many calls of before the outage still are.
ProbesBounded == state = "halfopen" => Cardinality(fresh) <= requests /\ requests <= HalfOpenProbes

\* "Each instance's circuit breaker half-opens after the cooldown, runs one
\* trial request, and re-closes on success" (the runbook): in the end, when
\* outages and cancellations are over, the breaker is closed for good.
Recovers == <>[](state = "closed")

\* The breaker opens for a cause: since it last closed, as many calls that it
\* let through as the threshold ended in an error, Postgres's or that of a client
\* that went away.  Expected errors (isExpected: no such row, code taken) never
\* open it, however many come in a row, nor do the errors of calls from before
\* it closed, whenever they come in.
OpensForCause == state # "closed" => errors >= MaxConsecFails

=============================================================================
