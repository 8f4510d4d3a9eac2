---------------------------- MODULE DegradedApi ----------------------------
(***************************************************************************)
(* What clients are told while Postgres fails: the handlers of             *)
(* internal/http/links.go over the breaker.  A request is a call of        *)
(* CircuitBreaker; its handler turns what the store returns into a status. *)
(* A read that hits the cache does not get to the breaker, and a create    *)
(* whose code is taken makes another call.  A look-up of a code, for a     *)
(* redirect or a replay, may have followers: requests for the same code    *)
(* that wait for its flight (internal/cache) and get what it gets.         *)
(* Statuses are not kept, only how many 500s an outage costs.              *)
(***************************************************************************)
EXTENDS CircuitBreaker

CONSTANTS
  Op,            \* per call, the handler it serves
  MaxFollowers,  \* requests that may wait for one flight
  MaxTrials      \* bound on the times the breaker half-opens in an outage

ReadOps == {"redirect", "replay", "stats", "list"}

\* Service.Resolve, Stats and List are retried reads, Create and Delete writes.
\* "replay" is createLink with a known Idempotency-Key.
ASSUME OpAssumption ==
  /\ Op \in [Calls -> ReadOps \union {"create", "delete"}]
  /\ Reads = {r \in Calls : Op[r] \in ReadOps}
  /\ MaxFollowers \in Nat /\ MaxTrials \in Nat

VARIABLES
  trials,  \* the times the breaker was half-open since Postgres went down
  burst    \* 500s since Postgres went down, of requests other than replays

statusVars == <<trials, burst>>
apiVars == <<vars, statusVars>>

ApiInit ==
  /\ Init
  /\ trials = 0
  /\ burst = 0

-----------------------------------------------------------------------------
\* serviceUnavailable that knows no open breaker.
NeverUnavailable == 500

\* serviceUnavailable: how a blown deadline or an open breaker is answered.
serviceUnavailable == 503

(***************************************************************************)
(* The status of each handler, by what its store call comes to: it did     *)
(* what it was asked to, there is no such link (for createLink: the last   *)
(* code that may be tried is taken too), it is shed, or it fails.          *)
(***************************************************************************)
createLink == [done |-> 201, missing |-> 500, shed |-> serviceUnavailable, fails |-> 500]

\* respondWithCode does not ask what kind of error it got.
respondWithCode == [done |-> 201, missing |-> 500, shed |-> 500, fails |-> 500]

redirect == [done |-> 302, missing |-> 404, shed |-> serviceUnavailable, fails |-> 500]

\* An unknown code has no clicks.
stats == [done |-> 200, missing |-> 200, shed |-> serviceUnavailable, fails |-> 500]

\* A page past the end is empty.
listLinks == [done |-> 200, missing |-> 200, shed |-> serviceUnavailable, fails |-> 500]

deleteLink == [done |-> 204, missing |-> 404, shed |-> serviceUnavailable, fails |-> 500]

Status == [redirect |-> redirect, replay |-> respondWithCode, stats |-> stats, list |-> listLinks,
           create |-> createLink, delete |-> deleteLink]

\* GetByCode's group.Do: how many requests get what the call of r gets, besides
\* the one that made it.
Followers(r) == IF Op[r] \in {"redirect", "replay"} THEN 0..MaxFollowers ELSE {0}

\* The handlers that wait for r answer; their 500s count if they are the
\* outage's.  A replay's does not, and its followers are redirects.
Answer(r, outcome) ==
  LET fails(op) == ~up /\ outcome \in {"shed", "fails"} /\ Status[op][outcome] = 500
      own == IF fails(Op[r]) /\ Op[r] # "replay" THEN 1 ELSE 0
  IN \E n \in Followers(r) : burst' = burst + own + IF fails("redirect") THEN n ELSE 0

-----------------------------------------------------------------------------
\* The store is asked for the request.
Admit(r) == Execute(r) /\ UNCHANGED statusVars

\* execute: the breaker is open, or half-open and busy, and the request is shed
\* at once.
Reject(r) ==
  /\ call[r] = "idle"
  /\ ~Ready
  /\ Answer(r, "shed")
  /\ UNCHANGED <<vars, trials>>

\* The store call returns and the handlers answer; after a cancellation there
\* may be followers left to read it.
Respond(r) ==
  /\ Return(r)
  /\ \E outcome \in IF call[r] = "good" THEN {"done", "missing"} ELSE {"shed", "fails"} :
       Answer(r, outcome)
  /\ UNCHANGED trials

\* The cooldown is over: in an outage, another trial.
Trial ==
  /\ HalfOpen
  /\ up \/ trials < MaxTrials
  /\ trials' = IF up THEN trials ELSE trials + 1
  /\ UNCHANGED burst

\* Postgres goes down, perhaps in the middle of a trial.
Outage == GoDown /\ trials' = (IF state = "halfopen" THEN 1 ELSE 0) /\ UNCHANGED burst

\* Postgres comes back: the counts of the outage end.
Recovery == ComeBack /\ burst' = 0 /\ trials' = 0

ApiNext ==
  \/ \E r \in Calls :
       \/ Admit(r) \/ Reject(r) \/ Respond(r)
       \/ (StoreAnswers(r) \/ StoreFails(r) \/ Cancel(r)) /\ UNCHANGED statusVars
  \/ Trial \/ Outage \/ Recovery
  \/ Cool /\ UNCHANGED statusVars

ApiSpec == ApiInit /\ [][ApiNext]_apiVars

FairApiSpec == ApiSpec /\ Fairness

-----------------------------------------------------------------------------
\* "A short burst of 500s appears [...] then it settles to fast 503" (the
\* runbook): the flights that an outage fails are at most one over the
\* breaker's threshold for each call that can be in flight, and then one per
\* probe, cooldown for cooldown; and the requests that are answered 500 are no
\* more than those that wait for these flights.  The one over is for the calls
\* that are in flight when the breaker trips, in this outage or before it.
\* (Replays are not counted: they are answered 500 by an open breaker, too.)
BurstBounded ==
  burst <= (1 + MaxFollowers) * ((MaxConsecFails + 1) * Cardinality(Calls) + HalfOpenProbes * trials)

=============================================================================
