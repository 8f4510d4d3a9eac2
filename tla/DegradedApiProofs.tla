------------------------- MODULE DegradedApiProofs -------------------------
(***************************************************************************)
(* Theorems about CircuitBreaker and about the handlers that DegradedApi   *)
(* puts over it: how many calls are in flight on behalf of a half-open     *)
(* breaker, what it takes to open one, and how many 500s an outage costs.  *)
(***************************************************************************)
EXTENDS DegradedApi, FiniteSetTheorems, TLAPS

\* A read that is being tried has a try left.
TriesLeft == \A r \in Calls : call[r] = "trying" => tries[r] < MaxTries

\* The calls of a half-open breaker's generation are among those it counted.
ProbesCounted == state = "halfopen" => IsFiniteSet(fresh) /\ Cardinality(fresh) <= requests

\* The calls of this generation whose failure is still to be returned.
Bad == {r \in fresh : call[r] = "bad"}

\* Until there is a cause the breaker is closed, and every failure counted or
\* still to be returned is an error since it last closed.
CauseInv ==
  \/ errors >= MaxConsecFails
  \/ state = "closed" /\ IsFiniteSet(Bad) /\ failures + Cardinality(Bad) <= errors

BreakerInv == TypeOK /\ TriesLeft /\ ProbesCounted /\ CauseInv

\* The calls of this generation that Postgres answered.
Good == {r \in fresh : call[r] = "good"}

\* The calls that may still fail, and those of earlier generations.
Doubt == {r \in Calls : call[r] \in {"trying", "bad"}}
Late == Doubt \ fresh

N == Cardinality(Calls)

\* The flights an outage may still fail.  A closed breaker opens after as many
\* failures as it has left, each success that is on its way lets it start again,
\* and when it opens the other calls in flight may fail as well.  A half-open one
\* may send the probes it has left, and close if one of them was answered.
StillToCome ==
  IF state = "closed"
    THEN IF Good = Calls
           THEN MaxConsecFails * N
           ELSE (MaxConsecFails - failures) + (MaxConsecFails - 1) * Cardinality(Good)
                  + Cardinality(Late) + (N - 1)
    ELSE Cardinality(Doubt) + (IF state = "halfopen" THEN HalfOpenProbes - requests ELSE 0)
           + (IF Good # {} THEN MaxConsecFails + (N - 1) ELSE 0)

\* The flights an outage with so many trials may fail.
Budget == (MaxConsecFails + 1) * N + HalfOpenProbes * trials

\* The requests that get what a flight gets.
Width == 1 + MaxFollowers

BurstInv ==
  /\ burst \in Nat /\ trials \in Nat
  /\ up => burst = 0
  /\ state = "open" => fresh = {}
  /\ ~up => burst + Width * StillToCome <= Width * Budget

-----------------------------------------------------------------------------
(***************************************************************************)
(* The breaker.                                                            *)
(***************************************************************************)

\* The breaker starts closed, with no call in flight.
LEMMA BreakerStart == Init => BreakerInv
<1> SUFFICES ASSUME Init PROVE BreakerInv
  OBVIOUS
<1>1. up \in BOOLEAN
  BY Zenon DEF Init
<1>2. TypeOK
  BY <1>1, BreakerAssumption DEF Init, TypeOK
<1>3. TriesLeft /\ ProbesCounted
  BY BreakerAssumption DEF Init, TriesLeft, ProbesCounted
<1>4. Bad = {}
  BY DEF Init, Bad
<1>5. IsFiniteSet(Bad) /\ Cardinality(Bad) = 0
  BY <1>4, FS_EmptySet
<1>6. CauseInv
  BY <1>5 DEF Init, CauseInv
<1>7. QED
  BY <1>2, <1>3, <1>6 DEF BreakerInv

\* What a call's return may do to the breaker.
LEMMA ReturnCases ==
  ASSUME NEW r \in Calls, Return(r)
  PROVE  /\ call[r] \in {"good", "bad"} /\ call' = [call EXCEPT ![r] = "idle"]
         /\ UNCHANGED <<tries, env>>
         /\ \/ r \notin fresh /\ UNCHANGED <<breaker, fresh, errors>>
            \/ r \in fresh /\ call[r] = "good" /\ OnSuccess(r)
            \/ r \in fresh /\ call[r] = "bad" /\ OnFailure(r)
  BY DEF Return, AfterRequest

\* What a try that fails may do.
LEMMA FailCases ==
  ASSUME TypeOK, NEW r \in Calls, StoreFails(r) \/ Cancel(r)
  PROVE  /\ call[r] = "trying" /\ UNCHANGED <<breaker, fresh, up, outages>>
         /\ UNCHANGED <<call, errors>> \/ Fail(r)
         /\ \E result \in {"trying", "bad"} : call' = [call EXCEPT ![r] = result]
<1>1. call[r] = "trying" /\ UNCHANGED <<breaker, fresh, up, outages>> /\ (UNCHANGED <<call, errors>> \/ Fail(r))
  BY DEF StoreFails, Cancel, env
<1>2. call \in [Calls -> {"idle", "trying", "good", "bad"}]
  BY DEF TypeOK
<1>3. CASE call' = call
  <2>1. call' = [call EXCEPT ![r] = "trying"]
    BY <1>1, <1>2, <1>3
  <2>2. QED
    BY <1>1, <2>1
<1>4. CASE Fail(r)
  BY <1>1, <1>4 DEF Fail
<1>5. QED
  BY <1>1, <1>3, <1>4

\* An error more is counted up to the threshold.
LEMMA FailTypes ==
  ASSUME TypeOK, NEW r \in Calls, Fail(r)
  PROVE  errors' \in 0..MaxConsecFails /\ call' \in [Calls -> {"idle", "trying", "good", "bad"}]
  BY BreakerAssumption DEF Fail, TypeOK

\* The types, with the tries that are left, are kept.
LEMMA BreakerTypeStep == TypeOK /\ TriesLeft /\ [Next]_vars => TypeOK' /\ TriesLeft'
<1> SUFFICES ASSUME TypeOK, TriesLeft, [Next]_vars PROVE TypeOK' /\ TriesLeft'
  OBVIOUS
<1> USE BreakerAssumption DEF breaker, env
<1>1. ASSUME NEW r \in Calls, Execute(r) PROVE TypeOK' /\ TriesLeft'
  BY <1>1 DEF Execute, Ready, TypeOK, TriesLeft
<1>2. ASSUME NEW r \in Calls, StoreAnswers(r) PROVE TypeOK' /\ TriesLeft'
  BY <1>2 DEF StoreAnswers, TypeOK, TriesLeft
<1>3. ASSUME NEW r \in Calls, StoreFails(r) PROVE TypeOK' /\ TriesLeft'
  <2>1. tries[r] \in Nat /\ tries[r] < MaxTries
    BY <1>3 DEF StoreFails, TypeOK, TriesLeft
  <2>2. tries' \in [Calls -> 0..MaxTries] /\ up' = up /\ outages' = outages /\ cancels' = cancels
    BY <2>1, <1>3 DEF StoreFails, TypeOK
  <2>3. call' \in [Calls -> {"idle", "trying", "good", "bad"}] /\ errors' \in 0..MaxConsecFails
    BY <1>3, FailCases, FailTypes DEF TypeOK
  <2>4. TriesLeft'
    <3>1. CASE r \in Reads /\ tries[r] + 1 < MaxTries
      BY <3>1, <2>1, <1>3 DEF StoreFails, TypeOK, TriesLeft
    <3>2. CASE ~(r \in Reads /\ tries[r] + 1 < MaxTries)
      BY <3>2, <2>1, <1>3 DEF StoreFails, Fail, TypeOK, TriesLeft
    <3>3. QED
      BY <3>1, <3>2
  <2>5. fresh' \subseteq {x \in Calls : call'[x] # "idle"}
    BY <1>3, FailCases DEF TypeOK
  <2>6. UNCHANGED breaker
    BY <1>3 DEF StoreFails
  <2>7. QED
    BY <2>2, <2>3, <2>4, <2>5, <2>6 DEF TypeOK
<1>4. ASSUME NEW r \in Calls, Cancel(r) PROVE TypeOK' /\ TriesLeft'
  <2>1. call' \in [Calls -> {"idle", "trying", "good", "bad"}] /\ errors' \in 0..MaxConsecFails
    BY <1>4, FailTypes DEF Cancel
  <2>2. fresh' \subseteq {x \in Calls : call'[x] # "idle"} /\ TriesLeft'
    BY <1>4 DEF Cancel, Fail, TypeOK, TriesLeft
  <2>3. QED
    BY <2>1, <2>2, <1>4 DEF Cancel, TypeOK
<1>5. ASSUME NEW r \in Calls, Return(r) PROVE TypeOK' /\ TriesLeft'
  <2>1. call' \in [Calls -> {"idle", "trying", "good", "bad"}] /\ TriesLeft'
    BY <1>5, ReturnCases DEF TypeOK, TriesLeft
  <2>2. /\ state' \in {"closed", "open", "halfopen"}
        /\ failures' \in 0..(MaxConsecFails - 1)
        /\ requests' \in 0..HalfOpenProbes
        /\ successes' \in 0..(HalfOpenProbes - 1)
        /\ cooling' \in 0..Cooldown
        /\ errors' \in 0..MaxConsecFails
        /\ fresh' \subseteq fresh \ {r}
    <3>1. CASE r \in fresh /\ OnSuccess(r)
      BY <3>1 DEF OnSuccess, Enter, TypeOK
    <3>2. CASE r \in fresh /\ OnFailure(r)
      BY <3>2 DEF OnFailure, Enter, TypeOK
    <3>3. CASE r \notin fresh /\ UNCHANGED <<breaker, fresh, errors>>
      BY <3>3 DEF TypeOK
    <3>4. QED
      BY <3>1, <3>2, <3>3, <1>5, ReturnCases
  <2>3. fresh' \subseteq {x \in Calls : call'[x] # "idle"}
    BY <2>2, <1>5, ReturnCases DEF TypeOK
  <2>4. QED
    BY <2>1, <2>2, <2>3, <1>5, ReturnCases DEF TypeOK
<1>6. ASSUME Cool \/ HalfOpen \/ GoDown \/ ComeBack \/ UNCHANGED vars PROVE TypeOK' /\ TriesLeft'
  <2>1. up' \in BOOLEAN
    BY <1>6, Zenon DEF Cool, HalfOpen, GoDown, ComeBack, vars, TypeOK
  <2>2. UNCHANGED <<call, tries>> /\ TriesLeft'
    BY <1>6 DEF Cool, HalfOpen, GoDown, ComeBack, vars, TriesLeft
  <2>3. QED
    BY <2>1, <2>2, <1>6 DEF Cool, HalfOpen, Enter, GoDown, ComeBack, vars, TypeOK
<1>7. QED
  BY <1>1, <1>2, <1>3, <1>4, <1>5, <1>6 DEF Next, CallStep

\* A call is counted when it is admitted, and its generation's set only shrinks
\* otherwise.
LEMMA ProbesStep == TypeOK /\ ProbesCounted /\ [Next]_vars => ProbesCounted'
<1> SUFFICES ASSUME TypeOK, ProbesCounted, [Next]_vars, state' = "halfopen"
             PROVE  (IsFiniteSet(fresh) /\ Cardinality(fresh) <= requests)'
  BY DEF ProbesCounted
<1>1. ASSUME NEW r \in Calls, Execute(r) PROVE (IsFiniteSet(fresh) /\ Cardinality(fresh) <= requests)'
  <2>1. IsFiniteSet(fresh) /\ Cardinality(fresh) <= requests /\ requests' = requests + 1
    BY <1>1 DEF Execute, ProbesCounted
  <2>2. r \notin fresh /\ fresh' = fresh \union {r}
    BY <1>1 DEF Execute, TypeOK
  <2>3. IsFiniteSet(fresh') /\ Cardinality(fresh') = Cardinality(fresh) + 1
    BY <2>1, <2>2, FS_AddElement
  <2>4. Cardinality(fresh) \in Nat /\ requests \in Nat
    BY <2>1, FS_CardinalityType, BreakerAssumption DEF TypeOK
  <2>5. QED
    BY <2>1, <2>3, <2>4
<1>2. ASSUME NEW r \in Calls, Return(r) PROVE (IsFiniteSet(fresh) /\ Cardinality(fresh) <= requests)'
  <2>1. CASE r \notin fresh /\ UNCHANGED <<breaker, fresh, errors>>
    BY <2>1 DEF breaker, ProbesCounted
  <2>2. CASE r \in fresh /\ (OnSuccess(r) \/ OnFailure(r))
    <3>1. state = "halfopen" /\ fresh' = fresh \ {r} /\ requests' = requests
      BY <2>2 DEF OnSuccess, OnFailure, Enter
    <3>2. IsFiniteSet(fresh) /\ Cardinality(fresh) <= requests
      BY <3>1 DEF ProbesCounted
    <3>3. IsFiniteSet(fresh') /\ Cardinality(fresh') = Cardinality(fresh) - 1
      BY <2>2, <3>1, <3>2, FS_RemoveElement
    <3>4. Cardinality(fresh) \in Nat /\ requests \in Nat
      BY <3>2, FS_CardinalityType, BreakerAssumption DEF TypeOK
    <3>5. QED
      BY <3>1, <3>2, <3>3, <3>4
  <2>3. QED
    BY <2>1, <2>2, <1>2, ReturnCases
<1>3. CASE HalfOpen
  <2>1. fresh' = {} /\ requests' = 0
    BY <1>3 DEF HalfOpen, Enter
  <2>2. QED
    BY <2>1, FS_EmptySet
<1>4. ASSUME UNCHANGED <<state, requests, fresh>> PROVE (IsFiniteSet(fresh) /\ Cardinality(fresh) <= requests)'
  BY <1>4 DEF ProbesCounted
<1>5. ASSUME NEW r \in Calls, StoreAnswers(r) \/ StoreFails(r) \/ Cancel(r)
      PROVE  UNCHANGED <<state, requests, fresh>>
  BY <1>5 DEF StoreAnswers, StoreFails, Cancel, breaker
<1>6. ASSUME Cool \/ GoDown \/ ComeBack \/ UNCHANGED vars PROVE UNCHANGED <<state, requests, fresh>>
  BY <1>6 DEF Cool, GoDown, ComeBack, breaker, vars
<1>7. QED
  BY <1>1, <1>2, <1>3, <1>4, <1>5, <1>6 DEF Next, CallStep

\* A step that fails no call of this generation, and counts nothing, adds no
\* failure to be returned.
LEMMA BadKept ==
  ASSUME IsFiniteSet(Bad), Bad' \subseteq Bad
  PROVE  /\ IsFiniteSet(Bad') /\ Cardinality(Bad') \in Nat /\ Cardinality(Bad) \in Nat
         /\ Cardinality(Bad') <= Cardinality(Bad)
<1>1. IsFiniteSet(Bad') /\ Cardinality(Bad') <= Cardinality(Bad)
  BY FS_Subset
<1>2. QED
  BY <1>1, FS_CardinalityType

\* Without a cause the breaker stays closed: a failure it counts is one that was
\* waiting to be returned, and each of those was an error.
LEMMA CauseStep == TypeOK /\ CauseInv /\ [Next]_vars => CauseInv'
<1> SUFFICES ASSUME TypeOK, CauseInv, [Next]_vars PROVE CauseInv'
  OBVIOUS
<1> USE BreakerAssumption DEF breaker, env
<1>t. /\ errors \in 0..MaxConsecFails /\ failures \in Nat /\ MaxConsecFails \in Nat
      /\ fresh \subseteq Calls /\ call \in [Calls -> {"idle", "trying", "good", "bad"}]
  BY DEF TypeOK
<1>c. ASSUME Enter("closed") PROVE CauseInv'
  <2>1. state' = "closed" /\ fresh' = {} /\ failures' = 0 /\ errors' = 0
    BY <1>c DEF Enter
  <2>2. Bad' = {}
    BY <2>1 DEF Bad
  <2>3. IsFiniteSet(Bad') /\ Cardinality(Bad') = 0
    BY <2>2, FS_EmptySet
  <2>4. QED
    BY <2>1, <2>3 DEF CauseInv
<1>1. CASE errors >= MaxConsecFails
  <2>1. ASSUME NEW r \in Calls, StoreFails(r) \/ Cancel(r) PROVE errors' = errors
    BY <2>1, <1>1, <1>t, FailCases DEF Fail
  <2>2. ASSUME NEW r \in Calls, Return(r) PROVE errors' = errors \/ Enter("closed")
    <3>1. CASE OnSuccess(r)
      BY <3>1 DEF OnSuccess
    <3>2. CASE OnFailure(r)
      BY <3>2 DEF OnFailure, Enter
    <3>3. QED
      BY <3>1, <3>2, <2>2, ReturnCases
  <2>3. ASSUME NEW r \in Calls, Execute(r) \/ StoreAnswers(r) PROVE errors' = errors
    BY <2>3 DEF Execute, StoreAnswers
  <2>4. ASSUME Cool \/ HalfOpen \/ GoDown \/ ComeBack \/ UNCHANGED vars PROVE errors' = errors
    BY <2>4 DEF Cool, HalfOpen, Enter, GoDown, ComeBack, vars
  <2>5. errors' = errors => CauseInv'
    BY <1>1 DEF CauseInv
  <2>6. QED
    BY <1>c, <2>1, <2>2, <2>3, <2>4, <2>5 DEF Next, CallStep
<1>2. CASE state = "closed" /\ IsFiniteSet(Bad) /\ failures + Cardinality(Bad) <= errors
  <2>0. Cardinality(Bad) \in Nat
    BY <1>2, FS_CardinalityType
  <2>1. ASSUME UNCHANGED <<state, failures, errors>>, Bad' \subseteq Bad PROVE CauseInv'
    BY <2>1, <1>2, <1>t, BadKept DEF CauseInv
  <2>2. ASSUME NEW r \in Calls, Execute(r) PROVE CauseInv'
    <3>1. fresh' = fresh \union {r} /\ call' = [call EXCEPT ![r] = "trying"] /\ UNCHANGED <<state, failures, errors>>
      BY <2>2 DEF Execute
    <3>2. Bad' \subseteq Bad
      BY <3>1, <1>t DEF Bad
    <3>3. QED
      BY <2>1, <3>1, <3>2
  <2>3. ASSUME NEW r \in Calls, StoreAnswers(r) PROVE CauseInv'
    <3>1. fresh' = fresh /\ call' = [call EXCEPT ![r] = "good"] /\ UNCHANGED <<state, failures, errors>>
      BY <2>3 DEF StoreAnswers
    <3>2. Bad' \subseteq Bad
      BY <3>1, <1>t DEF Bad
    <3>3. QED
      BY <2>1, <3>1, <3>2
  <2>4. ASSUME NEW r \in Calls, StoreFails(r) \/ Cancel(r) PROVE CauseInv'
    <3>1. call[r] = "trying" /\ UNCHANGED <<state, failures, fresh>>
      BY <2>4, FailCases
    <3>2. CASE UNCHANGED <<call, errors>>
      BY <2>1, <3>1, <3>2 DEF Bad
    <3>3. CASE Fail(r) /\ (r \notin fresh \/ errors >= MaxConsecFails)
      <4>1. errors' = errors /\ call' = [call EXCEPT ![r] = "bad"]
        BY <3>3, <1>t DEF Fail
      <4>2. r \notin fresh => Bad' \subseteq Bad
        BY <4>1, <3>1, <1>t DEF Bad
      <4>3. QED
        BY <2>1, <3>1, <3>3, <4>1, <4>2 DEF CauseInv
    <3>4. CASE Fail(r) /\ r \in fresh /\ ~(errors >= MaxConsecFails)
      <4>1. errors' = errors + 1 /\ call' = [call EXCEPT ![r] = "bad"]
        BY <3>4, <1>2, <1>t DEF Fail
      <4>2. Bad' = Bad \union {r} /\ r \notin Bad
        BY <4>1, <3>1, <3>4, <1>t DEF Bad
      <4>3. IsFiniteSet(Bad') /\ Cardinality(Bad') = Cardinality(Bad) + 1
        BY <4>2, <1>2, FS_AddElement
      <4>4. QED
        BY <4>1, <4>3, <3>1, <2>0, <1>2, <1>t DEF CauseInv
    <3>5. QED
      BY <3>2, <3>3, <3>4, <2>4, FailCases
  <2>5. ASSUME NEW r \in Calls, Return(r) PROVE CauseInv'
    <3>1. call' = [call EXCEPT ![r] = "idle"]
      BY <2>5, ReturnCases
    <3>2. ASSUME fresh' \subseteq fresh PROVE Bad' \subseteq Bad \ {r}
      BY <3>1, <3>2, <1>t DEF Bad
    <3>3. CASE r \notin fresh /\ UNCHANGED <<breaker, fresh, errors>>
      BY <2>1, <3>2, <3>3
    <3>4. CASE OnSuccess(r)
      <4>1. state' = "closed" /\ failures' = 0 /\ errors' = errors /\ fresh' \subseteq fresh
        BY <3>4, <1>2 DEF OnSuccess
      <4>2. IsFiniteSet(Bad') /\ Cardinality(Bad') \in Nat /\ Cardinality(Bad') <= Cardinality(Bad)
        BY <3>2, <4>1, <1>2, BadKept
      <4>3. QED
        BY <4>1, <4>2, <2>0, <1>2, <1>t DEF CauseInv
    <3>5. CASE r \in fresh /\ call[r] = "bad" /\ OnFailure(r)
      <4>1. r \in Bad
        BY <3>5 DEF Bad
      <4>2. IsFiniteSet(Bad \ {r}) /\ Cardinality(Bad \ {r}) = Cardinality(Bad) - 1
        BY <4>1, <1>2, FS_RemoveElement
      <4>3. Cardinality(Bad \ {r}) \in Nat
        BY <4>2, FS_CardinalityType
      <4>4. CASE failures + 1 >= MaxConsecFails
        BY <4>2, <4>3, <4>4, <3>5, <2>0, <1>2, <1>t DEF OnFailure, Enter, CauseInv
      <4>5. CASE ~(failures + 1 >= MaxConsecFails)
        <5>1. state' = "closed" /\ failures' = failures + 1 /\ errors' = errors /\ fresh' \subseteq fresh
          BY <4>5, <3>5, <1>2 DEF OnFailure
        <5>2. IsFiniteSet(Bad') /\ Cardinality(Bad') <= Cardinality(Bad \ {r})
          BY <3>2, <4>2, <5>1, FS_Subset
        <5>3. Cardinality(Bad') \in Nat
          BY <5>2, FS_CardinalityType
        <5>4. QED
          BY <4>2, <4>3, <5>1, <5>2, <5>3, <2>0, <1>2, <1>t DEF CauseInv
      <4>6. QED
        BY <4>4, <4>5
    <3>6. QED
      BY <3>3, <3>4, <3>5, <2>5, ReturnCases
  <2>6. ASSUME Cool \/ HalfOpen \/ GoDown \/ ComeBack \/ UNCHANGED vars PROVE CauseInv'
    <3>1. UNCHANGED <<state, failures, fresh, call, errors>>
      BY <1>2, <2>6 DEF Cool, HalfOpen, GoDown, ComeBack, vars
    <3>2. QED
      BY <2>1, <3>1 DEF Bad
  <2>7. QED
    BY <2>2, <2>3, <2>4, <2>5, <2>6 DEF Next, CallStep
<1>3. QED
  BY <1>1, <1>2 DEF CauseInv

\* Every behaviour of the breaker satisfies its inductive invariant.
THEOREM BreakerSafe == Spec => []BreakerInv
<1>1. BreakerInv /\ [Next]_vars => BreakerInv'
  BY BreakerTypeStep, ProbesStep, CauseStep DEF BreakerInv
<1>2. QED
  BY BreakerStart, <1>1, PTL DEF Spec

\* The variables keep their types, and the counts stay below their thresholds.
THEOREM BreakerTypes == Spec => []TypeOK
<1>1. BreakerInv => TypeOK
  BY DEF BreakerInv
<1>2. QED
  BY BreakerSafe, <1>1, PTL

\* A half-open breaker has no more calls in flight than the probes it may send.
THEOREM ProbesBoundedHolds == Spec => []ProbesBounded
<1>1. BreakerInv => ProbesBounded
  BY BreakerAssumption DEF BreakerInv, TypeOK, ProbesCounted, ProbesBounded
<1>2. QED
  BY BreakerSafe, <1>1, PTL

\* The breaker is not closed only for a cause of its own: expected errors and
\* the late errors of calls from before it last closed never open it, whatever
\* its threshold and however many calls are in flight.
THEOREM OpensForCauseHolds == Spec => []OpensForCause
<1>1. BreakerInv => OpensForCause
  BY DEF BreakerInv, CauseInv, OpensForCause
<1>2. QED
  BY BreakerSafe, <1>1, PTL

-----------------------------------------------------------------------------
(***************************************************************************)
(* The handlers over the breaker.                                          *)
(***************************************************************************)

\* The handlers change nothing of how the breaker works.
THEOREM ApiRefinesBreaker == ApiSpec => Spec
<1>1. ApiInit => Init
  BY DEF ApiInit
<1>2. [ApiNext]_apiVars => [Next]_vars
  <2>1. ASSUME NEW r \in Calls, Admit(r) PROVE Next
    BY <2>1 DEF Admit, Next
  <2>2. ASSUME NEW r \in Calls, Reject(r) PROVE UNCHANGED vars
    BY <2>2 DEF Reject
  <2>3. ASSUME NEW r \in Calls, Respond(r) PROVE Next
    BY <2>3 DEF Respond, Next, CallStep
  <2>4. ASSUME NEW r \in Calls, StoreAnswers(r) \/ StoreFails(r) \/ Cancel(r) PROVE Next
    BY <2>4 DEF Next, CallStep
  <2>5. ASSUME Recovery \/ Cool \/ Trial \/ Outage PROVE Next
    BY <2>5 DEF Recovery, Trial, Outage, Next
  <2>6. UNCHANGED apiVars => UNCHANGED vars
    BY DEF apiVars
  <2>7. QED
    BY <2>1, <2>2, <2>3, <2>4, <2>5, <2>6 DEF ApiNext
<1>3. QED
  BY <1>1, <1>2, PTL DEF ApiSpec, Spec

\* What an outage may fail when it begins: n calls in flight, g of which were
\* answered, d of which may fail, l of which the breaker no longer counts, and p
\* probes that it may still send.
LEMMA OutageBudget ==
  ASSUME NEW m \in Nat \ {0}, NEW n \in Nat, NEW g \in Nat, NEW d \in Nat, NEW l \in Nat,
         NEW f \in 0..(m - 1), NEW h \in Nat, NEW p \in 0..h, g + d <= n, l <= d
  PROVE  /\ m * n <= (m + 1) * n /\ (m + 1) * n \in Nat
         /\ d + p <= (m + 1) * n + h
         /\ d <= (m + 1) * n
         /\ g < n => (m - f) + (m - 1) * g + l + (n - 1) <= (m + 1) * n
         /\ 0 < g => d + p + m + (n - 1) <= (m + 1) * n + h
<1> DEFINE k == m - 1
<1>1. k \in Nat /\ m = k + 1
  OBVIOUS
<1> HIDE DEF k
<1>2. (m + 1) * n = k * n + 2 * n /\ m * n = k * n + n /\ (m - 1) * g = k * g /\ k * n \in Nat /\ k * g \in Nat
  BY <1>1
<1>3. ASSUME NEW a \in Nat, a <= n PROVE k * a <= k * n
  BY <1>1, <1>3
<1>4. g < n => k * g + k <= k * n
  <2> SUFFICES ASSUME g < n PROVE k * g + k <= k * n
    OBVIOUS
  <2>1. k * (g + 1) <= k * n
    BY <1>3
  <2>2. k * (g + 1) = k * g + k
    BY <1>1
  <2>3. QED
    BY <2>1, <2>2
<1>5. 0 < n => k <= k * n
  BY <1>1, <1>3
<1>6. QED
  BY <1>1, <1>2, <1>4, <1>5

\* A success that returns makes room for as many failures as the threshold, less
\* one, and was counted for that.
LEMMA SuccessBudget ==
  ASSUME NEW m \in Nat \ {0}, NEW n \in Nat \ {0}, NEW g \in Nat \ {0}, NEW f \in 0..(m - 1)
  PROVE  /\ m + (m - 1) * (g - 1) <= (m - f) + (m - 1) * g
         /\ m + (m - 1) * (n - 1) + (n - 1) = m * n
         /\ (m - 1) * g \in Nat /\ (m - 1) * (g - 1) \in Nat /\ m * n \in Nat
         /\ (m - 1) * (n - 1) \in Nat /\ (m - 1) * 0 = 0
<1>1. (m - 1) * (g - 1) = (m - 1) * g - (m - 1) /\ (m - 1) * (n - 1) = m * n - n - m + 1
  OBVIOUS
<1>2. QED
  BY <1>1

\* Requests are within the budget of their flights, w of them each: a flight that
\* fails is one less to come, and more may come when the budget grows as much.
LEMMA Exchange ==
  ASSUME NEW w \in Nat, NEW a \in Nat, NEW b \in Nat, NEW c \in Nat, NEW d \in Nat,
         NEW x \in Nat, NEW y \in Nat,
         b + w * d <= w * x,
         (a = b /\ c + x <= d + y) \/ (a <= b + w /\ c <= d - 1 /\ x = y)
  PROVE  a + w * c <= w * y
<1>1. CASE a = b /\ c + x <= d + y
  <2>1. w * (c + x) <= w * (d + y)
    <3>1. PICK e \in Nat : d + y = c + x + e
      BY <1>1
    <3>2. w * (d + y) = w * (c + x) + w * e /\ w * e \in Nat /\ w * (c + x) \in Nat
      BY <3>1
    <3>3. QED
      BY <3>2
  <2>2. w * (c + x) = w * c + w * x /\ w * (d + y) = w * d + w * y
    OBVIOUS
  <2>3. w * c \in Nat /\ w * x \in Nat /\ w * d \in Nat /\ w * y \in Nat
    OBVIOUS
  <2>4. QED
    BY <1>1, <2>1, <2>2, <2>3
<1>2. CASE a <= b + w /\ c <= d - 1 /\ x = y
  <2>1. PICK e \in Nat : d = c + 1 + e
    BY <1>2
  <2>2. w * d = w * c + w + w * e
    BY <2>1
  <2>3. w * c \in Nat /\ w * e \in Nat /\ w * x \in Nat
    BY <2>1
  <2>4. QED
    BY <1>2, <2>2, <2>3
<1>3. QED
  BY <1>1, <1>2

\* The calls in flight are counted once.
LEMMA FlightCounts ==
  ASSUME TypeOK, IsFiniteSet(Calls)
  PROVE  /\ N \in Nat /\ IsFiniteSet(Good) /\ IsFiniteSet(Late) /\ IsFiniteSet(Doubt)
         /\ Cardinality(Good) \in Nat /\ Cardinality(Late) \in Nat /\ Cardinality(Doubt) \in Nat
         /\ Cardinality(Good) + Cardinality(Doubt) <= N /\ Cardinality(Late) <= Cardinality(Doubt)
         /\ Good # Calls => Cardinality(Good) < N
         /\ Good # {} => Cardinality(Good) > 0
<1>1. Good \subseteq Calls /\ Doubt \subseteq Calls /\ Late \subseteq Doubt /\ Good \intersect Doubt = {}
  BY DEF Good, Doubt, Late, TypeOK
<1>2. /\ IsFiniteSet(Good) /\ IsFiniteSet(Doubt) /\ N \in Nat
      /\ Cardinality(Good) \in Nat /\ Cardinality(Doubt) \in Nat
      /\ Cardinality(Good) <= N /\ Good # Calls => Cardinality(Good) # N
  BY <1>1, FS_Subset, FS_CardinalityType DEF N
<1>3. IsFiniteSet(Late) /\ Cardinality(Late) \in Nat /\ Cardinality(Late) <= Cardinality(Doubt)
  BY <1>1, <1>2, FS_Subset, FS_CardinalityType
<1>4. Cardinality(Good \union Doubt) = Cardinality(Good) + Cardinality(Doubt) - Cardinality({})
  BY <1>1, <1>2, FS_Union
<1>5. Cardinality(Good \union Doubt) <= N /\ Cardinality({}) = 0
  <2>1. Good \union Doubt \in SUBSET Calls
    BY <1>1
  <2>2. QED
    BY <2>1, FS_Subset, FS_EmptySet DEF N
<1>6. Good # {} => Cardinality(Good) > 0
  BY <1>2, FS_EmptySet
<1>7. QED
  BY <1>2, <1>3, <1>4, <1>5, <1>6

\* A handler answers 503 when it is shed, except for a replay, whose 500s are not
\* counted; so do the handlers that wait for the same flight.
LEMMA ShedIsNotCounted ==
  ASSUME burst \in Nat, NEW r \in Calls, Answer(r, "shed")
  PROVE  burst' = burst
<1>1. Op[r] \in {"redirect", "stats", "list", "create", "delete"} \/ Op[r] = "replay"
  BY OpAssumption DEF ReadOps
<1>2. Status["redirect"]["shed"] = 503
  BY DEF Status, redirect, serviceUnavailable
<1>3. CASE Op[r] \in {"redirect", "stats", "list", "create", "delete"}
  <2>1. Status[Op[r]]["shed"] = 503
    BY <1>3 DEF Status, redirect, stats, listLinks, createLink, deleteLink, serviceUnavailable
  <2>2. QED
    BY <1>2, <2>1 DEF Answer
<1>4. CASE Op[r] = "replay"
  BY <1>2, <1>4 DEF Answer
<1>5. QED
  BY <1>1, <1>3, <1>4

\* A flight costs no more 500s than requests get what it gets, and none but for
\* an outage.
LEMMA AnswerCounts ==
  ASSUME burst \in Nat, NEW r \in Calls, NEW outcome, Answer(r, outcome)
  PROVE  /\ Width \in Nat
         /\ \/ burst' = burst
            \/ /\ ~up /\ outcome \in {"shed", "fails"}
               /\ burst' \in Nat /\ burst' <= burst + Width
<1> USE OpAssumption
<1>0. Followers(r) \subseteq 0..MaxFollowers
  BY DEF Followers
<1>1. PICK n \in 0..MaxFollowers, own \in {0, 1}, all \in Nat :
        /\ burst' = burst + own + all /\ all <= n
        /\ own # 0 \/ all # 0 => ~up /\ outcome \in {"shed", "fails"}
  <2> DEFINE fails(op) == ~up /\ outcome \in {"shed", "fails"} /\ Status[op][outcome] = 500
             own == IF fails(Op[r]) /\ Op[r] # "replay" THEN 1 ELSE 0
  <2>1. PICK n \in Followers(r) : burst' = burst + own + IF fails("redirect") THEN n ELSE 0
    BY DEF Answer
  <2> DEFINE all == IF fails("redirect") THEN n ELSE 0
  <2>2. own \in {0, 1} /\ all \in Nat /\ all <= n /\ n \in 0..MaxFollowers /\ burst' = burst + own + all
    BY <1>0, <2>1
  <2>3. own # 0 \/ all # 0 => ~up /\ outcome \in {"shed", "fails"}
    OBVIOUS
  <2> HIDE DEF own, all
  <2>4. QED
    BY <2>2, <2>3
<1>2. QED
  BY <1>1 DEF Width

\* What is still to come is a number.
Counted == StillToCome \in Nat

\* It is in every state of the right types.
LEMMA BudgetTypes ==
  ASSUME TypeOK, IsFiniteSet(Calls)
  PROVE  StillToCome \in Nat
<1> DEFINE g == Cardinality(Good)
           m == MaxConsecFails
<1>1. /\ N \in Nat /\ g \in Nat /\ Cardinality(Late) \in Nat /\ Cardinality(Doubt) \in Nat
      /\ (Good # Calls => g < N) /\ (Good # {} => g > 0) /\ g + Cardinality(Doubt) <= N
  BY FlightCounts
<1>2. m \in Nat \ {0} /\ failures \in 0..(m - 1) /\ HalfOpenProbes - requests \in Nat
  BY BreakerAssumption DEF TypeOK
<1>3. (m - 1) * g \in Nat /\ m * N \in Nat
  BY <1>1, <1>2
<1> HIDE DEF g
<1>4. QED
  BY <1>1, <1>2, <1>3 DEF StillToCome, g

\* A step that leaves the breaker's count, the successes on their way and the
\* calls that may fail alone leaves what is still to come alone.
LEMMA SameBudget ==
  ASSUME UNCHANGED <<state, failures, requests>>, Good' = Good, Late' = Late, Doubt' = Doubt
  PROVE  StillToCome' = StillToCome
  BY DEF StillToCome

\* A call that returns is no longer in flight, and if it fails it was counted.
LEMMA RespondBudget ==
  ASSUME TypeOK, IsFiniteSet(Calls), BurstInv, NEW r \in Calls, Respond(r)
  PROVE  /\ state' = "open" => fresh' = {}
         /\ StillToCome' \in Int
         /\ \/ burst' = burst /\ StillToCome' <= StillToCome
            \/ ~up /\ burst' \in Nat /\ burst' <= burst + Width /\ StillToCome' <= StillToCome - 1
<1> USE BreakerAssumption
<1> DEFINE g == Cardinality(Good)
           l == Cardinality(Late)
           d == Cardinality(Doubt)
           m == MaxConsecFails
           p == HalfOpenProbes - requests
           Cost == ~up /\ burst' \in Nat /\ burst' <= burst + Width
<1>1. /\ N \in Nat /\ g \in Nat /\ l \in Nat /\ d \in Nat /\ g + d <= N /\ l <= d
      /\ IsFiniteSet(Good) /\ IsFiniteSet(Late) /\ IsFiniteSet(Doubt)
      /\ Good # Calls => g < N
  BY FlightCounts
<1>2. /\ burst \in Nat /\ m \in Nat \ {0} /\ failures \in 0..(m - 1)
      /\ state \in {"closed", "open", "halfopen"} /\ p \in Nat
      /\ fresh \subseteq Calls /\ call \in [Calls -> {"idle", "trying", "good", "bad"}]
      /\ state = "open" => fresh = {}
  BY DEF BurstInv, TypeOK
<1>3. /\ call[r] \in {"good", "bad"} /\ call' = [call EXCEPT ![r] = "idle"]
      /\ burst' = burst \/ (call[r] = "bad" /\ Cost)
      /\ \/ r \notin fresh /\ UNCHANGED <<breaker, fresh>>
         \/ r \in fresh /\ call[r] = "good" /\ OnSuccess(r)
         \/ r \in fresh /\ call[r] = "bad" /\ OnFailure(r)
  <2>1. Return(r)
    BY DEF Respond
  <2>2. PICK outcome \in IF call[r] = "good" THEN {"done", "missing"} ELSE {"shed", "fails"} : Answer(r, outcome)
    BY DEF Respond
  <2>3. burst' = burst \/ (outcome \in {"shed", "fails"} /\ Cost)
    BY <2>2, <1>2, AnswerCounts
  <2>4. QED
    BY <2>1, <2>2, <2>3, ReturnCases
<1>4. N \in Nat \ {0} /\ r \in Calls
  BY <1>1, FS_EmptySet DEF N
<1>5. (m - 1) * g \in Nat /\ m * N \in Nat
  BY <1>1, <1>2
<1>6. StillToCome \in Nat
  BY BudgetTypes
<1>d. /\ call[r] = "bad" => Doubt' = Doubt \ {r} /\ Cardinality(Doubt') = d - 1
      /\ call[r] = "good" => Doubt' = Doubt /\ r \notin Doubt
  <2>1. CASE call[r] = "bad"
    <3>1. r \in Doubt /\ Doubt' = Doubt \ {r}
      BY <2>1, <1>2, <1>3 DEF Doubt
    <3>2. QED
      BY <3>1, <2>1, <1>1, FS_RemoveElement DEF d
  <2>2. CASE call[r] = "good"
    BY <2>2, <1>2, <1>3 DEF Doubt
  <2>3. QED
    BY <2>1, <2>2, <1>3
<1> HIDE DEF g, l, d, p, Cost
<1>7. CASE r \notin fresh
  <2>1. UNCHANGED <<state, failures, requests, fresh>>
    BY <1>3, <1>7 DEF breaker
  <2>2. Good' = Good /\ Good # Calls
    BY <2>1, <1>2, <1>3, <1>7 DEF Good
  <2>3. CASE call[r] = "good"
    <3>1. Late' = Late /\ Doubt' = Doubt /\ burst' = burst
      BY <2>1, <2>3, <1>3, <1>d DEF Late
    <3>2. StillToCome' = StillToCome
      BY <2>1, <2>2, <3>1, SameBudget
    <3>3. QED
      BY <2>1, <3>1, <3>2, <1>2, <1>6
  <2>4. CASE call[r] = "bad"
    <3>1. Late' = Late \ {r} /\ r \in Late
      BY <2>1, <2>4, <1>7, <1>d DEF Late, Doubt
    <3>2. Cardinality(Late') = l - 1
      BY <3>1, <1>1, FS_RemoveElement DEF l
    <3>3. Cardinality(Doubt') = d - 1
      BY <2>4, <1>d
    <3>4. CASE state = "closed"
      <4>1. StillToCome = (m - failures) + (m - 1) * g + l + (N - 1)
        BY <3>4, <2>2 DEF StillToCome, g, l
      <4>2. StillToCome' = (m - failures) + (m - 1) * g + (l - 1) + (N - 1)
        BY <3>2, <3>4, <2>1, <2>2 DEF StillToCome, g
      <4>3. StillToCome' = StillToCome - 1
        BY <4>1, <4>2, <1>1, <1>2, <1>5
      <4>4. QED
        BY <4>3, <2>1, <1>2, <1>3, <1>6 DEF Cost
    <3>5. CASE state # "closed"
      <4>1. StillToCome = d + (IF state = "halfopen" THEN p ELSE 0) + (IF Good # {} THEN m + (N - 1) ELSE 0)
        BY <3>5 DEF StillToCome, d, p
      <4>2. StillToCome' = (d - 1) + (IF state = "halfopen" THEN p ELSE 0) + (IF Good # {} THEN m + (N - 1) ELSE 0)
        BY <3>5, <3>3, <2>1, <2>2 DEF StillToCome, p
      <4>3. StillToCome' = StillToCome - 1
        BY <4>1, <4>2, <1>1, <1>2, <1>4
      <4>4. QED
        BY <4>3, <2>1, <1>2, <1>3, <1>6 DEF Cost
    <3>6. QED
      BY <3>4, <3>5
  <2>5. QED
    BY <2>3, <2>4, <1>3
<1>8. CASE r \in fresh /\ call[r] = "good" /\ OnSuccess(r)
  <2>1. r \in Good /\ burst' = burst /\ g \in Nat \ {0} /\ Doubt' = Doubt
    <3>1. r \in Good /\ Doubt' = Doubt
      BY <1>8, <1>d DEF Good
    <3>2. g \in Nat \ {0}
      BY <3>1, <1>1, FS_EmptySet DEF g
    <3>3. burst' = burst
      BY <1>3, <1>8
    <3>4. QED
      BY <3>1, <3>2, <3>3
  <2>2. /\ m + (m - 1) * (g - 1) <= (m - failures) + (m - 1) * g
        /\ m + (m - 1) * (N - 1) + (N - 1) = m * N
        /\ (m - 1) * (g - 1) \in Nat /\ (m - 1) * (N - 1) \in Nat /\ (m - 1) * 0 = 0
    BY <2>1, <1>2, <1>4, SuccessBudget
  <2>3. CASE state = "closed"
    <3>1. state' = "closed" /\ failures' = 0 /\ fresh' = fresh \ {r}
      BY <2>3, <1>8 DEF OnSuccess
    <3>2. Good' = Good \ {r}
      BY <3>1, <1>2, <1>3 DEF Good
    <3>3. Late' = Late
      BY <3>1, <2>1, <1>8, <1>d DEF Late
    <3>4. Good' # Calls /\ Cardinality(Good') = g - 1
      <4>1. Cardinality(Good \ {r}) = Cardinality(Good) - 1
        BY <2>1, <1>1, FS_RemoveElement
      <4>2. r \in Calls /\ r \notin Good'
        BY <3>2, <1>8, Zenon
      <4>3. QED
        BY <4>1, <4>2, <3>2 DEF g
    <3>5. StillToCome' = m + (m - 1) * (g - 1) + l + (N - 1)
      BY <3>1, <3>3, <3>4, <1>2 DEF StillToCome, l
    <3>6. CASE Good = Calls
      <4>1. g = N /\ l = 0 /\ StillToCome = m * N
        BY <3>6, <2>3, <1>1 DEF StillToCome, N, g
      <4>2. QED
        BY <4>1, <3>1, <3>5, <2>1, <2>2, <1>2, <1>5
    <3>7. CASE Good # Calls
      <4>1. StillToCome = (m - failures) + (m - 1) * g + l + (N - 1)
        BY <3>7, <2>3 DEF StillToCome, g, l
      <4>2. QED
        BY <4>1, <3>1, <3>5, <2>1, <2>2, <1>1, <1>2, <1>5
    <3>8. QED
      BY <3>6, <3>7
  <2>4. CASE state = "halfopen"
    <3>1. Good # {}
      BY <2>1
    <3>2. StillToCome = d + p + (m + (N - 1))
      BY <3>1, <2>4 DEF StillToCome, d, p
    <3>3. CASE Enter("closed")
      <4>1. Good' = {} /\ Late' = Doubt /\ state' = "closed" /\ failures' = 0
        BY <3>3, <2>1 DEF Enter, Good, Late
      <4>2. Good' # Calls /\ Cardinality(Good') = 0
        BY <4>1, FS_EmptySet
      <4>3. StillToCome' = m + (m - 1) * 0 + d + (N - 1)
        BY <4>1, <4>2, <1>2 DEF StillToCome, d
      <4>4. QED
        BY <4>1, <4>3, <3>2, <2>1, <2>2, <1>1, <1>2
    <3>4. CASE state' = state /\ requests' = requests
      <4>1. StillToCome' = d + p + (IF Good' # {} THEN m + (N - 1) ELSE 0)
        BY <3>4, <2>1, <2>4 DEF StillToCome, d, p
      <4>2. StillToCome' \in Int /\ StillToCome' <= StillToCome
        BY <4>1, <3>2, <1>1, <1>2, <1>4
      <4>3. QED
        BY <4>2, <3>4, <2>1, <2>4
    <3>5. QED
      BY <3>3, <3>4, <1>8 DEF OnSuccess
  <2>5. QED
    BY <2>3, <2>4, <1>2, <1>8
<1>9. CASE r \in fresh /\ call[r] = "bad" /\ OnFailure(r)
  <2>0. Cardinality(Doubt') = d - 1
    BY <1>9, <1>d
  <2>1. CASE state = "halfopen"
    <3>1. state' = "open" /\ fresh' = {}
      BY <2>1, <1>9 DEF OnFailure, Enter
    <3>2. Good' = {}
      BY <3>1 DEF Good
    <3>3. StillToCome' = (d - 1) + 0 + 0
      BY <3>1, <3>2, <2>0 DEF StillToCome
    <3>4. d <= StillToCome
      BY <2>1, <1>1, <1>2, <1>4 DEF StillToCome, d, p
    <3>5. QED
      BY <3>1, <3>3, <3>4, <1>1, <1>2, <1>3, <1>6 DEF Cost
  <2>2. CASE state = "closed"
    <3>1. Good # Calls
      BY <1>9 DEF Good
    <3>2. StillToCome = (m - failures) + (m - 1) * g + l + (N - 1)
      BY <3>1, <2>2 DEF StillToCome, g, l
    <3>3. CASE failures + 1 >= MaxConsecFails
      <4>1. state' = "open" /\ fresh' = {}
        BY <3>3, <1>9 DEF OnFailure, Enter
      <4>2. Good' = {}
        BY <4>1 DEF Good
      <4>3. StillToCome' = (d - 1) + 0 + 0
        BY <4>1, <4>2, <2>0 DEF StillToCome
      <4>4. StillToCome' <= StillToCome - 1
        BY <4>3, <3>2, <1>1, <1>2, <1>4, <1>5
      <4>5. QED
        BY <4>1, <4>3, <4>4, <1>1, <1>2, <1>3, <1>6 DEF Cost
    <3>4. CASE ~(failures + 1 >= MaxConsecFails)
      <4>1. state' = "closed" /\ failures' = failures + 1 /\ fresh' = fresh \ {r}
        BY <3>4, <2>2, <1>9 DEF OnFailure
      <4>2. Good' = Good
        BY <4>1, <1>2, <1>3, <1>9 DEF Good
      <4>3. Late' = Late
        BY <4>1, <1>9, <1>d DEF Late
      <4>4. StillToCome' = (m - (failures + 1)) + (m - 1) * g + l + (N - 1)
        BY <4>1, <4>2, <4>3, <3>1 DEF StillToCome, g, l
      <4>5. StillToCome' = StillToCome - 1
        BY <4>4, <3>2, <1>1, <1>2, <1>5
      <4>6. QED
        BY <4>1, <4>5, <1>2, <1>3, <1>6 DEF Cost
    <3>5. QED
      BY <3>3, <3>4
  <2>3. QED
    BY <2>1, <2>2, <1>2, <1>9
<1>10. QED
  BY <1>3, <1>7, <1>8, <1>9

\* When an outage begins, what may come of it is within the budget.
LEMMA OutageWithin ==
  ASSUME TypeOK, IsFiniteSet(Calls), NEW k \in Nat, k = IF state = "halfopen" THEN 1 ELSE 0
  PROVE  StillToCome <= (MaxConsecFails + 1) * N + HalfOpenProbes * k
<1> DEFINE g == Cardinality(Good)
           l == Cardinality(Late)
           d == Cardinality(Doubt)
           m == MaxConsecFails
           h == HalfOpenProbes
           p == HalfOpenProbes - requests
<1>1. /\ N \in Nat /\ g \in Nat /\ l \in Nat /\ d \in Nat /\ g + d <= N /\ l <= d
      /\ (Good # Calls => g < N) /\ (Good # {} => g > 0)
  BY FlightCounts
<1>2. m \in Nat \ {0} /\ failures \in 0..(m - 1) /\ h \in Nat /\ p \in 0..h
  BY BreakerAssumption DEF TypeOK
<1>3. /\ m * N <= (m + 1) * N /\ (m + 1) * N \in Nat
      /\ d + p <= (m + 1) * N + h
      /\ d <= (m + 1) * N
      /\ g < N => (m - failures) + (m - 1) * g + l + (N - 1) <= (m + 1) * N
      /\ 0 < g => d + p + m + (N - 1) <= (m + 1) * N + h
  BY <1>1, <1>2, OutageBudget
<1>4. h * 1 = h /\ h * 0 = 0
  BY <1>2
<1>5. CASE state = "closed"
  BY <1>1, <1>2, <1>3, <1>4, <1>5 DEF StillToCome
<1>6. CASE state = "halfopen"
  <2>1. StillToCome = d + p + (IF Good # {} THEN m + (N - 1) ELSE 0)
    BY <1>6 DEF StillToCome
  <2> HIDE DEF g, d, p
  <2>2. QED
    BY <2>1, <1>1, <1>2, <1>3, <1>4, <1>6
<1>7. CASE state = "open" /\ Good = {}
  <2>1. StillToCome = d + 0 + 0
    BY <1>7 DEF StillToCome
  <2> HIDE DEF d
  <2>2. QED
    BY <2>1, <1>1, <1>2, <1>3, <1>4, <1>7
<1>8. CASE state = "open" /\ Good # {}
  <2>1. p \in Nat /\ StillToCome = d + 0 + (m + (N - 1))
    BY <1>2, <1>8 DEF StillToCome
  <2>2. d + m + (N - 1) <= (m + 1) * N
    <3>1. 0 \in 0..0 /\ 0 \in Nat
      OBVIOUS
    <3>2. d + 0 + m + (N - 1) <= (m + 1) * N + 0
      BY <1>1, <1>2, <1>8, <3>1, OutageBudget
    <3>3. QED
      BY <3>2, <1>1, <1>2, <1>3
  <2>3. QED
    BY <2>1, <2>2, <1>1, <1>2, <1>3, <1>4, <1>8
<1>9. QED
  BY <1>5, <1>6, <1>7, <1>8 DEF TypeOK

\* Nothing but a trial adds to what an outage costs while it lasts.
LEMMA BurstStep ==
  ASSUME TypeOK, TypeOK', Counted', IsFiniteSet(Calls), BurstInv, [ApiNext]_apiVars
  PROVE  BurstInv'
<1> USE BreakerAssumption, OpAssumption
<1>0. StillToCome' \in Nat
  BY DEF Counted
<1>1. /\ StillToCome \in Nat /\ burst \in Nat /\ trials \in Nat /\ Budget \in Nat /\ Width \in Nat
      /\ up => burst = 0
      /\ state = "open" => fresh = {}
      /\ ~up => burst + Width * StillToCome <= Width * Budget
      /\ fresh \subseteq Calls /\ call \in [Calls -> {"idle", "trying", "good", "bad"}]
      /\ \A x \in fresh : call[x] # "idle"
  <2>1. N \in Nat /\ trials \in Nat
    BY FlightCounts DEF BurstInv
  <2>2. Budget \in Nat /\ Width \in Nat
    BY <2>1 DEF Budget, Width
  <2>3. QED
    BY <2>2, BudgetTypes DEF BurstInv, TypeOK
<1>2. ASSUME UNCHANGED <<state, failures, requests, up, burst, trials>>, Good' = Good, Late' = Late, Doubt' = Doubt,
             state = "open" => fresh' = {}
      PROVE  BurstInv'
  BY <1>1, <1>2, SameBudget DEF BurstInv, Budget, Width, N
<1>3. ASSUME NEW r \in Calls, Admit(r) PROVE BurstInv'
  <2>1. /\ call[r] = "idle" /\ r \notin fresh /\ fresh' = fresh \union {r} /\ state # "open"
        /\ call' = [call EXCEPT ![r] = "trying"] /\ UNCHANGED <<state, failures, up, burst, trials>>
        /\ requests' = IF state = "halfopen" THEN requests + 1 ELSE requests
    BY <1>1, <1>3 DEF Admit, Execute, Ready, env, statusVars
  <2>2. Good' = Good /\ Late' = Late
    BY <2>1, <1>1 DEF Good, Late, Doubt
  <2>3. CASE state = "closed"
    <3>1. StillToCome' = StillToCome
      BY <2>1, <2>2, <2>3 DEF StillToCome
    <3>2. QED
      BY <3>1, <2>1, <2>3, <1>1 DEF BurstInv, Budget, Width, N
  <2>4. CASE state = "halfopen"
    <3>1. Doubt' = Doubt \union {r} /\ r \notin Doubt
      BY <2>1, <1>1 DEF Doubt
    <3>2. IsFiniteSet(Doubt) /\ Cardinality(Doubt) \in Nat /\ N \in Nat
      BY FlightCounts
    <3>3. Cardinality(Doubt') = Cardinality(Doubt) + 1
      BY <3>1, <3>2, FS_AddElement
    <3>4. requests \in Nat /\ requests' = requests + 1
      BY <2>1, <2>4 DEF TypeOK
    <3> DEFINE rest == IF Good # {} THEN MaxConsecFails + (N - 1) ELSE 0
    <3>5. rest \in Int
      BY <3>2
    <3>6. StillToCome = Cardinality(Doubt) + (HalfOpenProbes - requests) + rest
      BY <2>4 DEF StillToCome
    <3>7. StillToCome' = (Cardinality(Doubt) + 1) + (HalfOpenProbes - (requests + 1)) + rest
      BY <2>1, <2>2, <2>4, <3>3, <3>4 DEF StillToCome
    <3> HIDE DEF rest
    <3>8. StillToCome' = StillToCome
      BY <3>2, <3>4, <3>5, <3>6, <3>7
    <3>9. QED
      BY <3>8, <2>1, <2>4, <1>1 DEF BurstInv, Budget, Width, N
  <2>5. QED
    BY <2>1, <2>3, <2>4 DEF TypeOK
<1>4. ASSUME NEW r \in Calls, Reject(r) PROVE BurstInv'
  <2>1. UNCHANGED <<state, failures, requests, fresh, call, up, burst, trials>>
    BY <1>1, <1>4, ShedIsNotCounted DEF Reject, vars
  <2>2. QED
    BY <2>1, <1>1, <1>2 DEF Good, Late, Doubt
<1>5. ASSUME NEW r \in Calls, Respond(r) PROVE BurstInv'
  <2>1. up' = up /\ trials' = trials
    BY <1>5, ReturnCases DEF Respond, env
  <2>2. /\ state' = "open" => fresh' = {}
        /\ \/ burst' = burst /\ StillToCome' <= StillToCome
           \/ ~up /\ burst' \in Nat /\ burst' <= burst + Width /\ StillToCome' <= StillToCome - 1
    BY <1>5, RespondBudget
  <2>3. burst' \in Nat /\ (up => burst' = burst)
    BY <2>2, <1>1
  <2>4. ~up => burst' + Width * StillToCome' <= Width * Budget
    <3> SUFFICES ASSUME ~up PROVE burst' + Width * StillToCome' <= Width * Budget
      OBVIOUS
    <3> DEFINE c == StillToCome'
               d == StillToCome
               a == burst'
               b == burst
               x == Budget
    <3>1. a \in Nat /\ b \in Nat /\ c \in Nat /\ d \in Nat /\ x \in Nat /\ Width \in Nat
      BY <2>3, <1>0, <1>1
    <3>2. b + Width * d <= Width * x
      BY <1>1
    <3>3. (a = b /\ c <= d) \/ (a <= b + Width /\ c <= d - 1)
      BY <2>2
    <3> HIDE DEF a, b, c, d, x
    <3>4. (a = b /\ c + x <= d + x) \/ (a <= b + Width /\ c <= d - 1 /\ x = x)
      BY <3>1, <3>3
    <3>5. a + Width * c <= Width * x
      BY <3>1, <3>2, <3>4, Exchange
    <3>6. QED
      BY <3>5 DEF a, c, x
  <2>5. QED
    BY <2>1, <2>2, <2>3, <2>4, <1>1 DEF BurstInv, Budget, Width, N
<1>6. ASSUME NEW r \in Calls, StoreFails(r) \/ Cancel(r), UNCHANGED statusVars PROVE BurstInv'
  <2>1. /\ call[r] = "trying" /\ UNCHANGED <<state, failures, requests, fresh, up, burst, trials>>
        /\ \E result \in {"trying", "bad"} : call' = [call EXCEPT ![r] = result]
    BY <1>6, FailCases DEF breaker, statusVars
  <2>2. Good' = Good
    BY <2>1, <1>1 DEF Good
  <2>3. Doubt' = Doubt
    BY <2>1, <1>1 DEF Doubt
  <2>4. Late' = Late
    BY <2>1, <2>3 DEF Late
  <2>5. QED
    BY <2>1, <2>2, <2>3, <2>4, <1>1, <1>2
<1>7. ASSUME NEW r \in Calls, StoreAnswers(r), UNCHANGED statusVars PROVE BurstInv'
  <2>1. up /\ UNCHANGED <<state, fresh, up, burst, trials>>
    BY <1>7 DEF StoreAnswers, breaker, env, statusVars
  <2>2. QED
    BY <2>1, <1>1 DEF BurstInv
<1>8. CASE Recovery
  <2>1. up' /\ burst' = 0 /\ trials' = 0 /\ UNCHANGED <<state, fresh>>
    BY <1>8 DEF Recovery, ComeBack, breaker
  <2>2. QED
    BY <2>1, <1>1 DEF BurstInv
<1>9. CASE (Cool \/ UNCHANGED vars) /\ UNCHANGED statusVars
  <2>1. UNCHANGED <<state, failures, requests, fresh, call, up, burst, trials>>
    BY <1>9 DEF Cool, vars, env, statusVars
  <2>2. QED
    BY <2>1, <1>1, <1>2 DEF Good, Late, Doubt
<1>10. CASE Trial
  <2>1. /\ state = "open" /\ state' = "halfopen" /\ fresh = {} /\ fresh' = {} /\ requests' = 0
        /\ UNCHANGED <<call, up, burst>> /\ trials' = IF up THEN trials ELSE trials + 1
    BY <1>1, <1>10 DEF Trial, HalfOpen, Enter, env
  <2>2. Good' = {} /\ Good = {} /\ Doubt' = Doubt
    BY <2>1 DEF Good, Doubt
  <2>3. Cardinality(Doubt) \in Nat /\ N \in Nat
    BY FlightCounts
  <2>4. StillToCome = Cardinality(Doubt) + 0 + 0 /\ StillToCome' = Cardinality(Doubt) + (HalfOpenProbes - 0) + 0
    BY <2>1, <2>2 DEF StillToCome
  <2>5. StillToCome' = StillToCome + HalfOpenProbes
    BY <2>3, <2>4
  <2>6. CASE up
    BY <2>1, <2>6, <1>1 DEF BurstInv
  <2>7. CASE ~up
    <3>1. Budget' = Budget + HalfOpenProbes
      BY <2>1, <2>3, <2>7, <1>1 DEF Budget, N
    <3>2. StillToCome' + Budget <= StillToCome + Budget'
      BY <2>5, <3>1, <1>1
    <3>3. Budget' \in Nat
      BY <3>1, <1>1
    <3> DEFINE c == StillToCome'
               d == StillToCome
               x == Budget
               y == Budget'
    <3>4. c \in Nat /\ d \in Nat /\ x \in Nat /\ y \in Nat /\ Width \in Nat /\ burst \in Nat
          /\ burst + Width * d <= Width * x /\ c + x <= d + y
      BY <1>0, <1>1, <2>7, <3>2, <3>3
    <3> HIDE DEF c, d, x, y
    <3>5. burst + Width * c <= Width * y
      BY <3>4, Exchange
    <3>6. burst + Width * StillToCome' <= Width * Budget'
      BY <3>5 DEF c, y
    <3>7. QED
      BY <3>6, <2>1, <2>7, <1>1 DEF BurstInv, Width
  <2>8. QED
    BY <2>6, <2>7
<1>11. CASE Outage
  <2>1. burst = 0 /\ UNCHANGED <<state, failures, requests, fresh, call, burst>> /\ trials' = IF state = "halfopen" THEN 1 ELSE 0
    BY <1>1, <1>11 DEF Outage, GoDown, breaker
  <2>2. StillToCome' = StillToCome
    BY <2>1, SameBudget DEF Good, Late, Doubt
  <2>3. trials' \in Nat
    BY <2>1
  <2>4. StillToCome <= (MaxConsecFails + 1) * N + HalfOpenProbes * trials'
    BY <2>1, <2>3, OutageWithin
  <2>5. Budget' = (MaxConsecFails + 1) * N + HalfOpenProbes * trials' /\ Budget' \in Nat
    <3>1. N \in Nat
      BY FlightCounts
    <3>2. QED
      BY <2>3, <3>1 DEF Budget, N
  <2> DEFINE c == StillToCome
             y == Budget'
  <2>6. c \in Nat /\ y \in Nat /\ c <= y /\ Width \in Nat
    BY <1>1, <2>4, <2>5
  <2> HIDE DEF c, y
  <2>7. 0 + Width * c <= Width * y
    <3>1. c + 0 <= 0 + y /\ 0 + Width * 0 <= Width * 0
      BY <2>6
    <3>2. QED
      BY <2>6, <3>1, Exchange
  <2>8. burst' + Width * StillToCome' <= Width * Budget'
    BY <2>1, <2>2, <2>7 DEF c, y
  <2>9. QED
    BY <2>1, <2>3, <2>8, <1>1 DEF BurstInv, Width
<1>12. QED
  BY <1>3, <1>4, <1>5, <1>6, <1>7, <1>8, <1>9, <1>10, <1>11 DEF ApiNext, apiVars, statusVars

\* In an outage of any length, with any number of calls in flight and of requests
\* waiting for each, the 500s are within the budget of the flights that the
\* breaker lets fail.
THEOREM BurstBoundedHolds == IsFiniteSet(Calls) => (ApiSpec => []BurstBounded)
<1> SUFFICES ASSUME IsFiniteSet(Calls) PROVE ApiSpec => []BurstBounded
  OBVIOUS
<1>1. ApiInit => BurstInv
  <2> SUFFICES ASSUME ApiInit PROVE BurstInv
    OBVIOUS
  <2>1. up = TRUE
    BY DEF ApiInit, Init
  <2>2. QED
    BY <2>1 DEF ApiInit, Init, BurstInv
<1>2. TypeOK => Counted
  BY BudgetTypes DEF Counted
<1>3. TypeOK /\ TypeOK' /\ Counted' /\ BurstInv /\ [ApiNext]_apiVars => BurstInv'
  BY BurstStep
<1>4. TypeOK /\ BurstInv => BurstBounded
  <2> SUFFICES ASSUME TypeOK, BurstInv PROVE BurstBounded
    OBVIOUS
  <2>1. N \in Nat /\ burst \in Nat /\ trials \in Nat
    BY FlightCounts DEF BurstInv
  <2>2. Budget \in Nat /\ Width \in Nat /\ StillToCome \in Nat
    BY <2>1, BudgetTypes, BreakerAssumption, OpAssumption DEF Budget, Width
  <2> DEFINE c == StillToCome
             x == Budget
  <2> HIDE DEF c, x
  <2>3. Width * x \in Nat /\ Width * c \in Nat
    BY <2>2 DEF c, x
  <2>4. burst <= Width * x
    BY <2>1, <2>3 DEF BurstInv, c, x
  <2>5. QED
    BY <2>4 DEF BurstBounded, x, Budget, Width, N
<1>5. ApiSpec => []TypeOK
  BY ApiRefinesBreaker, BreakerTypes, PTL
<1>6. QED
  BY <1>1, <1>2, <1>3, <1>4, <1>5, PTL DEF ApiSpec

=============================================================================
