------------------------- MODULE WorkerLeaseProofs -------------------------
(***************************************************************************)
(* Worker IDs are exclusive for any number of pods, slots, deaths and lost *)
(* answers, until Redis restarts or a pod misses so many consecutive       *)
(* renewals that its key runs out.  Until then the codes minted with a     *)
(* slot whose holder died are never minted again, whatever the clocks; and *)
(* at any time no pod renews or frees another pod's slot.                  *)
(***************************************************************************)
EXTENDS LeasedMint, TLAPS

\* The key of a serving pod lasts beyond its next tick, although nothing was
\* renewed since the misses began.
KeyOutlasts ==
  \A p \in Pods : phase[p] = "serving" =>
    /\ Unrenewed(missed[p]) < LeaseTTL
    /\ ttl[slot[p]] >= LeaseTTL - Unrenewed(missed[p]) + beat[p]

\* The lease of every serving pod, and that it lasts.
Leased == AllHold /\ KeyOutlasts

IInv == TypeOK /\ (~emptied /\ ~lapsed => Leased)

\* Every step keeps the types.
LEMMA TypeStep == TypeOK /\ [Next]_vars => TypeOK'
  <1> SUFFICES ASSUME TypeOK, [Next]_vars PROVE TypeOK'
    OBVIOUS
  <1> USE LeaseAssumption
  <1>1. ASSUME NEW p \in Pods, Boot(p) PROVE TypeOK'
    BY <1>1 DEF TypeOK, Boot, redisVars
  <1>2. ASSUME NEW p \in Pods, Acquire(p) PROVE TypeOK'
    <2>1. /\ slot[p] \in Slots /\ p \in Pods /\ p # Nobody
          /\ owner' = [owner EXCEPT ![slot[p]] = p] /\ ttl' = [ttl EXCEPT ![slot[p]] = LeaseTTL]
      BY <1>2 DEF Acquire, SetNX
    <2>2. owner' \in [Slots -> Pods \union {Nobody}] /\ ttl' \in [Slots -> 0..LeaseTTL]
      BY <2>1 DEF TypeOK
    <2>3. \A s \in Slots : owner'[s] = Nobody <=> ttl'[s] = 0
      BY <2>1 DEF TypeOK
    <2> QED
      BY <1>2, <2>2, <2>3 DEF TypeOK, Acquire
  <1>3. ASSUME NEW p \in Pods, AcquireNext(p) PROVE TypeOK'
    <2>1. slot[p] + 1 \in 0..(MaxWorkerID + 1)
      BY <1>3 DEF AcquireNext, Slots
    <2>2. slot' \in [Pods -> 0..(MaxWorkerID + 1)]
      BY <1>3, <2>1 DEF TypeOK, AcquireNext
    <2> QED
      BY <1>3, <2>2 DEF TypeOK, AcquireNext, redisVars
  <1>4. ASSUME NEW p \in Pods, AcquireAnswerLost(p) PROVE TypeOK'
    <2>1. /\ slot[p] \in Slots /\ p \in Pods /\ p # Nobody
          /\ owner' = [owner EXCEPT ![slot[p]] = p] /\ ttl' = [ttl EXCEPT ![slot[p]] = LeaseTTL]
      BY <1>4 DEF AcquireAnswerLost, SetNX
    <2>2. owner' \in [Slots -> Pods \union {Nobody}] /\ ttl' \in [Slots -> 0..LeaseTTL]
      BY <2>1 DEF TypeOK
    <2>3. \A s \in Slots : owner'[s] = Nobody <=> ttl'[s] = 0
      BY <2>1 DEF TypeOK
    <2>4. slot[p] + 1 \in 0..(MaxWorkerID + 1)
      BY <2>1 DEF Slots
    <2>5. slot' \in [Pods -> 0..(MaxWorkerID + 1)]
      BY <1>4, <2>4 DEF TypeOK, AcquireAnswerLost
    <2> QED
      BY <1>4, <2>2, <2>3, <2>5 DEF TypeOK, AcquireAnswerLost, Fault
  <1>5. ASSUME NEW p \in Pods, AcquireNoneFree(p) PROVE TypeOK'
    BY <1>5 DEF TypeOK, AcquireNoneFree, Exit, redisVars
  <1>6. ASSUME NEW p \in Pods, Renew(p) PROVE TypeOK'
    <2>1. owner' = owner /\ ttl' = IF owner[slot[p]] = p THEN [ttl EXCEPT ![slot[p]] = LeaseTTL] ELSE ttl
      BY <1>6 DEF Renew, RenewScript
    <2>2. LeaseTTL \in 0..LeaseTTL /\ LeaseTTL # 0
      OBVIOUS
    <2>3. ttl' \in [Slots -> 0..LeaseTTL] /\ \A s \in Slots : owner'[s] = Nobody <=> ttl'[s] = 0
      <3>1. CASE owner[slot[p]] = p
        BY <2>1, <2>2, <3>1 DEF TypeOK
      <3>2. CASE owner[slot[p]] # p
        BY <2>1, <3>2 DEF TypeOK
      <3> QED
        BY <3>1, <3>2
    <2> QED
      BY <1>6, <2>1, <2>2, <2>3 DEF TypeOK, Renew
  <1>7. ASSUME NEW p \in Pods, RenewFails(p) PROVE TypeOK'
    <2>1. lapsed' \in BOOLEAN
      BY <1>7, Zenon DEF RenewFails
    <2> QED
      BY <1>7, <2>1 DEF TypeOK, RenewFails, redisVars
  <1>8. ASSUME NEW p \in Pods, Release(p) PROVE TypeOK'
    <2>1. CASE owner[slot[p]] = p
      BY <1>8, <2>1 DEF TypeOK, Release, ReleaseScript, Exit, Fault
    <2>2. CASE owner[slot[p]] # p
      BY <1>8, <2>2 DEF TypeOK, Release, ReleaseScript, Exit, Fault, redisVars
    <2> QED
      BY <2>1, <2>2
  <1>9. ASSUME NEW p \in Pods, Die(p) PROVE TypeOK'
    BY <1>9 DEF TypeOK, Die, Exit, Fault, redisVars
  <1>10. CASE RedisRestart
    BY <1>10 DEF TypeOK, RedisRestart, Fault, podVars
  <1>11. CASE Tick
    <2>1. ttl' \in [Slots -> 0..LeaseTTL]
      BY <1>11 DEF TypeOK, Tick
    <2>2. owner' \in [Slots -> Pods \union {Nobody}]
      BY <1>11 DEF TypeOK, Tick
    <2>3. beat' \in [Pods -> 0..HeartbeatInterval]
      BY <1>11 DEF TypeOK, Tick
    <2>4. \A s \in Slots : owner'[s] = Nobody <=> ttl'[s] = 0
      BY <1>11 DEF TypeOK, Tick
    <2> QED
      BY <1>11, <2>1, <2>2, <2>3, <2>4 DEF TypeOK, Tick
  <1>12. CASE UNCHANGED vars
    BY <1>12 DEF TypeOK, vars
  <1> QED
    BY <1>1, <1>2, <1>3, <1>4, <1>5, <1>6, <1>7, <1>8, <1>9, <1>10, <1>11, <1>12 DEF Next

\* The initial states have the types.
LEMMA TypeInit == Init => TypeOK
  <1> SUFFICES ASSUME Init PROVE TypeOK
    OBVIOUS
  <1> USE LeaseAssumption
  <1>1. emptied \in BOOLEAN /\ lapsed \in BOOLEAN
    BY Zenon DEF Init
  <1>2. owner \in [Slots -> Pods \union {Nobody}] /\ ttl \in [Slots -> 0..LeaseTTL]
    BY DEF Init
  <1>3. /\ phase \in [Pods -> {"off", "scanning", "serving"}]
        /\ slot \in [Pods -> 0..(MaxWorkerID + 1)]
        /\ beat \in [Pods -> 0..HeartbeatInterval]
        /\ missed \in [Pods -> 0..MaxMisses]
        /\ faults \in Nat
    BY DEF Init
  <1>4. \A s \in Slots : owner[s] = Nobody <=> ttl[s] = 0
    BY DEF Init
  <1> QED
    BY <1>1, <1>2, <1>3, <1>4 DEF TypeOK

\* Every behaviour keeps the type invariant.
THEOREM TypeCorrect == Spec => []TypeOK
  BY TypeInit, TypeStep, PTL DEF Spec

\* The age of a key grows by one interval with every miss.
LEMMA UnrenewedArithmetic ==
  ASSUME NEW m \in Nat
  PROVE  /\ Unrenewed(m) \in Nat
         /\ Unrenewed(m + 1) = Unrenewed(m) + HeartbeatInterval
         /\ Unrenewed(0) = HeartbeatInterval
  BY LeaseAssumption DEF Unrenewed

\* What AllHold and KeyOutlasts say of one pod after the step.
HeldAfter(p) ==
  phase'[p] = "serving" =>
    /\ slot'[p] \in Slots
    /\ owner'[slot'[p]] = p
    /\ Unrenewed(missed'[p]) < LeaseTTL
    /\ ttl'[slot'[p]] >= LeaseTTL - Unrenewed(missed'[p]) + beat'[p]

\* A pod whose own state a step leaves alone, and whose key it leaves alone,
\* keeps its lease.
LEMMA Untouched ==
  ASSUME Leased, NEW q \in Pods,
         phase'[q] = phase[q] /\ slot'[q] = slot[q] /\ beat'[q] = beat[q] /\ missed'[q] = missed[q],
         phase[q] = "serving" => owner'[slot[q]] = owner[slot[q]] /\ ttl'[slot[q]] = ttl[slot[q]]
  PROVE  HeldAfter(q)
  BY DEF Leased, AllHold, KeyOutlasts, HeldAfter

\* Every step but a restart of Redis and a miss too many keeps every serving
\* pod's lease.
LEMMA HeldStep ==
  ASSUME TypeOK, Leased, [Next]_vars, ~emptied', ~lapsed', NEW q \in Pods
  PROVE  HeldAfter(q)
  <1> USE LeaseAssumption
  <1>t. TypeOK /\ AllHold /\ KeyOutlasts
    BY DEF Leased
  <1>z. Unrenewed(0) = HeartbeatInterval /\ Unrenewed(0) < LeaseTTL
    BY UnrenewedArithmetic
  <1>u. \A s \in Slots : owner[s] = Nobody => \A p \in Pods : phase[p] = "serving" => slot[p] # s
    BY <1>t DEF AllHold
  <1>1. ASSUME NEW p \in Pods, Boot(p) \/ AcquireNext(p) \/ AcquireNoneFree(p) \/ Die(p) PROVE HeldAfter(q)
    <2>1. UNCHANGED redisVars /\ (phase'[p] # "serving")
      BY <1>1, <1>t DEF Boot, AcquireNext, AcquireNoneFree, Die, Exit, TypeOK
    <2>2. q # p => phase'[q] = phase[q] /\ slot'[q] = slot[q] /\ beat'[q] = beat[q] /\ missed'[q] = missed[q]
      BY <1>1, <1>t DEF Boot, AcquireNext, AcquireNoneFree, Die, Exit, TypeOK
    <2>3. CASE q = p
      BY <2>1, <2>3 DEF HeldAfter
    <2>4. CASE q # p
      BY <2>1, <2>2, <2>4, Untouched DEF redisVars
    <2> QED
      BY <2>3, <2>4
  <1>2. ASSUME NEW p \in Pods, Acquire(p) PROVE HeldAfter(q)
    <2>1. CASE q = p
      <3>1. /\ slot'[q] = slot[q] /\ slot[q] \in Slots /\ owner'[slot[q]] = q /\ ttl'[slot[q]] = LeaseTTL
            /\ beat'[q] = HeartbeatInterval /\ missed'[q] = 0
        BY <1>2, <1>t, <2>1 DEF Acquire, SetNX, TypeOK
      <3> QED
        BY <1>z, <3>1 DEF HeldAfter
    <2>2. CASE q # p
      <3>1. phase'[q] = phase[q] /\ slot'[q] = slot[q] /\ beat'[q] = beat[q] /\ missed'[q] = missed[q]
        BY <1>2, <1>t, <2>2 DEF Acquire, TypeOK
      <3>2. phase[q] = "serving" => slot[q] \in Slots /\ slot[q] # slot[p]
        BY <1>2, <1>t, <1>u DEF Acquire, SetNX, AllHold
      <3>3. phase[q] = "serving" => owner'[slot[q]] = owner[slot[q]] /\ ttl'[slot[q]] = ttl[slot[q]]
        BY <1>2, <1>t, <3>2 DEF Acquire, SetNX, TypeOK
      <3> QED
        BY <3>1, <3>3, Untouched
    <2> QED
      BY <2>1, <2>2
  <1>3. ASSUME NEW p \in Pods, AcquireAnswerLost(p) PROVE HeldAfter(q)
    <2>1. /\ phase' = phase /\ beat' = beat /\ missed' = missed /\ phase[p] = "scanning"
          /\ slot' = [slot EXCEPT ![p] = slot[p] + 1]
      BY <1>3 DEF AcquireAnswerLost
    <2>2. CASE q = p
      BY <2>1, <2>2 DEF HeldAfter
    <2>3. CASE q # p
      <3>1. phase[q] = "serving" => slot[q] \in Slots /\ slot[q] # slot[p]
        BY <1>3, <1>t, <1>u DEF AcquireAnswerLost, SetNX, AllHold
      <3>2. phase[q] = "serving" => owner'[slot[q]] = owner[slot[q]] /\ ttl'[slot[q]] = ttl[slot[q]]
        BY <1>3, <1>t, <3>1 DEF AcquireAnswerLost, SetNX, TypeOK
      <3>3. slot'[q] = slot[q]
        BY <1>t, <2>1, <2>3 DEF TypeOK
      <3> QED
        BY <2>1, <3>2, <3>3, Untouched
    <2> QED
      BY <2>2, <2>3
  <1>4. ASSUME NEW p \in Pods, Renew(p) PROVE HeldAfter(q)
    <2>1. /\ phase[p] = "serving" /\ slot[p] \in Slots /\ owner[slot[p]] = p
          /\ ttl' = [ttl EXCEPT ![slot[p]] = LeaseTTL] /\ owner' = owner /\ slot' = slot /\ phase' = phase
      BY <1>4, <1>t DEF Renew, RenewScript, AllHold
    <2>2. CASE q = p
      <3>1. beat'[q] = HeartbeatInterval /\ missed'[q] = 0
        BY <1>4, <1>t, <2>2 DEF Renew, TypeOK
      <3>2. ttl'[slot[q]] = LeaseTTL
        BY <1>t, <2>1, <2>2 DEF TypeOK
      <3> QED
        BY <1>z, <2>1, <2>2, <3>1, <3>2 DEF HeldAfter
    <2>3. CASE q # p
      <3>1. phase[q] = "serving" => slot[q] \in Slots /\ slot[q] # slot[p]
        BY <1>t, <2>1, <2>3 DEF AllHold
      <3>2. phase[q] = "serving" => ttl'[slot[q]] = ttl[slot[q]]
        BY <1>t, <2>1, <3>1 DEF TypeOK
      <3>3. beat'[q] = beat[q] /\ missed'[q] = missed[q]
        BY <1>4, <1>t, <2>3 DEF Renew, TypeOK
      <3> QED
        BY <2>1, <3>2, <3>3, Untouched
    <2> QED
      BY <2>2, <2>3
  <1>5. ASSUME NEW p \in Pods, RenewFails(p) PROVE HeldAfter(q)
    <2>1. CASE q = p
      <3> DEFINE m == missed[q]
      <3>1. /\ beat[q] = 0 /\ beat'[q] = HeartbeatInterval /\ missed'[q] = m + 1
            /\ m \in Nat /\ Unrenewed(m + 1) < LeaseTTL
            /\ phase[q] = "serving" /\ slot' = slot /\ owner' = owner /\ ttl' = ttl
        <4>1. ~(Unrenewed(m + 1) >= LeaseTTL)
          BY <1>5, <2>1, Zenon DEF RenewFails
        <4>2. m \in Nat /\ Unrenewed(m + 1) \in Nat
          BY <1>t, UnrenewedArithmetic DEF TypeOK
        <4> QED
          BY <1>5, <1>t, <2>1, <4>1, <4>2 DEF RenewFails, TypeOK, redisVars
      <3>2. slot[q] \in Slots /\ owner[slot[q]] = q /\ ttl[slot[q]] >= LeaseTTL - Unrenewed(m) + 0
        BY <1>t, <3>1 DEF AllHold, KeyOutlasts
      <3>3. ttl[slot[q]] \in Nat
        BY <1>t, <3>2 DEF TypeOK
      <3> HIDE DEF m
      <3>4. Unrenewed(m + 1) = Unrenewed(m) + HeartbeatInterval /\ Unrenewed(m) \in Nat
        BY <3>1, UnrenewedArithmetic
      <3> QED
        BY <3>1, <3>2, <3>3, <3>4 DEF HeldAfter
    <2>2. CASE q # p
      <3>1. phase'[q] = phase[q] /\ slot'[q] = slot[q] /\ beat'[q] = beat[q] /\ missed'[q] = missed[q]
        BY <1>5, <1>t, <2>2 DEF RenewFails, TypeOK
      <3> QED
        BY <1>5, <3>1, Untouched DEF RenewFails, redisVars
    <2> QED
      BY <2>1, <2>2
  <1>6. ASSUME NEW p \in Pods, Release(p) PROVE HeldAfter(q)
    <2>1. /\ phase[p] = "serving" /\ slot[p] \in Slots /\ owner[slot[p]] = p
          /\ phase'[p] = "off"
          /\ owner' = [owner EXCEPT ![slot[p]] = Nobody] /\ ttl' = [ttl EXCEPT ![slot[p]] = 0]
      BY <1>6, <1>t DEF Release, ReleaseScript, Exit, AllHold, TypeOK
    <2>2. CASE q = p
      BY <2>1, <2>2 DEF HeldAfter
    <2>3. CASE q # p
      <3>1. phase'[q] = phase[q] /\ slot'[q] = slot[q] /\ beat'[q] = beat[q] /\ missed'[q] = missed[q]
        BY <1>6, <1>t, <2>3 DEF Release, Exit, TypeOK
      <3>2. phase[q] = "serving" => slot[q] \in Slots /\ slot[q] # slot[p]
        BY <1>t, <2>1, <2>3 DEF AllHold
      <3>3. phase[q] = "serving" => owner'[slot[q]] = owner[slot[q]] /\ ttl'[slot[q]] = ttl[slot[q]]
        BY <1>t, <2>1, <3>2 DEF TypeOK
      <3> QED
        BY <2>1, <3>1, <3>3, Untouched
    <2> QED
      BY <2>2, <2>3
  <1>7. CASE Tick
    <2> SUFFICES ASSUME phase[q] = "serving" PROVE HeldAfter(q)
      BY <1>7 DEF Tick, HeldAfter
    <2> DEFINE m == missed[q]
               t == ttl[slot[q]]
               b == beat[q]
    <2>1. /\ slot[q] \in Slots /\ owner[slot[q]] = q
          /\ Unrenewed(m) < LeaseTTL /\ t >= LeaseTTL - Unrenewed(m) + b
          /\ t \in Nat /\ b \in Nat /\ m \in Nat /\ b > 0
      BY <1>7, <1>t DEF AllHold, KeyOutlasts, TypeOK, Tick
    <2>2. /\ slot' = slot /\ missed' = missed
          /\ beat'[q] = b - 1
          /\ ttl'[slot[q]] = IF t > 0 THEN t - 1 ELSE 0
          /\ owner'[slot[q]] = IF t > 1 THEN owner[slot[q]] ELSE Nobody
      BY <1>7, <2>1 DEF Tick
    <2> HIDE DEF m, t, b
    <2>3. Unrenewed(m) \in Nat
      BY <2>1, UnrenewedArithmetic
    <2>4. t > 1
      BY <2>1, <2>3
    <2>5. t - 1 >= LeaseTTL - Unrenewed(m) + (b - 1)
      BY <2>1, <2>3
    <2>6. missed'[q] = m
      BY <2>2 DEF m
    <2> QED
      BY <2>1, <2>2, <2>4, <2>5, <2>6 DEF HeldAfter
  <1>8. CASE UNCHANGED vars
    BY <1>8, Untouched DEF vars
  <1> QED
    BY <1>1, <1>2, <1>3, <1>4, <1>5, <1>6, <1>7, <1>8 DEF Next, RedisRestart

\* A restart and a lapse are remembered.
LEMMA Remembered == TypeOK /\ [Next]_vars /\ ~emptied' /\ ~lapsed' => ~emptied /\ ~lapsed
  BY DEF TypeOK, Next, vars, Boot, Acquire, AcquireNext, AcquireAnswerLost, AcquireNoneFree,
         Renew, RenewFails, Release, Die, RedisRestart, Tick

\* The inductive step.
LEMMA InvStep == IInv /\ [Next]_vars => IInv'
  <1> SUFFICES ASSUME IInv, [Next]_vars PROVE IInv'
    OBVIOUS
  <1>1. TypeOK /\ TypeOK'
    BY TypeStep DEF IInv
  <1>2. ASSUME ~emptied', ~lapsed' PROVE Leased'
    <2>1. Leased
      BY <1>1, <1>2, Remembered DEF IInv
    <2>2. \A q \in Pods : HeldAfter(q)
      BY <1>1, <1>2, <2>1, HeldStep
    <2> QED
      BY <2>2 DEF Leased, AllHold, KeyOutlasts, HeldAfter, Slots, Unrenewed
  <1> QED
    BY <1>1, <1>2 DEF IInv

\* The initial states.
LEMMA InvInit == Init => IInv
  <1> SUFFICES ASSUME Init PROVE IInv
    OBVIOUS
  <1>1. \A p \in Pods : phase[p] # "serving"
    BY DEF Init
  <1>2. Leased
    BY <1>1 DEF Leased, AllHold, KeyOutlasts
  <1> QED
    BY <1>2, TypeInit DEF IInv

\* A serving pod holds its lease until Redis restarts or a pod misses so many
\* renewals in a row that its key ends before its next one.
THEOREM LeaseSafety == Spec => []LeaseHeld
  <1>1. IInv => LeaseHeld
    BY DEF IInv, Leased, LeaseHeld
  <1> QED
    BY <1>1, InvInit, InvStep, PTL DEF Spec

\* Until then no two serving pods share a worker ID.
THEOREM WorkersExclusive == Spec => []ExclusiveWorkers
  <1>1. IInv => ExclusiveWorkers
    BY DEF IInv, Leased, AllHold, ExclusiveWorkers
  <1> QED
    BY <1>1, InvInit, InvStep, PTL DEF Spec

-----------------------------------------------------------------------------
(***************************************************************************)
(* Whose key a step may take.                                              *)
(***************************************************************************)

\* A key with time left is gone only by its owner's Release, or with all of
\* Redis, and is extended only by its owner's heartbeat: whatever a pod believes
\* of its own lease, and however many renewals were missed, it touches no other
\* pod's slot.
THEOREM OnlyOwnersTouch == Spec => OnlyOwnerTouches
  <1> DEFINE Freed(s) == /\ owner'[s] = Nobody
                         /\ phase[owner[s]] = "serving" /\ slot[owner[s]] = s
                         /\ phase'[owner[s]] = "off"
             Renewed(s) == /\ owner'[s] = owner[s]
                           /\ phase[owner[s]] = "serving" /\ slot[owner[s]] = s
                           /\ beat[owner[s]] = 0 /\ beat'[owner[s]] = HeartbeatInterval
             Kept(s) == LET p == owner[s] IN
               p # Nobody /\ ~RedisRestart =>
                 /\ ttl[s] > 1 /\ owner'[s] # p =>
                      owner'[s] = Nobody /\ phase[p] = "serving" /\ slot[p] = s /\ phase'[p] = "off"
                 /\ ttl'[s] > ttl[s] =>
                      /\ owner'[s] = p /\ phase[p] = "serving" /\ slot[p] = s
                      /\ beat[p] = 0 /\ beat'[p] = HeartbeatInterval
  <1>1. ASSUME TypeOK, [Next]_vars, NEW s \in Slots, owner[s] # Nobody, ~RedisRestart
        PROVE  /\ ttl[s] > 1 /\ owner'[s] # owner[s] => Freed(s)
               /\ ttl'[s] > ttl[s] => Renewed(s)
    <2>t. ttl[s] \in 1..LeaseTTL
      BY <1>1, LeaseAssumption DEF TypeOK
    <2>1. ASSUME UNCHANGED redisVars
          PROVE  owner'[s] = owner[s] /\ ~(ttl'[s] > ttl[s])
      BY <2>t, <2>1 DEF redisVars
    <2>2. ASSUME NEW p \in Pods, SetNX(slot[p], p)
          PROVE  owner'[s] = owner[s] /\ ~(ttl'[s] > ttl[s])
      BY <1>1, <2>t, <2>2 DEF SetNX, TypeOK
    <2>3. ASSUME NEW p \in Pods, Release(p)
          PROVE  (owner'[s] # owner[s] => Freed(s)) /\ ~(ttl'[s] > ttl[s])
      <3>1. CASE owner[slot[p]] = p
        <4>1. /\ phase[p] = "serving" /\ phase' = [phase EXCEPT ![p] = "off"]
              /\ owner' = [owner EXCEPT ![slot[p]] = Nobody]
              /\ ttl' = [ttl EXCEPT ![slot[p]] = 0]
          BY <2>3, <3>1 DEF Release, ReleaseScript, Exit
        <4> QED
          BY <1>1, <2>t, <3>1, <4>1 DEF TypeOK
      <3>2. CASE owner[slot[p]] # p
        BY <2>1, <2>3, <3>2 DEF Release, ReleaseScript
      <3> QED
        BY <3>1, <3>2
    <2>4. ASSUME NEW p \in Pods, Renew(p)
          PROVE  owner'[s] = owner[s] /\ (ttl'[s] > ttl[s] => Renewed(s))
      <3>1. /\ phase[p] = "serving" /\ beat[p] = 0 /\ owner' = owner
            /\ beat' = [beat EXCEPT ![p] = HeartbeatInterval]
            /\ ttl' = IF owner[slot[p]] = p THEN [ttl EXCEPT ![slot[p]] = LeaseTTL] ELSE ttl
        BY <2>4 DEF Renew, RenewScript
      <3>2. CASE owner[slot[p]] = p /\ s = slot[p]
        BY <1>1, <3>1, <3>2 DEF TypeOK
      <3>3. CASE ~(owner[slot[p]] = p /\ s = slot[p])
        BY <1>1, <2>t, <3>1, <3>3 DEF TypeOK
      <3> QED
        BY <3>1, <3>2, <3>3
    <2>5. CASE Tick
      BY <1>1, <2>t, <2>5 DEF Tick
    <2> QED
      BY <1>1, <2>1, <2>2, <2>3, <2>4, <2>5 DEF Next, vars, redisVars, Boot, Acquire,
         AcquireNext, AcquireAnswerLost, AcquireNoneFree, RenewFails, Die
  <1>2. TypeOK /\ [Next]_vars => [\A s \in Slots : Kept(s)]_vars
    BY <1>1
  <1> QED
    BY <1>2, TypeCorrect, PTL DEF Spec, OnlyOwnerTouches

-----------------------------------------------------------------------------
(***************************************************************************)
(* The codes minted under a lease.                                         *)
(***************************************************************************)

\* The pods that mint are the pods that lease: every step of a mint is a step
\* of the leases.
LEMMA MintStep == [MintNext]_allVars => [Next]_vars
  BY DEF MintNext, Next, NewGenerator, MintTick, allVars

\* So what holds of the leases holds of them while codes are minted.
THEOREM MintRefinesLease == MintSpec => Spec
  <1>1. MintInit => Init
    BY DEF MintInit
  <1> QED
    BY <1>1, MintStep, PTL DEF MintSpec, Spec

\* The clocks differ by no more than MaxSkew, and no slot is used up further
\* ahead than that.
MintTypes ==
  /\ skew \in [Pods -> 0..MaxSkew]
  /\ lead \in [Slots -> 0..MaxSkew]
  /\ freed \in [Slots -> BOOLEAN]

\* Unless its last holder released it, the key of a slot is there at least for
\* as long as milliseconds of the slot are used up.
KeyOutlivesCodes == \A s \in Slots : ~freed[s] => lead[s] <= ttl[s]

\* What the mint keeps until Redis restarts or a lease lapses.
Unused == KeyOutlivesCodes /\ "expired" \notin reused

MintInv == IInv /\ MintTypes /\ (~emptied /\ ~lapsed => Unused)

\* A key that belongs to a serving pod outlives the codes of the pod.
LEMMA KeyOutlastsSkew ==
  ASSUME TypeOK, Leased, NEW p \in Pods, phase[p] = "serving"
  PROVE  ttl[slot[p]] >= MaxSkew
  <1> DEFINE m == missed[p]
             t == ttl[slot[p]]
             b == beat[p]
  <1>1. /\ m \in 0..MaxMisses /\ t \in Nat /\ b \in Nat
        /\ Unrenewed(m) < LeaseTTL /\ t >= LeaseTTL - Unrenewed(m) + b
    BY LeaseAssumption DEF TypeOK, Leased, AllHold, KeyOutlasts
  <1> HIDE DEF m, t, b
  <1>2. MaxSkew <= LeaseTTL - Unrenewed(m) /\ MaxSkew \in Nat
    BY <1>1, SkewAssumption
  <1>3. Unrenewed(m) \in Nat
    BY <1>1, LeaseAssumption, UnrenewedArithmetic
  <1>4. t >= MaxSkew
    BY <1>1, <1>2, <1>3, LeaseAssumption
  <1> QED
    BY <1>4 DEF t

\* The types of the mint are kept.
LEMMA MintTypeStep ==
  ASSUME TypeOK, MintTypes, [MintNext]_allVars
  PROVE  MintTypes'
  <1> USE LeaseAssumption, SkewAssumption
  <1>1. ASSUME NEW p \in Pods, NEW r \in BOOLEAN, EndGenerator(p, r) PROVE MintTypes'
    <2>1. CASE phase[p] = "serving"
      <3>1. skew' = skew /\ skew[p] \in 0..MaxSkew
        BY <1>1 DEF EndGenerator, MintTypes
      <3>2. lead' \in [Slots -> 0..MaxSkew]
        BY <1>1, <2>1, <3>1 DEF EndGenerator, MintTypes
      <3>3. freed' \in [Slots -> BOOLEAN]
        BY <1>1, <2>1, Zenon DEF EndGenerator, MintTypes
      <3> QED
        BY <3>1, <3>2, <3>3 DEF MintTypes
    <2>2. CASE phase[p] # "serving"
      BY <1>1, <2>2 DEF EndGenerator, MintTypes
    <2> QED
      BY <2>1, <2>2
  <1>2. ASSUME UNCHANGED <<skew, lead, freed>> PROVE MintTypes'
    BY <1>2 DEF MintTypes
  <1>3. CASE MintTick
    <2>1. lead' \in [Slots -> 0..MaxSkew]
      BY <1>3 DEF MintTick, MintTypes
    <2> QED
      BY <1>3, <2>1 DEF MintTick, MintTypes
  <1>4. ASSUME NEW p \in Pods, NewGenerator(p) PROVE MintTypes'
    BY <1>4, <1>2 DEF NewGenerator
  <1>5. TRUE \in BOOLEAN /\ FALSE \in BOOLEAN
    OBVIOUS
  <1> QED
    BY <1>1, <1>2, <1>3, <1>4, <1>5 DEF MintNext, mintVars, allVars

\* While every serving pod holds its lease, a slot that is free to take is used
\* up only if its last holder released it.
LEMMA TakenOver ==
  ASSUME TypeOK, Leased, MintTypes, KeyOutlivesCodes, NEW p \in Pods, Acquire(p),
         Used(slot[p], p)
  PROVE  freed[slot[p]]
  <1> USE LeaseAssumption, SkewAssumption
  <1>1. slot[p] \in Slots /\ owner[slot[p]] = Nobody /\ ttl[slot[p]] = 0
    BY DEF Acquire, SetNX, TypeOK
  <1>2. \A q \in Pods : ~(phase[q] = "serving" /\ slot[q] = slot[p])
    BY <1>1 DEF Leased, AllHold
  <1>3. lead[slot[p]] > skew[p]
    BY <1>2 DEF Used
  <1>4. lead[slot[p]] > 0 /\ lead[slot[p]] \in Nat
    BY <1>1, <1>3 DEF MintTypes
  <1> QED
    BY <1>1, <1>4 DEF KeyOutlivesCodes

\* Every step but a restart of Redis keeps the keys as long as the codes.
LEMMA UnusedStep ==
  ASSUME TypeOK, Leased, MintTypes, Unused, [MintNext]_allVars, ~emptied'
  PROVE  Unused'
  <1> USE LeaseAssumption, SkewAssumption
  <1>t. /\ ttl \in [Slots -> Nat] /\ lead \in [Slots -> Nat] /\ skew \in [Pods -> Nat]
        /\ \A s \in Slots : ttl[s] <= LeaseTTL /\ lead[s] <= MaxSkew
        /\ \A p \in Pods : skew[p] <= MaxSkew
    BY DEF TypeOK, MintTypes
  <1>o. \A s \in Slots : owner[s] = Nobody <=> ttl[s] = 0
    BY DEF TypeOK
  <1>k. \A s \in Slots : ~freed[s] => lead[s] <= ttl[s]
    BY DEF Unused, KeyOutlivesCodes
  <1>e. "expired" \notin reused
    BY DEF Unused
  <1> SUFFICES /\ \A s \in Slots : ~freed'[s] => lead'[s] <= ttl'[s]
               /\ "expired" \notin reused'
    BY DEF Unused, KeyOutlivesCodes, Slots
  <1>1. ASSUME UNCHANGED <<lead, freed, reused>>, \A s \in Slots : ttl'[s] >= ttl[s] /\ ttl'[s] \in Nat
        PROVE  /\ \A s \in Slots : ~freed'[s] => lead'[s] <= ttl'[s]
               /\ "expired" \notin reused'
    BY <1>1, <1>t, <1>k, <1>e
  <1>2. ASSUME NEW p \in Pods, SetNX(slot[p], p), slot[p] \in Slots
        PROVE  \A s \in Slots : ttl'[s] >= ttl[s] /\ ttl'[s] \in Nat
    BY <1>2, <1>t DEF SetNX
  <1>3. ASSUME NEW p \in Pods, NewGenerator(p)
        PROVE  /\ \A s \in Slots : ~freed'[s] => lead'[s] <= ttl'[s]
               /\ "expired" \notin reused'
    <2>1. \A s \in Slots : ttl'[s] >= ttl[s] /\ ttl'[s] \in Nat
      BY <1>2, <1>3 DEF NewGenerator, Acquire
    <2>2. lead' = lead /\ freed' = freed
      BY <1>3 DEF NewGenerator
    <2>3. Used(slot[p], p) => freed[slot[p]]
      BY <1>3, TakenOver DEF NewGenerator, Unused
    <2>4. "expired" \notin reused'
      BY <1>3, <1>e, <2>3 DEF NewGenerator
    <2> QED
      BY <1>t, <1>k, <2>1, <2>2, <2>4
  <1>4. ASSUME NEW p \in Pods, Release(p), EndGenerator(p, TRUE)
        PROVE  /\ \A s \in Slots : ~freed'[s] => lead'[s] <= ttl'[s]
               /\ "expired" \notin reused'
    <2>1. /\ slot[p] \in Slots
          /\ freed' = [freed EXCEPT ![slot[p]] = TRUE]
          /\ lead' = [lead EXCEPT ![slot[p]] = IF lead[slot[p]] > skew[p] THEN lead[slot[p]] ELSE skew[p]]
          /\ ttl' = [ttl EXCEPT ![slot[p]] = 0]
          /\ reused' = reused
      BY <1>4 DEF Release, ReleaseScript, EndGenerator, Leased, AllHold
    <2>2. \A s \in Slots : s # slot[p] => freed'[s] = freed[s] /\ lead'[s] = lead[s] /\ ttl'[s] = ttl[s]
      BY <2>1 DEF MintTypes, TypeOK
    <2>3. freed'[slot[p]]
      BY <2>1 DEF MintTypes
    <2> QED
      BY <1>k, <1>e, <2>1, <2>2, <2>3
  <1>5. ASSUME NEW p \in Pods, Die(p), EndGenerator(p, FALSE)
        PROVE  /\ \A s \in Slots : ~freed'[s] => lead'[s] <= ttl'[s]
               /\ "expired" \notin reused'
    <2>1. ttl' = ttl /\ reused' = reused
      BY <1>5 DEF Die, redisVars, EndGenerator
    <2>2. CASE phase[p] # "serving"
      BY <1>5, <1>k, <1>e, <2>1, <2>2 DEF EndGenerator
    <2>3. CASE phase[p] = "serving"
      <3>1. /\ slot[p] \in Slots
            /\ freed' = [freed EXCEPT ![slot[p]] = FALSE]
            /\ lead' = [lead EXCEPT ![slot[p]] = IF lead[slot[p]] > skew[p] THEN lead[slot[p]] ELSE skew[p]]
        BY <1>5, <2>3 DEF EndGenerator, Leased, AllHold
      <3>2. ttl[slot[p]] >= MaxSkew
        BY <2>3, KeyOutlastsSkew
      <3>3. lead'[slot[p]] <= ttl[slot[p]]
        BY <1>t, <3>1, <3>2
      <3>4. \A s \in Slots : s # slot[p] => freed'[s] = freed[s] /\ lead'[s] = lead[s]
        BY <3>1 DEF MintTypes
      <3> QED
        BY <1>k, <1>e, <2>1, <3>3, <3>4
    <2> QED
      BY <2>2, <2>3
  <1>6. CASE MintTick
    <2>1. \A s \in Slots : /\ ttl'[s] = IF ttl[s] > 0 THEN ttl[s] - 1 ELSE 0
                           /\ lead'[s] = IF lead[s] > 0 THEN lead[s] - 1 ELSE 0
      BY <1>6 DEF MintTick, Tick
    <2>2. freed' = freed /\ reused' = reused
      BY <1>6 DEF MintTick
    <2> QED
      BY <1>t, <1>k, <1>e, <2>1, <2>2
  <1>7. ASSUME NEW p \in Pods, UNCHANGED mintVars,
               \/ Boot(p) \/ AcquireNext(p) \/ AcquireAnswerLost(p) \/ AcquireNoneFree(p)
               \/ Renew(p) \/ RenewFails(p)
        PROVE  /\ \A s \in Slots : ~freed'[s] => lead'[s] <= ttl'[s]
               /\ "expired" \notin reused'
    <2>1. CASE AcquireAnswerLost(p)
      BY <1>1, <1>2, <1>7, <2>1 DEF AcquireAnswerLost, mintVars
    <2>2. CASE Renew(p)
      <3>1. \A s \in Slots : ttl'[s] >= ttl[s] /\ ttl'[s] \in Nat
        BY <1>t, <2>2 DEF Renew, RenewScript
      <3> QED
        BY <1>1, <1>7, <3>1 DEF mintVars
    <2>3. CASE Boot(p) \/ AcquireNext(p) \/ AcquireNoneFree(p) \/ RenewFails(p)
      <3>1. ttl' = ttl
        BY <2>3 DEF Boot, AcquireNext, AcquireNoneFree, RenewFails, redisVars
      <3> QED
        BY <1>1, <1>t, <1>7, <3>1 DEF mintVars
    <2> QED
      BY <1>7, <2>1, <2>2, <2>3
  <1>8. CASE UNCHANGED allVars
    BY <1>8, <1>k, <1>e DEF allVars, vars, mintVars
  <1>9. ~RedisRestart
    BY DEF RedisRestart
  <1> QED
    BY <1>3, <1>4, <1>5, <1>6, <1>7, <1>8, <1>9 DEF MintNext

\* The inductive step of the mint.
LEMMA MintInvStep == MintInv /\ [MintNext]_allVars => MintInv'
  <1> SUFFICES ASSUME MintInv, [MintNext]_allVars PROVE MintInv'
    OBVIOUS
  <1>1. [Next]_vars
    BY MintStep
  <1>2. IInv /\ IInv'
    BY <1>1, InvStep DEF MintInv
  <1>3. MintTypes /\ MintTypes'
    BY <1>2, MintTypeStep DEF MintInv, IInv
  <1>4. ASSUME ~emptied', ~lapsed' PROVE Unused'
    <2>1. ~emptied /\ ~lapsed
      BY <1>1, <1>2, <1>4, Remembered DEF IInv
    <2>2. TypeOK /\ Leased /\ Unused
      BY <1>2, <2>1 DEF IInv, MintInv
    <2> QED
      BY <1>3, <1>4, <2>2, UnusedStep
  <1> QED
    BY <1>2, <1>3, <1>4 DEF MintInv

\* The initial states of the mint.
LEMMA MintInvInit == MintInit => MintInv
  <1> SUFFICES ASSUME MintInit PROVE MintInv
    OBVIOUS
  <1> USE LeaseAssumption, SkewAssumption
  <1>1. IInv
    BY InvInit DEF MintInit
  <1>2. freed \in [Slots -> BOOLEAN]
    BY Zenon DEF MintInit
  <1>3. MintTypes
    BY <1>2 DEF MintInit, MintTypes
  <1>4. Unused
    BY DEF MintInit, Init, Unused, KeyOutlivesCodes
  <1> QED
    BY <1>1, <1>3, <1>4 DEF MintInv

\* Until Redis restarts or a lease lapses, a pod that takes over the slot of a
\* pod that died never mints in a millisecond that was minted in, whatever the
\* clocks within MaxSkew, the misses and the deaths: a key that was not left to
\* lapse has at least as much time left as clocks differ, and nobody frees it.
THEOREM NoReuse == MintSpec => []NoReuseAfterExpiry
  <1>1. MintInv => NoReuseAfterExpiry
    BY DEF MintInv, Unused, NoReuseAfterExpiry
  <1> QED
    BY <1>1, MintInvInit, MintInvStep, PTL DEF MintSpec

=============================================================================
