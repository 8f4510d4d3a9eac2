---------------------------- MODULE WorkerLease ----------------------------
(***************************************************************************)
(* internal/idgen/lease.go and its use in cmd/api/main.go: every API       *)
(* instance leases a worker ID from Redis before it serves, renews it from *)
(* a heartbeat goroutine and releases it once it has drained.              *)
(*                                                                         *)
(* Redis is external: a key per slot with its owner and the time it has    *)
(* left.  A key whose time is up is gone.  Time advances for every key and *)
(* every ticker together; a due heartbeat is attempted before it does.     *)
(***************************************************************************)
EXTENDS Integers, FiniteSets

CONSTANTS
  Pods,               \* instances, by their InstanceID (the owner of a key)
  MaxWorkerID,        \* the last slot
  LeaseTTL,           \* leaseTTL, in units of time
  HeartbeatInterval,  \* heartbeatInterval, in the same units
  Nobody,             \* the owner of a free slot
  MaxMisses,          \* bound on consecutive failed renewals of a pod
  MaxFaults           \* bound on deaths, shutdowns, lost answers and Redis restarts

Slots == 0..MaxWorkerID

ASSUME LeaseAssumption ==
  /\ MaxWorkerID \in Nat
  /\ HeartbeatInterval \in Nat \ {0}
  /\ LeaseTTL \in Nat /\ HeartbeatInterval < LeaseTTL
  /\ Nobody \notin Pods
  /\ MaxMisses \in Nat
  /\ MaxFaults \in Nat

VARIABLES
  owner,   \* per slot, the value of shortn:worker:<slot>
  ttl,     \* per slot, the time its key has left
  phase,   \* per pod: "off", "scanning" in AcquireWorkerID, "serving"
  slot,    \* per pod, the slot it tries next or the worker ID it serves with
  beat,    \* per pod, the time until its ticker fires
  missed,  \* per pod, its consecutive failed renewals
  emptied, \* has Redis restarted?
  lapsed,  \* has a pod missed so many renewals that its key ends before the next?
  faults   \* faults so far

vars == <<owner, ttl, phase, slot, beat, missed, emptied, lapsed, faults>>
redisVars == <<owner, ttl>>
podVars == <<phase, slot, beat, missed>>

Fault == faults < MaxFaults /\ faults' = faults + 1

Init ==
  /\ owner = [s \in Slots |-> Nobody]
  /\ ttl = [s \in Slots |-> 0]
  /\ phase = [p \in Pods |-> "off"]
  /\ slot = [p \in Pods |-> 0]
  /\ beat = [p \in Pods |-> 0]
  /\ missed = [p \in Pods |-> 0]
  /\ emptied = FALSE /\ lapsed = FALSE
  /\ faults = 0

-----------------------------------------------------------------------------
(***************************************************************************)
(* Commands and scripts that Redis runs, each atomic.                      *)
(***************************************************************************)

\* A SET that takes the key whoever has it.
SetAlways(s, p) ==
  /\ owner' = [owner EXCEPT ![s] = p]
  /\ ttl' = [ttl EXCEPT ![s] = LeaseTTL]

\* SetNX without an expiration.
SetNXForever(s, p) ==
  /\ owner[s] = Nobody
  /\ owner' = [owner EXCEPT ![s] = p]
  /\ UNCHANGED ttl

\* SetNX when the slot is free: the key is set.
SetNX(s, p) ==
  /\ owner[s] = Nobody
  /\ owner' = [owner EXCEPT ![s] = p]
  /\ ttl' = [ttl EXCEPT ![s] = LeaseTTL]

\* renewScript for a caller that does not look at the owner.
RenewScriptAny(s, p) ==
  /\ ttl' = IF owner[s] # Nobody THEN [ttl EXCEPT ![s] = LeaseTTL] ELSE ttl
  /\ UNCHANGED owner

\* renewScript that compares the owner and does not extend the key.
RenewScriptIdle(s, p) == UNCHANGED redisVars

\* renewScript: pexpire if the caller still owns the key, else 0.
RenewScript(s, p) ==
  /\ ttl' = IF owner[s] = p THEN [ttl EXCEPT ![s] = LeaseTTL] ELSE ttl
  /\ UNCHANGED owner

\* releaseScript: del if the caller still owns the key.
ReleaseScript(s, p) ==
  IF owner[s] = p
  THEN /\ owner' = [owner EXCEPT ![s] = Nobody]
       /\ ttl' = [ttl EXCEPT ![s] = 0]
  ELSE UNCHANGED redisVars

-----------------------------------------------------------------------------
\* The process of a pod ends, and with it what it knew.
Exit(p) ==
  /\ phase' = [phase EXCEPT ![p] = "off"]
  /\ slot' = [slot EXCEPT ![p] = 0]
  /\ beat' = [beat EXCEPT ![p] = 0]
  /\ missed' = [missed EXCEPT ![p] = 0]

\* A pod starts and looks for a slot from 0 on.
Boot(p) ==
  /\ phase[p] = "off"
  /\ phase' = [phase EXCEPT ![p] = "scanning"]
  /\ slot' = [slot EXCEPT ![p] = 0]
  /\ UNCHANGED <<redisVars, beat, missed, emptied, lapsed, faults>>

\* AcquireWorkerID: SetNX of the slot succeeds; the pod starts its heartbeat,
\* whose first tick is a whole interval away, and serves.
Acquire(p) ==
  /\ phase[p] = "scanning"
  /\ slot[p] \in Slots
  /\ SetNX(slot[p], p)
  /\ phase' = [phase EXCEPT ![p] = "serving"]
  /\ beat' = [beat EXCEPT ![p] = HeartbeatInterval]
  /\ missed' = [missed EXCEPT ![p] = 0]
  /\ UNCHANGED <<slot, emptied, lapsed, faults>>

\* A scan that tries a slot that is held again.
AcquireSame(p) ==
  /\ phase[p] = "scanning"
  /\ slot[p] \in Slots
  /\ owner[slot[p]] # Nobody
  /\ UNCHANGED vars

\* AcquireWorkerID: the slot is held, try the next one.
AcquireNext(p) ==
  /\ phase[p] = "scanning"
  /\ slot[p] \in Slots
  /\ owner[slot[p]] # Nobody
  /\ slot' = [slot EXCEPT ![p] = @ + 1]
  /\ UNCHANGED <<redisVars, phase, beat, missed, emptied, lapsed, faults>>

\* SetNX ran but its answer was lost; the client sends it again, is told that
\* the slot is held, by itself, and goes on with the next one.
AcquireAnswerLost(p) ==
  /\ phase[p] = "scanning"
  /\ slot[p] \in Slots
  /\ Fault
  /\ SetNX(slot[p], p)
  /\ slot' = [slot EXCEPT ![p] = @ + 1]
  /\ UNCHANGED <<phase, beat, missed, emptied, lapsed>>

\* Every slot is held: the pod refuses to start.
AcquireNoneFree(p) ==
  /\ phase[p] = "scanning"
  /\ slot[p] \notin Slots
  /\ Exit(p)
  /\ UNCHANGED <<redisVars, emptied, lapsed, faults>>

\* heartbeat: the ticker fires and renewScript runs.  A pod that no longer
\* owns its slot logs the loss and goes on serving with the same worker ID;
\* an answer that is lost is only logged.
Renew(p) ==
  /\ phase[p] = "serving"
  /\ beat[p] = 0
  /\ RenewScript(slot[p], p)
  /\ beat' = [beat EXCEPT ![p] = HeartbeatInterval]
  /\ missed' = [missed EXCEPT ![p] = 0]
  /\ UNCHANGED <<phase, slot, emptied, lapsed, faults>>

\* The age of a key at its pod's next tick, after m missed renewals.
Unrenewed(m) == (m + 1) * HeartbeatInterval

\* heartbeat: Redis cannot be reached; the next tick tries again.
RenewFails(p) ==
  /\ phase[p] = "serving"
  /\ beat[p] = 0
  /\ missed[p] < MaxMisses
  /\ missed' = [missed EXCEPT ![p] = @ + 1]
  /\ beat' = [beat EXCEPT ![p] = HeartbeatInterval]
  /\ lapsed' = (lapsed \/ Unrenewed(missed[p] + 1) >= LeaseTTL)
  /\ UNCHANGED <<redisVars, phase, slot, emptied, faults>>

\* Graceful shutdown: the pod has drained, stops its heartbeat and releases.
Release(p) ==
  /\ phase[p] = "serving"
  /\ Fault
  /\ ReleaseScript(slot[p], p)
  /\ Exit(p)
  /\ UNCHANGED <<emptied, lapsed>>

\* The pod dies, or its drain or its Release fails: its key is left to expire.
Die(p) ==
  /\ phase[p] # "off"
  /\ Fault
  /\ Exit(p)
  /\ UNCHANGED <<redisVars, emptied, lapsed>>

-----------------------------------------------------------------------------
\* Redis, which has no volume, is replaced and comes back empty.
RedisRestart ==
  /\ Fault
  /\ owner' = [s \in Slots |-> Nobody]
  /\ ttl' = [s \in Slots |-> 0]
  /\ emptied' = TRUE
  /\ UNCHANGED <<podVars, lapsed>>

\* A unit of time passes; keys whose time is up are gone.
Tick ==
  /\ \A p \in Pods : phase[p] = "serving" => beat[p] > 0
  /\ ttl' = [s \in Slots |-> IF ttl[s] > 0 THEN ttl[s] - 1 ELSE 0]
  /\ owner' = [s \in Slots |-> IF ttl[s] > 1 THEN owner[s] ELSE Nobody]
  /\ beat' = [p \in Pods |-> IF phase[p] = "serving" THEN beat[p] - 1 ELSE beat[p]]
  /\ UNCHANGED <<phase, slot, missed, emptied, lapsed, faults>>

Next ==
  \/ \E p \in Pods :
       \/ Boot(p) \/ Acquire(p) \/ AcquireNext(p) \/ AcquireAnswerLost(p)
       \/ AcquireNoneFree(p) \/ Renew(p) \/ RenewFails(p) \/ Release(p) \/ Die(p)
  \/ RedisRestart
  \/ Tick

Spec == Init /\ [][Next]_vars

(***************************************************************************)
(* Fairness: Kubernetes restarts a pod that exited, a running pod takes    *)
(* its next step, and time passes.                                         *)
(***************************************************************************)
Fairness ==
  /\ WF_vars(Tick)
  /\ \A p \in Pods :
       /\ WF_vars(Boot(p))
       /\ WF_vars(Acquire(p) \/ AcquireNext(p) \/ AcquireNoneFree(p))
       /\ WF_vars(Renew(p))

FairSpec == Spec /\ Fairness

-----------------------------------------------------------------------------
\* The variables have their types, and a key exists exactly while it has time
\* left.
TypeOK ==
  /\ owner \in [Slots -> Pods \union {Nobody}]
  /\ ttl \in [Slots -> 0..LeaseTTL]
  /\ phase \in [Pods -> {"off", "scanning", "serving"}]
  /\ slot \in [Pods -> 0..(MaxWorkerID + 1)]
  /\ beat \in [Pods -> 0..HeartbeatInterval]
  /\ missed \in [Pods -> 0..MaxMisses]
  /\ emptied \in BOOLEAN /\ lapsed \in BOOLEAN
  /\ faults \in Nat
  /\ \A s \in Slots : owner[s] = Nobody <=> ttl[s] = 0

\* Every serving pod holds the key of the worker ID it mints with.
AllHold == \A p \in Pods : phase[p] = "serving" => slot[p] \in Slots /\ owner[slot[p]] = p

\* Until Redis restarts or a pod misses more renewals in a row than its TTL
\* outlasts, a pod that serves holds the key of the worker ID it mints with: the
\* slot "never expires out from under a running generator" (heartbeat's
\* comment), whatever answers are lost and whoever dies.
LeaseHeld == ~emptied /\ ~lapsed => AllHold

\* Until then, no two serving pods mint with the same worker ID.
ExclusiveWorkers ==
  ~emptied /\ ~lapsed =>
    \A p, q \in Pods :
      phase[p] = "serving" /\ phase[q] = "serving" /\ slot[p] = slot[q] => p = q

\* A pod never takes, renews or frees a slot that is another pod's, even after
\* it lost its own, to a restart of Redis or to missed renewals: a key with
\* time left is gone only by its owner's Release or with all of Redis, and is
\* extended only by its owner's heartbeat (the compares of renewScript and
\* releaseScript).
OnlyOwnerTouches ==
  [][\A s \in Slots : LET p == owner[s] IN
       p # Nobody /\ ~RedisRestart =>
         /\ ttl[s] > 1 /\ owner'[s] # p =>
              owner'[s] = Nobody /\ phase[p] = "serving" /\ slot[p] = s /\ phase'[p] = "off"
         /\ ttl'[s] > ttl[s] =>
              /\ owner'[s] = p /\ phase[p] = "serving" /\ slot[p] = s
              /\ beat[p] = 0 /\ beat'[p] = HeartbeatInterval]_vars

\* A pod that keeps being restarted serves in the end: dead pods' slots and
\* slots taken by lost answers are reclaimed.
EventuallyServes == \A p \in Pods : <>[](phase[p] = "serving")

=============================================================================
