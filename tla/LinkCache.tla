----------------------------- MODULE LinkCache -----------------------------
(***************************************************************************)
(* internal/cache: the Redis read-through cache in front of the links      *)
(* table, as every API instance runs it (CachingStore), together with the  *)
(* handlers that reach it: redirect, createLink and deleteLink.            *)
(*                                                                         *)
(* One short code is modelled: codes share neither key, row nor flight.    *)
(* The row's URL never changes, so a row is "never", "live" or "deleted",  *)
(* and the cache entry is "none", "url" or "tombstone".  A request is a    *)
(* slot that serves one request after another.  Every command it sends     *)
(* takes effect before its deadline or not at all.                         *)
(***************************************************************************)
EXTENDS Integers, FiniteSets

CONSTANTS
  Reads,           \* slots for redirects
  Deletes,         \* delete requests
  Instances,       \* API processes, each with its own singleflight group
  PosTTL,          \* cacheTTL
  NegTTL,          \* negativeTTL
  RequestTimeout,  \* requestTimeout
  MaxFaults        \* bound on failed commands, lost answers and cancellations

ASSUME CacheAssumption ==
  /\ PosTTL \in Nat \ {0}
  /\ NegTTL \in Nat \ {0}
  /\ RequestTimeout \in Nat
  /\ MaxFaults \in Nat

VARIABLES
  row,     \* the row of the code in Postgres
  age,     \* time since the row last changed, up to MaxAge
  entry,   \* the value at link:{code} in Redis
  ttl,     \* the time the entry has left
  pc,      \* per redirect, where it is
  left,    \* per request, the time to its deadline
  seen,    \* per redirect, what its load found, as the cache writes it
  answer,  \* per redirect, its last answer, "pending" while it runs
  after,   \* per redirect, did it arrive after a delete had answered 204?
  instance, \* per redirect, the instance the load balancer sends it to
  dpc,     \* per delete, where it is and its answer
  faults   \* faults so far

rowVars == <<row, age>>
redisVars == <<entry, ttl>>
readVars == <<pc, left, seen, answer, after, instance>>
vars == <<row, age, entry, ttl, pc, left, seen, answer, after, instance, dpc, faults>>

MaxAge == PosTTL + NegTTL + RequestTimeout + 1

Leading == {"loading", "filling", "filled"}

Init ==
  /\ row = "never" /\ age = 0
  /\ entry = "none" /\ ttl = 0
  /\ pc = [r \in Reads |-> "idle"]
  /\ left = [r \in Reads \union Deletes |-> 0]
  /\ seen = [r \in Reads |-> "none"]
  /\ answer = [r \in Reads |-> "none"]
  /\ after = [r \in Reads |-> FALSE]
  /\ instance \in [Reads -> Instances]
  /\ dpc = [d \in Deletes |-> "idle"]
  /\ faults = 0

\* A command fails because of a fault or of the request's own deadline.
FaultOrDeadline(r) ==
  \/ left[r] = 0 /\ UNCHANGED faults
  \/ faults < MaxFaults /\ faults' = faults + 1

-----------------------------------------------------------------------------
\* Client.Set that leaves the time-to-live out.
SetForever(value, time) == entry' = value /\ ttl' = MaxAge

\* Client.Set with a time-to-live.
Set(value, time) == entry' = value /\ ttl' = time

\* Client.Del.
Del == entry' = "none" /\ ttl' = 0

\* The answer fromCached or loadAndCache gives for a value.
FromCached(value) == IF value = "tombstone" THEN "notfound" ELSE "found"

\* Create delegates to the store and leaves the cache alone.
Create ==
  /\ row = "never"
  /\ row' = "live" /\ age' = 0
  /\ UNCHANGED <<redisVars, readVars, dpc, faults>>

-----------------------------------------------------------------------------
(***************************************************************************)
(* redirect: GetByCode.                                                    *)
(***************************************************************************)

\* A redirect arrives; TimeoutMiddleware starts its deadline.
Arrive(r) ==
  /\ pc[r] = "idle"
  /\ pc' = [pc EXCEPT ![r] = "looking"]
  /\ left' = [left EXCEPT ![r] = RequestTimeout]
  /\ answer' = [answer EXCEPT ![r] = "pending"]
  /\ after' = [after EXCEPT ![r] = \E d \in Deletes : dpc[d] = "ok"]
  /\ UNCHANGED <<rowVars, redisVars, seen, instance, dpc, faults>>

\* The fast path: the cache answers.
GetHit(r) ==
  /\ pc[r] = "looking"
  /\ entry # "none"
  /\ pc' = [pc EXCEPT ![r] = "idle"]
  /\ left' = [left EXCEPT ![r] = 0]
  /\ answer' = [answer EXCEPT ![r] = FromCached(entry)]
  /\ UNCHANGED <<rowVars, redisVars, seen, after, instance, dpc, faults>>

GetMiss(r) ==
  /\ pc[r] = "looking"
  /\ entry = "none"
  /\ pc' = [pc EXCEPT ![r] = "missed"]
  /\ UNCHANGED <<rowVars, redisVars, left, seen, answer, after, instance, dpc, faults>>

\* A Redis error is not fatal: the redirect goes to the store.
GetFails(r) ==
  /\ pc[r] = "looking"
  /\ FaultOrDeadline(r)
  /\ pc' = [pc EXCEPT ![r] = "missed"]
  /\ UNCHANGED <<rowVars, redisVars, left, seen, answer, after, instance, dpc>>

\* group.Do runs loadAndCache in the first caller of the instance.
Lead(r) ==
  /\ pc[r] = "missed"
  /\ \A q \in Reads : instance[q] = instance[r] => pc[q] \notin Leading
  /\ pc' = [pc EXCEPT ![r] = "loading"]
  /\ UNCHANGED <<rowVars, redisVars, left, seen, answer, after, instance, dpc, faults>>

\* group.Do makes the others wait for its result, without a deadline of their
\* own.
Follow(r) ==
  /\ pc[r] = "missed"
  /\ \E q \in Reads : instance[q] = instance[r] /\ pc[q] \in Leading
  /\ pc' = [pc EXCEPT ![r] = "waiting"]
  /\ left' = [left EXCEPT ![r] = 0]
  /\ UNCHANGED <<rowVars, redisVars, seen, answer, after, instance, dpc, faults>>

\* A load that returns ErrNotFound without a value to remember.
LoadNothing(r) ==
  /\ pc[r] = "loading"
  /\ seen' = [seen EXCEPT ![r] = IF row = "live" THEN "url" ELSE "none"]
  /\ pc' = [pc EXCEPT ![r] = "filling"]
  /\ UNCHANGED <<rowVars, redisVars, left, answer, after, instance, dpc, faults>>

\* The store is read.
Load(r) ==
  /\ pc[r] = "loading"
  /\ seen' = [seen EXCEPT ![r] = IF row = "live" THEN "url" ELSE "tombstone"]
  /\ pc' = [pc EXCEPT ![r] = "filling"]
  /\ UNCHANGED <<rowVars, redisVars, left, answer, after, instance, dpc, faults>>

\* A fill that caches the URL whatever the load found.
FillAlwaysPositive(r) ==
  /\ pc[r] = "filling"
  /\ Set("url", PosTTL)
  /\ pc' = [pc EXCEPT ![r] = "filled"]
  /\ UNCHANGED <<rowVars, left, seen, answer, after, instance, dpc, faults>>

\* What was found is cached, a known absence only briefly.
Fill(r) ==
  /\ pc[r] = "filling"
  /\ Set(seen[r], IF seen[r] = "tombstone" THEN NegTTL ELSE PosTTL)
  /\ pc' = [pc EXCEPT ![r] = "filled"]
  /\ UNCHANGED <<rowVars, left, seen, answer, after, instance, dpc, faults>>

\* A failed Set is only logged.
FillFails(r) ==
  /\ pc[r] = "filling"
  /\ FaultOrDeadline(r)
  /\ pc' = [pc EXCEPT ![r] = "filled"]
  /\ UNCHANGED <<rowVars, redisVars, left, seen, answer, after, instance, dpc>>

\* The redirects that get the result of leader r.
Sharing(r) ==
  {q \in Reads : q = r \/ (instance[q] = instance[r] /\ pc[q] = "waiting")}

\* A flight that ends for its leader only.
EndFlightAlone(r, result) ==
  /\ pc' = [pc EXCEPT ![r] = "idle"]
  /\ left' = [left EXCEPT ![r] = 0]
  /\ seen' = [seen EXCEPT ![r] = "none"]
  /\ answer' = [answer EXCEPT ![r] = result]

\* group.Do returns the leader's result, an error too, to every caller.
EndFlight(r, result) ==
  /\ pc' = [q \in Reads |-> IF q \in Sharing(r) THEN "idle" ELSE pc[q]]
  /\ left' = [left EXCEPT ![r] = 0]
  /\ seen' = [seen EXCEPT ![r] = "none"]
  /\ answer' = [q \in Reads |-> IF q \in Sharing(r) THEN result ELSE answer[q]]

Finish(r) ==
  /\ pc[r] = "filled"
  /\ EndFlight(r, FromCached(seen[r]))
  /\ UNCHANGED <<rowVars, redisVars, after, instance, dpc, faults>>

\* The load fails: the store does, or the leader's context ends, by its
\* deadline or because its client went away.  Nothing is cached.
LoadFails(r) ==
  /\ pc[r] = "loading"
  /\ FaultOrDeadline(r)
  /\ EndFlight(r, "error")
  /\ UNCHANGED <<rowVars, redisVars, after, instance, dpc>>

-----------------------------------------------------------------------------
(***************************************************************************)
(* deleteLink: Delete, then Invalidate.                                    *)
(***************************************************************************)

DeleteRow(d) ==
  /\ dpc[d] = "idle"
  /\ row = "live"
  /\ row' = "deleted" /\ age' = 0
  /\ dpc' = [dpc EXCEPT ![d] = "invalidating"]
  /\ left' = [left EXCEPT ![d] = RequestTimeout]
  /\ UNCHANGED <<redisVars, pc, seen, answer, after, instance, faults>>

\* A code that has no row: ErrNotFound, and the cache is not touched.
DeleteMissing(d) ==
  /\ dpc[d] = "idle"
  /\ row # "live"
  /\ dpc' = [dpc EXCEPT ![d] = "notfound"]
  /\ UNCHANGED <<rowVars, redisVars, readVars, faults>>

\* The statement fails, before or after it took effect: an error is returned
\* and the cache is not touched.
DeleteFails(d) ==
  /\ dpc[d] = "idle"
  /\ faults < MaxFaults /\ faults' = faults + 1
  /\ \/ UNCHANGED rowVars
     \/ row = "live" /\ row' = "deleted" /\ age' = 0
  /\ dpc' = [dpc EXCEPT ![d] = "error"]
  /\ UNCHANGED <<redisVars, readVars>>

Invalidate(d) ==
  /\ dpc[d] = "invalidating"
  /\ Del
  /\ dpc' = [dpc EXCEPT ![d] = "ok"]
  /\ left' = [left EXCEPT ![d] = 0]
  /\ UNCHANGED <<rowVars, pc, seen, answer, after, instance, faults>>

\* A failed Del does not fail the delete.
InvalidateFails(d) ==
  /\ dpc[d] = "invalidating"
  /\ FaultOrDeadline(d)
  /\ dpc' = [dpc EXCEPT ![d] = "ok"]
  /\ left' = [left EXCEPT ![d] = 0]
  /\ UNCHANGED <<rowVars, redisVars, pc, seen, answer, after, instance>>

-----------------------------------------------------------------------------
\* Redis drops the entry: it restarts, or evicts it under memory pressure.
RedisDrops ==
  /\ entry # "none"
  /\ Del
  /\ UNCHANGED <<rowVars, readVars, dpc, faults>>

\* Redirects that are not behind TimeoutMiddleware.
RunningDeletes == {d \in Deletes : dpc[d] = "invalidating"}

\* Requests whose next command must be over by their deadline.
Running == {r \in Reads : pc[r] \notin {"idle", "waiting"}}
           \union {d \in Deletes : dpc[d] = "invalidating"}

\* A unit of time passes: deadlines come closer and an entry whose time is up
\* is gone.
Tick ==
  /\ \A r \in Running : left[r] > 0
  /\ age' = IF age < MaxAge THEN age + 1 ELSE age
  /\ left' = [r \in Reads \union Deletes |-> IF r \in Running THEN left[r] - 1 ELSE left[r]]
  /\ ttl' = IF ttl > 0 THEN ttl - 1 ELSE 0
  /\ entry' = IF ttl > 1 THEN entry ELSE "none"
  /\ UNCHANGED <<row, pc, seen, answer, after, instance, dpc, faults>>

ReadStep(r) ==
  \/ GetHit(r) \/ GetMiss(r) \/ GetFails(r) \/ Lead(r) \/ Follow(r)
  \/ Load(r) \/ LoadFails(r) \/ Fill(r) \/ FillFails(r) \/ Finish(r)

DeleteStep(d) ==
  \/ DeleteRow(d) \/ DeleteMissing(d) \/ DeleteFails(d)
  \/ Invalidate(d) \/ InvalidateFails(d)

Next ==
  \/ Create
  \/ \E r \in Reads : Arrive(r) \/ ReadStep(r)
  \/ \E d \in Deletes : DeleteStep(d)
  \/ RedisDrops
  \/ Tick

Spec == Init /\ [][Next]_vars

\* Fairness: a goroutine that can go on does.
FairSpec == Spec /\ \A r \in Reads : WF_vars(ReadStep(r))

-----------------------------------------------------------------------------
\* The variables have their types; an entry exists exactly while it has time
\* left; only a leader that has loaded knows a value.
TypeOK ==
  /\ row \in {"never", "live", "deleted"}
  /\ age \in 0..MaxAge
  /\ entry \in {"none", "url", "tombstone"}
  /\ ttl \in Nat
  /\ entry = "none" <=> ttl = 0
  /\ pc \in [Reads -> {"idle", "looking", "missed", "waiting"} \union Leading]
  /\ left \in [Reads \union Deletes -> 0..RequestTimeout]
  /\ seen \in [Reads -> {"none", "url", "tombstone"}]
  /\ \A r \in Reads : seen[r] # "none" <=> pc[r] \in {"filling", "filled"}
  /\ answer \in [Reads -> {"none", "pending", "found", "notfound", "error"}]
  /\ after \in [Reads -> BOOLEAN]
  /\ instance \in [Reads -> Instances]
  /\ dpc \in [Deletes -> {"idle", "invalidating", "ok", "notfound", "error"}]
  /\ faults \in Nat

\* The TTL is the backstop (Invalidate's and Delete's comments): a cached URL
\* outlives its row by no more than the time-to-live and the lifetime of one
\* request, and a tombstone hides a created link no longer than negativeTTL and
\* one request, whatever fails and however loads, deletes and creates overlap.
BoundedStaleness ==
  /\ entry = "url" /\ row # "live" => row = "deleted" /\ age <= PosTTL + RequestTimeout
  /\ entry = "tombstone" /\ row = "live" => age <= NegTTL + RequestTimeout

\* The same bound holds for the answers, a follower's too: a redirect follows a
\* deleted link, or misses a created one, only that soon after the change.
AnswersRecent ==
  [][\A r \in Reads : answer[r] = "pending" =>
       /\ answer'[r] = "found" /\ row # "live" =>
            row = "deleted" /\ age <= PosTTL + RequestTimeout
       /\ answer'[r] = "notfound" /\ row = "live" => age <= NegTTL + RequestTimeout]_vars

\* The code is deleted, not cached, and no load that saw it is under way.
Forgotten ==
  /\ row = "deleted"
  /\ entry # "url"
  /\ \A r \in Reads : seen[r] # "url"

\* A link that is forgotten stays forgotten: no later load, fill or failure
\* brings it back into the cache.
StaysForgotten == [][Forgotten => Forgotten']_vars

\* A redirect that looks a code up is answered: nobody is left waiting for a
\* flight that has ended.
EventuallyAnswered == \A r \in Reads : answer[r] = "pending" ~> answer[r] # "pending"

\* Delete's comment: the cached redirect is dropped "so a deleted code stops
\* resolving at once instead of lingering until its TTL".
DeletedStopsResolving == \A r \in Reads : after[r] => answer[r] # "found"

=============================================================================
