-------------------------- MODULE LinkCacheProofs --------------------------
(***************************************************************************)
(* The cache is never stale for longer than an entry's time-to-live and    *)
(* one request, for any number of redirects, deletes, instances and        *)
(* faults, and whatever the time-to-lives are.                             *)
(***************************************************************************)
EXTENDS LinkCache, TLAPS

\* An entry never has more time than its kind is given.
Lifetimes ==
  /\ entry = "url" => ttl <= PosTTL
  /\ entry = "tombstone" => ttl <= NegTTL

\* A stale entry has so little time left that it is gone when the bound is
\* reached.
EntryExpires ==
  /\ entry = "url" /\ row # "live" => row = "deleted" /\ age + ttl <= PosTTL + RequestTimeout
  /\ entry = "tombstone" /\ row = "live" => age + ttl <= NegTTL + RequestTimeout

\* A stale value that a load holds is not older than its request.
LoadExpires ==
  \A r \in Reads :
    /\ seen[r] = "url" /\ row # "live" => row = "deleted" /\ age + left[r] <= RequestTimeout
    /\ seen[r] = "tombstone" /\ row = "live" => age + left[r] <= RequestTimeout

IInv == TypeOK /\ Lifetimes /\ EntryExpires /\ LoadExpires

\* What a cached value is compared with, and the value itself.
StaleVars == <<row, age, entry, ttl>>

\* Steps of a redirect that change only the request itself keep the invariant
\* when they neither add time nor a value.
LEMMA RequestStep ==
  ASSUME IInv, TypeOK', UNCHANGED StaleVars,
         \A r \in Reads : seen'[r] = "none" \/ (seen'[r] = seen[r] /\ left'[r] = left[r])
  PROVE  IInv'
  BY DEF IInv, Lifetimes, EntryExpires, LoadExpires, StaleVars

\* While time passes an entry loses what the row's age gains.
LEMMA TickArith ==
  ASSUME NEW a \in Nat, NEW b \in Nat, NEW t \in Nat, NEW B \in Nat,
         b <= a + 1, t > 1, a + t <= B
  PROVE  b + (t - 1) <= B
  OBVIOUS

\* Every step keeps the types.
LEMMA TypeStep == TypeOK /\ [Next]_vars => TypeOK'
  <1> SUFFICES ASSUME TypeOK, [Next]_vars PROVE TypeOK'
    OBVIOUS
  <1> USE CacheAssumption
  <1>1. CASE Create
    BY <1>1 DEF TypeOK, Create, redisVars, readVars, MaxAge
  <1>2. ASSUME NEW r \in Reads, Arrive(r) PROVE TypeOK'
    BY <1>2 DEF TypeOK, Arrive, rowVars, redisVars
  <1>3. ASSUME NEW r \in Reads, GetHit(r) PROVE TypeOK'
    BY <1>3 DEF TypeOK, GetHit, FromCached, rowVars, redisVars
  <1>4. ASSUME NEW r \in Reads, GetMiss(r) PROVE TypeOK'
    BY <1>4 DEF TypeOK, GetMiss, rowVars, redisVars
  <1>5. ASSUME NEW r \in Reads, GetFails(r) PROVE TypeOK'
    BY <1>5 DEF TypeOK, GetFails, FaultOrDeadline, rowVars, redisVars
  <1>6. ASSUME NEW r \in Reads, Lead(r) PROVE TypeOK'
    BY <1>6 DEF TypeOK, Lead, Leading, rowVars, redisVars
  <1>7. ASSUME NEW r \in Reads, Follow(r) PROVE TypeOK'
    BY <1>7 DEF TypeOK, Follow, rowVars, redisVars
  <1>8. ASSUME NEW r \in Reads, Load(r) PROVE TypeOK'
    BY <1>8 DEF TypeOK, Load, Leading, rowVars, redisVars
  <1>9. ASSUME NEW r \in Reads, LoadFails(r) PROVE TypeOK'
    BY <1>9 DEF TypeOK, LoadFails, EndFlight, Sharing, FaultOrDeadline, rowVars, redisVars
  <1>10. ASSUME NEW r \in Reads, Fill(r) PROVE TypeOK'
    BY <1>10 DEF TypeOK, Fill, Set, Leading, rowVars
  <1>11. ASSUME NEW r \in Reads, FillFails(r) PROVE TypeOK'
    BY <1>11 DEF TypeOK, FillFails, FaultOrDeadline, Leading, rowVars, redisVars
  <1>12. ASSUME NEW r \in Reads, Finish(r) PROVE TypeOK'
    BY <1>12 DEF TypeOK, Finish, EndFlight, Sharing, FromCached, rowVars, redisVars
  <1>13. ASSUME NEW d \in Deletes, DeleteRow(d) PROVE TypeOK'
    BY <1>13 DEF TypeOK, DeleteRow, redisVars, MaxAge
  <1>14. ASSUME NEW d \in Deletes, DeleteMissing(d) PROVE TypeOK'
    BY <1>14 DEF TypeOK, DeleteMissing, rowVars, redisVars, readVars
  <1>15. ASSUME NEW d \in Deletes, DeleteFails(d) PROVE TypeOK'
    BY <1>15 DEF TypeOK, DeleteFails, rowVars, redisVars, readVars, MaxAge
  <1>16. ASSUME NEW d \in Deletes, Invalidate(d) PROVE TypeOK'
    BY <1>16 DEF TypeOK, Invalidate, Del, rowVars
  <1>17. ASSUME NEW d \in Deletes, InvalidateFails(d) PROVE TypeOK'
    BY <1>17 DEF TypeOK, InvalidateFails, FaultOrDeadline, rowVars, redisVars
  <1>18. CASE RedisDrops
    BY <1>18 DEF TypeOK, RedisDrops, Del, rowVars, readVars
  <1>19. CASE Tick
    <2>1. age' \in 0..MaxAge
      BY <1>19 DEF TypeOK, Tick, MaxAge
    <2>2. left' \in [Reads \union Deletes -> 0..RequestTimeout]
      BY <1>19 DEF TypeOK, Tick
    <2> QED
      BY <1>19, <2>1, <2>2 DEF TypeOK, Tick
  <1>20. CASE UNCHANGED vars
    BY <1>20 DEF TypeOK, vars
  <1> QED
    BY <1>1, <1>2, <1>3, <1>4, <1>5, <1>6, <1>7, <1>8, <1>9, <1>10, <1>11, <1>12,
       <1>13, <1>14, <1>15, <1>16, <1>17, <1>18, <1>19, <1>20
    DEF Next, ReadStep, DeleteStep

\* The types hold in every reachable state of the cache.
THEOREM TypeCorrect == Spec => []TypeOK
  <1>1. Init => TypeOK
    BY CacheAssumption DEF Init, TypeOK, MaxAge
  <1> QED
    BY <1>1, TypeStep, PTL DEF Spec

\* Every step keeps the inductive invariant.
LEMMA StalenessStep == IInv /\ [Next]_vars => IInv'
  <1> SUFFICES ASSUME IInv, [Next]_vars PROVE IInv'
    OBVIOUS
  <1> USE CacheAssumption
  <1>0. TypeOK /\ TypeOK'
    BY TypeStep DEF IInv
  <1>1. CASE Create
    \* No URL is cached or loaded before the row exists; a tombstone starts to
    \* be stale now.
    BY <1>0, <1>1 DEF IInv, TypeOK, Lifetimes, EntryExpires, LoadExpires, Create, redisVars, readVars
  <1>2. ASSUME NEW r \in Reads, Arrive(r) PROVE IInv'
    <2>1. seen[r] = "none"
      BY <1>0, <1>2 DEF TypeOK, Arrive
    <2> QED
      BY <1>0, <1>2, <2>1, RequestStep DEF TypeOK, Arrive, StaleVars, rowVars, redisVars
  <1>3. ASSUME NEW r \in Reads, GetHit(r) PROVE IInv'
    <2>1. seen[r] = "none"
      BY <1>0, <1>3 DEF TypeOK, GetHit
    <2> QED
      BY <1>0, <1>3, <2>1, RequestStep DEF TypeOK, GetHit, StaleVars, rowVars, redisVars
  <1>4. ASSUME NEW r \in Reads, GetMiss(r) \/ GetFails(r) \/ Lead(r) PROVE IInv'
    BY <1>0, <1>4, RequestStep DEF GetMiss, GetFails, Lead, StaleVars, rowVars, redisVars
  <1>5. ASSUME NEW r \in Reads, Follow(r) PROVE IInv'
    <2>1. seen[r] = "none"
      BY <1>0, <1>5 DEF TypeOK, Follow
    <2> QED
      BY <1>0, <1>5, <2>1, RequestStep DEF TypeOK, Follow, StaleVars, rowVars, redisVars
  <1>6. ASSUME NEW r \in Reads, Load(r) PROVE IInv'
    \* What a load finds is not stale.
    BY <1>0, <1>6 DEF IInv, TypeOK, Lifetimes, EntryExpires, LoadExpires, Load, rowVars, redisVars
  <1>7. ASSUME NEW r \in Reads, LoadFails(r) \/ Finish(r) PROVE IInv'
    <2>1. /\ UNCHANGED StaleVars
          /\ seen' = [seen EXCEPT ![r] = "none"]
          /\ left' = [left EXCEPT ![r] = 0]
      BY <1>7 DEF LoadFails, Finish, EndFlight, StaleVars, rowVars, redisVars
    <2>2. \A q \in Reads : seen'[q] = "none" \/ (seen'[q] = seen[q] /\ left'[q] = left[q])
      BY <1>0, <2>1 DEF TypeOK
    <2> QED
      BY <1>0, <2>1, <2>2, RequestStep
  <1>8. ASSUME NEW r \in Reads, Fill(r) PROVE IInv'
    \* The time the entry gets, added to the age the load can have.
    <2>1. /\ seen[r] \in {"url", "tombstone"}
          /\ entry' = seen[r]
          /\ ttl' = IF seen[r] = "tombstone" THEN NegTTL ELSE PosTTL
          /\ UNCHANGED <<row, age, left, seen>>
      BY <1>0, <1>8 DEF TypeOK, Fill, Set, rowVars
    <2>2. left[r] \in Nat /\ age \in Nat
      BY <1>0 DEF TypeOK
    <2> QED
      BY <1>0, <2>1, <2>2 DEF IInv, Lifetimes, EntryExpires, LoadExpires
  <1>9. ASSUME NEW r \in Reads, FillFails(r) PROVE IInv'
    BY <1>0, <1>9, RequestStep DEF FillFails, StaleVars, rowVars, redisVars
  <1>10. ASSUME NEW d \in Deletes, row = "live", row' = "deleted", age' = 0,
                UNCHANGED <<entry, ttl, seen>>
         PROVE  IInv'
    \* The row goes: an entry has at most a whole lifetime left, a load at most
    \* a whole request.
    BY <1>0, <1>10 DEF IInv, TypeOK, Lifetimes, EntryExpires, LoadExpires
  <1>11. ASSUME NEW d \in Deletes, DeleteRow(d) PROVE IInv'
    BY <1>10, <1>11 DEF DeleteRow, redisVars
  <1>12. ASSUME NEW d \in Deletes, DeleteMissing(d) PROVE IInv'
    BY <1>0, <1>12, RequestStep DEF DeleteMissing, StaleVars, rowVars, redisVars, readVars
  <1>13. ASSUME NEW d \in Deletes, DeleteFails(d) PROVE IInv'
    <2>1. CASE UNCHANGED rowVars
      BY <1>0, <1>13, <2>1, RequestStep DEF DeleteFails, StaleVars, rowVars, redisVars, readVars
    <2>2. CASE row = "live" /\ row' = "deleted" /\ age' = 0
      BY <1>10, <1>13, <2>2 DEF DeleteFails, redisVars, readVars
    <2> QED
      BY <1>13, <2>1, <2>2 DEF DeleteFails
  <1>14. ASSUME NEW d \in Deletes, Invalidate(d) PROVE IInv'
    <2>1. entry' = "none" /\ UNCHANGED <<row, age, seen>>
      BY <1>14 DEF Invalidate, Del, rowVars
    <2>2. \A r \in Reads : seen[r] # "none" => left'[r] <= left[r]
      BY <1>0, <1>14 DEF TypeOK, Invalidate
    <2> QED
      BY <1>0, <2>1, <2>2 DEF IInv, TypeOK, Lifetimes, EntryExpires, LoadExpires
  <1>15. ASSUME NEW d \in Deletes, InvalidateFails(d) PROVE IInv'
    <2>1. UNCHANGED <<row, age, entry, ttl, seen>>
      BY <1>15 DEF InvalidateFails, rowVars, redisVars
    <2>2. \A r \in Reads : left'[r] <= left[r]
      BY <1>0, <1>15 DEF TypeOK, InvalidateFails
    <2> QED
      BY <1>0, <2>1, <2>2 DEF IInv, TypeOK, Lifetimes, EntryExpires, LoadExpires
  <1>16. CASE RedisDrops
    BY <1>0, <1>16 DEF IInv, Lifetimes, EntryExpires, LoadExpires, RedisDrops, Del, rowVars, readVars
  <1>17. CASE Tick
    <2>1. /\ age' <= age + 1 /\ UNCHANGED <<row, seen>>
          /\ ttl' = IF ttl > 0 THEN ttl - 1 ELSE 0
          /\ entry' = IF ttl > 1 THEN entry ELSE "none"
      BY <1>0, <1>17 DEF TypeOK, Tick
    <2>2. Lifetimes' /\ EntryExpires'
      <3>1. age \in Nat /\ age' \in Nat /\ ttl \in Nat
        BY <1>0 DEF TypeOK
      <3>2. CASE ttl > 1
        <4>1. entry' = entry /\ ttl' = ttl - 1 /\ ttl' \in Nat /\ row' = row
          BY <2>1, <3>1, <3>2
        <4>2. ASSUME NEW B \in Nat, age + ttl <= B PROVE age' + ttl' <= B
          BY <2>1, <3>1, <3>2, <4>1, <4>2, TickArith
        <4>3. ASSUME NEW B \in Nat, ttl <= B PROVE ttl' <= B
          BY <3>1, <4>1, <4>3
        <4>4. PosTTL + RequestTimeout \in Nat /\ NegTTL + RequestTimeout \in Nat
          OBVIOUS
        <4>5. Lifetimes'
          BY <4>1, <4>3 DEF IInv, Lifetimes
        <4>6. EntryExpires'
          BY <4>1, <4>2, <4>4 DEF IInv, EntryExpires
        <4> QED
          BY <4>5, <4>6
      <3>3. CASE ~(ttl > 1)
        BY <2>1, <3>3 DEF Lifetimes, EntryExpires
      <3> QED
        BY <3>2, <3>3
    <2>3. ASSUME NEW r \in Reads, seen[r] # "none" PROVE left'[r] = left[r] - 1
      BY <1>0, <1>17, <2>3 DEF TypeOK, Tick, Running
    <2>4. LoadExpires'
      BY <1>0, <2>1, <2>3 DEF IInv, TypeOK, LoadExpires
    <2> QED
      BY <1>0, <2>2, <2>4 DEF IInv
  <1>18. CASE UNCHANGED vars
    BY <1>0, <1>18, RequestStep DEF vars, StaleVars
  <1> QED
    BY <1>1, <1>2, <1>3, <1>4, <1>5, <1>6, <1>7, <1>8, <1>9, <1>11, <1>12, <1>13, <1>14,
       <1>15, <1>16, <1>17, <1>18
    DEF Next, ReadStep, DeleteStep

\* The inductive invariant holds in every reachable state.
LEMMA Inductive == Spec => []IInv
  <1>1. Init => IInv
    BY CacheAssumption DEF Init, IInv, TypeOK, Lifetimes, EntryExpires, LoadExpires, MaxAge
  <1> QED
    BY <1>1, StalenessStep, PTL DEF Spec

\* What Redis serves is out of date for no longer than the TTL of the entry and
\* one request timeout (loadAndCache, Delete and Invalidate), for every number
\* of concurrent requests and failures.
THEOREM Staleness == Spec => []BoundedStaleness
  <1>1. IInv => BoundedStaleness
    BY CacheAssumption DEF IInv, TypeOK, EntryExpires, BoundedStaleness
  <1> QED
    BY <1>1, Inductive, PTL

\* Nor is an answer, whether it comes from Redis, from the caller's own load or
\* from another caller's (GetByCode and singleflight).
THEOREM RecentAnswers == Spec => AnswersRecent
  <1> DEFINE Recent(r) ==
        answer[r] = "pending" =>
          /\ answer'[r] = "found" /\ row # "live" =>
               row = "deleted" /\ age <= PosTTL + RequestTimeout
          /\ answer'[r] = "notfound" /\ row = "live" => age <= NegTTL + RequestTimeout
  <1>1. ASSUME IInv, [Next]_vars, NEW r \in Reads PROVE Recent(r)
    <2> SUFFICES ASSUME answer[r] = "pending", answer'[r] \in {"found", "notfound"} PROVE Recent(r)
      OBVIOUS
    <2> USE CacheAssumption
    <2>0. TypeOK
      BY <1>1 DEF IInv
    <2>1. ASSUME NEW q \in Reads, GetHit(q) PROVE Recent(r)
      BY <1>1, <2>0, <2>1 DEF IInv, TypeOK, EntryExpires, GetHit, FromCached
    <2>2. ASSUME NEW q \in Reads, Finish(q) PROVE Recent(r)
      <3>1. CASE answer'[r] = answer[r]
        BY <3>1
      <3>2. CASE answer'[r] # answer[r]
        <4>1. answer'[r] = FromCached(seen[q]) /\ seen[q] \in {"url", "tombstone"}
          BY <2>0, <2>2, <3>2 DEF TypeOK, Finish, EndFlight
        <4>2. left[q] \in Nat /\ age \in Nat
          BY <2>0 DEF TypeOK
        <4> QED
          BY <1>1, <4>1, <4>2 DEF IInv, LoadExpires, FromCached
      <3> QED
        BY <3>1, <3>2
    <2>3. ASSUME NEW q \in Reads,
                 \/ Arrive(q) \/ GetMiss(q) \/ GetFails(q) \/ Lead(q) \/ Follow(q)
                 \/ Load(q) \/ LoadFails(q) \/ Fill(q) \/ FillFails(q)
          PROVE  Recent(r)
      <3>1. answer'[r] \in {answer[r], "pending", "error"}
        BY <2>0, <2>3 DEF TypeOK, Arrive, GetMiss, GetFails, Lead, Follow, Load, LoadFails,
           EndFlight, Fill, FillFails
      <3> QED
        BY <3>1
    <2>4. ASSUME UNCHANGED answer PROVE Recent(r)
      BY <2>4
    <2> QED
      BY <1>1, <2>1, <2>2, <2>3, <2>4
      DEF Next, ReadStep, DeleteStep, Create, DeleteRow, DeleteMissing, DeleteFails, Invalidate,
          InvalidateFails, RedisDrops, Tick, readVars, vars
  <1>2. IInv /\ [Next]_vars => [\A r \in Reads : Recent(r)]_vars
    BY <1>1
  <1> QED
    BY <1>2, Inductive, PTL DEF Spec, AnswersRecent

\* A deleted link that no entry and no load remembers stays deleted: loads find
\* no row, so what they write is a tombstone.
THEOREM ForgottenForGood == Spec => StaysForgotten
  <1>1. TypeOK /\ [Next]_vars => [Forgotten => Forgotten']_vars
    <2> SUFFICES ASSUME TypeOK, Next, Forgotten PROVE Forgotten'
      BY DEF vars
    <2>1. ASSUME NEW r \in Reads, Arrive(r) \/ GetHit(r) \/ GetMiss(r) \/ GetFails(r) \/ Lead(r)
                                 \/ Follow(r) \/ FillFails(r)
          PROVE  Forgotten'
      BY <2>1 DEF Forgotten, Arrive, GetHit, GetMiss, GetFails, Lead, Follow, FillFails, rowVars, redisVars
    <2>2. ASSUME NEW r \in Reads, Load(r) PROVE Forgotten'
      BY <2>2 DEF Forgotten, TypeOK, Load, rowVars, redisVars
    <2>3. ASSUME NEW r \in Reads, LoadFails(r) \/ Finish(r) PROVE Forgotten'
      BY <2>3 DEF Forgotten, TypeOK, LoadFails, Finish, EndFlight, rowVars, redisVars
    <2>4. ASSUME NEW r \in Reads, Fill(r) PROVE Forgotten'
      BY <2>4 DEF Forgotten, TypeOK, Fill, Set, rowVars
    <2>5. ASSUME NEW d \in Deletes, DeleteStep(d) PROVE Forgotten'
      BY <2>5 DEF Forgotten, DeleteStep, DeleteRow, DeleteMissing, DeleteFails, Invalidate,
         InvalidateFails, Del, rowVars, redisVars, readVars
    <2>6. ASSUME Create \/ RedisDrops \/ Tick PROVE Forgotten'
      BY <2>6 DEF Forgotten, Create, RedisDrops, Del, Tick, rowVars, readVars
    <2> QED
      BY <2>1, <2>2, <2>3, <2>4, <2>5, <2>6 DEF Next, ReadStep
  <1> QED
    BY <1>1, TypeCorrect, PTL DEF Spec, StaysForgotten

=============================================================================
