------------------------- MODULE CreateLinkProofs --------------------------
(***************************************************************************)
(* What idempotency keys and the unique constraint on codes guarantee, for *)
(* any number of requests, keys, codes and faults.                         *)
(***************************************************************************)
EXTENDS CreateLink, TLAPS

\* A request that holds a code holds one made for it.
HoldsOwnLink ==
  \A r \in Reqs : pc[r] \in {"recording", "rereading", "replaying", "created"} => MadeFor(code[r], r)

\* A recorded code belongs to a link that a request with the key made.
RecordsOwnLink ==
  \A k \in Keys : record[k] # NoCode =>
    links[record[k]] = Deleted \/ (links[record[k]] \in Reqs /\ KeyOf[links[record[k]]] = k)

\* While Redis is reliable a key's answers are the recorded code.
AnswersRecorded ==
  redisFaults = 0 =>
    \A r \in Reqs : KeyOf[r] # NoKey =>
      /\ pc[r] \in {"replaying", "created"} => record[KeyOf[r]] = code[r]
      /\ pc[r] = "rereading" => record[KeyOf[r]] # NoCode

\* While Redis is reliable a retry finds the record, and no request has a link
\* before it gets to Service.Create.
RetriesReplay ==
  /\ redisFaults = 0 =>
       \A r \in Reqs : retry[r] =>
         /\ KeyOf[r] \in Keys /\ record[KeyOf[r]] # NoCode
         /\ pc[r] \in {"lookup", "replaying", "created", "failed"}
  /\ \A r \in Reqs : pc[r] \in {"idle", "lookup"} => \A c \in Codes : links[c] # r

IInv ==
  /\ TypeOK
  /\ HoldsOwnLink
  /\ RecordsOwnLink
  /\ AnswersRecorded
  /\ RetriesReplay
  /\ RetryMakesNoLink

USE CreateAssumption

\* Every step keeps the types.
LEMMA TypeStep == TypeOK /\ [Next]_vars => TypeOK'
  <1> SUFFICES ASSUME TypeOK, [Next]_vars PROVE TypeOK'
    OBVIOUS
  <1> USE DEF Goto, faultVars
  <1>1. ASSUME NEW r \in Reqs, Arrive(r) PROVE TypeOK'
    BY <1>1 DEF TypeOK, Arrive, Running
  <1>2. ASSUME NEW r \in Reqs, LookupHit(r) PROVE TypeOK'
    BY <1>2 DEF TypeOK, LookupHit, Running
  <1>3. ASSUME NEW r \in Reqs, LookupMiss(r) PROVE TypeOK'
    BY <1>3 DEF TypeOK, LookupMiss, Running
  <1>4. ASSUME NEW r \in Reqs, LookupFails(r) PROVE TypeOK'
    BY <1>4 DEF TypeOK, LookupFails, RedisFault, Running
  <1>5. ASSUME NEW r \in Reqs, CreateRefused(r) PROVE TypeOK'
    BY <1>5 DEF TypeOK, CreateRefused
  <1>6. ASSUME NEW r \in Reqs, Insert(r) PROVE TypeOK'
    BY <1>6 DEF TypeOK, Insert, Running
  <1>7. ASSUME NEW r \in Reqs, Collide(r) PROVE TypeOK'
    <2>1. attempt' = [attempt EXCEPT ![r] = attempt[r] + 1]
      BY <1>7 DEF Collide
    <2>2. attempt' \in [Reqs -> 0..MaxCreateRetries]
      BY <1>7, <2>1 DEF TypeOK, Collide
    <2> QED
      BY <1>7, <2>2 DEF TypeOK, Collide, Running
  <1>8. ASSUME NEW r \in Reqs, InsertFails(r) PROVE TypeOK'
    BY <1>8 DEF TypeOK, InsertFails, StoreFault
  <1>9. ASSUME NEW r \in Reqs, Record(r) PROVE TypeOK'
    BY <1>9 DEF TypeOK, Record
  <1>10. ASSUME NEW r \in Reqs, RecordLost(r) PROVE TypeOK'
    BY <1>10 DEF TypeOK, RecordLost, Running
  <1>11. ASSUME NEW r \in Reqs, RecordFails(r) PROVE TypeOK'
    BY <1>11 DEF TypeOK, RecordFails, RedisFault
  <1>12. ASSUME NEW r \in Reqs, Reread(r) PROVE TypeOK'
    BY <1>12 DEF TypeOK, Reread, Running
  <1>13. ASSUME NEW r \in Reqs, RereadMiss(r) PROVE TypeOK'
    BY <1>13 DEF TypeOK, RereadMiss, RedisFault
  <1>14. ASSUME NEW r \in Reqs, Replay(r) PROVE TypeOK'
    BY <1>14 DEF TypeOK, Replay
  <1>15. ASSUME NEW r \in Reqs, ReplayFails(r) PROVE TypeOK'
    BY <1>15 DEF TypeOK, ReplayFails, StoreFault
  <1>16. ASSUME NEW c \in Codes, DeleteLink(c) PROVE TypeOK'
    BY <1>16 DEF TypeOK, DeleteLink
  <1>17. ASSUME NEW k \in Keys, LoseRecord(k) PROVE TypeOK'
    BY <1>17 DEF TypeOK, LoseRecord, RedisFault
  <1>18. ASSUME NEW r \in Reqs, RecordRetried(r) PROVE TypeOK'
    BY <1>18 DEF TypeOK, RecordRetried, RedisFault, Running
  <1>19. CASE UNCHANGED vars
    BY <1>19 DEF TypeOK, vars
  <1> QED
    BY <1>1, <1>2, <1>3, <1>4, <1>5, <1>6, <1>7, <1>8, <1>9, <1>10, <1>11, <1>12, <1>13, <1>14,
       <1>15, <1>16, <1>17, <1>18, <1>19 DEF Next, Step

\* The types hold, and Service.Create tries no more than maxCreateRetries codes.
THEOREM TypeCorrect == Spec => []TypeOK
  <1>1. Init => TypeOK
    BY DEF Init, TypeOK
  <1> QED
    BY <1>1, TypeStep, PTL DEF Spec

\* Every step keeps the inductive invariant.
LEMMA IdempotencyStep == IInv /\ [Next]_vars => IInv'
  <1> SUFFICES ASSUME IInv, [Next]_vars PROVE IInv'
    OBVIOUS
  <1> USE DEF Goto, faultVars
  <1>0. TypeOK /\ TypeOK'
    BY TypeStep DEF IInv
  <1>1. ASSUME NEW r \in Reqs, Arrive(r) PROVE IInv'
    BY <1>0, <1>1 DEF IInv, TypeOK, Arrive, HoldsOwnLink, MadeFor, RecordsOwnLink, AnswersRecorded,
       RetriesReplay, RetryMakesNoLink
  <1>2. ASSUME NEW r \in Reqs, LookupHit(r) PROVE IInv'
    BY <1>0, <1>2 DEF IInv, TypeOK, LookupHit, HoldsOwnLink, MadeFor, RecordsOwnLink, AnswersRecorded,
       RetriesReplay, RetryMakesNoLink
  <1>3. ASSUME NEW r \in Reqs, LookupMiss(r) PROVE IInv'
    BY <1>0, <1>3 DEF IInv, TypeOK, LookupMiss, HoldsOwnLink, MadeFor, RecordsOwnLink, AnswersRecorded,
       RetriesReplay, RetryMakesNoLink
  <1>4. ASSUME NEW r \in Reqs, LookupFails(r) PROVE IInv'
    BY <1>0, <1>4 DEF IInv, TypeOK, LookupFails, RedisFault, HoldsOwnLink, MadeFor, RecordsOwnLink,
       AnswersRecorded, RetriesReplay, RetryMakesNoLink
  <1>5. ASSUME NEW r \in Reqs, CreateRefused(r) \/ Collide(r) PROVE IInv'
    BY <1>0, <1>5 DEF IInv, TypeOK, CreateRefused, Collide, HoldsOwnLink, MadeFor, RecordsOwnLink,
       AnswersRecorded, RetriesReplay, RetryMakesNoLink
  <1>6. ASSUME NEW r \in Reqs, NEW c \in Codes, pc[r] = "creating", links[c] = Free,
               links' = [links EXCEPT ![c] = r], UNCHANGED <<record, retry>>, redisFaults' = redisFaults,
               \/ /\ code' = [code EXCEPT ![r] = c]
                  /\ pc' = [pc EXCEPT ![r] = IF KeyOf[r] = NoKey THEN "created" ELSE "recording"]
               \/ code' = code /\ pc' = [pc EXCEPT ![r] = "failed"]
        PROVE  IInv'
    \* A free code becomes r's: no record and no other request holds it.
    <2>1. ~(redisFaults = 0 /\ retry[r])
      BY <1>6 DEF IInv, RetriesReplay
    <2>2. HoldsOwnLink'
      BY <1>0, <1>6 DEF IInv, TypeOK, HoldsOwnLink, MadeFor
    <2>3. RecordsOwnLink'
      BY <1>0, <1>6 DEF IInv, TypeOK, RecordsOwnLink
    <2>4. AnswersRecorded'
      BY <1>0, <1>6 DEF IInv, TypeOK, AnswersRecorded
    <2>5. RetriesReplay'
      BY <1>0, <1>6, <2>1 DEF IInv, TypeOK, RetriesReplay
    <2>6. RetryMakesNoLink'
      BY <1>0, <1>6, <2>1 DEF IInv, TypeOK, RetryMakesNoLink
    <2> QED
      BY <1>0, <2>2, <2>3, <2>4, <2>5, <2>6 DEF IInv
  <1>7. ASSUME NEW r \in Reqs, Insert(r) PROVE IInv'
    BY <1>6, <1>7 DEF Insert
  <1>8. ASSUME NEW r \in Reqs, InsertFails(r) PROVE IInv'
    <2>1. CASE UNCHANGED links
      BY <1>0, <1>8, <2>1 DEF IInv, TypeOK, InsertFails, StoreFault, HoldsOwnLink, MadeFor, RecordsOwnLink,
         AnswersRecorded, RetriesReplay, RetryMakesNoLink
    <2>2. CASE \E c \in Codes : links[c] = Free /\ links' = [links EXCEPT ![c] = r]
      BY <1>6, <1>8, <2>2 DEF InsertFails, StoreFault
    <2> QED
      BY <1>8, <2>1, <2>2 DEF InsertFails
  <1>9. ASSUME NEW r \in Reqs, Record(r) PROVE IInv'
    BY <1>0, <1>9 DEF IInv, TypeOK, Record, HoldsOwnLink, MadeFor, RecordsOwnLink, AnswersRecorded,
       RetriesReplay, RetryMakesNoLink
  <1>10. ASSUME NEW r \in Reqs, RecordLost(r) PROVE IInv'
    BY <1>0, <1>10 DEF IInv, TypeOK, RecordLost, HoldsOwnLink, MadeFor, RecordsOwnLink, AnswersRecorded,
       RetriesReplay, RetryMakesNoLink
  <1>11. ASSUME NEW r \in Reqs, RecordFails(r) PROVE IInv'
    BY <1>0, <1>11 DEF IInv, TypeOK, RecordFails, RedisFault, HoldsOwnLink, MadeFor, RecordsOwnLink,
       AnswersRecorded, RetriesReplay, RetryMakesNoLink
  <1>12. ASSUME NEW r \in Reqs, Reread(r) PROVE IInv'
    BY <1>0, <1>12 DEF IInv, TypeOK, Reread, HoldsOwnLink, MadeFor, RecordsOwnLink, AnswersRecorded,
       RetriesReplay, RetryMakesNoLink
  <1>13. ASSUME NEW r \in Reqs, RereadMiss(r) PROVE IInv'
    BY <1>0, <1>13 DEF IInv, TypeOK, RereadMiss, RedisFault, HoldsOwnLink, MadeFor, RecordsOwnLink,
       AnswersRecorded, RetriesReplay, RetryMakesNoLink
  <1>14. ASSUME NEW r \in Reqs, Replay(r) PROVE IInv'
    BY <1>0, <1>14 DEF IInv, TypeOK, Replay, HoldsOwnLink, MadeFor, RecordsOwnLink, AnswersRecorded,
       RetriesReplay, RetryMakesNoLink
  <1>15. ASSUME NEW r \in Reqs, ReplayFails(r) PROVE IInv'
    BY <1>0, <1>15 DEF IInv, TypeOK, ReplayFails, StoreFault, HoldsOwnLink, MadeFor, RecordsOwnLink,
       AnswersRecorded, RetriesReplay, RetryMakesNoLink
  <1>16. ASSUME NEW c \in Codes, DeleteLink(c) PROVE IInv'
    BY <1>0, <1>16 DEF IInv, TypeOK, DeleteLink, HoldsOwnLink, MadeFor, RecordsOwnLink, AnswersRecorded,
       RetriesReplay, RetryMakesNoLink
  <1>17. ASSUME NEW k \in Keys, LoseRecord(k) PROVE IInv'
    BY <1>0, <1>17 DEF IInv, TypeOK, LoseRecord, RedisFault, HoldsOwnLink, MadeFor, RecordsOwnLink,
       AnswersRecorded, RetriesReplay, RetryMakesNoLink
  <1>18. ASSUME NEW r \in Reqs, RecordRetried(r) PROVE IInv'
    BY <1>0, <1>18 DEF IInv, TypeOK, RecordRetried, RedisFault, HoldsOwnLink, MadeFor, RecordsOwnLink,
       AnswersRecorded, RetriesReplay, RetryMakesNoLink
  <1>19. CASE UNCHANGED vars
    BY <1>0, <1>19 DEF IInv, vars, HoldsOwnLink, MadeFor, RecordsOwnLink, AnswersRecorded, RetriesReplay,
       RetryMakesNoLink
  <1> QED
    BY <1>1, <1>2, <1>3, <1>4, <1>5, <1>7, <1>8, <1>9, <1>10, <1>11, <1>12, <1>13, <1>14,
       <1>15, <1>16, <1>17, <1>18, <1>19 DEF Next, Step

\* The inductive invariant holds in every reachable state.
LEMMA Inductive == Spec => []IInv
  <1>1. Init => IInv
    BY DEF Init, IInv, TypeOK, HoldsOwnLink, RecordsOwnLink, AnswersRecorded, RetriesReplay, RetryMakesNoLink
  <1> QED
    BY <1>1, IdempotencyStep, PTL DEF Spec

\* createLink never answers with a link made for somebody else, whatever
\* collides or fails: the unique constraint makes Create retry, and a key's
\* record names a link of the key.
THEOREM OwnLink == Spec => []AnsweredOwnLink
  <1>1. IInv => AnsweredOwnLink
    BY DEF IInv, HoldsOwnLink, AnsweredOwnLink
  <1> QED
    BY <1>1, Inductive, PTL

\* While Redis is reliable, overlapping requests with one key are answered with
\* one link: the losers of SET NX read the winner's code back.
THEOREM OneAnswerPerKey == Spec => []SameKeySameLink
  <1>1. IInv => SameKeySameLink
    BY DEF IInv, AnswersRecorded, SameKeySameLink
  <1> QED
    BY <1>1, Inductive, PTL

\* While Redis is reliable, a request that comes after its key's 201 inserts
\* nothing.
THEOREM RetriesInsertNothing == Spec => []RetryMakesNoLink
  <1>1. IInv => RetryMakesNoLink
    BY DEF IInv
  <1> QED
    BY <1>1, Inductive, PTL

=============================================================================
