---------------------------- MODULE CreateLink -----------------------------
(***************************************************************************)
(* POST /api/links: createLink in internal/http/links.go, the domain's     *)
(* Service.Create, the INSERT into links and the Idempotency-Key records   *)
(* of internal/idempotency.                                                *)
(*                                                                         *)
(* A link is known by the request whose row it is, so the URL is left out. *)
(* The generator may hand out any code, a taken one too: what keeps codes  *)
(* apart here is the table's unique constraint.  A code that was deleted   *)
(* is not generated again.  Postgres and Redis are external.               *)
(***************************************************************************)
EXTENDS Integers

CONSTANTS
  Reqs,              \* requests
  Keys,              \* idempotency keys
  KeyOf,             \* the key a request carries
  NoKey,             \* the key of a request without one
  Codes,             \* short codes
  NoCode,            \* no code
  Free, Deleted,     \* what a code that has no row maps to
  MaxCreateRetries,  \* maxCreateRetries
  Overlap,           \* may requests with one key overlap?
  MaxStoreFaults,    \* bound on failed INSERTs and reads
  MaxRedisFaults     \* bound on failed commands and lost records of Redis

ASSUME CreateAssumption ==
  /\ KeyOf \in [Reqs -> Keys \union {NoKey}] /\ NoKey \notin Keys
  /\ NoCode \notin Codes
  /\ Free \notin Reqs /\ Deleted \notin Reqs /\ Free # Deleted
  /\ MaxCreateRetries \in Nat \ {0}
  /\ Overlap \in BOOLEAN
  /\ MaxStoreFaults \in Nat /\ MaxRedisFaults \in Nat

VARIABLES
  links,        \* per code, the request that inserted its row
  record,       \* per key, the code at idempo:{key}
  pc,           \* per request, where it is and how it was answered
  code,         \* per request, the code it holds or was answered with
  attempt,      \* per request, the collisions so far
  retry,        \* per request, had its key been answered 201 when it came?
  storeFaults,
  redisFaults

vars == <<links, record, pc, code, attempt, retry, storeFaults, redisFaults>>
faultVars == <<storeFaults, redisFaults>>

Running == {"lookup", "creating", "recording", "rereading", "replaying"}

Init ==
  /\ links = [c \in Codes |-> Free]
  /\ record = [k \in Keys |-> NoCode]
  /\ pc = [r \in Reqs |-> "idle"]
  /\ code = [r \in Reqs |-> NoCode]
  /\ attempt = [r \in Reqs |-> 0]
  /\ retry = [r \in Reqs |-> FALSE]
  /\ storeFaults = 0 /\ redisFaults = 0

StoreFault == storeFaults < MaxStoreFaults /\ storeFaults' = storeFaults + 1 /\ UNCHANGED redisFaults
RedisFault == redisFaults < MaxRedisFaults /\ redisFaults' = redisFaults + 1 /\ UNCHANGED storeFaults

Goto(r, place) == pc' = [pc EXCEPT ![r] = place]

-----------------------------------------------------------------------------
\* A request arrives; without a key it goes straight to Service.Create.
Arrive(r) ==
  /\ pc[r] = "idle"
  /\ Overlap \/ \A q \in Reqs : KeyOf[q] = KeyOf[r] => pc[q] \notin Running
  /\ Goto(r, IF KeyOf[r] = NoKey THEN "creating" ELSE "lookup")
  /\ retry' = [retry EXCEPT ![r] =
       KeyOf[r] # NoKey /\ \E q \in Reqs : KeyOf[q] = KeyOf[r] /\ pc[q] = "created"]
  /\ UNCHANGED <<links, record, code, attempt, faultVars>>

\* The fast path: the key is known, its link is resolved and returned.
LookupHit(r) ==
  /\ pc[r] = "lookup"
  /\ record[KeyOf[r]] # NoCode
  /\ code' = [code EXCEPT ![r] = record[KeyOf[r]]]
  /\ Goto(r, "replaying")
  /\ UNCHANGED <<links, record, attempt, retry, faultVars>>

\* A lookup that goes on to create whatever it found.
LookupMissAlways(r) ==
  /\ pc[r] = "lookup"
  /\ Goto(r, "creating")
  /\ UNCHANGED <<links, record, code, attempt, retry, faultVars>>

LookupMiss(r) ==
  /\ pc[r] = "lookup"
  /\ record[KeyOf[r]] = NoCode
  /\ Goto(r, "creating")
  /\ UNCHANGED <<links, record, code, attempt, retry, faultVars>>

\* The lookup fails open.
LookupFails(r) ==
  /\ pc[r] = "lookup"
  /\ RedisFault
  /\ Goto(r, "creating")
  /\ UNCHANGED <<links, record, code, attempt, retry>>

-----------------------------------------------------------------------------
(***************************************************************************)
(* Service.Create.                                                         *)
(***************************************************************************)

\* The URL is refused or no code can be generated: 400 or 500.
CreateRefused(r) ==
  /\ pc[r] = "creating"
  /\ Goto(r, "failed")
  /\ UNCHANGED <<links, record, code, attempt, retry, faultVars>>

\* An INSERT that takes the row over when the code is taken.
InsertOverwrites(r) ==
  /\ pc[r] = "creating"
  /\ \E c \in Codes :
       /\ links[c] # Deleted
       /\ links' = [links EXCEPT ![c] = r]
       /\ code' = [code EXCEPT ![r] = c]
  /\ Goto(r, IF KeyOf[r] = NoKey THEN "created" ELSE "recording")
  /\ UNCHANGED <<record, attempt, retry, faultVars>>

\* The INSERT of a fresh code succeeds.
Insert(r) ==
  /\ pc[r] = "creating"
  /\ \E c \in Codes :
       /\ links[c] = Free
       /\ links' = [links EXCEPT ![c] = r]
       /\ code' = [code EXCEPT ![r] = c]
  /\ Goto(r, IF KeyOf[r] = NoKey THEN "created" ELSE "recording")
  /\ UNCHANGED <<record, attempt, retry, faultVars>>

\* A collision that is retried without counting it.
CollideUncounted(r) ==
  /\ pc[r] = "creating"
  /\ \E c \in Codes : links[c] \in Reqs
  /\ attempt' = [attempt EXCEPT ![r] = 1 - @]
  /\ UNCHANGED <<links, record, pc, code, retry, faultVars>>

\* A retry loop that runs once too often.
CollideOnceMore(r) ==
  /\ pc[r] = "creating"
  /\ \E c \in Codes : links[c] \in Reqs
  /\ attempt' = [attempt EXCEPT ![r] = @ + 1]
  /\ Goto(r, IF attempt[r] > MaxCreateRetries THEN "failed" ELSE "creating")
  /\ UNCHANGED <<links, record, code, retry, faultVars>>

\* The code is taken (ErrCodeExists): another one is tried, maxCreateRetries
\* times in all.
Collide(r) ==
  /\ pc[r] = "creating"
  /\ \E c \in Codes : links[c] \in Reqs
  /\ attempt' = [attempt EXCEPT ![r] = @ + 1]
  /\ Goto(r, IF attempt[r] + 1 < MaxCreateRetries THEN "creating" ELSE "failed")
  /\ UNCHANGED <<links, record, code, retry, faultVars>>

\* The INSERT fails, before or after it took effect; it is not retried.
InsertFails(r) ==
  /\ pc[r] = "creating"
  /\ StoreFault
  /\ \/ UNCHANGED links
     \/ \E c \in Codes : links[c] = Free /\ links' = [links EXCEPT ![c] = r]
  /\ Goto(r, "failed")
  /\ UNCHANGED <<record, code, attempt, retry>>

-----------------------------------------------------------------------------
(***************************************************************************)
(* The key's record.                                                       *)
(***************************************************************************)

\* SET NX wins: the request's own link is the answer.
Record(r) ==
  /\ pc[r] = "recording"
  /\ record[KeyOf[r]] = NoCode
  /\ record' = [record EXCEPT ![KeyOf[r]] = code[r]]
  /\ Goto(r, "created")
  /\ UNCHANGED <<links, code, attempt, retry, faultVars>>

\* A request that does not look whether it won.
RecordLostIgnored(r) ==
  /\ pc[r] = "recording"
  /\ record[KeyOf[r]] # NoCode
  /\ Goto(r, "created")
  /\ UNCHANGED <<links, record, code, attempt, retry, faultVars>>

\* Another request claimed the key first.
RecordLost(r) ==
  /\ pc[r] = "recording"
  /\ record[KeyOf[r]] # NoCode
  /\ Goto(r, "rereading")
  /\ UNCHANGED <<links, record, code, attempt, retry, faultVars>>

\* SET NX fails, before or after it took effect: only logged.
RecordFails(r) ==
  /\ pc[r] = "recording"
  /\ RedisFault
  /\ \/ UNCHANGED record
     \/ record[KeyOf[r]] = NoCode /\ record' = [record EXCEPT ![KeyOf[r]] = code[r]]
  /\ Goto(r, "created")
  /\ UNCHANGED <<links, code, attempt, retry>>

\* The client of Redis retries a SET NX whose answer was lost, and finds its own record
\* there: the request takes itself for the loser.
RecordRetried(r) ==
  /\ pc[r] = "recording"
  /\ RedisFault
  /\ record[KeyOf[r]] = NoCode
  /\ record' = [record EXCEPT ![KeyOf[r]] = code[r]]
  /\ Goto(r, "rereading")
  /\ UNCHANGED <<links, code, attempt, retry>>

\* The winner's code is read back.
Reread(r) ==
  /\ pc[r] = "rereading"
  /\ record[KeyOf[r]] # NoCode
  /\ code' = [code EXCEPT ![r] = record[KeyOf[r]]]
  /\ Goto(r, "replaying")
  /\ UNCHANGED <<links, record, attempt, retry, faultVars>>

\* The record is gone, or the read fails: the request keeps its own link.
RereadMiss(r) ==
  /\ pc[r] = "rereading"
  /\ \/ record[KeyOf[r]] = NoCode /\ UNCHANGED faultVars
     \/ RedisFault
  /\ Goto(r, "created")
  /\ UNCHANGED <<links, record, code, attempt, retry>>

\* respondWithCode: the recorded code is resolved, through the cache, which may
\* still know a link that has been deleted; without one it is a 500.
Replay(r) ==
  /\ pc[r] = "replaying"
  /\ \/ links[code[r]] # Free /\ Goto(r, "created")
     \/ links[code[r]] \notin Reqs /\ Goto(r, "failed")
  /\ UNCHANGED <<links, record, code, attempt, retry, faultVars>>

\* The store does not answer, or the cache holds a tombstone that is older than
\* the link: a 500.
ReplayFails(r) ==
  /\ pc[r] = "replaying"
  /\ StoreFault
  /\ Goto(r, "failed")
  /\ UNCHANGED <<links, record, code, attempt, retry>>

-----------------------------------------------------------------------------
\* A link is deleted; its key's record stays.
DeleteLink(c) ==
  /\ links[c] \in Reqs
  /\ links' = [links EXCEPT ![c] = Deleted]
  /\ UNCHANGED <<record, pc, code, attempt, retry, faultVars>>

\* A record is lost: its time is up, or Redis restarts.
LoseRecord(k) ==
  /\ record[k] # NoCode
  /\ RedisFault
  /\ record' = [record EXCEPT ![k] = NoCode]
  /\ UNCHANGED <<links, pc, code, attempt, retry>>

Step(r) ==
  \/ LookupHit(r) \/ LookupMiss(r) \/ LookupFails(r)
  \/ CreateRefused(r) \/ Insert(r) \/ Collide(r) \/ InsertFails(r)
  \/ Record(r) \/ RecordLost(r) \/ RecordFails(r) \/ RecordRetried(r) \/ Reread(r) \/ RereadMiss(r)
  \/ Replay(r) \/ ReplayFails(r)

Next ==
  \/ \E r \in Reqs : Arrive(r) \/ Step(r)
  \/ \E c \in Codes : DeleteLink(c)
  \/ \E k \in Keys : LoseRecord(k)

Spec == Init /\ [][Next]_vars

\* Fairness: a handler that can go on does.
FairSpec == Spec /\ \A r \in Reqs : WF_vars(Step(r))

-----------------------------------------------------------------------------
\* The variables have their types; the retry loop stays within its bound; a
\* request that goes on after Service.Create holds a code.
TypeOK ==
  /\ links \in [Codes -> Reqs \union {Free, Deleted}]
  /\ record \in [Keys -> Codes \union {NoCode}]
  /\ pc \in [Reqs -> {"idle", "created", "failed"} \union Running]
  /\ code \in [Reqs -> Codes \union {NoCode}]
  /\ \A r \in Reqs : pc[r] \in {"recording", "rereading", "replaying", "created"} => code[r] \in Codes
  /\ \A r \in Reqs : pc[r] \in {"lookup", "recording", "rereading", "replaying"} => KeyOf[r] \in Keys
  /\ attempt \in [Reqs -> 0..MaxCreateRetries]
  /\ \A r \in Reqs : pc[r] \in {"idle", "lookup", "creating"} => attempt[r] < MaxCreateRetries
  /\ retry \in [Reqs -> BOOLEAN]
  /\ storeFaults \in Nat /\ redisFaults \in Nat

\* Is the link of code c the one a request like r made, r itself or another one
\* with its key?
MadeFor(c, r) ==
  \/ links[c] = Deleted
  \/ links[c] = r
  \/ links[c] \in Reqs /\ KeyOf[links[c]] = KeyOf[r] /\ KeyOf[r] # NoKey

\* Nobody is answered with a link that somebody else's request made: whatever
\* collides, races or fails, a 201 names a row the request or one with its key
\* inserted.
AnsweredOwnLink == \A r \in Reqs : pc[r] = "created" => MadeFor(code[r], r)

\* As long as Redis answers and keeps its records, every 201 for a key names
\* the same link, however the requests overlap and whatever the store does
\* ("concurrent retries same result").
SameKeySameLink ==
  redisFaults = 0 =>
    \A r, q \in Reqs :
      /\ pc[r] = "created" /\ pc[q] = "created"
      /\ KeyOf[r] = KeyOf[q] /\ KeyOf[r] # NoKey
      => code[r] = code[q]

\* As long as Redis answers and keeps its records, a request whose key had been
\* answered with a 201 makes no link of its own.
RetryMakesNoLink ==
  redisFaults = 0 => \A r \in Reqs : retry[r] => \A c \in Codes : links[c] # r

\* Every request is answered: collisions, lost races and failures end.
EventuallyAnswered == \A r \in Reqs : pc[r] \in Running ~> pc[r] \in {"created", "failed"}

\* "Sequential retries, the real use case, are exact" (ADR 0009): when a key's
\* requests do not overlap, the key has one link.
OneLinkPerKey ==
  \A c, d \in Codes :
    links[c] \in Reqs /\ links[d] \in Reqs /\ KeyOf[links[c]] = KeyOf[links[d]] /\ KeyOf[links[c]] # NoKey
    => c = d

=============================================================================
