--------------------------- MODULE ClickConsumer ---------------------------
(***************************************************************************)
(* The click pipeline from the topic to Postgres: cmd/analytics/main.go    *)
(* (the consume loop, onAssigned, process) over internal/store/analytics.go *)
(* (InsertClick, SaveOffset, LoadOffset).  The broker and its group        *)
(* coordinator are external and modelled by what the consumer uses of      *)
(* them: an append-only log per partition, an owner per partition, and a   *)
(* fetch position that the client advances when a poll returns records.    *)
(*                                                                         *)
(* Kafka offset o is the record log[p][o + 1].  A transaction is one step: *)
(* its writes are visible only once it commits, and two transactions that  *)
(* touch the same rows are serialised by Postgres's row locks.             *)
(***************************************************************************)
EXTENDS Integers, Sequences, FiniteSets

CONSTANTS
  Consumers,     \* replicas of the analytics process
  Partitions,    \* partitions of the link-clicks topic
  Events,        \* LinkClicked events, each with its own EventID
  Codes,         \* short codes the events are about
  CodeOf,        \* the code each event is about
  PartitionOf,   \* the partition the broker hashes each code to
  NoOwner,       \* what owns a partition that nobody was assigned
  MaxFaults      \* bound on crashes, failed calls and rebalances of a behaviour

ASSUME ConsumerAssumption ==
  /\ CodeOf \in [Events -> Codes]
  /\ PartitionOf \in [Codes -> Partitions]
  /\ NoOwner \notin Consumers
  /\ MaxFaults \in Nat

VARIABLES
  log,       \* the topic: a sequence of events per partition
  rows,      \* click_events: how many rows hold each EventID
  offsets,   \* kafka_offsets: the offset saved per partition, 0 = no row
  live,      \* the consumer processes that are running
  owner,     \* the coordinator's assignment of partitions
  fetchPos,  \* per client and partition, the offset it fetches from next
  next,      \* per client and partition, the polled record it processes next
  end,       \* per client and partition, the end of the polled batch
  poison,    \* the events on the topic whose payload does not unmarshal
  dropped,   \* has a poll returned records along with an error?
  faults     \* faults so far

vars == <<log, rows, offsets, live, owner, fetchPos, next, end, poison, dropped, faults>>
clientVars == <<live, owner, fetchPos, next, end>>
topicVars == <<log, poison>>

\* A partition the client does not consume has no fetch position.
NotAssigned == -1

\* The partition an event is produced to: records are keyed by Code.
PartitionOfEvent(e) == PartitionOf[CodeOf[e]]

Logged(e) == \E i \in 1..Len(log[PartitionOfEvent(e)]) : log[PartitionOfEvent(e)][i] = e

\* The batch of the last poll is being processed.
Draining(c) == \E p \in Partitions : next[c][p] < end[c][p]

(***************************************************************************)
(* Steps that are not the system's normal progress spend the fault budget. *)
(***************************************************************************)
Fault == faults < MaxFaults /\ faults' = faults + 1

Init ==
  /\ log = [p \in Partitions |-> <<>>]
  /\ rows = [e \in Events |-> 0]
  /\ offsets = [p \in Partitions |-> 0]
  /\ live = {}
  /\ owner = [p \in Partitions |-> NoOwner]
  /\ fetchPos = [c \in Consumers |-> [p \in Partitions |-> NotAssigned]]
  /\ next = [c \in Consumers |-> [p \in Partitions |-> 0]]
  /\ end = [c \in Consumers |-> [p \in Partitions |-> 0]]
  /\ poison = {}
  /\ dropped = FALSE
  /\ faults = 0

-----------------------------------------------------------------------------
(***************************************************************************)
(* The API side.                                                           *)
(***************************************************************************)

\* The broker appends a record to the partition of its key.
Produce(e) ==
  /\ ~Logged(e)
  /\ log' = [log EXCEPT ![PartitionOfEvent(e)] = Append(@, e)]
  /\ UNCHANGED <<rows, offsets, clientVars, dropped>>

\* Publish: a publish that fails is logged and dropped by redirect, no step at
\* all.
Publish(e) == Produce(e) /\ UNCHANGED <<poison, faults>>

\* A record whose value does not unmarshal gets onto the topic.
PublishMalformed(e) == Produce(e) /\ Fault /\ poison' = poison \union {e}

-----------------------------------------------------------------------------
(***************************************************************************)
(* The statements of the store.                                            *)
(***************************************************************************)

\* InsertClick without ON CONFLICT DO NOTHING.
InsertClickAlways(e) == [rows EXCEPT ![e] = @ + 1]

\* INSERT ... ON CONFLICT (event_id) DO NOTHING.
InsertClick(e) == IF rows[e] = 0 THEN [rows EXCEPT ![e] = 1] ELSE rows

\* SaveOffset that stores one offset too many.
SaveOffsetPast(p, offset) == [offsets EXCEPT ![p] = offset + 1]

\* SaveOffset: an unconditional upsert of the partition's row.
SaveOffset(p, offset) == [offsets EXCEPT ![p] = offset]

\* LoadOffset that reads the row of some partition of the topic.
LoadOffsetAnyPartition(p) == offsets[CHOOSE q \in Partitions : \A r \in Partitions : offsets[q] >= offsets[r]]

\* LoadOffset: the saved offset; with no row found is false, and the client
\* falls back to ConsumeResetOffset(AtStart), which is offset 0.
LoadOffset(p) == offsets[p]

-----------------------------------------------------------------------------
(***************************************************************************)
(* The life of a consumer process.                                         *)
(***************************************************************************)

\* The process starts and joins the group; it has no partition yet.
Start(c) ==
  /\ c \notin live
  /\ live' = live \union {c}
  /\ UNCHANGED <<topicVars, rows, offsets, owner, fetchPos, next, end, dropped, faults>>

\* The process is gone and with it everything the client kept; its partitions
\* are orphaned (LeaveGroup, or the end of its session).
Exit(c) ==
  /\ live' = live \ {c}
  /\ owner' = [p \in Partitions |-> IF owner[p] = c THEN NoOwner ELSE owner[p]]
  /\ fetchPos' = [fetchPos EXCEPT ![c] = [p \in Partitions |-> NotAssigned]]
  /\ next' = [next EXCEPT ![c] = [p \in Partitions |-> 0]]
  /\ end' = [end EXCEPT ![c] = [p \in Partitions |-> 0]]

\* kill -9 or a lost node, at any point; an open transaction rolls back.
Crash(c) ==
  /\ c \in live
  /\ Fault
  /\ Exit(c)
  /\ UNCHANGED <<topicVars, rows, offsets, dropped>>

\* SIGTERM: the loop breaks after PollFetches, so the batch has been drained.
\* What that last poll may have returned is dropped with the process.
Shutdown(c) ==
  /\ c \in live
  /\ ~Draining(c)
  /\ Fault
  /\ Exit(c)
  /\ UNCHANGED <<topicVars, rows, offsets, dropped>>

-----------------------------------------------------------------------------
(***************************************************************************)
(* Rebalances.  The client has no OnPartitionsRevoked callback and does    *)
(* not block rebalances while it processes: a partition may be assigned to *)
(* another client while the former owner still drains, or polls, it.       *)
(***************************************************************************)

\* onAssigned with partition p assigned to c and the client's position for it.
AssignAt(c, p, offset) ==
  /\ c \in live
  /\ owner[p] # c
  /\ owner' = [owner EXCEPT ![p] = c]
  /\ fetchPos' = [fetchPos EXCEPT ![c][p] = offset]
  /\ UNCHANGED <<topicVars, rows, offsets, live, next, end, dropped>>

\* An orphaned partition is assigned and its offset is loaded from Postgres.
OnAssigned(c, p) ==
  /\ owner[p] \notin live
  /\ AssignAt(c, p, LoadOffset(p))
  /\ UNCHANGED faults

\* The same for a partition taken from a client that is still running.
OnReassigned(c, p) ==
  /\ owner[p] \in live
  /\ Fault
  /\ AssignAt(c, p, LoadOffset(p))

\* LoadOffset fails: logged, and the client falls back to AtStart.
OnAssignedLoadFails(c, p) ==
  /\ Fault
  /\ AssignAt(c, p, 0)

\* The former owner learns that it lost p and stops fetching it.  Records it
\* has already polled stay in the batch and are processed all the same.
Revoked(c, p) ==
  /\ owner[p] # c
  /\ fetchPos[c][p] # NotAssigned
  /\ fetchPos' = [fetchPos EXCEPT ![c][p] = NotAssigned]
  /\ UNCHANGED <<topicVars, rows, offsets, live, owner, next, end, dropped, faults>>

-----------------------------------------------------------------------------
(***************************************************************************)
(* The consume loop.                                                       *)
(***************************************************************************)

\* What a poll may return: for each consumed partition the records from the
\* client's position up to some upTo[p], and at least one record in all.
Fetchable(c, upTo) ==
  /\ c \in live
  /\ ~Draining(c)
  /\ \A p \in Partitions :
       IF fetchPos[c][p] = NotAssigned
       THEN upTo[p] = NotAssigned
       ELSE upTo[p] \in fetchPos[c][p]..Len(log[p])
  /\ upTo # fetchPos[c]

PollResults == [Partitions -> NotAssigned..Cardinality(Events)]

\* PollFetches without an error: the records become the batch.
PollFetches(c) ==
  \E upTo \in PollResults :
    /\ Fetchable(c, upTo)
    /\ fetchPos' = [fetchPos EXCEPT ![c] = upTo]
    /\ next' = [next EXCEPT ![c] =
                  [p \in Partitions |-> IF upTo[p] = NotAssigned THEN 0 ELSE fetchPos[c][p]]]
    /\ end' = [end EXCEPT ![c] =
                 [p \in Partitions |-> IF upTo[p] = NotAssigned THEN 0 ELSE upTo[p]]]
    /\ UNCHANGED <<topicVars, rows, offsets, live, owner, dropped, faults>>

\* fetches.Errors() is not empty: the loop logs and continues, and whatever
\* records the same poll returned are never processed, although the client's
\* position is past them.  (An error without records changes nothing.)
PollError(c) ==
  /\ Fault
  /\ \E upTo \in PollResults :
       /\ Fetchable(c, upTo)
       /\ fetchPos' = [fetchPos EXCEPT ![c] = upTo]
  /\ dropped' = TRUE
  /\ UNCHANGED <<topicVars, rows, offsets, live, owner, next, end>>

\* The record that c processes next on p.
Rec(c, p) == log[p][next[c][p] + 1]

\* The transaction of process: the click and rec.Offset + 1 commit together.
CommitTx(c, p) ==
  /\ c \in live
  /\ next[c][p] < end[c][p]
  /\ Rec(c, p) \notin poison
  /\ rows' = InsertClick(Rec(c, p))
  /\ offsets' = SaveOffset(p, next[c][p] + 1)
  /\ UNCHANGED <<topicVars, dropped>>

\* process that commits the offset and not the click.
ProcessOffsetOnly(c, p) ==
  /\ c \in live
  /\ next[c][p] < end[c][p]
  /\ offsets' = SaveOffset(p, next[c][p] + 1)
  /\ next' = [next EXCEPT ![c][p] = @ + 1]
  /\ UNCHANGED <<topicVars, rows, live, owner, fetchPos, end, dropped, faults>>

\* process that logs a failed transaction and goes on with the next record.
ProcessSkipsFailed(c, p) ==
  /\ c \in live
  /\ next[c][p] < end[c][p]
  /\ \/ CommitTx(c, p)
     \/ UNCHANGED <<topicVars, rows, offsets, dropped>>
  /\ next' = [next EXCEPT ![c][p] = @ + 1]
  /\ UNCHANGED <<live, owner, fetchPos, end, faults>>

\* process commits and the loop goes on with the next record.
Process(c, p) ==
  /\ CommitTx(c, p)
  /\ next' = [next EXCEPT ![c][p] = @ + 1]
  /\ UNCHANGED <<live, owner, fetchPos, end, faults>>

\* process fails before its commit: nothing is written and os.Exit(1).
ProcessFails(c, p) ==
  /\ c \in live
  /\ next[c][p] < end[c][p]
  /\ Fault
  /\ Exit(c)
  /\ UNCHANGED <<topicVars, rows, offsets, dropped>>

\* The transaction committed but the answer was lost: process returns an
\* error all the same and os.Exit(1).
ProcessAckLost(c, p) ==
  /\ CommitTx(c, p)
  /\ Fault
  /\ Exit(c)

\* A poison pill: json.Unmarshal fails and os.Exit(1), on every attempt.
ProcessPoison(c, p) ==
  /\ c \in live
  /\ next[c][p] < end[c][p]
  /\ Rec(c, p) \in poison
  /\ Exit(c)
  /\ UNCHANGED <<topicVars, rows, offsets, dropped, faults>>

Next ==
  \/ \E e \in Events : Publish(e) \/ PublishMalformed(e)
  \/ \E c \in Consumers :
       \/ Start(c) \/ Crash(c) \/ Shutdown(c)
       \/ PollFetches(c) \/ PollError(c)
       \/ \E p \in Partitions :
            \/ OnAssigned(c, p) \/ OnReassigned(c, p)
            \/ OnAssignedLoadFails(c, p) \/ Revoked(c, p)
            \/ Process(c, p) \/ ProcessFails(c, p)
            \/ ProcessAckLost(c, p) \/ ProcessPoison(c, p)

Spec == Init /\ [][Next]_vars

(***************************************************************************)
(* Fairness: the deployment restarts a consumer that exited, the group     *)
(* coordinator assigns orphaned partitions and tells former owners, and a  *)
(* running process takes its next step.  Publishing is up to the users,    *)
(* and faults are never required.                                          *)
(***************************************************************************)
Fairness ==
  /\ \A c \in Consumers :
       /\ WF_vars(Start(c) \/ PollFetches(c) \/ \E p \in Partitions : Process(c, p))
       /\ WF_vars(\E p \in Partitions : Revoked(c, p))
  /\ \A p \in Partitions : WF_vars(\E c \in Consumers : OnAssigned(c, p))

FairSpec == Spec /\ Fairness

-----------------------------------------------------------------------------
(***************************************************************************)
(* Properties.                                                             *)
(***************************************************************************)

\* The variables have their types: in particular a fetch position, a batch
\* and a saved offset never point past the end of the partition's log.
TypeOK ==
  /\ log \in [Partitions -> Seq(Events)]
  /\ rows \in [Events -> Nat]
  /\ offsets \in [Partitions -> Nat]
  /\ live \subseteq Consumers
  /\ owner \in [Partitions -> Consumers \union {NoOwner}]
  /\ fetchPos \in [Consumers -> [Partitions -> Int]]
  /\ next \in [Consumers -> [Partitions -> Nat]]
  /\ end \in [Consumers -> [Partitions -> Nat]]
  /\ poison \subseteq Events
  /\ dropped \in BOOLEAN
  /\ faults \in Nat
  /\ \A p \in Partitions :
       /\ offsets[p] <= Len(log[p])
       /\ \A c \in Consumers :
            /\ fetchPos[c][p] \in NotAssigned..Len(log[p])
            /\ next[c][p] <= end[c][p]
            /\ end[c][p] <= Len(log[p])

\* The first n records of partition p are in click_events, once each.
Covered(p, n) == \A i \in 1..n : rows[log[p][i]] = 1

\* Nothing is skipped: once Postgres says that a partition was consumed up
\* to an offset, every record below it is recorded, exactly once.  This is the
\* comment at the os.Exit of the loop: "Never advance past a record that
\* failed to write, or that click is lost forever".
NothingEverSkipped == \A p \in Partitions : Covered(p, offsets[p])

\* The same, as long as no poll has returned an error along with records: it
\* survives crashes, lost commit answers, failed LoadOffsets, poison pills and
\* overlapping owners of a partition.
NothingSkipped == ~dropped => NothingEverSkipped

\* Per-link order: the recorded clicks of a partition are a prefix of its log,
\* so a later click on a link is never counted while an earlier one is not
\* (Publish keys records by Code to preserve per-link order).
RecordedInOrder ==
  \A p \in Partitions : \A i \in 1..Len(log[p]) : \A j \in 1..i :
    rows[log[p][i]] > 0 => rows[log[p][j]] > 0

\* The same, as long as no poll has returned an error along with records.
RecordedIsPrefix == ~dropped => RecordedInOrder

\* However often a record is redelivered, its EventID has at most one row, and
\* only events that reached the topic, and are not malformed, have one.
CountedAtMostOnce == \A e \in Events : rows[e] <= (IF Logged(e) /\ e \notin poison THEN 1 ELSE 0)

\* The pipeline implements the ledger: every step of the consumers is a
\* counting of the next uncounted click of a partition, or invisible, until a
\* poll drops records.
Ledger == INSTANCE ClickLedger WITH tally <- rows
LedgerRefined == Ledger!LedgerInit /\ [][dropped' \/ Ledger!LedgerNext]_(Ledger!ledgerVars)

\* A malformed record is at or before e on its partition, or on another
\* partition: its consumer exits over and over, and may exit before it gets to
\* the records of another partition in the same batch.
Blocked(e) ==
  \E m \in poison :
    \/ PartitionOfEvent(m) # PartitionOfEvent(e)
    \/ LET records == log[PartitionOfEvent(e)]
       IN \E i \in 1..Len(records) : \E j \in 1..i : records[i] = e /\ records[j] = m

\* Every click that reached the topic is eventually counted: no interleaving
\* of restarts, rebalances and replays leaves a record behind for good, and a
\* poison pill does not take the clicks before it along.
EventuallyCounted ==
  <>[](\A e \in Events : Logged(e) => rows[e] = 1 \/ Blocked(e) \/ dropped)

=============================================================================
