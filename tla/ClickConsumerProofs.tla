------------------------ MODULE ClickConsumerProofs ------------------------
(***************************************************************************)
(* Proofs about ClickConsumer and ClickStats for any number of consumers,  *)
(* partitions, events and faults: the type invariant, at-most-once         *)
(* counting, and, until a poll returns records along with an error, that   *)
(* nothing is skipped, that clicks are recorded in log order, that the     *)
(* total a user reads is exact, and that the pipeline implements           *)
(* ClickLedger.                                                            *)
(***************************************************************************)
EXTENDS ClickStats, FiniteSetTheorems, TLAPS

\* Appending an event keeps every earlier record in its place.
LEMMA PublishAppends ==
  ASSUME TypeOK, NEW e \in Events, Produce(e)
  PROVE  /\ PartitionOfEvent(e) \in Partitions
         /\ log' \in [Partitions -> Seq(Events)]
         /\ \A p \in Partitions : p # PartitionOfEvent(e) => log'[p] = log[p]
         /\ LET p == PartitionOfEvent(e)
            IN /\ Len(log'[p]) = Len(log[p]) + 1
               /\ \A i \in 1..Len(log[p]) : log'[p][i] = log[p][i]
               /\ log'[p][Len(log[p]) + 1] = e
  <1> DEFINE q == PartitionOfEvent(e)
  <1>1. q \in Partitions
    BY ConsumerAssumption DEF PartitionOfEvent
  <1>2. log \in [Partitions -> Seq(Events)] /\ log[q] \in Seq(Events)
    BY <1>1 DEF TypeOK
  <1>3. log' = [log EXCEPT ![q] = Append(log[q], e)]
    BY DEF Produce
  <1>4. log'[q] = Append(log[q], e)
    BY <1>1, <1>2, <1>3
  <1> HIDE DEF q
  <1>5. /\ Append(log[q], e) \in Seq(Events)
        /\ Len(Append(log[q], e)) = Len(log[q]) + 1
        /\ \A i \in 1..Len(log[q]) : Append(log[q], e)[i] = log[q][i]
        /\ Append(log[q], e)[Len(log[q]) + 1] = e
    BY <1>2
  <1> QED
    BY <1>1, <1>2, <1>3, <1>4, <1>5 DEF q

\* Exit keeps the types: the client's state is reset and nothing else changes.
LEMMA ExitType ==
  ASSUME TypeOK, NEW c \in Consumers, Exit(c), UNCHANGED <<log, poison, dropped>>,
         rows' \in [Events -> Nat], faults' \in Nat,
         offsets' \in [Partitions -> Nat],
         \A p \in Partitions : offsets'[p] <= Len(log[p])
  PROVE  TypeOK'
  <1>1. live' \subseteq Consumers
    BY DEF TypeOK, Exit
  <1>2. owner' \in [Partitions -> Consumers \union {NoOwner}]
    BY DEF TypeOK, Exit
  <1>3. \A d \in Consumers : \A p \in Partitions :
          /\ fetchPos'[d][p] = IF d = c THEN NotAssigned ELSE fetchPos[d][p]
          /\ next'[d][p] = IF d = c THEN 0 ELSE next[d][p]
          /\ end'[d][p] = IF d = c THEN 0 ELSE end[d][p]
    BY DEF TypeOK, Exit
  <1>4. /\ fetchPos' \in [Consumers -> [Partitions -> Int]]
        /\ next' \in [Consumers -> [Partitions -> Nat]]
        /\ end' \in [Consumers -> [Partitions -> Nat]]
    BY DEF TypeOK, Exit, NotAssigned
  <1>5. \A p \in Partitions : Len(log[p]) \in Nat
    BY DEF TypeOK
  <1>6. \A p \in Partitions : \A d \in Consumers :
          /\ fetchPos'[d][p] \in NotAssigned..Len(log[p])
          /\ next'[d][p] <= end'[d][p]
          /\ end'[d][p] <= Len(log[p])
    <2> SUFFICES ASSUME NEW p \in Partitions, NEW d \in Consumers
                 PROVE  /\ fetchPos'[d][p] \in NotAssigned..Len(log[p])
                        /\ next'[d][p] <= end'[d][p]
                        /\ end'[d][p] <= Len(log[p])
      OBVIOUS
    <2>1. CASE d = c
      BY <1>3, <1>5, <2>1 DEF NotAssigned
    <2>2. CASE d # c
      BY <1>3, <2>2 DEF TypeOK
    <2> QED
      BY <2>1, <2>2
  <1> QED
    BY <1>1, <1>2, <1>4, <1>6 DEF TypeOK

\* A committed transaction writes within the types.
LEMMA CommitType ==
  ASSUME TypeOK, NEW c \in Consumers, NEW p \in Partitions, CommitTx(c, p)
  PROVE  /\ next[c][p] + 1 \in 1..Len(log[p])
         /\ next[c][p] + 1 <= end[c][p]
         /\ Rec(c, p) \in Events
         /\ rows' \in [Events -> Nat]
         /\ offsets' \in [Partitions -> Nat]
         /\ \A q \in Partitions : offsets'[q] <= Len(log[q])
  <1>1. next[c][p] \in Nat /\ end[c][p] \in Nat /\ next[c][p] < end[c][p]
        /\ end[c][p] <= Len(log[p]) /\ Len(log[p]) \in Nat
    BY DEF TypeOK, CommitTx
  <1>2. next[c][p] + 1 \in 1..Len(log[p]) /\ next[c][p] + 1 <= end[c][p]
    BY <1>1
  <1>3. Rec(c, p) \in Events
    BY <1>2 DEF TypeOK, Rec
  <1>4. rows' \in [Events -> Nat]
    BY <1>3 DEF TypeOK, CommitTx, InsertClick
  <1>5. offsets' = [offsets EXCEPT ![p] = next[c][p] + 1]
    BY DEF CommitTx, SaveOffset
  <1>6. offsets' \in [Partitions -> Nat]
    BY <1>1, <1>5 DEF TypeOK
  <1>7. \A q \in Partitions : offsets'[q] <= Len(log[q])
    BY <1>1, <1>2, <1>5 DEF TypeOK
  <1> QED
    BY <1>2, <1>3, <1>4, <1>6, <1>7

\* Assigning a partition at an offset within the log keeps the types.
LEMMA AssignType ==
  ASSUME TypeOK, NEW c \in Consumers, NEW p \in Partitions,
         NEW o \in 0..Len(log[p]), AssignAt(c, p, o), faults' \in Nat
  PROVE  TypeOK'
  <1>1. owner' \in [Partitions -> Consumers \union {NoOwner}]
    BY DEF TypeOK, AssignAt
  <1>2. fetchPos' \in [Consumers -> [Partitions -> Int]]
    BY DEF TypeOK, AssignAt
  <1>3. \A q \in Partitions : \A d \in Consumers :
          fetchPos'[d][q] = IF d = c /\ q = p THEN o ELSE fetchPos[d][q]
    BY DEF TypeOK, AssignAt
  <1>4. \A q \in Partitions : \A d \in Consumers :
          fetchPos'[d][q] \in NotAssigned..Len(log[q])
    <2>1. o \in NotAssigned..Len(log[p])
      BY DEF TypeOK, NotAssigned
    <2>2. \A q \in Partitions : \A d \in Consumers : fetchPos[d][q] \in NotAssigned..Len(log[q])
      BY DEF TypeOK
    <2> QED
      BY <1>3, <2>1, <2>2
  <1> QED
    BY <1>1, <1>2, <1>4 DEF TypeOK, AssignAt, topicVars

\* What a poll leaves: the new position, and the batch between the old and
\* the new one.
LEMMA PollShape ==
  ASSUME TypeOK, NEW c \in Consumers, NEW upTo \in PollResults, Fetchable(c, upTo)
  PROVE  /\ upTo \in [Partitions -> Int]
         /\ \A p \in Partitions :
              /\ upTo[p] \in NotAssigned..Len(log[p])
              /\ upTo[p] = NotAssigned <=> fetchPos[c][p] = NotAssigned
              /\ upTo[p] # NotAssigned =>
                   /\ fetchPos[c][p] \in Nat
                   /\ upTo[p] \in Nat
                   /\ fetchPos[c][p] <= upTo[p]
  <1>1. upTo \in [Partitions -> Int]
    BY DEF PollResults, NotAssigned
  <1>2. \A p \in Partitions : fetchPos[c][p] \in NotAssigned..Len(log[p]) /\ Len(log[p]) \in Nat
    BY DEF TypeOK
  <1> QED
    BY <1>1, <1>2 DEF Fetchable, NotAssigned

\* Every step keeps the types.
LEMMA TypeStep == TypeOK /\ [Next]_vars => TypeOK'
  <1> SUFFICES ASSUME TypeOK, [Next]_vars PROVE TypeOK'
    OBVIOUS
  <1> USE ConsumerAssumption
  <1>1. ASSUME NEW e \in Events, Publish(e) \/ PublishMalformed(e) PROVE TypeOK'
    <2>0. Produce(e) /\ poison' \subseteq Events /\ faults' \in Nat
      BY <1>1 DEF Publish, PublishMalformed, Fault, TypeOK
    <2>1. \A p \in Partitions : Len(log'[p]) \in Nat /\ Len(log[p]) \in Nat /\ Len(log[p]) <= Len(log'[p])
      <3>1. \A p \in Partitions : Len(log[p]) \in Nat
        BY DEF TypeOK
      <3>2. \A p \in Partitions : Len(log'[p]) = Len(log[p]) \/ Len(log'[p]) = Len(log[p]) + 1
        BY <2>0, PublishAppends
      <3> QED
        BY <3>1, <3>2
    <2>2. log' \in [Partitions -> Seq(Events)]
      BY <2>0, PublishAppends
    <2>3. UNCHANGED <<rows, offsets, live, owner, fetchPos, next, end, dropped>>
      BY <2>0 DEF Produce, clientVars
    <2>4. \A p \in Partitions : \A c \in Consumers : fetchPos[c][p] \in NotAssigned..Len(log'[p])
      BY <2>1 DEF TypeOK, NotAssigned
    <2>5. \A p \in Partitions : \A c \in Consumers : end[c][p] <= Len(log'[p])
      BY <2>1 DEF TypeOK
    <2>6. \A p \in Partitions : offsets[p] <= Len(log'[p])
      BY <2>1 DEF TypeOK
    <2> QED
      BY <2>0, <2>2, <2>3, <2>4, <2>5, <2>6 DEF TypeOK
  <1>2. ASSUME NEW c \in Consumers, Start(c) PROVE TypeOK'
    BY <1>2 DEF TypeOK, Start, topicVars
  <1>3. ASSUME NEW c \in Consumers, Crash(c) \/ Shutdown(c) PROVE TypeOK'
    <2>1. Exit(c) /\ UNCHANGED <<log, rows, offsets, poison, dropped>> /\ faults' \in Nat
      BY <1>3 DEF Crash, Shutdown, Fault, TypeOK, topicVars
    <2> QED
      BY <2>1, ExitType DEF TypeOK
  <1>4. ASSUME NEW c \in Consumers, PollFetches(c) PROVE TypeOK'
    <2>1. PICK upTo \in PollResults :
            /\ Fetchable(c, upTo)
            /\ fetchPos' = [fetchPos EXCEPT ![c] = upTo]
            /\ next' = [next EXCEPT ![c] =
                 [p \in Partitions |-> IF upTo[p] = NotAssigned THEN 0 ELSE fetchPos[c][p]]]
            /\ end' = [end EXCEPT ![c] =
                 [p \in Partitions |-> IF upTo[p] = NotAssigned THEN 0 ELSE upTo[p]]]
            /\ UNCHANGED <<log, rows, offsets, live, owner, poison, dropped, faults>>
      BY <1>4 DEF PollFetches, topicVars
    <2>2. upTo \in [Partitions -> Int]
      BY <2>1, PollShape
    <2>3. fetchPos' \in [Consumers -> [Partitions -> Int]]
      BY <2>1, <2>2 DEF TypeOK
    <2>4. /\ [p \in Partitions |-> IF upTo[p] = NotAssigned THEN 0 ELSE fetchPos[c][p]] \in [Partitions -> Nat]
          /\ [p \in Partitions |-> IF upTo[p] = NotAssigned THEN 0 ELSE upTo[p]] \in [Partitions -> Nat]
      BY <2>1, PollShape
    <2>5. next' \in [Consumers -> [Partitions -> Nat]] /\ end' \in [Consumers -> [Partitions -> Nat]]
      BY <2>1, <2>4 DEF TypeOK
    <2>6. ASSUME NEW d \in Consumers, NEW p \in Partitions
          PROVE  /\ fetchPos'[d][p] \in NotAssigned..Len(log[p])
                 /\ next'[d][p] <= end'[d][p]
                 /\ end'[d][p] <= Len(log[p])
      <3>1. CASE d # c
        BY <2>1, <3>1 DEF TypeOK
      <3>2. CASE d = c
        <4>1. /\ fetchPos'[d][p] = upTo[p]
              /\ next'[d][p] = IF upTo[p] = NotAssigned THEN 0 ELSE fetchPos[c][p]
              /\ end'[d][p] = IF upTo[p] = NotAssigned THEN 0 ELSE upTo[p]
          BY <2>1, <3>2 DEF TypeOK
        <4>2. Len(log[p]) \in Nat
          BY DEF TypeOK
        <4> QED
          BY <2>1, <4>1, <4>2, PollShape DEF NotAssigned
      <3> QED
        BY <3>1, <3>2
    <2> QED
      BY <2>1, <2>3, <2>5, <2>6 DEF TypeOK
  <1>5. ASSUME NEW c \in Consumers, PollError(c) PROVE TypeOK'
    <2>1. PICK upTo \in PollResults :
            /\ Fetchable(c, upTo)
            /\ fetchPos' = [fetchPos EXCEPT ![c] = upTo]
      BY <1>5 DEF PollError
    <2>2. UNCHANGED <<log, rows, offsets, live, owner, next, end, poison>> /\ faults' \in Nat /\ dropped'
      BY <1>5 DEF PollError, Fault, TypeOK, topicVars
    <2>3. fetchPos' \in [Consumers -> [Partitions -> Int]]
      BY <2>1, PollShape DEF TypeOK
    <2>4. \A d \in Consumers : \A p \in Partitions : fetchPos'[d][p] \in NotAssigned..Len(log[p])
      BY <2>1, PollShape DEF TypeOK
    <2> QED
      BY <2>2, <2>3, <2>4 DEF TypeOK
  <1>6. ASSUME NEW c \in Consumers, NEW p \in Partitions,
               OnAssigned(c, p) \/ OnReassigned(c, p) \/ OnAssignedLoadFails(c, p)
        PROVE TypeOK'
    <2>1. offsets[p] \in 0..Len(log[p]) /\ 0 \in 0..Len(log[p])
      BY DEF TypeOK
    <2>2. faults' \in Nat
      BY <1>6 DEF OnAssigned, OnReassigned, OnAssignedLoadFails, Fault, TypeOK
    <2>3. AssignAt(c, p, offsets[p]) \/ AssignAt(c, p, 0)
      BY <1>6 DEF OnAssigned, OnReassigned, OnAssignedLoadFails, LoadOffset
    <2> QED
      BY <2>1, <2>2, <2>3, AssignType
  <1>7. ASSUME NEW c \in Consumers, NEW p \in Partitions, Revoked(c, p) PROVE TypeOK'
    <2>1. fetchPos' \in [Consumers -> [Partitions -> Int]]
      BY <1>7 DEF TypeOK, Revoked, NotAssigned
    <2>2. \A d \in Consumers : \A q \in Partitions :
            fetchPos'[d][q] = IF d = c /\ q = p THEN NotAssigned ELSE fetchPos[d][q]
      BY <1>7 DEF TypeOK, Revoked
    <2>3. \A d \in Consumers : \A q \in Partitions : fetchPos'[d][q] \in NotAssigned..Len(log[q])
      <3>1. \A q \in Partitions : NotAssigned \in NotAssigned..Len(log[q])
        BY DEF TypeOK, NotAssigned
      <3>2. \A d \in Consumers : \A q \in Partitions : fetchPos[d][q] \in NotAssigned..Len(log[q])
        BY DEF TypeOK
      <3> QED
        BY <2>2, <3>1, <3>2
    <2> QED
      BY <1>7, <2>1, <2>3 DEF TypeOK, Revoked, topicVars
  <1>8. ASSUME NEW c \in Consumers, NEW p \in Partitions, Process(c, p) PROVE TypeOK'
    <2>1. CommitTx(c, p) /\ UNCHANGED <<log, live, owner, fetchPos, end, poison, dropped, faults>>
      BY <1>8 DEF Process, CommitTx, topicVars
    <2>2. next' = [next EXCEPT ![c][p] = next[c][p] + 1]
      BY <1>8 DEF Process
    <2>3. next' \in [Consumers -> [Partitions -> Nat]]
      BY <2>2 DEF TypeOK
    <2>4. \A d \in Consumers : \A q \in Partitions : next'[d][q] <= end[d][q]
      BY <2>1, <2>2, CommitType DEF TypeOK
    <2> QED
      BY <2>1, <2>3, <2>4, CommitType DEF TypeOK
  <1>9. ASSUME NEW c \in Consumers, NEW p \in Partitions,
               ProcessFails(c, p) \/ ProcessPoison(c, p)
        PROVE TypeOK'
    <2>1. Exit(c) /\ UNCHANGED <<log, rows, offsets, poison, dropped>> /\ faults' \in Nat
      <3>1. CASE ProcessFails(c, p)
        BY <3>1 DEF ProcessFails, Fault, TypeOK, topicVars
      <3>2. CASE ProcessPoison(c, p)
        BY <3>2 DEF ProcessPoison, TypeOK, topicVars
      <3> QED
        BY <1>9, <3>1, <3>2
    <2> QED
      BY <2>1, ExitType DEF TypeOK
  <1>10. ASSUME NEW c \in Consumers, NEW p \in Partitions, ProcessAckLost(c, p) PROVE TypeOK'
    <2>1. CommitTx(c, p) /\ Exit(c) /\ UNCHANGED <<log, poison, dropped>> /\ faults' \in Nat
      BY <1>10 DEF ProcessAckLost, CommitTx, Fault, TypeOK, topicVars
    <2> QED
      BY <2>1, CommitType, ExitType
  <1>11. CASE UNCHANGED vars
    BY <1>11 DEF TypeOK, vars
  <1> QED
    BY <1>1, <1>2, <1>3, <1>4, <1>5, <1>6, <1>7, <1>8, <1>9, <1>10, <1>11 DEF Next

LEMMA TypeInit == Init => TypeOK
  <1> SUFFICES ASSUME Init PROVE TypeOK
    OBVIOUS
  <1>1. dropped \in BOOLEAN
    BY Zenon DEF Init
  <1> QED
    BY <1>1, ConsumerAssumption DEF Init, TypeOK, NotAssigned

\* Every behaviour of the consumers keeps the type invariant: positions,
\* batches and saved offsets stay within the log whatever crashes, fails or
\* is reassigned.
THEOREM TypeCorrect == Spec => []TypeOK
  BY TypeInit, TypeStep, PTL DEF Spec

-----------------------------------------------------------------------------
(***************************************************************************)
(* The inductive invariant.                                                *)
(***************************************************************************)

\* Every record is on the partition of its key, and no event is there twice.
LogWellFormed ==
  \A p \in Partitions : \A i \in 1..Len(log[p]) :
    /\ PartitionOfEvent(log[p][i]) = p
    /\ \A j \in 1..Len(log[p]) : log[p][i] = log[p][j] => i = j

\* The position and the batch of every client, a former owner's included, are
\* behind no gap: what is below the record it processes next is recorded, and
\* what is below its fetch position is recorded or still in its batch.
ClientsCovered ==
  \A c \in Consumers : \A p \in Partitions :
    /\ Covered(p, next[c][p])
    /\ fetchPos[c][p] # NotAssigned =>
         \/ Covered(p, fetchPos[c][p])
         \/ next[c][p] < end[c][p] /\ fetchPos[c][p] = end[c][p]

CountInv == TypeOK /\ LogWellFormed /\ CountedAtMostOnce

Gapless == CountInv /\ NothingEverSkipped /\ RecordedInOrder /\ ClientsCovered

\* The counts are right in any case, and the rest holds until a poll drops
\* records.
IInv == CountInv /\ (~dropped => Gapless)

\* A step of Next other than Publish leaves the log alone, and writes rows
\* only by the commit of a transaction.
LEMMA StepKinds ==
  ASSUME Next
  PROVE  \/ \E e \in Events : Publish(e) \/ PublishMalformed(e)
         \/ \E c \in Consumers : \E p \in Partitions : CommitTx(c, p)
         \/ UNCHANGED <<log, rows, poison>>
  BY DEF Next, topicVars, Start, Crash, Shutdown, PollFetches, PollError, OnAssigned, OnReassigned,
         OnAssignedLoadFails, AssignAt, Revoked, Process, ProcessFails, ProcessAckLost,
         ProcessPoison

\* What a commit does to the rows.
LEMMA CommitRows ==
  ASSUME TypeOK, CountedAtMostOnce, NEW c \in Consumers, NEW p \in Partitions, CommitTx(c, p)
  PROVE  /\ next[c][p] + 1 \in 1..Len(log[p])
         /\ log' = log
         /\ \A e \in Events : rows[e] \in {0, 1}
         /\ rows' = [rows EXCEPT ![log[p][next[c][p] + 1]] = 1]
         /\ log[p][next[c][p] + 1] \in Events
  <1>1. next[c][p] + 1 \in 1..Len(log[p]) /\ Rec(c, p) \in Events
    BY CommitType
  <1>2. ASSUME NEW e \in Events PROVE rows[e] \in {0, 1}
    <2>1. rows[e] \in Nat
      BY DEF TypeOK
    <2>2. CASE Logged(e) /\ e \notin poison
      BY <2>1, <2>2 DEF CountedAtMostOnce
    <2>3. CASE ~(Logged(e) /\ e \notin poison)
      BY <2>1, <2>3 DEF CountedAtMostOnce
    <2> QED
      BY <2>2, <2>3
  <1>3. rows' = [rows EXCEPT ![Rec(c, p)] = 1]
    <2>1. rows \in [Events -> Nat] /\ rows' = InsertClick(Rec(c, p))
      BY DEF TypeOK, CommitTx
    <2>2. CASE rows[Rec(c, p)] = 0
      BY <2>1, <2>2 DEF InsertClick
    <2>3. CASE rows[Rec(c, p)] = 1
      <3>1. rows' = rows
        BY <2>1, <2>3 DEF InsertClick
      <3> QED
        BY <1>1, <2>1, <2>3, <3>1
    <2> QED
      BY <1>1, <1>2, <2>2, <2>3
  <1> QED
    BY <1>1, <1>2, <1>3 DEF CommitTx, Rec, topicVars

\* A published event stays published, and a new one is on its own partition.
LEMMA CountStep == CountInv /\ [Next]_vars => CountInv'
  <1> SUFFICES ASSUME CountInv, [Next]_vars PROVE CountInv'
    OBVIOUS
  <1>t. TypeOK /\ TypeOK'
    BY TypeStep DEF CountInv
  <1>1. ASSUME NEW e \in Events, Publish(e) \/ PublishMalformed(e) PROVE CountInv'
    <2> DEFINE q == PartitionOfEvent(e)
    <2>0. Produce(e) /\ ~Logged(e) /\ (poison' = poison \/ poison' = poison \union {e})
      BY <1>1 DEF Publish, PublishMalformed, Produce
    <2>1. q \in Partitions /\ UNCHANGED rows
      BY <2>0, <1>t, PublishAppends DEF Produce
    <2>2. /\ \A p \in Partitions : p # q => log'[p] = log[p]
          /\ Len(log'[q]) = Len(log[q]) + 1
          /\ \A i \in 1..Len(log[q]) : log'[q][i] = log[q][i]
          /\ log'[q][Len(log[q]) + 1] = e
          /\ Len(log[q]) \in Nat
      BY <2>0, <1>t, <2>1, PublishAppends, SMTT(20) DEF TypeOK
    <2>3. \A i \in 1..Len(log[q]) : log[q][i] # e
      BY <2>0 DEF Logged
    <2> HIDE DEF q
    <2>4. LogWellFormed'
      <3> SUFFICES ASSUME NEW p \in Partitions, NEW i \in 1..Len(log'[p])
                   PROVE  /\ PartitionOfEvent(log'[p][i]) = p
                          /\ \A j \in 1..Len(log'[p]) : log'[p][i] = log'[p][j] => i = j
        BY DEF LogWellFormed, PartitionOfEvent
      <3>1. CASE p # q
        BY <2>2, <3>1 DEF CountInv, LogWellFormed
      <3>2. CASE p = q
        <4>1. \A k \in 1..Len(log'[q]) : k \in 1..Len(log[q]) \/ k = Len(log[q]) + 1
          BY <2>2
        <4>2. \A k \in 1..Len(log[q]) :
                /\ PartitionOfEvent(log[q][k]) = q
                /\ \A j \in 1..Len(log[q]) : log[q][k] = log[q][j] => k = j
          BY <2>1 DEF CountInv, LogWellFormed
        <4>3. PartitionOfEvent(e) = q
          BY DEF q
        <4> QED
          BY <2>2, <2>3, <3>2, <4>1, <4>2, <4>3
      <3> QED
        BY <3>1, <3>2
    <2>5. CountedAtMostOnce'
      <3> SUFFICES ASSUME NEW f \in Events PROVE rows[f] <= (IF Logged(f)' /\ f \notin poison' THEN 1 ELSE 0)
        BY <2>1 DEF CountedAtMostOnce
      <3>1. PartitionOfEvent(f) \in Partitions
        BY ConsumerAssumption DEF PartitionOfEvent
      <3>2. Logged(f) => Logged(f)'
        <4>1. CASE PartitionOfEvent(f) # q
          BY <2>2, <3>1, <4>1 DEF Logged, PartitionOfEvent
        <4>2. CASE PartitionOfEvent(f) = q
          <5>1. \A i \in 1..Len(log[q]) : i \in 1..Len(log'[q])
            BY <2>2
          <5> QED
            BY <2>2, <4>2, <5>1 DEF Logged, PartitionOfEvent
        <4> QED
          BY <4>1, <4>2
      <3>3. CASE f \in poison' \ poison
        <4>1. f = e /\ ~Logged(f)
          BY <2>0, <3>3
        <4>2. rows[f] <= 0
          BY <4>1 DEF CountInv, CountedAtMostOnce
        <4> QED
          BY <3>3, <4>2
      <3>4. CASE f \notin poison' \ poison
        <4>1. Logged(f) /\ f \notin poison => Logged(f)' /\ f \notin poison'
          BY <3>2, <3>4
        <4>2. rows[f] \in Nat /\ rows[f] <= (IF Logged(f) /\ f \notin poison THEN 1 ELSE 0)
          BY <1>t DEF CountInv, CountedAtMostOnce, TypeOK
        <4> QED
          BY <4>1, <4>2
      <3> QED
        BY <3>3, <3>4
    <2> QED
      BY <1>t, <2>4, <2>5 DEF CountInv
  <1>2. ASSUME NEW c \in Consumers, NEW p \in Partitions, CommitTx(c, p) PROVE CountInv'
    <2> DEFINE e == log[p][next[c][p] + 1]
    <2>1. /\ log' = log
          /\ rows' = [rows EXCEPT ![e] = 1]
          /\ e \in Events /\ e \notin poison /\ poison' = poison
          /\ next[c][p] + 1 \in 1..Len(log[p])
      BY <1>2, <1>t, CommitRows DEF CountInv, CommitTx, Rec, topicVars
    <2>2. LogWellFormed'
      BY <2>1 DEF CountInv, LogWellFormed, PartitionOfEvent
    <2>3. Logged(e)
      BY <2>1 DEF CountInv, LogWellFormed, Logged
    <2>4. \A f \in Events : Logged(f)' <=> Logged(f)
      BY <2>1 DEF Logged, PartitionOfEvent
    <2> HIDE DEF e
    <2>5. CountedAtMostOnce'
      BY <1>t, <2>1, <2>3, <2>4, SMTT(20) DEF CountInv, CountedAtMostOnce, TypeOK
    <2> QED
      BY <1>t, <2>2, <2>5 DEF CountInv
  <1>3. ASSUME UNCHANGED <<log, rows, poison>> PROVE CountInv'
    <2>1. LogWellFormed'
      BY <1>3 DEF CountInv, LogWellFormed, PartitionOfEvent
    <2>2. CountedAtMostOnce'
      BY <1>3 DEF CountInv, CountedAtMostOnce, Logged, PartitionOfEvent
    <2> QED
      BY <1>t, <2>1, <2>2 DEF CountInv
  <1> QED
    BY <1>1, <1>2, <1>3, StepKinds DEF vars

\* Every event has at most one row, and only events that reached the topic
\* have one, for every interleaving of the consumers and with mixed polls.
THEOREM AtMostOnce == Spec => []CountedAtMostOnce
  <1>1. Init => CountInv
    <2>1. Init => TypeOK
      BY TypeInit
    <2>2. Init => LogWellFormed
      BY DEF Init, LogWellFormed
    <2>3. Init => CountedAtMostOnce
      BY ConsumerAssumption DEF Init, CountedAtMostOnce, Logged, PartitionOfEvent
    <2> QED
      BY <2>1, <2>2, <2>3 DEF CountInv
  <1>2. CountInv => CountedAtMostOnce
    BY DEF CountInv
  <1> QED
    BY <1>1, <1>2, CountStep, PTL DEF Spec

-----------------------------------------------------------------------------
(***************************************************************************)
(* No loss, until a poll returns records along with an error.              *)
(***************************************************************************)

\* The first n records are recorded after the step.
CoveredAfter(p, n) == \A i \in 1..n : rows'[log'[p][i]] = 1

\* A step keeps what was recorded, and the log only grows.
LEMMA Monotone ==
  ASSUME CountInv, [Next]_vars
  PROVE  /\ \A e \in Events : rows[e] = 1 => rows'[e] = 1
         /\ \A p \in Partitions : \A i \in 1..Len(log[p]) : log'[p][i] = log[p][i]
  <1>1. ASSUME NEW e \in Events, Produce(e)
        PROVE  rows' = rows /\ \A p \in Partitions : \A i \in 1..Len(log[p]) : log'[p][i] = log[p][i]
    BY <1>1, PublishAppends DEF CountInv, Produce
  <1>2. ASSUME NEW c \in Consumers, NEW p \in Partitions, CommitTx(c, p)
        PROVE  log' = log /\ \A e \in Events : rows[e] = 1 => rows'[e] = 1
    BY <1>2, CommitRows DEF CountInv, TypeOK
  <1> QED
    BY <1>1, <1>2, StepKinds DEF vars, Publish, PublishMalformed

\* Recorded records stay recorded and keep their place.
LEMMA CoveredGrows ==
  ASSUME CountInv, [Next]_vars, NEW p \in Partitions
  PROVE  \A n \in 0..Len(log[p]) : Covered(p, n) => CoveredAfter(p, n)
  <1> SUFFICES ASSUME NEW n \in 0..Len(log[p]), Covered(p, n), NEW i \in 1..n
               PROVE  rows'[log'[p][i]] = 1
    BY DEF CoveredAfter
  <1>1. i \in 1..Len(log[p]) /\ log[p] \in Seq(Events)
    BY DEF CountInv, TypeOK
  <1>2. log[p][i] \in Events
    BY <1>1
  <1> QED
    BY <1>1, <1>2, Monotone DEF Covered

\* A commit of a client whose batch is behind no gap records the next record
\* of the partition.
LEMMA CommitCovers ==
  ASSUME Gapless, NEW c \in Consumers, NEW p \in Partitions, CommitTx(c, p)
  PROVE  CoveredAfter(p, next[c][p] + 1)
  <1> DEFINE n == next[c][p]
  <1>1. /\ n \in Nat /\ n + 1 \in 1..Len(log[p]) /\ log' = log
        /\ rows' = [rows EXCEPT ![log[p][n + 1]] = 1] /\ log[p][n + 1] \in Events
        /\ rows \in [Events -> Nat] /\ log[p] \in Seq(Events)
    BY CommitRows DEF Gapless, CountInv, TypeOK
  <1>2. \A i \in 1..n : rows[log[p][i]] = 1
    BY DEF Gapless, ClientsCovered, Covered
  <1> HIDE DEF n
  <1>3. ASSUME NEW i \in 1..(n + 1) PROVE rows'[log[p][i]] = 1
    <2>1. log[p][i] \in Events
      BY <1>1
    <2>2. i = n + 1 \/ i \in 1..n
      BY <1>1
    <2> QED
      BY <1>1, <1>2, <2>1, <2>2
  <1>4. \A i \in 1..(n + 1) : rows'[log'[p][i]] = 1
    BY <1>1, <1>3
  <1> QED
    BY <1>4 DEF n, CoveredAfter

\* Saved offsets stay behind no gap.
LEMMA SkipStep ==
  ASSUME Gapless, [Next]_vars
  PROVE  NothingEverSkipped'
  <1> SUFFICES ASSUME NEW p \in Partitions PROVE CoveredAfter(p, offsets'[p])
    BY DEF NothingEverSkipped, Covered, CoveredAfter
  <1>1. offsets[p] \in 0..Len(log[p]) /\ Covered(p, offsets[p])
    BY DEF Gapless, CountInv, TypeOK, NothingEverSkipped
  <1>2. CoveredAfter(p, offsets[p])
    BY <1>1, CoveredGrows DEF Gapless
  <1>3. ASSUME NEW c \in Consumers, NEW q \in Partitions, CommitTx(c, q)
        PROVE  CoveredAfter(p, offsets'[p])
    <2>1. offsets' = [offsets EXCEPT ![q] = next[c][q] + 1] /\ offsets \in [Partitions -> Nat]
      BY <1>3 DEF CommitTx, SaveOffset, Gapless, CountInv, TypeOK
    <2>2. CASE p = q
      BY <1>3, <2>1, <2>2, CommitCovers
    <2>3. CASE p # q
      BY <1>2, <2>1, <2>3
    <2> QED
      BY <2>2, <2>3
  <1>4. \/ UNCHANGED offsets
        \/ \E c \in Consumers : \E q \in Partitions : CommitTx(c, q)
    BY DEF Next, vars, clientVars, topicVars, Publish, PublishMalformed, Produce, Start, Crash, Shutdown, PollFetches, PollError,
           OnAssigned, OnReassigned, OnAssignedLoadFails, AssignAt, Revoked, Process,
           ProcessFails, ProcessAckLost, ProcessPoison
  <1> QED
    BY <1>2, <1>3, <1>4

\* Clicks stay recorded in log order.
LEMMA PrefixStep ==
  ASSUME Gapless, [Next]_vars
  PROVE  RecordedInOrder'
  <1>t. TypeOK /\ TypeOK' /\ CountInv /\ CountInv'
    BY CountStep DEF Gapless, CountInv
  <1> SUFFICES ASSUME NEW p \in Partitions, NEW i \in 1..Len(log'[p]), NEW j \in 1..i,
                      rows'[log'[p][i]] > 0
               PROVE  rows'[log'[p][j]] > 0
    BY DEF RecordedInOrder
  <1>1. log'[p] \in Seq(Events) /\ Len(log'[p]) \in Nat /\ Len(log[p]) \in Nat /\ log[p] \in Seq(Events)
    BY <1>t DEF TypeOK
  <1>2. ASSUME NEW e \in Events, Produce(e) PROVE rows'[log'[p][j]] > 0
    <2>1. UNCHANGED rows /\ rows[e] = 0
      <3>1. ~Logged(e) /\ UNCHANGED rows
        BY <1>2 DEF Produce
      <3>2. rows[e] \in Nat /\ rows[e] <= 0
        BY <1>t, <3>1 DEF TypeOK, CountInv, CountedAtMostOnce
      <3> QED
        BY <3>1, <3>2
    <2>2. i \in 1..Len(log[p])
      BY <1>1, <1>2, <1>t, <2>1, PublishAppends
    <2>3. log'[p][i] = log[p][i] /\ log'[p][j] = log[p][j]
      BY <1>1, <1>2, <1>t, <2>2, Monotone DEF vars
    <2> QED
      BY <2>1, <2>2, <2>3 DEF Gapless, RecordedInOrder
  <1>3. ASSUME NEW c \in Consumers, NEW q \in Partitions, CommitTx(c, q)
        PROVE  rows'[log'[p][j]] > 0
    <2> DEFINE n == next[c][q] + 1
    <2>1. /\ log' = log
          /\ n \in 1..Len(log[q])
          /\ rows' = [rows EXCEPT ![log[q][n]] = 1]
          /\ rows \in [Events -> Nat]
      BY <1>3, <1>t, CommitRows DEF CountInv, TypeOK
    <2>2. log[p][i] \in Events /\ log[p][j] \in Events /\ j \in 1..Len(log[p])
      BY <1>1, <2>1
    <2> HIDE DEF n
    <2>3. CASE log[p][i] # log[q][n]
      <3>1. rows[log[p][i]] > 0
        BY <2>1, <2>2, <2>3
      <3>2. rows[log[p][j]] > 0
        BY <2>1, <3>1 DEF Gapless, RecordedInOrder
      <3> QED
        BY <2>1, <2>2, <3>2
    <2>4. CASE log[p][i] = log[q][n]
      <3>1. p = q /\ i = n
        BY <1>t, <2>1, <2>4 DEF CountInv, LogWellFormed
      <3>2. CoveredAfter(q, n)
        BY <1>3, CommitCovers DEF n
      <3> QED
        BY <3>1, <3>2 DEF CoveredAfter
    <2> QED
      BY <2>3, <2>4
  <1>4. CASE UNCHANGED <<log, rows>>
    BY <1>4 DEF Gapless, RecordedInOrder
  <1> QED
    BY <1>2, <1>3, <1>4, StepKinds DEF vars, Publish, PublishMalformed

\* What ClientsCovered says of one client and partition after the step.
ClientAfter(c, p) ==
  /\ CoveredAfter(p, next'[c][p])
  /\ fetchPos'[c][p] # NotAssigned =>
       \/ CoveredAfter(p, fetchPos'[c][p])
       \/ next'[c][p] < end'[c][p] /\ fetchPos'[c][p] = end'[c][p]

\* A client that the step does not touch stays behind no gap.
LEMMA ClientUntouched ==
  ASSUME Gapless, [Next]_vars, NEW c \in Consumers, NEW p \in Partitions,
         next'[c][p] = next[c][p], end'[c][p] = end[c][p], fetchPos'[c][p] = fetchPos[c][p]
  PROVE  ClientAfter(c, p)
  <1>1. /\ next[c][p] \in 0..Len(log[p])
        /\ fetchPos[c][p] # NotAssigned => fetchPos[c][p] \in 0..Len(log[p])
    <2>1. /\ next[c][p] \in Nat /\ end[c][p] \in Nat /\ next[c][p] <= end[c][p]
          /\ end[c][p] <= Len(log[p]) /\ Len(log[p]) \in Nat
          /\ fetchPos[c][p] \in NotAssigned..Len(log[p])
      BY DEF Gapless, CountInv, TypeOK
    <2> QED
      BY <2>1 DEF NotAssigned
  <1>2. \A n \in 0..Len(log[p]) : Covered(p, n) => CoveredAfter(p, n)
    BY CoveredGrows DEF Gapless
  <1> QED
    BY <1>1, <1>2 DEF Gapless, ClientsCovered, ClientAfter

\* A client that exits has no position and no batch.
LEMMA ClientExit ==
  ASSUME Gapless, [Next]_vars, NEW c \in Consumers, Exit(c), NEW d \in Consumers, NEW p \in Partitions
  PROVE  ClientAfter(d, p)
  <1>1. CASE d = c
    <2>1. next'[d][p] = 0 /\ fetchPos'[d][p] = NotAssigned
      BY <1>1 DEF Exit, Gapless, CountInv, TypeOK
    <2> QED
      BY <2>1 DEF ClientAfter, CoveredAfter
  <1>2. CASE d # c
    <2>1. next'[d][p] = next[d][p] /\ end'[d][p] = end[d][p] /\ fetchPos'[d][p] = fetchPos[d][p]
      BY <1>2 DEF Exit, Gapless, CountInv, TypeOK
    <2> QED
      BY <2>1, ClientUntouched
  <1> QED
    BY <1>1, <1>2

\* A client that is assigned a partition starts behind no gap.
LEMMA ClientAssigned ==
  ASSUME Gapless, [Next]_vars, NEW c \in Consumers, NEW q \in Partitions, NEW o \in 0..Len(log[q]),
         Covered(q, o), AssignAt(c, q, o), NEW d \in Consumers, NEW p \in Partitions
  PROVE  ClientAfter(d, p)
  <1>1. next'[d][p] = next[d][p] /\ end'[d][p] = end[d][p]
        /\ fetchPos'[d][p] = IF d = c /\ p = q THEN o ELSE fetchPos[d][p]
    BY DEF AssignAt, Gapless, CountInv, TypeOK
  <1>2. CASE d = c /\ p = q
    <2>1. CoveredAfter(p, o)
      BY <1>2, CoveredGrows DEF Gapless
    <2>2. next[d][p] \in 0..Len(log[p]) /\ Covered(p, next[d][p])
      <3>1. /\ next[d][p] \in Nat /\ end[d][p] \in Nat /\ next[d][p] <= end[d][p]
            /\ end[d][p] <= Len(log[p]) /\ Len(log[p]) \in Nat
        BY DEF Gapless, CountInv, TypeOK
      <3> QED
        BY <3>1 DEF Gapless, ClientsCovered
    <2>3. CoveredAfter(p, next[d][p])
      BY <2>2, CoveredGrows DEF Gapless
    <2> QED
      BY <1>1, <1>2, <2>1, <2>3 DEF ClientAfter
  <1>3. CASE ~(d = c /\ p = q)
    BY <1>1, <1>3, ClientUntouched
  <1> QED
    BY <1>2, <1>3

\* The batch of a poll begins where everything below is recorded.
LEMMA ClientPolls ==
  ASSUME Gapless, [Next]_vars, NEW c \in Consumers, PollFetches(c), NEW d \in Consumers, NEW p \in Partitions
  PROVE  ClientAfter(d, p)
  <1>1. PICK upTo \in PollResults :
          /\ Fetchable(c, upTo)
          /\ fetchPos' = [fetchPos EXCEPT ![c] = upTo]
          /\ next' = [next EXCEPT ![c] =
               [q \in Partitions |-> IF upTo[q] = NotAssigned THEN 0 ELSE fetchPos[c][q]]]
          /\ end' = [end EXCEPT ![c] =
               [q \in Partitions |-> IF upTo[q] = NotAssigned THEN 0 ELSE upTo[q]]]
          /\ UNCHANGED <<log, rows, offsets, live, owner, faults>>
    BY DEF PollFetches, topicVars
  <1>2. CASE d # c
    <2>1. next'[d][p] = next[d][p] /\ end'[d][p] = end[d][p] /\ fetchPos'[d][p] = fetchPos[d][p]
      BY <1>1, <1>2 DEF Gapless, CountInv, TypeOK
    <2> QED
      BY <2>1, ClientUntouched
  <1>3. CASE d = c
    <2>1. /\ fetchPos'[d][p] = upTo[p]
          /\ next'[d][p] = IF upTo[p] = NotAssigned THEN 0 ELSE fetchPos[c][p]
          /\ end'[d][p] = IF upTo[p] = NotAssigned THEN 0 ELSE upTo[p]
      BY <1>1, <1>3 DEF Gapless, CountInv, TypeOK
    <2>2. CASE upTo[p] = NotAssigned
      BY <2>1, <2>2 DEF ClientAfter, CoveredAfter
    <2>3. CASE upTo[p] # NotAssigned
      <3>1. TypeOK
        BY DEF Gapless, CountInv
      <3>2. /\ fetchPos[c][p] \in Nat /\ upTo[p] \in Nat /\ fetchPos[c][p] <= upTo[p]
            /\ fetchPos[c][p] # NotAssigned /\ upTo[p] \in NotAssigned..Len(log[p]) /\ Len(log[p]) \in Nat
        BY <1>1, <2>3, <3>1, PollShape DEF TypeOK
      <3>3. ~(next[c][p] < end[c][p])
        BY <1>1 DEF Fetchable, Draining
      <3>4. Covered(p, fetchPos[c][p])
        BY <3>2, <3>3 DEF Gapless, ClientsCovered
      <3>5. CoveredAfter(p, fetchPos[c][p])
        BY <3>2, <3>4, CoveredGrows DEF Gapless
      <3>6. upTo[p] = fetchPos[c][p] \/ fetchPos[c][p] < upTo[p]
        BY <3>2
      <3> QED
        BY <2>1, <2>3, <3>5, <3>6 DEF ClientAfter
    <2> QED
      BY <2>2, <2>3
  <1> QED
    BY <1>2, <1>3

\* A client that processed a record stays behind no gap.
LEMMA ClientProcesses ==
  ASSUME Gapless, [Next]_vars, NEW c \in Consumers, NEW q \in Partitions, Process(c, q),
         NEW d \in Consumers, NEW p \in Partitions
  PROVE  ClientAfter(d, p)
  <1>1. /\ next'[d][p] = IF d = c /\ p = q THEN next[c][q] + 1 ELSE next[d][p]
        /\ end'[d][p] = end[d][p] /\ fetchPos'[d][p] = fetchPos[d][p]
    BY DEF Process, Gapless, CountInv, TypeOK
  <1>2. CASE d = c /\ p = q
    <2>1. CommitTx(c, q)
      BY DEF Process
    <2>2. CoveredAfter(q, next[c][q] + 1)
      BY <2>1, CommitCovers
    <2>3. TypeOK
      BY DEF Gapless, CountInv
    <2>4. next[c][q] \in Nat /\ end[c][q] \in Nat /\ next[c][q] + 1 <= end[c][q]
      BY <2>1, <2>3, CommitType DEF TypeOK
    <2>5. ASSUME fetchPos[c][q] # NotAssigned, Covered(q, fetchPos[c][q])
          PROVE  CoveredAfter(q, fetchPos[c][q])
      <3>1. fetchPos[c][q] \in 0..Len(log[q])
        BY <2>3, <2>5, SMTT(20) DEF TypeOK, NotAssigned
      <3> QED
        BY <2>5, <3>1, CoveredGrows DEF Gapless
    <2>6. ASSUME fetchPos[c][q] = end[c][q]
          PROVE  \/ CoveredAfter(q, fetchPos[c][q])
                 \/ next[c][q] + 1 < end[c][q]
      BY <2>2, <2>4, <2>6
    <2>7. fetchPos[c][q] # NotAssigned =>
            Covered(q, fetchPos[c][q]) \/ fetchPos[c][q] = end[c][q]
      BY DEF Gapless, ClientsCovered
    <2> QED
      BY <1>1, <1>2, <2>2, <2>5, <2>6, <2>7 DEF ClientAfter
  <1>3. CASE ~(d = c /\ p = q)
    BY <1>1, <1>3, ClientUntouched
  <1> QED
    BY <1>2, <1>3

\* Unless the step drops records every client stays behind no gap.
LEMMA ClientStep ==
  ASSUME Gapless, [Next]_vars, ~dropped'
  PROVE  ClientsCovered'
  <1> SUFFICES ASSUME NEW d \in Consumers, NEW p \in Partitions PROVE ClientAfter(d, p)
    BY DEF ClientsCovered, ClientAfter, Covered, CoveredAfter, NotAssigned
  <1>1. CASE UNCHANGED <<next, end, fetchPos>>
    BY <1>1, ClientUntouched
  <1>2. ASSUME NEW c \in Consumers, Exit(c) PROVE ClientAfter(d, p)
    BY <1>2, ClientExit
  <1>3. ASSUME NEW c \in Consumers, PollFetches(c) PROVE ClientAfter(d, p)
    BY <1>3, ClientPolls
  <1>4. ASSUME NEW c \in Consumers, NEW q \in Partitions,
               OnAssigned(c, q) \/ OnReassigned(c, q) \/ OnAssignedLoadFails(c, q)
        PROVE  ClientAfter(d, p)
    <2>1. /\ offsets[q] \in 0..Len(log[q]) /\ Covered(q, offsets[q])
          /\ 0 \in 0..Len(log[q]) /\ Covered(q, 0)
      BY SMTT(20) DEF Gapless, CountInv, TypeOK, NothingEverSkipped, Covered
    <2>2. AssignAt(c, q, offsets[q]) \/ AssignAt(c, q, 0)
      BY <1>4 DEF OnAssigned, OnReassigned, OnAssignedLoadFails, LoadOffset
    <2> QED
      BY <2>1, <2>2, ClientAssigned
  <1>5. ASSUME NEW c \in Consumers, NEW q \in Partitions, Revoked(c, q) PROVE ClientAfter(d, p)
    <2>1. /\ next'[d][p] = next[d][p] /\ end'[d][p] = end[d][p]
          /\ fetchPos'[d][p] = IF d = c /\ p = q THEN NotAssigned ELSE fetchPos[d][p]
      BY <1>5 DEF Revoked, Gapless, CountInv, TypeOK
    <2>2. CASE d = c /\ p = q
      <3>1. next[d][p] \in 0..Len(log[p]) /\ Covered(p, next[d][p])
        <4>1. /\ next[d][p] \in Nat /\ end[d][p] \in Nat /\ next[d][p] <= end[d][p]
              /\ end[d][p] <= Len(log[p]) /\ Len(log[p]) \in Nat
          BY DEF Gapless, CountInv, TypeOK
        <4> QED
          BY <4>1 DEF Gapless, ClientsCovered
      <3>2. CoveredAfter(p, next[d][p])
        BY <3>1, CoveredGrows DEF Gapless
      <3> QED
        BY <2>1, <2>2, <3>2 DEF ClientAfter
    <2>3. CASE ~(d = c /\ p = q)
      BY <2>1, <2>3, ClientUntouched
    <2> QED
      BY <2>2, <2>3
  <1>6. ASSUME NEW c \in Consumers, NEW q \in Partitions, Process(c, q) PROVE ClientAfter(d, p)
    BY <1>6, ClientProcesses
  <1>7. \/ UNCHANGED <<next, end, fetchPos>>
        \/ \E c \in Consumers :
             \/ Exit(c) \/ PollFetches(c)
             \/ \E q \in Partitions :
                  \/ OnAssigned(c, q) \/ OnReassigned(c, q) \/ OnAssignedLoadFails(c, q)
                  \/ Revoked(c, q) \/ Process(c, q)
    BY DEF Next, vars, clientVars, topicVars, Publish, PublishMalformed, Produce, Start, Crash, Shutdown, PollError, ProcessFails,
           ProcessAckLost, ProcessPoison
  <1> QED
    BY <1>1, <1>2, <1>3, <1>4, <1>5, <1>6, <1>7

\* The invariant holds at the start, and every step keeps it.
LEMMA InvInit == Init => IInv
  <1> SUFFICES ASSUME Init PROVE IInv
    OBVIOUS
  <1>1. TypeOK
    BY TypeInit
  <1>2. CountedAtMostOnce
    BY ConsumerAssumption DEF Init, CountedAtMostOnce, Logged, PartitionOfEvent
  <1>3. NothingEverSkipped /\ RecordedInOrder /\ LogWellFormed /\ ClientsCovered
    BY DEF Init, NothingEverSkipped, RecordedInOrder, LogWellFormed, ClientsCovered, Covered, NotAssigned
  <1> QED
    BY <1>1, <1>2, <1>3 DEF IInv, Gapless, CountInv

\* No step forgets that records were dropped.
LEMMA DroppedForGood == [Next]_vars /\ dropped => dropped'
  <1>1. [Next]_vars => UNCHANGED dropped \/ \E c \in Consumers : PollError(c)
    BY DEF Next, vars, Publish, PublishMalformed, Produce, Start, Crash, Shutdown, PollFetches,
           OnAssigned, OnReassigned, OnAssignedLoadFails, AssignAt, Revoked, Process,
           ProcessFails, ProcessAckLost, ProcessPoison, CommitTx
  <1>2. ASSUME NEW c \in Consumers, PollError(c) PROVE dropped'
    BY <1>2, Zenon DEF PollError
  <1> QED
    BY <1>1, <1>2, Zenon

LEMMA InvStep == IInv /\ [Next]_vars => IInv'
  <1> SUFFICES ASSUME IInv, [Next]_vars PROVE IInv'
    OBVIOUS
  <1>1. CountInv'
    BY CountStep DEF IInv
  <1>2. ASSUME ~dropped' PROVE Gapless'
    <2>1. Gapless
      BY <1>2, DroppedForGood DEF IInv
    <2> QED
      BY <1>1, <1>2, <2>1, SkipStep, PrefixStep, ClientStep DEF Gapless
  <1> QED
    BY <1>1, <1>2 DEF IInv

\* Nothing is lost: until a poll returns an error along with records, every
\* record below a saved offset has exactly one row, for any number of consumers,
\* crashes, failed LoadOffsets, lost commit answers, poison pills and
\* overlapping owners.
THEOREM NoLoss == Spec => []NothingSkipped
  <1>1. IInv => NothingSkipped
    BY DEF IInv, Gapless, NothingSkipped
  <1> QED
    BY <1>1, InvStep, InvInit, PTL DEF Spec

\* Clicks are recorded in the order of the log, under the same condition.
THEOREM InOrder == Spec => []RecordedIsPrefix
  <1>1. IInv => RecordedIsPrefix
    BY DEF IInv, Gapless, RecordedIsPrefix
  <1> QED
    BY <1>1, InvStep, InvInit, PTL DEF Spec

\* The pipeline implements the ledger: until a poll drops records, every step
\* of the consumers counts the next uncounted click of a partition or is
\* invisible.
THEOREM ImplementsLedger == Spec => LedgerRefined
  <1>1. Init => Ledger!LedgerInit
    BY DEF Init, Ledger!LedgerInit
  <1>2. IInv /\ [Next]_vars => [dropped' \/ Ledger!LedgerNext]_(Ledger!ledgerVars)
    <2> SUFFICES ASSUME IInv, [Next]_vars, ~dropped'
                 PROVE  Ledger!LedgerNext \/ UNCHANGED <<log, rows>>
      BY DEF Ledger!ledgerVars
    <2>g. Gapless
      BY DroppedForGood DEF IInv
    <2>t. TypeOK /\ CountInv /\ LogWellFormed
      BY <2>g DEF Gapless, CountInv
    <2>1. ASSUME NEW e \in Events, Produce(e) PROVE Ledger!LedgerNext
      <3>1. PartitionOfEvent(e) \in Partitions
        BY ConsumerAssumption DEF PartitionOfEvent
      <3>2. \A q \in Partitions : \A i \in 1..Len(log[q]) : log[q][i] # e
        BY <2>1, <2>t DEF Produce, Logged, LogWellFormed
      <3>3. Ledger!Record(PartitionOfEvent(e), e)
        BY <2>1, <3>2 DEF Produce, Ledger!Record
      <3> QED
        BY <3>1, <3>3 DEF Ledger!LedgerNext
    <2>2. ASSUME NEW c \in Consumers, NEW p \in Partitions, CommitTx(c, p)
          PROVE  Ledger!LedgerNext \/ UNCHANGED <<log, rows>>
      <3> DEFINE n == next[c][p] + 1
      <3>1. /\ n \in 1..Len(log[p]) /\ log' = log /\ log[p][n] \in Events
            /\ rows[log[p][n]] \in {0, 1} /\ rows \in [Events -> Nat]
            /\ rows' = [rows EXCEPT ![log[p][n]] = 1]
        BY <2>2, <2>t, CommitRows DEF CountInv, TypeOK
      <3>2. \A j \in 1..(n - 1) : rows[log[p][j]] = 1
        <4>1. next[c][p] \in Nat /\ n - 1 = next[c][p]
          BY <2>t DEF TypeOK
        <4> QED
          BY <4>1, <2>g DEF Gapless, ClientsCovered, Covered
      <3> HIDE DEF n
      <3>3. CASE rows[log[p][n]] = 0
        <4>1. Ledger!Count(p, n)
          BY <3>1, <3>2, <3>3 DEF Ledger!Count
        <4> QED
          BY <3>1, <4>1 DEF Ledger!LedgerNext
      <3>4. CASE rows[log[p][n]] = 1
        BY <3>1, <3>4
      <3> QED
        BY <3>1, <3>3, <3>4
    <2> QED
      BY <2>1, <2>2, <2>t, StepKinds DEF vars, Publish, PublishMalformed
  <1> QED
    BY <1>1, <1>2, InvStep, InvInit, PTL DEF Spec, LedgerRefined

-----------------------------------------------------------------------------
(***************************************************************************)
(* What a user reads.                                                      *)
(***************************************************************************)

\* The records of a partition are finitely many, whatever Events is.
LEMMA LogFinite ==
  ASSUME TypeOK, NEW code \in Codes
  PROVE  IsFiniteSet({e \in EventsOf(code) : Logged(e)})
  <1> DEFINE p == PartitionOf[code]
             n == Len(log[p])
             f == [i \in 1..n |-> log[p][i]]
             R == {log[p][i] : i \in 1..n}
  <1>1. p \in Partitions /\ n \in Nat
    BY ConsumerAssumption DEF TypeOK
  <1>2. IsFiniteSet(1..n)
    BY <1>1, FS_Interval
  <1>3. f \in Surjection(1..n, R)
    BY DEF Surjection
  <1>4. IsFiniteSet(R)
    BY <1>2, <1>3, FS_Surjection
  <1>5. {e \in EventsOf(code) : Logged(e)} \in SUBSET R
    BY DEF EventsOf, Logged, PartitionOfEvent
  <1> QED
    BY <1>4, <1>5, FS_Subset

\* While no event has two rows, the total is the number of recorded events.
LEMMA TotalCountsEvents ==
  ASSUME CountInv, NEW code \in Codes
  PROVE  LET recorded == {e \in EventsOf(code) : rows[e] = 1}
         IN IsFiniteSet(recorded) /\ GetStats(code) = Cardinality(recorded)
  <1> DEFINE recorded == {e \in EventsOf(code) : rows[e] = 1}
             f == [e \in recorded |-> <<e, 1>>]
  <1>1. \A e \in Events : rows[e] \in {0, 1} /\ (rows[e] = 1 => Logged(e))
    BY DEF CountInv, CountedAtMostOnce, TypeOK
  <1>2. recorded \in SUBSET {e \in EventsOf(code) : Logged(e)}
    BY <1>1 DEF EventsOf
  <1>3. IsFiniteSet(recorded)
    BY <1>2, LogFinite, FS_Subset DEF CountInv
  <1>4. \A e \in recorded : e \in EventsOf(code) /\ rows[e] = 1 /\ 1 \in 1..rows[e]
    OBVIOUS
  <1>5. \A e \in EventsOf(code) : \A i \in 1..rows[e] : e \in recorded /\ i = 1
    BY <1>1 DEF EventsOf
  <1>6. f \in Bijection(recorded, RowsOf(code))
    <2>1. \A e \in recorded : <<e, 1>> \in RowsOf(code)
      <3> SUFFICES ASSUME NEW e \in recorded PROVE <<e, 1>> \in RowsOf(code)
        OBVIOUS
      <3>1. e \in EventsOf(code) /\ <<e, 1>> \in {e} \X (1..rows[e])
        BY <1>4
      <3> QED
        BY <3>1, Zenon DEF RowsOf
    <2>2. \A r \in RowsOf(code) : \E e \in recorded : r = <<e, 1>>
      <3> SUFFICES ASSUME NEW r \in RowsOf(code) PROVE \E e \in recorded : r = <<e, 1>>
        OBVIOUS
      <3>1. PICK e \in EventsOf(code) : r \in {e} \X (1..rows[e])
        BY DEF RowsOf
      <3>2. PICK i \in 1..rows[e] : r = <<e, i>>
        BY <3>1
      <3> QED
        BY <1>5, <3>2
    <2> HIDE DEF recorded
    <2>3. f \in [recorded -> RowsOf(code)] /\ \A e \in recorded : f[e] = <<e, 1>>
      BY <2>1
    <2>4. \A r \in RowsOf(code) : \E e \in recorded : f[e] = r
      BY <2>2, <2>3
    <2>5. \A d, e \in recorded : f[d] = f[e] => d = e
      BY <2>3
    <2> HIDE DEF f
    <2> QED
      BY <2>3, <2>4, <2>5, Zenon DEF Bijection, Injection, Surjection, IsInjective
  <1>7. ExistsBijection(recorded, RowsOf(code))
    BY <1>6 DEF ExistsBijection
  <1> QED
    BY <1>3, <1>7, FS_Bijection DEF GetStats

\* The total a user reads never exceeds the clicks that reached the topic, and
\* is exactly their number once the saved offset has caught up with the log,
\* until a poll returns records along with an error: for any number of
\* consumers, replays, rebalances and crashes.
THEOREM StatsAreExact == Spec => []StatsExact
  <1>1. ASSUME IInv PROVE StatsExact
    <2> SUFFICES ASSUME NEW code \in Codes
                 PROVE  /\ GetStats(code) <= Cardinality({e \in EventsOf(code) : Logged(e)})
                        /\ ~dropped /\ offsets[PartitionOf[code]] = Len(log[PartitionOf[code]]) =>
                             GetStats(code) = Cardinality({e \in EventsOf(code) : Logged(e)})
      BY DEF StatsExact
    <2> DEFINE p == PartitionOf[code]
               recorded == {e \in EventsOf(code) : rows[e] = 1}
               logged == {e \in EventsOf(code) : Logged(e)}
    <2>1. CountInv /\ TypeOK
      BY <1>1 DEF IInv, CountInv
    <2>2. IsFiniteSet(recorded) /\ GetStats(code) = Cardinality(recorded)
      BY <2>1, TotalCountsEvents
    <2>3. IsFiniteSet(logged)
      BY <2>1, LogFinite
    <2>4. recorded \in SUBSET logged
      BY <2>1 DEF CountInv, CountedAtMostOnce, TypeOK, EventsOf
    <2>5. Cardinality(recorded) <= Cardinality(logged)
      BY <2>3, <2>4, FS_Subset
    <2>6. ASSUME ~dropped, offsets[p] = Len(log[p]) PROVE recorded = logged
      <3>1. p \in Partitions
        BY ConsumerAssumption
      <3>2. Covered(p, Len(log[p]))
        BY <1>1, <2>6, <3>1 DEF IInv, Gapless, NothingEverSkipped
      <3>3. \A e \in logged : rows[e] = 1
        BY <3>2 DEF Covered, Logged, PartitionOfEvent, EventsOf
      <3> QED
        BY <2>4, <3>3
    <2> QED
      BY <2>2, <2>5, <2>6
  <1> QED
    BY <1>1, InvStep, InvInit, PTL DEF Spec

=============================================================================
