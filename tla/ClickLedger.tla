---------------------------- MODULE ClickLedger ----------------------------
(***************************************************************************)
(* What the click pipeline promises once a click is on the topic           *)
(* (docs/explanation/messaging-and-exactly-once.md, segment 2): it is      *)
(* counted exactly once, and the clicks of a partition in the order of the *)
(* log.  No consumer, offset, crash or rebalance is visible here.          *)
(***************************************************************************)
EXTENDS Naturals, Sequences

CONSTANTS Partitions, Events

VARIABLES
  log,    \* the clicks of each partition, in order
  tally   \* how often each click was counted

ledgerVars == <<log, tally>>

LedgerInit ==
  /\ log = [p \in Partitions |-> <<>>]
  /\ tally = [e \in Events |-> 0]

\* A click that is on no partition yet is appended to one.
Record(p, e) ==
  /\ \A q \in Partitions : \A i \in 1..Len(log[q]) : log[q][i] # e
  /\ log' = [log EXCEPT ![p] = Append(@, e)]
  /\ UNCHANGED tally

\* The first click of p that was not counted yet is counted.
Count(p, i) ==
  /\ tally[log[p][i]] = 0
  /\ \A j \in 1..(i - 1) : tally[log[p][j]] = 1
  /\ tally' = [tally EXCEPT ![log[p][i]] = 1]
  /\ UNCHANGED log

LedgerNext ==
  \E p \in Partitions :
    \/ \E e \in Events : Record(p, e)
    \/ \E i \in 1..Len(log[p]) : Count(p, i)

LedgerSpec == LedgerInit /\ [][LedgerNext]_ledgerVars

=============================================================================
