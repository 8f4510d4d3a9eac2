----------------------------- MODULE Snowflake -----------------------------
(***************************************************************************)
(* internal/idgen/snowflake.go: the code generators of the API instances.  *)
(* Each instance has its own wall clock, which may be skewed against the   *)
(* others and may be stepped back.  Generate holds the generator's mutex   *)
(* from end to end, so a call is one step, but for the call that exhausts  *)
(* the sequence: it sleeps, with the mutex held, and the clock is read     *)
(* again when it wakes.                                                    *)
(***************************************************************************)
EXTENDS Integers, FiniteSets

CONSTANTS
  Generators,   \* API instances
  WorkerOf,     \* the worker ID of each instance
  WorkerSlots,  \* maxWorkerID + 1 (1024)
  SeqSlots,     \* maxSequence + 1 (4096)
  FaultModes,   \* the sets of disturbances that may happen together
  MaxClock,     \* bound: the last millisecond explored
  MaxFaults     \* bound on steps back and restarts

\* "step":       the wall clock is stepped back while no call is asleep
\* "step_asleep": it is stepped back while a call sleeps out its millisecond
\* "restart":    the process restarts with the same worker ID
FaultKinds == {"step", "step_asleep", "restart"}

ASSUME SnowflakeAssumption ==
  /\ WorkerSlots \in Nat \ {0}
  /\ SeqSlots \in Nat \ {0}
  /\ WorkerOf \in [Generators -> 0..(WorkerSlots - 1)]
  /\ FaultModes \subseteq SUBSET FaultKinds
  /\ MaxClock \in Nat
  /\ MaxFaults \in Nat

VARIABLES
  clock,     \* per instance, time.Now().UnixMilli() - epoch
  lastMs,    \* per generator, the millisecond of its last code
  sequence,  \* per generator, the sequence number of its last code
  pc,        \* "idle", "asleep" in time.Sleep, "rested" once it is over
  minted,    \* the codes returned so far
  returned,  \* how many calls returned a code
  mode,      \* the disturbances of this behaviour
  faults     \* disturbances so far

vars == <<clock, lastMs, sequence, pc, minted, returned, mode, faults>>

Init ==
  /\ clock \in [Generators -> 1..2]
  /\ lastMs = [g \in Generators |-> 0]
  /\ sequence = [g \in Generators |-> 0]
  /\ pc = [g \in Generators |-> "idle"]
  /\ minted = {}
  /\ returned = 0
  /\ mode \in FaultModes
  /\ faults = 0

-----------------------------------------------------------------------------
\* Pack: the three fields side by side.  Shifting by the widths of the lower
\* fields and ORing is this sum as long as worker and seq fit their fields.
Pack(ms, worker, seq) == ms * (WorkerSlots * SeqSlots) + worker * SeqSlots + seq

\* sqids gives every integer a string of its own.
Encode(id) == <<"sqid", id>>

\* The end of Generate: the code is returned, or Encode fails (sqids gives up
\* on its blocklist) and the sequence number is spent all the same.
Return(g, ms, seq) ==
  \/ /\ minted' = minted \union {Encode(Pack(ms, WorkerOf[g], seq))}
     /\ returned' = returned + 1
  \/ UNCHANGED <<minted, returned>>

\* A sequence that may run one past its field.
GenerateSameMsPast(g) ==
  /\ pc[g] = "idle"
  /\ clock[g] = lastMs[g]
  /\ sequence[g] + 1 <= SeqSlots
  /\ sequence' = [sequence EXCEPT ![g] = @ + 1]
  /\ Return(g, clock[g], sequence[g] + 1)
  /\ UNCHANGED <<clock, lastMs, pc, mode, faults>>

\* now == lastMs and the sequence has a slot left.
GenerateSameMs(g) ==
  /\ pc[g] = "idle"
  /\ clock[g] = lastMs[g]
  /\ sequence[g] + 1 < SeqSlots
  /\ sequence' = [sequence EXCEPT ![g] = @ + 1]
  /\ Return(g, clock[g], sequence[g] + 1)
  /\ UNCHANGED <<clock, lastMs, pc, mode, faults>>

\* now == lastMs and the sequence is exhausted: sleep, holding the mutex.
GenerateExhausted(g) ==
  /\ pc[g] = "idle"
  /\ clock[g] = lastMs[g]
  /\ sequence[g] + 1 >= SeqSlots
  /\ sequence' = [sequence EXCEPT ![g] = @ + 1]
  /\ pc' = [pc EXCEPT ![g] = "asleep"]
  /\ UNCHANGED <<clock, lastMs, minted, returned, mode, faults>>

\* The sleep is over: the clock is read again and taken as it is.
GenerateWake(g) ==
  /\ pc[g] = "rested"
  /\ pc' = [pc EXCEPT ![g] = "idle"]
  /\ sequence' = [sequence EXCEPT ![g] = 0]
  /\ lastMs' = [lastMs EXCEPT ![g] = clock[g]]
  /\ Return(g, clock[g], 0)
  /\ UNCHANGED <<clock, mode, faults>>

\* A generator without the backward-clock guard.
GenerateAnyMs(g) ==
  /\ pc[g] = "idle"
  /\ clock[g] # lastMs[g]
  /\ sequence' = [sequence EXCEPT ![g] = 0]
  /\ lastMs' = [lastMs EXCEPT ![g] = clock[g]]
  /\ Return(g, clock[g], 0)
  /\ UNCHANGED <<clock, pc, mode, faults>>

\* now > lastMs.  (now < lastMs returns ErrClockRegressed and changes nothing.)
GenerateNewMs(g) ==
  /\ pc[g] = "idle"
  /\ clock[g] > lastMs[g]
  /\ sequence' = [sequence EXCEPT ![g] = 0]
  /\ lastMs' = [lastMs EXCEPT ![g] = clock[g]]
  /\ Return(g, clock[g], 0)
  /\ UNCHANGED <<clock, pc, mode, faults>>

-----------------------------------------------------------------------------
\* A millisecond passes on the instance's host; a call asleep has slept it out.
Tick(g) ==
  /\ clock[g] < MaxClock
  /\ clock' = [clock EXCEPT ![g] = @ + 1]
  /\ pc' = [pc EXCEPT ![g] = IF @ = "asleep" THEN "rested" ELSE @]
  /\ UNCHANGED <<lastMs, sequence, minted, returned, mode, faults>>

\* NTP or a VM migration steps the wall clock back.
StepBack(g) ==
  /\ (IF pc[g] = "idle" THEN "step" ELSE "step_asleep") \in mode
  /\ faults < MaxFaults
  /\ faults' = faults + 1
  /\ \E ms \in 1..(clock[g] - 1) : clock' = [clock EXCEPT ![g] = ms]
  /\ UNCHANGED <<lastMs, sequence, pc, minted, returned, mode>>

\* The instance restarts with the same worker ID and a new generator, which
\* remembers nothing; a boot takes at least a millisecond.
Restart(g) ==
  /\ "restart" \in mode
  /\ faults < MaxFaults
  /\ faults' = faults + 1
  /\ clock[g] < MaxClock
  /\ clock' = [clock EXCEPT ![g] = @ + 1]
  /\ lastMs' = [lastMs EXCEPT ![g] = 0]
  /\ sequence' = [sequence EXCEPT ![g] = 0]
  /\ pc' = [pc EXCEPT ![g] = "idle"]
  /\ UNCHANGED <<minted, returned, mode>>

Next ==
  \E g \in Generators :
    \/ GenerateSameMs(g) \/ GenerateExhausted(g) \/ GenerateWake(g) \/ GenerateNewMs(g)
    \/ Tick(g) \/ StepBack(g) \/ Restart(g)

Spec == Init /\ [][Next]_vars

-----------------------------------------------------------------------------
\* The variables have their types; a sequence number fits its field except
\* while its call sleeps.
TypeOK ==
  /\ clock \in [Generators -> Nat \ {0}]
  /\ lastMs \in [Generators -> Nat]
  /\ sequence \in [Generators -> 0..SeqSlots]
  /\ pc \in [Generators -> {"idle", "asleep", "rested"}]
  /\ returned \in Nat
  /\ mode \in FaultModes
  /\ faults \in Nat
  /\ \A g \in Generators : pc[g] = "idle" => sequence[g] < SeqSlots

\* No code is returned twice, by one instance or by two: every call of
\* Generate that returned added a code of its own ("Uniqueness holds in every
\* case", docs/explanation/distributed-ids.md).
UniqueCodes == Cardinality(minted) = returned

=============================================================================
