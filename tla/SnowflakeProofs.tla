-------------------------- MODULE SnowflakeProofs --------------------------
(***************************************************************************)
(* Codes are unique for every number of instances, every skew of their     *)
(* clocks and every number of disturbances, as long as the worker IDs      *)
(* differ, the clock is not stepped back while a call sleeps, and an       *)
(* instance whose clock may be stepped back is not restarted.              *)
(***************************************************************************)
EXTENDS Snowflake, FiniteSetTheorems, TLAPS

\* The deployment gives every instance a worker ID of its own.
DistinctWorkers == \A g, h \in Generators : WorkerOf[g] = WorkerOf[h] => g = h

\* The disturbances under which uniqueness is claimed.
MildFaults ==
  \A kinds \in FaultModes :
    "step_asleep" \notin kinds /\ ~({"step", "restart"} \subseteq kinds)

\* Division with remainder is unique.
LEMMA Radix ==
  ASSUME NEW S \in Nat \ {0}, NEW a \in Nat, NEW b \in Nat,
         NEW s \in 0..(S - 1), NEW t \in 0..(S - 1), a * S + s = b * S + t
  PROVE  a = b /\ s = t
  <1>1. \A x, y \in Nat : x < y => (x + 1) * S <= y * S
    OBVIOUS
  <1>2. \A x \in Nat : (x + 1) * S = x * S + S
    OBVIOUS
  <1>3. a * S \in Nat /\ b * S \in Nat
    OBVIOUS
  <1>4. ~(a < b)
    BY <1>1, <1>2, <1>3
  <1>5. ~(b < a)
    BY <1>1, <1>2, <1>3
  <1>6. a = b
    BY <1>4, <1>5
  <1> QED
    BY <1>3, <1>6

\* The packed integer determines its three fields.
LEMMA PackInjective ==
  ASSUME NEW m \in Nat, NEW n \in Nat,
         NEW v \in 0..(WorkerSlots - 1), NEW w \in 0..(WorkerSlots - 1),
         NEW s \in 0..(SeqSlots - 1), NEW t \in 0..(SeqSlots - 1),
         Pack(m, v, s) = Pack(n, w, t)
  PROVE  m = n /\ v = w /\ s = t
  <1> USE SnowflakeAssumption
  <1>1. /\ m * WorkerSlots + v \in Nat
        /\ n * WorkerSlots + w \in Nat
    OBVIOUS
  <1>2. /\ Pack(m, v, s) = (m * WorkerSlots + v) * SeqSlots + s
        /\ Pack(n, w, t) = (n * WorkerSlots + w) * SeqSlots + t
    BY DEF Pack
  <1>3. m * WorkerSlots + v = n * WorkerSlots + w /\ s = t
    <2> DEFINE x == m * WorkerSlots + v
               y == n * WorkerSlots + w
    <2>1. x \in Nat /\ y \in Nat /\ x * SeqSlots + s = y * SeqSlots + t
      BY <1>1, <1>2
    <2> HIDE DEF x, y
    <2>2. x = y /\ s = t
      BY <2>1, Radix
    <2> QED
      BY <2>2 DEF x, y
  <1> QED
    BY <1>3, Radix

-----------------------------------------------------------------------------
(***************************************************************************)
(* The inductive invariant.                                                *)
(***************************************************************************)

\* Generator g is past slot <<m, s>> and will not issue it again: it is behind
\* the generator's last code or, when the generator may be restarted (and the
\* clock then never steps back), in a millisecond that is over.
Behind(g, m, s) ==
  \/ m < lastMs[g]
  \/ m = lastMs[g] /\ s <= sequence[g]
  \/ "restart" \in mode /\ m < clock[g]

\* Every code that was returned came from a slot some generator is past.
MintedBehind ==
  \A code \in minted : \E g \in Generators, m \in Nat, s \in 0..(SeqSlots - 1) :
    code = Encode(Pack(m, WorkerOf[g], s)) /\ Behind(g, m, s)

\* While a call sleeps the clock is not behind its millisecond, and once it
\* has slept the clock is past it.
SleepSound ==
  \A g \in Generators :
    /\ pc[g] = "asleep" => lastMs[g] <= clock[g]
    /\ pc[g] = "rested" => lastMs[g] < clock[g]
    /\ "restart" \in mode => lastMs[g] <= clock[g]

Counted == IsFiniteSet(minted) /\ UniqueCodes

IInv == TypeOK /\ SleepSound /\ MintedBehind /\ Counted

\* Every step keeps the types.
LEMMA TypeStep == TypeOK /\ [Next]_vars => TypeOK'
  <1> SUFFICES ASSUME TypeOK, [Next]_vars PROVE TypeOK'
    OBVIOUS
  <1> USE SnowflakeAssumption
  <1>1. ASSUME NEW g \in Generators, GenerateSameMs(g) PROVE TypeOK'
    BY <1>1 DEF TypeOK, GenerateSameMs, Return
  <1>2. ASSUME NEW g \in Generators, GenerateExhausted(g) PROVE TypeOK'
    BY <1>2 DEF TypeOK, GenerateExhausted
  <1>3. ASSUME NEW g \in Generators, GenerateWake(g) PROVE TypeOK'
    BY <1>3 DEF TypeOK, GenerateWake, Return
  <1>4. ASSUME NEW g \in Generators, GenerateNewMs(g) PROVE TypeOK'
    BY <1>4 DEF TypeOK, GenerateNewMs, Return
  <1>5. ASSUME NEW g \in Generators, Tick(g) PROVE TypeOK'
    BY <1>5 DEF TypeOK, Tick
  <1>6. ASSUME NEW g \in Generators, StepBack(g) PROVE TypeOK'
    BY <1>6 DEF TypeOK, StepBack
  <1>7. ASSUME NEW g \in Generators, Restart(g) PROVE TypeOK'
    BY <1>7 DEF TypeOK, Restart
  <1>8. CASE UNCHANGED vars
    BY <1>8 DEF TypeOK, vars
  <1> QED
    BY <1>1, <1>2, <1>3, <1>4, <1>5, <1>6, <1>7, <1>8 DEF Next

\* Every behaviour keeps the type invariant.
THEOREM TypeCorrect == Spec => []TypeOK
  <1>1. Init => TypeOK
    BY SnowflakeAssumption DEF Init, TypeOK
  <1> QED
    BY <1>1, TypeStep, PTL DEF Spec

\* The clock is past the millisecond a call slept out.
LEMMA SleepStep ==
  ASSUME MildFaults, IInv, [Next]_vars
  PROVE  SleepSound'
  <1>t. TypeOK /\ SleepSound
    BY DEF IInv
  <1>1. ASSUME NEW g \in Generators, GenerateSameMs(g) PROVE SleepSound'
    BY <1>1, <1>t DEF TypeOK, SleepSound, GenerateSameMs
  <1>2. ASSUME NEW g \in Generators, GenerateExhausted(g) PROVE SleepSound'
    BY <1>2, <1>t DEF TypeOK, SleepSound, GenerateExhausted
  <1>3. ASSUME NEW g \in Generators, GenerateWake(g) PROVE SleepSound'
    BY <1>3, <1>t DEF TypeOK, SleepSound, GenerateWake
  <1>4. ASSUME NEW g \in Generators, GenerateNewMs(g) PROVE SleepSound'
    BY <1>4, <1>t DEF TypeOK, SleepSound, GenerateNewMs
  <1>5. ASSUME NEW g \in Generators, Tick(g) PROVE SleepSound'
    BY <1>5, <1>t DEF TypeOK, SleepSound, Tick
  <1>6. ASSUME NEW g \in Generators, StepBack(g) PROVE SleepSound'
    <2>1. pc[g] = "idle" /\ "restart" \notin mode
      BY <1>6, <1>t DEF StepBack, MildFaults, TypeOK
    <2> QED
      BY <1>6, <1>t, <2>1 DEF TypeOK, SleepSound, StepBack
  <1>7. ASSUME NEW g \in Generators, Restart(g) PROVE SleepSound'
    BY <1>7, <1>t DEF TypeOK, SleepSound, Restart
  <1>8. CASE UNCHANGED vars
    BY <1>8, <1>t DEF SleepSound, vars
  <1> QED
    BY <1>1, <1>2, <1>3, <1>4, <1>5, <1>6, <1>7, <1>8 DEF Next

\* A slot a generator is past stays behind it.
LEMMA BehindStep ==
  ASSUME MildFaults, IInv, [Next]_vars, NEW h \in Generators, NEW m \in Nat,
         NEW s \in 0..(SeqSlots - 1), Behind(h, m, s)
  PROVE  Behind(h, m, s)'
  <1>t. TypeOK /\ SleepSound /\ SeqSlots \in Nat
    BY SnowflakeAssumption DEF IInv
  <1>1. ASSUME NEW g \in Generators, GenerateSameMs(g) PROVE Behind(h, m, s)'
    BY <1>1, <1>t DEF TypeOK, Behind, GenerateSameMs
  <1>2. ASSUME NEW g \in Generators, GenerateExhausted(g) PROVE Behind(h, m, s)'
    BY <1>2, <1>t DEF TypeOK, Behind, GenerateExhausted
  <1>3. ASSUME NEW g \in Generators, GenerateWake(g) PROVE Behind(h, m, s)'
    BY <1>3, <1>t DEF TypeOK, SleepSound, Behind, GenerateWake
  <1>4. ASSUME NEW g \in Generators, GenerateNewMs(g) PROVE Behind(h, m, s)'
    BY <1>4, <1>t DEF TypeOK, Behind, GenerateNewMs
  <1>5. ASSUME NEW g \in Generators, Tick(g) PROVE Behind(h, m, s)'
    BY <1>5, <1>t DEF TypeOK, Behind, Tick
  <1>6. ASSUME NEW g \in Generators, StepBack(g) PROVE Behind(h, m, s)'
    <2>1. "restart" \notin mode
      BY <1>6, <1>t DEF StepBack, MildFaults, TypeOK
    <2> QED
      BY <1>6, <1>t, <2>1 DEF TypeOK, Behind, StepBack
  <1>7. ASSUME NEW g \in Generators, Restart(g) PROVE Behind(h, m, s)'
    BY <1>7, <1>t DEF TypeOK, SleepSound, Behind, Restart
  <1>8. CASE UNCHANGED vars
    BY <1>8 DEF Behind, vars
  <1> QED
    BY <1>1, <1>2, <1>3, <1>4, <1>5, <1>6, <1>7, <1>8 DEF Next

\* A call that issues a slot no generator with its worker ID is past returns a
\* new code, and is past the slot afterwards.
LEMMA ReturnFresh ==
  ASSUME MildFaults, DistinctWorkers, IInv, [Next]_vars, NEW g \in Generators,
         NEW m \in Nat, NEW s \in 0..(SeqSlots - 1),
         ~Behind(g, m, s), Behind(g, m, s)', Return(g, m, s)
  PROVE  MintedBehind' /\ Counted'
  <1> DEFINE code == Encode(Pack(m, WorkerOf[g], s))
  <1>1. code \notin minted
    <2> SUFFICES ASSUME code \in minted PROVE FALSE
      OBVIOUS
    <2>1. PICK h \in Generators, n \in Nat, t \in 0..(SeqSlots - 1) :
            code = Encode(Pack(n, WorkerOf[h], t)) /\ Behind(h, n, t)
      BY DEF IInv, MintedBehind
    <2>2. Pack(m, WorkerOf[g], s) = Pack(n, WorkerOf[h], t)
      BY <2>1 DEF Encode
    <2>3. m = n /\ WorkerOf[g] = WorkerOf[h] /\ s = t
      BY <2>2, PackInjective, SnowflakeAssumption
    <2> QED
      BY <2>1, <2>3 DEF DistinctWorkers
  <1>2. ASSUME NEW c \in minted
        PROVE  \E h \in Generators, n \in Nat, t \in 0..(SeqSlots - 1) :
                 c = Encode(Pack(n, WorkerOf[h], t)) /\ Behind(h, n, t)'
    <2>1. PICK h \in Generators, n \in Nat, t \in 0..(SeqSlots - 1) :
            c = Encode(Pack(n, WorkerOf[h], t)) /\ Behind(h, n, t)
      BY DEF IInv, MintedBehind
    <2>2. Behind(h, n, t)'
      BY <2>1, BehindStep
    <2> QED
      BY <2>1, <2>2
  <1>3. minted' = minted \union {code} \/ minted' = minted
    BY DEF Return
  <1>4. MintedBehind'
    <2> SUFFICES ASSUME NEW c \in minted'
                 PROVE  \E h \in Generators, n \in Nat, t \in 0..(SeqSlots - 1) :
                          c = Encode(Pack(n, WorkerOf[h], t)) /\ Behind(h, n, t)'
      BY DEF MintedBehind, Encode, Pack
    <2>1. CASE c \in minted
      BY <1>2, <2>1
    <2>2. CASE c = code
      BY <2>2
    <2> QED
      BY <1>3, <2>1, <2>2
  <1> HIDE DEF code
  <1>5. IsFiniteSet(minted) /\ Cardinality(minted) = returned
    BY DEF IInv, Counted, UniqueCodes
  <1>6. IsFiniteSet(minted \union {code}) /\ Cardinality(minted \union {code}) = returned + 1
    BY <1>1, <1>5, FS_AddElement
  <1>7. CASE minted' = minted \union {code} /\ returned' = returned + 1
    BY <1>4, <1>6, <1>7 DEF Counted, UniqueCodes
  <1>8. CASE UNCHANGED <<minted, returned>>
    BY <1>4, <1>5, <1>8 DEF Counted, UniqueCodes
  <1> QED
    BY <1>7, <1>8 DEF Return, code

\* Every step keeps the minted codes behind their generators and unique.
LEMMA MintStep ==
  ASSUME MildFaults, DistinctWorkers, IInv, [Next]_vars
  PROVE  MintedBehind' /\ Counted'
  <1>t. TypeOK /\ SleepSound /\ SeqSlots \in Nat \ {0}
    BY SnowflakeAssumption DEF IInv
  <1>1. ASSUME NEW g \in Generators, GenerateSameMs(g) PROVE MintedBehind' /\ Counted'
    <2>1. /\ clock[g] \in Nat /\ sequence[g] + 1 \in 0..(SeqSlots - 1)
          /\ Return(g, clock[g], sequence[g] + 1)
      BY <1>1, <1>t DEF TypeOK, GenerateSameMs
    <2>2. ~Behind(g, clock[g], sequence[g] + 1)
      BY <1>1, <1>t DEF TypeOK, Behind, GenerateSameMs
    <2>3. clock[g] = lastMs'[g] /\ sequence[g] + 1 <= sequence'[g]
      BY <1>1, <1>t DEF TypeOK, GenerateSameMs
    <2>4. ASSUME NEW m \in Nat, m = clock[g], NEW s \in 0..(SeqSlots - 1), s = sequence[g] + 1
          PROVE  MintedBehind' /\ Counted'
      <3>1. Behind(g, m, s)'
        BY <2>3, <2>4 DEF Behind
      <3> QED
        BY <2>1, <2>2, <2>4, <3>1, ReturnFresh
    <2> QED
      BY <2>1, <2>4
  <1>2. ASSUME NEW g \in Generators, GenerateWake(g) \/ GenerateNewMs(g)
        PROVE  MintedBehind' /\ Counted'
    <2>1. clock[g] \in Nat /\ 0 \in 0..(SeqSlots - 1) /\ Return(g, clock[g], 0)
      BY <1>2, <1>t DEF TypeOK, GenerateWake, GenerateNewMs
    <2>2. lastMs[g] < clock[g]
      BY <1>2, <1>t DEF SleepSound, GenerateWake, GenerateNewMs
    <2>3. ~Behind(g, clock[g], 0)
      BY <1>t, <2>2 DEF TypeOK, Behind
    <2>4. lastMs'[g] = clock[g] /\ sequence'[g] = 0
      BY <1>2, <1>t DEF TypeOK, GenerateWake, GenerateNewMs
    <2>5. ASSUME NEW m \in Nat, m = clock[g] PROVE MintedBehind' /\ Counted'
      <3>1. Behind(g, m, 0)'
        BY <2>4, <2>5 DEF Behind
      <3> QED
        BY <2>1, <2>3, <2>5, <3>1, ReturnFresh
    <2> QED
      BY <2>1, <2>5
  <1>3. ASSUME UNCHANGED <<minted, returned>> PROVE MintedBehind' /\ Counted'
    <2>1. ASSUME NEW c \in minted
          PROVE  \E h \in Generators, n \in Nat, t \in 0..(SeqSlots - 1) :
                   c = Encode(Pack(n, WorkerOf[h], t)) /\ Behind(h, n, t)'
      <3>1. PICK h \in Generators, n \in Nat, t \in 0..(SeqSlots - 1) :
              c = Encode(Pack(n, WorkerOf[h], t)) /\ Behind(h, n, t)
        BY DEF IInv, MintedBehind
      <3>2. Behind(h, n, t)'
        BY <3>1, BehindStep
      <3> QED
        BY <3>1, <3>2
    <2>2. MintedBehind'
      BY <1>3, <2>1 DEF MintedBehind, Encode, Pack
    <2> QED
      BY <1>3, <2>2 DEF IInv, Counted, UniqueCodes
  <1>4. \/ UNCHANGED <<minted, returned>>
        \/ \E g \in Generators : GenerateSameMs(g) \/ GenerateWake(g) \/ GenerateNewMs(g)
    BY DEF Next, vars, GenerateExhausted, Tick, StepBack, Restart
  <1> QED
    BY <1>1, <1>2, <1>3, <1>4

\* With distinct worker IDs and mild disturbances no code is ever returned
\* twice, however the clocks are skewed against each other.
THEOREM Uniqueness == MildFaults /\ DistinctWorkers => (Spec => []UniqueCodes)
  <1> SUFFICES ASSUME MildFaults, DistinctWorkers PROVE Spec => []UniqueCodes
    OBVIOUS
  <1>1. Init => IInv
    <2> SUFFICES ASSUME Init PROVE IInv
      OBVIOUS
    <2>1. TypeOK
      BY SnowflakeAssumption DEF Init, TypeOK
    <2>2. SleepSound /\ MintedBehind
      BY DEF Init, SleepSound, MintedBehind
    <2>3. Counted
      BY FS_EmptySet DEF Init, Counted, UniqueCodes
    <2> QED
      BY <2>1, <2>2, <2>3 DEF IInv
  <1>2. IInv /\ [Next]_vars => IInv'
    BY TypeStep, SleepStep, MintStep DEF IInv
  <1>3. IInv => UniqueCodes
    BY DEF IInv, Counted
  <1> QED
    BY <1>1, <1>2, <1>3, PTL DEF Spec

=============================================================================
