---------------------------- MODULE LeasedMint -----------------------------
(***************************************************************************)
(* The worker-ID lease with what it is for: NewSnowflakeGenerator in       *)
(* cmd/api/main.go mints with the leased slot and the pod's own clock, and *)
(* starts afresh, so that codes are unique only if the holders of a slot   *)
(* never mint in the same millisecond.  The clocks of the pods differ.     *)
(*                                                                         *)
(* A pod that serves may mint at any time, so all that is kept of its      *)
(* codes is where they end: lead, how far beyond the present the           *)
(* milliseconds of a slot are used up.                                     *)
(***************************************************************************)
EXTENDS WorkerLease

CONSTANTS
  MaxSkew   \* how far the clocks of two pods may differ

\* A pod that dies while its key outlasts the renewals it missed leaves the key
\* for longer than clocks differ.
ASSUME SkewAssumption ==
  /\ MaxSkew \in Nat
  /\ \A m \in 0..MaxMisses : Unrenewed(m) < LeaseTTL => MaxSkew <= LeaseTTL - Unrenewed(m)

VARIABLES
  skew,    \* per pod, how far its clock is ahead of the slowest
  lead,    \* per slot, how far beyond the present former holders minted
  freed,   \* per slot, did its last holder release it?
  reused   \* how slots changed hands whose new holder mints in used milliseconds

mintVars == <<skew, lead, freed, reused>>
allVars == <<vars, mintVars>>

MintInit ==
  /\ Init
  /\ skew \in [Pods -> 0..MaxSkew]
  /\ lead = [s \in Slots |-> 0]
  /\ freed = [s \in Slots |-> FALSE]
  /\ reused = {}

\* Is a millisecond of pod p's clock, from now on, used on slot s?
Used(s, p) ==
  \/ lead[s] > skew[p]
  \/ \E q \in Pods \ {p} : phase[q] = "serving" /\ slot[q] = s

\* A new generator on the slot.
NewGenerator(p) ==
  /\ Acquire(p)
  /\ reused' = IF Used(slot[p], p)
               THEN reused \union {IF freed[slot[p]] THEN "released" ELSE "expired"}
               ELSE reused
  /\ UNCHANGED <<skew, lead, freed>>

\* The generator of p ends; its clock is where its codes end.
EndGenerator(p, byRelease) ==
  /\ IF phase[p] = "serving"
     THEN /\ lead' = [lead EXCEPT ![slot[p]] = IF @ > skew[p] THEN @ ELSE skew[p]]
          /\ freed' = [freed EXCEPT ![slot[p]] = byRelease]
     ELSE UNCHANGED <<lead, freed>>
  /\ UNCHANGED <<skew, reused>>

\* Time passes, and the present catches up.
MintTick ==
  /\ Tick
  /\ lead' = [s \in Slots |-> IF lead[s] > 0 THEN lead[s] - 1 ELSE 0]
  /\ UNCHANGED <<skew, freed, reused>>

MintNext ==
  \/ \E p \in Pods :
       \/ NewGenerator(p)
       \/ Release(p) /\ EndGenerator(p, TRUE)
       \/ Die(p) /\ EndGenerator(p, FALSE)
       \/ /\ Boot(p) \/ AcquireNext(p) \/ AcquireAnswerLost(p) \/ AcquireNoneFree(p)
             \/ Renew(p) \/ RenewFails(p)
          /\ UNCHANGED mintVars
  \/ MintTick
  \/ RedisRestart /\ UNCHANGED mintVars

MintSpec == MintInit /\ [][MintNext]_allVars

FairMintSpec == MintSpec /\ Fairness

-----------------------------------------------------------------------------
\* Until Redis restarts or a lease lapses, a pod that takes over a slot whose holder died never
\* mints in a millisecond that the holder minted in, although its own clock may
\* be behind the holder's: the key outlives the holder for longer than clocks
\* differ.  (A slot that was released has no such wait: its next holder may.)
NoReuseAfterExpiry == ~emptied /\ ~lapsed => "expired" \notin reused

=============================================================================
