-------------------------- MODULE MCClickConsumer --------------------------
(***************************************************************************)
(* Small instances of ClickConsumer, and the ledger it implements.         *)
(***************************************************************************)
EXTENDS ClickStats, TLC

CONSTANTS c1, c2, a, b

\* Two codes hashed to two partitions, two clicks on the first code.
MCCodeOf == (1 :> a @@ 2 :> a @@ 3 :> b)
MCPartitionOf == (a :> 1 @@ b :> 2)

=============================================================================
