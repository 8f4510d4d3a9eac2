---------------------------- MODULE MCSnowflake ----------------------------
(* Small instances of Snowflake: two slots per millisecond, so that the      *)
(* sequence is exhausted by the third call of a millisecond.                 *)
EXTENDS Snowflake, TLC

CONSTANTS g1, g2

MCWorkerOf == (g1 :> 0 @@ g2 :> 1)

=============================================================================
