--------------------------- MODULE MCDegradedApi ---------------------------
(***************************************************************************)
(* A small instance of DegradedApi.                                        *)
(***************************************************************************)
EXTENDS DegradedApi

MCOp == <<"redirect", "create", "replay">>

=============================================================================
