---------------------------- MODULE MCCreateLink ---------------------------
(***************************************************************************)
(* Instances of CreateLink for TLC.                                        *)
(***************************************************************************)
EXTENDS CreateLink, TLC

CONSTANTS r1, r2, r3, k1

\* Two requests with one key, a retry or a race, and one without a key.
MCKeyOf == r1 :> k1 @@ r2 :> k1 @@ r3 :> NoKey

\* Three requests with one key.
RetriesKeyOf == r1 :> k1 @@ r2 :> k1 @@ r3 :> k1

=============================================================================
