-------------------------- MODULE MCCoalesceHistory --------------------------
(***************************************************************************)
(* Finite instances of CoalesceHistory for TLC.                            *)
(***************************************************************************)
EXTENDS CoalesceHistory, MCCoalesce

=============================================================================
