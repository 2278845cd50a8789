--------------------------- MODULE MCVirtualDisk ---------------------------
(***************************************************************************)
(* Finite instances of DynDiffVhdHistory for TLC.                          *)
(***************************************************************************)
EXTENDS MCDynDiffVhd, DynDiffVhdHistory

=============================================================================
