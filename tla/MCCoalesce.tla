----------------------------- MODULE MCCoalesce -----------------------------
(***************************************************************************)
(* Finite instances of Coalesce for TLC.                                   *)
(***************************************************************************)
EXTENDS Coalesce

\* <<0, i>> asks for the whole chain but the head.
EitherWay == {<<1, 0>>, <<2, 1>>, <<0, 1>>}

Either == {<<1, 0>>, <<2, 1>>}

WritingMode == {{"RDWR"}}

PlainModes == {{}, {"RDWR"}}

=============================================================================
