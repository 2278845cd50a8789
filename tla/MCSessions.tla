----------------------------- MODULE MCSessions -----------------------------
(***************************************************************************)
(* Two processes; a VHD "A" and its child "B".                             *)
(***************************************************************************)
EXTENDS Sessions

MCFiles == {"A", "B"}
MCChain == [f \in MCFiles |-> IF f = "A" THEN <<"A">> ELSE <<"B", "A">>]
MCModes == {{}, {"RDWR"}, {"EXCLUSIVE"}, {"RDWR", "IGNORE"}}
=============================================================================
