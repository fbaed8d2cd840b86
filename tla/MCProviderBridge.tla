-------------------------- MODULE MCProviderBridge --------------------------
(***************************************************************************)
(* ProviderBridge for TLC.  Two sessions of different providers: one whose *)
(* adapter takes the mode and permission replies (Claude), one whose       *)
(* adapter takes neither.                                                  *)
(***************************************************************************)
EXTENDS ProviderBridge

CONSTANTS Full      \* the first of them

OnlyFull == {<<Full, k>> : k \in Settings}
=============================================================================
