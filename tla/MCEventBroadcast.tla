------------------------- MODULE MCEventBroadcast -------------------------
(***************************************************************************)
(* Two subscriptions of one window and two events requests.  Neither the   *)
(* subscriptions nor the replays are told apart by the code.               *)
(***************************************************************************)
EXTENDS EventBroadcast, TLC

CONSTANTS acpBridge, library, replay1, replay2

MCSubscribers == {acpBridge, library}
MCRequests == {replay1, replay2}
MCSymmetry == Permutations(MCSubscribers) \cup Permutations(MCRequests)
=============================================================================
