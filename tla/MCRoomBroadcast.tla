-------------------------- MODULE MCRoomBroadcast --------------------------
(***************************************************************************)
(* An instance of RoomBroadcast for TLC.  Nodes meet only in the channel,  *)
(* where BroadcastViaHttp stands for what others publish; what disturbs    *)
(* a broadcast is another client of the same node, or the node's own stop. *)
(***************************************************************************)
EXTENDS RoomBroadcast, TLC

CONSTANTS s1, s2, n1

TwoSockets == (s1 :> n1) @@ (s2 :> n1)
=============================================================================
