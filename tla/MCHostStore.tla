---------------------------- MODULE MCHostStore ----------------------------
(* Three transports for a room of two remote places: one may be waiting    *)
(* for its reconnection while the other two fill the room, and is turned   *)
(* away when it comes back.  Two of them belong to the same friend.        *)
EXTENDS HostStore

CONSTANTS a, b, c, Ann, Bob

MCPeers == {a, b, c}
MCIdentities == {Ann, Bob}
MCIdentityOf == (a :> Ann) @@ (b :> Ann) @@ (c :> Bob)
=============================================================================
