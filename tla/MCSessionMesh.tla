--------------------------- MODULE MCSessionMesh ---------------------------
(* Up to three guests around a host.  A settled session starts with the    *)
(* first one or two admitted; another then tries to get in.  Where the     *)
(* state space needs it the network does not connect {b, c}.               *)
EXTENDS SessionMesh, TLC

CONSTANTS a, b, c

MCPeers == {a, b, c}
MCSettled == {a, b}
MCPair == {a, b}
MCOne == {a}
AllPairs == {{x, y} : x, y \in {a, b, c, Host}} \ {{x} : x \in {a, b, c, Host}}
AllButBC == AllPairs \ {{b, c}}
PairAB == {{a, b}, {a, Host}, {b, Host}}
=============================================================================
