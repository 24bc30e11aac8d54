--------------------------- MODULE MCGatewayBridge ---------------------------
(***************************************************************************)
(* Instances of GatewayBridge: concurrent calls as model values.           *)
(***************************************************************************)
EXTENDS GatewayBridge

CONSTANTS a, b

TwoCalls == {a, b}
OneCall == {a}

\* The gateway of this repository, and one that would know the bridge's id.
RepoClientIds == GATEWAY_CLIENT_IDS
AmendedClientIds == GATEWAY_CLIENT_IDS \cup {ClientId}
=============================================================================
