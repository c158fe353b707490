--------------------------- MODULE MCFenceEnforcement ----------------------------
(* The two peers the RPC layer knows. *)
EXTENDS FenceEnforcement

CONSTANTS grabowski, maulwurf

MCPeer == {grabowski, maulwurf}
=============================================================================
