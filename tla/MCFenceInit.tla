------------------------------- MODULE MCFenceInit -------------------------------
EXTENDS FenceInit

CONSTANTS rpc1, rpc2, rpc3
MCProc == {rpc1, rpc2, rpc3}
=============================================================================
