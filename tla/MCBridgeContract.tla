-------------------------- MODULE MCBridgeContract --------------------------
(***************************************************************************)
(* A small instance of BridgeContract: enough ether for two withdrawals    *)
(* that are both due, so that one can be completed from within the other.  *)
(***************************************************************************)
EXTENDS BridgeContract

CONSTANTS user, op

MCAddresses == {user, op}
=============================================================================
