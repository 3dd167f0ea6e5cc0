----------------------------- MODULE MCRpcClient -----------------------------
(* RpcClient for TLC: what may be saved when the game starts. *)
EXTENDS RpcClaims, RpcInvariants
NoneSaved  == {{}}
OnlyAccess == {{"access", "username"}}
=============================================================================
