------------------------------ MODULE RpcClaims ------------------------------
(* What a comment says of direct mode and the code does not do. *)
EXTENDS RpcClient

(* "Forget the stored authorization (tokens + username)"
   (discord_rpc.hpp:23): nothing is stored after a last logout. *)
LogoutForgets == Last("logout") => <>[](saved = {})
=============================================================================
