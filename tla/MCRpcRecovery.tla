---------------------------- MODULE MCRpcRecovery ----------------------------
EXTENDS RpcRecovery
AnyTokens == {{}, {"access"}, {"access", "refresh"}}
=============================================================================
