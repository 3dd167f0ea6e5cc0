SPECIFICATION RecoverySpec
CONSTANTS
  Env = {"slow", "reject", "close", "stall"}
  Calls = {"deafen", "undeafen", "connect", "logout"}
  MaxCalls = 2
  InitSaved <- AnyTokens
PROPERTIES WorkerReturns LastLogoutServed LastDeafenServed LastUndeafenServed
\* A worker held in a call that never returns stops the system once the calls
\* are made and the queues are empty; WorkerReturns says that nothing else does.
CHECK_DEADLOCK FALSE
