SPECIFICATION FairSpec
CONSTANTS
  Timeout = 2
  Clients = {"foreign", "other", "empty", "silent"}
  MaxClients = 4
  MaxAttempts = 3
CHECK_DEADLOCK FALSE
INVARIANTS ConsentInv EndsForAReason RefusedForAReason
PROPERTY ConsentEnds
