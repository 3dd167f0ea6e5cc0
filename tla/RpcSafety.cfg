SPECIFICATION Spec
CONSTANTS
  Env = {"slow", "reject", "close", "stall", "user"}
  Calls = {"deafen", "undeafen", "connect", "logout"}
  MaxCalls = 2
  InitSaved <- OnlyAccess
INVARIANTS StatusTruthful OwnsWhatItSet OrphanHasCause IInv
PROPERTIES PoliteSpec StatusSpec KeepsUserDeafen
