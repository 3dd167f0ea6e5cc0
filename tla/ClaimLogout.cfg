SPECIFICATION FairSpec
CONSTANTS
  Env = {}
  Calls = {"connect", "logout"}
  MaxCalls = 2
  InitSaved <- NoneSaved
PROPERTY LogoutForgets
