SPECIFICATION AutoFairSpec
CONSTANTS
  Last = 2
  PercentAt <- MCPercentAt
  StartPos <- MCStartPos
  Configs <- MCConfigs
  Settings <- MCSettings
  MaxEdits = 1
  Platform = "windows"
  Modes = {"direct", "keybind"}
  World = {"mode", "user", "fail", "rebind", "drop", "logout"}
  MaxTaps = 2
  MaxTurns = 1
INVARIANTS BeliefTracks FollowsHooks
PROPERTY EndsUndeafened
