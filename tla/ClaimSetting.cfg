SPECIFICATION AutoFairSpec
CONSTANTS
  Last = 2
  PercentAt <- MCPercentAt
  StartPos <- MCStartPos
  Configs <- MCConfigs
  Settings <- MCSettings
  MaxEdits = 1
  Platform = "windows"
  Modes = {"direct"}
  World = {}
  MaxTaps = 2
  MaxTurns = 0
PROPERTY AlwaysEndsUndeafened
