SPECIFICATION AutoFairSpec
CONSTANTS
  Last = 2
  PercentAt <- MCPercentAt
  StartPos <- MCStartPos
  Configs <- MCConfigs
  Settings <- MCSettings
  MaxEdits = 0
  Platform = "windows"
  Modes = {"keybind"}
  World = {"user"}
  MaxTaps = 2
  MaxTurns = 1
PROPERTY SelfCorrects
