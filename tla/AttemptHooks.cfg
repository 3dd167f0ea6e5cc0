SPECIFICATION FairSpec
CONSTANTS
  Last = 4
  PercentAt <- MCPercentAt
  StartPos <- MCStartPos
  Configs <- MCConfigs
  Settings <- MCSettings
  MaxEdits = 2
INVARIANTS Remembered AtMostOnce OptIn AttemptInv
PROPERTIES FiresPastSpawn StaysDeafened AttemptEndsUndeafened
