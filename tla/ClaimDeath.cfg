SPECIFICATION Spec
CONSTANTS
  Last = 4
  PercentAt <- MCPercentAt
  StartPos <- MCStartPos
  Configs <- MCConfigs
  Settings <- MCSettings
  MaxEdits = 2
INVARIANT OverMeansUndeafened

