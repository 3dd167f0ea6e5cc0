SPECIFICATION Spec
CONSTANTS
  Levels <- MCLevels
  KeyOf <- MCKeyOf
  Rows <- MCRows
  SpawnPercent <- MCSpawn
  Texts <- MCTexts
  HandFiles <- MCHandFiles
  Faults = TRUE
  MaxEdits = 4
INVARIANT InSync
PROPERTIES KeepsOthers TypedIsResolved Reopens
