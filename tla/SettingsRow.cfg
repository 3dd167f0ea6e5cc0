SPECIFICATION PageSpec
CONSTANT
  MaxQueued = 3
INVARIANTS PageInv FollowsEvents ColourTellsState
PROPERTY ClickDoesWhatItSays
