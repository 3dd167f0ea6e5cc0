SPECIFICATION FairSpec
CONSTANTS
  Header = 2
  MaxLength = 1
  Ops <- MCOps
  Lengths = {1, 2}
  MaxSent = 2
  Buffer = 2
  MaxOwed = 4
  HandshakeLength = 1
  Worlds <- MCWorlds
  Polls = 2
INVARIANTS ConnInv Aligned WholeMessages OneBridge
PROPERTIES ChannelSpec CallReturns ReachesDiscord
