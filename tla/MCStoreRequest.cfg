SPECIFICATION FairSpec
CONSTANTS
  r = r
  a = a
  b = b
  c = c
  NoNode = NoNode
  Nodes <- MCNodes
  Length = 2
  UintSize = 4
  Configs <- MCConfigs
INVARIANTS WholePayload SuccessIsBacked StoredOncePerCall
PROPERTY Ends
