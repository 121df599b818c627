SPECIFICATION Spec
CONSTANTS
  r = r
  a = a
  c = c
  NoNode = NoNode
  Nodes <- MCNodes
  Length = 2
  UintSize = 4
  Configs <- MCConfigs
INVARIANTS ReturnsWholeResult FailureLeavesNoTrace TeeMatchesResult
