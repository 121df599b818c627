SPECIFICATION FairSpec
CONSTANTS
  a = a
  b = b
  x = x
  all = all
  withoutB = withoutB
  NoDigest = 0
  Node <- MCPair
  Transactional = {a}
  Forwards <- MCPairForwards
  Config <- MCConfig
  NodesOf <- MCPairNodesOf
  Digest <- MCDigest
  MaxTxn = 2
INVARIANT ClosedMeansUnmarked
INVARIANT RolledBackStaysUndone
PROPERTY OnlyCommitCommits
PROPERTY ClosingEnds
