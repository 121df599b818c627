SPECIFICATION Spec
CONSTANTS
  a = a
  b = b
  x = x
  all = all
  withoutB = withoutB
  NoDigest = 0
  Node <- MCNode
  Transactional = {a, b}
  Forwards <- MCForwards
  Config <- MCConfig
  NodesOf <- MCNodesOf
  Digest <- MCDigest
  MaxTxn = 1
INVARIANT RegisteredIsMarked
INVARIANT SupersededStaysUndone
PROPERTY ImplementsProtocol
