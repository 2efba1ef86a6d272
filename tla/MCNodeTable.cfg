CONSTANTS
    Node <- MCNode
    NodeInfo <- MCNodeInfo
    MaxSession = 3
SPECIFICATION TableSpec
INVARIANTS TableTypeOK IndexMatchesNodes BestIsAnEntry BestNotDominated
PROPERTY PurgeLeavesNoTrace
