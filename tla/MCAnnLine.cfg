CONSTANTS
    Node <- ThreeRelays
    MaxSession = 3
    Client <- RelineClient
    Server <- RelineServer
    Prev <- RelinePrev
    MaxDrops = 2
    Name <- Names
    NameSpace <- NameSpaces
    IsNamespace <- Kinds
    Publisher <- OneOrigin
    MaxOps = 3
SPECIFICATION Spec
INVARIANTS Agreement IndexExact
PROPERTY FloodingStops
