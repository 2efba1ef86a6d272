CONSTANTS
    Node <- ThreeRelays
    MaxSession = 3
    Client <- RelineClient
    Server <- RelineServer
    Prev <- RelinePrev
    MaxDrops = 1
    Track = {1}
    Priority = {1}
    SeqModulus = 2
    Clients <- EndClients
    MaxOps = 3
SPECIFICATION Spec
INVARIANTS TypeOK Agreement NoEcho
PROPERTY FloodingStops
