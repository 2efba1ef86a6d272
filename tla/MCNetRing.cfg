CONSTANTS
    Node <- ThreeRelays
    MaxSession = 4
    Client <- RejoinClient
    Server <- RejoinServer
    Prev <- RejoinPrev
    Srtt <- RejoinSrtt
    MaxDrops = 1
SPECIFICATION Spec
INVARIANTS NoSelfEntry RoutesUseLiveSessions DirectIsBest
PROPERTY Converges
