CONSTANTS
    Node <- ThreeRelays
    MaxSession = 2
    Client <- LineClient
    Server <- LineServer
    Prev <- LinePrev
    Srtt <- LineSrtt
    MaxDrops = 1
    TheTrack = 1
    Priority = {1}
    SeqModulus = 4
    Clients <- TwoClients
    MaxOps = 3
    Origin = 3
    MaxHops = 2
SPECIFICATION Spec
INVARIANTS SubscribersServed NothingLeft IngressLive
