CONSTANTS
    Node <- TwoRelays
    MaxSession = 2
    Client <- PairClient
    Server <- PairServer
    Prev <- PairPrev
    Srtt <- LineSrtt
    MaxDrops = 1
    TheTrack = 1
    Priority = {1}
    SeqModulus = 4
    Clients <- SecondClient
    MaxOps = 1
    Origin = 1
    MaxHops = 2
SPECIFICATION Spec
INVARIANTS ServedAgain
