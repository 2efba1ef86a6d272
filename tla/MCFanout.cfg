CONSTANTS
    Track = {t1, t2}
    Client = {c1}
    NsClient = {n1}
    Peer = {1, 2}
    Objects = 2
    ObjectSize = 2
    MaxGroup = 1
SPECIFICATION FanoutSpec
SYMMETRY Symmetry
INVARIANTS StreamsTypeOK ClientStreamComplete PeerStartsWithHeader NoOrphanStream
CHECK_DEADLOCK FALSE
