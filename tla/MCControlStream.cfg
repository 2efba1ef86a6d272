CONSTANTS
    Kind = {1, 2, 3}
    Size <- SmallSizes
    Bad = {3}
    Junk = 0
    Inbound = TRUE
    MaxMessages = 5
    MaxConnections = 2
SPECIFICATION ControlSpec
INVARIANTS TypeOK
PROPERTIES ImplementsChannel
CHECK_DEADLOCK FALSE
