CONSTANTS
    Track = {1, 2, 3}
    Publisher <- PublishedBy
    Subscriber = {1, 2}
    Property = {12}
    Value = {0, 1}
    Filter = {1}
    MaxSelected = 1
    InactiveAge = 0
    RefreshInterval = 0
    AllowSelf = FALSE
    MaxTick = 1
    MaxUpdate = 3
SPECIFICATION Spec
INVARIANTS TypeOK FlatSound TopIsRunning
PROPERTIES TopNAfterUpdate
CHECK_DEADLOCK FALSE
