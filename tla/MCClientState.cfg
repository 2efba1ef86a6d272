CONSTANTS
    Client = {1, 2}
    Track = {t1}
    NameSpace <- InNamespace
    Prefix <- Announced
    AllowSelf = FALSE
    DetachedSubs = FALSE
    Node = {n1}
    Session = {s1}
    MaxRequest <- Requests
SPECIFICATION Spec
INVARIANTS TypeOK SubscribeIndexes FanoutIsSubscribers PausedIffIdle NoTraceOfClosed PeersServed
VIEW AllButOwnSubs
CHECK_DEADLOCK FALSE
