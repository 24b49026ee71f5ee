CONSTANTS
    a1 = a1
    a2 = a2
    s1 = s1
    NoSend = NoSend
    Accounts <- MCAccounts
    ConfSends <- MCConfSends
    SendTo <- MCSendTo
    SendFrom <- MCSendFrom
    Times <- MCTimes
    MaxBlocks = 4
SPECIFICATION Spec
CHECK_DEADLOCK FALSE
INVARIANT CacheReceivesHaveSends
