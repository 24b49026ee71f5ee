CONSTANTS
    g = g
    a1 = a1
    a2 = a2
    r1 = r1
    r2 = r2
    NoBlock = NoBlock
    c1 = c1
    c2 = c2
    s1 = s1
    NoSend = NoSend
    u1 = u1
    u2 = u2
    u3 = u3
    t1 = t1
    Zero = Zero
SPECIFICATION Spec
INVARIANTS
    TypeOK
    NoDanglingReceive
    PendingMatchesUnreceivedSends
    RepresentationMatchesAccounts
    ChainIntegrity
    CacheChainClosed
    AccountCacheMatchesChain
    PendingRewardsReceivable
    RewardStorageMatchesChain
PROPERTIES
    RollbackRevokesExactlyDependents
    UncheckedRollbackRemovesDependents
CHECK_DEADLOCK FALSE
SYMMETRY MCSymmetry
