CONSTANTS
    g = g
    a1 = a1
    a2 = a2
    r1 = r1
    r2 = r2
    NoBlock = NoBlock
    Accounts <- MCAccounts
    Reps <- MCReps
    GenesisAcct = g
    GenesisRep = r1
    Supply = 2
    MaxBlocks = 6
    QueueCap = 8
SPECIFICATION Spec
INVARIANT
    PendingAmountCorrect
CHECK_DEADLOCK FALSE
