CONSTANTS
    m1 = m1
    m2 = m2
    sha = sha
    Zero = Zero
    Unknown = Unknown
    None = None
    Miners <- MCMiners
    Algos <- MCAlgos
    Pledged <- MCPledged
    VerifyHeightStart = 2
    MaxTips = 2
    MaxClock = 2
SPECIFICATION Spec
PROPERTY FailedStartMiningKeepsConfig
