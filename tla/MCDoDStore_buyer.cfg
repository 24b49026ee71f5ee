CONSTANTS
    b1 = b1
    b2 = b2
    s1 = s1
    s2 = s2
    o1 = o1
    o2 = o2
    p1 = p1
    p2 = p2
    None = None
    Buyers <- MCBuyers
    Sellers <- MCSellers
    OrderIds <- MCOrderIds
    ProductIds <- MCProductIds
    Times <- MCTimes
    MaxCalls = 2
SPECIFICATION Spec
INVARIANT InvoiceByBuyerCorrect
CHECK_DEADLOCK FALSE
