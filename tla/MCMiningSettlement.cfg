CONSTANTS
    Nil = Nil
    None = None
    b1 = b1
    s1 = s1
    s2 = s2
    o1 = o1
    o2 = o2
    p1 = p1
    p2 = p2
    m1 = m1
    m2 = m2
    sha = sha
    Zero = Zero
    Unknown = Unknown
    NoTemplate = NoTemplate
    a1 = a1
    a2 = a2
    Email = Email
    WeChat = WeChat
    BadType = BadType
    e1 = e1
    w1 = w1
    k1 = k1
    d1 = d1
    ED = ED
    RSA = RSA
    OtherKT = OtherKT
    pk1 = pk1
    pk2 = pk2
    h1 = h1
    h2 = h2
    x1 = x1
    x2 = x2
    Garbled = Garbled
SPECIFICATION Spec
INVARIANT TypeOK
INVARIANT PageMatchesReference
INVARIANT EndHeightMatchesReference
INVARIANT RoundMatchesReference
INVARIANT DoDUsageAdditive
INVARIANT UserProductsListed
INVARIANT SpanIsLastNonZero
INVARIANT GetWorkAtNextHeight
INVARIANT TemplatesSubmittable
INVARIANT RawParamMerged
INVARIANT PKDScansAgree
INVARIANT PKDChecksAgree
