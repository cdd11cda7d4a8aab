CONSTANTS
    c1 = c1
    c2 = c2
    l1 = l1
    w1 = w1
    w2 = w2
    x1 = x1
    u1 = u1
    d1 = d1
    n1 = n1
    g1 = g1
    g2 = g2
    s1 = s1
    b1 = b1
    e1 = e1
    p1 = p1
    p2 = p2
    seg = seg
    mid = mid
    end = end
    NoConn = NoConn
    Heartbeat = Heartbeat
    Conn = {c1, c2}
    Request = {w1, w2, x1, u1, d1, e1, n1, g1, g2, s1, b1}
    Kind <- MCKindOf
    Level = {l1}
    LevelOf <- MCLevelOf
    Reward <- MCReward
    LevelNum <- MCLevelNum
    Segment = {seg}
    Step = {mid, end}
    GuideStep <- MCGuideStep
    Terminal <- MCTerminal
    Capture <- MCCapture
    Payment = {p1, p2}
    Quantity <- MCQuantity
    InitialDiamond = 5
    MaxVersion = 5
SPECIFICATION Spec
SYMMETRY MCSymmetry
CHECK_DEADLOCK FALSE
INVARIANTS
    TypeOK
    ColumnAgreesWithDocument
    DiamondsAddUp
    EffectsMatchReceipts
    BodyAppliedOnce
    LevelPaidOnce
PROPERTIES
    ProgressKept
