CONSTANTS
    u1 = u1
    u2 = u2
    r1 = r1
    p1 = p1
    p2 = p2
    o1 = o1
    o2 = o2
    c1 = c1
    c2 = c2
    k1 = k1
    k2 = k2
    NoNum = NoNum
    NoProduct = NoProduct
    User = {u1, u2}
    Role = {r1}
    Product = {p1, p2}
    Price <- MCPrice
    Quantity <- MCQuantity
    Bonus <- MCBonus
    OrderNo = {o1, o2}
    ClientNo = {}
    Request <- DiamondRequest
    AutoCredit = {TRUE}
    CreditRef = {}
    CreditAmount <- DiamondCredit
    PlayedDiamond = {1}
    PlayedVersion = 1
    InitialDiamond <- MCInitialDiamond
SPECIFICATION Spec
INVARIANTS
    OrderSettledWhole
    FirstBonusOnce
    AckedIsGranted
PROPERTIES
    ImplementsSettlement
