CONSTANTS
    u1 = u1
    u2 = u2
    r1 = r1
    p1 = p1
    p2 = p2
    o1 = o1
    o2 = o2
    c1 = c1
    c2 = c2
    k1 = k1
    k2 = k2
    NoNum = NoNum
    NoProduct = NoProduct
    User = {u1, u2}
    Role = {}
    Product = {p1, p2}
    Price <- MCPrice
    Quantity <- MCQuantity
    Bonus <- MCBonus
    OrderNo = {}
    ClientNo = {c1, c2}
    Request <- WalletRequest
    AutoCredit = {TRUE, FALSE}
    CreditRef = {k1, k2}
    CreditAmount <- WalletCredit
    PlayedDiamond = {}
    PlayedVersion = 0
    InitialDiamond <- NoDiamond
SPECIFICATION Spec
INVARIANTS
    TypeOK
    LedgerChain
    DebitPerGrant
    AutoCreditIsSpent
    FirstBonusGiven
    StatusTrue
