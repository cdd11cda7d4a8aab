CONSTANTS
    low = low
    high = high
    accent = accent
    old = old
    new = new
    nick = nick
    NoNickname = NoNickname
    t1 = t1
    NoToken = NoToken
    Spelling = {low, high, accent}
    Fold <- MCFold
    Lower <- MCLower
    Password = {old, new}
    Nickname = {nick}
    Token = {t1}
    TestName = low
    TestPassword = old
    Ttl = 1
    MaxClock = 1
    MaxUsers = 2
SPECIFICATION Spec
INVARIANTS
    TypeOK
    NameIsOneAccount
    SessionIsOwners
    RefusedStaysRefused
