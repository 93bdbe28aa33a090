SPECIFICATION ApiFairSpec
CONSTANTS
    u1 = u1
    u2 = u2
    s1 = s1
    s2 = s2
    s3 = s3
    s4 = s4
    k1 = k1
    k2 = k2
    k3 = k3
    k4 = k4
    w1 = w1
    w2 = w2
    Users <- MCUsers
    Sessions <- MCSessions
    Tokens <- MCTokens
    Passwords = {w1, w2}
    Requests = {p1, p2}
    Free = Free
    Null = Null
    Kinds = {"register", "login", "refresh", "logout", "logoutCurrent", "logoutAll", "revokeSession", "forgotPassword", "resetPassword", "sendVerificationEmail", "verifyEmail"}
    InitialTables <- MCTables
    ClockSteps = {1}
    SessionTTL = 3
    TokenTTL = 3
INVARIANTS
    Inv
    OnlyLogoutsDeadlock
    LoggedOutStaysOut
PROPERTIES
    TokensPay
    ResetEndsSessions
    OverForGood
    EveryRequestAnswered
