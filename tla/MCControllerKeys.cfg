SPECIFICATION FairSpec
CONSTANTS
    Client = {c1, c2}
    Key = {k1, k2, k3}
    RecoveryKey = rk
    NoKey = NoKey
    ZeroKey = ZeroKey
    MaxVersion = 2
    Serialised = TRUE
    Reconciles = TRUE
    LostAnswers = FALSE
INVARIANTS
    TypeOK
    KeyIsPersisted
PROPERTIES
    PromotionFollowsFinalization
    RotationIsCompleted
CHECK_DEADLOCK FALSE
