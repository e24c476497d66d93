SPECIFICATION Spec
CONSTANTS
    Client = {c1}
    Key = {k1, k2, k3}
    RecoveryKey = rk
    NoKey = NoKey
    ZeroKey = ZeroKey
    MaxVersion = 3
    Serialised = TRUE
    Reconciles = TRUE
    LostAnswers = TRUE
INVARIANT FailureMeansNotFinalized
CHECK_DEADLOCK FALSE
