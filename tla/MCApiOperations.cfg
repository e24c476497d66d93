SPECIFICATION ApiFairSpec
CONSTANTS
    m1 = m1
    s1 = s1
    svc = svc
    body = body
    a1 = a1
    bad = bad
    PublicKey = {k1, k2}
    ContractAddress = addr
    MethodId = {m1}
    Method <- MCMethod
    SchnorrKey = {s1}
    ServiceId = {svc}
    ServiceBody = {body}
    Alias = {a1, bad}
    Timestamp = {0}
    Absent = Absent
    MaxVersion = 3
    Client = {c1, c2}
    Persistent = {c1}
    Operation <- AllOperations
    Malformed = {bad}
INVARIANTS
    ApiTypeOK
PROPERTIES
    AtomicWhenAlone
    RemovedMeansGone
    RemovalEnds
CHECK_DEADLOCK FALSE
