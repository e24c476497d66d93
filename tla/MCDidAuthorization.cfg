SPECIFICATION AuthSpec
CONSTANTS
    m1 = m1
    s1 = s1
    svc = svc
    body = body
    a1 = a1
    PublicKey = {k1, k2, k3}
    ContractAddress = addr
    MethodId = {m1}
    Method <- MCMethod
    SchnorrKey = {s1}
    ServiceId = {svc}
    ServiceBody = {body}
    Alias = {a1}
    Timestamp = {0}
    Absent = Absent
    Call <- MCCall
    MaxVersion = 3
    MaxRequests = 3
INVARIANTS
    AuthTypeOK
    AtMostOnce
    ActsOnWhatTheSignerSaw
    SignedByTheKeyInForce
SYMMETRY MCSymmetry
CHECK_DEADLOCK FALSE
