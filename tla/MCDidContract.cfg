SPECIFICATION Spec
CONSTANTS
    PublicKey = {k1, k2, k3}
    ContractAddress = addr
    MethodId = {m1, m2}
    Method <- MCMethod
    SchnorrKey = {s1}
    ServiceId = {svc}
    ServiceBody = {body}
    Alias = {a1}
    Timestamp = {0, 1}
    Absent = Absent
    MaxVersion = 8
INVARIANTS
    TypeOK
    RelationsReferToMethods
    OneMapPerMethodId
    KeyAgreementSeparation
    ControllerIsNotRecoveryAuthority
    CellsAgree
PROPERTIES
    DeactivationIsFinal
    VersionNamesState
    LifecycleSpec
SYMMETRY MCSymmetry
CHECK_DEADLOCK FALSE
