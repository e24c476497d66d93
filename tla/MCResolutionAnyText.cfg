SPECIFICATION ResolutionSpec
CONSTANTS
    n1 = n1
    t1 = t1
    t2 = t2
    s1 = s1
    a1 = a1
    Name = {n1, empty}
    EmptyName = empty
    KeyName = {n1}
    TypeName = {t1, t2}
    BracketName = {}
    DomainMethod <- MCDomainMethod
    DomainCall <- AnyDomainCall
    PublicKey = {k1, k2}
    ContractAddress = addr
    MethodId <- LedgerId
    Method <- LedgerMethod
    SchnorrKey = {s1}
    ServiceId <- LedgerId
    ServiceBody <- MCServiceBody
    Alias = {a1}
    Timestamp = {0}
    Absent = Absent
    MaxVersion = 5
    Client = {c1}
    Persistent = {}
    Operation <- MCOperation
    Malformed = {}
INVARIANTS
    WhatIsWrittenResolves
CHECK_DEADLOCK FALSE
