SPECIFICATION Spec
CONSTANTS
    d1 = d1
    d2 = d2
    n1 = n1
    n2 = n2
    Did = {d1, d2}
    NotDid = NotDid
    Name = {n1, n2, empty}
    EmptyName = empty
    KeyName = {n1, n2}
    NewMethods <- MCNewMethods
    NewServices <- MCNewServices
    RelationLists <- MCRelationLists
    Texts <- MCTexts
    NoDocument = NoDocument
    MaxParts = 3
INVARIANT PartsAreRechecked
CHECK_DEADLOCK FALSE
