SPECIFICATION Spec
CONSTANTS
    States <- MCStates
    ForeignWires <- MCForeignWires
    Texts <- MCTexts
    MAX_ALSO_KNOWN_AS = 1
    MAX_VERIFICATION_METHODS = 2
    MAX_SERVICES = 1
    Junk = Junk
    NoY = NoY
    MaxTexts = 2
INVARIANTS
    TypeOK
    MadeCanBeRead
    OneStatePerDid
    OneTextPerDid
    ReadCanBeMade
CHECK_DEADLOCK FALSE
