SPECIFICATION ReaderSpec
CONSTANTS
    HalfRange = 512
    SignBit = 4
    Groups = 4
    AddressSize = 2
    OffsetSize = 2
    Opcodes <- MCOpcodes
    Expressions <- MCExpressions
    Loads <- MCLoads
INVARIANTS
    ReaderTypeOK
    OperandsAreExact
    BreaksForAReason
    StackIsExact
    OffsetIsExact
    RefusesForAReason
    TypesAreClosed
    NothingIsMissed
    UnitTypesAsWritten
    AddressesHaveASource
    PlaceholdersGiveWay
    UnitsFollowRules
CHECK_DEADLOCK FALSE
