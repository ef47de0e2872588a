SPECIFICATION ReaderSpec
CONSTANTS
    HalfRange = 512
    SignBit = 4
    Groups = 4
    AddressSize = 2
    OffsetSize = 2
    Opcodes <- MCOpcodes
    Expressions <- MCExpressions
    Loads <- MCLoads
INVARIANT
    ExactAddressesStay
CHECK_DEADLOCK FALSE
