SPECIFICATION ContentSpec
CONSTANTS
    elf = elf
    esv = esv
    renamed = renamed
    import = import
    NoPath = NoPath
    Paths <- MCPaths
    DataNames <- MCDataNames
    DataFiles <- MCDataFiles
    Details <- MCPaths
    Results <- MCResults
    Keys <- MCKeys
    Exclusive <- MCExclusive
    SnapshotImport = import
    MaxTasks = 9
    MaxOpens = 3
    MaxChanges = 3
INVARIANTS
    ContentTypeOK
    SlotsMatchStates
    ShownIsWhatItSays
    LoadMatchesFuture
PROPERTIES
    NewestOfItsKind
    ReopenNeverBlocks
    MissingFileIsReopened
CHECK_DEADLOCK FALSE
