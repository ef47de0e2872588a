SPECIFICATION ContentSafety
CONSTANTS
    elf = elf
    esv = esv
    renamed = renamed
    import = import
    NoPath = NoPath
    Paths <- MCPaths
    DataNames <- MCDataNames
    DataFiles <- MCDataFiles
    Details <- MCPaths
    Results <- MCResults
    Keys <- MCKeys
    Exclusive <- MCExclusive
    SnapshotImport = import
    MaxTasks = 9
    MaxOpens = 2
    MaxChanges = 2
PROPERTY
    RebuildSignalIsKept
CHECK_DEADLOCK FALSE
