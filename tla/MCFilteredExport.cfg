SPECIFICATION AppSafety
CONSTANTS
    elf = elf
    esv = esv
    plain = plain
    query = query
    listed = listed
    hidden = hidden
    node = node
    lazyNode = lazyNode
    label = label
    import = import
    export = export
    json = json
    NoPath = NoPath
    NoNode = NoNode
    Paths <- MCPaths
    DataNames <- MCDataNames
    DataFiles <- MCDataNames
    Details <- MCDetails
    Results <- MCResults
    Keys <- MCKeys
    Exclusive <- MCExclusive
    SnapshotImport = import
    SnapshotExport = export
    JsonTask = json
    PreviewLabel = label
    Texts <- MCTexts
    Flags <- MCFlags
    FirstForm <- MCForm
    Nodes <- MCNodes
    LazyNodes <- MCLazy
    MaxTasks = 9
    MaxInputs = 3
    MaxOpens = 3
    MaxChanges = 3
    MaxClicks = 3
    MaxUser = 2
PROPERTY
    FilteredExportIsFiltered
CHECK_DEADLOCK FALSE
