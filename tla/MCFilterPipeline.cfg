SPECIFICATION FilterSpec
CONSTANTS
    plain = plain
    query = query
    badRule = badRule
    shown = shown
    hidden = hidden
    Texts <- MCTexts
    Flags <- MCFlags
    FirstForm <- MCForm
    MaxInputs = 4

INVARIANTS
    FilterTypeOK
    CacheIsCurrent
    ProgressHasCause
PROPERTIES
    PanelIsView
    FilterSettles
    BuildsDrain
CHECK_DEADLOCK FALSE
