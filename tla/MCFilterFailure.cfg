SPECIFICATION FilterSafety
CONSTANTS
    plain = plain
    query = query
    badRule = badRule
    shown = shown
    hidden = hidden
    Texts <- MCTexts
    Flags <- MCFlags
    FirstForm <- MCForm
    MaxInputs = 2

INVARIANT
    FailureIsShown
CHECK_DEADLOCK FALSE
