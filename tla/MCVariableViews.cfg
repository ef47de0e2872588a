SPECIFICATION ViewsSpec
CONSTANTS
    HalfRange = 32
    NoType = NoType
    Programs <- MCPrograms
    Policies <- MCPolicies
    Spelled <- MCSpelled
    Forms <- MCForms
    Questions <- MCQuestions
    Memory = 14
INVARIANTS
    ViewsTypeOK
    ViewsAgreeWithLayout
    MatchesAreReachable
    ViewsFollowRules
    ExportHoldsMatches
    SessionAnswersFresh
    QueryIsComplete
CHECK_DEADLOCK FALSE
