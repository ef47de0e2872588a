SPECIFICATION ViewsSpec
CONSTANTS
    HalfRange = 32
    NoType = NoType
    Programs <- MCPrograms
    Policies <- MCPolicies
    Spelled <- MCSpelled
    Forms <- MCForms
    Questions <- MCQuestions
    Memory = 14
INVARIANTS
    MembersAreHitByParent
CHECK_DEADLOCK FALSE
