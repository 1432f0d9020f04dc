CONSTANTS
    Jobs <- TheJobs
    Patterns <- AllPatterns
    StepBudget = 150
    WordChars = {"a", "b"}
INIT Init
NEXT Next
INVARIANTS
    MatchesInOrder
    NothingLost
    GroupsInMatch
    CompilesLanguage
    FindsNearMatches
PROPERTIES
    GetsOn
