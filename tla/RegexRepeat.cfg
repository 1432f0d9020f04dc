CONSTANTS
    Jobs <- TheJobs
    Patterns <- Repeated3
    StepBudget = 150
    WordChars = {"a", "b"}
INIT Init
NEXT Next
INVARIANTS
    FindsMatches
