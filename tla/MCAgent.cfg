CONSTANTS
    MaxSteps = 4
    FinalSteps = 2
    MaxInput = 14
    Reserve = 5
    GoalSizes = {1, 6, 12}
    ReadSizes = {1, 4}
    MaxCalls = 2
SPECIFICATION FairSpec
INVARIANTS RequestsArePaired OnlyRequiredRuns DirectNeedsProposal
PROPERTIES StatusIsFinal RunIsDecided
CHECK_DEADLOCK FALSE
