SPECIFICATION FairSpec
CONSTANTS
    Client = {c1}
    Runtime = {r1}
    GitHead = {"git"}
    MaxCalls = 1
    MaxCrashes = 0
    MaxEdits = 0
    MaxProposals = 1
PROPERTY RetryIsSettled
CHECK_DEADLOCK FALSE
