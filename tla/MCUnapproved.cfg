SPECIFICATION Spec
CONSTANTS
    Client = {c1}
    Runtime = {r1, r2}
    GitHead = {"git"}
    MaxCalls = 1
    MaxCrashes = 1
    MaxEdits = 0
    MaxProposals = 2
INVARIANT ApprovedOnly
CHECK_DEADLOCK FALSE
