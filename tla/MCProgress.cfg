SPECIFICATION FairSpec
CONSTANTS
    Client = {c1}
    Runtime = {r1}
    GitHead = {"git", "plain"}
    MaxCalls = 2
    MaxCrashes = 0
    MaxEdits = 1
    MaxProposals = 2
PROPERTIES
    InvestigationEnds
    ApprovalIsCarriedOut
    RetryIsSettledByExit
CHECK_DEADLOCK FALSE
