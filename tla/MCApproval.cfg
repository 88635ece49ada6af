SPECIFICATION Spec
CONSTANTS
    Client = {c1, c2}
    Runtime = {r1, r2}
    GitHead = {"git", "plain"}
    MaxCalls = 3
    MaxCrashes = 0
    MaxEdits = 1
    MaxProposals = 2
SYMMETRY Symmetry
INVARIANTS
    ApprovedOnly
    OfferIsFresh
    ReceiptMatches
    NoFault
    OneRuntime
    SmokeBeforeRetry
CHECK_DEADLOCK FALSE
