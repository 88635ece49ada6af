SPECIFICATION Spec
CONSTANTS
    Client = {c1}
    Runtime = {r1, r2}
    GitHead = {"git"}
    MaxCalls = 1
    MaxCrashes = 2
    MaxEdits = 0
    MaxProposals = 2
SYMMETRY Symmetry
INVARIANTS
    SmokeIsRecorded
    ProposalHasDiff
    RolledBackIsGone
    DiagnosingHasTask
PROPERTIES
    LifecycleSpec
CHECK_DEADLOCK FALSE
