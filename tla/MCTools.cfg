CONSTANTS
    Header = 3
    TailBytes = 4
    BlockBytes = 5
    CapsuleBytes = 3
    ChunkBytes = 2
    ResultBytes = 4
    Context = 1
    EvidenceBytes = 14
    SmokeBytes = 8
    FileBytes = 5
    MaxResults = 1
    Script <- MCScript
    World <- MCWorld
    Limits = {3, 4}
    Ranges <- MCRanges
    Query <- MCQuery
    Replacement <- MCReplacement
SPECIFICATION Spec
INVARIANTS CitedWasRead ExceptionIsKept SearchFinds OfferIsExact
CHECK_DEADLOCK FALSE
