CONSTANTS
    Terminals = {t1}
    Editors = {v1}
    Requests = {r1, r2}
    Plain = {1}
    QueueSize = 2
    HighWater = 0
    MaxAttempts = 0
    MaxNotes = 1
    MaxTokens = 1
    MaxRunEvents = 2
    MaxFailures = 0
    MaxSubscribes = 2
    Talkers = {t1}
    MaxAnswers = 1
SYMMETRY Symmetry
SPECIFICATION Spec
INVARIANTS BarrierWillLift BufferIsBounded NoStateLost
CHECK_DEADLOCK FALSE
