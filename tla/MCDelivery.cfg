CONSTANTS
    Terminals = {t1}
    Editors = {}
    Requests = {r1}
    Plain = {1}
    QueueSize = 1
    HighWater = 0
    MaxAttempts = 1
    MaxNotes = 0
    MaxTokens = 0
    MaxRunEvents = 1
    MaxFailures = 1
    MaxSubscribes = 2
    Talkers = {}
    MaxAnswers = 0
SPECIFICATION FairSpec
INVARIANT SeqsAreContiguous
PROPERTIES ChannelSpec JobEventsArrive
CHECK_DEADLOCK FALSE
