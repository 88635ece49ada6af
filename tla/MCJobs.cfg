CONSTANTS
    Job = {j1}
    MaxAttempts = 2
    MaxLives = 2
    MaxErrors = 1
SPECIFICATION FairSpec
INVARIANTS SealedIsOver OneLiveAttempt ActiveIsWatched RecordsAgree
PROPERTY RequestsEnd
CHECK_DEADLOCK FALSE
