CONSTANTS
    Loggers = {w1, w2}
    webhookQueueSize = 2
    webhookAttempts = 3
    MaxSeq = 3
    MaxUnnumbered = 1
CHECK_DEADLOCK FALSE
SPECIFICATION FairSpec
INVARIANTS NoneLostOrOvertaken
PROPERTIES EverySettled
