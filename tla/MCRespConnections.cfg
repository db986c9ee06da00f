CONSTANTS
    Kinds <- AllKinds
    MaxCommands = 2
    MaxPipeline = 1
    OutCap = 1
    MaxFaults = 1
    MaxPushes = 1
SPECIFICATION FairSpec
CHECK_DEADLOCK FALSE
INVARIANTS
    TypeOK
    ExecutedAsSent
    AnswersInOrder
    LossIsExplained
PROPERTIES
    MessagesEnd
    ExecutedIsAnswered
