CONSTANTS
    t1 = t1
    k1 = k1
    k2 = k2
    e1 = e1
    e2 = e2
    Tasks <- OneTask
    Sweeps <- TwoSweeps
    Executions <- TwoExecutions
    Original <- e1
    MaxIterations = 2
    MaxLag = 2
    Intents = {"qa", "compare", "statistics"}
SPECIFICATION PartsSpec
CHECK_DEADLOCK FALSE
INVARIANTS
    ConversationTypeOK
    RecordIsOutcome
    OutcomeIsDelivered
    DoneIsReviewed
PROPERTIES
    FinalStands
    YoungIsSpared
    QuestionEnds
