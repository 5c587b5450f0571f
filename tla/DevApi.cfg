SPECIFICATION Spec
CONSTANTS
    Ids = {a, b}
    SyncIds = {b}
    Callers = {p}
    Workers = 2
    Retention = 1
    MaxTime = 2
INVARIANTS
    TypeOK
    FinalAnswerComplete
    NotFoundMeansOld
    FirstComeFirstServed
PROPERTIES
    AnswersNeverGoBack
    EverySubmitAnswered
CHECK_DEADLOCK FALSE
