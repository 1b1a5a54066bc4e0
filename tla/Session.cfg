CONSTANTS
    Id = {i1, i2}
    None = None
    Uses = {"GetBlockHeaders", "BroadcastTx", "Ping"}
    Lines <- SomeLines
    InboxCap = 2
SPECIFICATION Spec
INVARIANTS TypeOK AnswersFit AnsweredOnce
PROPERTIES ReaderSurvives EncryptedAsAsked AnswersArrive TipsArrive DialEnds
CHECK_DEADLOCK FALSE
