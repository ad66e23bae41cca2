SPECIFICATION FairSpec
CONSTANTS
    NMsg = 3
    Text <- MCTexts
    Inputs <- MCInputs
    TooShort <- MCTooShort
    TokLen <- MCTokLen
    Hash <- MCHash
    Capacity = 2
    BucketLen <- MCBucketLen
    BatchSize <- MCBatchSize
    SessionSets <- MCSessions
    Tok = {t1, t2}
    InCap = 1
    BucketCap = 1
    OutCap = 1
INVARIANTS TypeOK NothingLost EndMeansAnswered RightVector ReceiverOutlivesSenders ReportAddsUp
PROPERTIES FullUntilFlush ContractHolds Terminates
