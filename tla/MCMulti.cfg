SPECIFICATION FairSpec
CONSTANTS
    NMsg = 3
    Text <- MCTexts
    Inputs <- MCInputs
    TooShort <- MCTooShort
    TokLen <- MCTokLen
    Hash <- MCHash
    Capacity = 2
    BucketLen <- MCBucketLen
    BatchSize <- MCBatchSize
    SessionSets <- MCSessions
    Gpu <- MCGpu
    BatchTimeout = TRUE
    Tok = {t1, t2}
    InCap = 1
    BucketCap = 1
    BatchCap = 1
    OutCap = 1
INVARIANTS TypeOK NothingLost BatchMeetsItsSession ReceiverOutlivesSenders ReportAddsUp
PROPERTIES ContractHolds Terminates PartialBatchFires
