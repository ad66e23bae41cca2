SPECIFICATION Spec
CONSTANTS
    Stem <- MCStem
    None = "none"
    Clean <- MCClean
    Bytes <- MCBytes
    Width <- MCWidth
    MaxBytes = 8
    MinBytes = 4
    Prefix <- MCPrefix
    Encode <- MCEncode
    VocabFile <- MCVocab
    RuntimeMax = 2
    KeyMax = 6
    Cls = 1
    Sep = 2
    MaxLen = 5
    SeqLen = 5
    BatchSize = 3
    Allocs <- MCAllocs
    MaxFaults = 2
    Inputs <- MCInputs
    Timeout = 2
    FlushEvery = 2
    BucketCap = 1
    BatchCap = 1
INVARIANTS TypeOK ArraysAreTheText FaultCostsOneBatch WaitIsBounded SkippedAreShort CountersAddUp
