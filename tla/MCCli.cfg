SPECIFICATION Spec
CONSTANTS
    NMsg = 4
    Text = {"a", "b", "short"}
    TooShort = {"short"}
    Mates <- MCMates
    Inputs <- MCInputs
    ReadAs = {"jsonl", "plain"}
    Formats = {"npy", "parquet"}
    RowGroup = 2
INVARIANTS TypeOK RowsInOrder RowNamesItsLine NothingHeldBack NoGapAtEnd ReadableIsComplete OkMeansAllThere
