SPECIFICATION Spec
CONSTANTS
    NMsg = 4
    Text = {"a", "b", "short"}
    TooShort = {"short"}
    Mates <- MCMates
    Inputs <- MCInputs
    ReadAs = {"jsonl", "plain"}
    Formats = {"npy", "parquet"}
    RowGroup = 2
INVARIANT RowNIsInputN
