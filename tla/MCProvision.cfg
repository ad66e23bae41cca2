SPECIFICATION FairSpec
CONSTANTS
    Proc = {p1, p2}
    Shared = FALSE
    Block = {1, 2}
    MaxFaults = 2
    Earlier = {{"config", "raw"}}
INVARIANTS TypeOK PartialOnlyIfMixed ReadyIsComplete 
PROPERTIES FinishedWorkStays ComesUpAgain
