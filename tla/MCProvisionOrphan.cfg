SPECIFICATION Spec
CONSTANTS
    Proc = {p1, p2}
    Shared = FALSE
    Block = {1, 2}
    MaxFaults = 1
    Earlier = {{"config", "raw"}}
INVARIANT DownloadsAreWhole
