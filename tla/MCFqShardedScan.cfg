SPECIFICATION FairSpec
CONSTANTS
    Shards = 3
    Last = 3
    Stable <- MCStable
    Counts = {1, 2, 4}
    MaxFailures = 2
    Initial = Initial
INVARIANTS TypeOK NoRepeat Complete CountKept
PROPERTIES SingleScan ScanEnds
