SPECIFICATION FairSpec
CONSTANTS
    Tasks = {t1, t2, t3}
    Size = 2
    Conns = {c1, c2, c3}
    None = None
    MaxFailures = 1
INVARIANTS TypeOK OneOwner SlotsAccounted ReadyIsWhole NoOrphans ClosedIsClosed
PROPERTIES OpenAndCloseReturn TimedAcquireReturns
