SPECIFICATION FairSpec
CONSTANTS
    Threads = {t1, t2, t3}
    Size = 2
    Conns = {c1, c2, c3}
    None = None
INVARIANTS TypeOK OneOwner SlotsAccounted NoOrphans IdleIsOpen
PROPERTIES CloseReturns TimedAcquireReturns
