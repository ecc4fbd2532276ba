SPECIFICATION Spec
CONSTANTS
    Threads = {t1, t2}
    Size = 1
    Conns = {c1, c2}
    None = None
INVARIANTS ClosedPoolIsClosed
