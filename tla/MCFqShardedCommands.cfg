SPECIFICATION Spec
CONSTANTS
    N = 3
    Keys = {a, b, c}
    MaxKeys = 3
SYMMETRY Symmetry
INVARIANTS TypeOK DeletesAsOne FailsInOrder FlushIsWhole OpenAllOrNone
