SPECIFICATION Spec
CONSTANTS
    MaxCalls = 2
    MaxParts = 1
    Unlimited = Unlimited
    Clients <- MCThreaded
    LastDelay = 1
INVARIANTS GivesUpAtTheDeadline
