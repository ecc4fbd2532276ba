SPECIFICATION FairSpec
CONSTANTS
    MaxCalls = 2
    MaxParts = 2
    Unlimited = Unlimited
    Clients <- MCClients
    LastDelay = 2
INVARIANTS TypeOK AtMostOnce FailedUnsent OwnAnswerIfClean AnsweredLeavesQuiet BudgetKept
PROPERTIES TimedCallEnds KeepsPromise
