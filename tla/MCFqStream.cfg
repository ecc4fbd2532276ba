SPECIFICATION FairSpec
CONSTANTS
    Shards = {1, 2}
    Unlimited = Unlimited
    Clients <- MCClients
    Used <- MCUsed
    LastDelay = 2
    MaxEvents = 2
    Flaky = {1}
    MaxFailures = 3
INVARIANTS TypeOK EventsKept Gapless RetriesSpent
PROPERTIES Resubscribes StreamCloses
