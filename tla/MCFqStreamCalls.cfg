SPECIFICATION Spec
CONSTANTS
    Shards = {1, 2}
    Unlimited = Unlimited
    Clients <- MCClients
    Used = {}
    LastDelay = 2
    MaxEvents = 2
    Flaky = {1}
    MaxFailures = 3
INVARIANTS CallsReadAnswers
