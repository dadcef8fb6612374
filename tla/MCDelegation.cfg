SPECIFICATION FairSpec
CONSTANTS
    Calls = {c1}
    Tasks = {k1, k2}
    NoCall = NoCall
    NoTask = NoTask
    Retries = 2
    PollMax = 2
    Persistent = {k1}
    MaxRestarts = 1
INVARIANTS TypeOK OnceALife Truthful HeldAsAnswered
PROPERTIES ImplementsRemoteResults CallsEnd ResultsLand
CHECK_DEADLOCK FALSE
