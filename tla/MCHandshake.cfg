SPECIFICATION FairSpec
CONSTANTS
    Agents = {A, B}
    Attempts = {1, 2}
    NoAgent = NoAgent
    Wirings = {{A, B}, {A}}
    Retries = 1
    MaxFaults = 1
INVARIANTS TypeOK Mutual FailsForCause
PROPERTY QueuedCompletes
CHECK_DEADLOCK FALSE
