SPECIFICATION FairSpec
CONSTANTS
    Agents = {A, B}
    Attempts = {1}
    NoAgent = NoAgent
    Wirings = {{A, B}}
    Retries = 0
    MaxFaults = 0
PROPERTY Consolidates
CHECK_DEADLOCK FALSE
