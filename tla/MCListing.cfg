SPECIFICATION FairSpec
CONSTANTS
    Agents = {a1, a2}
    MaxAgents = 1
    EntryTTL = 2
    Serving = {a1}
    Registering = {a1, a2}
    Flows = 2
    Interval = 1
    Slack = 0
    Losses = 1
    MaxStops = 1
    MaxRestarts = 1
INVARIANTS TypeOK StaysListed NoOrphanUnlessRaced CapacityUnlessCrowded
PROPERTIES NeverOlder LoopStarts LeavesWhenSilent
CHECK_DEADLOCK FALSE
