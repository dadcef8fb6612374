SPECIFICATION Spec
CONSTANTS
    Agents = {"a1"}
    Calls = {"c1", "c2"}
    Caller <- MCCaller
    Retries = 1
    Capacity = 1
    MaxRestarts = 1
INVARIANTS TypeOK BookedOnce Informed BlockTakesHold
