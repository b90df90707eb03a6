SPECIFICATION Spec
CONSTANTS
    Subs = {s1}
    Lead = lead
    MaxConcurrent = 1
    MaxTotal = 2
    TokenBudget = 1
    Tokens = {2}
    MaxMsgs = 2
    MaxWaits = 2
    MaxDeaths = 1
    MaxRestarts = 1
INVARIANTS HandedOutInOrder IdleMeansNothingPending
PROPERTIES MessagesAreTakenUp SlotsComeBack TimedWaitsEnd
CHECK_DEADLOCK FALSE
