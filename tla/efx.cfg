SPECIFICATION Spec
CONSTANTS
    Plans <- Sites
    Registered = {"cmd", "html", "file"}
    Values = {"v1"}
    MaxApplies = 3
    MaxFailures = 2
    MaxCrashes = 1
INVARIANTS TypeOK JournalTellsTheTruth RunFollowsTheGraph
PROPERTY SavedIsFinal
CHECK_DEADLOCK FALSE
