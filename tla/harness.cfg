SPECIFICATION Spec
CONSTANTS
    Subs = {s1, s2, s3}
    Lead = lead
    MaxConcurrent = 1
    MaxTotal = 2
    TokenBudget = 1
    Tokens = {2}
    MaxMsgs = 2
    MaxWaits = 1
    MaxDeaths = 1
    MaxRestarts = 1
INVARIANTS TypeOK Caps RosterNeverBuriesTheLiving EveryRunReportsOnce
PROPERTY TerminatedAndSpentAreFinal
SYMMETRY Symmetry
CHECK_DEADLOCK FALSE
