SPECIFICATION Spec
CONSTANTS
    Subs = {s1}
    Lead = lead
    MaxConcurrent = 1
    MaxTotal = 1
    TokenBudget = 1
    Tokens = {1}
    MaxMsgs = 1
    MaxWaits = 1
    MaxDeaths = 0
    MaxRestarts = 0
INVARIANT NoMessageSwallowed
CHECK_DEADLOCK FALSE
