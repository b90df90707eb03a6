SPECIFICATION Spec
CONSTANTS
    JobIds = {j1}
    Cells = {}
    QuietJobs = {}
    FinalizeRetries = 1
    MaxOutput = 0
    MaxFaults = 1
    MaxKills = 1
    MaxDrops = 1
    MaxMishaps = 2
    MaxAwaits = 0
INVARIANTS NoSilentDeath SuppressionIsEarned
PROPERTIES EveryJobIsAccountedFor AwaitsEnd EveryFinishIsTold
CHECK_DEADLOCK FALSE
