SPECIFICATION Spec
CONSTANTS
    JobIds = {j1}
    Cells = {}
    QuietJobs = {}
    FinalizeRetries = 1
    MaxOutput = 0
    MaxFaults = 1
    MaxKills = 0
    MaxDrops = 0
    MaxMishaps = 1
    MaxAwaits = 0
INVARIANT NotifierSurvives
CHECK_DEADLOCK FALSE
