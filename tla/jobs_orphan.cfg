SPECIFICATION Spec
CONSTANTS
    JobIds = {j1}
    Cells = {}
    QuietJobs = {}
    FinalizeRetries = 1
    MaxOutput = 0
    MaxFaults = 0
    MaxKills = 1
    MaxDrops = 0
    MaxMishaps = 1
    MaxAwaits = 0
PROPERTY NotificationIsNeverLost
CHECK_DEADLOCK FALSE
