SPECIFICATION Spec
CONSTANTS
    JobIds = {j1}
    Cells = {c1}
    QuietJobs = {j1}
    FinalizeRetries = 0
    MaxOutput = 1
    MaxFaults = 1
    MaxKills = 1
    MaxDrops = 0
    MaxMishaps = 1
    MaxAwaits = 1
INVARIANTS TypeOK OutputBeforeTransition
PROPERTIES ImplementsJobLife
CHECK_DEADLOCK FALSE
