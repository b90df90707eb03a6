SPECIFICATION Spec
CONSTANTS
    api = api
    client = client
    report = report
    Nodes = {api, client}
    DependsOn <- Pair
    Services = {api}
    Timed = {client}
    Captured = {api}
    Mode = "plain"
    Codes = {0, 5}
    Signals = {9}
    Forks = {"grouped", "escaped"}
    Faults = {"spawn", "wait", "kill", "stdout", "utf8"}
INVARIANTS
    TypeOK
    SignalsOnlyHeldGroups
    SettledNodesAreGone
    AbortsHaveACulprit
    ZeroExitIsClean
PROPERTIES
    ImplementsRunGroup
