SPECIFICATION Spec
CONSTANTS
    api = api
    client = client
    report = report
    Nodes = {api, client}
    DependsOn <- Pair
    Services = {api}
    Timed = {}
    Captured = {api, client}
    Mode = "json"
    Codes = {0, 5}
    Signals = {}
    Forks = {}
    Faults = {}
PROPERTIES
    CancelledRunsExit130
