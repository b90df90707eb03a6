SPECIFICATION Spec
CONSTANTS
    api = api
    client = client
    report = report
    Nodes = {api, client, report}
    DependsOn <- ClientServer
    Services = {api}
    Timed = {client}
    Captured = {api, client, report}
    Mode = "json"
    Codes = {0, 5}
    Signals = {}
    Forks = {"grouped"}
    Faults = {"spawn", "wait", "kill"}
INVARIANTS
    StartedAfterDepsReady
    SkipsAreJustified
    DrainedAfterLastTask
PROPERTIES
    ShutdownIsFinal
    ShutdownEndsTheRun
    DeadServiceIsNoticed
    DependentsAreDecided
