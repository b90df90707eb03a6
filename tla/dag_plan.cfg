SPECIFICATION Spec
CONSTANTS
    MaxDeps = 2
    Unknown = 4
    Names <- MCNames
    Invocations <- MCInvocations
INVARIANTS
    GoodSpecsRun
    CycleIsReal
    OrderIsTopological
    OnlyKeepsClosedGraphs
    PlanIsRunnable
