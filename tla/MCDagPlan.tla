------------------------------ MODULE MCDagPlan ------------------------------
(***************************************************************************)
(* Two families of specs for DagPlan: every graph on three names, with     *)
(* repeated, self and unknown dependencies, over plain tasks; and two      *)
(* connected nodes of which one has every combination of fields.           *)
(***************************************************************************)
EXTENDS DagPlan

CONSTANTS MaxDeps, Unknown

MCNames == 1..Unknown

DepLists == UNION {[1..k -> MCNames] : k \in 0..MaxDeps}

PlainTask(deps) ==
    [command |-> "argv", depends_on |-> deps, kind |-> "task",
     ready_when |-> "none", timeout_secs |-> FALSE, stdio |-> "capture",
     lifeline_fd |-> {}]

GraphSpecs ==
    {[n \in 1..(Unknown - 1) |-> PlainTask(deps[n])] :
        deps \in [1..(Unknown - 1) -> DepLists]}

FieldSpecs ==
    {[n \in 1..2 |-> IF n = 1 THEN node ELSE PlainTask(<<1>>)] :
        node \in [command : {"empty", "argv"}, depends_on : {<<>>},
                  kind : {"task", "service"},
                  ready_when : {"none", "tcp", "log_line"},
                  timeout_secs : BOOLEAN,
                  stdio : {"capture", "prefixed", "inherit"},
                  lifeline_fd : {{}, {2}, {3}}]}

MCInvocations ==
    [spec : GraphSpecs, only : {{}, {1}, {1, 2}, {2, Unknown}},
     output : {"auto"}, terminal : {FALSE}]
    \cup
    [spec : FieldSpecs, only : {{}, {1}}, output : OutputModes, terminal : BOOLEAN]
=============================================================================
