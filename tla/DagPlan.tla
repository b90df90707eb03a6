------------------------------- MODULE DagPlan -------------------------------
(***************************************************************************)
(* dag-runner before it spawns anything: main filters the spec by --only,  *)
(* validates it, resolves the output mode and, in run, orders the nodes.    *)
(* Each step either fails, and the runner exits with an error, or hands a  *)
(* smaller set of possibilities to the next one.                           *)
(*                                                                         *)
(* A name is a natural number, so that the lexicographic order the code    *)
(* sorts by is <.  The two depth-first walks go call by call: a step is a  *)
(* call of visit_cycle or visit_topo, or a return from one.                *)
(***************************************************************************)
EXTENDS Integers, Sequences, SequencesExt

CONSTANTS
    Names,        \* the names a spec or --only may mention
    Invocations   \* how the runner is called

\* What validation and ordering look at in a NodeSpec.
NodeSpec == [command : {"empty", "argv"},
             depends_on : Seq(Names),
             kind : {"task", "service"},
             ready_when : {"none", "tcp", "http", "log_line"},
             timeout_secs : BOOLEAN,
             stdio : {"capture", "prefixed", "inherit"},
             lifeline_fd : SUBSET Int]     \* {} or {fd}

OutputModes == {"auto", "tui", "plain", "json"}

\* The spec that was parsed, --only ({} when absent), --output, and whether
\* stdout is a terminal.
ASSUME PlanAssumption ==
    /\ Names \subseteq Nat
    /\ \A call \in Invocations :
          /\ DOMAIN call.spec \subseteq Names
          /\ \A n \in DOMAIN call.spec : call.spec[n] \in NodeSpec
          /\ call.only \subseteq Names
          /\ call.output \in OutputModes
          /\ call.terminal \in BOOLEAN

VARIABLES
    call,     \* the invocation
    nodes,    \* spec.nodes
    stage,    \* the next step of main
    mode,     \* the resolved mode
    cycle,    \* the path the cycle error prints
    order,    \* the order in which run spawns the futures
    todo,     \* names the outer loop of a walk has not reached
    stack,    \* the calls a walk is in: the stack of visit_cycle
    at,       \* how far each call's loop over depends_on has got
    gray, black,   \* the colours of detect_cycle
    visited   \* the names visit_topo has met

planVars == <<call, nodes, stage, mode, cycle, order>>
walkVars == <<todo, stack, at, gray, black, visited>>
vars == <<planVars, walkVars>>

only == call.only

Init ==
    /\ call \in Invocations
    /\ nodes = call.spec
    /\ stage = "filter"
    /\ mode = "none"
    /\ cycle = <<>>
    /\ order = <<>>
    /\ todo = {} /\ stack = <<>> /\ at = [n \in Names |-> 0]
    /\ gray = {} /\ black = {} /\ visited = {}

Deps(n) == Range(nodes[n].depends_on)
-----------------------------------------------------------------------------
\* filter_only: unknown names first, then retain, then dangling edges.
KeepOnly == [n \in DOMAIN nodes \cap only |-> nodes[n]]

\* Mutant: edges to nodes that are not kept are dropped with them.
FilterPrunes ==
    /\ stage = "filter"
    /\ stage' = IF only \subseteq DOMAIN nodes THEN "validate" ELSE "unknown_only"
    /\ nodes' = IF only = {} THEN nodes
                ELSE [n \in DOMAIN nodes \cap only |->
                        [nodes[n] EXCEPT !.depends_on =
                            SelectSeq(@, LAMBDA d : d \in only)]]
    /\ UNCHANGED <<call, mode, cycle, order, walkVars>>

FilterOnly ==
    /\ stage = "filter"
    /\ \/ /\ only = {}
          /\ stage' = "validate"
          /\ UNCHANGED nodes
       \/ /\ only # {}
          /\ ~(only \subseteq DOMAIN nodes)
          /\ stage' = "unknown_only"
          /\ UNCHANGED nodes
       \/ /\ only # {}
          /\ only \subseteq DOMAIN nodes
          /\ nodes' = KeepOnly
          /\ stage' = IF \A n \in only : Deps(n) \subseteq only
                      THEN "validate" ELSE "dangling"
    /\ UNCHANGED <<call, mode, cycle, order, walkVars>>
-----------------------------------------------------------------------------
\* validate_node
ValidNode(node) ==
    /\ node.command # "empty"
    /\ (node.kind = "service") <=> (node.ready_when # "none")
    /\ node.kind = "service" => ~node.timeout_secs
    /\ ~(node.stdio = "inherit" /\ node.ready_when = "log_line")
    /\ \A fd \in node.lifeline_fd : fd >= 3

\* What either walk starts from: the outer loop has every name ahead, no call
\* is active.
StartWalk ==
    /\ todo' = DOMAIN nodes
    /\ stack' = <<>>
    /\ at' = [n \in Names |-> 0]

ValidateNodes ==
    /\ stage = "validate"
    /\ IF \A n \in DOMAIN nodes :
             ValidNode(nodes[n]) /\ Deps(n) \subseteq DOMAIN nodes
       THEN stage' = "cycle" /\ StartWalk
       ELSE stage' = "invalid" /\ UNCHANGED <<todo, stack, at>>
    /\ UNCHANGED <<call, nodes, mode, cycle, order, gray, black, visited>>
-----------------------------------------------------------------------------
(* The control of a walk.                                                  *)

Top == stack[Len(stack)]

\* The loop of the innermost call is over.
LoopEnds == stack # <<>> /\ at[Top] = Len(nodes[Top].depends_on)

\* The next call is for n: the first name the outer loop has left, in sorted
\* order, or the next dependency of the innermost call.
Calls(n) ==
    \/ /\ stack = <<>>
       /\ n \in todo /\ \A m \in todo : n <= m
    \/ /\ stack # <<>>
       /\ at[Top] < Len(nodes[Top].depends_on)
       /\ n = nodes[Top].depends_on[at[Top] + 1]

\* The loop the call for n comes from moves on.
Advance(n) ==
    IF stack = <<>> THEN todo' = todo \ {n} /\ UNCHANGED at
    ELSE at' = [at EXCEPT ![Top] = @ + 1] /\ UNCHANGED todo

Enter(n) == stack' = Append(stack, n)
Leave == stack' = SubSeq(stack, 1, Len(stack) - 1)

WalkEnds == stack = <<>> /\ todo = {}
-----------------------------------------------------------------------------
(* detect_cycle                                                            *)

\* A gray name closes a cycle, and the error ends every call at once; a black
\* one is left alone; any other turns gray and its dependencies follow.
VisitCycle(n) ==
    /\ stage = "cycle"
    /\ Calls(n)
    /\ Advance(n)
    /\ \/ /\ n \in gray
          /\ cycle' = Append(stack, n)
          /\ stage' = "cyclic"
          /\ UNCHANGED <<stack, gray>>
       \/ /\ n \in black
          /\ UNCHANGED <<stack, gray, cycle, stage>>
       \/ /\ n \notin gray \cup black
          /\ Enter(n)
          /\ gray' = gray \cup {n}
          /\ UNCHANGED <<cycle, stage>>
    /\ UNCHANGED <<call, nodes, mode, order, black, visited>>

\* Mutant: a node that was left stays gray.
NeverBlack ==
    /\ stage = "cycle"
    /\ LoopEnds
    /\ Leave
    /\ UNCHANGED <<planVars, todo, at, gray, black, visited>>

CycleReturns ==
    /\ stage = "cycle"
    /\ LoopEnds
    /\ Leave
    /\ gray' = gray \ {Top}
    /\ black' = black \cup {Top}
    /\ UNCHANGED <<planVars, todo, at, visited>>

\* Mutant: the outer loop ends with its first name.
CycleFromFirst ==
    /\ stage = "cycle"
    /\ stack = <<>> /\ todo # DOMAIN nodes
    /\ stage' = "mode"
    /\ UNCHANGED <<call, nodes, mode, cycle, order, walkVars>>

\* The outer loop is through without an error.
NoCycle ==
    /\ stage = "cycle"
    /\ WalkEnds
    /\ stage' = "mode"
    /\ UNCHANGED <<call, nodes, mode, cycle, order, walkVars>>
-----------------------------------------------------------------------------
Inheriting == {n \in DOMAIN nodes : nodes[n].stdio = "inherit"}

\* Mutant: auto picks the spinners on any terminal.
AutoIgnoresInherit ==
    /\ stage = "mode"
    /\ mode' = IF call.output # "auto" THEN call.output
               ELSE IF call.terminal THEN "tui" ELSE "plain"
    /\ stage' = IF call.output \in {"tui", "json"} /\ Inheriting # {}
                THEN "bad_mode" ELSE "order"
    /\ IF stage' = "order" THEN StartWalk ELSE UNCHANGED <<todo, stack, at>>
    /\ UNCHANGED <<call, nodes, cycle, order, gray, black, visited>>

ResolveMode ==
    /\ stage = "mode"
    /\ \/ /\ call.output = "auto"
          /\ mode' = IF Inheriting = {} /\ call.terminal THEN "tui" ELSE "plain"
          /\ stage' = "order"
       \/ /\ call.output \in {"tui", "json"} /\ Inheriting # {}
          /\ stage' = "bad_mode"
          /\ UNCHANGED mode
       \/ /\ call.output = "plain" \/ (call.output \in {"tui", "json"} /\ Inheriting = {})
          /\ mode' = call.output
          /\ stage' = "order"
    /\ IF stage' = "order" THEN StartWalk ELSE UNCHANGED <<todo, stack, at>>
    /\ UNCHANGED <<call, nodes, cycle, order, gray, black, visited>>
-----------------------------------------------------------------------------
(* topological_order                                                       *)

\* A name that was met returns at once.
VisitTopo(n) ==
    /\ stage = "order"
    /\ Calls(n)
    /\ Advance(n)
    /\ visited' = visited \cup {n}
    /\ IF n \in visited THEN UNCHANGED stack ELSE Enter(n)
    /\ UNCHANGED <<planVars, gray, black>>

\* Mutant: a name is pushed before its dependencies are visited.
PreOrder ==
    /\ stage = "order"
    /\ stack # <<>>
    /\ Leave
    /\ order' = Append(order, Top)
    /\ UNCHANGED <<call, nodes, stage, mode, cycle, todo, at, gray, black, visited>>

TopoReturns ==
    /\ stage = "order"
    /\ LoopEnds
    /\ Leave
    /\ order' = Append(order, Top)
    /\ UNCHANGED <<call, nodes, stage, mode, cycle, todo, at, gray, black, visited>>

\* run has the order and goes on to spawn.
Ordered ==
    /\ stage = "order"
    /\ WalkEnds
    /\ stage' = "run"
    /\ UNCHANGED <<call, nodes, mode, cycle, order, walkVars>>
-----------------------------------------------------------------------------
Rejections == {"unknown_only", "dangling", "invalid", "cyclic", "bad_mode"}

\* run has taken over, or the runner exited with an error.
Planned == stage \in Rejections \cup {"run"} /\ UNCHANGED vars

Next ==
    \/ FilterOnly
    \/ ValidateNodes
    \/ \E n \in Names : VisitCycle(n) \/ VisitTopo(n)
    \/ CycleReturns
    \/ NoCycle
    \/ ResolveMode
    \/ TopoReturns
    \/ Ordered
    \/ Planned

Spec == Init /\ [][Next]_vars
-----------------------------------------------------------------------------
(* Properties                                                              *)

\* The reference definition of a graph without a cycle: in every set of nodes
\* there is one that needs no other of the set.
Acyclic ==
    \A S \in SUBSET DOMAIN nodes :
        S # {} => \E n \in S : Deps(n) \cap S = {}

\* detect_cycle lets only acyclic graphs through, and the path of its error
\* is an actual walk along depends_on that ends where it has already been.
CycleIsReal ==
    /\ stage \in {"mode", "bad_mode", "order", "run"} => Acyclic
    /\ stage = "cyclic" =>
          /\ \A i \in 1..(Len(cycle) - 1) :
                cycle[i] \in DOMAIN nodes /\ cycle[i + 1] \in Deps(cycle[i])
          /\ \E i \in 1..(Len(cycle) - 1) : cycle[i] = cycle[Len(cycle)]

\* The spawn order names every node once and each after its dependencies:
\* run indexes ready[dep] and would panic on a name it has not met.
OrderIsTopological ==
    stage = "run" =>
        /\ Range(order) = DOMAIN nodes
        /\ \A i, j \in DOMAIN order : order[i] = order[j] => i = j
        /\ \A i \in DOMAIN order :
              Deps(order[i]) \subseteq {order[j] : j \in 1..(i - 1)}

\* --only never runs a node without the nodes it needs and never drops an
\* edge: what runs is the input restricted to a set closed under depends_on.
OnlyKeepsClosedGraphs ==
    stage = "run" =>
        /\ \A n \in DOMAIN nodes : nodes[n] = call.spec[n]
        /\ DOMAIN nodes = IF only = {} THEN DOMAIN call.spec ELSE only
        /\ \A n \in DOMAIN nodes : Deps(n) \subseteq DOMAIN nodes

\* What reaches run satisfies what the run-time relies on: the expects of
\* run_service and the constants' assumptions of DagRunner.
PlanIsRunnable ==
    stage = "run" =>
        /\ mode \in OutputModes \ {"auto"}
        /\ mode # "plain" => Inheriting = {}
        /\ \A n \in DOMAIN nodes :
              LET node == nodes[n] IN
              /\ node.kind = "service" => node.ready_when # "none" /\ ~node.timeout_secs
              /\ node.ready_when = "log_line" => node.stdio # "inherit"

\* The pipeline always gets to a verdict, and refuses only what breaks a rule:
\* a spec with good nodes, known and acyclic dependencies runs in auto mode.
GoodSpecsRun ==
    stage \in Rejections /\ call.output = "auto" =>
        \/ only # {} /\ ~(only \subseteq DOMAIN call.spec)
        \/ \E n \in DOMAIN nodes :
              \/ ~ValidNode(nodes[n])
              \/ ~(Deps(n) \subseteq DOMAIN nodes)
        \/ ~Acyclic
=============================================================================
