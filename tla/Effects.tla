------------------------------- MODULE Effects -------------------------------
(***************************************************************************)
(* packages/efx: plan and apply over content-addressed effects.  A plan is *)
(* a sequence of effects [name, exec, inputs]; an input is <<"lit", value>>*)
(* or <<"ref", name>>, a wire from another effect's output.  The kind is   *)
(* folded into exec (both enter the identity the same way), every effect   *)
(* has one output field, and SHA-256 is taken to be injective: an identity *)
(* is the document it hashes.                                              *)
(*                                                                         *)
(* An action is one stage of apply/3, one turn of the loops that order the *)
(* effects and group them, one executor thread's work, or the death of the *)
(* process.  One apply runs at a time: the README rules out locking.       *)
(***************************************************************************)
EXTENDS Naturals, SequencesExt

CONSTANTS
    Plans,        \* the plans a user applies
    Registered,   \* the executors in the registry
    Values,       \* what an executor may put in the output field
    MaxApplies,   \* bound: applies that get past the checks
    MaxFailures,  \* bound: executions that fail or panic
    MaxCrashes    \* bound: processes that die or cannot save

ASSUME BoundsAssumption ==
    MaxApplies \in Nat /\ MaxFailures \in Nat /\ MaxCrashes \in Nat
ASSUME PlansAssumption ==
    \A p \in Plans : Len(p) \in Nat /\ DOMAIN p = 1..Len(p)
ASSUME ValuesAssumption ==
    Values \cap {"bare", "failed", "none", "running"} = {}

-----------------------------------------------------------------------------
(* The plan: graph and identities                                          *)

NamesOf(p) == {p[i].name : i \in DOMAIN p}
EffectOf(p, n) == p[CHOOSE i \in DOMAIN p : p[i].name = n]
IsRef(value) == value[1] = "ref"
RefsOf(e) == {e.inputs[k][2] : k \in {k \in DOMAIN e.inputs :
                                        IsRef(e.inputs[k])}}

\* Neither DuplicateName nor UnknownReference.
WellFormed(p) ==
    /\ \A i, j \in DOMAIN p : p[i].name = p[j].name => i = j
    /\ \A i \in DOMAIN p : RefsOf(p[i]) \subseteq NamesOf(p)

\* The reference definition of a dataflow graph without a cycle: in every set
\* of effects there is one that reads from no other of the set.
Acyclic(p) ==
    \A S \in SUBSET NamesOf(p) :
        S # {} => \E n \in S : RefsOf(EffectOf(p, n)) \cap S = {}

\* The plans whose effects have identities.
ValidPlans == {p \in Plans : WellFormed(p) /\ Acyclic(p)}

\* effect_ids: a reference enters as the identity of what it reads from.
EffectIds(p) ==
    LET id[n \in NamesOf(p)] ==
            LET e == EffectOf(p, n)
            IN  <<e.exec, [k \in DOMAIN e.inputs |->
                    IF IsRef(e.inputs[k])
                    THEN <<"ref", id[e.inputs[k][2]]>>
                    ELSE e.inputs[k]]>>
    IN  id

IdOf == [p \in ValidPlans |-> EffectIds(p)]
Names == UNION {NamesOf(p) : p \in Plans}
Ids == UNION {{IdOf[p][n] : n \in NamesOf(p)} : p \in ValidPlans}

-----------------------------------------------------------------------------
VARIABLES
    disk,       \* the journal file: entries by identity
    lastRun,    \* the last run record in the file, <<>> if there is none
    pc,         \* "idle", "order", "group", "stage", "run" or "save"
    plan,       \* the plan being applied
    order,      \* the names topo_order has placed, in order
    cursor,     \* where its pass, then the loop of levels, has got to
    advanced,   \* whether its pass has placed an effect
    depth,      \* the level of the effects that levels has been through
    groups,     \* the number of levels so far
    mem,        \* the journal's entries in memory
    cached,     \* effects the diff found cached
    level,      \* the level being worked on
    outputs,    \* outputs of this run's effects
    halted,     \* effects that did not succeed
    results,    \* this run's records
    jobs,       \* executions of this level: "none", "running" or outcome
    performed,  \* history: how often an identity was executed
    produced,   \* history: what successful executions returned
    applies, failures, crashes

topoVars == <<order, cursor, advanced>>
groupVars == <<depth, groups>>
runVars == <<plan, topoVars, groupVars, mem, cached, level, outputs, halted,
             results, jobs>>
history == <<performed, produced>>
vars == <<disk, lastRun, pc, runVars, history, applies, failures, crashes>>

Outs == Values \cup {"bare"}
Entry == [status: {"none", "succeeded", "failed"}, out: Outs \cup {"none"}]
NoEntry == [status |-> "none", out |-> "none"]
Id(n) == IdOf[plan][n]
Deps(n) == RefsOf(EffectOf(plan, n))

\* The state of a run lives in the process and goes with it.
NoRun == [plan |-> <<>>, order |-> <<>>, cursor |-> 1, advanced |-> FALSE,
          depth |-> [n \in Names |-> 0], groups |-> 0,
          mem |-> [i \in Ids |-> NoEntry], cached |-> {}, level |-> 0,
          outputs |-> [n \in Names |-> "none"], halted |-> {},
          results |-> [n \in Names |-> "none"],
          jobs |-> [n \in Names |-> "none"]]

Forget ==
    /\ plan' = NoRun.plan /\ order' = NoRun.order /\ cursor' = NoRun.cursor
    /\ advanced' = NoRun.advanced /\ depth' = NoRun.depth
    /\ groups' = NoRun.groups /\ mem' = NoRun.mem /\ cached' = NoRun.cached
    /\ level' = NoRun.level /\ outputs' = NoRun.outputs
    /\ halted' = NoRun.halted /\ results' = NoRun.results
    /\ jobs' = NoRun.jobs

Init ==
    /\ disk = [i \in Ids |-> NoEntry]
    /\ lastRun = <<>>
    /\ pc = "idle"
    /\ plan = NoRun.plan /\ order = NoRun.order /\ cursor = NoRun.cursor
    /\ advanced = NoRun.advanced /\ depth = NoRun.depth
    /\ groups = NoRun.groups /\ mem = NoRun.mem /\ cached = NoRun.cached
    /\ level = NoRun.level /\ outputs = NoRun.outputs
    /\ halted = NoRun.halted /\ results = NoRun.results
    /\ jobs = NoRun.jobs
    /\ performed = [i \in Ids |-> 0]
    /\ produced = {}
    /\ applies = 0 /\ failures = 0 /\ crashes = 0

\* Mutant: only the last run is remembered.
CachedByLastRun(i) == \E n \in DOMAIN lastRun :
    lastRun[n].id = i /\ lastRun[n].action = "executed"

IsCached(i) == disk[i].status = "succeeded"

\* apply is called with a plan that could be built and whose references are
\* known, and starts to order it.
Apply(p) ==
    /\ pc = "idle"
    /\ applies < MaxApplies
    /\ WellFormed(p)
    /\ pc' = "order"
    /\ plan' = p
    /\ UNCHANGED <<disk, lastRun, topoVars, groupVars, mem, cached, level,
                   outputs, halted, results, jobs, history, applies, failures,
                   crashes>>

Placed == {order[i] : i \in 1..Len(order)}

\* The i-th effect is without a place and all it reads from have theirs.
Ready(i) == plan[i].name \notin Placed /\ RefsOf(plan[i]) \subseteq Placed

\* topo_order goes through the plan in declaration order, again and again;
\* the next effect that it finds ready gets its place.
Place(i) ==
    /\ pc = "order"
    /\ i \in cursor..Len(plan)
    /\ Ready(i)
    /\ \A j \in cursor..(i - 1) : ~Ready(j)
    /\ order' = Append(order, plan[i].name)
    /\ advanced' = TRUE
    /\ cursor' = i + 1
    /\ UNCHANGED <<disk, lastRun, pc, plan, groupVars, mem, cached, level,
                   outputs, halted, results, jobs, history, applies, failures,
                   crashes>>

\* No effect is ready in what is left of a pass.
PassEnds == pc = "order" /\ \A j \in cursor..Len(plan) : ~Ready(j)

\* There are effects left, and the pass was of use.
NextPass ==
    /\ PassEnds
    /\ Len(order) < Len(plan) /\ advanced
    /\ cursor' = 1
    /\ advanced' = FALSE
    /\ UNCHANGED <<disk, lastRun, pc, plan, order, groupVars, mem, cached,
                   level, outputs, halted, results, jobs, history, applies,
                   failures, crashes>>

\* It was not: PlanError::Cycle.
GivesUp == PassEnds /\ Len(order) < Len(plan) /\ ~advanced

Cycle ==
    /\ GivesUp
    /\ pc' = "idle"
    /\ Forget
    /\ UNCHANGED <<disk, lastRun, history, applies, failures, crashes>>

\* What diff::plan finds in the journal that was loaded.
Hits == {n \in NamesOf(plan) : IsCached(Id(n))}

\* An executor that nobody registered, for an effect that must execute.
Unregistered == {n \in NamesOf(plan) \ Hits :
                    EffectOf(plan, n).exec \notin Registered}

\* The order is complete: the verdicts of the diff, then the check of the
\* executors, which returns before anything has happened.
Diff ==
    /\ PassEnds
    /\ Len(order) = Len(plan)
    /\ \/ /\ Unregistered # {}
          /\ pc' = "idle"
          /\ Forget
          /\ UNCHANGED applies
       \/ /\ Unregistered = {}
          /\ applies' = applies + 1
          /\ pc' = "group"
          /\ mem' = disk
          /\ cached' = Hits
          /\ cursor' = 1
          /\ UNCHANGED <<plan, order, advanced, groupVars, level, outputs,
                         halted, results, jobs>>
    /\ UNCHANGED <<disk, lastRun, history, failures, crashes>>

\* The effects whose depth is known.
Grouped == {order[i] : i \in 1..(cursor - 1)}

\* One more than the deepest effect it reads from.
DepthOf(n) ==
    Max({0} \cup {depth[d] + 1 : d \in RefsOf(EffectOf(plan, n)) \cap Grouped})

\* One turn of the loop in levels.
Group ==
    LET n == order[cursor]
    IN  /\ pc = "group"
        /\ cursor <= Len(order)
        /\ depth' = [depth EXCEPT ![n] = DepthOf(n)]
        /\ groups' = IF groups <= DepthOf(n) THEN DepthOf(n) + 1 ELSE groups
        /\ cursor' = cursor + 1
        /\ UNCHANGED <<disk, lastRun, pc, plan, order, advanced, mem, cached,
                       level, outputs, halted, results, jobs, history, applies,
                       failures, crashes>>

\* The loop over the levels begins, or has nothing to do.
Begin ==
    /\ pc = "group"
    /\ cursor > Len(order)
    /\ pc' = IF groups = 0 THEN "save" ELSE "stage"
    /\ UNCHANGED <<disk, lastRun, runVars, history, applies, failures, crashes>>

AtLevel(l) == {n \in NamesOf(plan) : depth[n] = l}
Position(n) == CHOOSE i \in 1..Len(order) : order[i] = n

\* Mutant: a failed dependency is not looked at.
NeverBlocked(n) == FALSE

\* first_halted_dependency
Blocked(n) == Deps(n) \cap halted # {}

\* resolve_inputs: every referenced output has the field.
Resolvable(n) == \A d \in Deps(n) : outputs[d] \in Values

\* stage_level: effects of a level do not read each other, so the order in
\* which they are looked at does not matter.
Stage ==
    LET here == AtLevel(level)
        skipped == {n \in here : Blocked(n)}
        hits == (here \cap cached) \ skipped
        bad == {n \in here \ (skipped \cup hits) : ~Resolvable(n)}
        staged == here \ (skipped \cup hits \cup bad)
    IN  /\ pc = "stage"
        /\ pc' = "run"
        /\ halted' = halted \cup skipped \cup bad
        /\ outputs' = [n \in Names |-> IF n \in hits THEN mem[Id(n)].out
                                                     ELSE outputs[n]]
        /\ results' = [n \in Names |->
                         IF n \in skipped THEN "skipped"
                         ELSE IF n \in hits THEN "cached"
                         ELSE IF n \in bad THEN "failed" ELSE results[n]]
        /\ jobs' = [n \in Names |-> IF n \in staged THEN "running"
                                                    ELSE "none"]
        /\ UNCHANGED <<disk, lastRun, plan, topoVars, groupVars, mem, cached,
                       level, history, applies, failures, crashes>>

\* One thread of run_level: the executor returns outputs, or fails or panics.
Execute(n, out) ==
    /\ pc = "run"
    /\ jobs[n] = "running"
    /\ jobs' = [jobs EXCEPT ![n] = out]
    /\ performed' = [performed EXCEPT ![Id(n)] = @ + 1]
    /\ IF out = "failed"
       THEN /\ failures < MaxFailures
            /\ failures' = failures + 1
            /\ UNCHANGED produced
       ELSE /\ produced' = produced \cup {<<Id(n), out>>}
            /\ UNCHANGED failures
    /\ UNCHANGED <<disk, lastRun, pc, plan, topoVars, groupVars, mem, cached,
                   level, outputs, halted, results, applies, crashes>>

\* Mutant: what failed is remembered as done.
AlwaysSucceeded(out) == [status |-> "succeeded",
                         out |-> IF out = "failed" THEN "none" ELSE out]

EntryFor(out) == IF out = "failed"
                 THEN [status |-> "failed", out |-> "none"]
                 ELSE [status |-> "succeeded", out |-> out]

Ran == {n \in Names : jobs[n] # "none"}

\* Of the effects of a level that share an identity the last one settled
\* stays in the journal.
LastWith(i) == CHOOSE n \in Ran :
    /\ Id(n) = i
    /\ \A m \in Ran : Id(m) = i => Position(m) <= Position(n)

\* Mutant: a failed effect leaves an output as well.
AnyOutput(n) == jobs[n]

OutputOf(n) == IF jobs[n] \in Outs THEN jobs[n] ELSE outputs[n]

\* settle_level, once every thread of the level is joined.
Settle ==
    /\ pc = "run"
    /\ \A n \in Names : jobs[n] # "running"
    /\ mem' = [i \in Ids |-> IF \E n \in Ran : Id(n) = i
                             THEN EntryFor(jobs[LastWith(i)]) ELSE mem[i]]
    /\ outputs' = [n \in Names |-> IF n \in Ran THEN OutputOf(n)
                                                ELSE outputs[n]]
    /\ halted' = halted \cup {n \in Ran : jobs[n] = "failed"}
    /\ results' = [n \in Names |->
                     IF n \notin Ran THEN results[n]
                     ELSE IF jobs[n] = "failed" THEN "failed" ELSE "executed"]
    /\ jobs' = [n \in Names |-> "none"]
    /\ level' = level + 1
    /\ pc' = IF level + 1 < groups THEN "stage" ELSE "save"
    /\ UNCHANGED <<disk, lastRun, plan, topoVars, groupVars, cached, history,
                   applies, failures, crashes>>

\* The run record is pushed and Journal::save replaces the file by a rename.
Save ==
    /\ pc = "save"
    /\ pc' = "idle"
    /\ disk' = mem
    /\ lastRun' = [n \in NamesOf(plan) |->
                     [id |-> Id(n), action |-> results[n]]]
    /\ Forget
    /\ UNCHANGED <<history, applies, failures, crashes>>

\* The process dies, or the temporary file cannot be written or renamed: the
\* journal on disk stays what it was.
Crash ==
    /\ pc # "idle"
    /\ crashes < MaxCrashes
    /\ crashes' = crashes + 1
    /\ pc' = "idle"
    /\ Forget
    /\ UNCHANGED <<disk, lastRun, history, applies, failures>>

Next ==
    \/ \E p \in Plans : Apply(p)
    \/ \E i \in 1..Len(plan) : Place(i)
    \/ NextPass
    \/ Cycle
    \/ Diff
    \/ Group
    \/ Begin
    \/ Stage
    \/ \E n \in Names, out \in Outs \cup {"failed"} : Execute(n, out)
    \/ Settle
    \/ Save
    \/ Crash

Spec == Init /\ [][Next]_vars

-----------------------------------------------------------------------------
(* Properties                                                              *)

Actions == {"executed", "cached", "failed", "skipped"}

TypeOK ==
    /\ disk \in [Ids -> Entry] /\ mem \in [Ids -> Entry]
    /\ pc \in {"idle", "order", "group", "stage", "run", "save"}
    /\ plan \in Plans \cup {<<>>}
    /\ order \in Seq(Names) /\ cursor \in Nat /\ advanced \in BOOLEAN
    /\ depth \in [Names -> Nat] /\ groups \in Nat
    /\ cached \subseteq Names /\ halted \subseteq Names
    /\ level \in Nat
    /\ outputs \in [Names -> Outs \cup {"none"}]
    /\ results \in [Names -> Actions \cup {"none"}]
    /\ jobs \in [Names -> Outs \cup {"none", "running", "failed"}]
    /\ performed \in [Ids -> Nat]
    /\ produced \subseteq Ids \X Outs
    /\ applies \in 0..MaxApplies /\ failures \in 0..MaxFailures
    /\ crashes \in 0..MaxCrashes

\* The journal on disk never claims what was not done, wherever the process
\* dies: a successful entry holds the outputs of an execution of that
\* identity.  And a run that reports success leaves nothing to execute.
JournalTellsTheTruth ==
    /\ \A i \in Ids : disk[i].status = "succeeded" =>
         <<i, disk[i].out>> \in produced
    /\ (\A n \in DOMAIN lastRun :
          lastRun[n].action \in {"executed", "cached"}) =>
         \A n \in DOMAIN lastRun : disk[lastRun[n].id].status = "succeeded"

\* An identity that was saved as succeeded is never executed again and keeps
\* its outputs, through plan changes, failures and crashes.
SavedIsFinal ==
    [][\A i \in Ids : disk[i].status = "succeeded" =>
         disk'[i] = disk[i] /\ performed'[i] = performed[i]]_vars

\* A thread runs only for an effect whose dependencies have all succeeded
\* in this run, however much later.
InputsAreReady ==
    \A n \in Names : jobs[n] = "running" =>
        \A d \in Deps(n) : results[d] \in {"executed", "cached"}

\* At the end every effect has a record (the unreachable! of apply), and
\* exactly the dependents of what did not succeed were skipped.
EveryEffectIsSettled ==
    pc = "save" => \A n \in NamesOf(plan) :
        /\ results[n] # "none"
        /\ results[n] = "skipped" <=>
             \E d \in Deps(n) : results[d] \in {"failed", "skipped"}

\* topo_order refuses a plan exactly when its graph has a cycle, and levels
\* puts every effect above all that it reads from.
OrderAndLevelsAreRight ==
    /\ GivesUp => ~Acyclic(plan)
    /\ pc \notin {"idle", "order"} => Acyclic(plan)
    /\ pc \in {"stage", "run", "save"} =>
          \A n \in NamesOf(plan) : depth[n] \in 0..(groups - 1)
                                  /\ \A d \in Deps(n) : depth[d] < depth[n]

\* A run follows the graph of its plan from its order to its record.
RunFollowsTheGraph ==
    OrderAndLevelsAreRight /\ InputsAreReady /\ EveryEffectIsSettled

=============================================================================
