# A TLA+ model of the run-time tools of `index`

The repository is a Nix monorepo: several hundred packages, most of them
packaging, data transformation or front ends. This project models the parts
that are concurrent or crash-prone programs of their own: **dag-runner**, which
supervises a graph of tasks and services; **agent-harness-ex**, a lead and its
subagents; the **jobs of mcp-ex**, which run cells and record what became of
them; and **efx**, which applies a plan of effects against a journal.

## 1. Inventory

| component | state it keeps | operations | what is hard |
| --- | --- | --- | --- |
| dag-runner, the run (`packages/dag-runner/src/main.rs`) | per node: the position of its future, its published readiness, its outcome, its process group and readers; shared: the shutdown cell, `remaining_tasks`, the Ctrl-C listener | await dependencies, spawn, probe, the two `select!`s of `run_task` and `run_service`, stop/kill/collect, record, drain, cancel, exit | futures, children, descendants and signals interleave; numeric group ids are recycled; `killpg` and `wait` fail; a panic takes a future away |
| dag-runner, the plan (same file) | the parsed spec | `--only`, validate, cycle detection, output mode, topological order | graph corner cases; later steps rely on what earlier ones refuse |
| agent-harness-ex (`packages/agent-harness-ex/lib`) | the coordinator's roster, monitors and counter; the supervisor's children; per agent a mailbox, waiters with timers, a runner task, a token budget | create, delete, status, send, wait, checkpoint, add usage, finish a run | deletes race crashes, messages race the end of a run, timers race deliveries, waiters of dead callers, a roster that lags behind the processes |
| mcp-ex jobs (`packages/mcp-ex/lib/ix_mcp`: `jobs.ex`, `jobs/`, parts of `action_log.ex`, `mcp/`) | per job a control process, its snapshot, the hot output buffer, subscribers; the reaper's monitors; the ledger's `jobs`, `job_output` and `outbox` rows; the notifier's pool and its transport | run, await, cancel, finish, flush, record, retry, reap, publish, coalesce, replay, ack, reply | every ledger call can fail, run twice or be committed without an answer, also when the caller is dead; kills at any point; results after a cancel; deliveries and acks by two processes, an ack before its delivery |
| efx engine (`packages/efx/ir`, `packages/efx/engine`) | the plan with its identities and levels; the journal file; the state of a run | validate, order, diff, stage, execute, settle, save | executors of a level run in parallel and fail or panic; the process dies between an effect and the save; effects share an identity |
| dashboard hub, panes send queue, audio clock, tree-sync, index-delta, indexer, minecraft, vmkit, CI tools, viewers, Nix packaging | see the notes in `PROJECT.json` | | not modelled, for the reasons given there |

These programs do not call each other. Within dag-runner the plan hands a
validated graph and an output mode to the run; within the harness the
coordinator, the agents and the runner tasks exchange calls, casts and `:DOWN`
messages; within mcp-ex the control process, the reaper, the notifier, the
transport and the callers of `await` meet in the ledger and in their inboxes.

What makes each correct:

* **the run**: a node starts only on ready dependencies; a shutdown is final and
  ends the run; no signal reaches a process the runner does not own; a settled
  node leaves nothing behind; the exit code tells the truth.
* **the plan**: what is accepted is closed and acyclic, spawned in dependency
  order, and satisfies every assumption of the run; what is refused deserved it.
* **agent-harness-ex**: the caps bound the processes across crashes and deletes;
  an accepted message is handed out once and in order, or wakes the agent; every
  run reports once; slots come back and timed waits end.
* **mcp-ex jobs**: one terminal transition per job, never revised, written
  whoever dies; its output is there first; its announcement is suppressed only
  when it was told or is in a reply about to be sent; nobody awaits a dead job.
* **efx**: what the journal claims was done; what it claims is never redone; a
  run executes exactly what its failures leave executable.

## 2. Modules

| module | models | uses |
| --- | --- | --- |
| `DagRunner` | the run: futures, processes, operator | |
| `RunGroup` | what the run promises, without processes | |
| `DagRunnerProofs` | theorems about `DagRunner` | `DagRunner` |
| `DagRunnerRefinement` | `DagRunner` implements `RunGroup` | `DagRunnerProofs`, `RunGroup` |
| `MCDagRunner` | small graphs for TLC | `DagRunner` |
| `DagPlan` | the plan, its depth-first walks call by call | |
| `DagPlanProofs` | theorems about `DagPlan` | `DagPlan` |
| `MCDagPlan` | families of specs for TLC | `DagPlan` |
| `AgentHarness` | coordinator, agents, runner tasks, supervisor | |
| `MCAgentHarness` | symmetry of the subagent names | `AgentHarness` |
| `AgentHarnessProofs` | theorems about `AgentHarness` | `AgentHarness` |
| `Jobs` | control process, reaper, ledger, notifier, callers | `JobLife` |
| `JobLife` | what is promised of a job's record and its announcement | |
| `MCJobs` | the module the runs name | `Jobs` |
| `JobsProofs` | theorems about `Jobs` | `Jobs` |
| `JobsRefinement` | `Jobs` implements `JobLife` | `JobsProofs` |
| `Effects` | plan, diff, apply and journal of efx | |
| `MCEffects` | small plans for TLC | `Effects` |
| `EffectsProofs` | theorems about `Effects` | `Effects` |

### DagRunner and the code

The executor is single-threaded (`flavor = "current_thread"`), so one step of
the model is what a future does between two awaits. The environment (children,
descendants, the terminal, the reader of stdout) moves between any two.

`pc[n]` is the place of node `n`'s future: `waiting` in `await_deps`, `running`
in the `select!` of `run_task`, `starting` and `serving` in the two of
`run_service`, `stopping` in the 500 ms grace of `terminate_process_group`,
`collecting` in `capture.finish()`, `finished` when `run_node` has returned,
`done` when its record is stored, `panicked` when a `println!` to a closed
stdout unwound it. `readiness` is the watch channel to the dependents,
`outcome` what the record will say, `emitted` the events reported. `leader` is
the child (`zombie`: exited and not reaped), `status` how it ended, `kids` its
live descendants that hold its streams (`grouped`, or `escaped` from the process
group by setsid), `reading` whether the pipe readers are still at it, `armed`
the flag of `OwnedProcessGroup`, `killFailed` whether terminating returned an
error. `reason` is the cell inside `Shutdown`.

Each arm of a `select!` is an action. The arms are `biased`, so every arm after
the first requires that no shutdown is pending. Between the later arms the model
leaves the choice open: a timer or a probe that is due is not distinguished from
one that is not, and which of `capture_exit` and `wait_for_death` sees a death
first depends on when their wake-ups arrive. A handler is one action up to its
next await, including what it does on the way: publishing, requesting a
shutdown, reporting and, when a group is dropped armed, the kill of its `Drop`.

`Mode` matters through `CanReport`: plain and json print to stdout, and a
`println!` that fails panics; the spinners of `tui` do not. `Captured` are the
nodes with pipes; an inheriting node has no readers, so its exit is seen at
once. `Faults` lists the operating-system failures an instance allows: a failing
spawn, wait or killpg, a reader of stdout that goes away, and output that is not
UTF-8, on which `tee_lines` ends its reader.

Abstractions: time (a timer that exists may fire at any moment, and fires
eventually), the text of the output, and probes: a probe may pass at any time
while the service starts, also for a leader that is already dead, as a TCP probe
does when another process has the port.

### DagPlan and the code

One action per stage of `main`: filter, validate, detect cycles, resolve the
mode, order. Names are numbers, so that the sort order of the code is `<`. The
recursive walks of `detect_cycle` and `topological_order` are written call by
call: `stack` are the calls a walk is in, `at` how far each call's loop over
`depends_on` has got, `todo` what the outer loop has not reached; a step is a
call (which returns at once, goes on, or finds the cycle) or a return. `gray`,
`black` and `visited` are the code's colours. The properties compare the walks
with a definition of an acyclic graph that mentions no walk: in every set of
nodes one depends on no other of the set.

### AgentHarness and the code

An action is one message handled by the coordinator or by an agent, one step of
a runner task, or one fault. The roster never forgets a name, so within one
instance a name stands for one process. `proc` are the agent processes,
`children` the DynamicSupervisor's list, `roster`, `monitors` and `total` the
coordinator's state, `run[a]` the runner task (`returned` or `crashed`: its
result or `:DOWN` is in the agent's inbox), `mailbox`, `waiters` and `used` the
agent's. What travels on its own is kept apart: `timers` and `expired` for
`Process.send_after`, `wire` for the finals cast to the lead. `accepted`,
`handed` and `lost` are history.

`accept/2` is the disjunction of its three clauses; `FinishRun` is the whole of
`finish_run/2`, the report, the dropped waiters and the wake-up from the queue.
`DeleteCrashesCoordinator` is the failed match in `delete` and what the
`:one_for_all` supervisor makes of it. A refused create, a message to a name
that is not there and a status query change nothing and are no steps; `Status`
is the answer of the last, but for one case: a status call that times out on a
live agent is read as `:terminated` too, a wrong answer that changes no state.

Abstractions: the text and kind of a message (its sender and a number remain),
the numbering of default ids (any free name may be chosen, never the lead's),
the check for a model. Synchronous calls take effect in one step. Nobody but
its own runner waits on a subagent, as the comment in `agent.ex` says.

### Jobs and the code

An action is one message handled by one process, cut at every call into the
ledger, because kills, outages and callers that give up strike while a process
is parked there. `ctl[j]` is the place of the control process (`arm` and `row`
in `handle_continue`, `serving`, and `flush`, `record`, `notify` inside
`finish/4` or a retry); `status` is its status and, while it lives, the Registry
snapshot; `eval` and `proxy` are the evaluation and the linked IO proxy, with
the messages they leave; `row` and `outbox` the ledger's rows, `hot` and
`durable` the output; `guard` and `left` what the reaper knows; `pending` and
`conn` the notifier's pool and its transport; `at`, `target`, `mail`, `box` and
`ans` the callers of `await`, which are the exec handlers of the jobs and cells.
`ends`, `due` and `said` are history.

A ledger call has four outcomes: it ran and answered (`ok`), never ran and the
caller exits (`lost`), ran after the caller timed out (`late`), or ran twice
because the server died before answering (`blip`). `Outcome` counts all but the
first against `MaxFaults`. What each caller does about them is the code's:
`safe_log` and the re-armed `:record_terminal` in the job, `@finalize_retries` in
the reaper, the catches of the notifier and of the exec reply, and no catch at
all where a transport registers.

The two requests of a control process that decide over its record, `job_started`
and `finish_job`, take three steps, as a `GenServer.call` does: the request is
put into the ledger's inbox (`ArmReaper`, `FlushFinal`), the ledger comes to it
(`Ledger`), and the control process handles the reply (`SpawnEval`, `Record`:
publish, report to the reaper, or re-arm). `inbox[j]` are the requests not yet
served and `answer[j]` the reply not yet read. `CallTimesOut` lets the caller go
and leaves the request where it is, so that a retry may queue behind it. `Kill`
leaves requests that were sent where they are and takes an unread reply with it;
a kill just before the sending (`Unsent`) is the other possibility. So a row may
be opened or closed after the death of its job, before or after the reaper's own
attempts. The remaining calls stay one step: those of the reaper, the notifier
and the handlers because nothing kills these processes in the model, and
`append_job_output` because a batch that commits after a kill only adds output.

The exec handler renders its reply and acks the outbox row (`Reply`), and its
last act is to send the reply to its transport (`SendReply`). The handler is not
linked to that transport: `Disconnect` marks the handlers at work as `cut`, and
what they send counts as told to nobody (`"dead"` in `said`), as does what the
notifier delivers to a transport whose `:DOWN` it has not handled.

`JobLife` is the promise without messages, retries and buffers. Its state is
`ends` (what a job came to), `gone` (the dead), `record`, `news` (the
announcement), `told`, and `carried` (results in replies not yet sent). A job
comes to an end only while its process lives (`End`, `Vanish`); a record is
opened once (`Open`) and closed once, with an end the job did come to or as
`killed` for a dead one, in the same step as its announcement is written and
whether or not the job still lives (`Close`); only a clean end may be no news;
what is announced is told in the step that marks it (`Tell`); a result, which
there must be, may be put into a reply, and only that may withdraw the
announcement untold (`Render`); and what a reply carries is handed over once
(`Hand`).

The inbox of the reaper is left out: a job's `watch` and `reported` casts arrive
in order and before its `:DOWN`, so when they are handled makes no difference.
Publishing puts a row straight into the pool, since nothing the notifier does
before handling the cast depends on it. Also left out: sessions other than this
one and their watches, stack samples, the output cap with its drop counter, and
crashes of the reaper.

### Effects and the code

A plan is a sequence of effects with literal and reference inputs. `Apply` takes
a plan that `Plan::add` accepts and whose references are known; `Place`,
`NextPass` and `Cycle` are the loops of `topo_order` (a step goes to the next
effect that is ready: those in between change nothing); `Diff` are the verdicts
and the check of the executors; `Group` is a turn of the loop in `levels`, and
`Begin` the start of the loop over its groups. The code calls `topo_order` three
times on the same plan, twice in `diff::plan` and once in `apply`; it is a pure
function and the model goes through it once. `EffectIds` are the identities
(SHA-256 is taken to be injective: an identity is the document it hashes).
`Stage`, `Execute`, `Settle` and `Save` are `stage_level`, one thread of
`run_level`, `settle_level` and the end of `apply`; `Crash` is the death of the
process, or a save that fails, at any point. A refused plan, a cycle and an
unknown executor leave everything as it was before. `disk` and `lastRun` are the
file, `performed` and `produced` history. Kinds are folded into executors, an
effect has one output field (`bare` is an output without it), and one apply runs
at a time: the README of efx puts locking out of scope.

## 3. Runs

| run | instance | result |
| --- | --- | --- |
| `dag_group` | a service, its timed client and a report that waits for both; descendants in the group; spawn, wait and kill faults; Ctrl-C | `StartedAfterDepsReady`, `SkipsAreJustified`, `DrainedAfterLastTask`, `ShutdownIsFinal` hold, and so do `ShutdownEndsTheRun`, `DeadServiceIsNoticed`, `DependentsAreDecided` |
| `dag_faults` | a captured service and an inheriting, timed client; all five faults; signal 9; both kinds of descendants | `TypeOK`, `SignalsOnlyHeldGroups`, `SettledNodesAreGone`, `AbortsHaveACulprit`, `ZeroExitIsClean` hold, and so does `ImplementsRunGroup` |
| `dag_plan` | all graphs on three names with up to two dependencies each (repeated, self, unknown), four `--only` sets; all field combinations of a node with a dependent, four output modes, with and without a terminal | the five properties of the plan hold |
| `harness` | three names, one slot, two creations, two messages, one wait, one death, one restart; 0.8 million states | `TypeOK`, `Caps`, `RosterNeverBuriesTheLiving`, `EveryRunReportsOnce`, `TerminatedAndSpentAreFinal` hold |
| `harness_live` | one name, two waits, otherwise the same | `HandedOutInOrder`, `IdleMeansNothingPending`, `MessagesAreTakenUp`, `SlotsComeBack`, `TimedWaitsEnd` hold |
| `jobs` | a job that may be a quiet wrapper, its handler and an awaiting cell; one chunk of output; one mishap, a ledger fault or a kill, no retry of the reaper | `TypeOK`, `OutputBeforeTransition` hold, and so does `ImplementsJobLife` |
| `jobs_live` | a job and its handler; any two of a ledger fault, a kill and a lost transport; one retry of the reaper | `NoSilentDeath`, `SuppressionIsEarned` hold, and so do `EveryJobIsAccountedFor`, `AwaitsEnd`, `EveryFinishIsTold` |
| `efx` | two chains that differ in a literal, twins, a three-level plan, a cyclic plan and three that are refused for other reasons; three applies, two failures, one crash; 0.7 million states | `TypeOK`, `JournalTellsTheTruth`, `RunFollowsTheGraph`, `SavedIsFinal` hold |
| `dag_cancel_code` | service and client | violated: Ctrl-C during an abort or a drain does not exit 130 |
| `harness_swallow` | one subagent, one message, one wait, no death | violated: a message is handed to the waiter of a crashed runner |
| `jobs_deaf` | one job, one fault | violated: a registration during an outage leaves the notifier without its transport |
| `jobs_orphan` | one job, one kill, no ledger fault, no lost transport | violated: a job killed before it reads the reply to its `finish_job` is never announced |

**Bounds.** *dag-runner*: three nodes give every shape the rules distinguish: a
service, a task others wait for, and a dependent of both, in the order that
matters to `await_deps`; the run with three captures the output of all and has
no deaths by signal. Two nodes suffice for the faults, which concern one process
group and its effect on another node. The exit codes are 0 and 5, so that the
maximum, success and failure are different; the signal 9 has no exit code. A
node has at most one descendant of each kind: a second one of the same kind
lives and dies like the first. SIGINT coalesces while it is pending, as signals
do. Nothing else is bounded: the run is finite because every future only moves
forward. *harness*: one slot makes every creation wait for a slot to come back,
and one name more than may be created tells `max_total` from the supply of
names; two messages let one race a wait, the other and the end of a run; where
order and timers are the question there are two waits, so that a timeout can
concern a waiter that is not the first; the budget is exhausted by one charge.
*jobs*: one job has four processes and two callers, and no rule relates two jobs
except the pool of the notifier and the inbox of a caller; a mishap meets each
call and each place of the control process in turn. `MaxMishaps` bounds faults, kills and lost
transports together: output, quiet wrappers and cells meet one mishap (`jobs`),
a bare job any two different ones (`jobs_live`). A job given up by the reaper
(`guard` is `"lost"`) needs a kill and a failed attempt more than the reaper
retries, so that exception of `NoSilentDeath` is covered by its theorem only.
*efx*: three applies give a save, a change of plan and a return to the first
plan; two failures hit both twins; one crash falls at any point of any of them.
The proofs remove the bounds for the properties they cover.

**Fairness.** `DagRunner` assumes weak fairness of each node's own steps (the
executor polls woken futures, timers fire), of the listener (a task of the same
executor) and of the end of `main`. Nothing is assumed of children, probes or
the operator: a child may ignore SIGTERM, never exit and hold its streams for
ever. `dag_group` has only descendants in the group: one outside it keeps
`ShutdownEndsTheRun` from holding (section 5). `AgentHarness` assumes that
processes handle their inboxes, that timers fire and that a runner which is not
blocked ends, which is the contract of the `Runner` behaviour; not that anybody
checkpoints, waits, sends or deletes. `Jobs` assumes that the ledger comes to
its requests (`Serve`; it may still fail them), that control processes, reaper
and notifier handle their inboxes and re-armed timers, that a handler sends a
rendered reply, that a waiting caller takes what has arrived, and that the
supervisor restarts the transport; not that a cell ends, a budget runs out or a
client calls. A call that times out and a fault are never obliged to happen.
`Effects` states no fairness: nothing is promised of an executor.

**Deadlock** is checked in the dag-runner runs; `Over` and `Planned` are the
stuttering steps of a program that has ended. The others are servers whose
clients may stop calling, or a tool whose user may stop applying, so a state
without successor is no fault there.

Every property of a passing run has a mutant in `PROJECT.json`: a definition of
the model changed the way a plausible bug would change the code, after which TLC
finds the property violated. The mutants are the operators marked so in the
modules; nothing else refers to them.

## 4. Theorems

### dag-runner

For every finite set of nodes, every `DependsOn`, every division into services
and tasks, every set of codes, signals, descendants and faults (`NodesAssumption`
and `EnvironmentAssumption`, which only say that the constants have the types
`DagPlan` guarantees):

| theorem | states |
| --- | --- |
| `TypeCorrect` | `Spec => []TypeOK` |
| `GroupsAreHeld` | `Spec => []SignalsOnlyHeldGroups` |
| `ShutdownFinality` | `Spec => ShutdownIsFinal` |
| `StartOrder` | `Spec => []StartedAfterDepsReady` |
| `SettledAreGone` | `Spec => []SettledNodesAreGone` |
| `AbortCulprit` | `Spec => []AbortsHaveACulprit` |
| `SkipsJustified` | `Spec => []SkipsAreJustified` |
| `DrainIsLast` | `Spec => []DrainedAfterLastTask` |
| `ZeroIsClean` | `Spec => []ZeroExitIsClean` |
| `RunnerImplementsGroup` | `Spec => ImplementsRunGroup` |

The argument: none of the properties is inductive, because each speaks of one
or two variables whose agreement comes from the position of the future.
`Lifecycle(n)` says what every position implies (a waiting node has no process,
no outcome and no verdict; a running one holds an armed group whose leader is
not reaped; a service that is being stopped has published its verdict; and so on), and `Announced`
what the event stream implies about verdicts. `LifecycleHolds` proves both
inductive, one step per action. `Monotone(n)`, an action formula, says what a
step never undoes: verdicts, events, outcomes and ended processes. The other
invariants follow from those two with one more fact each: `Gone` for
what a settled node leaves behind, `NodeStepBlames` for the culprit of an
abort, `RefusalsLast` for skips, a cardinality argument over the set of
unfinished tasks for the drain, and for the exit code that a recorded node has
an outcome and that only a service can fail with code 0 (`Decided`), so that a
maximum of 0 leaves nothing else. The refinement maps positions to the phases
pending, up and over, and reads a sender dropped by a panic as a refusal; each
action is then one named step of `RunGroup` or leaves its variables alone.

### dag-runner, the plan

For every set of invocations, so for graphs of any size, with one assumption on
the constants (a spec has the fields that parsing gives it):

| theorem | states |
| --- | --- |
| `CyclesAreReal` | `Spec => []CycleIsReal` |
| `OrdersAreTopological` | `Spec => []OrderIsTopological` |
| `OnlyIsClosed` | `Spec => []OnlyKeepsClosedGraphs` |
| `PlansAreRunnable` | `Spec => []PlanIsRunnable` |
| `RefusalsAreJustified` | `Spec => []GoodSpecsRun` |

Both walks satisfy one invariant, `Walk`, stated and proved of any graph and
any set of finished names: each active call is for the dependency its caller has
got to (`Chain`), no name is called twice and none that is active is done
(`Apart`), and what a loop has gone past is done or active (`Past`, `Reached`).
`WalkSkip`, `WalkPush` and `WalkPop` show that the three kinds of step keep it;
`detect_cycle` instantiates the finished names with `black`, `topological_order`
with the order so far. `Sunk` says that the names done need only each other and
form an acyclic graph: a name whose dependencies are all done can join them
(`SunkGrows`), so when the walk is through the whole graph is acyclic. In the
other direction a call for a name that is gray closes a path along the stack
(`CallOnStack`), and a closed path runs through a set in which no node can come
first (`ClosedPathRefutes`). `DepsFirst` is the same argument for the order.
The other three theorems follow from what each stage establishes for the next
(`PlanInv`).

### agent-harness-ex

For every finite set of names, all positive caps, any budget and any bounds:

| theorem | states |
| --- | --- |
| `TypeCorrect` | `Spec => []TypeOK` |
| `RosterHolds` | `Spec => []RosterNeverBuriesTheLiving` |
| `CapsHold` | `Spec => []Caps` |
| `HandedOut` | `Spec => []HandedOutInOrder` |
| `IdleIsIdle` | `Spec => []IdleMeansNothingPending` |
| `NothingComesBack` | `Spec => TerminatedAndSpentAreFinal` |
| `RunsReportOnce` | `Spec => []EveryRunReportsOnce` |

`Caps` speaks of processes, the code counts roster entries. `RosterInv` connects
them: exactly the names that ever had a process have an entry, a live process has
a live entry, a live entry is monitored, live entries are at most
`max_concurrent` and entries in all are `total`, which is within `max_total`;
`CapsHold` then compares cardinalities.
`Delivery(a)` is the invariant of one mailbox: what was accepted is what was
handed out followed by the queue, a waiter implies an empty queue, and an idle
subagent has neither; without the middle part answering a waiter could overtake
the queue. `Reports(s)` is the invariant of a subagent's finals: its wire
carries only its own, and a name without a process has sent none; with it the
finals the lead has heard are numbered from 1 without a gap or a repetition and
those on the wire go on from there (`OneEach`). `Undisturbed(s)` says which
steps leave that count alone.

### mcp-ex jobs

For any jobs, cells, retries and bounds:

| theorem | states |
| --- | --- |
| `TypeCorrect` | `Spec => []TypeOK` |
| `DeathIsNeverSilent` | `Spec => []NoSilentDeath` |
| `SuppressionHolds` | `Spec => []SuppressionIsEarned` |
| `OutputIsThere` | `Spec => []OutputBeforeTransition` |
| `LedgerFinality` | `Spec => LedgerIsFinal` |
| `JobsImplementLife` | `Spec => ImplementsJobLife` |

`StepKinds` sorts the steps into those of a job, of the notifier and of callers;
`JobInv(j)` has a part for every fact a handler leaves for the next. `LifeInv`:
before it arms the reaper a job has done nothing (`Unarmed`), afterwards it is
guarded until its transition is in the ledger (`Guarded`), a dead one is as
`NoSilentDeath` says (`Mourned`), every attempt the reaper has used up was a
fault (`Attempted`), and a job inside `finish/4` has a terminal status
(`Finishing`). `ParkInv` is about the ledger's inbox, without which none of this
is inductive: a request to close the record is of an end the job came to
(`Ended`, `Queued`), and without faults its output is on disk before the request
is sent, so also when the ledger comes to it (`Persisted`); a job that does not
exist has sent nothing (`Unborn`); a parked process waits for the last of its
requests, and a reply to `finish_job` means that the row is final (`Waits`),
which is what lets `Record` release the reaper.

`SuppressionHolds` needs the callers as well: `TellInv` says that every acked
row has one of the four causes of `SuppressionIsEarned` (`Told`) and that a dead
transport or a cut handler means that one was lost (`Cuts`). A handler that holds
a rendered reply stays there until it sends it (`RepliesStay`), and sending turns
the reply into a finish that was told, or told to nobody.

`LedgerIsFinal` is a theorem only: the run checks the stronger
`ImplementsJobLife`, in which a record that is closed cannot be closed again.

The refinement needs one thing more, because `JobLife` lets a reply carry a
result only if there is one: that the handler which started a job never holds
another's (`OwnInv`). It asks its own job and no other (`AsksOwn`), so what
arrives in its inbox was sent by that job after its end (`HearsOwn`), and what
it took from there, from the ledger or from the snapshot is an end (`HoldsOwn`);
and it has not begun before its job has (`StartsIdle`). A cell has no such
guarantee, and `NamesAssumption`, that no cell is a job's handler, is what keeps
the two apart. The steps of `BeginFinish` then map to `End`, a kill to `Vanish`,
the ledger's to `Open` and `Close`, the reaper's write to `Close`, `Announce` to
`Tell`, the exec reply to `Render` and its sending to `Hand`; where the record
was closed before, or a job had come to that end before, the step leaves the
life alone.

### efx

For any plans, registry, values and bounds, with three assumptions on the
constants (bounds are numbers, plans are sequences, an output is not one of the
model's markers):

| theorem | states |
| --- | --- |
| `TypeCorrect` | `Spec => []TypeOK` |
| `JournalTruth` | `Spec => []JournalTellsTheTruth` |
| `InputsReady` | `Spec => []InputsAreReady` |
| `RunFollows` | `Spec => []RunFollowsTheGraph` |
| `SavedFinality` | `Spec => SavedIsFinal` |

The invariant has two halves. `GraphInv` is about the plan. Names have one place
each, after the places of all they read from, and a pass that has placed nothing
is still at its start (`PlacesAreRight`): then a pass without progress has looked
at every effect, and those left read from each other (`StuckIsCyclic`), while a
full order holds every name (`Places`, a cardinality argument), and the first
place in any set of names belongs to one that reads from no other
(`OrderedIsAcyclic`). What `levels` has been through lies strictly above its
dependencies (`DepthsAreRight`); `DepthIsMax` is the step, and needs that
dependencies come earlier in the order, since the code takes a missing depth for
none.

`RunInv` follows an effect through a run: verdicts agree with the file and
what it holds as succeeded stays so in memory (`VerdictsStand`), threads work for
effects of the level that were not cached (`ThreadsAreStaged`), records are of
levels already staged (`RecordsAreBehind`), successes in memory are of executions (`ClaimsAreTrue`),
an effect recorded as done has a successful entry unless a twin that failed has
overwritten it, in which case the twin is recorded as failed
(`RecordsHaveEntries`), and outputs belong to effects that succeeded
(`OutputsAreOfSuccess`). Behind the level every effect has a record
(`NoneIsLeft`), and a record says skipped exactly when it reads from a lost one
(`SkipsAreRight`); both are inductive because `DepthsAreRight` keeps
dependencies off the level being worked on. `LastIsOne` shows that the last of several twins
exists, which needs a maximum over positions.

### Only model-checked

The nine liveness properties of `dag_group`, `harness_live` and `jobs_live`: they
need fairness and `ENABLED`, which the provers do not handle. Every invariant,
action property and refinement of a passing run is also a theorem. What
`EffectIds` computes is not proved anything about: the identities are a
recursive function over the graph, and the theorems hold whatever it returns.

## 5. Disagreements between the documentation and the code

Four are runs that TLC refutes (section 3); the others are plain from the text
once the model asks for the line. All are in `PROJECT.json` with their
quotations.

* dag-runner: a Ctrl-C during an abort or a drain does not exit 130
  (`dag_cancel_code`); a service that exits 0 during the run fails with code 0,
  and the run exits 0; a task that panics on a closed stdout is never counted and
  its services run on; a timed-out task whose descendant left the group with its
  stdout never settles; in json mode no summary is written to stderr; a skipped
  node reports `node_finished` without `node_started`.
* agent-harness-ex: a message can be swallowed by the waiter of a crashed runner
  (`harness_swallow`); deleting an agent that has crashed and been reaped takes
  the coordinator, and with it the instance, down.
* mcp-ex jobs: an outage during a registration makes the notifier deaf
  (`jobs_deaf`); a job killed between sending `finish_job` and reading its reply
  leaves a row that the reaper takes for announced, and nobody publishes it
  (`jobs_orphan`), which `EveryFinishIsTold` states as the exception `Orphaned`;
  the exec handler acks before the reply is sent, and acks and sends also when
  its transport has died, so that a finish can be acked and told to nobody (the
  exceptions `Carried` and `ToldToNobody` of `SuppressionIsEarned`); a result
  that arrives after a cancel turns the snapshot away from the ledger; a finish
  can be announced and carried by the reply; an await may return the summary of
  another job; a failed last flush is never repeated when the record succeeds; a
  kill before the reaper is armed is silent.
* efx: of two effects with one identity the later failure overwrites the earlier
  success.

Read alongside the model, a few details are worth knowing: the start-up
`select!` of dag-runner has no `waitid` watch, so the promise that "a service's
death is noticed whether or not anything is still holding its output open" is
kept there only by `ready_timeout_secs`; its listener prints to stderr before it
requests the cancellation, and would panic there if stderr were gone; the write
end of a lifeline is dropped when `execute` returns; an `OutputTail` made by
`Default` has limit 0. In mcp-ex a caller of `await` whose job dies during the
subscribe call exits with it (`CallerExits`): only the timeout is caught. In efx
two applies at once would share the temporary file of the journal.

## 6. Not modelled

* The rest of the repository (see the components in `PROJECT.json`): packaging
  and generated files have no run-time state; viewers and front ends render;
  indexer, search and transfer tools transform data sequentially; the audio clock
  computes with floating point; guests and servers are wrapped, their state is
  external.
* Within mcp-ex: watches, stack samples, the output cap, other tables.
* Within efx: the language, the executors, the texts of reasons, orphans.
* Within dag-runner: retained text, rendering, failures of stderr.

## 7. Plan

1. *Done*: `DagRunner`, `DagPlan`, `RunGroup`; `AgentHarness`; `Jobs`;
   `Effects`; their runs and theorems.
2. *Done*: every safety property of the runs as a theorem; for that the walks of
   `DagPlan` and the loops of `Effects` were written step by step.
3. *Done*: `JobLife`, which `Jobs` implements; the ledger's inbox, so that a
   request outlives its sender.
4. The panes send queue, whose bounded per-client queue is the next concurrent
   component.
