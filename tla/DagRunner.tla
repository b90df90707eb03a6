----------------------------- MODULE DagRunner -----------------------------
(***************************************************************************)
(* The run-time of packages/dag-runner: one future per node, scheduled on  *)
(* a single-threaded executor, the processes the nodes own, the shared     *)
(* shutdown cell, and the operator who may hit Ctrl-C.                      *)
(*                                                                         *)
(* A step of the runner is what the executor does between two awaits.  The *)
(* environment (child processes, signals, the reader of stdout) moves      *)
(* between any two of them.                                                *)
(***************************************************************************)
EXTENDS Integers, FiniteSets, Sequences

CONSTANTS
    Nodes,        \* the names of the validated spec
    DependsOn,    \* depends_on: node -> sequence of nodes, in spec order
    Services,     \* the nodes whose kind is "service"; the others are tasks
    Timed,        \* the tasks that set timeout_secs
    Captured,     \* the nodes whose stdio is piped; the others inherit
    Mode,         \* the resolved output mode
    Codes,        \* the exit codes a child may end with
    Signals,      \* the signal numbers that may end a child
    Forks,        \* the kinds of descendants a child may leave behind
    Faults        \* the operating-system failures that may happen

Tasks == Nodes \ Services

\* A descendant stays in the node's process group, or leaves it (setsid).
Descendants == {"grouped", "escaped"}

\* spawn fails; wait fails; killpg is denied; the reader of stdout goes away;
\* a child writes bytes that are not UTF-8.
FaultKinds == {"spawn", "wait", "kill", "stdout", "utf8"}

\* Whether a fault happens here: either answer if it may, else no.
May(fault) == IF fault \in Faults THEN BOOLEAN ELSE {FALSE}

ASSUME NodesAssumption ==
    /\ IsFiniteSet(Nodes)
    /\ DependsOn \in [Nodes -> Seq(Nodes)]
    /\ Services \subseteq Nodes
    /\ Timed \subseteq Tasks
    /\ Captured \subseteq Nodes

ASSUME EnvironmentAssumption ==
    /\ Mode \in {"tui", "plain", "json"}
    /\ Mode # "plain" => Captured = Nodes    \* resolve_mode
    /\ Codes \subseteq Nat
    /\ Signals \subseteq Nat
    /\ Forks \subseteq Descendants
    /\ Faults \subseteq FaultKinds

-----------------------------------------------------------------------------
(* Outcomes, reasons and exit statuses.                                    *)

Outcomes == [label : {"none", "succeeded", "failed", "skipped", "stopped"},
             code : Nat]

NoOutcome  == [label |-> "none", code |-> 0]
Succeeded  == [label |-> "succeeded", code |-> 0]
Failed(c)  == [label |-> "failed", code |-> c]
Skipped    == [label |-> "skipped", code |-> 0]
Stopped    == [label |-> "stopped", code |-> 0]

\* Mutant: a skipped node does not count against the run.
ForgivesSkips(o) == IF o.label = "failed" THEN o.code ELSE 0

\* What an outcome contributes to the runner's exit code.
ExitContribution(o) ==
    CASE o.label = "failed"  -> o.code
      [] o.label = "skipped" -> 1
      [] OTHER               -> 0

Reasons == {"none", "cancelled", "drained", "aborted"}

\* The exit code of a task the runner had to terminate: 128 + signal.
TerminatedExitCode(r) == IF r = "cancelled" THEN 130 ELSE 143

\* How a child ended: by itself with a code, or killed by a signal.
Statuses == [how : {"exit"}, num : Codes] \cup [how : {"signal"}, num : Signals]
NoStatus == [how |-> "none", num |-> 0]

\* Mutant: unwrap_or(-1).
NegativeCode(s) == IF s.how = "exit" THEN s.num ELSE -1

\* ExitStatus::code().unwrap_or(1): a signalled child has no code.
StatusCode(s) == IF s.how = "exit" THEN s.num ELSE 1

\* siginfo_t.si_status: the exit code, or the number of the signal.
SiStatus(s) == s.num
-----------------------------------------------------------------------------
VARIABLES
    pc,          \* where each node's future is
    readiness,   \* what each node has published to its dependents
    outcome,     \* the outcome each node's future has decided on
    emitted,     \* the events reported for each node
    leader,      \* the node's own process
    status,      \* how the leader ended
    kids,        \* live descendants of the leader that hold its streams
    reading,     \* the readers of the node's pipes have not given up
    armed,       \* OwnedProcessGroup.armed
    killFailed,  \* terminate_process_group returned an error
    reason,      \* the shutdown cell: first reason to arrive
    remaining,   \* remaining_tasks
    listener,    \* the background task that waits for SIGINT
    sigint,      \* a SIGINT the listener has not consumed
    stdoutOpen,  \* somebody reads the runner's stdout
    exitCode     \* the runner's exit code, or -1 while it runs

nodeVars == <<pc, readiness, outcome, emitted>>
procVars == <<leader, status, kids, reading, armed, killFailed>>
mainVars == <<reason, remaining, listener, sigint, stdoutOpen, exitCode>>
vars     == <<nodeVars, procVars, mainVars>>

PcValues == {"waiting", "running", "starting", "serving", "stopping",
             "collecting", "finished", "done", "panicked"}

TypeOK ==
    /\ pc \in [Nodes -> PcValues]
    /\ readiness \in [Nodes -> {"none", "ready", "unavailable"}]
    /\ outcome \in [Nodes -> Outcomes]
    /\ emitted \in [Nodes -> SUBSET {"started", "ready", "finished"}]
    /\ leader \in [Nodes -> {"none", "alive", "zombie", "reaped"}]
    /\ status \in [Nodes -> Statuses \cup {NoStatus}]
    /\ kids \in [Nodes -> SUBSET Descendants]
    /\ reading \in [Nodes -> BOOLEAN]
    /\ armed \in [Nodes -> BOOLEAN]
    /\ killFailed \in [Nodes -> BOOLEAN]
    /\ reason \in Reasons
    /\ remaining \in Int
    /\ listener \in {"listening", "cancelling"}
    /\ sigint \in BOOLEAN
    /\ stdoutOpen \in BOOLEAN
    /\ exitCode \in Nat \cup {-1}

Init ==
    /\ pc = [n \in Nodes |-> "waiting"]
    /\ readiness = [n \in Nodes |-> "none"]
    /\ outcome = [n \in Nodes |-> NoOutcome]
    /\ emitted = [n \in Nodes |-> {}]
    /\ leader = [n \in Nodes |-> "none"]
    /\ status = [n \in Nodes |-> NoStatus]
    /\ kids = [n \in Nodes |-> {}]
    /\ reading = [n \in Nodes |-> FALSE]
    /\ armed = [n \in Nodes |-> FALSE]
    /\ killFailed = [n \in Nodes |-> FALSE]
    /\ reason = "none"
    /\ remaining = Cardinality(Tasks)
    /\ listener = "listening"
    /\ sigint = FALSE
    /\ stdoutOpen = TRUE
    /\ exitCode = -1

-----------------------------------------------------------------------------
(* What the executor sees of the graph, the processes and the terminal.     *)

Running == exitCode = -1

\* The runner is up and node n's future is at one of the given places.
At(n, places) == Running /\ pc[n] \in places

Dep(n, i) == DependsOn[n][i]

\* A verdict that keeps dependents from starting: Unavailable, or a sender
\* dropped without a verdict because the node's future panicked.
Refuses(d) ==
    \/ readiness[d] = "unavailable"
    \/ readiness[d] = "none" /\ pc[d] = "panicked"

\* Mutant: any verdict counts as ready.
AnyVerdict(n) == \A i \in DOMAIN DependsOn[n] : readiness[Dep(n, i)] # "none"

\* await_deps returned true.
DepsReady(n) == \A i \in DOMAIN DependsOn[n] : readiness[Dep(n, i)] = "ready"

\* Mutant: a dependency without a verdict counts as a refusal.
Impatient(n) == \E i \in DOMAIN DependsOn[n] : readiness[Dep(n, i)] # "ready"

\* await_deps returned false: it visits the dependencies in order and
\* returns at the first refusal, so every earlier one was ready.
DepsRefused(n) ==
    \E i \in DOMAIN DependsOn[n] :
        /\ Refuses(Dep(n, i))
        /\ \A j \in 1..(i - 1) : readiness[Dep(n, j)] = "ready"

\* PipeCapture::finish has returned: both readers have seen end of file or
\* given up.  An inheriting node has none.
StreamsClosed(n) == reading[n] => leader[n] # "alive" /\ kids[n] = {}

\* println! panics when nobody reads stdout; the spinners do not print.
CanReport == Mode = "tui" \/ stdoutOpen

\* Mutant: the last reason wins.
LastReasonWins(r) == r

\* Shutdown::request as the new value of the cell: the first reason wins.
Request(r) == IF reason = "none" THEN r ELSE reason

\* Mutant: SIGKILL to the leader alone.
KillLeader(n) == kids[n]

\* SIGKILL to the node's process group, as it leaves the descendants.
KillGroup(n) == kids[n] \ {"grouped"}
-----------------------------------------------------------------------------
(* The tail of run_node.                                                   *)

\* The verdict a node has published once its record exists.  A task
\* publishes here; a service published earlier, or Unavailable in this step.
Verdict(n, o) ==
    IF n \in Services
    THEN IF readiness[n] = "none" THEN "unavailable" ELSE readiness[n]
    ELSE IF o.label = "succeeded" THEN "ready" ELSE "unavailable"

\* report_finished, then the record is returned.  A println! that panics takes
\* the future, and the outcome it would have recorded, with it.
ReportFinished(n, o) ==
    IF CanReport
    THEN /\ pc' = [pc EXCEPT ![n] = "finished"]
         /\ outcome' = [outcome EXCEPT ![n] = o]
         /\ emitted' = [emitted EXCEPT ![n] = @ \cup {"finished"}]
    ELSE /\ pc' = [pc EXCEPT ![n] = "panicked"]
         /\ outcome' = [outcome EXCEPT ![n] = NoOutcome]
         /\ UNCHANGED emitted

\* execute returned o: publish, report, return the record.
Settle(n, o) ==
    /\ readiness' = [readiness EXCEPT ![n] = Verdict(n, o)]
    /\ ReportFinished(n, o)

\* never_ran: the future gives up before it reaches spawn.
NeverRan(n) ==
    /\ At(n, {"waiting"})
    /\ DepsRefused(n) \/ (DepsReady(n) /\ reason # "none")
    /\ readiness' = [readiness EXCEPT ![n] = "unavailable"]
    /\ ReportFinished(n, Skipped)
    /\ UNCHANGED <<procVars, mainVars>>
-----------------------------------------------------------------------------
(* execute: spawn the command.                                             *)

\* Mutant: the shutdown cell is not read again before spawn.
StartsBlindly(n) == At(n, {"waiting"}) /\ DepsReady(n)

Starts(n) ==
    /\ At(n, {"waiting"})
    /\ DepsReady(n)
    /\ reason = "none"

\* report_started panics: the sender is dropped without a verdict.
StartPanics(n) ==
    /\ Starts(n)
    /\ ~CanReport
    /\ pc' = [pc EXCEPT ![n] = "panicked"]
    /\ UNCHANGED <<readiness, outcome, emitted, procVars, mainVars>>

Spawn(n) ==
    /\ Starts(n)
    /\ CanReport
    /\ pc' = [pc EXCEPT ![n] = IF n \in Services THEN "starting" ELSE "running"]
    /\ emitted' = [emitted EXCEPT ![n] = @ \cup {"started"}]
    /\ leader' = [leader EXCEPT ![n] = "alive"]
    /\ reading' = [reading EXCEPT ![n] = n \in Captured]
    /\ armed' = [armed EXCEPT ![n] = TRUE]
    /\ UNCHANGED <<readiness, outcome, status, kids, killFailed, mainVars>>

\* spawn_failed: attach_lifeline or spawn returned an error.
SpawnFails(n) ==
    /\ Starts(n)
    /\ CanReport
    /\ TRUE \in May("spawn")
    /\ readiness' = [readiness EXCEPT ![n] = "unavailable"]
    /\ reason' = IF n \in Services THEN Request("aborted") ELSE reason
    /\ outcome' = [outcome EXCEPT ![n] = Failed(127)]
    /\ emitted' = [emitted EXCEPT ![n] = @ \cup {"started", "finished"}]
    /\ pc' = [pc EXCEPT ![n] = "finished"]
    /\ UNCHANGED <<procVars, remaining, listener, sigint, stdoutOpen, exitCode>>
-----------------------------------------------------------------------------
(* Stopping a child the runner still holds.                                 *)

\* stop: SIGTERM to the group, then the 500 ms grace.  The outcome o is
\* already decided by the select! arm that called it.
BeginStop(n, o) ==
    /\ pc' = [pc EXCEPT ![n] = "stopping"]
    /\ outcome' = [outcome EXCEPT ![n] = o]
    /\ UNCHANGED <<emitted, procVars>>

\* terminate_process_group after the grace: SIGKILL, disarm, reap.  A denied
\* SIGTERM or a failing wait is an error to the caller and changes nothing else.
Kill(n) ==
    /\ At(n, {"stopping"})
    /\ pc' = [pc EXCEPT ![n] = "collecting"]
    /\ kids' = [kids EXCEPT ![n] = KillGroup(n)]
    /\ armed' = [armed EXCEPT ![n] = FALSE]
    /\ \E termDenied \in May("kill"), waitFails \in May("wait") :
          /\ leader' = [leader EXCEPT ![n] = IF waitFails THEN "zombie" ELSE "reaped"]
          /\ killFailed' = [killFailed EXCEPT ![n] = termDenied \/ waitFails]
    /\ UNCHANGED <<readiness, outcome, emitted, status, reading, mainVars>>

\* Drop of an armed OwnedProcessGroup: one more SIGKILL, nobody reaps.
DropGroup(n) ==
    /\ armed' = [armed EXCEPT ![n] = FALSE]
    /\ \E denied \in May("kill") :
          /\ leader' = [leader EXCEPT ![n] =
                           IF @ = "alive" /\ ~denied THEN "zombie" ELSE @]
          /\ kids' = [kids EXCEPT ![n] = IF denied THEN @ ELSE KillGroup(n)]
    /\ UNCHANGED <<status, reading>>

\* killpg(SIGKILL) is denied: the group stays armed, so collect aborts the
\* readers instead of waiting for them, and the group is dropped armed.
KillDenied(n) ==
    /\ At(n, {"stopping"})
    /\ TRUE \in May("kill")
    /\ Settle(n, outcome[n])
    /\ DropGroup(n)
    /\ killFailed' = [killFailed EXCEPT ![n] = TRUE]
    /\ UNCHANGED mainVars

\* collect: both readers are done.
Collect(n) ==
    /\ At(n, {"collecting"})
    /\ StreamsClosed(n)
    /\ Settle(n, outcome[n])
    /\ UNCHANGED <<procVars, mainVars>>

\* Mutant: the caller forgets to disarm the group of a reaped leader.
CaptureExitArmed(n) ==
    /\ leader[n] = "zombie"
    /\ StreamsClosed(n)
    /\ leader' = [leader EXCEPT ![n] = "reaped"]
    /\ UNCHANGED <<status, kids, reading, armed, killFailed>>

\* capture_exit resolved: streams drained first, then the leader reaped.
CaptureExit(n) ==
    /\ leader[n] = "zombie"
    /\ StreamsClosed(n)
    /\ leader' = [leader EXCEPT ![n] = "reaped"]
    /\ armed' = [armed EXCEPT ![n] = FALSE]
    /\ UNCHANGED <<status, kids, reading, killFailed>>
-----------------------------------------------------------------------------
(* run_task: one biased select! over shutdown, timeout and exit.            *)

TaskShutDown(n) ==
    /\ At(n, {"running"})
    /\ reason # "none"
    /\ BeginStop(n, Failed(TerminatedExitCode(reason)))
    /\ UNCHANGED <<readiness, mainVars>>

TaskTimesOut(n) ==
    /\ At(n, {"running"})
    /\ reason = "none"
    /\ n \in Timed
    /\ BeginStop(n, Failed(124))
    /\ UNCHANGED <<readiness, mainVars>>

TaskExits(n) ==
    /\ At(n, {"running"})
    /\ reason = "none"
    /\ CaptureExit(n)
    /\ Settle(n, IF status[n] = [how |-> "exit", num |-> 0]
                 THEN Succeeded
                 ELSE Failed(StatusCode(status[n])))
    /\ UNCHANGED mainVars

\* wait returned an error: the group is terminated like any other.
TaskWaitFails(n) ==
    /\ At(n, {"running"})
    /\ reason = "none"
    /\ TRUE \in May("wait")
    /\ leader[n] = "zombie" /\ StreamsClosed(n)
    /\ BeginStop(n, Failed(1))
    /\ UNCHANGED <<readiness, mainVars>>
-----------------------------------------------------------------------------
(* run_service, first select!: shutdown, readiness deadline, exit, probe.   *)

Publish(n, r) == readiness' = [readiness EXCEPT ![n] = r]

UnchangedButReason == UNCHANGED <<remaining, listener, sigint, stdoutOpen, exitCode>>

StartupShutDown(n) ==
    /\ At(n, {"starting"})
    /\ reason # "none"
    /\ Publish(n, "unavailable")
    /\ BeginStop(n, Stopped)
    /\ UNCHANGED mainVars

\* Mutant: the readiness deadline waits for the service to exit.
DeadlineAfterExit(n) ==
    /\ At(n, {"starting"})
    /\ reason = "none"
    /\ leader[n] # "alive"
    /\ Publish(n, "unavailable")
    /\ reason' = Request("aborted")
    /\ BeginStop(n, Failed(124))
    /\ UnchangedButReason

StartupTimesOut(n) ==
    /\ At(n, {"starting"})
    /\ reason = "none"
    /\ Publish(n, "unavailable")
    /\ reason' = Request("aborted")
    /\ BeginStop(n, Failed(124))
    /\ UnchangedButReason

\* service_exit, after either select!: the leader is reaped, so the group
\* is disarmed rather than signalled.
ServiceExits(n) ==
    /\ At(n, {"starting", "serving"})
    /\ reason = "none"
    /\ CaptureExit(n)
    /\ reason' = Request("aborted")
    /\ Settle(n, Failed(StatusCode(status[n])))
    /\ UnchangedButReason

\* service_exit with an error from wait: the group is still armed, and its
\* Drop kills it.
ServiceWaitFails(n) ==
    /\ At(n, {"starting", "serving"})
    /\ reason = "none"
    /\ TRUE \in May("wait")
    /\ leader[n] = "zombie" /\ StreamsClosed(n)
    /\ reason' = Request("aborted")
    /\ Settle(n, Failed(1))
    /\ DropGroup(n)
    /\ UNCHANGED killFailed
    /\ UnchangedButReason

\* The probe passed.  It may pass for a leader that is already dead: the
\* port can be somebody else's, the log line was written before.
ServiceReady(n) ==
    /\ At(n, {"starting"})
    /\ reason = "none"
    /\ CanReport
    /\ emitted' = [emitted EXCEPT ![n] = @ \cup {"ready"}]
    /\ Publish(n, "ready")
    /\ pc' = [pc EXCEPT ![n] = "serving"]
    /\ UNCHANGED <<outcome, procVars, mainVars>>

\* report_ready panics: no verdict, and the armed group is killed by Drop.
ReadyPanics(n) ==
    /\ At(n, {"starting"})
    /\ reason = "none"
    /\ ~CanReport
    /\ pc' = [pc EXCEPT ![n] = "panicked"]
    /\ DropGroup(n)
    /\ UNCHANGED <<readiness, outcome, emitted, killFailed, mainVars>>

(* run_service, second select!: shutdown, exit, death of the leader.        *)

ServingShutDown(n) ==
    /\ At(n, {"serving"})
    /\ reason # "none"
    /\ BeginStop(n, Stopped)
    /\ UNCHANGED <<readiness, mainVars>>

\* Mutant: the death of a service is not a reason to stop the group.
DeathIgnored(n) ==
    /\ At(n, {"serving"})
    /\ reason = "none"
    /\ leader[n] = "zombie"
    /\ BeginStop(n, Failed(SiStatus(status[n])))
    /\ UNCHANGED <<readiness, mainVars>>

\* Mutant: the death is seen only at end of file, as capture_exit does.
DeathAtEof(n) ==
    /\ At(n, {"serving"})
    /\ reason = "none"
    /\ leader[n] = "zombie"
    /\ StreamsClosed(n)
    /\ reason' = Request("aborted")
    /\ BeginStop(n, Failed(SiStatus(status[n])))
    /\ UNCHANGED readiness
    /\ UnchangedButReason

\* wait_for_death: waitid(WNOWAIT) sees the exit while a descendant still
\* holds a stream; the leader stays a zombie, so the group id is still ours.
ServingDeath(n) ==
    /\ At(n, {"serving"})
    /\ reason = "none"
    /\ leader[n] = "zombie"
    /\ reason' = Request("aborted")
    /\ BeginStop(n, Failed(SiStatus(status[n])))
    /\ UNCHANGED readiness
    /\ UnchangedButReason
-----------------------------------------------------------------------------
(* run and main.                                                           *)

\* Mutant: the group is drained one task early.
DrainsEarly(n) ==
    /\ At(n, {"finished"})
    /\ pc' = [pc EXCEPT ![n] = "done"]
    /\ IF n \in Services
       THEN UNCHANGED <<remaining, reason>>
       ELSE /\ remaining' = remaining - 1
            /\ reason' = IF remaining = 2 THEN Request("drained") ELSE reason
    /\ UNCHANGED <<readiness, outcome, emitted, procVars, listener, sigint,
                   stdoutOpen, exitCode>>

\* The spawned future stores its record; the last task drains the group.
Record(n) ==
    /\ At(n, {"finished"})
    /\ pc' = [pc EXCEPT ![n] = "done"]
    /\ IF n \in Services
       THEN UNCHANGED <<remaining, reason>>
       ELSE /\ remaining' = remaining - 1
            /\ reason' = IF remaining = 1 THEN Request("drained") ELSE reason
    /\ UNCHANGED <<readiness, outcome, emitted, procVars, listener, sigint,
                   stdoutOpen, exitCode>>

\* The futures whose records main gets to see.
Recorded == {n \in Nodes : pc[n] = "done"}

\* exit_code: the largest contribution, 0 for an empty run.
Contributions == {ExitContribution(outcome[n]) : n \in Recorded} \cup {0}
WorstOutcomes == {c \in Contributions : \A d \in Contributions : d <= c}

\* Every handle is joined.  The JSON summary is a println!, which panics
\* (exit 101) when nobody reads it.
MainExits ==
    /\ Running
    /\ \A n \in Nodes : pc[n] \in {"done", "panicked"}
    /\ \E worst \in WorstOutcomes :
          exitCode' = IF Mode = "json" /\ ~stdoutOpen THEN 101
                      ELSE IF reason = "cancelled" THEN 130
                      ELSE worst
    /\ UNCHANGED <<nodeVars, procVars, reason, remaining, listener, sigint,
                   stdoutOpen>>

\* spawn_cancel_listener: the first SIGINT broadcasts, the second hard-exits.
FirstSigint ==
    /\ Running
    /\ sigint /\ listener = "listening"
    /\ reason' = Request("cancelled")
    /\ listener' = "cancelling"
    /\ sigint' = FALSE
    /\ UNCHANGED <<nodeVars, procVars, remaining, stdoutOpen, exitCode>>

SecondSigint ==
    /\ Running
    /\ sigint /\ listener = "cancelling"
    /\ exitCode' = 130
    /\ UNCHANGED <<nodeVars, procVars, reason, remaining, listener, sigint,
                   stdoutOpen>>
-----------------------------------------------------------------------------
(* The environment.                                                        *)

LeaderExits(n) ==
    /\ Running
    /\ leader[n] = "alive"
    /\ leader' = [leader EXCEPT ![n] = "zombie"]
    /\ \E s \in Statuses : status' = [status EXCEPT ![n] = s]
    /\ UNCHANGED <<nodeVars, kids, reading, armed, killFailed, mainVars>>

LeaderForks(n) ==
    /\ Running
    /\ leader[n] = "alive"
    /\ \E k \in Forks \ kids[n] : kids' = [kids EXCEPT ![n] = @ \cup {k}]
    /\ UNCHANGED <<nodeVars, leader, status, reading, armed, killFailed, mainVars>>

KidExits(n) ==
    /\ Running
    /\ \E k \in kids[n] : kids' = [kids EXCEPT ![n] = @ \ {k}]
    /\ UNCHANGED <<nodeVars, leader, status, reading, armed, killFailed, mainVars>>

\* tee_lines: read_line fails on bytes that are not UTF-8 and the reader ends,
\* while the child and its descendants still hold the stream.
ReaderGivesUp(n) ==
    /\ Running
    /\ TRUE \in May("utf8")
    /\ reading[n]
    /\ leader[n] = "alive" \/ kids[n] # {}
    /\ pc[n] \notin {"finished", "done", "panicked"}
    /\ reading' = [reading EXCEPT ![n] = FALSE]
    /\ UNCHANGED <<nodeVars, leader, status, kids, armed, killFailed, mainVars>>

\* Signals coalesce: a second SIGINT before the first is consumed is lost.
OperatorInterrupts ==
    /\ Running
    /\ ~sigint
    /\ sigint' = TRUE
    /\ UNCHANGED <<nodeVars, procVars, reason, remaining, listener, stdoutOpen,
                   exitCode>>

StdoutCloses ==
    /\ Running
    /\ TRUE \in May("stdout")
    /\ stdoutOpen
    /\ stdoutOpen' = FALSE
    /\ UNCHANGED <<nodeVars, procVars, reason, remaining, listener, sigint,
                   exitCode>>
-----------------------------------------------------------------------------
\* What the executor does for node n without waiting for a probe to pass.
NodeStep(n) ==
    \/ NeverRan(n)
    \/ StartPanics(n)
    \/ Spawn(n)
    \/ SpawnFails(n)
    \/ Kill(n)
    \/ KillDenied(n)
    \/ Collect(n)
    \/ TaskShutDown(n)
    \/ TaskTimesOut(n)
    \/ TaskExits(n)
    \/ TaskWaitFails(n)
    \/ StartupShutDown(n)
    \/ StartupTimesOut(n)
    \/ ServiceExits(n)
    \/ ServiceWaitFails(n)
    \/ ServingShutDown(n)
    \/ ServingDeath(n)
    \/ Record(n)

ProbePasses(n) == ServiceReady(n) \/ ReadyPanics(n)

Listen == FirstSigint \/ SecondSigint

ProcessStep(n) ==
    \/ LeaderExits(n)
    \/ LeaderForks(n)
    \/ KidExits(n)
    \/ ReaderGivesUp(n)

\* The run is over; nothing is left for the runner to do.
Over == ~Running /\ UNCHANGED vars

Next ==
    \/ \E n \in Nodes : NodeStep(n) \/ ProbePasses(n) \/ ProcessStep(n)
    \/ Listen
    \/ MainExits
    \/ OperatorInterrupts
    \/ StdoutCloses
    \/ Over

\* The executor polls every woken future, its timers fire, and the signal
\* listener is one of its tasks.  Nothing is assumed of the children, of the
\* probes or of the operator.
Fairness ==
    /\ \A n \in Nodes : WF_vars(NodeStep(n))
    /\ WF_vars(Listen)
    /\ WF_vars(MainExits)

Spec == Init /\ [][Next]_vars /\ Fairness
-----------------------------------------------------------------------------
(* What the runner promises.                                               *)

\* Ordering guarantee of the event stream: a node's node_started appears
\* only after every dependency is ready, which is node_ready for a service
\* and the node_finished of a success for a task.
StartedAfterDepsReady ==
    \A n \in Nodes : "started" \in emitted[n] =>
        \A i \in DOMAIN DependsOn[n] :
            LET d == Dep(n, i) IN
            IF d \in Services THEN "ready" \in emitted[d]
            ELSE "finished" \in emitted[d] /\ readiness[d] = "ready"

\* terminate_process_group and the Drop of OwnedProcessGroup signal a
\* numeric group id.  While the group is armed, or inside the grace between
\* TERM and KILL, the leader has not been reaped, so the id is not recycled.
SignalsOnlyHeldGroups ==
    \A n \in Nodes :
        /\ armed[n] => leader[n] \in {"alive", "zombie"}
        /\ pc[n] = "stopping" => armed[n]

\* A settled node leaves nothing running behind, unless terminating its group
\* returned an error: its leader is dead, no descendant holds a stream
\* that is still read, and if it is a stopped service, nobody of its group lives.
SettledNodesAreGone ==
    \A n \in Nodes :
        pc[n] \in {"finished", "done"} /\ ~killFailed[n] =>
            /\ leader[n] # "alive"
            /\ reading[n] => kids[n] = {}
            /\ outcome[n] = Stopped => "grouped" \notin kids[n]

\* A node is skipped only because a dependency will never be ready or
\* because the group was already coming down; it then owns no process.
SkipsAreJustified ==
    \A n \in Nodes : outcome[n] = Skipped =>
        /\ leader[n] = "none"
        /\ reason # "none" \/ \E i \in DOMAIN DependsOn[n] : Refuses(Dep(n, i))

\* The group is aborted exactly when a service failed: an abort has a failed
\* service behind it (whose record is lost if its report panicked), and no
\* service is recorded as failed without the group coming down.
AbortsHaveACulprit ==
    /\ reason = "aborted" =>
           \E s \in Services : outcome[s].label = "failed" \/ pc[s] = "panicked"
    /\ \A s \in Services : outcome[s].label = "failed" => reason # "none"

\* Services are drained only when the last task's record is stored, so a
\* drain never terminates a task.
DrainedAfterLastTask ==
    /\ remaining = Cardinality({t \in Tasks : pc[t] # "done"})
    /\ reason = "drained" => \A t \in Tasks : pc[t] = "done"

\* Exit code 0 hides no failure, unless stdout was lost: every node has a
\* record, and each succeeded or was stopped, except a service that failed by
\* exiting zero.
ZeroExitIsClean ==
    exitCode = 0 /\ stdoutOpen =>
        \A n \in Nodes :
            /\ pc[n] = "done"
            /\ \/ outcome[n].label \in {"succeeded", "stopped"}
               \/ n \in Services /\ outcome[n] = Failed(0)

\* First reason to arrive wins, a decided outcome is never revised, and once
\* a reason is published no further process is started.
ShutdownIsFinal ==
    [][ /\ reason # "none" => reason' = reason
        /\ \A n \in Nodes :
              /\ outcome[n] # NoOutcome => outcome'[n] \in {outcome[n], NoOutcome}
              /\ reason # "none" /\ leader[n] = "none" => leader'[n] = "none" ]_vars

\* Any shutdown ends the run, whatever the children do about SIGTERM and
\* however long descendants in the group keep a stream open.
ShutdownEndsTheRun == reason # "none" ~> ~Running

\* The death of a service, before or after it became ready, brings the group
\* down even while a descendant holds its streams open.
DeadServiceIsNoticed ==
    \A s \in Services :
        pc[s] \in {"starting", "serving"} /\ leader[s] = "zombie"
            ~> reason # "none" \/ ~Running

\* A node that depends only on services is decided: ready_timeout bounds how
\* long each of them can keep await_deps waiting, whatever the services do.
DependentsAreDecided ==
    \A n \in Nodes :
        (\A i \in DOMAIN DependsOn[n] : Dep(n, i) \in Services)
            => (pc[n] = "waiting" ~> pc[n] # "waiting" \/ ~Running)
-----------------------------------------------------------------------------
(* The runner implements RunGroup.                                         *)

Needs == [n \in Nodes |-> {Dep(n, i) : i \in DOMAIN DependsOn[n]}]

\* A future that has not reached spawn, one that owns a process, one that is
\* through.
Phase ==
    [n \in Nodes |->
        IF pc[n] = "waiting" THEN "pending"
        ELSE IF pc[n] \in {"finished", "done", "panicked"} THEN "over"
        ELSE "up"]

\* A sender dropped without a verdict is read as a refusal.
PublishedVerdict ==
    [n \in Nodes |-> IF Refuses(n) THEN "unavailable" ELSE readiness[n]]

Group == INSTANCE RunGroup WITH
    phase <- Phase, verdict <- PublishedVerdict, stopping <- reason # "none"

\* Every step of the runner is a step of the promised group or invisible to
\* it: nodes begin only on ready dependencies and never during a shutdown,
\* verdicts are never revised, and only services take the group down.
ImplementsRunGroup == Group!Spec
-----------------------------------------------------------------------------
(* What the documentation promises beyond that, and the code does not keep. *)

\* README, exit codes: after Ctrl-C "the runner exits 130 regardless of which
\* nodes had already finished".  The shutdown cell keeps the first reason, and
\* main looks for Cancelled in it, so a Ctrl-C that the listener handles while
\* children still run exits otherwise if the group was coming down already.
CancelledRunsExit130 ==
    [](listener = "cancelling" /\ (\E n \in Nodes : armed[n])
           => [](~Running => exitCode = 130))

=============================================================================
