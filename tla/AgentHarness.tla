---------------------------- MODULE AgentHarness ----------------------------
(***************************************************************************)
(* packages/agent-harness-ex: a lead and its long-lived subagents, each a  *)
(* process with a mailbox, admitted by a coordinator that keeps the roster *)
(* and the caps.  An action is one message handled by the coordinator or   *)
(* by an agent, one step of a runner task, or one fault.                   *)
(*                                                                         *)
(* A name belongs to at most one process during the life of an instance    *)
(* (the roster never forgets a name), so a name stands for the pid too.    *)
(* Synchronous calls take effect in one step.  What travels on its own is  *)
(* kept apart: a runner's result or :DOWN (an ended run not yet handled),  *)
(* a final cast to the lead (wire), a timer's message (expired), the       *)
(* coordinator's :DOWN (a dead process still monitored), the supervisor's  *)
(* exit signal (a dead process still listed in children).                  *)
(***************************************************************************)
EXTENDS Naturals, SequencesExt

CONSTANTS
    Subs,           \* the names subagents are created under
    Lead,           \* the lead's well-known name
    MaxConcurrent,  \* config.max_concurrent
    MaxTotal,       \* config.max_total
    TokenBudget,    \* config.token_budget
    Tokens,         \* what a runner may charge in one add_usage call
    MaxMsgs,        \* bound: calls of send_message
    MaxWaits,       \* bound: calls of wait_for_message
    MaxDeaths,      \* bound: agent processes that crash or are killed
    MaxRestarts     \* bound: restarts of the whole instance

\* "host" tags what is sent by send_message (no :final kind); it is no name.
ASSUME NamesAssumption ==
    Lead \notin Subs /\ "host" \notin Subs /\ IsFiniteSet(Subs)
ASSUME CapsAssumption == /\ MaxConcurrent \in Nat \ {0}
                         /\ MaxTotal \in Nat \ {0}
ASSUME BudgetAssumption == TokenBudget \in Nat \ {0} /\ Tokens \subseteq Nat
ASSUME BoundsAssumption == /\ MaxMsgs \in Nat /\ MaxWaits \in Nat
                           /\ MaxDeaths \in Nat /\ MaxRestarts \in Nat

VARIABLES
    proc,       \* agent processes: "absent", "alive" or "dead"
    children,   \* the DynamicSupervisor's children
    roster,     \* the coordinator's entries: "none", "alive", "terminated"
    monitors,   \* names whose :DOWN the coordinator still expects
    total,      \* total_created
    run,        \* the runner task: "none", "live", or how it ended
    runs,       \* how many runs the agent has started
    used,       \* budget_used
    mailbox,    \* the queue of accepted messages nobody has taken
    waiters,    \* callers blocked in wait_for_message
    timers,     \* timers of timed waits still running
    expired,    \* {:wait_timeout, from} messages in an agent's inbox
    wire,       \* finals cast to the lead and not yet handled
    accepted,   \* history: the messages accept/2 took, in order
    handed,     \* history: the messages handed to a runner or a host
    lost,       \* history: messages handed to a caller that was dead
    sent, waits, deaths, restarts   \* counters behind the bounds

procVars == <<proc, children>>
coordVars == <<roster, monitors, total>>
mailVars == <<mailbox, waiters, timers, expired, accepted, handed, lost>>
vars == <<procVars, coordVars, run, runs, used, mailVars, wire,
          sent, waits, deaths, restarts>>

Agents == Subs \cup {Lead}
Ended == {"returned", "crashed"}
Wait == [id: Nat, timed: BOOLEAN]
Message == [from: Agents \cup {"host"}, n: Nat]

Init ==
    /\ proc = [a \in Agents |-> IF a = Lead THEN "alive" ELSE "absent"]
    /\ children = {Lead}
    /\ roster = [s \in Subs |-> "none"]
    /\ monitors = {}
    /\ total = 0
    /\ run = [a \in Agents |-> "none"]
    /\ runs = [a \in Agents |-> 0]
    /\ used = [a \in Agents |-> 0]
    /\ mailbox = [a \in Agents |-> <<>>]
    /\ waiters = [a \in Agents |-> <<>>]
    /\ timers = {}
    /\ expired = {}
    /\ wire = [s \in Subs |-> <<>>]
    /\ accepted = [a \in Agents |-> <<>>]
    /\ handed = [a \in Agents |-> <<>>]
    /\ lost = {}
    /\ sent = 0 /\ waits = 0 /\ deaths = 0 /\ restarts = 0

-----------------------------------------------------------------------------
(* The coordinator                                                         *)

LiveCount == Cardinality({s \in Subs : roster[s] = "alive"})

\* Mutants of Admit: no lifetime cap; one slot too many; a terminated
\* agent's name is free again.
AdmitForever(s) == LiveCount < MaxConcurrent /\ roster[s] = "none"

AdmitOneMore(s) ==
    total < MaxTotal /\ LiveCount <= MaxConcurrent /\ roster[s] = "none"

AdmitReused(s) ==
    total < MaxTotal /\ LiveCount < MaxConcurrent /\ roster[s] # "alive"

\* admit/2: the refusals change nothing, so only admission is a step.
Admit(s) ==
    /\ total < MaxTotal
    /\ LiveCount < MaxConcurrent
    /\ roster[s] = "none"

Create(s) ==
    /\ Admit(s)
    /\ proc' = [proc EXCEPT ![s] = "alive"]
    /\ children' = children \cup {s}
    /\ roster' = [roster EXCEPT ![s] = "alive"]
    /\ monitors' = monitors \cup {s}
    /\ total' = total + 1
    /\ run' = [run EXCEPT ![s] = "live"]
    /\ runs' = [runs EXCEPT ![s] = 1]
    /\ UNCHANGED <<used, mailVars, wire, sent, waits, deaths, restarts>>

\* Mutants: nothing is marked; every live entry is.
MarkNothing(s) == roster
MarkAll(s) == [t \in Subs |-> IF roster[t] = "alive" THEN "terminated"
                                                   ELSE roster[t]]

MarkTerminated(s) == [roster EXCEPT ![s] = "terminated"]

\* What a process takes with it: its queue, its waiters and their timers.
Vanish(a) ==
    /\ proc' = [proc EXCEPT ![a] = "dead"]
    /\ mailbox' = [mailbox EXCEPT ![a] = <<>>]
    /\ waiters' = [waiters EXCEPT ![a] = <<>>]
    /\ timers' = {t \in timers : t[1] # a}
    /\ expired' = {t \in expired : t[1] # a}
    /\ accepted' = [accepted EXCEPT ![a] = <<>>]
    /\ handed' = [handed EXCEPT ![a] = <<>>]
    /\ UNCHANGED lost

\* delete of an entry that is alive: the supervisor stops the agent, whose
\* terminate/2 kills the runner task, and the entry is marked at once; the
\* monitor stays and its :DOWN follows.  A child that died and that the
\* supervisor has not yet reaped answers :ok as well.
DeleteStops(s) ==
    /\ roster[s] = "alive"
    /\ s \in children
    /\ children' = children \ {s}
    /\ roster' = MarkTerminated(s)
    /\ run' = [run EXCEPT ![s] = IF proc[s] = "alive" THEN "none" ELSE @]
    /\ Vanish(s)
    /\ UNCHANGED <<monitors, total, runs, used, wire,
                   sent, waits, deaths, restarts>>

\* delete of an entry whose process the supervisor has reaped already:
\* terminate_child answers {:error, :not_found}, the match on :ok raises,
\* the coordinator dies and :one_for_all restarts the instance.
DeleteCrashesCoordinator(s) ==
    /\ roster[s] = "alive"
    /\ s \notin children
    /\ restarts < MaxRestarts
    /\ restarts' = restarts + 1
    /\ proc' = [a \in Agents |-> IF a = Lead THEN "alive" ELSE "absent"]
    /\ children' = {Lead}
    /\ roster' = [t \in Subs |-> "none"]
    /\ monitors' = {}
    /\ total' = 0
    /\ run' = [a \in Agents |-> "none"]
    /\ runs' = [a \in Agents |-> 0]
    /\ used' = [a \in Agents |-> 0]
    /\ mailbox' = [a \in Agents |-> <<>>]
    /\ waiters' = [a \in Agents |-> <<>>]
    /\ timers' = {}
    /\ expired' = {}
    /\ wire' = [t \in Subs |-> <<>>]
    /\ accepted' = [a \in Agents |-> <<>>]
    /\ handed' = [a \in Agents |-> <<>>]
    /\ UNCHANGED <<lost, sent, waits, deaths>>

\* The coordinator handles the :DOWN of a monitored agent.
Down(s) ==
    /\ s \in monitors
    /\ proc[s] = "dead"
    /\ monitors' = monitors \ {s}
    /\ roster' = MarkTerminated(s)
    /\ UNCHANGED <<procVars, total, run, runs, used, mailVars, wire,
                   sent, waits, deaths, restarts>>

\* The DynamicSupervisor handles the exit of a :temporary child.
Reap(a) ==
    /\ a \in children
    /\ proc[a] = "dead"
    /\ children' = children \ {a}
    /\ UNCHANGED <<proc, coordVars, run, runs, used, mailVars, wire,
                   sent, waits, deaths, restarts>>

\* status and status_all: an entry that is alive asks the process, and a
\* process that died meanwhile counts as terminated.
Status(s) ==
    IF roster[s] = "terminated" \/ proc[s] = "dead" THEN "terminated"
    ELSE IF run[s] = "none" THEN "idle" ELSE "working"

-----------------------------------------------------------------------------
(* An agent                                                                *)

\* Nobody but its own runner waits on a subagent; the runner is blocked
\* while it waits.
Blocked(a) == waiters[a] # <<>>
MayCall(a) == /\ proc[a] = "alive"
              /\ a \in Subs => run[a] = "live" /\ ~Blocked(a)

WaiterIsDead(a) == a \in Subs /\ run[a] # "live"

\* The timer of the waiter that accept/2 answers.
FirstTimer(a) == {<<a, Head(waiters[a])>>}

\* Mutant: the queue is a stack.
Push(a, m) == <<m>> \o mailbox[a]

QueueIn(a, m) == Append(mailbox[a], m)

\* accept/2 in its order of priority: the first waiter, waking an idle
\* subagent, the queue.
AnswerWaiter(a, m) ==
    /\ waiters[a] # <<>>
    /\ timers' = timers \ FirstTimer(a)
    /\ waiters' = [waiters EXCEPT ![a] = Tail(@)]
    /\ handed' = [handed EXCEPT ![a] = Append(@, m)]
    /\ lost' = IF WaiterIsDead(a) THEN lost \cup {m} ELSE lost
    /\ UNCHANGED <<mailbox, run, runs>>

WakeIdle(a, m) ==
    /\ waiters[a] = <<>>
    /\ a \in Subs /\ run[a] = "none"
    /\ run' = [run EXCEPT ![a] = "live"]
    /\ runs' = [runs EXCEPT ![a] = @ + 1]
    /\ handed' = [handed EXCEPT ![a] = Append(@, m)]
    /\ UNCHANGED <<mailbox, waiters, timers, lost>>

Enqueue(a, m) ==
    /\ waiters[a] = <<>>
    /\ ~(a \in Subs /\ run[a] = "none")
    /\ mailbox' = [mailbox EXCEPT ![a] = QueueIn(a, m)]
    /\ UNCHANGED <<waiters, timers, handed, lost, run, runs>>

Accept(a, m) ==
    /\ accepted' = [accepted EXCEPT ![a] = Append(@, m)]
    /\ \/ AnswerWaiter(a, m)
       \/ WakeIdle(a, m)
       \/ Enqueue(a, m)
    /\ UNCHANGED expired

\* send_message to a live agent; to any other name it is :not_found.
Send(a) ==
    /\ proc[a] = "alive"
    /\ sent < MaxMsgs
    /\ sent' = sent + 1
    /\ Accept(a, [from |-> "host", n |-> sent'])
    /\ UNCHANGED <<procVars, coordVars, used, wire, waits, deaths, restarts>>

\* The cast of a final reaches the lead, or nobody when the lead is dead.
HearFinal(s) ==
    /\ wire[s] # <<>>
    /\ wire' = [wire EXCEPT ![s] = Tail(@)]
    /\ IF proc[Lead] = "alive"
       THEN Accept(Lead, Head(wire[s]))
       ELSE UNCHANGED <<mailVars, run, runs>>
    /\ UNCHANGED <<procVars, coordVars, used, sent, waits, deaths, restarts>>

\* checkpoint, and wait_for_message over a queue that is not empty.
Drain(a) ==
    /\ MayCall(a)
    /\ mailbox[a] # <<>>
    /\ handed' = [handed EXCEPT ![a] = @ \o mailbox[a]]
    /\ mailbox' = [mailbox EXCEPT ![a] = <<>>]
    /\ UNCHANGED <<procVars, coordVars, run, runs, used, waiters, timers,
                   expired, accepted, lost, wire, sent, waits, deaths,
                   restarts>>

WaitForMessage(a, timed) ==
    LET w == [id |-> waits + 1, timed |-> timed]
    IN  /\ MayCall(a)
        /\ mailbox[a] = <<>>
        /\ waits < MaxWaits
        /\ waits' = waits + 1
        /\ waiters' = [waiters EXCEPT ![a] = Append(@, w)]
        /\ timers' = IF timed THEN timers \cup {<<a, w>>} ELSE timers
        /\ UNCHANGED <<procVars, coordVars, run, runs, used, mailbox,
                       expired, accepted, handed, lost, wire, sent, deaths,
                       restarts>>

\* External: Process.send_after delivers its message.
TimerFires(a, w) ==
    /\ <<a, w>> \in timers
    /\ timers' = timers \ {<<a, w>>}
    /\ expired' = expired \cup {<<a, w>>}
    /\ UNCHANGED <<procVars, coordVars, run, runs, used, mailbox, waiters,
                   accepted, handed, lost, wire, sent, waits, deaths,
                   restarts>>

\* Mutant: nobody is answered.
StillWaiting(a, i) == waiters[a]

\* The waiters left once the i-th has been answered.
OtherWaiters(a, i) == RemoveAt(waiters[a], i)

\* {:wait_timeout, from}: answers that caller if it still waits, and is
\* ignored if a message or the end of the run has answered it.
WaitTimeout(a, w) ==
    /\ <<a, w>> \in expired
    /\ expired' = expired \ {<<a, w>>}
    /\ \/ \E i \in 1..Len(waiters[a]) :
            /\ waiters[a][i] = w
            /\ waiters' = [waiters EXCEPT ![a] = OtherWaiters(a, i)]
       \/ /\ \A i \in 1..Len(waiters[a]) : waiters[a][i] # w
          /\ UNCHANGED waiters
    /\ UNCHANGED <<procVars, coordVars, run, runs, used, mailbox, timers,
                   accepted, handed, lost, wire, sent, waits, deaths,
                   restarts>>

AddUsage(a, tokens) ==
    /\ proc[a] = "alive" /\ run[a] = "live" /\ ~Blocked(a)
    /\ used[a] <= TokenBudget       \* bound: nothing to learn once exhausted
    /\ used' = [used EXCEPT ![a] = @ + tokens]
    /\ UNCHANGED <<procVars, coordVars, run, runs, mailVars, wire,
                   sent, waits, deaths, restarts>>

\* Mutant: the agent idles over its queue (regression C1 of the tests).
NeverWakes(s) == FALSE

\* wake_from_mailbox/1 finds a message.
WakesFromMailbox(s) == mailbox[s] # <<>>

\* Mutant: a crashed run is not reported.
ReportsReturns(s) == run[s] = "returned"

\* route_to_lead/2 finds the lead.
RoutesToLead(s) == proc[Lead] = "alive"

\* finish_run/2, on the task's result or its :DOWN: a final, or an error
\* (the model keeps only which run it reports), is cast to the lead, the
\* stranded waiters are answered :timeout and dropped, and the head of the
\* queue, if any, starts the next run.
FinishRun(s) ==
    LET final == [from |-> s, n |-> runs[s]]
        woken == WakesFromMailbox(s)
    IN  /\ proc[s] = "alive"
        /\ run[s] \in Ended
        /\ wire' = IF RoutesToLead(s)
                   THEN [wire EXCEPT ![s] = Append(@, final)] ELSE wire
        /\ waiters' = [waiters EXCEPT ![s] = <<>>]
        /\ timers' = {t \in timers : t[1] # s}
        /\ run' = [run EXCEPT ![s] = IF woken THEN "live" ELSE "none"]
        /\ runs' = [runs EXCEPT ![s] = IF woken THEN @ + 1 ELSE @]
        /\ mailbox' = [mailbox EXCEPT ![s] = IF woken THEN Tail(@) ELSE @]
        /\ handed' = [handed EXCEPT ![s] =
                        IF woken THEN Append(@, Head(mailbox[s])) ELSE @]
        /\ UNCHANGED <<procVars, coordVars, used, expired, accepted, lost,
                       sent, waits, deaths, restarts>>

-----------------------------------------------------------------------------
(* Runner tasks and faults                                                 *)

\* External: the runner returns (unless it is blocked in a call) or its
\* task dies.  The result of a run whose agent is gone reaches nobody.
RunEnds(s, how) ==
    /\ run[s] = "live"
    /\ how # "crashed" => ~Blocked(s)
    /\ run' = [run EXCEPT ![s] = IF proc[s] = "alive" THEN how ELSE "none"]
    /\ UNCHANGED <<procVars, coordVars, runs, used, mailVars, wire,
                   sent, waits, deaths, restarts>>

\* An agent process dies: of an exception in a handler, whereupon
\* terminate/2 kills its runner task, or of a brutal kill, which leaves the
\* task (async_nolink) running without an owner.
AgentDies(a, brutal) ==
    /\ proc[a] = "alive"
    /\ deaths < MaxDeaths
    /\ deaths' = deaths + 1
    /\ run' = [run EXCEPT ![a] =
                 IF brutal /\ @ = "live" THEN "live" ELSE "none"]
    /\ Vanish(a)
    /\ UNCHANGED <<children, coordVars, runs, used, wire, sent, waits,
                   restarts>>

Delete(s) == DeleteStops(s) \/ DeleteCrashesCoordinator(s)

Next ==
    \/ \E s \in Subs : Create(s) \/ Delete(s) \/ Down(s)
    \/ \E a \in Agents : Reap(a)
    \/ \E a \in Agents : Send(a) \/ Drain(a)
    \/ \E a \in Agents, timed \in BOOLEAN : WaitForMessage(a, timed)
    \/ \E t \in timers : TimerFires(t[1], t[2])
    \/ \E t \in expired : WaitTimeout(t[1], t[2])
    \/ \E s \in Subs, tokens \in Tokens : AddUsage(s, tokens)
    \/ \E s \in Subs : HearFinal(s) \/ FinishRun(s)
    \/ \E s \in Subs, how \in Ended : RunEnds(s, how)
    \/ \E a \in Agents, brutal \in BOOLEAN : AgentDies(a, brutal)

\* Every process eventually handles what is in its inbox, timers fire, and
\* a runner that is not blocked eventually ends (the Runner behaviour's
\* contract: stop when the budget is exhausted, return a final).
Fairness ==
    /\ \A s \in Subs : WF_vars(Down(s)) /\ WF_vars(HearFinal(s))
                       /\ WF_vars(FinishRun(s))
                       /\ WF_vars(\E how \in Ended : RunEnds(s, how))
    /\ \A a \in Agents : WF_vars(Reap(a))
    /\ WF_vars(\E t \in timers : TimerFires(t[1], t[2]))
    /\ WF_vars(\E t \in expired : WaitTimeout(t[1], t[2]))

Spec == Init /\ [][Next]_vars /\ Fairness

-----------------------------------------------------------------------------
(* Properties                                                              *)

TypeOK ==
    /\ proc \in [Agents -> {"absent", "alive", "dead"}]
    /\ children \subseteq Agents
    /\ roster \in [Subs -> {"none", "alive", "terminated"}]
    /\ monitors \subseteq Subs
    /\ total \in 0..MaxTotal
    /\ run \in [Agents -> {"none", "live"} \cup Ended]
    /\ runs \in [Agents -> Nat]
    /\ used \in [Agents -> Nat]
    /\ mailbox \in [Agents -> Seq(Message)]
    /\ waiters \in [Agents -> Seq(Wait)]
    /\ timers \subseteq Agents \X Wait
    /\ expired \subseteq Agents \X Wait
    /\ wire \in [Subs -> Seq(Message)]
    /\ accepted \in [Agents -> Seq(Message)]
    /\ handed \in [Agents -> Seq(Message)]
    /\ lost \subseteq Message
    /\ sent \in 0..MaxMsgs /\ waits \in 0..MaxWaits
    /\ deaths \in 0..MaxDeaths /\ restarts \in 0..MaxRestarts

\* The caps bound the processes themselves and not only the roster, which
\* lags behind crashes: no more than max_concurrent subagent processes are
\* alive and no more than max_total were ever created.
Caps ==
    /\ Cardinality({s \in Subs : proc[s] = "alive"}) <= MaxConcurrent
    /\ Cardinality({s \in Subs : proc[s] # "absent"}) <= MaxTotal

\* A deleted or crashed agent's :DOWN and the supervisor's reaping arrive in
\* any order, and the roster never shows an agent as gone that still runs.
RosterNeverBuriesTheLiving ==
    \A s \in Subs :
        /\ proc[s] = "alive" => roster[s] = "alive" /\ s \in children
        /\ roster[s] = "alive" /\ proc[s] = "dead" => s \in monitors

\* Each message an agent accepted is handed out once, in the order it was
\* accepted, whichever way it went: to a waiter, as the instructions of a
\* new run, or through the queue.
HandedOutInOrder ==
    \A a \in Agents : proc[a] = "alive" =>
        accepted[a] = handed[a] \o mailbox[a]

\* An idle subagent has nothing left to do: no queued message that should
\* have woken it, no waiter that would swallow the next one.
IdleMeansNothingPending ==
    \A s \in Subs : proc[s] = "alive" /\ run[s] = "none" =>
        mailbox[s] = <<>> /\ waiters[s] = <<>>

\* Where in the lead's history the finals of s are, how many of its runs have
\* ended, and how many of those are no longer on their way.
Heard(s) == {i \in DOMAIN accepted[Lead] : accepted[Lead][i].from = s}
EndedRuns(s) == IF run[s] = "none" THEN runs[s] ELSE runs[s] - 1
HeardRuns(s) == EndedRuns(s) - Len(wire[s])

\* While the lead lives, each ended run of a live subagent has one final and
\* they come in the order of the runs: the lead has accepted those of the
\* first runs, each once, and the wire carries the rest.
EveryRunReportsOnce ==
    \A s \in Subs : proc[s] = "alive" /\ proc[Lead] = "alive" =>
        /\ HeardRuns(s) \in Nat
        /\ {accepted[Lead][i].n : i \in Heard(s)} = 1..HeardRuns(s)
        /\ \A i, j \in Heard(s) :
              i < j => accepted[Lead][i].n < accepted[Lead][j].n
        /\ \A k \in 1..Len(wire[s]) : wire[s][k].n = HeardRuns(s) + k

\* subagent_status answers :terminated for good, within one instance, and
\* what an agent has spent of its budget is never given back by a new run.
TerminatedAndSpentAreFinal ==
    [][restarts' = restarts =>
        \A s \in Subs :
            /\ Status(s) = "terminated" => Status(s)' = "terminated"
            /\ used'[s] >= used[s]]_vars

\* A message queued for a subagent is taken up: by a checkpoint, by a wait
\* or as the instructions of the next run, unless the agent dies.
MessagesAreTakenUp ==
    \A s \in Subs : mailbox[s] # <<>> ~> mailbox[s] = <<>>

\* The slot of an agent that died comes back without anyone deleting it.
SlotsComeBack ==
    \A s \in Subs : proc[s] = "dead" ~> roster[s] # "alive"

\* A timed wait is answered.
TimedWaitsEnd ==
    \A a \in Agents : (\E i \in 1..Len(waiters[a]) : waiters[a][i].timed)
        ~> ~(\E i \in 1..Len(waiters[a]) : waiters[a][i].timed)

\* The comment above drop_waiters and the regression test C2 say that a dead
\* run's waiter must not swallow a message.
NoMessageSwallowed == lost = {}

=============================================================================
