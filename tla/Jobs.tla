-------------------------------- MODULE Jobs --------------------------------
(***************************************************************************)
(* packages/mcp-ex: the jobs that run cells.  A job's control process (ctl)*)
(* spawns the evaluation, streams output into the durable ledger and       *)
(* records the one terminal transition there; the reaper records it for a  *)
(* control process that died; the notifier announces the outbox row of the *)
(* transition on the channel unless the reply of exec has carried it.      *)
(*                                                                         *)
(* An action is one message handled by one of these processes, cut at each *)
(* call into the ledger, because a kill, an outage or a caller that gives  *)
(* up strikes while a process is parked there.  A ledger call has one of   *)
(* the outcomes of IxMcp.ActionLog's client seam:                          *)
(*   "ok"    it ran and the reply arrived;                                 *)
(*   "lost"  it never ran and the caller exits (retries exhausted);        *)
(*   "late"  the caller's call timed out, and it runs all the same;        *)
(*   "blip"  it ran, the server died before replying, and the seam's retry *)
(*           got the reply of a second, idempotent execution.              *)
(* The requests of a control process that open and close its record lie in *)
(* the ledger's inbox in between, and outlive it when it is killed.  The   *)
(* other calls are of processes that nothing kills, or only add output.    *)
(***************************************************************************)
EXTENDS Naturals, Sequences, FiniteSets

CONSTANTS
    JobIds,           \* jobs; each has the exec handler that started it
    Cells,            \* cells that await jobs
    QuietJobs,        \* jobs whose cell awaits another job
    FinalizeRetries,  \* the reaper's @finalize_retries
    MaxOutput,        \* bound: chunks a job writes
    MaxFaults,        \* bound: ledger calls that go wrong
    MaxKills,         \* bound: control processes killed, IO proxies crashed
    MaxDrops,         \* bound: transports lost
    MaxMishaps,       \* bound: all of these together
    MaxAwaits         \* bound: awaits by cells

ASSUME NamesAssumption == JobIds \cap Cells = {} /\ QuietJobs \subseteq JobIds
ASSUME BoundsAssumption ==
    /\ FinalizeRetries \in Nat /\ MaxOutput \in Nat /\ MaxFaults \in Nat
    /\ MaxKills \in Nat /\ MaxDrops \in Nat /\ MaxMishaps \in Nat
    /\ MaxAwaits \in Nat

VARIABLES
    ctl,        \* the control process: where it is in its handlers
    status,     \* its status, which is the Registry snapshot while it lives
    eval,       \* the evaluation, or its last message in ctl's inbox
    proxy,      \* the linked IO proxy
    quiet,      \* the job is a quiet wrapper
    recorded,   \* terminal_recorded
    subs,       \* subscribers
    ends,       \* history: the terminal statuses it has had
    inbox,      \* its requests in the ledger's inbox: "start", or a status
    answer,     \* what the call it is parked in has returned
    hot,        \* chunks in the hot buffer
    due,        \* history: chunks in the buffer when the job first finished
    durable,    \* chunks in job_output
    row,        \* status of the jobs row, "none" if there is none
    outbox,     \* the job's outbox row
    guard,      \* what the reaper does about the job
    left,       \* the reaper's remaining attempts
    pending,    \* rows published and pooled until the coalesce window closes
    conn,       \* the transport and its registration with the notifier
    cut,        \* the handlers whose transport is dead
    said,       \* history: how the finish was told; "dead": to nobody
    at,         \* callers of await: where they are
    target,     \* the job a caller awaits
    mail,       \* requests of a caller in a job's inbox
    box,        \* {:ix_job_finished, id, summary} messages of a caller
    ans,        \* what the caller's last await or read returned
    faults, kills, drops, awaits

jobVars == <<ctl, status, eval, proxy, quiet, recorded, subs, ends>>
parkVars == <<inbox, answer>>
outVars == <<hot, due, durable>>
ledgerVars == <<row, outbox>>
reaperVars == <<guard, left>>
noteVars == <<pending, conn, cut, said>>
callVars == <<at, target, mail, box, ans>>
bounds == <<faults, kills, drops, awaits>>
vars == <<jobVars, parkVars, outVars, ledgerVars, reaperVars, noteVars,
          callVars, bounds>>

Callers == JobIds \cup Cells
Terminal == {"done", "failed", "cancelled", "killed"}
Status == Terminal \cup {"running"}
None == [job |-> "none", status |-> "none"]
Final(j, st) == [job |-> j, status |-> st]

Init ==
    /\ ctl = [j \in JobIds |-> "none"]
    /\ status = [j \in JobIds |-> "running"]
    /\ eval = [j \in JobIds |-> "none"]
    /\ proxy = [j \in JobIds |-> "none"]
    /\ quiet = [j \in JobIds |-> FALSE]
    /\ recorded = [j \in JobIds |-> FALSE]
    /\ subs = [j \in JobIds |-> {}]
    /\ ends = [j \in JobIds |-> {}]
    /\ inbox = [j \in JobIds |-> <<>>]
    /\ answer = [j \in JobIds |-> "none"]
    /\ hot = [j \in JobIds |-> 0]
    /\ due = [j \in JobIds |-> 0]
    /\ durable = [j \in JobIds |-> 0]
    /\ row = [j \in JobIds |-> "none"]
    /\ outbox = [j \in JobIds |-> "none"]
    /\ guard = [j \in JobIds |-> "none"]
    /\ left = [j \in JobIds |-> FinalizeRetries]
    /\ pending = {}
    /\ conn = "registering"
    /\ cut = {}
    /\ said = [j \in JobIds |-> {}]
    /\ at = [x \in Callers |-> "idle"]
    /\ target = [x \in Callers |-> IF x \in JobIds THEN x ELSE "none"]
    /\ mail = [x \in Callers |-> [j \in JobIds |-> <<>>]]
    /\ box = [x \in Callers |-> <<>>]
    /\ ans = [x \in Callers |-> None]
    /\ faults = 0 /\ kills = 0 /\ drops = 0 /\ awaits = 0

-----------------------------------------------------------------------------
(* The ledger                                                              *)

MoreMishaps == faults + kills + drops < MaxMishaps

\* A call may go wrong while the fault budget lasts.
Outcome(o) ==
    IF o = "ok" THEN UNCHANGED faults
    ELSE MoreMishaps /\ faults < MaxFaults /\ faults' = faults + 1

Committed(o) == o # "lost"
Heard(o) == o \in {"ok", "blip"}

\* Mutant: a late transition overwrites an earlier one.
AnyRow(j) == TRUE

\* finish_job: only a row that is still running, or that the start metadata
\* reconstructs, makes the transition.
Transitions(j) == row[j] \notin Terminal

\* A quiet wrapper's clean finish is born acked: it is not news.
BornAcked(st, isQuiet) == isQuiet /\ st = "done"

\* The atomic write of finish_job: the jobs row and its outbox row.
FinishJob(j, st, isQuiet) ==
    IF Transitions(j)
    THEN /\ row' = [row EXCEPT ![j] = st]
         /\ outbox' = [outbox EXCEPT ![j] =
                IF BornAcked(st, isQuiet) THEN "acked" ELSE "unacked"]
    ELSE UNCHANGED ledgerVars

\* job_started inserts the row unless there is one.
StartJob(j) ==
    /\ row' = [row EXCEPT ![j] = IF @ = "none" THEN "running" ELSE @]
    /\ UNCHANGED outbox

\* The control process is in a call that has not returned; its request, the
\* last it sent, is the one the ledger comes to next.
Parked(j) == ctl[j] \in {"row", "record"} /\ answer[j] = "none"
Awaited(j) == Parked(j) /\ Len(inbox[j]) = 1

\* The reply of finish_job: {:notify, outbox}, or :already_final (as good as
\* the :ok of job_started).
ReplyTo(j, req) ==
    IF req # "start" /\ Transitions(j) THEN "notify" ELSE "final"

\* The ledger comes to a control process's request, whether or not anybody
\* waits for it any more.  A retry takes the place of the one it repeats.
Ledger(j, o) ==
    LET req == Head(inbox[j])
    IN  /\ inbox[j] # <<>>
        /\ o = "blip" => Awaited(j)
        /\ Outcome(o)
        /\ IF ~Committed(o) THEN UNCHANGED ledgerVars
           ELSE IF req = "start" THEN StartJob(j)
                                 ELSE FinishJob(j, req, quiet[j])
        /\ inbox' = [inbox EXCEPT ![j] = IF o = "blip" THEN @ ELSE Tail(@)]
        /\ answer' = [answer EXCEPT ![j] =
             IF ~Awaited(j) \/ o = "blip" THEN @
             ELSE IF o = "ok" THEN ReplyTo(j, req) ELSE "exit"]
        /\ UNCHANGED <<jobVars, outVars, reaperVars, noteVars, callVars,
                       kills, drops, awaits>>

\* GenServer.call gives up; the request stays where it is.
CallTimesOut(j) ==
    /\ Parked(j)
    /\ Outcome("late")
    /\ answer' = [answer EXCEPT ![j] = "exit"]
    /\ UNCHANGED <<jobVars, inbox, outVars, ledgerVars, reaperVars, noteVars,
                   callVars, kills, drops, awaits>>

-----------------------------------------------------------------------------
(* The control process                                                     *)

\* A living transport's request: Jobs.run starts the process, whose init
\* publishes the snapshot, and the handler subscribes.
Start(j) ==
    /\ ctl[j] = "none"
    /\ conn \in {"registering", "up", "deaf"}
    /\ ctl' = [ctl EXCEPT ![j] = "arm"]
    /\ at' = [at EXCEPT ![j] = "calling"]
    /\ mail' = [mail EXCEPT ![j][j] = <<"subscribe">>]
    /\ UNCHANGED <<status, eval, proxy, quiet, recorded, subs, ends, parkVars,
                   outVars, ledgerVars, reaperVars, noteVars, target, box,
                   ans, bounds>>

\* handle_continue(:spawn_eval): the reaper is armed, then the ledger called.
ArmReaper(j) ==
    /\ ctl[j] = "arm"
    /\ ctl' = [ctl EXCEPT ![j] = "row"]
    /\ guard' = [guard EXCEPT ![j] = "armed"]
    /\ inbox' = [inbox EXCEPT ![j] = Append(@, "start")]
    /\ UNCHANGED <<status, eval, proxy, quiet, recorded, subs, ends, answer,
                   outVars, ledgerVars, left, noteVars, callVars, bounds>>

\* Whatever job_started returned, the evaluation is spawned.
SpawnEval(j) ==
    /\ ctl[j] = "row"
    /\ answer[j] # "none"
    /\ answer' = [answer EXCEPT ![j] = "none"]
    /\ ctl' = [ctl EXCEPT ![j] = "serving"]
    /\ eval' = [eval EXCEPT ![j] = "live"]
    /\ proxy' = [proxy EXCEPT ![j] = "up"]
    /\ UNCHANGED <<status, quiet, recorded, subs, ends, inbox, outVars,
                   ledgerVars, reaperVars, noteVars, callVars, bounds>>

\* The cell, or a process it left behind, prints.
Capture(j) ==
    /\ proxy[j] = "up"
    /\ hot[j] < MaxOutput
    /\ hot' = [hot EXCEPT ![j] = @ + 1]
    /\ UNCHANGED <<jobVars, parkVars, due, durable, ledgerVars, reaperVars,
                   noteVars, callVars, bounds>>

\* The cell awaits another job: its own becomes a quiet wrapper.
Quiet(j) ==
    /\ j \in QuietJobs
    /\ ctl[j] = "serving"
    /\ eval[j] = "live"
    /\ quiet' = [quiet EXCEPT ![j] = TRUE]
    /\ UNCHANGED <<ctl, status, eval, proxy, recorded, subs, ends, parkVars,
                   outVars, ledgerVars, reaperVars, noteVars, callVars,
                   bounds>>

\* External: the evaluation sends {:eval_finished, ...} or dies of a crash.
EvalEnds(j, how) ==
    /\ eval[j] = "live"
    /\ ctl[j] # "dead"
    /\ eval' = [eval EXCEPT ![j] = how]
    /\ UNCHANGED <<ctl, status, proxy, quiet, recorded, subs, ends, parkVars,
                   outVars, ledgerVars, reaperVars, noteVars, callVars,
                   bounds>>

\* Mutant: the newest chunk is left out of the batch.
FlushedShort(j, o) ==
    IF Committed(o) /\ hot[j] > 0 THEN hot[j] - 1 ELSE durable[j]

\* flush/1: the chunks not yet persisted, in one batch.
Flushed(j, o) == IF Committed(o) THEN hot[j] ELSE durable[j]

\* The periodic :flush of a running job.
FlushTick(j, o) ==
    /\ ctl[j] = "serving"
    /\ status[j] = "running"
    /\ durable[j] < hot[j]
    /\ Outcome(o)
    /\ durable' = [durable EXCEPT ![j] = Flushed(j, o)]
    /\ UNCHANGED <<jobVars, parkVars, hot, due, ledgerVars, reaperVars,
                   noteVars, callVars, kills, drops, awaits>>

\* finish/4 up to its first ledger call: the snapshot is published.
BeginFinish(j, st) ==
    /\ status' = [status EXCEPT ![j] = st]
    /\ ends' = [ends EXCEPT ![j] = @ \cup {st}]
    /\ due' = [due EXCEPT ![j] = IF status[j] = "running" THEN hot[j] ELSE @]
    /\ ctl' = [ctl EXCEPT ![j] = "flush"]

\* {:eval_finished, pid, outcome}, whatever the status is.
EvalFinished(j) ==
    /\ ctl[j] = "serving"
    /\ eval[j] \in {"done", "failed"}
    /\ BeginFinish(j, eval[j])
    /\ eval' = [eval EXCEPT ![j] = "gone"]
    /\ UNCHANGED <<proxy, quiet, recorded, subs, parkVars, hot, durable,
                   ledgerVars, reaperVars, noteVars, callVars, bounds>>

\* The :DOWN of an evaluation that did not report.
EvalDown(j) ==
    /\ ctl[j] = "serving"
    /\ eval[j] = "crashed"
    /\ eval' = [eval EXCEPT ![j] = "gone"]
    /\ IF status[j] = "running" THEN BeginFinish(j, "failed")
                                ELSE UNCHANGED <<status, ends, due, ctl>>
    /\ UNCHANGED <<proxy, quiet, recorded, subs, parkVars, hot, durable,
                   ledgerVars, reaperVars, noteVars, callVars, bounds>>

\* Killing the evaluation and flushing its :DOWN leaves only a result that
\* it had already sent.
Silenced(j) == IF eval[j] \in {"done", "failed"} THEN eval[j] ELSE "gone"

Cancel(j) ==
    /\ ctl[j] = "serving"
    /\ status[j] = "running"
    /\ BeginFinish(j, "cancelled")
    /\ eval' = [eval EXCEPT ![j] = Silenced(j)]
    /\ UNCHANGED <<proxy, quiet, recorded, subs, parkVars, hot, durable,
                   ledgerVars, reaperVars, noteVars, callVars, bounds>>

\* The trapped {:EXIT, io_proxy, reason}.
ProxyExit(j) ==
    /\ ctl[j] = "serving"
    /\ proxy[j] = "exited"
    /\ proxy' = [proxy EXCEPT ![j] = "gone"]
    /\ IF status[j] = "running"
       THEN BeginFinish(j, "killed")
            /\ eval' = [eval EXCEPT ![j] = Silenced(j)]
       ELSE UNCHANGED <<status, ends, due, ctl, eval>>
    /\ UNCHANGED <<quiet, recorded, subs, parkVars, hot, durable,
                   ledgerVars, reaperVars, noteVars, callVars, bounds>>

\* finish/4, or a retry: the captured output is persisted, then finish_job
\* called.
FlushFinal(j, o) ==
    /\ ctl[j] = "flush"
    /\ o # "ok" => durable[j] < hot[j]
    /\ Outcome(o)
    /\ durable' = [durable EXCEPT ![j] = Flushed(j, o)]
    /\ ctl' = [ctl EXCEPT ![j] = "record"]
    /\ inbox' = [inbox EXCEPT ![j] = Append(@, status[j])]
    /\ UNCHANGED <<status, eval, proxy, quiet, recorded, subs, ends, answer,
                   hot, due, ledgerVars, reaperVars, noteVars, callVars,
                   kills, drops, awaits>>

\* Mutant: the reaper is told even when the ledger did not answer.
ToldAnyway(j) == TRUE

TellsReaper(j) == answer[j] # "exit"

\* record_terminal/1 has its reply: publish, unless the row was born acked,
\* and report; or re-arm.
Record(j) ==
    /\ ctl[j] = "record"
    /\ answer[j] # "none"
    /\ answer' = [answer EXCEPT ![j] = "none"]
    /\ pending' = IF answer[j] = "notify" /\ ~BornAcked(status[j], quiet[j])
                  THEN pending \cup {j} ELSE pending
    /\ recorded' = [recorded EXCEPT ![j] = @ \/ answer[j] # "exit"]
    /\ guard' = [guard EXCEPT ![j] = IF TellsReaper(j) THEN "none" ELSE @]
    /\ ctl' = [ctl EXCEPT ![j] = "notify"]
    /\ UNCHANGED <<status, eval, proxy, quiet, subs, ends, inbox, outVars,
                   ledgerVars, left, conn, cut, said, callVars, bounds>>

\* The end of finish/4: the subscribers hear.
TellSubscribers(j) ==
    /\ ctl[j] = "notify"
    /\ ctl' = [ctl EXCEPT ![j] = "serving"]
    /\ box' = [x \in Callers |-> IF x \in subs[j]
                 THEN Append(box[x], Final(j, status[j])) ELSE box[x]]
    /\ subs' = [subs EXCEPT ![j] = {}]
    /\ UNCHANGED <<status, eval, proxy, quiet, recorded, ends, parkVars,
                   outVars, ledgerVars, reaperVars, noteVars, at, target,
                   mail, ans, bounds>>

\* Mutant: a transition the ledger did not take is forgotten.
NeverRetries(j) == FALSE

Unrecorded(j) == status[j] # "running" /\ ~recorded[j]

\* :record_terminal, re-armed until the ledger takes the transition; there
\* are no subscribers left to tell.
RetryTerminal(j) ==
    /\ ctl[j] = "serving"
    /\ Unrecorded(j)
    /\ ctl' = [ctl EXCEPT ![j] = "flush"]
    /\ UNCHANGED <<status, eval, proxy, quiet, recorded, subs, ends, parkVars,
                   outVars, ledgerVars, reaperVars, noteVars, callVars,
                   bounds>>

\* The kill comes before the request it would be parked on is sent.
Unsent(j) == IF Parked(j) THEN SubSeq(inbox[j], 1, Len(inbox[j]) - 1)
                          ELSE inbox[j]

\* A kill that trapping cannot catch, or a shutdown.  The hot buffer dies
\* with its owner, and so does a reply; a request that was sent does not.
\* The evaluation is not linked and runs on, its result reaching nobody.
Kill(j) ==
    /\ ctl[j] \notin {"none", "dead"}
    /\ MoreMishaps /\ kills < MaxKills
    /\ kills' = kills + 1
    /\ ctl' = [ctl EXCEPT ![j] = "dead"]
    /\ \E q \in {inbox[j], Unsent(j)} : inbox' = [inbox EXCEPT ![j] = q]
    /\ answer' = [answer EXCEPT ![j] = "none"]
    /\ proxy' = [proxy EXCEPT ![j] = "gone"]
    /\ subs' = [subs EXCEPT ![j] = {}]
    /\ hot' = [hot EXCEPT ![j] = 0]
    /\ mail' = [x \in Callers |-> [mail[x] EXCEPT ![j] = <<>>]]
    /\ UNCHANGED <<status, eval, quiet, recorded, ends, due, durable,
                   ledgerVars, reaperVars, noteVars, at, target, box, ans,
                   faults, drops, awaits>>

\* External: the IO proxy crashes.
ProxyDies(j) ==
    /\ proxy[j] = "up"
    /\ MoreMishaps /\ kills < MaxKills
    /\ kills' = kills + 1
    /\ proxy' = [proxy EXCEPT ![j] = "exited"]
    /\ UNCHANGED <<ctl, status, eval, quiet, recorded, subs, ends, parkVars,
                   outVars, ledgerVars, reaperVars, noteVars, callVars,
                   faults, drops, awaits>>

-----------------------------------------------------------------------------
(* The reaper.  Its inbox is left out: a job's watch and reported casts    *)
(* reach it in order and before the job's :DOWN, and monitoring a process  *)
(* that is already dead yields :DOWN as well, so when it handles them      *)
(* makes no difference.  guard is "none", "armed" or "lost".               *)

\* Mutant: an attempt is counted that was not left.
CountsDown(j, o) == left[j] - 1

AttemptsLeft(j, o) == IF Heard(o) \/ left[j] = 0 THEN left[j] ELSE left[j] - 1

\* The :DOWN of a guarded job, and each {:finalize, ...} the reaper sends
\* itself after an attempt that failed.
Finalize(j, o) ==
    /\ guard[j] = "armed"
    /\ ctl[j] = "dead"
    /\ Outcome(o)
    /\ IF Committed(o) THEN FinishJob(j, "killed", FALSE)
                       ELSE UNCHANGED ledgerVars
    /\ pending' = IF o = "ok" /\ Transitions(j) THEN pending \cup {j}
                                               ELSE pending
    /\ guard' = [guard EXCEPT ![j] = IF Heard(o) THEN "none"
                                     ELSE IF left[j] > 0 THEN @ ELSE "lost"]
    /\ left' = [left EXCEPT ![j] = AttemptsLeft(j, o)]
    /\ UNCHANGED <<jobVars, parkVars, outVars, conn, cut, said, callVars,
                   kills, drops, awaits>>

-----------------------------------------------------------------------------
(* The notifier and its transport.  conn is "down", "registering" (the cast*)
(* is in the notifier's inbox), "up", "dead" (the transport died and its   *)
(* :DOWN is not handled) or "deaf" (connected, but no longer registered).  *)

Unacked == {j \in JobIds : outbox[j] = "unacked"}

\* deliver/3 then ack_all/1: read and ack are the outcomes of the two calls.
Announce(rows, to, read, ack) ==
    LET live == IF read = "ok" THEN rows \cap Unacked ELSE {}
    IN  /\ said' = [j \in JobIds |-> IF j \in live THEN said[j] \cup {to}
                                                  ELSE said[j]]
        /\ outbox' = [j \in JobIds |-> IF j \in live /\ ack = "ok"
                                       THEN "acked" ELSE outbox[j]]
        /\ ack # "ok" => live # {}
        /\ Outcome(IF read = "ok" THEN ack ELSE read)

Registered == conn \in {"up", "dead"}

\* {:flush, session}: the coalesce window closes.
FlushPending(read, ack) ==
    /\ pending # {}
    /\ pending' = {}
    /\ IF Registered
       THEN Announce(pending, IF conn = "up" THEN "channel" ELSE conn, read,
                     ack)
       ELSE /\ read = "ok" /\ ack = "ok"
            /\ UNCHANGED <<said, outbox, faults>>
    /\ UNCHANGED <<jobVars, parkVars, outVars, row, reaperVars, conn, cut,
                   callVars, kills, drops, awaits>>

Connect ==
    /\ conn = "down"
    /\ conn' = "registering"
    /\ UNCHANGED <<jobVars, parkVars, outVars, ledgerVars, reaperVars,
                   pending, cut, said, callVars, bounds>>

\* Mutant: nothing is replayed.
NoReplay == {}

Replayed == JobIds

\* {:register, transport}: the heartbeat is called without the seam's retry
\* and without a catch, so an outage there takes the notifier down with its
\* registry, its pooled rows and its inbox.
Register(read, ack) ==
    /\ conn = "registering"
    /\ conn' = "up"
    /\ Announce(Replayed, "channel", read, ack)
    /\ UNCHANGED <<jobVars, parkVars, outVars, row, reaperVars, pending, cut,
                   callVars, kills, drops, awaits>>

RegisterCrashes ==
    /\ conn = "registering"
    /\ Outcome("lost")
    /\ conn' = "deaf"
    /\ pending' = {}
    /\ UNCHANGED <<jobVars, parkVars, outVars, ledgerVars, reaperVars, cut,
                   said, callVars, kills, drops, awaits>>

\* External: the transport dies.  The handlers it started are not linked to
\* it and go on, to send their replies to a process that is no more.
Disconnect ==
    /\ conn \in {"up", "deaf"}
    /\ MoreMishaps /\ drops < MaxDrops
    /\ drops' = drops + 1
    /\ conn' = IF conn = "up" THEN "dead" ELSE "down"
    /\ cut' = {j \in JobIds : ctl[j] # "none"}
    /\ UNCHANGED <<jobVars, parkVars, outVars, ledgerVars, reaperVars,
                   pending, said, callVars, faults, kills, awaits>>

TransportDown ==
    /\ conn = "dead"
    /\ conn' = "down"
    /\ UNCHANGED <<jobVars, parkVars, outVars, ledgerVars, reaperVars,
                   pending, cut, said, callVars, bounds>>

-----------------------------------------------------------------------------
(* await, by the exec handler of a job (x = j) or by a cell                *)

AwaitCall(c, j) ==
    /\ at[c] = "idle"
    /\ ctl[j] \notin {"none", "dead"}
    /\ awaits < MaxAwaits
    /\ awaits' = awaits + 1
    /\ at' = [at EXCEPT ![c] = "calling"]
    /\ target' = [target EXCEPT ![c] = j]
    /\ mail' = [mail EXCEPT ![c][j] = Append(@, "subscribe")]
    /\ UNCHANGED <<jobVars, parkVars, outVars, ledgerVars, reaperVars,
                   noteVars, box, ans, faults, kills, drops>>

\* An await is over: a cell may call again, an exec handler replies.
Returned(x) == IF x \in JobIds THEN "replying" ELSE "idle"

\* The request is the one its caller is still blocked on: the last it sent.
StillCalling(x, j) ==
    at[x] = "calling" /\ target[x] = j /\ Len(mail[x][j]) = 1

\* {:subscribe, pid} while the job runs, and after it finished.
HandleSubscribe(x, j) ==
    /\ ctl[j] = "serving"
    /\ mail[x][j] # <<>> /\ Head(mail[x][j]) = "subscribe"
    /\ mail' = [mail EXCEPT ![x][j] = Tail(@)]
    /\ \/ /\ status[j] = "running"
          /\ subs' = [subs EXCEPT ![j] = @ \cup {x}]
          /\ at' = [at EXCEPT ![x] = IF StillCalling(x, j) THEN "waiting"
                                                          ELSE @]
          /\ UNCHANGED ans
       \/ /\ status[j] # "running"
          /\ at' = [at EXCEPT ![x] = IF StillCalling(x, j) THEN Returned(x)
                                                          ELSE @]
          /\ ans' = [ans EXCEPT ![x] = IF StillCalling(x, j)
                                       THEN Final(j, status[j]) ELSE @]
          /\ UNCHANGED subs
    /\ UNCHANGED <<ctl, status, eval, proxy, quiet, recorded, ends, parkVars,
                   outVars, ledgerVars, reaperVars, noteVars, target, box,
                   bounds>>

HandleUnsubscribe(x, j) ==
    /\ ctl[j] = "serving"
    /\ mail[x][j] # <<>> /\ Head(mail[x][j]) = "unsubscribe"
    /\ mail' = [mail EXCEPT ![x][j] = Tail(@)]
    /\ subs' = [subs EXCEPT ![j] = @ \ {x}]
    /\ UNCHANGED <<ctl, status, eval, proxy, quiet, recorded, ends, parkVars,
                   outVars, ledgerVars, reaperVars, noteVars, at, target, box,
                   ans, bounds>>

\* A finish notification, whichever job's it is.
TakeFinished(x) ==
    /\ at[x] = "waiting"
    /\ box[x] # <<>>
    /\ ans' = [ans EXCEPT ![x] = Head(box[x])]
    /\ box' = [box EXCEPT ![x] = Tail(@)]
    /\ at' = [at EXCEPT ![x] = Returned(x)]
    /\ UNCHANGED <<jobVars, parkVars, outVars, ledgerVars, reaperVars,
                   noteVars, target, mail, bounds>>

\* The budget runs out, before or after the subscription: give_up/1
\* unsubscribes and prefers a notification that raced the timeout.  An exec
\* handler that got :timeout goes on to read the job's summary.
GiveUp(x) ==
    /\ at[x] \in {"calling", "waiting"}
    /\ at[x] = "calling" => ctl[target[x]] # "dead"
    /\ mail' = [mail EXCEPT ![x][target[x]] =
                  IF ctl[target[x]] = "dead" THEN @
                  ELSE Append(@, "unsubscribe")]
    /\ IF box[x] # <<>>
       THEN /\ ans' = [ans EXCEPT ![x] = Head(box[x])]
            /\ box' = [box EXCEPT ![x] = Tail(@)]
            /\ at' = [at EXCEPT ![x] = Returned(x)]
       ELSE /\ ans' = [ans EXCEPT ![x] = None]
            /\ at' = [at EXCEPT ![x] = IF x \in JobIds THEN "reading"
                                                      ELSE "idle"]
            /\ UNCHANGED box
    /\ UNCHANGED <<jobVars, parkVars, outVars, ledgerVars, reaperVars,
                   noteVars, target, bounds>>

\* The control process died under the subscribe call: only a timeout is
\* caught, the exit takes the caller down.
CallerExits(x) ==
    /\ at[x] = "calling"
    /\ ctl[target[x]] = "dead"
    /\ at' = [at EXCEPT ![x] = "crashed"]
    /\ UNCHANGED <<jobVars, parkVars, outVars, ledgerVars, reaperVars,
                   noteVars, target, mail, box, ans, bounds>>

\* Mutant: the await has no :DOWN branch.
ParksForever(x) == FALSE

HearsDown(x) ==
    /\ ctl[target[x]] = "dead"
    /\ \A i \in 1..Len(box[x]) : box[x][i].job # target[x]

\* The :DOWN of the job: its record is read from the ledger.
SeeDown(x) ==
    /\ at[x] = "waiting"
    /\ HearsDown(x)
    /\ at' = [at EXCEPT ![x] = "polling"]
    /\ UNCHANGED <<jobVars, parkVars, outVars, ledgerVars, reaperVars,
                   noteVars, target, mail, box, ans, bounds>>

\* killed_summary/2: polls until the row is terminal or the tries are used
\* up; Jobs.get raises when there is no row.
Poll(x) ==
    /\ at[x] = "polling"
    /\ at' = [at EXCEPT ![x] = IF row[target[x]] = "none" THEN "crashed"
                                                         ELSE Returned(x)]
    /\ ans' = [ans EXCEPT ![x] = IF row[target[x]] = "none" THEN @
                                 ELSE Final(target[x], row[target[x]])]
    /\ UNCHANGED <<jobVars, parkVars, outVars, ledgerVars, reaperVars,
                   noteVars, target, mail, box, bounds>>

\* Jobs.get after a timeout: the snapshot, or the ledger once the process
\* is dead.
ReadSummary(j) ==
    LET st == IF ctl[j] = "dead" THEN row[j] ELSE status[j]
    IN  /\ at[j] = "reading"
        /\ at' = [at EXCEPT ![j] = IF st = "none" THEN "crashed"
                                                  ELSE "replying"]
        /\ ans' = [ans EXCEPT ![j] = IF st = "none" THEN @ ELSE Final(j, st)]
        /\ UNCHANGED <<jobVars, parkVars, outVars, ledgerVars, reaperVars,
                       noteVars, target, mail, box, bounds>>

\* Mutant: a reply that says "running" acks as well.
AcksAlways(j) == TRUE

CarriesResult(j) == ans[j].status # "running"

\* The exec reply is rendered; if it carries the result, the outbox row is
\* acked, before anything is sent.
Reply(j, o) ==
    /\ at[j] = "replying"
    /\ at' = [at EXCEPT ![j] = "sending"]
    /\ IF CarriesResult(j)
       THEN /\ Outcome(o)
            /\ outbox' = [outbox EXCEPT ![j] =
                 IF o = "ok" /\ @ = "unacked" THEN "acked" ELSE @]
       ELSE o = "ok" /\ UNCHANGED <<outbox, faults>>
    /\ UNCHANGED <<jobVars, parkVars, outVars, row, reaperVars, noteVars,
                   target, mail, box, ans, kills, drops, awaits>>

\* send(stdio, {:mcp_send, response}), the handler's last act: it reaches the
\* client unless that transport is dead.
SendReply(j) ==
    /\ at[j] = "sending"
    /\ at' = [at EXCEPT ![j] = "replied"]
    /\ said' = [said EXCEPT ![j] =
         IF ans[j].status = "running" THEN @
         ELSE @ \cup {IF j \in cut THEN "dead" ELSE "reply"}]
    /\ ans' = [ans EXCEPT ![j] = None]
    /\ UNCHANGED <<jobVars, parkVars, outVars, ledgerVars, reaperVars,
                   pending, conn, cut, target, mail, box, bounds>>

-----------------------------------------------------------------------------
Calls == {"ok", "lost"}
Writes == {"ok", "lost", "late", "blip"}

Control(j) ==
    \/ ArmReaper(j) \/ SpawnEval(j) \/ EvalFinished(j) \/ EvalDown(j)
    \/ ProxyExit(j) \/ Record(j) \/ TellSubscribers(j) \/ RetryTerminal(j)
    \/ \E o \in Calls : FlushFinal(j, o)

Serve(j) == \E o \in {"ok", "lost", "blip"} : Ledger(j, o)

Reaper(j) == \E o \in Writes : Finalize(j, o)

Notifier ==
    \/ \E read \in Calls, ack \in Calls :
         FlushPending(read, ack) \/ Register(read, ack)
    \/ RegisterCrashes \/ TransportDown

Caller(x) ==
    \/ TakeFinished(x) \/ SeeDown(x) \/ Poll(x) \/ CallerExits(x)
    \/ \E j \in JobIds : HandleSubscribe(x, j) \/ HandleUnsubscribe(x, j)

Handler(j) == ReadSummary(j) \/ SendReply(j) \/ \E o \in Calls : Reply(j, o)

Next ==
    \/ \E j \in JobIds : Start(j) \/ Control(j) \/ Reaper(j) \/ Handler(j)
    \/ \E j \in JobIds : Serve(j) \/ CallTimesOut(j)
    \/ \E j \in JobIds : Capture(j) \/ Quiet(j) \/ Cancel(j)
    \/ \E j \in JobIds, how \in {"done", "failed", "crashed"} :
         EvalEnds(j, how)
    \/ \E j \in JobIds, o \in Calls : FlushTick(j, o)
    \/ \E j \in JobIds : Kill(j) \/ ProxyDies(j)
    \/ Notifier \/ Connect \/ Disconnect
    \/ \E x \in Callers : Caller(x) \/ GiveUp(x)
    \/ \E c \in Cells, j \in JobIds : AwaitCall(c, j)

\* The ledger, the control processes, the reaper and the notifier handle what
\* is in their inboxes, timers they set included; a handler sends its reply, a
\* waiting caller takes what has arrived, and the supervisor restarts the
\* transport.  Nothing obliges a cell to end, a budget to run out or a client
\* to call.
Fairness ==
    /\ \A j \in JobIds :
         /\ WF_vars(Serve(j)) /\ WF_vars(Control(j)) /\ WF_vars(Reaper(j))
         /\ WF_vars(SendReply(j))
    /\ WF_vars(Notifier) /\ WF_vars(Connect)
    /\ \A x \in Callers : WF_vars(TakeFinished(x) \/ SeeDown(x))

Spec == Init /\ [][Next]_vars /\ Fairness

-----------------------------------------------------------------------------
(* Properties                                                              *)

TypeOK ==
    /\ ctl \in [JobIds -> {"none", "arm", "row", "serving", "flush",
                           "record", "notify", "dead"}]
    /\ status \in [JobIds -> Status]
    /\ eval \in [JobIds -> {"none", "live", "done", "failed", "crashed",
                            "gone"}]
    /\ proxy \in [JobIds -> {"none", "up", "exited", "gone"}]
    /\ quiet \in [JobIds -> BOOLEAN]
    /\ recorded \in [JobIds -> BOOLEAN]
    /\ subs \in [JobIds -> SUBSET Callers]
    /\ ends \in [JobIds -> SUBSET Terminal]
    /\ inbox \in [JobIds -> Seq({"start"} \cup Terminal)]
    /\ answer \in [JobIds -> {"none", "notify", "final", "exit"}]
    /\ hot \in [JobIds -> Nat] /\ due \in [JobIds -> Nat]
    /\ durable \in [JobIds -> Nat]
    /\ row \in [JobIds -> Status \cup {"none"}]
    /\ outbox \in [JobIds -> {"none", "unacked", "acked"}]
    /\ guard \in [JobIds -> {"none", "armed", "lost"}]
    /\ left \in [JobIds -> 0..FinalizeRetries]
    /\ pending \subseteq JobIds
    /\ conn \in {"down", "registering", "up", "dead", "deaf"}
    /\ cut \subseteq JobIds
    /\ said \in [JobIds -> SUBSET {"channel", "dead", "reply"}]
    /\ at \in [Callers -> {"idle", "calling", "waiting", "polling",
                           "reading", "replying", "sending", "replied",
                           "crashed"}]
    /\ target \in [Callers -> JobIds \cup {"none"}]
    /\ mail \in [Callers -> [JobIds -> Seq({"subscribe", "unsubscribe"})]]
    /\ box \in [Callers -> Seq([job: JobIds, status: Status])]
    /\ ans \in [Callers -> [job: JobIds, status: Status] \cup {None}]
    /\ faults \in 0..MaxFaults /\ kills \in 0..MaxKills
    /\ drops \in 0..MaxDrops /\ awaits \in 0..MaxAwaits

\* No transition is ever revised: not by the reaper's racing "killed", not by
\* a result that arrives after a cancel, not by a retry of a write that was
\* committed; and no announcement is re-opened.
LedgerIsFinal ==
    [][\A j \in JobIds :
         /\ row[j] \in Terminal => row'[j] = row[j]
         /\ outbox[j] = "acked" => outbox'[j] = "acked"]_vars

\* A control process that armed the reaper is accounted for when it dies:
\* its transition is in the ledger or the reaper will write it, unless the
\* ledger failed every one of the reaper's attempts.  Only one that dies
\* before it arms the reaper, and so before it starts its evaluation, is not.
NoSilentDeath ==
    \A j \in JobIds :
        ctl[j] = "dead" =>
            \/ row[j] \in Terminal
            \/ guard[j] = "armed"
            \/ guard[j] = "lost" /\ faults > FinalizeRetries
            \/ guard[j] = "none" /\ eval[j] = "none"

\* The finish was told to somebody who could hear it; to a transport that had
\* died; or the handler holds the rendered reply that tells it.
Delivered(j) == said[j] \ {"dead"} # {}
ToldToNobody(j) == "dead" \in said[j] /\ drops > 0
Carried(j) == at[j] = "sending" /\ CarriesResult(j)

\* An announcement is only ever suppressed for a finish that was told, that
\* the exec handler is about to tell, or that is not news (a quiet wrapper's
\* clean finish); one that was told to nobody takes a transport that died.
SuppressionIsEarned ==
    \A j \in JobIds : outbox[j] = "acked" =>
        \/ Delivered(j) \/ Carried(j)
        \/ quiet[j] /\ row[j] = "done"
        \/ ToldToNobody(j)

\* A reader that sees a job finish finds the output captured by then on
\* disk, as long as no ledger call failed and the job finished itself.
OutputBeforeTransition ==
    \A j \in JobIds :
        faults = 0 /\ row[j] \in Terminal /\ ctl[j] # "dead" =>
            durable[j] >= due[j]

\* A job that finished, or whose control process died once the reaper knew
\* of it, goes terminal in the ledger, whatever the ledger calls do, if the
\* reaper's attempts outnumber the faults.
EveryJobIsAccountedFor ==
    \A j \in JobIds :
        (status[j] # "running" \/ (ctl[j] = "dead" /\ guard[j] # "none"))
            ~> (row[j] \in Terminal \/ guard[j] = "lost")

\* An await does not outlive its job: once the job has finished or its
\* control process is dead, the caller is released.
AwaitsEnd ==
    \A x \in Callers, j \in JobIds :
        (at[x] = "waiting" /\ target[x] = j
            /\ (status[j] # "running" \/ ctl[j] = "dead"))
            ~> at[x] # "waiting"

\* Killed after its finish_job was sent and before its reply was handled: the
\* row is written, and who would have published it is dead.
Orphaned(j) == ctl[j] = "dead" /\ ~recorded[j] /\ row[j] \in ends[j]

\* Without a ledger fault every finish is told, also one that fell into a
\* window without a transport, but for the orphaned and for what was told to
\* a transport whose death nobody had noticed.
EveryFinishIsTold ==
    \A j \in JobIds :
        outbox[j] = "unacked" ~>
            (Delivered(j) \/ ToldToNobody(j) \/ Orphaned(j) \/ faults > 0)

\* "The notification is delayed, never lost": without a ledger fault and with
\* the transport up all along, every finish is told.
NotificationIsNeverLost ==
    \A j \in JobIds :
        outbox[j] = "unacked" ~> (Delivered(j) \/ faults > 0 \/ drops > 0)

\* "The ledger interactions must never crash the notifier": a connected
\* transport is registered or about to be.
NotifierSurvives == conn # "deaf"

-----------------------------------------------------------------------------
(* The jobs implement JobLife.                                             *)

Dead == {j \in JobIds : ctl[j] = "dead"}
Replies == {j \in JobIds : Carried(j)}

Life == INSTANCE JobLife WITH
    Ids <- JobIds, Ends <- Terminal, ends <- ends, gone <- Dead,
    record <- row, news <- outbox, told <- said,
    carried <- Replies

\* Whatever ledger calls are lost, repeated or late and whoever is killed, a
\* record is closed once, as a job that lived has ended or as killed for one
\* that is dead, its announcement is written with it and withdrawn only when
\* the end was told or put into a reply, and no reply carries a result that
\* there is not.
ImplementsJobLife == Life!Spec

=============================================================================
