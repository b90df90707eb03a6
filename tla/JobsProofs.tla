----------------------------- MODULE JobsProofs -----------------------------
(***************************************************************************)
(* Jobs for every set of jobs and cells and every value of the bounds and  *)
(* of the reaper's retries: type correctness, the finality of the ledger,  *)
(* the reaper's guarantee, and what may suppress an announcement.          *)
(***************************************************************************)
EXTENDS Jobs, TLAPS

\* The part of the state that the job, the ledger, the reaper and the
\* notifier keep; the rest belongs to the callers of await.
CoreTypes ==
    /\ ctl \in [JobIds -> {"none", "arm", "row", "serving", "flush",
                           "record", "notify", "dead"}]
    /\ status \in [JobIds -> Status]
    /\ eval \in [JobIds -> {"none", "live", "done", "failed", "crashed",
                            "gone"}]
    /\ proxy \in [JobIds -> {"none", "up", "exited", "gone"}]
    /\ quiet \in [JobIds -> BOOLEAN]
    /\ recorded \in [JobIds -> BOOLEAN]
    /\ ends \in [JobIds -> SUBSET Terminal]
    /\ inbox \in [JobIds -> Seq({"start"} \cup Terminal)]
    /\ answer \in [JobIds -> {"none", "notify", "final", "exit"}]
    /\ hot \in [JobIds -> Nat] /\ due \in [JobIds -> Nat]
    /\ durable \in [JobIds -> Nat]
    /\ row \in [JobIds -> Status \cup {"none"}]
    /\ outbox \in [JobIds -> {"none", "unacked", "acked"}]
    /\ guard \in [JobIds -> {"none", "armed", "lost"}]
    /\ left \in [JobIds -> 0..FinalizeRetries]
    /\ pending \subseteq JobIds
    /\ conn \in {"down", "registering", "up", "dead", "deaf"}
    /\ cut \subseteq JobIds
    /\ said \in [JobIds -> SUBSET {"channel", "dead", "reply"}]
    /\ faults \in 0..MaxFaults /\ kills \in 0..MaxKills
    /\ drops \in 0..MaxDrops /\ awaits \in 0..MaxAwaits

CallTypes ==
    /\ subs \in [JobIds -> SUBSET Callers]
    /\ at \in [Callers -> {"idle", "calling", "waiting", "polling",
                           "reading", "replying", "sending", "replied",
                           "crashed"}]
    /\ target \in [Callers -> JobIds \cup {"none"}]
    /\ mail \in [Callers -> [JobIds -> Seq({"subscribe", "unsubscribe"})]]
    /\ box \in [Callers -> Seq([job: JobIds, status: Status])]
    /\ ans \in [Callers -> [job: JobIds, status: Status] \cup {None}]

\* A caller inside an await knows which job it awaits.
HasTarget == \A x \in Callers : at[x] # "idle" \/ x \in JobIds
                                  => target[x] \in JobIds

\* What the position of the control process implies.
Announced(j) == outbox[j] # "none" => row[j] \in Terminal
Unarmed(j) == ctl[j] \in {"none", "arm"}
                => eval[j] = "none" /\ guard[j] = "none"
Guarded(j) == ctl[j] \notin {"none", "arm", "dead"}
                => guard[j] = "armed" \/ row[j] \in Terminal
Mourned(j) == ctl[j] = "dead" =>
    \/ row[j] \in Terminal
    \/ guard[j] = "armed"
    \/ guard[j] = "lost" /\ faults > FinalizeRetries
    \/ guard[j] = "none" /\ eval[j] = "none"
Attempted(j) == faults + left[j] >= FinalizeRetries
Finishing(j) ==
    /\ ctl[j] \in {"flush", "record", "notify"} => status[j] # "running"
    /\ ctl[j] # "dead" /\ row[j] \in Terminal => status[j] # "running"

\* What lies in the ledger's inbox: a finish_job is of an end that the job
\* came to, and comes after the flush of its output.
Closing(j, i) == i \in 1..Len(inbox[j]) /\ inbox[j][i] # "start"
Ended(j) ==
    /\ status[j] # "running" => status[j] \in ends[j]
    /\ ends[j] # {} => status[j] # "running"
Queued(j) == \A i \in Nat : Closing(j, i) => inbox[j][i] \in ends[j]
Persisted(j) ==
    /\ ctl[j] # "dead" => due[j] <= hot[j]
    /\ faults = 0 /\ ctl[j] # "dead" /\ row[j] \in Terminal =>
         durable[j] >= due[j]
    /\ faults = 0 /\ ctl[j] # "dead" =>
         \A i \in Nat : Closing(j, i) => durable[j] >= due[j]

\* What a control process that waits for the ledger knows: the last of its
\* requests is the one it waits for, and a reply to finish_job means that
\* the row is final.
Unborn(j) == ctl[j] = "none" => outbox[j] = "none" /\ inbox[j] = <<>>
Waits(j) ==
    /\ ctl[j] \notin {"row", "record"} => answer[j] = "none"
    /\ ctl[j] = "record" /\ answer[j] = "none" => Closing(j, Len(inbox[j]))
    /\ ctl[j] = "record" /\ answer[j] \in {"notify", "final"} =>
         row[j] \in Terminal

LifeInv(j) == /\ Announced(j) /\ Unarmed(j) /\ Guarded(j) /\ Mourned(j)
              /\ Attempted(j) /\ Finishing(j)
ParkInv(j) == Ended(j) /\ Queued(j) /\ Persisted(j) /\ Unborn(j) /\ Waits(j)
JobInv(j) == LifeInv(j) /\ ParkInv(j)

IInv == CoreTypes /\ \A j \in JobIds : JobInv(j)

-----------------------------------------------------------------------------
(* Steps                                                                   *)

coreVars == <<ctl, status, eval, proxy, quiet, recorded, ends, parkVars,
              outVars, ledgerVars, reaperVars, noteVars, bounds>>

\* The steps of the control process, its surroundings, the ledger and the
\* reaper.
JobStep(j) ==
    \/ Start(j) \/ ArmReaper(j) \/ SpawnEval(j) \/ EvalFinished(j)
    \/ EvalDown(j) \/ ProxyExit(j) \/ Record(j) \/ TellSubscribers(j)
    \/ RetryTerminal(j) \/ CallTimesOut(j) \/ SendReply(j)
    \/ \E o \in Calls : FlushFinal(j, o) \/ FlushTick(j, o) \/ Reply(j, o)
    \/ \E o \in {"ok", "lost", "blip"} : Ledger(j, o)
    \/ \E o \in Writes : Finalize(j, o)
    \/ Capture(j) \/ Quiet(j) \/ Cancel(j) \/ Kill(j) \/ ProxyDies(j)
    \/ \E how \in {"done", "failed", "crashed"} : EvalEnds(j, how)

\* The steps of the callers of await.
CallStep ==
    \/ \E j \in JobIds : ReadSummary(j)
    \/ \E x \in Callers : Caller(x) \/ GiveUp(x)

\* Every step is of one of four kinds.
LEMMA StepKinds ==
    ASSUME Next
    PROVE  \/ \E j \in JobIds : JobStep(j)
           \/ Notifier \/ Connect \/ Disconnect
           \/ CallStep
           \/ \E c \in Cells, j \in JobIds : AwaitCall(c, j)
  BY Zenon DEF Next, Control, Serve, Reaper, Handler, JobStep, CallStep

\* The callers touch nothing of the core.
LEMMA CallersStandAside ==
    ASSUME CallStep
    PROVE  UNCHANGED coreVars
  BY DEF CallStep, Caller, ReadSummary, GiveUp, TakeFinished, SeeDown, Poll,
         CallerExits, HandleSubscribe, HandleUnsubscribe, coreVars, jobVars,
         parkVars, outVars, ledgerVars, reaperVars, noteVars, bounds

-----------------------------------------------------------------------------
(* Type correctness                                                        *)

\* A queue, its head and its tail, and what is put at its end or taken off it.
LEMMA QueueOps ==
    ASSUME NEW S, NEW q \in Seq(S)
    PROVE  /\ <<>> \in Seq(S)
           /\ \A m \in S : Append(q, m) \in Seq(S)
           /\ q # <<>> => Head(q) \in S /\ Tail(q) \in Seq(S)
           /\ SubSeq(q, 1, Len(q) - 1) \in Seq(S)
  OBVIOUS

LEMMA EntryAt ==
    ASSUME NEW D, NEW S, NEW f \in [D -> S], NEW x \in D, NEW v \in S
    PROVE  [f EXCEPT ![x] = v] \in [D -> S]
  OBVIOUS

\* The inbox keeps its type under each of the steps that touch it.
LEMMA InboxTypes ==
    ASSUME CoreTypes, NEW j \in JobIds
    PROVE  /\ \A m \in {"start"} \cup Terminal :
                [inbox EXCEPT ![j] = Append(@, m)]
                    \in [JobIds -> Seq({"start"} \cup Terminal)]
           /\ inbox[j] # <<>> =>
                [inbox EXCEPT ![j] = Tail(@)]
                    \in [JobIds -> Seq({"start"} \cup Terminal)]
           /\ [inbox EXCEPT ![j] = Unsent(j)]
                \in [JobIds -> Seq({"start"} \cup Terminal)]
  <1>1. inbox \in [JobIds -> Seq({"start"} \cup Terminal)]
    BY DEF CoreTypes
  <1>2. inbox[j] \in Seq({"start"} \cup Terminal)
    BY <1>1
  <1>3. Unsent(j) \in Seq({"start"} \cup Terminal)
    BY <1>2, QueueOps DEF Unsent
  <1>. QED  BY <1>1, <1>2, <1>3, QueueOps, EntryAt

LEMMA BeginFinishTypes ==
    ASSUME CoreTypes, NEW j \in JobIds, NEW st \in Terminal, BeginFinish(j, st)
    PROVE  /\ ctl' \in [JobIds -> {"none", "arm", "row", "serving", "flush",
                                   "record", "notify", "dead"}]
           /\ status' \in [JobIds -> Status]
           /\ ends' \in [JobIds -> SUBSET Terminal]
           /\ due' \in [JobIds -> Nat]
  BY DEF BeginFinish, CoreTypes, Status

\* What the ledger writes.
LEMMA LedgerTypes ==
    ASSUME row \in [JobIds -> Status \cup {"none"}],
           outbox \in [JobIds -> {"none", "unacked", "acked"}],
           NEW j \in JobIds, NEW st \in Terminal, NEW isQuiet,
           StartJob(j) \/ FinishJob(j, st, isQuiet) \/ UNCHANGED ledgerVars
    PROVE  /\ row' \in [JobIds -> Status \cup {"none"}]
           /\ outbox' \in [JobIds -> {"none", "unacked", "acked"}]
  <1>1. "running" \in Status /\ st \in Status
    BY DEF Status
  <1>2. CASE StartJob(j)
    BY <1>1, <1>2 DEF StartJob
  <1>3. CASE FinishJob(j, st, isQuiet)
    BY <1>1, <1>3 DEF FinishJob, ledgerVars
  <1>4. CASE UNCHANGED ledgerVars
    BY <1>4 DEF ledgerVars
  <1>. QED  BY <1>2, <1>3, <1>4

\* Each step of a job keeps the core's types.
LEMMA JobStepTypes ==
    ASSUME CoreTypes, NEW j \in JobIds, JobStep(j),
           ctl[j] = "flush" => status[j] # "running"
    PROVE  CoreTypes'
  <1>. USE BoundsAssumption
       DEF jobVars, parkVars, outVars, ledgerVars, reaperVars, noteVars,
           callVars, bounds
  <1>1. ASSUME Start(j) PROVE CoreTypes'
    BY <1>1 DEF Start, CoreTypes
  <1>2. ASSUME ArmReaper(j) PROVE CoreTypes'
    <2>1. inbox' \in [JobIds -> Seq({"start"} \cup Terminal)]
      BY <1>2, InboxTypes DEF ArmReaper
    <2>. QED  BY <1>2, <2>1 DEF ArmReaper, CoreTypes
  <1>3. ASSUME SpawnEval(j) PROVE CoreTypes'
    BY <1>3 DEF SpawnEval, CoreTypes
  <1>4. ASSUME Capture(j) PROVE CoreTypes'
    BY <1>4 DEF Capture, CoreTypes
  <1>5. ASSUME Quiet(j) PROVE CoreTypes'
    BY <1>5 DEF Quiet, CoreTypes
  <1>6. ASSUME NEW how \in {"done", "failed", "crashed"}, EvalEnds(j, how)
        PROVE  CoreTypes'
    BY <1>6 DEF EvalEnds, CoreTypes
  <1>7. ASSUME NEW o \in Calls, FlushTick(j, o) PROVE CoreTypes'
    BY <1>7 DEF FlushTick, Flushed, Outcome, Committed, CoreTypes
  <1>8. ASSUME EvalFinished(j) PROVE CoreTypes'
    <2>1. BeginFinish(j, eval[j]) /\ eval[j] \in Terminal
      BY <1>8 DEF EvalFinished, Terminal
    <2>. QED  BY <1>8, <2>1, BeginFinishTypes DEF EvalFinished, CoreTypes
  <1>9. ASSUME EvalDown(j) PROVE CoreTypes'
    <2>1. CASE status[j] = "running"
      <3>1. BeginFinish(j, "failed") /\ "failed" \in Terminal
        BY <1>9, <2>1 DEF EvalDown, Terminal
      <3>. QED  BY <1>9, <3>1, BeginFinishTypes DEF EvalDown, CoreTypes
    <2>2. CASE status[j] # "running"
      BY <1>9, <2>2 DEF EvalDown, CoreTypes
    <2>. QED  BY <2>1, <2>2
  <1>10. ASSUME Cancel(j) PROVE CoreTypes'
    <2>1. BeginFinish(j, "cancelled") /\ "cancelled" \in Terminal
      BY <1>10 DEF Cancel, Terminal
    <2>. QED  BY <1>10, <2>1, BeginFinishTypes DEF Cancel, Silenced, CoreTypes
  <1>11. ASSUME ProxyExit(j) PROVE CoreTypes'
    <2>1. CASE status[j] = "running"
      <3>1. BeginFinish(j, "killed") /\ "killed" \in Terminal
        BY <1>11, <2>1 DEF ProxyExit, Terminal
      <3>. QED  BY <1>11, <2>1, <3>1, BeginFinishTypes
                DEF ProxyExit, Silenced, CoreTypes
    <2>2. CASE status[j] # "running"
      BY <1>11, <2>2 DEF ProxyExit, CoreTypes
    <2>. QED  BY <2>1, <2>2
  <1>12. ASSUME NEW o \in Calls, FlushFinal(j, o) PROVE CoreTypes'
    <2>1. status[j] \in Terminal
      BY <1>12 DEF FlushFinal, CoreTypes, Status
    <2>2. inbox' \in [JobIds -> Seq({"start"} \cup Terminal)]
      BY <1>12, <2>1, InboxTypes DEF FlushFinal
    <2>. QED  BY <1>12, <2>2
              DEF FlushFinal, Flushed, Outcome, Committed, CoreTypes
  <1>13. ASSUME Record(j) PROVE CoreTypes'
    BY <1>13 DEF Record, CoreTypes
  <1>14. ASSUME TellSubscribers(j) PROVE CoreTypes'
    BY <1>14 DEF TellSubscribers, CoreTypes
  <1>15. ASSUME RetryTerminal(j) PROVE CoreTypes'
    BY <1>15 DEF RetryTerminal, CoreTypes
  <1>16. ASSUME Kill(j) PROVE CoreTypes'
    <2>1. inbox' \in [JobIds -> Seq({"start"} \cup Terminal)]
      <3>1. PICK q \in {inbox[j], Unsent(j)} :
                inbox' = [inbox EXCEPT ![j] = q]
        BY <1>16 DEF Kill
      <3>2. [inbox EXCEPT ![j] = inbox[j]] = inbox
        BY DEF CoreTypes
      <3>. QED  BY <3>1, <3>2, InboxTypes DEF CoreTypes
    <2>. QED  BY <1>16, <2>1 DEF Kill, CoreTypes
  <1>17. ASSUME ProxyDies(j) PROVE CoreTypes'
    BY <1>17 DEF ProxyDies, CoreTypes
  <1>18. ASSUME NEW o \in Writes, Finalize(j, o) PROVE CoreTypes'
    <2>1. /\ row' \in [JobIds -> Status \cup {"none"}]
          /\ outbox' \in [JobIds -> {"none", "unacked", "acked"}]
      <3>1. FinishJob(j, "killed", FALSE) \/ UNCHANGED ledgerVars
        BY <1>18 DEF Finalize
      <3>2. "killed" \in Terminal
        BY DEF Terminal
      <3>. QED  BY <3>1, <3>2, LedgerTypes DEF CoreTypes
    <2>2. left' \in [JobIds -> 0..FinalizeRetries]
      BY <1>18 DEF Finalize, AttemptsLeft, CoreTypes
    <2>3. faults' \in 0..MaxFaults
      BY <1>18 DEF Finalize, Outcome, CoreTypes
    <2>4. /\ guard' \in [JobIds -> {"none", "armed", "lost"}]
          /\ pending' \subseteq JobIds
      BY <1>18 DEF Finalize, CoreTypes
    <2>. QED  BY <1>18, <2>1, <2>2, <2>3, <2>4 DEF Finalize, CoreTypes
  <1>19. ASSUME NEW o \in Calls, Reply(j, o) PROVE CoreTypes'
    <2>1. outbox' \in [JobIds -> {"none", "unacked", "acked"}]
      BY <1>19 DEF Reply, CoreTypes
    <2>2. faults' \in 0..MaxFaults
      BY <1>19 DEF Reply, Outcome, CoreTypes
    <2>. QED  BY <1>19, <2>1, <2>2 DEF Reply, CoreTypes
  <1>20. ASSUME SendReply(j) PROVE CoreTypes'
    BY <1>20 DEF SendReply, CoreTypes
  <1>21. ASSUME CallTimesOut(j) PROVE CoreTypes'
    BY <1>21 DEF CallTimesOut, Outcome, CoreTypes
  <1>22. ASSUME NEW o \in {"ok", "lost", "blip"}, Ledger(j, o)
         PROVE  CoreTypes'
    <2>. DEFINE req == Head(inbox[j])
    <2>1. req \in {"start"} \cup Terminal
      BY <1>22, QueueOps DEF Ledger, CoreTypes
    <2>2. inbox' \in [JobIds -> Seq({"start"} \cup Terminal)]
      <3>1. CASE o = "blip"
        BY <1>22, <3>1 DEF Ledger, CoreTypes
      <3>2. CASE o # "blip"
        BY <1>22, <3>2, InboxTypes DEF Ledger
      <3>. QED  BY <3>1, <3>2
    <2>3. /\ answer' = [answer EXCEPT ![j] =
                 IF ~Awaited(j) \/ o = "blip" THEN @
                 ELSE IF o = "ok" THEN ReplyTo(j, req) ELSE "exit"]
          /\ IF ~Committed(o) THEN UNCHANGED <<row, outbox>>
             ELSE IF req = "start" THEN StartJob(j)
                                   ELSE FinishJob(j, req, quiet[j])
          /\ Outcome(o)
          /\ UNCHANGED <<ctl, status, eval, proxy, quiet, recorded, ends, hot,
                         due, durable, guard, left, pending, conn, cut, said,
                         kills, drops, awaits>>
      BY <1>22 DEF Ledger
    <2>. HIDE DEF req
    <2>4. answer' \in [JobIds -> {"none", "notify", "final", "exit"}]
      BY <2>3 DEF ReplyTo, CoreTypes
    <2>5. /\ row' \in [JobIds -> Status \cup {"none"}]
          /\ outbox' \in [JobIds -> {"none", "unacked", "acked"}]
      <3>1. "done" \in Terminal
        BY DEF Terminal
      <3>2. CASE req = "start" \/ ~Committed(o)
        BY <2>3, <3>1, <3>2, LedgerTypes DEF CoreTypes
      <3>3. CASE Committed(o) /\ req # "start"
        BY <2>1, <2>3, <3>3, LedgerTypes DEF CoreTypes
      <3>. QED  BY <3>2, <3>3
    <2>6. faults' \in 0..MaxFaults
      BY <2>3 DEF Outcome, CoreTypes
    <2>. QED  BY <2>2, <2>3, <2>4, <2>5, <2>6 DEF CoreTypes
  <1>. QED  BY <1>1, <1>2, <1>3, <1>4, <1>5, <1>6, <1>7, <1>8, <1>9, <1>10,
            <1>11, <1>12, <1>13, <1>14, <1>15, <1>16, <1>17, <1>18, <1>19,
            <1>20, <1>21, <1>22, Zenon DEF JobStep

\* deliver and ack keep the types of what they touch.
LEMMA AnnounceTypes ==
    ASSUME CoreTypes, NEW rows, NEW to \in {"channel", "dead"}, NEW read, NEW ack,
           Announce(rows, to, read, ack)
    PROVE  /\ said' \in [JobIds -> SUBSET {"channel", "dead", "reply"}]
           /\ outbox' \in [JobIds -> {"none", "unacked", "acked"}]
           /\ faults' \in 0..MaxFaults
  BY BoundsAssumption DEF CoreTypes, Announce, Outcome

\* The notifier and the transport keep the core's types.
LEMMA NotifierTypes ==
    ASSUME CoreTypes, Notifier \/ Connect \/ Disconnect
    PROVE  CoreTypes'
  <1>. USE BoundsAssumption
       DEF jobVars, parkVars, outVars, ledgerVars, reaperVars, noteVars,
           callVars, bounds
  <1>1. ASSUME NEW read \in Calls, NEW ack \in Calls, FlushPending(read, ack)
        PROVE  CoreTypes'
    <2>1. CASE Registered
      <3>. DEFINE to == IF conn = "up" THEN "channel" ELSE conn
      <3>1. to \in {"channel", "dead"} /\ Announce(pending, to, read, ack)
        BY <1>1, <2>1 DEF FlushPending, Registered
      <3>. HIDE DEF to
      <3>2. /\ said' \in [JobIds -> SUBSET {"channel", "dead", "reply"}]
            /\ outbox' \in [JobIds -> {"none", "unacked", "acked"}]
            /\ faults' \in 0..MaxFaults
        BY <3>1, AnnounceTypes
      <3>. QED  BY <1>1, <3>2 DEF FlushPending, CoreTypes
    <2>2. CASE ~Registered
      BY <1>1, <2>2 DEF FlushPending, CoreTypes
    <2>. QED  BY <2>1, <2>2
  <1>2. ASSUME NEW read \in Calls, NEW ack \in Calls, Register(read, ack)
        PROVE  CoreTypes'
    BY <1>2, AnnounceTypes DEF Register, CoreTypes
  <1>3. ASSUME RegisterCrashes PROVE CoreTypes'
    BY <1>3 DEF RegisterCrashes, Outcome, CoreTypes
  <1>4. ASSUME TransportDown \/ Connect PROVE CoreTypes'
    BY <1>4 DEF TransportDown, Connect, CoreTypes
  <1>5. ASSUME Disconnect PROVE CoreTypes'
    BY <1>5 DEF Disconnect, CoreTypes
  <1>. QED  BY <1>1, <1>2, <1>3, <1>4, <1>5, Zenon DEF Notifier

LEMMA CoreTypesStep ==
    ASSUME CoreTypes, [Next]_vars,
           \A j \in JobIds : ctl[j] = "flush" => status[j] # "running"
    PROVE  CoreTypes'
  <1>1. CASE UNCHANGED coreVars
    BY <1>1 DEF CoreTypes, coreVars, parkVars, outVars, ledgerVars,
                reaperVars, noteVars, bounds
  <1>2. ASSUME NEW c \in Cells, NEW j \in JobIds, AwaitCall(c, j)
        PROVE  CoreTypes'
    <2>1. /\ awaits < MaxAwaits /\ awaits' = awaits + 1
          /\ UNCHANGED <<jobVars, parkVars, outVars, ledgerVars, reaperVars,
                         noteVars, faults, kills, drops>>
      BY <1>2 DEF AwaitCall
    <2>. QED  BY <2>1, BoundsAssumption
              DEF CoreTypes, jobVars, parkVars, outVars, ledgerVars, reaperVars,
                  noteVars
  <1>3. CASE UNCHANGED vars
    BY <1>1, <1>3 DEF vars, coreVars, jobVars
  <1>. QED  BY <1>1, <1>2, <1>3, StepKinds, CallersStandAside, JobStepTypes,
               NotifierTypes

-----------------------------------------------------------------------------
(* The inductive invariant                                                 *)

\* The elements of a queue after each of the operations on it.
LEMMA QueueParts ==
    ASSUME NEW S, NEW q \in Seq(S)
    PROVE  /\ Len(q) \in Nat
           /\ \A i \in 1..Len(q) : q[i] \in S
           /\ \A m \in S : /\ Len(Append(q, m)) = Len(q) + 1
                           /\ Append(q, m)[Len(q) + 1] = m
                           /\ \A i \in 1..Len(q) : Append(q, m)[i] = q[i]
           /\ q # <<>> => /\ Len(q) >= 1 /\ Head(q) = q[1]
                          /\ Len(Tail(q)) = Len(q) - 1
                          /\ \A i \in 1..(Len(q) - 1) : Tail(q)[i] = q[i + 1]
  OBVIOUS

LEMMA FrontParts ==
    ASSUME NEW S, NEW q \in Seq(S)
    PROVE  \A i \in 1..Len(SubSeq(q, 1, Len(q) - 1)) :
             i \in 1..Len(q) /\ SubSeq(q, 1, Len(q) - 1)[i] = q[i]
  OBVIOUS

\* A request is sent: the invariant about the queue needs to be seen of the
\* new one only.
LEMMA Sent ==
    ASSUME CoreTypes, NEW j \in JobIds, NEW m \in {"start"} \cup Terminal,
           inbox' = [inbox EXCEPT ![j] = Append(@, m)]
    PROVE  /\ \A k \in JobIds \ {j} : inbox'[k] = inbox[k]
           /\ Len(inbox'[j]) = Len(inbox[j]) + 1 /\ Len(inbox[j]) \in Nat
           /\ inbox'[j][Len(inbox[j]) + 1] = m
           /\ \A i \in 1..Len(inbox[j]) : inbox'[j][i] = inbox[j][i]
  <1>1. inbox[j] \in Seq({"start"} \cup Terminal)
    BY DEF CoreTypes
  <1>2. /\ inbox'[j] = Append(inbox[j], m)
        /\ \A k \in JobIds \ {j} : inbox'[k] = inbox[k]
    BY DEF CoreTypes
  <1>. QED  BY <1>1, <1>2, QueueParts

\* What the ledger does with the first request of job j.
LEMMA LedgerServes ==
    ASSUME IInv, NEW j \in JobIds, NEW o \in {"ok", "lost", "blip"},
           Ledger(j, o)
    PROVE  /\ inbox[j] # <<>> /\ Len(inbox[j]) \in Nat /\ Len(inbox[j]) >= 1
           /\ \/ inbox'[j] = inbox[j]
              \/ /\ Len(inbox'[j]) = Len(inbox[j]) - 1
                 /\ \A i \in 1..(Len(inbox[j]) - 1) :
                      inbox'[j][i] = inbox[j][i + 1]
           /\ \/ row'[j] = row[j] /\ outbox'[j] = outbox[j]
              \/ row[j] = "none" /\ row'[j] = "running" /\ outbox'[j] = outbox[j]
              \/ /\ Closing(j, 1) /\ row[j] \notin Terminal
                 /\ row'[j] = inbox[j][1] /\ row'[j] \in Terminal
                 /\ outbox'[j] = IF BornAcked(row'[j], quiet[j]) THEN "acked"
                                                                ELSE "unacked"
           /\ o # "lost" /\ Closing(j, 1) => row'[j] \in Terminal
           /\ \A k \in JobIds \ {j} :
                /\ row'[k] = row[k] /\ outbox'[k] = outbox[k]
                /\ inbox'[k] = inbox[k] /\ answer'[k] = answer[k]
           /\ faults' \in Nat /\ faults' >= faults
  <1>. USE DEF ledgerVars
  <1>. DEFINE req == Head(inbox[j])
  <1>. CoreTypes
    BY DEF IInv
  <1>1. inbox[j] \in Seq({"start"} \cup Terminal) /\ inbox[j] # <<>>
    BY DEF Ledger, CoreTypes
  <1>2. /\ Len(inbox[j]) \in Nat /\ Len(inbox[j]) >= 1
        /\ req = inbox[j][1] /\ req \in {"start"} \cup Terminal
        /\ Len(Tail(inbox[j])) = Len(inbox[j]) - 1
        /\ \A i \in 1..(Len(inbox[j]) - 1) : Tail(inbox[j])[i] = inbox[j][i + 1]
    BY <1>1, QueueParts, QueueOps
  <1>3. /\ inbox' = [inbox EXCEPT ![j] = IF o = "blip" THEN @ ELSE Tail(@)]
        /\ answer' = [answer EXCEPT ![j] =
             IF ~Awaited(j) \/ o = "blip" THEN @
             ELSE IF o = "ok" THEN ReplyTo(j, req) ELSE "exit"]
        /\ IF ~Committed(o) THEN UNCHANGED ledgerVars
           ELSE IF req = "start" THEN StartJob(j)
                                 ELSE FinishJob(j, req, quiet[j])
        /\ Outcome(o)
    BY DEF Ledger
  <1>. HIDE DEF req
  <1>4. faults' \in Nat /\ faults' >= faults
    BY <1>3, BoundsAssumption DEF Outcome, CoreTypes
  <1>5. req # "start" <=> Closing(j, 1)
    BY <1>2 DEF Closing
  <1>6. \/ inbox'[j] = inbox[j]
        \/ /\ Len(inbox'[j]) = Len(inbox[j]) - 1
           /\ \A i \in 1..(Len(inbox[j]) - 1) :
                inbox'[j][i] = inbox[j][i + 1]
    BY <1>2, <1>3 DEF CoreTypes
  <1>7. /\ \/ row'[j] = row[j] /\ outbox'[j] = outbox[j]
           \/ row[j] = "none" /\ row'[j] = "running" /\ outbox'[j] = outbox[j]
           \/ /\ req # "start" /\ row[j] \notin Terminal
              /\ row'[j] = req /\ row'[j] \in Terminal
              /\ outbox'[j] = IF BornAcked(row'[j], quiet[j]) THEN "acked"
                                                             ELSE "unacked"
        /\ o # "lost" /\ req # "start" => row'[j] \in Terminal
        /\ \A k \in JobIds \ {j} : row'[k] = row[k] /\ outbox'[k] = outbox[k]
    <2>1. row \in [JobIds -> Status \cup {"none"}] /\ DOMAIN outbox = JobIds
      BY DEF CoreTypes
    <2>2. CASE ~Committed(o)
      BY <1>3, <2>2 DEF Committed
    <2>3. CASE Committed(o) /\ req = "start"
      BY <1>3, <2>1, <2>3 DEF StartJob
    <2>4. CASE Committed(o) /\ req # "start"
      <3>1. req \in Terminal /\ FinishJob(j, req, quiet[j])
        BY <1>2, <1>3, <2>4
      <3>. QED  BY <2>1, <2>4, <3>1 DEF FinishJob, Transitions
    <2>. QED  BY <2>2, <2>3, <2>4
  <1>8. \A k \in JobIds \ {j} : inbox'[k] = inbox[k] /\ answer'[k] = answer[k]
    BY <1>3 DEF CoreTypes
  <1>. QED  BY <1>1, <1>2, <1>4, <1>5, <1>6, <1>7, <1>8

\* The ledger's step keeps the invariant of every job.
LEMMA LedgerInv ==
    ASSUME IInv, NEW j \in JobIds, NEW o \in {"ok", "lost", "blip"},
           Ledger(j, o), NEW k \in JobIds
    PROVE  JobInv(k)'
  <1>. CoreTypes /\ JobInv(j) /\ JobInv(k)
    BY DEF IInv
  <1>1. UNCHANGED <<ctl, status, eval, quiet, ends, hot, due, durable, guard, left>>
    BY DEF Ledger, jobVars, outVars, reaperVars
  <1>2. faults \in Nat /\ faults' \in Nat /\ faults' >= faults
    BY LedgerServes DEF CoreTypes
  <1>3. CASE k # j
    <2>1. /\ row'[k] = row[k] /\ outbox'[k] = outbox[k]
          /\ inbox'[k] = inbox[k] /\ answer'[k] = answer[k]
      BY <1>3, LedgerServes
    <2>2. LifeInv(k)'
      <3>1. Attempted(k)'
        BY <1>1, <1>2, BoundsAssumption
           DEF JobInv, LifeInv, Attempted, CoreTypes
      <3>2. (Announced(k) /\ Unarmed(k) /\ Guarded(k) /\ Finishing(k))'
        BY <1>1, <2>1
           DEF JobInv, LifeInv, Announced, Unarmed, Guarded, Finishing
      <3>3. Mourned(k)'
        BY <1>1, <1>2, <2>1, BoundsAssumption DEF JobInv, LifeInv, Mourned
      <3>. QED  BY <3>1, <3>2, <3>3 DEF LifeInv
    <2>3. ParkInv(k)'
      BY <1>1, <1>2, <2>1
         DEF JobInv, ParkInv, Ended, Queued, Persisted, Unborn, Waits, Closing
    <2>. QED  BY <2>2, <2>3 DEF JobInv
  <1>4. CASE k = j
    <2>1. row[j] \in Terminal => row'[j] = row[j]
      BY LedgerServes DEF Terminal
    <2>2. row'[j] \in Terminal => row[j] \in Terminal \/ Closing(j, 1)
      BY LedgerServes DEF Terminal
    <2>3. Closing(j, 1) => status[j] # "running"
      BY DEF JobInv, ParkInv, Queued, Ended
    <2>4. outbox'[j] # "none" => row'[j] \in Terminal
      BY <2>1, LedgerServes DEF JobInv, LifeInv, Announced
    <2>5. LifeInv(j)'
      <3>1. Announced(j)'
        BY <2>4 DEF Announced
      <3>2. (Unarmed(j) /\ Guarded(j))'
        BY <1>1, <2>1 DEF JobInv, LifeInv, Unarmed, Guarded
      <3>3. Attempted(j)'
        BY <1>1, <1>2, BoundsAssumption
           DEF JobInv, LifeInv, Attempted, CoreTypes
      <3>4. Mourned(j)'
        BY <1>1, <1>2, <2>1, BoundsAssumption DEF JobInv, LifeInv, Mourned
      <3>5. Finishing(j)'
        BY <1>1, <2>2, <2>3 DEF JobInv, LifeInv, Finishing
      <3>. QED  BY <3>1, <3>2, <3>3, <3>4, <3>5 DEF LifeInv
    <2>6. ASSUME NEW i \in Nat, Closing(j, i)'
          PROVE  \E n \in Nat : Closing(j, n) /\ inbox'[j][i] = inbox[j][n]
      <3>1. CASE inbox'[j] = inbox[j]
        BY <2>6, <3>1 DEF Closing
      <3>2. CASE /\ Len(inbox'[j]) = Len(inbox[j]) - 1
                 /\ \A n \in 1..(Len(inbox[j]) - 1) :
                      inbox'[j][n] = inbox[j][n + 1]
        <4>1. i + 1 \in Nat /\ Closing(j, i + 1) /\ inbox'[j][i] = inbox[j][i + 1]
          BY <2>6, <3>2, LedgerServes DEF Closing
        <4>. QED  BY <4>1
      <3>. QED  BY <3>1, <3>2, LedgerServes
    <2>7. (Ended(j) /\ Queued(j))'
      BY <1>1, <2>6 DEF JobInv, ParkInv, Ended, Queued
    <2>8. Persisted(j)'
      BY <1>1, <1>2, <2>2, <2>6 DEF JobInv, ParkInv, Persisted
    <2>9. Unborn(j)'
      BY <1>1, LedgerServes DEF JobInv, ParkInv, Unborn
    <2>10. Waits(j)'
      <3>1. answer' = [answer EXCEPT ![j] =
               IF ~Awaited(j) \/ o = "blip" THEN @
               ELSE IF o = "ok" THEN ReplyTo(j, Head(inbox[j])) ELSE "exit"]
        BY DEF Ledger
      <3>2. answer'[j] = IF ~Awaited(j) \/ o = "blip" THEN answer[j]
                         ELSE IF o = "ok" THEN ReplyTo(j, Head(inbox[j]))
                              ELSE "exit"
        BY <3>1 DEF CoreTypes
      <3>3. ReplyTo(j, Head(inbox[j])) \in {"notify", "final"}
        BY DEF ReplyTo
      <3>4. ctl[j] \notin {"row", "record"} => answer'[j] = "none"
        BY <3>2 DEF Awaited, Parked, JobInv, ParkInv, Waits
      <3>5. ASSUME ctl[j] = "record", answer'[j] = "none"
            PROVE  Closing(j, Len(inbox[j]))'
        <4>1. answer[j] = "none" /\ (o = "blip" \/ ~Awaited(j))
          BY <3>2, <3>3, <3>5 DEF Awaited, Parked
        <4>2. Closing(j, Len(inbox[j]))
          BY <3>5, <4>1 DEF JobInv, ParkInv, Waits
        <4>3. CASE inbox'[j] = inbox[j]
          BY <4>2, <4>3 DEF Closing
        <4>4. CASE /\ Len(inbox'[j]) = Len(inbox[j]) - 1
                   /\ \A n \in 1..(Len(inbox[j]) - 1) :
                        inbox'[j][n] = inbox[j][n + 1]
          <5>1. o # "blip"
            <6>1. o = "blip" => inbox'[j] = inbox[j]
              BY DEF Ledger, CoreTypes
            <6>. QED  BY <4>4, <6>1, LedgerServes
          <5>2. Len(inbox[j]) # 1
            BY <3>5, <4>1, <5>1 DEF Awaited, Parked
          <5>3. Len(inbox[j]) - 1 \in 1..(Len(inbox[j]) - 1)
            <6>. DEFINE n == Len(inbox[j])
            <6>1. n \in Nat /\ n >= 1 /\ n # 1
              BY <5>2, LedgerServes
            <6>. HIDE DEF n
            <6>2. n - 1 \in 1..(n - 1)
              BY <6>1
            <6>. QED  BY <6>2 DEF n
          <5>4. inbox'[j][Len(inbox'[j])] = inbox[j][Len(inbox[j])]
            BY <4>4, <5>3, LedgerServes
          <5>5. Len(inbox'[j]) \in 1..Len(inbox'[j])
            BY <4>4, <5>3
          <5>6. inbox[j][Len(inbox[j])] # "start"
            BY <4>2 DEF Closing
          <5>. QED  BY <5>4, <5>5, <5>6 DEF Closing
        <4>. QED  BY <4>3, <4>4, LedgerServes
      <3>6. ASSUME ctl[j] = "record", answer'[j] \in {"notify", "final"}
            PROVE  row'[j] \in Terminal
        <4>1. CASE answer'[j] = answer[j]
          BY <2>1, <3>6, <4>1 DEF JobInv, ParkInv, Waits
        <4>2. CASE answer'[j] # answer[j]
          <5>1. Awaited(j) /\ o = "ok"
            BY <3>2, <3>6, <4>2
          <5>2. Closing(j, 1)
            BY <3>6, <5>1 DEF Awaited, Parked, JobInv, ParkInv, Waits
          <5>. QED  BY <5>1, <5>2, LedgerServes
        <4>. QED  BY <4>1, <4>2
      <3>. QED  BY <1>1, <3>4, <3>5, <3>6 DEF Waits
    <2>. QED  BY <1>4, <2>5, <2>7, <2>8, <2>9, <2>10 DEF JobInv, ParkInv
  <1>. QED  BY <1>3, <1>4

\* A finished job's request is sent after the flush.
LEMMA FlushFinalInv ==
    ASSUME IInv, NEW j \in JobIds, NEW o \in Calls, FlushFinal(j, o),
           NEW k \in JobIds
    PROVE  JobInv(k)'
  <1>. CoreTypes /\ JobInv(j) /\ JobInv(k)
    BY DEF IInv
  <1>1. /\ ctl[j] = "flush" /\ ctl' = [ctl EXCEPT ![j] = "record"]
        /\ durable' = [durable EXCEPT ![j] = Flushed(j, o)]
        /\ inbox' = [inbox EXCEPT ![j] = Append(@, status[j])]
        /\ Outcome(o)
        /\ UNCHANGED <<status, eval, quiet, ends, answer, hot, due, row, outbox,
                       guard, left>>
    BY DEF FlushFinal, ledgerVars, reaperVars
  <1>2. status[j] \in Terminal /\ status[j] # "start"
    BY <1>1 DEF CoreTypes, Status, Terminal, JobInv, LifeInv, Finishing
  <1>3. /\ \A n \in JobIds \ {j} : inbox'[n] = inbox[n]
        /\ Len(inbox'[j]) = Len(inbox[j]) + 1 /\ Len(inbox[j]) \in Nat
        /\ inbox'[j][Len(inbox[j]) + 1] = status[j]
        /\ \A i \in 1..Len(inbox[j]) : inbox'[j][i] = inbox[j][i]
    BY <1>1, <1>2, Sent
  <1>4. faults' \in Nat /\ faults' >= faults /\ (faults' = 0 => o = "ok")
    BY <1>1, BoundsAssumption DEF Outcome, CoreTypes
  <1>5. LifeInv(k)'
    BY <1>1, <1>4, BoundsAssumption
       DEF JobInv, LifeInv, Announced, Unarmed, Guarded, Mourned, Attempted,
           Finishing, CoreTypes
  <1>6. (Ended(k) /\ Unborn(k))'
    BY <1>1, <1>3 DEF JobInv, ParkInv, Ended, Unborn, CoreTypes
  <1>7. Queued(k)'
    <2>1. CASE k # j
      BY <1>1, <1>3, <2>1 DEF JobInv, ParkInv, Queued, Closing
    <2>2. CASE k = j
      <3>1. ASSUME NEW i \in Nat, Closing(j, i)' PROVE inbox'[j][i] \in ends[j]
        <4>1. CASE i \in 1..Len(inbox[j])
          BY <1>3, <3>1, <4>1 DEF JobInv, ParkInv, Queued, Closing
        <4>2. CASE i = Len(inbox[j]) + 1
          BY <1>2, <1>3, <4>2 DEF JobInv, ParkInv, Ended, Terminal
        <4>. QED  BY <1>3, <3>1, <4>1, <4>2 DEF Closing
      <3>. QED  BY <1>1, <2>2, <3>1 DEF Queued
    <2>. QED  BY <2>1, <2>2
  <1>8. Persisted(k)'
    <2>1. CASE k # j
      BY <1>1, <1>3, <1>4, <2>1 DEF JobInv, ParkInv, Persisted, Closing, CoreTypes
    <2>2. CASE k = j
      <3>1. faults' = 0 => durable'[j] = hot[j]
        BY <1>1, <1>4 DEF Flushed, Committed, CoreTypes
      <3>2. due[j] <= hot[j] /\ due'[j] = due[j] /\ hot'[j] = hot[j]
        BY <1>1 DEF JobInv, ParkInv, Persisted
      <3>. QED  BY <2>2, <3>1, <3>2 DEF Persisted, CoreTypes
    <2>. QED  BY <2>1, <2>2
  <1>9. Waits(k)'
    <2>1. CASE k # j
      BY <1>1, <1>3, <2>1 DEF JobInv, ParkInv, Waits, Closing, CoreTypes
    <2>2. CASE k = j
      <3>1. Closing(j, Len(inbox[j]))'
        BY <1>2, <1>3 DEF Closing
      <3>. QED  BY <1>1, <2>2, <3>1 DEF JobInv, ParkInv, Waits, CoreTypes
    <2>. QED  BY <2>1, <2>2
  <1>. QED  BY <1>5, <1>6, <1>7, <1>8, <1>9 DEF JobInv, ParkInv

\* Each step of a job keeps what its position implies, for it and for the
\* others.
LEMMA JobStepLife ==
    ASSUME IInv, NEW j \in JobIds, JobStep(j), NEW k \in JobIds
    PROVE  LifeInv(k)'
  <1>. USE BoundsAssumption
       DEF jobVars, parkVars, outVars, ledgerVars, reaperVars, noteVars,
           callVars, bounds, LifeInv, Announced, Unarmed, Guarded, Mourned,
           Attempted, Finishing
  <1>. CoreTypes /\ LifeInv(j) /\ LifeInv(k) /\ Waits(j)
    BY DEF IInv, JobInv, ParkInv
  <1>1. ASSUME Start(j) PROVE LifeInv(k)'
    BY <1>1 DEF Start, CoreTypes
  <1>2. ASSUME ArmReaper(j) PROVE LifeInv(k)'
    BY <1>2 DEF ArmReaper, CoreTypes
  <1>3. ASSUME SpawnEval(j) PROVE LifeInv(k)'
    BY <1>3 DEF SpawnEval, CoreTypes
  <1>4. ASSUME Capture(j) PROVE LifeInv(k)'
    BY <1>4 DEF Capture, CoreTypes
  <1>5. ASSUME Quiet(j) PROVE LifeInv(k)'
    BY <1>5 DEF Quiet, CoreTypes
  <1>6. ASSUME NEW how \in {"done", "failed", "crashed"}, EvalEnds(j, how)
        PROVE  LifeInv(k)'
    BY <1>6 DEF EvalEnds, CoreTypes
  <1>7. ASSUME NEW o \in Calls, FlushTick(j, o) PROVE LifeInv(k)'
    BY <1>7 DEF FlushTick, Outcome, CoreTypes
  <1>8. ASSUME EvalFinished(j) PROVE LifeInv(k)'
    BY <1>8 DEF EvalFinished, BeginFinish, CoreTypes
  <1>9. ASSUME EvalDown(j) PROVE LifeInv(k)'
    BY <1>9 DEF EvalDown, BeginFinish, CoreTypes
  <1>10. ASSUME Cancel(j) PROVE LifeInv(k)'
    BY <1>10 DEF Cancel, BeginFinish, CoreTypes
  <1>11. ASSUME ProxyExit(j) PROVE LifeInv(k)'
    BY <1>11 DEF ProxyExit, BeginFinish, CoreTypes
  <1>12. ASSUME NEW o \in Calls, FlushFinal(j, o) PROVE LifeInv(k)'
    BY <1>12, FlushFinalInv DEF JobInv
  <1>13. ASSUME Record(j) PROVE LifeInv(k)'
    BY <1>13 DEF Record, TellsReaper, Waits, CoreTypes
  <1>14. ASSUME TellSubscribers(j) PROVE LifeInv(k)'
    BY <1>14 DEF TellSubscribers, CoreTypes
  <1>15. ASSUME RetryTerminal(j) PROVE LifeInv(k)'
    BY <1>15 DEF RetryTerminal, Unrecorded, CoreTypes
  <1>16. ASSUME Kill(j) PROVE LifeInv(k)'
    BY <1>16 DEF Kill, CoreTypes
  <1>17. ASSUME ProxyDies(j) PROVE LifeInv(k)'
    BY <1>17 DEF ProxyDies, CoreTypes
  <1>18. ASSUME NEW o \in Writes, Finalize(j, o) PROVE LifeInv(k)'
    <2>1. /\ guard[j] = "armed" /\ ctl[j] = "dead"
          /\ UNCHANGED <<ctl, status, eval>>
      BY <1>18 DEF Finalize
    <2>2. faults' \in Nat /\ faults' >= faults /\ (~Heard(o) => faults' > faults)
      BY <1>18 DEF Finalize, Outcome, Heard, CoreTypes
    <2>3. /\ \/ row' = row /\ outbox' = outbox
             \/ /\ row' = [row EXCEPT ![j] = "killed"]
                /\ \A n \in JobIds \ {j} : outbox'[n] = outbox[n]
          /\ Committed(o) => row'[j] \in Terminal
      BY <1>18 DEF Finalize, FinishJob, Transitions, Terminal, CoreTypes
    <2>4. /\ guard'[j] = IF Heard(o) THEN "none"
                         ELSE IF left[j] > 0 THEN "armed" ELSE "lost"
          /\ left'[j] = IF Heard(o) \/ left[j] = 0 THEN left[j] ELSE left[j] - 1
          /\ \A n \in JobIds \ {j} : guard'[n] = guard[n] /\ left'[n] = left[n]
      BY <1>18, <2>1 DEF Finalize, AttemptsLeft, CoreTypes
    <2>5. CASE k # j
      BY <2>1, <2>2, <2>3, <2>4, <2>5 DEF CoreTypes
    <2>6. CASE k = j
      <3>1. Heard(o) => row'[j] \in Terminal
        BY <2>3 DEF Heard, Committed
      <3>2. row[j] \in Terminal => row'[j] \in Terminal
        BY <2>3 DEF Terminal, CoreTypes
      <3>3. Announced(j)'
        BY <2>3, <3>2 DEF Terminal, CoreTypes
      <3>4. left[j] \in Nat /\ faults \in Nat
        BY DEF CoreTypes
      <3>5. Attempted(j)' /\ Mourned(j)'
        BY <2>1, <2>2, <2>4, <3>1, <3>4
      <3>. QED  BY <2>1, <2>6, <3>3, <3>5
    <2>. QED  BY <2>5, <2>6
  <1>19. ASSUME NEW o \in Calls, Reply(j, o) PROVE LifeInv(k)'
    BY <1>19 DEF Reply, Outcome, CoreTypes
  <1>20. ASSUME SendReply(j) PROVE LifeInv(k)'
    BY <1>20 DEF SendReply, CoreTypes
  <1>21. ASSUME CallTimesOut(j) PROVE LifeInv(k)'
    BY <1>21 DEF CallTimesOut, Outcome, CoreTypes
  <1>22. ASSUME NEW o \in {"ok", "lost", "blip"}, Ledger(j, o)
         PROVE  LifeInv(k)'
    BY <1>22, LedgerInv DEF JobInv
  <1>. QED  BY <1>1, <1>2, <1>3, <1>4, <1>5, <1>6, <1>7, <1>8, <1>9, <1>10,
            <1>11, <1>12, <1>13, <1>14, <1>15, <1>16, <1>17, <1>18, <1>19,
            <1>20, <1>21, <1>22, Zenon DEF JobStep

\* A step that neither sends a request nor takes one up.
LEMMA NothingSent ==
    ASSUME IInv, inbox' = inbox, NEW k \in JobIds
    PROVE  \A i \in Nat : /\ Closing(k, i)' <=> Closing(k, i)
                          /\ inbox'[k][i] = inbox[k][i]
  BY DEF Closing

\* The job that finishes has sent no finish_job and has no terminal row,
\* unless it had finished before.
LEMMA BeginFinishPark ==
    ASSUME IInv, NEW j \in JobIds, NEW st \in Terminal, BeginFinish(j, st),
           ctl[j] = "serving", NEW k \in JobIds,
           UNCHANGED <<inbox, answer, hot, durable, row, outbox, faults>>
    PROVE  ParkInv(k)'
  <1>. CoreTypes /\ ParkInv(j) /\ ParkInv(k) /\ Finishing(j)
    BY DEF IInv, JobInv, LifeInv
  <1>1. /\ \A n \in JobIds \ {j} : /\ status'[n] = status[n] /\ ends'[n] = ends[n]
                                   /\ due'[n] = due[n] /\ ctl'[n] = ctl[n]
        /\ status'[j] = st /\ ends'[j] = ends[j] \cup {st} /\ ctl'[j] = "flush"
        /\ due'[j] = IF status[j] = "running" THEN hot[j] ELSE due[j]
    BY DEF BeginFinish, CoreTypes
  <1>2. \A i \in Nat : /\ Closing(k, i)' <=> Closing(k, i)
                       /\ inbox'[k][i] = inbox[k][i]
    BY NothingSent
  <1>3. CASE k # j
    BY <1>1, <1>2, <1>3
       DEF ParkInv, Ended, Queued, Persisted, Unborn, Waits
  <1>4. CASE k = j
    <2>1. (Ended(j) /\ Unborn(j) /\ Waits(j))'
      BY <1>1 DEF ParkInv, Ended, Unborn, Waits, Terminal
    <2>2. Queued(j)'
      BY <1>1, <1>2, <1>4 DEF ParkInv, Queued
    <2>3. Persisted(j)'
      <3>1. CASE status[j] = "running"
        <4>1. \A i \in Nat : ~Closing(j, i)'
          BY <1>2, <1>4, <3>1 DEF ParkInv, Queued, Ended
        <4>2. row[j] \notin Terminal /\ due'[j] = hot[j] /\ hot[j] \in Nat
          BY <1>1, <3>1 DEF Finishing, CoreTypes
        <4>. QED  BY <4>1, <4>2 DEF Persisted
      <3>2. CASE status[j] # "running"
        BY <1>1, <1>2, <1>4, <3>2 DEF ParkInv, Persisted
      <3>. QED  BY <3>1, <3>2
    <2>. QED  BY <1>4, <2>1, <2>2, <2>3 DEF ParkInv
  <1>. QED  BY <1>3, <1>4

LEMMA JobStepPark ==
    ASSUME IInv, NEW j \in JobIds, JobStep(j), NEW k \in JobIds
    PROVE  ParkInv(k)'
  <1>. USE BoundsAssumption
       DEF jobVars, parkVars, outVars, ledgerVars, reaperVars, noteVars,
           callVars, bounds
  <1>. CoreTypes /\ ParkInv(j) /\ ParkInv(k) /\ Finishing(j)
    BY DEF IInv, JobInv, LifeInv
  <1>p. ASSUME inbox' = inbox,
               UNCHANGED <<status, ends, outbox, row, hot, due, durable>>,
               faults' \in Nat /\ faults' >= faults,
               ctl'[k] = "none" => ctl[k] = "none",
               ctl[k] = "dead" => ctl'[k] = "dead",
               Waits(k)'
        PROVE  ParkInv(k)'
    <2>1. \A i \in Nat : /\ Closing(k, i)' <=> Closing(k, i)
                         /\ inbox'[k][i] = inbox[k][i]
      BY <1>p, NothingSent
    <2>2. faults \in Nat
      BY DEF CoreTypes
    <2>3. (Ended(k) /\ Queued(k) /\ Unborn(k))'
      BY <1>p, <2>1 DEF ParkInv, Ended, Queued, Unborn
    <2>4. Persisted(k)'
      BY <1>p, <2>1, <2>2 DEF ParkInv, Persisted
    <2>. QED  BY <1>p, <2>3, <2>4 DEF ParkInv
  <1>1. ASSUME Start(j) PROVE ParkInv(k)'
    <2>1. Waits(k)'
      BY <1>1 DEF Start, ParkInv, Waits, CoreTypes, Closing
    <2>2. /\ UNCHANGED <<inbox, status, ends, outbox, row, hot, due, durable>>
          /\ faults' \in Nat /\ faults' >= faults
          /\ ctl[j] = "none" /\ ctl' = [ctl EXCEPT ![j] = "arm"]
      BY <1>1 DEF Start, CoreTypes
    <2>3. /\ ctl'[k] = "none" => ctl[k] = "none"
          /\ ctl[k] = "dead" => ctl'[k] = "dead"
      BY <2>2 DEF CoreTypes
    <2>. QED  BY <1>p, <2>1, <2>2, <2>3
  <1>2. ASSUME ArmReaper(j) PROVE ParkInv(k)'
    <2>1. /\ ctl[j] = "arm" /\ ctl' = [ctl EXCEPT ![j] = "row"]
          /\ inbox' = [inbox EXCEPT ![j] = Append(@, "start")]
          /\ UNCHANGED <<status, ends, answer, hot, due, durable, row, outbox,
                         faults>>
      BY <1>2 DEF ArmReaper
    <2>2. /\ \A n \in JobIds \ {j} : inbox'[n] = inbox[n]
          /\ Len(inbox'[j]) = Len(inbox[j]) + 1 /\ Len(inbox[j]) \in Nat
          /\ inbox'[j][Len(inbox[j]) + 1] = "start"
          /\ \A i \in 1..Len(inbox[j]) : inbox'[j][i] = inbox[j][i]
      BY <2>1, Sent
    <2>3. \A i \in Nat : Closing(k, i)' =>
            Closing(k, i) /\ inbox'[k][i] = inbox[k][i]
      BY <2>2 DEF Closing
    <2>4. Waits(k)'
      BY <2>1, <2>2 DEF ParkInv, Waits, Closing, CoreTypes
    <2>5. (Ended(k) /\ Queued(k) /\ Unborn(k))'
      BY <2>1, <2>2, <2>3 DEF ParkInv, Ended, Queued, Unborn, CoreTypes
    <2>6. Persisted(k)'
      BY <2>1, <2>3 DEF ParkInv, Persisted, CoreTypes
    <2>. QED  BY <2>4, <2>5, <2>6 DEF ParkInv
  <1>3. ASSUME SpawnEval(j) PROVE ParkInv(k)'
    <2>1. Waits(k)'
      BY <1>3 DEF SpawnEval, ParkInv, Waits, CoreTypes, Closing
    <2>. QED  BY <1>3, <1>p, <2>1 DEF SpawnEval, CoreTypes
  <1>4. ASSUME Capture(j) PROVE ParkInv(k)'
    <2>1. /\ hot'[k] \in Nat /\ hot'[k] >= hot[k]
          /\ UNCHANGED <<ctl, status, ends, inbox, answer, due, durable, row,
                         outbox, faults>>
      BY <1>4 DEF Capture, CoreTypes
    <2>2. hot[k] \in Nat /\ due[k] \in Nat
      BY DEF CoreTypes
    <2>. QED  BY <2>1, <2>2
              DEF ParkInv, Ended, Queued, Persisted, Unborn, Waits, Closing
  <1>5. ASSUME Quiet(j) PROVE ParkInv(k)'
    <2>1. Waits(k)'
      BY <1>5 DEF Quiet, ParkInv, Waits, Closing
    <2>. QED  BY <1>5, <1>p, <2>1 DEF Quiet, CoreTypes
  <1>6. ASSUME NEW how \in {"done", "failed", "crashed"}, EvalEnds(j, how)
        PROVE  ParkInv(k)'
    <2>1. Waits(k)'
      BY <1>6 DEF EvalEnds, ParkInv, Waits, Closing
    <2>. QED  BY <1>6, <1>p, <2>1 DEF EvalEnds, CoreTypes
  <1>7. ASSUME NEW o \in Calls, FlushTick(j, o) PROVE ParkInv(k)'
    <2>1. /\ ctl[j] = "serving" /\ status[j] = "running"
          /\ \A n \in JobIds \ {j} : durable'[n] = durable[n]
          /\ UNCHANGED <<ctl, status, ends, inbox, answer, hot, due, row, outbox>>
          /\ faults' \in Nat /\ faults' >= faults /\ faults \in Nat
      BY <1>7 DEF FlushTick, Outcome, CoreTypes
    <2>2. \A i \in Nat : /\ Closing(k, i)' <=> Closing(k, i)
                         /\ inbox'[k][i] = inbox[k][i]
      BY <2>1, NothingSent
    <2>3. (Ended(k) /\ Queued(k) /\ Unborn(k) /\ Waits(k))'
      BY <2>1, <2>2 DEF ParkInv, Ended, Queued, Unborn, Waits, Closing
    <2>4. Persisted(k)'
      <3>1. CASE k = j
        <4>1. row[j] \notin Terminal /\ \A i \in Nat : ~Closing(j, i)
          BY <2>1 DEF Finishing, ParkInv, Ended, Queued
        <4>. QED  BY <2>1, <2>2, <3>1, <4>1 DEF ParkInv, Persisted
      <3>2. CASE k # j
        BY <2>1, <2>2, <3>2 DEF ParkInv, Persisted
      <3>. QED  BY <3>1, <3>2
    <2>. QED  BY <2>3, <2>4 DEF ParkInv
  <1>8. ASSUME EvalFinished(j) PROVE ParkInv(k)'
    <2>1. eval[j] \in Terminal
      BY <1>8 DEF EvalFinished, Terminal
    <2>. QED  BY <1>8, <2>1, BeginFinishPark DEF EvalFinished
  <1>9. ASSUME EvalDown(j) PROVE ParkInv(k)'
    <2>1. CASE status[j] = "running"
      BY <1>9, <2>1, BeginFinishPark DEF EvalDown, Terminal
    <2>2. CASE status[j] # "running"
      <3>1. Waits(k)'
        BY <1>9, <2>2 DEF EvalDown, ParkInv, Waits, Closing
      <3>. QED  BY <1>9, <1>p, <2>2, <3>1 DEF EvalDown, CoreTypes
    <2>. QED  BY <2>1, <2>2
  <1>10. ASSUME Cancel(j) PROVE ParkInv(k)'
    BY <1>10, BeginFinishPark DEF Cancel, Terminal
  <1>11. ASSUME ProxyExit(j) PROVE ParkInv(k)'
    <2>1. CASE status[j] = "running"
      BY <1>11, <2>1, BeginFinishPark DEF ProxyExit, Terminal
    <2>2. CASE status[j] # "running"
      <3>1. Waits(k)'
        BY <1>11, <2>2 DEF ProxyExit, ParkInv, Waits, Closing
      <3>. QED  BY <1>11, <1>p, <2>2, <3>1 DEF ProxyExit, CoreTypes
    <2>. QED  BY <2>1, <2>2
  <1>12. ASSUME NEW o \in Calls, FlushFinal(j, o) PROVE ParkInv(k)'
    BY <1>12, FlushFinalInv DEF JobInv
  <1>13. ASSUME Record(j) PROVE ParkInv(k)'
    <2>1. Waits(k)'
      BY <1>13 DEF Record, ParkInv, Waits, CoreTypes, Closing
    <2>. QED  BY <1>13, <1>p, <2>1 DEF Record, CoreTypes
  <1>14. ASSUME TellSubscribers(j) PROVE ParkInv(k)'
    <2>1. Waits(k)'
      BY <1>14 DEF TellSubscribers, ParkInv, Waits, CoreTypes, Closing
    <2>. QED  BY <1>14, <1>p, <2>1 DEF TellSubscribers, CoreTypes
  <1>15. ASSUME RetryTerminal(j) PROVE ParkInv(k)'
    <2>1. Waits(k)'
      BY <1>15 DEF RetryTerminal, ParkInv, Waits, CoreTypes, Closing
    <2>. QED  BY <1>15, <1>p, <2>1 DEF RetryTerminal, CoreTypes
  <1>16. ASSUME Kill(j) PROVE ParkInv(k)'
    <2>1. PICK q \in {inbox[j], Unsent(j)} : inbox' = [inbox EXCEPT ![j] = q]
      BY <1>16 DEF Kill
    <2>2. \A i \in 1..Len(q) : i \in 1..Len(inbox[j]) /\ q[i] = inbox[j][i]
      BY FrontParts DEF Unsent, CoreTypes
    <2>3. inbox'[j] = q /\ \A n \in JobIds \ {j} : inbox'[n] = inbox[n]
      BY <2>1 DEF CoreTypes
    <2>4. \A i \in Nat : Closing(k, i)' =>
            Closing(k, i) /\ inbox'[k][i] = inbox[k][i]
      BY <2>2, <2>3 DEF Closing
    <2>5. /\ ctl' = [ctl EXCEPT ![j] = "dead"]
          /\ hot' = [hot EXCEPT ![j] = 0]
          /\ answer' = [answer EXCEPT ![j] = "none"]
          /\ UNCHANGED <<status, ends, due, durable, row, outbox, faults>>
      BY <1>16 DEF Kill
    <2>6. (Ended(k) /\ Queued(k) /\ Persisted(k))'
      BY <2>4, <2>5 DEF ParkInv, Ended, Queued, Persisted, CoreTypes
    <2>7. (Unborn(k) /\ Waits(k))'
      BY <2>3, <2>5 DEF ParkInv, Unborn, Waits, Closing, CoreTypes
    <2>. QED  BY <2>6, <2>7 DEF ParkInv
  <1>17. ASSUME ProxyDies(j) PROVE ParkInv(k)'
    <2>1. Waits(k)'
      BY <1>17 DEF ProxyDies, ParkInv, Waits, Closing
    <2>. QED  BY <1>17, <1>p, <2>1 DEF ProxyDies, CoreTypes
  <1>18. ASSUME NEW o \in Writes, Finalize(j, o) PROVE ParkInv(k)'
    <2>1. /\ ctl[j] = "dead"
          /\ UNCHANGED <<ctl, status, ends, inbox, answer, hot, due, durable>>
          /\ faults' \in Nat /\ faults' >= faults /\ faults \in Nat
      BY <1>18 DEF Finalize, Outcome, CoreTypes
    <2>2. \A n \in JobIds \ {j} : row'[n] = row[n] /\ outbox'[n] = outbox[n]
      <3>1. FinishJob(j, "killed", FALSE) \/ UNCHANGED ledgerVars
        BY <1>18 DEF Finalize
      <3>2. \/ UNCHANGED <<row, outbox>>
            \/ /\ row' = [row EXCEPT ![j] = "killed"]
               /\ \E v : outbox' = [outbox EXCEPT ![j] = v]
        BY <3>1 DEF FinishJob
      <3>. QED  BY <3>2 DEF CoreTypes
    <2>3. \A i \in Nat : /\ Closing(k, i)' <=> Closing(k, i)
                         /\ inbox'[k][i] = inbox[k][i]
      BY <2>1, NothingSent
    <2>4. (Ended(k) /\ Queued(k) /\ Persisted(k))'
      BY <2>1, <2>2, <2>3 DEF ParkInv, Ended, Queued, Persisted
    <2>5. (Unborn(k) /\ Waits(k))'
      BY <2>1, <2>2 DEF ParkInv, Unborn, Waits, Closing
    <2>. QED  BY <2>4, <2>5 DEF ParkInv
  <1>19. ASSUME NEW o \in Calls, Reply(j, o) PROVE ParkInv(k)'
    <2>1. /\ UNCHANGED <<ctl, status, ends, inbox, answer, hot, due, durable, row>>
          /\ faults' \in Nat /\ faults' >= faults /\ faults \in Nat
          /\ outbox[k] = "none" => outbox'[k] = "none"
      BY <1>19 DEF Reply, Outcome, CoreTypes
    <2>. QED  BY <2>1
              DEF ParkInv, Ended, Queued, Persisted, Unborn, Waits, Closing
  <1>20. ASSUME SendReply(j) PROVE ParkInv(k)'
    <2>1. Waits(k)'
      BY <1>20 DEF SendReply, ParkInv, Waits, Closing
    <2>. QED  BY <1>20, <1>p, <2>1 DEF SendReply, CoreTypes
  <1>21. ASSUME CallTimesOut(j) PROVE ParkInv(k)'
    <2>1. Waits(k)'
      BY <1>21 DEF CallTimesOut, Parked, ParkInv, Waits, Closing, CoreTypes
    <2>. QED  BY <1>21, <1>p, <2>1 DEF CallTimesOut, Outcome, CoreTypes
  <1>22. ASSUME NEW o \in {"ok", "lost", "blip"}, Ledger(j, o)
         PROVE  ParkInv(k)'
    BY <1>22, LedgerInv DEF JobInv
  <1>. QED  BY <1>1, <1>2, <1>3, <1>4, <1>5, <1>6, <1>7, <1>8, <1>9, <1>10,
            <1>11, <1>12, <1>13, <1>14, <1>15, <1>16, <1>17, <1>18, <1>19,
            <1>20, <1>21, <1>22, Zenon DEF JobStep

\* Announce acks a row only when it has told its finish, and opens none.
LEMMA AnnounceTells ==
    ASSUME CoreTypes, NEW rows, NEW to, NEW read, NEW ack,
           Announce(rows, to, read, ack), NEW k \in JobIds
    PROVE  /\ outbox'[k] = outbox[k] \/ (outbox[k] = "unacked"
                /\ outbox'[k] = "acked" /\ to \in said'[k])
           /\ said[k] \subseteq said'[k]
           /\ faults' \in Nat /\ faults' >= faults
  <1>. DEFINE live == IF read = "ok" THEN rows \cap Unacked ELSE {}
  <1>1. /\ said' = [j \in JobIds |-> IF j \in live THEN said[j] \cup {to}
                                                  ELSE said[j]]
        /\ outbox' = [j \in JobIds |-> IF j \in live /\ ack = "ok"
                                       THEN "acked" ELSE outbox[j]]
    BY DEF Announce
  <1>2. k \in live => outbox[k] = "unacked"
    BY DEF Unacked
  <1>3. faults' \in Nat /\ faults' >= faults
    BY BoundsAssumption DEF Announce, Outcome, CoreTypes
  <1>. HIDE DEF live
  <1>. QED  BY <1>1, <1>2, <1>3

\* What a step of the notifier tells of job k, and what it leaves alone.
Telling(k) ==
    /\ UNCHANGED <<jobVars, parkVars, outVars, row, reaperVars, callVars>>
    /\ \/ outbox'[k] = outbox[k]
       \/ /\ outbox[k] = "unacked" /\ outbox'[k] = "acked"
          /\ "channel" \in said'[k] \/ (conn = "dead" /\ "dead" \in said'[k])
    /\ said[k] \subseteq said'[k]
    /\ faults' \in Nat /\ faults' >= faults
    /\ drops' \in Nat /\ drops' >= drops

LEMMA NotifierTells ==
    ASSUME CoreTypes, Notifier \/ Connect \/ Disconnect, NEW k \in JobIds
    PROVE  Telling(k)
  <1>. USE BoundsAssumption DEF ledgerVars, noteVars, bounds
  <1>t. drops \in Nat /\ faults \in Nat
    BY DEF CoreTypes
  <1>1. ASSUME UNCHANGED <<said, outbox, faults, drops>>,
               UNCHANGED <<jobVars, parkVars, outVars, row, reaperVars, callVars>>
        PROVE  Telling(k)
    BY <1>1, <1>t DEF Telling
  <1>2. ASSUME NEW read \in Calls, NEW ack \in Calls, FlushPending(read, ack)
        PROVE  Telling(k)
    <2>1. /\ UNCHANGED <<jobVars, parkVars, outVars, row, reaperVars, callVars>>
          /\ drops' = drops
      BY <1>2 DEF FlushPending
    <2>2. CASE Registered
      <3>. DEFINE to == IF conn = "up" THEN "channel" ELSE conn
      <3>1. Announce(pending, to, read, ack)
        BY <1>2, <2>2 DEF FlushPending
      <3>2. to = "channel" \/ (to = "dead" /\ conn = "dead")
        BY <2>2 DEF Registered
      <3>. HIDE DEF to
      <3>3. /\ outbox'[k] = outbox[k] \/ (outbox[k] = "unacked"
                /\ outbox'[k] = "acked" /\ to \in said'[k])
            /\ said[k] \subseteq said'[k]
            /\ faults' \in Nat /\ faults' >= faults
        BY <3>1, AnnounceTells
      <3>. QED  BY <1>t, <2>1, <3>2, <3>3 DEF Telling
    <2>3. CASE ~Registered
      BY <1>1, <1>2, <2>1, <2>3 DEF FlushPending
    <2>. QED  BY <2>2, <2>3
  <1>3. ASSUME NEW read \in Calls, NEW ack \in Calls, Register(read, ack)
        PROVE  Telling(k)
    <2>1. /\ UNCHANGED <<jobVars, parkVars, outVars, row, reaperVars, callVars>>
          /\ drops' = drops
          /\ Announce(Replayed, "channel", read, ack)
      BY <1>3 DEF Register
    <2>2. /\ outbox'[k] = outbox[k] \/ (outbox[k] = "unacked"
              /\ outbox'[k] = "acked" /\ "channel" \in said'[k])
          /\ said[k] \subseteq said'[k]
          /\ faults' \in Nat /\ faults' >= faults
      BY <2>1, AnnounceTells
    <2>. QED  BY <1>t, <2>1, <2>2 DEF Telling
  <1>4. ASSUME RegisterCrashes PROVE Telling(k)
    <2>1. /\ UNCHANGED <<jobVars, parkVars, outVars, row, reaperVars, callVars>>
          /\ UNCHANGED <<said, outbox, drops>>
          /\ faults' = faults + 1
      BY <1>4 DEF RegisterCrashes, Outcome
    <2>. QED  BY <1>t, <2>1 DEF Telling
  <1>5. ASSUME TransportDown \/ Connect PROVE Telling(k)
    BY <1>1, <1>5 DEF TransportDown, Connect
  <1>6. ASSUME Disconnect PROVE Telling(k)
    <2>1. /\ UNCHANGED <<jobVars, parkVars, outVars, row, reaperVars, callVars>>
          /\ UNCHANGED <<said, outbox, faults>>
          /\ drops' = drops + 1
      BY <1>6 DEF Disconnect
    <2>. QED  BY <1>t, <2>1 DEF Telling
  <1>. QED  BY <1>2, <1>3, <1>4, <1>5, <1>6, Zenon DEF Notifier

LEMMA NotifierInv ==
    ASSUME IInv, Notifier \/ Connect \/ Disconnect, NEW k \in JobIds
    PROVE  JobInv(k)'
  <1>. CoreTypes /\ LifeInv(k) /\ ParkInv(k)
    BY DEF IInv, JobInv
  <1>1. /\ UNCHANGED <<ctl, status, eval, ends, inbox, answer, hot, due, durable,
                       row, guard, left>>
        /\ outbox'[k] = outbox[k]
             \/ (outbox[k] = "unacked" /\ outbox'[k] = "acked")
        /\ faults' \in Nat /\ faults' >= faults
    BY NotifierTells DEF Telling, jobVars, parkVars, outVars, reaperVars
  <1>2. (Announced(k) /\ Unarmed(k) /\ Guarded(k) /\ Finishing(k))'
    BY <1>1 DEF LifeInv, Announced, Unarmed, Guarded, Finishing
  <1>3. (Mourned(k) /\ Attempted(k))'
    BY <1>1, BoundsAssumption DEF LifeInv, Mourned, Attempted, CoreTypes
  <1>4. ParkInv(k)'
    BY <1>1 DEF ParkInv, Ended, Queued, Persisted, Unborn, Waits, Closing,
                CoreTypes
  <1>. QED  BY <1>2, <1>3, <1>4 DEF JobInv, LifeInv

\* Nothing the invariant speaks of changes.
LEMMA StandingStill ==
    ASSUME IInv, NEW k \in JobIds,
           UNCHANGED <<ctl, status, eval, ends, parkVars, outVars, ledgerVars,
                       reaperVars, faults>>
    PROVE  JobInv(k)'
  <1>. USE DEF parkVars, outVars, ledgerVars, reaperVars
  <1>1. LifeInv(k)'
    BY DEF IInv, JobInv, LifeInv, Announced, Unarmed, Guarded, Mourned,
           Attempted, Finishing
  <1>2. ParkInv(k)'
    BY DEF IInv, JobInv, ParkInv, Ended, Queued, Persisted, Unborn, Waits, Closing
  <1>. QED  BY <1>1, <1>2 DEF JobInv

LEMMA InvStep ==
    ASSUME IInv, [Next]_vars
    PROVE  IInv'
  <1>1. CoreTypes'
    <2>1. \A j \in JobIds : ctl[j] = "flush" => status[j] # "running"
      BY DEF IInv, JobInv, LifeInv, Finishing
    <2>. QED  BY <2>1, CoreTypesStep DEF IInv
  <1>2. ASSUME NEW k \in JobIds PROVE JobInv(k)'
    <2>1. CASE UNCHANGED coreVars
      BY <2>1, StandingStill DEF coreVars, bounds
    <2>2. ASSUME NEW c \in Cells, NEW j \in JobIds, AwaitCall(c, j)
          PROVE  JobInv(k)'
      <3>1. UNCHANGED <<jobVars, parkVars, outVars, ledgerVars, reaperVars, faults>>
        BY <2>2 DEF AwaitCall
      <3>. QED  BY <3>1, StandingStill DEF jobVars
    <2>3. CASE UNCHANGED vars
      BY <2>1, <2>3 DEF vars, coreVars, jobVars
    <2>4. ASSUME NEW j \in JobIds, JobStep(j) PROVE JobInv(k)'
      BY <2>4, JobStepLife, JobStepPark DEF JobInv
    <2>. QED  BY <2>1, <2>2, <2>3, <2>4, StepKinds, CallersStandAside,
                 NotifierInv
  <1>. QED  BY <1>1, <1>2 DEF IInv

LEMMA InvInit == Init => IInv
  <1>. SUFFICES ASSUME Init PROVE IInv
    OBVIOUS
  <1>1. CoreTypes
    BY BoundsAssumption DEF Init, CoreTypes, Status, Terminal
  <1>2. ASSUME NEW j \in JobIds PROVE LifeInv(j)
    BY BoundsAssumption DEF Init, LifeInv, Announced, Unarmed, Guarded,
       Mourned, Attempted, Finishing, Terminal
  <1>3. ASSUME NEW j \in JobIds PROVE ParkInv(j)
    BY DEF Init, ParkInv, Ended, Queued, Persisted, Unborn, Waits, Closing,
       Terminal
  <1>. QED  BY <1>1, <1>2, <1>3 DEF IInv, JobInv

LEMMA InvHolds == Spec => []IInv
  BY InvInit, InvStep, PTL DEF Spec

-----------------------------------------------------------------------------
(* The theorems                                                            *)

\* The reaper's guarantee: a control process that armed it never dies
\* without its end reaching the ledger, short of one ledger failure per
\* attempt.
THEOREM DeathIsNeverSilent == Spec => []NoSilentDeath
  <1>1. IInv => NoSilentDeath
    BY DEF IInv, JobInv, LifeInv, Mourned, NoSilentDeath
  <1>. QED  BY <1>1, InvHolds, PTL

\* finish/4 flushes before it records, and no finish_job left in the ledger's
\* inbox by an earlier attempt gets ahead of the flush.
THEOREM OutputIsThere == Spec => []OutputBeforeTransition
  <1>1. IInv => OutputBeforeTransition
    BY DEF IInv, JobInv, ParkInv, Persisted, OutputBeforeTransition
  <1>. QED  BY <1>1, InvHolds, PTL

\* A step of a job leaves a transition that is recorded and an announcement
\* that is acked as they are.
LEMMA JobStepIsFinal ==
    ASSUME IInv, NEW j \in JobIds, JobStep(j), NEW k \in JobIds
    PROVE  /\ row[k] \in Terminal => row'[k] = row[k]
           /\ outbox[k] = "acked" => outbox'[k] = "acked"
  <1>. USE BoundsAssumption
       DEF jobVars, parkVars, outVars, ledgerVars, reaperVars, noteVars,
           callVars, bounds
  <1>. CoreTypes /\ (outbox[k] # "none" => row[k] \in Terminal)
    BY DEF IInv, JobInv, LifeInv, Announced
  <1>1. ASSUME NEW o \in {"ok", "lost", "blip"}, Ledger(j, o)
        PROVE  /\ row[k] \in Terminal => row'[k] = row[k]
               /\ outbox[k] = "acked" => outbox'[k] = "acked"
    BY <1>1, LedgerServes DEF Terminal
  <1>2. ASSUME NEW o \in Writes, Finalize(j, o)
        PROVE  /\ row[k] \in Terminal => row'[k] = row[k]
               /\ outbox[k] = "acked" => outbox'[k] = "acked"
    BY <1>2 DEF Finalize, FinishJob, Transitions, CoreTypes
  <1>3. ASSUME NEW o \in Calls, Reply(j, o)
        PROVE  row' = row /\ (outbox[k] = "acked" => outbox'[k] = "acked")
    BY <1>3 DEF Reply, CoreTypes
  <1>4. ASSUME NEW o \in Calls, FlushFinal(j, o) \/ FlushTick(j, o)
        PROVE  UNCHANGED ledgerVars
    BY <1>4 DEF FlushFinal, FlushTick
  <1>5. ASSUME NEW how \in {"done", "failed", "crashed"}, EvalEnds(j, how)
        PROVE  UNCHANGED ledgerVars
    BY <1>5 DEF EvalEnds
  <1>6. CASE Start(j) \/ ArmReaper(j) \/ SpawnEval(j) \/ EvalFinished(j)
             \/ EvalDown(j) \/ ProxyExit(j) \/ Record(j) \/ TellSubscribers(j)
             \/ RetryTerminal(j) \/ CallTimesOut(j) \/ SendReply(j)
             \/ Capture(j) \/ Quiet(j) \/ Cancel(j) \/ Kill(j) \/ ProxyDies(j)
    BY <1>6 DEF Start, ArmReaper, SpawnEval, EvalFinished, EvalDown, ProxyExit,
                Record, TellSubscribers, RetryTerminal, CallTimesOut, SendReply,
                Capture, Quiet, Cancel, Kill, ProxyDies
  <1>. QED  BY <1>1, <1>2, <1>3, <1>4, <1>5, <1>6 DEF JobStep

\* No transition is revised and no announcement re-opened, by any process.
THEOREM LedgerFinality == Spec => LedgerIsFinal
  <1>. DEFINE Final1(k) == /\ row[k] \in Terminal => row'[k] = row[k]
                           /\ outbox[k] = "acked" => outbox'[k] = "acked"
  <1>1. ASSUME IInv, [Next]_vars, NEW k \in JobIds
        PROVE  Final1(k)
    <2>. CoreTypes
      BY <1>1 DEF IInv
    <2>1. CASE \E j \in JobIds : JobStep(j)
      BY <1>1, <2>1, JobStepIsFinal
    <2>2. CASE Notifier \/ Connect \/ Disconnect
      BY <2>2, NotifierTells DEF Telling
    <2>3. CASE UNCHANGED coreVars
      BY <2>3 DEF coreVars, ledgerVars
    <2>4. CASE \E c \in Cells, j \in JobIds : AwaitCall(c, j)
      BY <2>4 DEF AwaitCall, ledgerVars
    <2>5. CASE UNCHANGED vars
      BY <2>5 DEF vars, ledgerVars
    <2>. QED  BY <1>1, <2>1, <2>2, <2>3, <2>4, <2>5, StepKinds,
                 CallersStandAside
  <1>2. IInv /\ [Next]_vars => [\A j \in JobIds : Final1(j)]_vars
    BY <1>1
  <1>. QED  BY <1>2, InvHolds, PTL DEF Spec, LedgerIsFinal

-----------------------------------------------------------------------------
(* The types of the callers of await                                       *)

Requests == {"subscribe", "unsubscribe"}
Finals == [job: JobIds, status: Status]
CallInv == CallTypes /\ HasTarget

\* Replacing one of a caller's inboxes.
LEMMA MailAt ==
    ASSUME NEW f \in [Callers -> [JobIds -> Seq(Requests)]], NEW x \in Callers,
           NEW j \in JobIds, NEW q \in Seq(Requests)
    PROVE  [f EXCEPT ![x][j] = q] \in [Callers -> [JobIds -> Seq(Requests)]]
  OBVIOUS

\* The steps that leave the callers alone.
LEMMA CallersLeftAlone ==
    ASSUME CallInv, UNCHANGED <<subs, callVars>>
    PROVE  CallInv'
  BY DEF CallInv, CallTypes, HasTarget, callVars

\* A job tells its subscribers, dies or is started.
LEMMA JobStepCalls ==
    ASSUME CoreTypes, CallInv, NEW j \in JobIds, JobStep(j)
    PROVE  CallInv'
  <1>. USE BoundsAssumption
       DEF jobVars, parkVars, outVars, ledgerVars, reaperVars, noteVars,
           callVars, bounds
  <1>. USE DEF CallInv
  <1>j. j \in Callers
    BY DEF Callers
  <1>1. CASE Start(j)
    <2>1. mail' \in [Callers -> [JobIds -> Seq(Requests)]]
      <3>1. mail' = [mail EXCEPT ![j][j] = <<"subscribe">>]
        BY <1>1 DEF Start
      <3>2. <<"subscribe">> \in Seq(Requests)
        BY DEF Requests
      <3>. QED  BY <1>j, <3>1, <3>2, MailAt DEF CallTypes, Requests
    <2>2. at' = [at EXCEPT ![j] = "calling"] /\ UNCHANGED <<subs, target, box, ans>>
      BY <1>1 DEF Start
    <2>. QED  BY <1>j, <2>1, <2>2 DEF CallTypes, HasTarget, Requests
  <1>2. CASE TellSubscribers(j)
    <2>1. Final(j, status[j]) \in Finals
      BY DEF Final, Finals, CoreTypes
    <2>2. box' \in [Callers -> Seq(Finals)]
      BY <1>2, <2>1, QueueOps DEF TellSubscribers, CallTypes, Finals
    <2>3. subs' \in [JobIds -> SUBSET Callers]
      BY <1>2 DEF TellSubscribers, CallTypes
    <2>4. UNCHANGED <<at, target, mail, ans>>
      BY <1>2 DEF TellSubscribers
    <2>. QED  BY <2>2, <2>3, <2>4 DEF CallTypes, HasTarget, Finals
  <1>3. CASE Kill(j)
    <2>1. mail' = [x \in Callers |-> [mail[x] EXCEPT ![j] = <<>>]]
      BY <1>3 DEF Kill
    <2>2. ASSUME NEW x \in Callers
          PROVE  [mail[x] EXCEPT ![j] = <<>>] \in [JobIds -> Seq(Requests)]
      <3>1. mail[x] \in [JobIds -> Seq(Requests)]
        BY DEF CallTypes, Requests
      <3>2. <<>> \in Seq(Requests)
        OBVIOUS
      <3>. QED  BY <3>1, <3>2, EntryAt
    <2>3. mail' \in [Callers -> [JobIds -> Seq(Requests)]]
      BY <2>1, <2>2
    <2>4. subs' \in [JobIds -> SUBSET Callers] /\ UNCHANGED <<at, target, box, ans>>
      BY <1>3 DEF Kill, CallTypes
    <2>. QED  BY <2>3, <2>4 DEF CallTypes, HasTarget, Requests
  <1>4. ASSUME NEW o \in Calls, Reply(j, o) PROVE CallInv'
    <2>1. /\ at' = [at EXCEPT ![j] = "sending"]
          /\ UNCHANGED <<subs, target, mail, box, ans>>
      BY <1>4 DEF Reply
    <2>. QED  BY <1>j, <2>1 DEF CallTypes, HasTarget
  <1>5. CASE SendReply(j)
    <2>1. /\ at' = [at EXCEPT ![j] = "replied"] /\ ans' = [ans EXCEPT ![j] = None]
          /\ UNCHANGED <<subs, target, mail, box>>
      BY <1>5 DEF SendReply
    <2>. QED  BY <1>j, <2>1 DEF CallTypes, HasTarget
  <1>6. ASSUME NEW o \in Calls, FlushFinal(j, o) \/ FlushTick(j, o)
        PROVE  UNCHANGED <<subs, callVars>>
    BY <1>6 DEF FlushFinal, FlushTick
  <1>7. ASSUME NEW o \in Writes, Finalize(j, o) PROVE UNCHANGED <<subs, callVars>>
    BY <1>7 DEF Finalize
  <1>8. ASSUME NEW how \in {"done", "failed", "crashed"}, EvalEnds(j, how)
        PROVE  UNCHANGED <<subs, callVars>>
    BY <1>8 DEF EvalEnds
  <1>9. ASSUME NEW o \in {"ok", "lost", "blip"}, Ledger(j, o)
        PROVE  UNCHANGED <<subs, callVars>>
    BY <1>9 DEF Ledger
  <1>10. ASSUME ArmReaper(j) \/ SpawnEval(j) \/ EvalFinished(j) \/ EvalDown(j)
                \/ ProxyExit(j) \/ Record(j) \/ RetryTerminal(j)
                \/ CallTimesOut(j) \/ Capture(j) \/ Quiet(j) \/ Cancel(j)
                \/ ProxyDies(j)
         PROVE  UNCHANGED <<subs, callVars>>
    BY <1>10 DEF ArmReaper, SpawnEval, EvalFinished, EvalDown, ProxyExit, Record,
                 RetryTerminal, CallTimesOut, Capture, Quiet, Cancel, ProxyDies
  <1>. QED  BY <1>1, <1>2, <1>3, <1>4, <1>5, <1>6, <1>7, <1>8, <1>9, <1>10,
               CallersLeftAlone DEF JobStep

\* The steps of an await.
LEMMA CallStepCalls ==
    ASSUME CoreTypes, CallInv, CallStep
    PROVE  CallInv'
  <1>. USE BoundsAssumption
       DEF jobVars, parkVars, outVars, ledgerVars, reaperVars, noteVars,
           callVars, bounds
  <1>. USE DEF CallInv
  <1>1. ASSUME NEW j \in JobIds, ReadSummary(j) PROVE CallInv'
    <2>. DEFINE st == IF ctl[j] = "dead" THEN row[j] ELSE status[j]
    <2>1. st \in Status \cup {"none"} /\ j \in Callers
      BY DEF CoreTypes, Callers
    <2>2. /\ at' = [at EXCEPT ![j] = IF st = "none" THEN "crashed" ELSE "replying"]
          /\ ans' = [ans EXCEPT ![j] = IF st = "none" THEN @ ELSE Final(j, st)]
          /\ UNCHANGED <<subs, target, mail, box>>
      BY <1>1 DEF ReadSummary
    <2>. HIDE DEF st
    <2>3. st # "none" => Final(j, st) \in [job: JobIds, status: Status]
      BY <2>1 DEF Final
    <2>. QED  BY <2>1, <2>2, <2>3 DEF CallTypes, HasTarget
  <1>2. ASSUME NEW x \in Callers, TakeFinished(x) PROVE CallInv'
    <2>1. /\ box' \in [Callers -> Seq(Finals)]
          /\ Head(box[x]) \in Finals
      BY <1>2, QueueOps DEF TakeFinished, CallTypes, Finals
    <2>2. /\ at' \in [Callers -> {"idle", "calling", "waiting", "polling",
                                  "reading", "replying", "sending", "replied",
                                  "crashed"}]
          /\ ans' \in [Callers -> Finals \cup {None}]
      BY <1>2, <2>1 DEF TakeFinished, CallTypes, Returned, Finals
    <2>3. HasTarget'
      BY <1>2 DEF TakeFinished, HasTarget, CallTypes
    <2>. QED  BY <1>2, <2>1, <2>2, <2>3 DEF TakeFinished, CallTypes, Finals
  <1>3. ASSUME NEW x \in Callers, SeeDown(x) \/ CallerExits(x) PROVE CallInv'
    <2>1. /\ \E p \in {"polling", "crashed"} : at' = [at EXCEPT ![x] = p]
          /\ UNCHANGED <<subs, target, mail, box, ans>>
          /\ at[x] # "idle"
      BY <1>3 DEF SeeDown, CallerExits
    <2>2. at' \in [Callers -> {"idle", "calling", "waiting", "polling",
                               "reading", "replying", "sending", "replied",
                               "crashed"}]
      BY <2>1 DEF CallTypes
    <2>3. CallTypes'
      BY <2>1, <2>2 DEF CallTypes
    <2>4. \A y \in Callers : at'[y] # "idle" => at[y] # "idle"
      BY <2>1 DEF CallTypes
    <2>5. HasTarget'
      BY <2>1, <2>4 DEF HasTarget
    <2>. QED  BY <2>3, <2>5
  <1>4. ASSUME NEW x \in Callers, Poll(x) PROVE CallInv'
    <2>1. target[x] \in JobIds
      BY <1>4 DEF Poll, HasTarget
    <2>2. row[target[x]] # "none" =>
            Final(target[x], row[target[x]]) \in [job: JobIds, status: Status]
      BY <2>1 DEF Final, CoreTypes
    <2>. QED  BY <1>4, <2>1, <2>2 DEF Poll, Returned, CallTypes, HasTarget
  <1>5. ASSUME NEW x \in Callers, NEW j \in JobIds, HandleSubscribe(x, j)
        PROVE  CallInv'
    <2>1. mail' \in [Callers -> [JobIds -> Seq(Requests)]]
      <3>1. mail' = [mail EXCEPT ![x][j] = Tail(mail[x][j])] /\ mail[x][j] # <<>>
        BY <1>5 DEF HandleSubscribe
      <3>2. Tail(mail[x][j]) \in Seq(Requests)
        BY <3>1, QueueOps DEF CallTypes, Requests
      <3>. QED  BY <3>1, <3>2, MailAt DEF CallTypes, Requests
    <2>2. Final(j, status[j]) \in [job: JobIds, status: Status]
      BY DEF Final, CoreTypes
    <2>3. /\ subs' \in [JobIds -> SUBSET Callers]
          /\ at' \in [Callers -> {"idle", "calling", "waiting", "polling",
                                  "reading", "replying", "sending", "replied",
                                  "crashed"}]
          /\ ans' \in [Callers -> [job: JobIds, status: Status] \cup {None}]
      <3>1. CASE status[j] = "running"
        <4>1. /\ subs' = [subs EXCEPT ![j] = @ \cup {x}] /\ ans' = ans
              /\ at' = [at EXCEPT ![x] = IF StillCalling(x, j) THEN "waiting"
                                                              ELSE @]
          BY <1>5, <3>1 DEF HandleSubscribe
        <4>. QED  BY <4>1 DEF CallTypes
      <3>2. CASE status[j] # "running"
        <4>1. /\ at' = [at EXCEPT ![x] = IF StillCalling(x, j) THEN Returned(x)
                                                              ELSE @]
              /\ ans' = [ans EXCEPT ![x] = IF StillCalling(x, j)
                                           THEN Final(j, status[j]) ELSE @]
              /\ subs' = subs
          BY <1>5, <3>2 DEF HandleSubscribe
        <4>2. Returned(x) \in {"replying", "idle"}
          BY DEF Returned
        <4>. QED  BY <2>2, <4>1, <4>2 DEF CallTypes
      <3>. QED  BY <3>1, <3>2
    <2>4. HasTarget'
      BY <1>5 DEF HandleSubscribe, StillCalling, CallTypes, HasTarget
    <2>. QED  BY <1>5, <2>1, <2>3, <2>4 DEF HandleSubscribe, CallTypes, Requests
  <1>6. ASSUME NEW x \in Callers, NEW j \in JobIds, HandleUnsubscribe(x, j)
        PROVE  CallInv'
    <2>1. mail' \in [Callers -> [JobIds -> Seq(Requests)]]
      <3>1. mail' = [mail EXCEPT ![x][j] = Tail(mail[x][j])] /\ mail[x][j] # <<>>
        BY <1>6 DEF HandleUnsubscribe
      <3>2. Tail(mail[x][j]) \in Seq(Requests)
        BY <3>1, QueueOps DEF CallTypes, Requests
      <3>. QED  BY <3>1, <3>2, MailAt DEF CallTypes, Requests
    <2>2. subs' \in [JobIds -> SUBSET Callers] /\ UNCHANGED <<at, target, box, ans>>
      BY <1>6 DEF HandleUnsubscribe, CallTypes
    <2>. QED  BY <2>1, <2>2 DEF CallTypes, HasTarget, Requests
  <1>7. ASSUME NEW x \in Callers, GiveUp(x) PROVE CallInv'
    <2>1. target[x] \in JobIds
      BY <1>7 DEF GiveUp, HasTarget
    <2>2. mail' \in [Callers -> [JobIds -> Seq(Requests)]]
      <3>. DEFINE q == IF ctl[target[x]] = "dead" THEN mail[x][target[x]]
                       ELSE Append(mail[x][target[x]], "unsubscribe")
      <3>1. mail' = [mail EXCEPT ![x][target[x]] = q]
        BY <1>7 DEF GiveUp
      <3>2. q \in Seq(Requests)
        BY <2>1, QueueOps DEF CallTypes, Requests
      <3>. HIDE DEF q
      <3>. QED  BY <2>1, <3>1, <3>2, MailAt DEF CallTypes, Requests
    <2>3. box[x] # <<>> => Head(box[x]) \in Finals /\ Tail(box[x]) \in Seq(Finals)
      BY QueueOps DEF CallTypes, Finals
    <2>4. /\ box' \in [Callers -> Seq(Finals)]
          /\ ans' \in [Callers -> Finals \cup {None}]
      BY <1>7, <2>3 DEF GiveUp, CallTypes, Finals
    <2>5. at' \in [Callers -> {"idle", "calling", "waiting", "polling",
                               "reading", "replying", "sending", "replied",
                                  "crashed"}]
      BY <1>7 DEF GiveUp, Returned, CallTypes
    <2>6. HasTarget'
      BY <1>7, <2>1 DEF GiveUp, HasTarget, CallTypes
    <2>. QED  BY <1>7, <2>2, <2>4, <2>5, <2>6
              DEF GiveUp, CallTypes, Requests, Finals
  <1>. QED  BY <1>1, <1>2, <1>3, <1>4, <1>5, <1>6, <1>7 DEF CallStep, Caller

LEMMA CallInvStep ==
    ASSUME CoreTypes, CallInv, [Next]_vars
    PROVE  CallInv'
  <1>1. ASSUME NEW c \in Cells, NEW j \in JobIds, AwaitCall(c, j)
        PROVE  CallInv'
    <2>. c \in Callers
      BY DEF Callers
    <2>1. mail' \in [Callers -> [JobIds -> Seq(Requests)]]
      <3>1. mail' = [mail EXCEPT ![c][j] = Append(mail[c][j], "subscribe")]
        BY <1>1 DEF AwaitCall
      <3>2. Append(mail[c][j], "subscribe") \in Seq(Requests)
        BY QueueOps DEF CallInv, CallTypes, Requests
      <3>. QED  BY <3>1, <3>2, MailAt DEF CallInv, CallTypes, Requests
    <2>2. /\ at' = [at EXCEPT ![c] = "calling"]
          /\ target' = [target EXCEPT ![c] = j]
          /\ UNCHANGED <<subs, box, ans>>
      BY <1>1 DEF AwaitCall, jobVars
    <2>. QED  BY <2>1, <2>2 DEF CallInv, CallTypes, HasTarget, Requests
  <1>2. CASE Notifier \/ Connect \/ Disconnect
    <2>1. UNCHANGED <<subs, callVars>>
      BY <1>2 DEF Notifier, FlushPending, Register, RegisterCrashes,
                  TransportDown, Connect, Disconnect, jobVars
    <2>. QED  BY <2>1, CallersLeftAlone
  <1>3. CASE UNCHANGED vars
    BY <1>3, CallersLeftAlone DEF vars, jobVars
  <1>. QED  BY <1>1, <1>2, <1>3, StepKinds, JobStepCalls, CallStepCalls

LEMMA CallInvInit == Init => CallInv
  <1>. SUFFICES ASSUME Init PROVE CallInv
    OBVIOUS
  <1>1. /\ mail \in [Callers -> [JobIds -> Seq(Requests)]]
        /\ box \in [Callers -> Seq(Finals)]
    BY DEF Init
  <1>2. ans \in [Callers -> Finals \cup {None}]
    BY DEF Init
  <1>. QED  BY <1>1, <1>2
            DEF Init, CallInv, CallTypes, HasTarget, Callers, Requests, Finals

\* Every variable keeps its type; in particular the reaper's attempts never
\* go below zero and an await always knows its job.
THEOREM TypeCorrect == Spec => []TypeOK
  <1>1. IInv /\ CallInv => TypeOK
    BY DEF IInv, CoreTypes, CallInv, CallTypes, TypeOK
  <1>2. IInv /\ CallInv /\ [Next]_vars => (IInv /\ CallInv)'
    BY InvStep, CallInvStep DEF IInv
  <1>3. Init => IInv /\ CallInv
    BY InvInit, CallInvInit
  <1>. QED  BY <1>1, <1>2, <1>3, PTL DEF Spec

-----------------------------------------------------------------------------
(* What may suppress an announcement                                       *)

\* A handler is cut off, and the notifier writes to a dead transport, only
\* after a transport died.
Cuts == conn = "dead" \/ cut # {} => drops > 0

Told(j) == outbox[j] = "acked" =>
    \/ Delivered(j) \/ Carried(j)
    \/ quiet[j] /\ row[j] = "done"
    \/ ToldToNobody(j)

TellInv == Cuts /\ \A j \in JobIds : Told(j)

\* What is said stays said, a rendered reply stays with its handler, and the
\* row and the flag stay as they are: then so does what earned an ack.
LEMMA StaysTold ==
    ASSUME NEW k \in JobIds, Told(k),
           outbox'[k] = "acked" => outbox[k] = "acked",
           said[k] \subseteq said'[k],
           drops \in Nat /\ drops' \in Nat /\ drops' >= drops,
           at[k] = "sending" => at'[k] = "sending" /\ ans'[k] = ans[k],
           quiet[k] => quiet'[k], row[k] = "done" => row'[k] = "done"
    PROVE  Told(k)'
  <1>1. Delivered(k) => Delivered(k)'
    BY DEF Delivered
  <1>2. ToldToNobody(k) => ToldToNobody(k)'
    BY DEF ToldToNobody
  <1>3. Carried(k) => Carried(k)'
    BY DEF Carried, CarriesResult
  <1>. QED  BY <1>1, <1>2, <1>3 DEF Told

LEMMA JobStepTells ==
    ASSUME IInv, CallInv, TellInv, NEW j \in JobIds, JobStep(j)
    PROVE  TellInv'
  <1>. USE BoundsAssumption
       DEF jobVars, parkVars, outVars, ledgerVars, reaperVars, noteVars,
           callVars, bounds
  <1>. CoreTypes
    BY DEF IInv
  <1>t. drops \in Nat /\ j \in Callers
    BY DEF CoreTypes, Callers
  <1>c. UNCHANGED <<conn, cut, drops>>
    BY DEF JobStep, Start, ArmReaper, SpawnEval, EvalFinished, EvalDown,
           ProxyExit, Record, TellSubscribers, RetryTerminal, CallTimesOut,
           SendReply, FlushFinal, FlushTick, Reply, Ledger, Finalize, Capture,
           Quiet, Cancel, Kill, ProxyDies, EvalEnds
  <1>. SUFFICES ASSUME NEW k \in JobIds PROVE Told(k)'
    BY <1>c DEF TellInv, Cuts
  <1>. Told(k)
    BY DEF TellInv
  <1>1. CASE Start(j)
    <2>1. CASE k = j
      <3>1. outbox[j] = "none" /\ outbox' = outbox
        BY <1>1 DEF Start, IInv, JobInv, ParkInv, Unborn
      <3>. QED  BY <2>1, <3>1 DEF Told
    <2>2. CASE k # j
      <3>1. /\ at'[k] = at[k]
            /\ UNCHANGED <<outbox, said, ans, quiet, row>>
        BY <1>1, <2>2 DEF Start, CallInv, CallTypes
      <3>. QED  BY <1>c, <1>t, <3>1, StaysTold
    <2>. QED  BY <2>1, <2>2
  <1>2. ASSUME NEW o \in {"ok", "lost", "blip"}, Ledger(j, o) PROVE Told(k)'
    <2>1. UNCHANGED <<said, at, ans, quiet>>
      BY <1>2 DEF Ledger
    <2>2. row[k] = "done" => row'[k] = "done"
      BY <1>2, LedgerServes DEF Terminal
    <2>3. CASE outbox'[k] = "acked" => outbox[k] = "acked"
      BY <1>c, <1>t, <2>1, <2>2, <2>3, StaysTold
    <2>4. CASE outbox'[k] = "acked" /\ outbox[k] # "acked"
      <3>1. k = j /\ BornAcked(row'[j], quiet[j])
        BY <1>2, <2>4, LedgerServes
      <3>. QED  BY <2>1, <3>1 DEF BornAcked, Told
    <2>. QED  BY <2>3, <2>4
  <1>3. ASSUME NEW o \in Writes, Finalize(j, o) PROVE Told(k)'
    <2>1. UNCHANGED <<said, at, ans, quiet>>
      BY <1>3 DEF Finalize
    <2>2. /\ row[k] = "done" => row'[k] = "done"
          /\ outbox'[k] = "acked" => outbox[k] = "acked"
      BY <1>3 DEF Finalize, FinishJob, BornAcked, Transitions, Terminal,
                  CoreTypes
    <2>. QED  BY <1>c, <1>t, <2>1, <2>2, StaysTold
  <1>4. ASSUME NEW o \in Calls, Reply(j, o) PROVE Told(k)'
    <2>1. /\ at[j] = "replying" /\ at' = [at EXCEPT ![j] = "sending"]
          /\ UNCHANGED <<said, ans, quiet, row>>
      BY <1>4 DEF Reply
    <2>2. CASE k = j /\ CarriesResult(j)
      <3>1. Carried(j)'
        BY <1>t, <2>1, <2>2 DEF Carried, CarriesResult, CallInv, CallTypes
      <3>. QED  BY <2>2, <3>1 DEF Told
    <2>3. CASE k # j \/ ~CarriesResult(j)
      <3>1. outbox'[k] = outbox[k]
        BY <1>4, <2>3 DEF Reply, CoreTypes
      <3>2. at[k] = "sending" => at'[k] = "sending"
        BY <2>1 DEF CallInv, CallTypes, Callers
      <3>. QED  BY <1>c, <1>t, <2>1, <3>1, <3>2, StaysTold
    <2>. QED  BY <2>2, <2>3
  <1>5. CASE SendReply(j)
    <2>1. /\ UNCHANGED <<outbox, quiet, row>>
          /\ at' = [at EXCEPT ![j] = "replied"]
          /\ ans' = [ans EXCEPT ![j] = None]
          /\ said' = [said EXCEPT ![j] =
               IF ans[j].status = "running" THEN @
               ELSE @ \cup {IF j \in cut THEN "dead" ELSE "reply"}]
      BY <1>5 DEF SendReply
    <2>2. said[k] \subseteq said'[k]
      BY <2>1 DEF CoreTypes
    <2>3. CASE k = j /\ Carried(j)
      <3>1. said'[j] = said[j] \cup {IF j \in cut THEN "dead" ELSE "reply"}
        BY <2>1, <2>3 DEF Carried, CarriesResult, CoreTypes
      <3>2. CASE j \in cut
        <4>1. drops' > 0
          BY <1>c, <3>2 DEF TellInv, Cuts
        <4>. QED  BY <2>3, <3>1, <3>2, <4>1 DEF Told, ToldToNobody
      <3>3. CASE j \notin cut
        <4>1. Delivered(j)'
          BY <3>1, <3>3 DEF Delivered
        <4>. QED  BY <2>3, <4>1 DEF Told
      <3>. QED  BY <3>2, <3>3
    <2>4. CASE k = j /\ ~Carried(j)
      <3>1. Delivered(j) => Delivered(j)'
        BY <2>2, <2>4 DEF Delivered
      <3>2. ToldToNobody(j) => ToldToNobody(j)'
        BY <1>c, <2>2, <2>4 DEF ToldToNobody
      <3>. QED  BY <2>1, <2>4, <3>1, <3>2 DEF Told
    <2>5. CASE k # j
      <3>1. at'[k] = at[k] /\ ans'[k] = ans[k]
        BY <2>1, <2>5 DEF CallInv, CallTypes
      <3>. QED  BY <1>c, <1>t, <2>1, <2>2, <3>1, StaysTold
    <2>. QED  BY <2>3, <2>4, <2>5
  <1>6. CASE Quiet(j)
    <2>1. UNCHANGED <<outbox, said, at, ans, row>> /\ (quiet[k] => quiet'[k])
      BY <1>6 DEF Quiet, CoreTypes
    <2>. QED  BY <1>c, <1>t, <2>1, StaysTold
  <1>7. ASSUME UNCHANGED <<outbox, said, at, ans, quiet, row>> PROVE Told(k)'
    BY <1>7, <1>c, <1>t, StaysTold
  <1>8. ASSUME NEW o \in Calls, FlushFinal(j, o) \/ FlushTick(j, o)
        PROVE  Told(k)'
    BY <1>7, <1>8 DEF FlushFinal, FlushTick
  <1>9. ASSUME NEW how \in {"done", "failed", "crashed"}, EvalEnds(j, how)
        PROVE  Told(k)'
    BY <1>7, <1>9 DEF EvalEnds
  <1>10. CASE ArmReaper(j) \/ SpawnEval(j) \/ EvalFinished(j) \/ EvalDown(j)
              \/ ProxyExit(j) \/ Record(j) \/ TellSubscribers(j)
              \/ RetryTerminal(j) \/ CallTimesOut(j) \/ Capture(j)
              \/ Cancel(j) \/ Kill(j) \/ ProxyDies(j)
    BY <1>7, <1>10
       DEF ArmReaper, SpawnEval, EvalFinished, EvalDown, ProxyExit, Record,
           TellSubscribers, RetryTerminal, CallTimesOut, Capture, Cancel,
           Kill, ProxyDies
  <1>. QED  BY <1>1, <1>2, <1>3, <1>4, <1>5, <1>6, <1>8, <1>9, <1>10
            DEF JobStep

\* An await does not touch a reply that has been rendered, and renders none.
LEMMA RepliesStay ==
    ASSUME CallInv, NEW k \in JobIds,
           CallStep \/ \E c \in Cells, j \in JobIds : AwaitCall(c, j)
    PROVE  /\ at'[k] = "sending" <=> at[k] = "sending"
           /\ at[k] = "sending" => ans'[k] = ans[k]
  <1>. DEFINE Kept == /\ at'[k] = "sending" <=> at[k] = "sending"
                      /\ at[k] = "sending" => ans'[k] = ans[k]
  <1>. DOMAIN at = Callers /\ DOMAIN ans = Callers /\ k \in Callers
    BY DEF CallInv, CallTypes, Callers
  <1>1. ASSUME NEW x \in Callers, TakeFinished(x) \/ SeeDown(x) \/ Poll(x)
               \/ CallerExits(x) \/ GiveUp(x)
        PROVE  Kept
    <2>1. /\ at[x] # "sending" /\ at'[x] # "sending"
          /\ \A y \in Callers \ {x} : at'[y] = at[y] /\ ans'[y] = ans[y]
      BY <1>1 DEF TakeFinished, SeeDown, Poll, CallerExits, GiveUp, Returned
    <2>. QED  BY <2>1
  <1>2. ASSUME NEW x \in Callers, NEW j \in JobIds, HandleSubscribe(x, j)
        PROVE  Kept
    BY <1>2 DEF HandleSubscribe, StillCalling, Returned
  <1>3. ASSUME NEW x \in Callers, NEW j \in JobIds, HandleUnsubscribe(x, j)
        PROVE  Kept
    BY <1>3 DEF HandleUnsubscribe
  <1>4. ASSUME NEW j \in JobIds, ReadSummary(j) PROVE Kept
    BY <1>4 DEF ReadSummary, Callers
  <1>5. ASSUME NEW c \in Cells, NEW j \in JobIds, AwaitCall(c, j) PROVE Kept
    BY <1>5 DEF AwaitCall, Callers
  <1>. QED  BY <1>1, <1>2, <1>3, <1>4, <1>5 DEF CallStep, Caller

LEMMA CallersTell ==
    ASSUME IInv, CallInv, TellInv,
           CallStep \/ \E c \in Cells, j \in JobIds : AwaitCall(c, j)
    PROVE  TellInv'
  <1>1. UNCHANGED <<outbox, said, quiet, row, conn, cut, drops>>
    BY CallersStandAside
       DEF AwaitCall, coreVars, jobVars, ledgerVars, noteVars, bounds
  <1>2. ASSUME NEW k \in JobIds PROVE Told(k)'
    BY <1>1, RepliesStay, StaysTold DEF TellInv, IInv, CoreTypes
  <1>. QED  BY <1>1, <1>2 DEF TellInv, Cuts

LEMMA NotifierCuts ==
    ASSUME CoreTypes, Cuts, Notifier \/ Connect \/ Disconnect
    PROVE  Cuts'
  <1>. drops \in Nat
    BY DEF CoreTypes
  <1>1. CASE Disconnect
    <2>1. drops' = drops + 1
      BY <1>1 DEF Disconnect
    <2>. QED  BY <2>1 DEF Cuts
  <1>2. CASE Notifier \/ Connect
    <2>1. /\ cut' = cut /\ drops' = drops
          /\ conn' = "dead" => conn = "dead"
      BY <1>2 DEF Notifier, FlushPending, Register, RegisterCrashes,
                  TransportDown, Connect, bounds
    <2>. QED  BY <2>1 DEF Cuts
  <1>. QED  BY <1>1, <1>2

LEMMA TellInvStep ==
    ASSUME IInv, CallInv, TellInv, [Next]_vars
    PROVE  TellInv'
  <1>. CoreTypes
    BY DEF IInv
  <1>1. CASE Notifier \/ Connect \/ Disconnect
    <2>1. ASSUME NEW k \in JobIds PROVE Told(k)'
      <3>1. Telling(k) /\ Told(k) /\ Cuts /\ drops \in Nat
        BY <1>1, NotifierTells DEF TellInv, CoreTypes
      <3>2. UNCHANGED <<at, ans, quiet, row>>
        BY <3>1 DEF Telling, jobVars, callVars
      <3>3. CASE outbox'[k] = outbox[k]
        BY <3>1, <3>2, <3>3, StaysTold DEF Telling
      <3>4. CASE outbox'[k] # outbox[k]
        <4>1. "channel" \in said'[k] \/ (conn = "dead" /\ "dead" \in said'[k])
          BY <3>1, <3>4 DEF Telling
        <4>2. CASE "channel" \in said'[k]
          BY <4>2 DEF Told, Delivered
        <4>3. CASE conn = "dead" /\ "dead" \in said'[k]
          <5>1. drops' > 0
            BY <3>1, <4>3 DEF Telling, Cuts
          <5>. QED  BY <4>3, <5>1 DEF Told, ToldToNobody
        <4>. QED  BY <4>1, <4>2, <4>3
      <3>. QED  BY <3>3, <3>4
    <2>. QED  BY <1>1, <2>1, NotifierCuts DEF TellInv
  <1>2. CASE UNCHANGED vars
    BY <1>2 DEF vars, jobVars, parkVars, outVars, ledgerVars, noteVars, callVars,
       bounds, TellInv, Cuts, Told, Delivered, Carried, CarriesResult,
       ToldToNobody
  <1>. QED  BY <1>1, <1>2, StepKinds, JobStepTells, CallersTell

LEMMA TellInvInit == Init => TellInv
  BY DEF Init, TellInv, Cuts, Told

\* An announcement is suppressed only for a finish that was told or is about
\* to be, or that is no news, whatever the ledger loses, whoever is killed
\* and whichever of the notifier and the exec reply gets there first; what
\* was told to nobody was told to a transport that died.
THEOREM SuppressionHolds == Spec => []SuppressionIsEarned
  <1>1. TellInv => SuppressionIsEarned
    BY DEF TellInv, Told, SuppressionIsEarned
  <1>2. IInv /\ CallInv /\ TellInv /\ [Next]_vars => (IInv /\ CallInv /\ TellInv)'
    BY InvStep, CallInvStep, TellInvStep DEF IInv
  <1>3. Init => IInv /\ CallInv /\ TellInv
    BY InvInit, CallInvInit, TellInvInit
  <1>. QED  BY <1>1, <1>2, <1>3, PTL DEF Spec

=============================================================================
