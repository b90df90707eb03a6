--------------------------- MODULE JobsRefinement ---------------------------
(***************************************************************************)
(* Jobs implements JobLife: the initial state maps to the initial state,   *)
(* and each step to a step of a job's life or to none.                     *)
(***************************************************************************)
EXTENDS JobsProofs

\* The handler that started a job asks that job and no other, hears only of
\* that job's end, and has a result in hand only when there is one.
AsksOwn(x) ==
    /\ target[x] = x
    /\ \A j \in JobIds \ {x} : mail[x][j] = <<>> /\ x \notin subs[j]
HearsOwn(x) == box[x] # <<>> => status[x] # "running"
HoldsOwn(x) == at[x] = "replying" /\ ans[x].status # "running" =>
                 status[x] # "running" \/ row[x] \in Terminal

\* The handler of a job that is yet to be started has nothing to send.
StartsIdle(x) == ctl[x] = "none" => at[x] = "idle"

OwnInv == \A x \in JobIds : AsksOwn(x) /\ HearsOwn(x) /\ HoldsOwn(x)
IdleInv == \A x \in JobIds : StartsIdle(x)

FullInv == IInv /\ CallInv /\ OwnInv /\ IdleInv

-----------------------------------------------------------------------------
(* What a handler knows                                                    *)

\* A job that has ended stays ended.
LEMMA EndsStay ==
    ASSUME IInv, [Next]_vars, NEW k \in JobIds, status[k] # "running"
    PROVE  status'[k] # "running"
  <1>. CoreTypes
    BY DEF IInv
  <1>1. ASSUME NEW j \in JobIds, JobStep(j) PROVE status'[k] # "running"
    <2>1. CASE EvalFinished(j) \/ EvalDown(j) \/ Cancel(j) \/ ProxyExit(j)
      BY <2>1 DEF EvalFinished, EvalDown, Cancel, ProxyExit, BeginFinish,
                  CoreTypes
    <2>2. CASE Start(j) \/ ArmReaper(j) \/ SpawnEval(j) \/ Record(j)
               \/ TellSubscribers(j) \/ RetryTerminal(j) \/ CallTimesOut(j)
               \/ SendReply(j) \/ Capture(j) \/ Quiet(j) \/ Kill(j)
               \/ ProxyDies(j)
      BY <2>2 DEF Start, ArmReaper, SpawnEval, Record, TellSubscribers,
                  RetryTerminal, CallTimesOut, SendReply, Capture, Quiet, Kill,
                  ProxyDies, jobVars
    <2>3. ASSUME NEW o \in Calls, FlushFinal(j, o) \/ FlushTick(j, o)
                 \/ Reply(j, o)
          PROVE  UNCHANGED status
      BY <2>3 DEF FlushFinal, FlushTick, Reply, jobVars
    <2>4. ASSUME NEW o \in Writes, Ledger(j, o) \/ Finalize(j, o)
          PROVE  UNCHANGED status
      BY <2>4 DEF Ledger, Finalize, jobVars
    <2>5. ASSUME NEW how \in {"done", "failed", "crashed"}, EvalEnds(j, how)
          PROVE  UNCHANGED status
      BY <2>5 DEF EvalEnds
    <2>. QED  BY <1>1, <2>1, <2>2, <2>3, <2>4, <2>5 DEF JobStep, Writes
  <1>2. CASE Notifier \/ Connect \/ Disconnect
    BY <1>2, NotifierTells DEF Telling, jobVars
  <1>3. CASE UNCHANGED coreVars \/ UNCHANGED vars
    BY <1>3 DEF coreVars, vars, jobVars
  <1>4. CASE \E c \in Cells, j \in JobIds : AwaitCall(c, j)
    BY <1>4 DEF AwaitCall, jobVars
  <1>. QED  BY <1>1, <1>2, <1>3, <1>4, StepKinds, CallersStandAside

\* The finality of the ledger, for one step.
LEMMA ClosedStays ==
    ASSUME IInv, [Next]_vars, NEW k \in JobIds, row[k] \in Terminal
    PROVE  row'[k] \in Terminal
  <1>. CoreTypes
    BY DEF IInv
  <1>1. CASE \E j \in JobIds : JobStep(j)
    BY <1>1, JobStepIsFinal
  <1>2. CASE Notifier \/ Connect \/ Disconnect
    BY <1>2, NotifierTells DEF Telling
  <1>3. CASE UNCHANGED coreVars \/ UNCHANGED vars
    BY <1>3 DEF coreVars, vars, ledgerVars
  <1>4. CASE \E c \in Cells, j \in JobIds : AwaitCall(c, j)
    BY <1>4 DEF AwaitCall, ledgerVars
  <1>. QED  BY <1>1, <1>2, <1>3, <1>4, StepKinds, CallersStandAside

\* What of a caller's state is untouched is still true.
LEMMA OwnUntouched ==
    ASSUME FullInv, [Next]_vars, NEW x \in JobIds,
           UNCHANGED <<target, mail, subs, box>>,
           at'[x] = "replying" => at[x] = "replying" /\ ans'[x] = ans[x]
    PROVE  (AsksOwn(x) /\ HearsOwn(x) /\ HoldsOwn(x))'
  BY EndsStay, ClosedStays DEF FullInv, OwnInv, AsksOwn, HearsOwn, HoldsOwn

\* A step of a job keeps what the handlers know.
LEMMA JobStepOwn ==
    ASSUME FullInv, [Next]_vars, NEW j \in JobIds, JobStep(j),
           NEW x \in JobIds
    PROVE  (AsksOwn(x) /\ HearsOwn(x) /\ HoldsOwn(x))'
  <1>. USE DEF callVars, jobVars
  <1>x. x \in Callers /\ j \in Callers /\ CoreTypes /\ CallTypes
    BY DEF FullInv, IInv, CallInv, Callers
  <1>y. AsksOwn(x) /\ HearsOwn(x) /\ HoldsOwn(x)
    BY DEF FullInv, OwnInv
  <1>z. /\ status[x] # "running" => status'[x] # "running"
        /\ row[x] \in Terminal => row'[x] \in Terminal
    BY EndsStay, ClosedStays DEF FullInv
  <1>1. CASE Start(j)
    <2>1. /\ at' = [at EXCEPT ![j] = "calling"]
          /\ mail' = [mail EXCEPT ![j][j] = <<"subscribe">>]
          /\ UNCHANGED <<target, subs, box, ans>>
      BY <1>1 DEF Start
    <2>2. AsksOwn(x)'
      BY <1>x, <1>y, <2>1 DEF AsksOwn, CallTypes
    <2>3. (HearsOwn(x) /\ HoldsOwn(x))'
      BY <1>x, <1>y, <1>z, <2>1 DEF HearsOwn, HoldsOwn, CallTypes
    <2>. QED  BY <2>2, <2>3
  <1>2. CASE TellSubscribers(j)
    <2>1. /\ box' = [y \in Callers |-> IF y \in subs[j]
               THEN Append(box[y], Final(j, status[j])) ELSE box[y]]
          /\ subs' = [subs EXCEPT ![j] = {}]
          /\ ctl[j] = "notify"
          /\ UNCHANGED <<status, at, target, mail, ans>>
      BY <1>2 DEF TellSubscribers
    <2>2. status[j] # "running"
      BY <2>1 DEF FullInv, IInv, JobInv, LifeInv, Finishing
    <2>3. x \in subs[j] => x = j
      BY <1>y DEF AsksOwn
    <2>4. HearsOwn(x)'
      BY <1>x, <1>y, <2>1, <2>2, <2>3 DEF HearsOwn
    <2>5. AsksOwn(x)'
      BY <1>x, <1>y, <2>1 DEF AsksOwn, CallTypes
    <2>6. HoldsOwn(x)'
      BY <1>y, <1>z, <2>1 DEF HoldsOwn
    <2>. QED  BY <2>4, <2>5, <2>6
  <1>3. CASE Kill(j)
    <2>1. /\ mail' = [y \in Callers |-> [mail[y] EXCEPT ![j] = <<>>]]
          /\ subs' = [subs EXCEPT ![j] = {}]
          /\ UNCHANGED <<at, target, box, ans>>
      BY <1>3 DEF Kill
    <2>2. AsksOwn(x)'
      BY <1>x, <1>y, <2>1 DEF AsksOwn, CallTypes
    <2>3. (HearsOwn(x) /\ HoldsOwn(x))'
      BY <1>y, <1>z, <2>1 DEF HearsOwn, HoldsOwn
    <2>. QED  BY <2>2, <2>3
  <1>4. ASSUME NEW o \in Calls, Reply(j, o)
        PROVE  (AsksOwn(x) /\ HearsOwn(x) /\ HoldsOwn(x))'
    <2>1. /\ at' = [at EXCEPT ![j] = "sending"]
          /\ UNCHANGED <<target, mail, subs, box, ans>>
      BY <1>4 DEF Reply
    <2>2. at'[x] = "replying" => at[x] = "replying" /\ ans'[x] = ans[x]
      BY <1>x, <2>1 DEF CallTypes
    <2>. QED  BY <2>1, <2>2, OwnUntouched
  <1>5. CASE SendReply(j)
    <2>1. /\ at' = [at EXCEPT ![j] = "replied"]
          /\ ans' = [ans EXCEPT ![j] = None]
          /\ UNCHANGED <<target, mail, subs, box>>
      BY <1>5 DEF SendReply
    <2>2. at'[x] = "replying" => at[x] = "replying" /\ ans'[x] = ans[x]
      BY <1>x, <2>1 DEF CallTypes
    <2>. QED  BY <2>1, <2>2, OwnUntouched
  <1>6. ASSUME NEW o \in Calls, FlushFinal(j, o) \/ FlushTick(j, o)
        PROVE  UNCHANGED <<subs, callVars>>
    BY <1>6 DEF FlushFinal, FlushTick
  <1>7. ASSUME NEW o \in Writes, Ledger(j, o) \/ Finalize(j, o)
        PROVE  UNCHANGED <<subs, callVars>>
    BY <1>7 DEF Ledger, Finalize
  <1>8. ASSUME NEW how \in {"done", "failed", "crashed"}, EvalEnds(j, how)
        PROVE  UNCHANGED <<subs, callVars>>
    BY <1>8 DEF EvalEnds
  <1>9. ASSUME ArmReaper(j) \/ SpawnEval(j) \/ EvalFinished(j) \/ EvalDown(j)
               \/ ProxyExit(j) \/ Record(j) \/ RetryTerminal(j)
               \/ CallTimesOut(j) \/ Capture(j) \/ Quiet(j) \/ Cancel(j)
               \/ ProxyDies(j)
        PROVE  UNCHANGED <<subs, callVars>>
    BY <1>9 DEF ArmReaper, SpawnEval, EvalFinished, EvalDown, ProxyExit,
                Record, RetryTerminal, CallTimesOut, Capture, Quiet, Cancel,
                ProxyDies
  <1>10. CASE UNCHANGED <<subs, callVars>>
    BY <1>10, OwnUntouched
  <1>. QED  BY <1>1, <1>2, <1>3, <1>4, <1>5, <1>6, <1>7, <1>8, <1>9, <1>10
            DEF JobStep, Writes

\* So does a step of an await, the handler's own or another's.
LEMMA CallStepOwn ==
    ASSUME FullInv, [Next]_vars, CallStep, NEW x \in JobIds
    PROVE  (AsksOwn(x) /\ HearsOwn(x) /\ HoldsOwn(x))'
  <1>. USE DEF callVars, jobVars
  <1>x. x \in Callers /\ CoreTypes /\ CallTypes /\ HasTarget
    BY DEF FullInv, IInv, CallInv, Callers
  <1>y. AsksOwn(x) /\ HearsOwn(x) /\ HoldsOwn(x)
    BY DEF FullInv, OwnInv
  <1>z. /\ status[x] # "running" => status'[x] # "running"
        /\ row[x] \in Terminal => row'[x] \in Terminal
        /\ UNCHANGED <<status, row, ctl>>
    BY EndsStay, ClosedStays, CallersStandAside
       DEF FullInv, coreVars, ledgerVars
  <1>1. ASSUME NEW j \in JobIds, ReadSummary(j)
        PROVE  (AsksOwn(x) /\ HearsOwn(x) /\ HoldsOwn(x))'
    <2>. DEFINE st == IF ctl[j] = "dead" THEN row[j] ELSE status[j]
    <2>1. /\ at' = [at EXCEPT ![j] = IF st = "none" THEN "crashed" ELSE "replying"]
          /\ ans' = [ans EXCEPT ![j] = IF st = "none" THEN @ ELSE Final(j, st)]
          /\ UNCHANGED <<target, mail, subs, box>>
      BY <1>1 DEF ReadSummary
    <2>2. CASE j # x
      <3>1. at'[x] = at[x] /\ ans'[x] = ans[x]
        BY <1>x, <2>1, <2>2 DEF CallTypes
      <3>. QED  BY <2>1, <3>1, OwnUntouched
    <2>3. CASE j = x
      <3>1. st \notin {"none", "running"} =>
              status[x] # "running" \/ row[x] \in Terminal
        BY <1>x, <2>3 DEF CoreTypes, Status
      <3>. HIDE DEF st
      <3>2. HoldsOwn(x)'
        BY <1>x, <1>z, <2>1, <2>3, <3>1 DEF HoldsOwn, CallTypes, Final
      <3>3. (AsksOwn(x) /\ HearsOwn(x))'
        BY <1>y, <1>z, <2>1 DEF AsksOwn, HearsOwn
      <3>. QED  BY <3>2, <3>3
    <2>. QED  BY <2>2, <2>3
  <1>2. ASSUME NEW y \in Callers, TakeFinished(y)
        PROVE  (AsksOwn(x) /\ HearsOwn(x) /\ HoldsOwn(x))'
    <2>1. /\ ans' = [ans EXCEPT ![y] = Head(box[y])]
          /\ box' = [box EXCEPT ![y] = Tail(box[y])]
          /\ at' = [at EXCEPT ![y] = Returned(y)]
          /\ box[y] # <<>>
          /\ UNCHANGED <<target, mail, subs>>
      BY <1>2 DEF TakeFinished
    <2>2. AsksOwn(x)'
      BY <1>y, <2>1 DEF AsksOwn
    <2>3. (HearsOwn(x) /\ HoldsOwn(x))'
      <3>1. CASE y = x
        BY <1>x, <1>y, <1>z, <2>1, <3>1 DEF HearsOwn, HoldsOwn
      <3>2. CASE y # x
        BY <1>x, <1>y, <1>z, <2>1, <3>2 DEF HearsOwn, HoldsOwn, CallTypes
      <3>. QED  BY <3>1, <3>2
    <2>. QED  BY <2>2, <2>3
  <1>3. ASSUME NEW y \in Callers, SeeDown(y) \/ CallerExits(y)
        PROVE  (AsksOwn(x) /\ HearsOwn(x) /\ HoldsOwn(x))'
    <2>1. /\ at' = [at EXCEPT ![y] = "polling"] \/ at' = [at EXCEPT ![y] = "crashed"]
          /\ UNCHANGED <<target, mail, subs, box, ans>>
      BY <1>3 DEF SeeDown, CallerExits
    <2>2. at'[x] = "replying" => at[x] = "replying" /\ ans'[x] = ans[x]
      BY <1>x, <2>1 DEF CallTypes
    <2>. QED  BY <2>1, <2>2, OwnUntouched
  <1>4. ASSUME NEW y \in Callers, Poll(y)
        PROVE  (AsksOwn(x) /\ HearsOwn(x) /\ HoldsOwn(x))'
    <2>1. /\ at' = [at EXCEPT ![y] = IF row[target[y]] = "none" THEN "crashed"
                                                              ELSE Returned(y)]
          /\ ans' = [ans EXCEPT ![y] = IF row[target[y]] = "none" THEN @
                                       ELSE Final(target[y], row[target[y]])]
          /\ UNCHANGED <<target, mail, subs, box>>
      BY <1>4 DEF Poll
    <2>2. CASE y # x
      <3>1. at'[x] = at[x] /\ ans'[x] = ans[x]
        BY <1>x, <2>1, <2>2 DEF CallTypes
      <3>. QED  BY <2>1, <3>1, OwnUntouched
    <2>3. CASE y = x
      <3>1. target[x] = x /\ row[x] \in Terminal \cup {"running", "none"}
        BY <1>x, <1>y DEF AsksOwn, CoreTypes, Status
      <3>2. /\ row[x] = "none" => at'[x] = "crashed"
            /\ row[x] # "none" => ans'[x] = Final(x, row[x])
        BY <1>x, <2>1, <2>3, <3>1 DEF CallTypes
      <3>3. HoldsOwn(x)'
        BY <1>z, <3>1, <3>2 DEF HoldsOwn, Final
      <3>4. (AsksOwn(x) /\ HearsOwn(x))'
        BY <1>y, <1>z, <2>1 DEF AsksOwn, HearsOwn
      <3>. QED  BY <3>3, <3>4
    <2>. QED  BY <2>2, <2>3
  <1>5. ASSUME NEW y \in Callers, NEW j \in JobIds, HandleSubscribe(y, j)
        PROVE  (AsksOwn(x) /\ HearsOwn(x) /\ HoldsOwn(x))'
    <2>1. /\ mail' = [mail EXCEPT ![y][j] = Tail(mail[y][j])]
          /\ mail[y][j] # <<>>
          /\ subs' \in {subs, [subs EXCEPT ![j] = @ \cup {y}]}
          /\ UNCHANGED <<target, box>>
      BY <1>5 DEF HandleSubscribe
    <2>2. y = x => j = x
      BY <1>y, <2>1 DEF AsksOwn
    <2>3. AsksOwn(x)'
      BY <1>x, <1>y, <2>1, <2>2 DEF AsksOwn, CallTypes
    <2>4. \/ at'[x] # "replying"
          \/ at'[x] = at[x] /\ ans'[x] = ans[x]
          \/ status[x] # "running"
      <3>1. CASE y # x
        <4>1. at'[x] = at[x] /\ ans'[x] = ans[x]
          BY <1>5, <1>x, <3>1 DEF HandleSubscribe, CallTypes
        <4>. QED  BY <4>1
      <3>2. CASE y = x /\ status[x] = "running"
        <4>1. /\ at' = [at EXCEPT ![x] = IF StillCalling(x, x) THEN "waiting"
                                                              ELSE @]
              /\ ans' = ans
          BY <1>5, <2>2, <3>2 DEF HandleSubscribe
        <4>. QED  BY <1>x, <4>1 DEF CallTypes
      <3>. QED  BY <3>1, <3>2
    <2>5. (HearsOwn(x) /\ HoldsOwn(x))'
      BY <1>y, <1>z, <2>1, <2>4 DEF HearsOwn, HoldsOwn
    <2>. QED  BY <2>3, <2>5
  <1>6. ASSUME NEW y \in Callers, NEW j \in JobIds, HandleUnsubscribe(y, j)
        PROVE  (AsksOwn(x) /\ HearsOwn(x) /\ HoldsOwn(x))'
    <2>1. /\ mail' = [mail EXCEPT ![y][j] = Tail(mail[y][j])]
          /\ mail[y][j] # <<>>
          /\ subs' = [subs EXCEPT ![j] = @ \ {y}]
          /\ UNCHANGED <<at, target, box, ans>>
      BY <1>6 DEF HandleUnsubscribe
    <2>2. y = x => j = x
      BY <1>y, <2>1 DEF AsksOwn
    <2>3. AsksOwn(x)'
      BY <1>x, <1>y, <2>1, <2>2 DEF AsksOwn, CallTypes
    <2>4. (HearsOwn(x) /\ HoldsOwn(x))'
      BY <1>y, <1>z, <2>1 DEF HearsOwn, HoldsOwn
    <2>. QED  BY <2>3, <2>4
  <1>7. ASSUME NEW y \in Callers, GiveUp(y)
        PROVE  (AsksOwn(x) /\ HearsOwn(x) /\ HoldsOwn(x))'
    <2>. DEFINE q == IF ctl[target[y]] = "dead" THEN mail[y][target[y]]
                     ELSE Append(mail[y][target[y]], "unsubscribe")
    <2>1. /\ mail' = [mail EXCEPT ![y][target[y]] = q]
          /\ UNCHANGED <<target, subs>>
      BY <1>7 DEF GiveUp
    <2>. HIDE DEF q
    <2>2. target[y] \in JobIds
      BY <1>7, <1>x DEF GiveUp, HasTarget
    <2>3. AsksOwn(x)'
      BY <1>x, <1>y, <2>1, <2>2 DEF AsksOwn, CallTypes
    <2>4. (HearsOwn(x) /\ HoldsOwn(x))'
      <3>1. CASE y # x
        <4>1. at'[x] = at[x] /\ ans'[x] = ans[x] /\ box'[x] = box[x]
          BY <1>7, <1>x, <3>1 DEF GiveUp, CallTypes
        <4>. QED  BY <1>y, <1>z, <4>1 DEF HearsOwn, HoldsOwn
      <3>2. CASE y = x /\ box[x] # <<>>
        BY <1>y, <1>z, <3>2 DEF HearsOwn, HoldsOwn
      <3>3. CASE y = x /\ box[x] = <<>>
        <4>1. at'[x] = "reading" /\ box'[x] = <<>>
          BY <1>7, <1>x, <3>3 DEF GiveUp, CallTypes
        <4>. QED  BY <4>1 DEF HearsOwn, HoldsOwn
      <3>. QED  BY <3>1, <3>2, <3>3
    <2>. QED  BY <2>3, <2>4
  <1>. QED  BY <1>1, <1>2, <1>3, <1>4, <1>5, <1>6, <1>7 DEF CallStep, Caller

\* Only Start takes the handler of an unborn job anywhere.
LEMMA IdleStep ==
    ASSUME FullInv, [Next]_vars, NEW x \in JobIds
    PROVE  StartsIdle(x)'
  <1>. USE DEF callVars, jobVars
  <1>x. /\ x \in Callers /\ CoreTypes /\ CallTypes /\ StartsIdle(x)
        /\ DOMAIN at = Callers /\ DOMAIN ctl = JobIds
    BY DEF FullInv, IInv, CallInv, CoreTypes, CallTypes, IdleInv, Callers
  <1>1. ASSUME NEW j \in JobIds, JobStep(j)
        PROVE  ctl'[x] = "none" => ctl[x] = "none" /\ at'[x] = at[x]
    <2>1. CASE Start(j)
      BY <1>x, <2>1 DEF Start
    <2>2. ASSUME NEW o \in Calls, Reply(j, o)
          PROVE  ctl' = ctl /\ (at[x] = "idle" => at'[x] = "idle")
      BY <1>x, <2>2 DEF Reply
    <2>3. CASE SendReply(j)
      <3>1. ctl' = ctl /\ (at[x] = "idle" => at'[x] = "idle")
        BY <1>x, <2>3 DEF SendReply
      <3>. QED  BY <1>x, <3>1 DEF StartsIdle
    <2>4. CASE UNCHANGED at /\ (ctl'[x] = "none" => ctl[x] = "none")
      BY <2>4
    <2>5. CASE ArmReaper(j) \/ SpawnEval(j) \/ EvalFinished(j) \/ EvalDown(j)
               \/ ProxyExit(j) \/ Record(j) \/ TellSubscribers(j)
               \/ RetryTerminal(j) \/ CallTimesOut(j) \/ Capture(j) \/ Quiet(j)
               \/ Cancel(j) \/ Kill(j) \/ ProxyDies(j)
      BY <1>x, <2>4, <2>5
         DEF ArmReaper, SpawnEval, EvalFinished, EvalDown, ProxyExit, Record,
             TellSubscribers, RetryTerminal, CallTimesOut, Capture, Quiet,
             Cancel, Kill, ProxyDies, BeginFinish
    <2>6. ASSUME NEW o \in Calls, FlushFinal(j, o) \/ FlushTick(j, o)
          PROVE  UNCHANGED at /\ (ctl'[x] = "none" => ctl[x] = "none")
      BY <1>x, <2>6 DEF FlushFinal, FlushTick
    <2>7. ASSUME NEW o \in Writes, Ledger(j, o) \/ Finalize(j, o)
          PROVE  UNCHANGED <<at, ctl>>
      BY <2>7 DEF Ledger, Finalize
    <2>8. ASSUME NEW how \in {"done", "failed", "crashed"}, EvalEnds(j, how)
          PROVE  UNCHANGED <<at, ctl>>
      BY <2>8 DEF EvalEnds
    <2>9. ASSUME NEW o \in Calls, Reply(j, o)
          PROVE  ctl'[x] = "none" => ctl[x] = "none" /\ at'[x] = at[x]
      BY <1>x, <2>2, <2>9 DEF StartsIdle
    <2>. QED  BY <1>1, <2>1, <2>3, <2>4, <2>5, <2>6, <2>7, <2>8, <2>9
              DEF JobStep, Writes
  <1>2. CASE Notifier \/ Connect \/ Disconnect
    BY <1>2, <1>x, NotifierTells DEF Telling, StartsIdle
  <1>3. CASE CallStep
    <2>1. at[x] = "idle" => at'[x] = "idle"
      BY <1>3, <1>x DEF CallStep, Caller, ReadSummary, TakeFinished, SeeDown,
         Poll, CallerExits, HandleSubscribe, HandleUnsubscribe, GiveUp,
         StillCalling
    <2>. QED  BY <1>3, <1>x, <2>1, CallersStandAside DEF coreVars, StartsIdle
  <1>4. ASSUME NEW c \in Cells, NEW j \in JobIds, AwaitCall(c, j)
        PROVE  UNCHANGED ctl /\ at'[x] = at[x]
    BY <1>4, <1>x, NamesAssumption DEF AwaitCall
  <1>5. CASE UNCHANGED vars
    BY <1>5, <1>x DEF vars, StartsIdle
  <1>. QED  BY <1>1, <1>2, <1>3, <1>4, <1>5, <1>x, StepKinds DEF StartsIdle

LEMMA FullInvStep ==
    ASSUME FullInv, [Next]_vars
    PROVE  FullInv'
  <1>1. ASSUME NEW x \in JobIds
        PROVE  (AsksOwn(x) /\ HearsOwn(x) /\ HoldsOwn(x))'
    <2>. USE DEF callVars, jobVars
    <2>1. CASE \E j \in JobIds : JobStep(j)
      BY <2>1, JobStepOwn
    <2>2. CASE Notifier \/ Connect \/ Disconnect
      <3>1. UNCHANGED <<subs, callVars>>
        BY <2>2 DEF Notifier, FlushPending, Register, RegisterCrashes,
                    TransportDown, Connect, Disconnect
      <3>. QED  BY <3>1, OwnUntouched
    <2>3. CASE CallStep
      BY <2>3, CallStepOwn
    <2>4. ASSUME NEW c \in Cells, NEW j \in JobIds, AwaitCall(c, j)
          PROVE  (AsksOwn(x) /\ HearsOwn(x) /\ HoldsOwn(x))'
      <3>1. /\ at' = [at EXCEPT ![c] = "calling"]
            /\ target' = [target EXCEPT ![c] = j]
            /\ mail' = [mail EXCEPT ![c][j] = Append(mail[c][j], "subscribe")]
            /\ UNCHANGED <<subs, status, row, box, ans>>
        BY <2>4 DEF AwaitCall, ledgerVars
      <3>2. x # c /\ x \in Callers /\ c \in Callers /\ CallTypes
        BY NamesAssumption DEF FullInv, CallInv, Callers
      <3>3. at'[x] = at[x] /\ target'[x] = target[x] /\ mail'[x] = mail[x]
        BY <3>1, <3>2 DEF CallTypes
      <3>. QED  BY <3>1, <3>3 DEF FullInv, OwnInv, AsksOwn, HearsOwn, HoldsOwn
    <2>5. CASE UNCHANGED vars
      BY <2>5, OwnUntouched DEF vars
    <2>. QED  BY <2>1, <2>2, <2>3, <2>4, <2>5, StepKinds
  <1>. QED  BY <1>1, InvStep, CallInvStep, IdleStep
            DEF FullInv, OwnInv, IdleInv, IInv

LEMMA FullInvInit == Init => FullInv
  BY InvInit, CallInvInit
     DEF Init, FullInv, OwnInv, AsksOwn, HearsOwn, HoldsOwn, IdleInv, StartsIdle,
         Callers

-----------------------------------------------------------------------------
(* The steps                                                               *)

lifeView == <<ends, ctl, row, outbox, said, at, ans>>

\* What the life of a job does not show.
LEMMA Unseen ==
    ASSUME UNCHANGED lifeView
    PROVE  UNCHANGED Life!vars
  BY DEF lifeView, Life!vars, Dead, Replies, Carried, CarriesResult

\* The processes move on without an end, a death or a rendered reply.
LEMMA Moves ==
    ASSUME UNCHANGED <<ends, row, outbox, said>>,
           \A k \in JobIds : /\ ctl[k] = "dead" <=> ctl'[k] = "dead"
                             /\ at[k] = "sending" <=> at'[k] = "sending"
                             /\ at[k] = "sending" => ans'[k] = ans[k]
    PROVE  UNCHANGED Life!vars
  <1>1. Dead' = Dead
    BY DEF Dead
  <1>2. Replies' = Replies
    BY DEF Replies, Carried, CarriesResult
  <1>. QED  BY <1>1, <1>2 DEF Life!vars

\* finish/4 up to its first ledger call: the job comes to an end.
LEMMA FinishEnds ==
    ASSUME CoreTypes, NEW j \in JobIds, NEW st \in Terminal,
           ctl[j] = "serving", BeginFinish(j, st),
           UNCHANGED <<row, outbox, said, at, ans>>
    PROVE  Life!End(j, st)
  <1>1. Dead' = Dead /\ j \notin Dead
    BY DEF BeginFinish, Dead, CoreTypes
  <1>2. ends' = [ends EXCEPT ![j] = @ \cup {st}]
    BY DEF BeginFinish
  <1>3. Replies' = Replies
    BY DEF Replies, Carried, CarriesResult
  <1>. QED  BY <1>1, <1>2, <1>3 DEF Life!End

\* The write of finish_job closes the record, or finds it closed.
LEMMA FinishCloses ==
    ASSUME CoreTypes, NEW j \in JobIds, NEW st \in Terminal,
           NEW isQuiet \in BOOLEAN, FinishJob(j, st, isQuiet),
           \/ st \in ends[j]
           \/ ctl[j] = "dead" /\ st = "killed" /\ ~isQuiet,
           UNCHANGED <<ends, Dead, said, Replies>>
    PROVE  \/ \E silent \in BOOLEAN : Life!Close(j, st, silent)
           \/ UNCHANGED Life!vars
  <1>. DEFINE silent == BornAcked(st, isQuiet)
  <1>1. CASE Transitions(j)
    <2>1. /\ row' = [row EXCEPT ![j] = st]
          /\ outbox' = [outbox EXCEPT ![j] =
                IF silent THEN "acked" ELSE "unacked"]
      BY <1>1 DEF FinishJob
    <2>2. ~Life!Closed(j)
      BY <1>1 DEF Transitions, Life!Closed
    <2>3. \/ st \in ends[j] /\ (silent => st = "done")
          \/ j \in Dead /\ st = "killed" /\ ~silent
      BY DEF BornAcked, Dead
    <2>4. silent \in BOOLEAN
      BY DEF BornAcked
    <2>. HIDE DEF silent
    <2>5. Life!Close(j, st, silent)
      BY <2>1, <2>2, <2>3 DEF Life!Close
    <2>. QED  BY <2>4, <2>5
  <1>2. CASE ~Transitions(j)
    BY <1>2 DEF FinishJob, ledgerVars, Life!vars
  <1>. QED  BY <1>1, <1>2

\* The ledger opens or closes the record, whether the process that asked for
\* it lives or not, or does nothing that shows.
LEMMA LedgerLives ==
    ASSUME FullInv, NEW j \in JobIds, NEW o \in {"ok", "lost", "blip"},
           Ledger(j, o)
    PROVE  [Life!Next]_(Life!vars)
  <1>. DEFINE req == Head(inbox[j])
  <1>t. CoreTypes /\ ParkInv(j)
    BY DEF FullInv, IInv, JobInv
  <1>1. inbox[j] \in Seq({"start"} \cup Terminal) /\ inbox[j] # <<>>
    BY <1>t DEF Ledger, CoreTypes
  <1>2. /\ req \in {"start"} \cup Terminal
        /\ req = inbox[j][1] /\ Len(inbox[j]) \in Nat /\ Len(inbox[j]) >= 1
    BY <1>1, QueueOps, QueueParts
  <1>3. UNCHANGED <<ends, Dead, said, Replies>>
    BY DEF Ledger, jobVars, noteVars, callVars, Dead, Replies, Carried,
           CarriesResult
  <1>4. IF ~Committed(o) THEN UNCHANGED ledgerVars
        ELSE IF req = "start" THEN StartJob(j)
                              ELSE FinishJob(j, req, quiet[j])
    BY DEF Ledger
  <1>. HIDE DEF req
  <1>5. CASE UNCHANGED ledgerVars
    BY <1>3, <1>5 DEF ledgerVars, Life!vars
  <1>6. CASE StartJob(j)
    <2>1. CASE row[j] = "none"
      <3>1. row' = [row EXCEPT ![j] = "running"] /\ outbox' = outbox
        BY <1>6, <2>1 DEF StartJob
      <3>2. Life!Open(j)
        BY <1>3, <2>1, <3>1 DEF Life!Open
      <3>. QED  BY <3>2 DEF Life!Next
    <2>2. CASE row[j] # "none"
      <3>1. row' = row /\ outbox' = outbox
        BY <1>6, <1>t, <2>2 DEF StartJob, CoreTypes
      <3>. QED  BY <1>3, <3>1 DEF Life!vars
    <2>. QED  BY <2>1, <2>2
  <1>7. CASE req # "start" /\ FinishJob(j, req, quiet[j])
    <2>1. req \in Terminal /\ quiet[j] \in BOOLEAN
      BY <1>2, <1>7, <1>t DEF CoreTypes
    <2>2. Closing(j, 1)
      BY <1>2, <1>7 DEF Closing
    <2>3. req \in ends[j]
      BY <1>2, <1>t, <2>2 DEF ParkInv, Queued
    <2>4. \/ \E silent \in BOOLEAN : Life!Close(j, req, silent)
          \/ UNCHANGED Life!vars
      BY <1>3, <1>7, <1>t, <2>1, <2>3, FinishCloses
    <2>. QED  BY <2>1, <2>4 DEF Life!Next
  <1>. QED  BY <1>4, <1>5, <1>6, <1>7

\* deliver/3 and ack_all/1 tell what is still to be announced.
LEMMA AnnounceIsTell ==
    ASSUME CoreTypes, NEW rows \in SUBSET JobIds,
           NEW to \in {"channel", "dead"}, NEW read, NEW ack,
           Announce(rows, to, read, ack), UNCHANGED <<ends, ctl, row, at, ans>>
    PROVE  \E heard \in SUBSET JobIds, way \in {"channel", "dead"},
              marked \in BOOLEAN : Life!Tell(heard, way, marked)
  <1>. DEFINE live == IF read = "ok" THEN rows \cap Unacked ELSE {}
              marked == ack = "ok"
  <1>1. live \in SUBSET JobIds /\ \A j \in live : outbox[j] = "unacked"
    BY DEF Unacked
  <1>2. marked \in BOOLEAN
    OBVIOUS
  <1>3. /\ said' = [j \in JobIds |-> IF j \in live THEN said[j] \cup {to}
                                                  ELSE said[j]]
        /\ outbox' = [j \in JobIds |-> IF j \in live /\ marked
                                       THEN "acked" ELSE outbox[j]]
    BY DEF Announce
  <1>4. Dead' = Dead /\ Replies' = Replies
    BY DEF Dead, Replies, Carried, CarriesResult
  <1>. HIDE DEF live, marked
  <1>5. Life!Tell(live, to, marked)
    BY <1>1, <1>3, <1>4 DEF Life!Tell
  <1>. QED  BY <1>1, <1>2, <1>5

\* The exec handler puts a result into its reply only when there is one, and
\* hands over what it rendered.
LEMMA ReplyRenders ==
    ASSUME FullInv, NEW j \in JobIds, NEW o \in Calls, Reply(j, o)
    PROVE  [Life!Next]_(Life!vars)
  <1>t. /\ CoreTypes /\ Ended(j) /\ HoldsOwn(j) /\ j \in Callers
        /\ DOMAIN at = Callers
    BY DEF FullInv, IInv, JobInv, ParkInv, OwnInv, Callers, CallInv, CallTypes
  <1>1. /\ at[j] = "replying" /\ at' = [at EXCEPT ![j] = "sending"]
        /\ UNCHANGED <<ends, Dead, row, said, ans>>
    BY DEF Reply, jobVars, noteVars, Dead
  <1>2. \A k \in JobIds \ {j} : Carried(k)' <=> Carried(k)
    BY <1>1, <1>t DEF Carried, CarriesResult, Callers
  <1>3. ~Carried(j) /\ (Carried(j)' <=> CarriesResult(j))
    BY <1>1, <1>t DEF Carried, CarriesResult
  <1>4. CASE CarriesResult(j)
    <2>. DEFINE marked == o = "ok"
    <2>1. ends[j] # {} \/ Life!Closed(j)
      BY <1>1, <1>4, <1>t DEF HoldsOwn, Ended, CarriesResult, Life!Closed
    <2>2. outbox' = [outbox EXCEPT ![j] =
            IF marked /\ @ = "unacked" THEN "acked" ELSE @]
      BY <1>4 DEF Reply
    <2>3. Replies' = Replies \cup {j}
      BY <1>2, <1>3, <1>4 DEF Replies
    <2>4. marked \in BOOLEAN
      OBVIOUS
    <2>. HIDE DEF marked
    <2>5. Life!Render(j, marked)
      BY <1>1, <2>1, <2>2, <2>3 DEF Life!Render
    <2>. QED  BY <2>4, <2>5 DEF Life!Next
  <1>5. CASE ~CarriesResult(j)
    <2>1. outbox' = outbox
      BY <1>5 DEF Reply
    <2>2. Replies' = Replies
      BY <1>2, <1>3, <1>5 DEF Replies
    <2>. QED  BY <1>1, <2>1, <2>2 DEF Life!vars
  <1>. QED  BY <1>4, <1>5

LEMMA SendReplyHands ==
    ASSUME FullInv, NEW j \in JobIds, SendReply(j)
    PROVE  [Life!Next]_(Life!vars)
  <1>t. CoreTypes /\ j \in Callers /\ DOMAIN at = Callers /\ DOMAIN ans = Callers
    BY DEF FullInv, IInv, Callers, CallInv, CallTypes
  <1>1. /\ at[j] = "sending" /\ at' = [at EXCEPT ![j] = "replied"]
        /\ ans' = [ans EXCEPT ![j] = None]
        /\ said' = [said EXCEPT ![j] =
             IF ans[j].status = "running" THEN @
             ELSE @ \cup {IF j \in cut THEN "dead" ELSE "reply"}]
        /\ UNCHANGED <<ends, Dead, row, outbox>>
    BY DEF SendReply, jobVars, ledgerVars, Dead
  <1>2. Replies' = Replies \ {j}
    BY <1>1, <1>t DEF Replies, Carried, CarriesResult, Callers
  <1>3. CASE CarriesResult(j)
    <2>. DEFINE way == IF j \in cut THEN "dead" ELSE "reply"
    <2>1. j \in Replies /\ way \in {"reply", "dead"}
      BY <1>1, <1>3 DEF Replies, Carried
    <2>2. said' = [said EXCEPT ![j] = @ \cup {way}]
      BY <1>1, <1>3 DEF CarriesResult
    <2>. HIDE DEF way
    <2>3. Life!Hand(j, way)
      BY <1>1, <1>2, <2>1, <2>2 DEF Life!Hand
    <2>. QED  BY <2>1, <2>3 DEF Life!Next
  <1>4. CASE ~CarriesResult(j)
    <2>1. said' = said
      BY <1>1, <1>4, <1>t DEF CarriesResult, CoreTypes
    <2>2. Replies' = Replies
      BY <1>2, <1>4 DEF Replies, Carried
    <2>. QED  BY <1>1, <2>1, <2>2 DEF Life!vars
  <1>. QED  BY <1>3, <1>4

\* A step of a job is a step of its life or none.
LEMMA JobStepLives ==
    ASSUME FullInv, NEW j \in JobIds, JobStep(j)
    PROVE  [Life!Next]_(Life!vars)
  <1>. USE DEF jobVars, parkVars, outVars, ledgerVars, noteVars, callVars
  <1>t. CoreTypes /\ JobInv(j) /\ CallTypes /\ StartsIdle(j) /\ j \in Callers
    BY DEF FullInv, IInv, CallInv, IdleInv, Callers
  <1>1. CASE EvalFinished(j) \/ EvalDown(j) \/ Cancel(j) \/ ProxyExit(j)
    <2>1. \/ \E st \in Terminal : ctl[j] = "serving" /\ BeginFinish(j, st)
          \/ UNCHANGED <<ctl, ends>>
      BY <1>1, <1>t DEF EvalFinished, EvalDown, Cancel, ProxyExit, Terminal
    <2>2. UNCHANGED <<row, outbox, said, at, ans>>
      BY <1>1 DEF EvalFinished, EvalDown, Cancel, ProxyExit
    <2>3. (\E st \in Terminal : Life!End(j, st)) \/ UNCHANGED Life!vars
      BY <1>t, <2>1, <2>2, FinishEnds, Unseen DEF lifeView
    <2>. QED  BY <2>3 DEF Life!Next
  <1>2. CASE Kill(j)
    <2>1. Dead' = Dead \cup {j} /\ j \notin Dead
      BY <1>2, <1>t DEF Kill, Dead, CoreTypes
    <2>2. UNCHANGED <<ends, row, outbox, said, Replies>>
      BY <1>2 DEF Kill, Replies, Carried, CarriesResult
    <2>3. Life!Vanish(j)
      BY <2>1, <2>2 DEF Life!Vanish
    <2>. QED  BY <2>3 DEF Life!Next
  <1>3. ASSUME NEW o \in {"ok", "lost", "blip"}, Ledger(j, o)
        PROVE  [Life!Next]_(Life!vars)
    BY <1>3, LedgerLives
  <1>4. ASSUME NEW o \in Writes, Finalize(j, o)
        PROVE  [Life!Next]_(Life!vars)
    <2>1. UNCHANGED <<ends, Dead, said, Replies>> /\ ctl[j] = "dead"
      BY <1>4 DEF Finalize, Dead, Replies, Carried, CarriesResult
    <2>2. FinishJob(j, "killed", FALSE) \/ UNCHANGED ledgerVars
      BY <1>4 DEF Finalize
    <2>3. "killed" \in Terminal
      BY DEF Terminal
    <2>4. \/ \E silent \in BOOLEAN : Life!Close(j, "killed", silent)
          \/ UNCHANGED Life!vars
      BY <1>t, <2>1, <2>2, <2>3, FinishCloses DEF Life!vars
    <2>. QED  BY <2>3, <2>4 DEF Life!Next
  <1>5. ASSUME NEW o \in Calls, Reply(j, o)
        PROVE  [Life!Next]_(Life!vars)
    BY <1>5, ReplyRenders
  <1>6. CASE SendReply(j)
    BY <1>6, SendReplyHands
  <1>7. CASE Start(j)
    <2>1. /\ UNCHANGED <<ends, row, outbox, said, ans>>
          /\ ctl[j] = "none" /\ ctl' = [ctl EXCEPT ![j] = "arm"]
          /\ at[j] = "idle" /\ at' = [at EXCEPT ![j] = "calling"]
      BY <1>7, <1>t DEF Start, StartsIdle
    <2>2. \A k \in JobIds : /\ ctl[k] = "dead" <=> ctl'[k] = "dead"
                            /\ at[k] = "sending" <=> at'[k] = "sending"
      BY <1>t, <2>1 DEF CoreTypes, CallTypes, Callers
    <2>. QED  BY <2>1, <2>2, Moves
  <1>8. CASE ArmReaper(j) \/ SpawnEval(j) \/ Record(j) \/ TellSubscribers(j)
             \/ RetryTerminal(j) \/ CallTimesOut(j) \/ Capture(j) \/ Quiet(j)
             \/ ProxyDies(j)
    <2>1. /\ UNCHANGED <<ends, row, outbox, said, at, ans>>
          /\ \A k \in JobIds : ctl[k] = "dead" <=> ctl'[k] = "dead"
      BY <1>8, <1>t DEF ArmReaper, SpawnEval, Record, TellSubscribers,
                        RetryTerminal, CallTimesOut, Capture, Quiet, ProxyDies,
                        CoreTypes
    <2>. QED  BY <2>1, Moves
  <1>9. ASSUME NEW o \in Calls, FlushFinal(j, o) \/ FlushTick(j, o)
        PROVE  [Life!Next]_(Life!vars)
    <2>1. /\ UNCHANGED <<ends, row, outbox, said, at, ans>>
          /\ \A k \in JobIds : ctl[k] = "dead" <=> ctl'[k] = "dead"
      BY <1>9, <1>t DEF FlushFinal, FlushTick, CoreTypes
    <2>. QED  BY <2>1, Moves
  <1>10. ASSUME NEW how \in {"done", "failed", "crashed"}, EvalEnds(j, how)
         PROVE  [Life!Next]_(Life!vars)
    <2>1. UNCHANGED lifeView
      BY <1>10 DEF EvalEnds, lifeView
    <2>. QED  BY <2>1, Unseen
  <1>. QED  BY <1>1, <1>2, <1>3, <1>4, <1>5, <1>6, <1>7, <1>8, <1>9, <1>10,
               Zenon DEF JobStep

\* The notifier tells, or does nothing that shows.
LEMMA NotifierLives ==
    ASSUME CoreTypes, Notifier \/ Connect \/ Disconnect
    PROVE  [Life!Next]_(Life!vars)
  <1>. USE DEF jobVars, outVars, ledgerVars, noteVars, callVars
  <1>1. ASSUME NEW read \in Calls, NEW ack \in Calls, FlushPending(read, ack)
        PROVE  [Life!Next]_(Life!vars)
    <2>1. UNCHANGED <<ends, ctl, row, at, ans>>
      BY <1>1 DEF FlushPending
    <2>2. CASE Registered
      <3>. DEFINE to == IF conn = "up" THEN "channel" ELSE conn
      <3>1. /\ to \in {"channel", "dead"}
            /\ Announce(pending, to, read, ack)
            /\ pending \in SUBSET JobIds
        BY <1>1, <2>2 DEF FlushPending, Registered, CoreTypes
      <3>. HIDE DEF to
      <3>2. \E heard \in SUBSET JobIds, way \in {"channel", "dead"},
               marked \in BOOLEAN : Life!Tell(heard, way, marked)
        BY <2>1, <3>1, AnnounceIsTell
      <3>. QED  BY <3>2 DEF Life!Next
    <2>3. CASE ~Registered
      <3>1. UNCHANGED lifeView
        BY <1>1, <2>1, <2>3 DEF FlushPending, lifeView
      <3>. QED  BY <3>1, Unseen
    <2>. QED  BY <2>2, <2>3
  <1>2. ASSUME NEW read \in Calls, NEW ack \in Calls, Register(read, ack)
        PROVE  [Life!Next]_(Life!vars)
    <2>1. /\ UNCHANGED <<ends, ctl, row, at, ans>>
          /\ Announce(JobIds, "channel", read, ack)
      BY <1>2 DEF Register, Replayed
    <2>2. \E heard \in SUBSET JobIds, way \in {"channel", "dead"},
             marked \in BOOLEAN : Life!Tell(heard, way, marked)
      BY <2>1, AnnounceIsTell
    <2>. QED  BY <2>2 DEF Life!Next
  <1>3. CASE RegisterCrashes \/ TransportDown \/ Connect \/ Disconnect
    <2>1. UNCHANGED lifeView
      BY <1>3 DEF RegisterCrashes, TransportDown, Connect, Disconnect,
                  lifeView
    <2>. QED  BY <2>1, Unseen
  <1>. QED  BY <1>1, <1>2, <1>3 DEF Notifier

LEMMA StepLives ==
    ASSUME FullInv, [Next]_vars
    PROVE  [Life!Next]_(Life!vars)
  <1>. USE DEF jobVars, ledgerVars, noteVars, callVars
  <1>1. CASE \E j \in JobIds : JobStep(j)
    BY <1>1, JobStepLives
  <1>2. CASE Notifier \/ Connect \/ Disconnect
    BY <1>2, NotifierLives DEF FullInv, IInv
  <1>3. CASE CallStep \/ \E c \in Cells, j \in JobIds : AwaitCall(c, j)
    <2>1. UNCHANGED <<ends, ctl, row, outbox, said>>
      BY <1>3, CallersStandAside DEF AwaitCall, coreVars
    <2>2. \A k \in JobIds : /\ at[k] = "sending" <=> at'[k] = "sending"
                            /\ at[k] = "sending" => ans'[k] = ans[k]
      BY <1>3, RepliesStay DEF FullInv
    <2>. QED  BY <2>1, <2>2, Moves
  <1>4. CASE UNCHANGED vars
    BY <1>4, Unseen DEF vars, lifeView
  <1>. QED  BY <1>1, <1>2, <1>3, <1>4, StepKinds

\* The control process, the ledger, the reaper, the notifier and the handlers
\* together give every job the life JobLife describes, for every number of
\* jobs, cells, faults, kills and lost transports, and also when a request is
\* served after the death of the process that sent it.
THEOREM JobsImplementLife == Spec => ImplementsJobLife
  <1>1. Init => Life!Init
    BY DEF Init, Life!Init, Dead, Replies, Carried, Callers
  <1>2. Spec => []FullInv
    BY FullInvInit, FullInvStep, PTL DEF Spec
  <1>. QED  BY <1>1, <1>2, StepLives, PTL
            DEF Spec, Life!Spec, ImplementsJobLife

=============================================================================
