--------------------------- MODULE DagRunnerProofs ---------------------------
(***************************************************************************)
(* Proofs about DagRunner, for every graph, every set of exit codes and     *)
(* every combination of faults.                                            *)
(***************************************************************************)
EXTENDS DagRunner, FiniteSetTheorems, TLAPS

-----------------------------------------------------------------------------
(* Types of the values the actions compute.                                *)

\* Every outcome run_node can return has the type of an outcome.
LEMMA OutcomeTypes ==
    /\ NoOutcome \in Outcomes
    /\ Succeeded \in Outcomes
    /\ Skipped \in Outcomes
    /\ Stopped \in Outcomes
    /\ \A c \in Nat : Failed(c) \in Outcomes
BY DEF Outcomes, NoOutcome, Succeeded, Skipped, Stopped, Failed

\* The five outcomes are told apart by their labels.
LEMMA OutcomesDiffer ==
    /\ Stopped # NoOutcome
    /\ Skipped # NoOutcome /\ Skipped # Stopped
    /\ Succeeded # Stopped /\ Succeeded # Skipped
    /\ \A c : Failed(c) # NoOutcome /\ Failed(c) # Stopped /\ Failed(c) # Skipped
BY DEF NoOutcome, Succeeded, Skipped, Stopped, Failed

\* The labels of the outcomes.
LEMMA OutcomeLabels ==
    /\ NoOutcome.label = "none"
    /\ Succeeded.label = "succeeded"
    /\ Skipped.label = "skipped"
    /\ Stopped.label = "stopped"
    /\ \A c : Failed(c).label = "failed"
BY DEF NoOutcome, Succeeded, Skipped, Stopped, Failed

\* The number either watch reads off an exit status is a natural number.
LEMMA StatusTypes ==
    \A s \in Statuses \cup {NoStatus} : StatusCode(s) \in Nat /\ SiStatus(s) \in Nat
<1>1. ASSUME NEW s \in [how : {"exit"}, num : Codes]
      PROVE  StatusCode(s) \in Nat /\ SiStatus(s) \in Nat
  BY EnvironmentAssumption DEF StatusCode, SiStatus
<1>2. ASSUME NEW s \in [how : {"signal"}, num : Signals]
      PROVE  StatusCode(s) \in Nat /\ SiStatus(s) \in Nat
  BY EnvironmentAssumption DEF StatusCode, SiStatus
<1>3. StatusCode(NoStatus) \in Nat /\ SiStatus(NoStatus) \in Nat
  BY DEF NoStatus, StatusCode, SiStatus
<1> QED
  BY <1>1, <1>2, <1>3 DEF Statuses

\* exit_code returns a natural number.
LEMMA ContributionTypes ==
    ASSUME TypeOK
    PROVE  WorstOutcomes \subseteq Nat
BY DEF TypeOK, WorstOutcomes, Contributions, ExitContribution, Recorded, Outcomes

\* There are finitely many tasks.
LEMMA TasksAreFinite == IsFiniteSet(Tasks) /\ Cardinality(Tasks) \in Nat
BY NodesAssumption, FS_Difference, FS_CardinalityType DEF Tasks

-----------------------------------------------------------------------------
(* The type invariant.                                                     *)

\* Every step of the runner, of a child or of the operator keeps the types.
LEMMA TypeOKStep == TypeOK /\ [Next]_vars => TypeOK'
<1> SUFFICES ASSUME TypeOK, [Next]_vars  PROVE TypeOK'
  OBVIOUS
<1> USE DEF TypeOK, PcValues, Reasons, At, Running, nodeVars, procVars, mainVars
<1>1. ASSUME NEW m \in Nodes, NeverRan(m)  PROVE TypeOK'
  BY <1>1, OutcomeTypes DEF NeverRan, ReportFinished
<1>2. ASSUME NEW m \in Nodes, StartPanics(m)  PROVE TypeOK'
  BY <1>2 DEF StartPanics, Starts
<1>3. ASSUME NEW m \in Nodes, Spawn(m)  PROVE TypeOK'
  BY <1>3 DEF Spawn, Starts
<1>4. ASSUME NEW m \in Nodes, SpawnFails(m)  PROVE TypeOK'
  BY <1>4, OutcomeTypes DEF SpawnFails, Starts, Request
<1>5. ASSUME NEW m \in Nodes, Kill(m)  PROVE TypeOK'
  BY <1>5 DEF Kill, KillGroup, May
<1>6. ASSUME NEW m \in Nodes, KillDenied(m)  PROVE TypeOK'
  BY <1>6, OutcomeTypes DEF KillDenied, Settle, ReportFinished, Verdict, DropGroup,
     KillGroup, May
<1>7. ASSUME NEW m \in Nodes, Collect(m)  PROVE TypeOK'
  BY <1>7, OutcomeTypes DEF Collect, Settle, ReportFinished, Verdict
<1>8. ASSUME NEW m \in Nodes, TaskShutDown(m)  PROVE TypeOK'
  BY <1>8, OutcomeTypes DEF TaskShutDown, BeginStop, TerminatedExitCode
<1>9. ASSUME NEW m \in Nodes, TaskTimesOut(m)  PROVE TypeOK'
  BY <1>9, OutcomeTypes DEF TaskTimesOut, BeginStop
<1>10. ASSUME NEW m \in Nodes, TaskExits(m)  PROVE TypeOK'
  BY <1>10, OutcomeTypes, StatusTypes DEF TaskExits, Settle, ReportFinished,
     Verdict, CaptureExit
<1>11. ASSUME NEW m \in Nodes, TaskWaitFails(m)  PROVE TypeOK'
  BY <1>11, OutcomeTypes DEF TaskWaitFails, BeginStop
<1>12. ASSUME NEW m \in Nodes, StartupShutDown(m)  PROVE TypeOK'
  BY <1>12, OutcomeTypes DEF StartupShutDown, BeginStop, Publish
<1>13. ASSUME NEW m \in Nodes, StartupTimesOut(m)  PROVE TypeOK'
  BY <1>13, OutcomeTypes DEF StartupTimesOut, BeginStop, Publish, Request,
     UnchangedButReason
<1>14. ASSUME NEW m \in Nodes, ServiceExits(m)  PROVE TypeOK'
  BY <1>14, OutcomeTypes, StatusTypes DEF ServiceExits, CaptureExit, Settle,
     ReportFinished, Verdict, Request, UnchangedButReason
<1>15. ASSUME NEW m \in Nodes, ServiceWaitFails(m)  PROVE TypeOK'
  BY <1>15, OutcomeTypes DEF ServiceWaitFails, Settle, ReportFinished, Verdict,
     DropGroup, KillGroup, May, Request, UnchangedButReason
<1>16. ASSUME NEW m \in Nodes, ServingShutDown(m)  PROVE TypeOK'
  BY <1>16, OutcomeTypes DEF ServingShutDown, BeginStop
<1>17. ASSUME NEW m \in Nodes, ServingDeath(m)  PROVE TypeOK'
  BY <1>17, OutcomeTypes, StatusTypes DEF ServingDeath, BeginStop, Request,
     UnchangedButReason
<1>18. ASSUME NEW m \in Nodes, Record(m)  PROVE TypeOK'
  BY <1>18 DEF Record, Request
<1>19. ASSUME NEW m \in Nodes, ServiceReady(m)  PROVE TypeOK'
  BY <1>19 DEF ServiceReady, Publish
<1>20. ASSUME NEW m \in Nodes, ReadyPanics(m)  PROVE TypeOK'
  BY <1>20 DEF ReadyPanics, DropGroup, KillGroup, May
<1>21. ASSUME NEW m \in Nodes, LeaderExits(m)  PROVE TypeOK'
  BY <1>21 DEF LeaderExits
<1>22. ASSUME NEW m \in Nodes, LeaderForks(m)  PROVE TypeOK'
  BY <1>22, EnvironmentAssumption DEF LeaderForks
<1>23. ASSUME NEW m \in Nodes, KidExits(m)  PROVE TypeOK'
  BY <1>23 DEF KidExits
<1>24. ASSUME NEW m \in Nodes, ReaderGivesUp(m)  PROVE TypeOK'
  BY <1>24 DEF ReaderGivesUp
<1>25. ASSUME FirstSigint  PROVE TypeOK'
  BY <1>25 DEF FirstSigint, Request
<1>26. ASSUME SecondSigint  PROVE TypeOK'
  BY <1>26 DEF SecondSigint
<1>27. ASSUME MainExits  PROVE TypeOK'
  BY <1>27, ContributionTypes DEF MainExits
<1>28. ASSUME OperatorInterrupts  PROVE TypeOK'
  BY <1>28 DEF OperatorInterrupts
<1>29. ASSUME StdoutCloses  PROVE TypeOK'
  BY <1>29 DEF StdoutCloses
<1>30. ASSUME Over  PROVE TypeOK'
  BY <1>30 DEF Over, vars
<1>31. ASSUME UNCHANGED vars  PROVE TypeOK'
  BY <1>31 DEF vars
<1> QED
  BY <1>1, <1>2, <1>3, <1>4, <1>5, <1>6, <1>7, <1>8, <1>9, <1>10, <1>11, <1>12,
     <1>13, <1>14, <1>15, <1>16, <1>17, <1>18, <1>19, <1>20, <1>21, <1>22, <1>23,
     <1>24, <1>25, <1>26, <1>27, <1>28, <1>29, <1>30, <1>31
     DEF Next, NodeStep, ProbePasses, Listen, ProcessStep

\* The initial state has the types.
LEMMA TypeOKInit == Init => TypeOK
<1> SUFFICES ASSUME Init  PROVE TypeOK
  OBVIOUS
<1>1. remaining \in Int
  BY TasksAreFinite DEF Init
<1>2. /\ sigint \in BOOLEAN /\ stdoutOpen \in BOOLEAN
      /\ reading \in [Nodes -> BOOLEAN]
      /\ armed \in [Nodes -> BOOLEAN]
      /\ killFailed \in [Nodes -> BOOLEAN]
  BY DEF Init
<1> QED
  BY <1>1, <1>2, OutcomeTypes DEF Init, TypeOK, PcValues, Reasons

\* Type correctness of the runner's state.
THEOREM TypeCorrect == Spec => []TypeOK
BY TypeOKInit, TypeOKStep, PTL DEF Spec
-----------------------------------------------------------------------------
(* Where a future is tells what its node owns, has said and has decided.    *)

Lifecycle(n) ==
    /\ pc[n] = "waiting" =>
          /\ leader[n] = "none" /\ kids[n] = {} /\ ~reading[n]
          /\ emitted[n] = {}
    /\ pc[n] \in {"waiting", "running", "starting", "serving"} =>
          outcome[n] = NoOutcome /\ ~killFailed[n]
    /\ pc[n] \in {"waiting", "running", "starting"} => readiness[n] = "none"
    /\ pc[n] = "running" => n \in Tasks
    /\ pc[n] \in {"starting", "serving"} => n \in Services
    /\ pc[n] = "serving" => readiness[n] = "ready"
    /\ pc[n] \in {"stopping", "collecting"} =>
          (readiness[n] = "none" <=> n \in Tasks)
    /\ pc[n] = "stopping" => ~killFailed[n]
    /\ pc[n] \in {"finished", "done"} => readiness[n] # "none"
    /\ armed[n] <=> pc[n] \in {"running", "starting", "serving", "stopping"}
    /\ armed[n] => leader[n] \in {"alive", "zombie"}

\* What a node must have reported for its dependents to be told it is ready;
\* when the report of a task's success panicked, nothing is reported again.
Announced(n) ==
    readiness[n] = "ready" =>
        IF n \in Services THEN "ready" \in emitted[n]
        ELSE "finished" \in emitted[n] \/ ~CanReport

LifecycleInv == \A n \in Nodes : Lifecycle(n) /\ Announced(n)

\* Every step keeps the life cycle of every node.
LEMMA LifecycleStep == TypeOK /\ LifecycleInv /\ [Next]_vars => LifecycleInv'
<1> SUFFICES ASSUME TypeOK, LifecycleInv, [Next]_vars, NEW n \in Nodes
             PROVE  Lifecycle(n)' /\ Announced(n)'
  BY DEF LifecycleInv
<1> USE DEF TypeOK, LifecycleInv, Lifecycle, Announced, CanReport, Tasks, PcValues,
            At, Running, nodeVars, procVars, mainVars
<1>1. ASSUME NEW m \in Nodes, NeverRan(m)  PROVE Lifecycle(n)' /\ Announced(n)'
  BY <1>1 DEF NeverRan, ReportFinished
<1>2. ASSUME NEW m \in Nodes, StartPanics(m)  PROVE Lifecycle(n)' /\ Announced(n)'
  BY <1>2 DEF StartPanics, Starts
<1>3. ASSUME NEW m \in Nodes, Spawn(m)  PROVE Lifecycle(n)' /\ Announced(n)'
  BY <1>3 DEF Spawn, Starts
<1>4. ASSUME NEW m \in Nodes, SpawnFails(m)  PROVE Lifecycle(n)' /\ Announced(n)'
  BY <1>4 DEF SpawnFails, Starts, Request
<1>5. ASSUME NEW m \in Nodes, Kill(m)  PROVE Lifecycle(n)' /\ Announced(n)'
  BY <1>5 DEF Kill, KillGroup, May
<1>6. ASSUME NEW m \in Nodes, KillDenied(m)  PROVE Lifecycle(n)' /\ Announced(n)'
  BY <1>6 DEF KillDenied, Settle, ReportFinished, Verdict, DropGroup, KillGroup, May
<1>7. ASSUME NEW m \in Nodes, Collect(m)  PROVE Lifecycle(n)' /\ Announced(n)'
  BY <1>7 DEF Collect, Settle, ReportFinished, Verdict
<1>8. ASSUME NEW m \in Nodes, TaskShutDown(m)  PROVE Lifecycle(n)' /\ Announced(n)'
  BY <1>8 DEF TaskShutDown, BeginStop, TerminatedExitCode
<1>9. ASSUME NEW m \in Nodes, TaskTimesOut(m)  PROVE Lifecycle(n)' /\ Announced(n)'
  BY <1>9 DEF TaskTimesOut, BeginStop
<1>10. ASSUME NEW m \in Nodes, TaskExits(m)  PROVE Lifecycle(n)' /\ Announced(n)'
  BY <1>10 DEF TaskExits, Settle, ReportFinished, Verdict, CaptureExit
<1>11. ASSUME NEW m \in Nodes, TaskWaitFails(m)  PROVE Lifecycle(n)' /\ Announced(n)'
  BY <1>11 DEF TaskWaitFails, BeginStop
<1>12. ASSUME NEW m \in Nodes, StartupShutDown(m)  PROVE Lifecycle(n)' /\ Announced(n)'
  BY <1>12 DEF StartupShutDown, BeginStop, Publish
<1>13. ASSUME NEW m \in Nodes, StartupTimesOut(m)  PROVE Lifecycle(n)' /\ Announced(n)'
  BY <1>13 DEF StartupTimesOut, BeginStop, Publish, Request, UnchangedButReason
<1>14. ASSUME NEW m \in Nodes, ServiceExits(m)  PROVE Lifecycle(n)' /\ Announced(n)'
  BY <1>14 DEF ServiceExits, CaptureExit, Settle, ReportFinished, Verdict, Request,
     UnchangedButReason
<1>15. ASSUME NEW m \in Nodes, ServiceWaitFails(m)  PROVE Lifecycle(n)' /\ Announced(n)'
  BY <1>15 DEF ServiceWaitFails, Settle, ReportFinished, Verdict, DropGroup,
     KillGroup, May, Request, UnchangedButReason
<1>16. ASSUME NEW m \in Nodes, ServingShutDown(m)  PROVE Lifecycle(n)' /\ Announced(n)'
  BY <1>16 DEF ServingShutDown, BeginStop
<1>17. ASSUME NEW m \in Nodes, ServingDeath(m)  PROVE Lifecycle(n)' /\ Announced(n)'
  BY <1>17 DEF ServingDeath, BeginStop, Request, UnchangedButReason
<1>18. ASSUME NEW m \in Nodes, Record(m)  PROVE Lifecycle(n)' /\ Announced(n)'
  BY <1>18 DEF Record, Request
<1>19. ASSUME NEW m \in Nodes, ServiceReady(m)  PROVE Lifecycle(n)' /\ Announced(n)'
  BY <1>19 DEF ServiceReady, Publish
<1>20. ASSUME NEW m \in Nodes, ReadyPanics(m)  PROVE Lifecycle(n)' /\ Announced(n)'
  BY <1>20 DEF ReadyPanics, DropGroup, KillGroup, May
<1>21. ASSUME NEW m \in Nodes, LeaderExits(m)  PROVE Lifecycle(n)' /\ Announced(n)'
  BY <1>21 DEF LeaderExits
<1>22. ASSUME NEW m \in Nodes, LeaderForks(m)  PROVE Lifecycle(n)' /\ Announced(n)'
  BY <1>22 DEF LeaderForks
<1>23. ASSUME NEW m \in Nodes, KidExits(m)  PROVE Lifecycle(n)' /\ Announced(n)'
  BY <1>23 DEF KidExits
<1>24. ASSUME NEW m \in Nodes, ReaderGivesUp(m)  PROVE Lifecycle(n)' /\ Announced(n)'
  BY <1>24 DEF ReaderGivesUp
<1>25. ASSUME FirstSigint  PROVE Lifecycle(n)' /\ Announced(n)'
  BY <1>25 DEF FirstSigint, Request
<1>26. ASSUME SecondSigint  PROVE Lifecycle(n)' /\ Announced(n)'
  BY <1>26 DEF SecondSigint
<1>27. ASSUME MainExits  PROVE Lifecycle(n)' /\ Announced(n)'
  BY <1>27 DEF MainExits
<1>28. ASSUME OperatorInterrupts  PROVE Lifecycle(n)' /\ Announced(n)'
  BY <1>28 DEF OperatorInterrupts
<1>29. ASSUME StdoutCloses  PROVE Lifecycle(n)' /\ Announced(n)'
  BY <1>29 DEF StdoutCloses
<1>30. ASSUME Over  PROVE Lifecycle(n)' /\ Announced(n)'
  BY <1>30 DEF Over, vars
<1>31. ASSUME UNCHANGED vars  PROVE Lifecycle(n)' /\ Announced(n)'
  BY <1>31 DEF vars
<1> QED
  BY <1>1, <1>2, <1>3, <1>4, <1>5, <1>6, <1>7, <1>8, <1>9, <1>10, <1>11, <1>12,
     <1>13, <1>14, <1>15, <1>16, <1>17, <1>18, <1>19, <1>20, <1>21, <1>22, <1>23,
     <1>24, <1>25, <1>26, <1>27, <1>28, <1>29, <1>30, <1>31
     DEF Next, NodeStep, ProbePasses, Listen, ProcessStep

\* The life cycle holds throughout a run.
LEMMA LifecycleHolds == Spec => [](TypeOK /\ LifecycleInv)
<1>1. Init => LifecycleInv
  BY DEF Init, LifecycleInv, Lifecycle, Announced
<1>2. Init => TypeOK
  BY TypeOKInit
<1> QED
  BY <1>1, <1>2, TypeOKStep, LifecycleStep, PTL DEF Spec

\* The runner signals a process group only while it holds the leader
\* unreaped: for every graph and every fault, the id is never recycled.
THEOREM GroupsAreHeld == Spec => []SignalsOnlyHeldGroups
<1>1. TypeOK /\ LifecycleInv => SignalsOnlyHeldGroups
  BY DEF LifecycleInv, Lifecycle, SignalsOnlyHeldGroups
<1> QED
  BY <1>1, LifecycleHolds, PTL
-----------------------------------------------------------------------------
(* What no step takes back.                                                *)

Monotone(n) ==
    /\ emitted[n] \subseteq emitted'[n]
    /\ readiness[n] # "none" => readiness'[n] = readiness[n]
    /\ pc[n] # "waiting" => pc'[n] # "waiting"
    /\ pc[n] = "panicked" => pc'[n] = "panicked" /\ readiness'[n] = readiness[n]
    /\ pc[n] = "done" => pc'[n] = "done"
    /\ outcome[n] # NoOutcome =>
          \/ outcome'[n] = outcome[n]
          \/ outcome'[n] = NoOutcome /\ pc'[n] = "panicked"
    /\ reason # "none" => reason' = reason
    /\ reason # "none" /\ leader[n] = "none" => leader'[n] = "none"
    /\ pc[n] # "waiting" /\ leader[n] = "none" => leader'[n] = "none"

\* Reports, verdicts, decided outcomes and the reason of a shutdown are final,
\* and a shutdown starts no process.
LEMMA MonotoneStep ==
    TypeOK /\ LifecycleInv /\ [Next]_vars => \A n \in Nodes : Monotone(n)
<1> SUFFICES ASSUME TypeOK, LifecycleInv, [Next]_vars, NEW n \in Nodes
             PROVE  Monotone(n)
  OBVIOUS
<1> USE DEF TypeOK, LifecycleInv, Lifecycle, Monotone, Reasons, PcValues, Tasks,
            At, Running, nodeVars, procVars, mainVars
<1>1. ASSUME NEW m \in Nodes, NeverRan(m)  PROVE Monotone(n)
  BY <1>1 DEF NeverRan, ReportFinished
<1>2. ASSUME NEW m \in Nodes, StartPanics(m)  PROVE Monotone(n)
  BY <1>2 DEF StartPanics, Starts
<1>3. ASSUME NEW m \in Nodes, Spawn(m)  PROVE Monotone(n)
  BY <1>3 DEF Spawn, Starts
<1>4. ASSUME NEW m \in Nodes, SpawnFails(m)  PROVE Monotone(n)
  BY <1>4 DEF SpawnFails, Starts, Request
<1>5. ASSUME NEW m \in Nodes, Kill(m)  PROVE Monotone(n)
  BY <1>5 DEF Kill, KillGroup, May
<1>6. ASSUME NEW m \in Nodes, KillDenied(m)  PROVE Monotone(n)
  BY <1>6 DEF KillDenied, Settle, ReportFinished, Verdict, DropGroup, KillGroup, May
<1>7. ASSUME NEW m \in Nodes, Collect(m)  PROVE Monotone(n)
  BY <1>7 DEF Collect, Settle, ReportFinished, Verdict
<1>8. ASSUME NEW m \in Nodes, TaskShutDown(m)  PROVE Monotone(n)
  BY <1>8 DEF TaskShutDown, BeginStop, TerminatedExitCode
<1>9. ASSUME NEW m \in Nodes, TaskTimesOut(m)  PROVE Monotone(n)
  BY <1>9 DEF TaskTimesOut, BeginStop
<1>10. ASSUME NEW m \in Nodes, TaskExits(m)  PROVE Monotone(n)
  BY <1>10 DEF TaskExits, Settle, ReportFinished, Verdict, CaptureExit
<1>11. ASSUME NEW m \in Nodes, TaskWaitFails(m)  PROVE Monotone(n)
  BY <1>11 DEF TaskWaitFails, BeginStop
<1>12. ASSUME NEW m \in Nodes, StartupShutDown(m)  PROVE Monotone(n)
  BY <1>12 DEF StartupShutDown, BeginStop, Publish
<1>13. ASSUME NEW m \in Nodes, StartupTimesOut(m)  PROVE Monotone(n)
  BY <1>13 DEF StartupTimesOut, BeginStop, Publish, Request, UnchangedButReason
<1>14. ASSUME NEW m \in Nodes, ServiceExits(m)  PROVE Monotone(n)
  BY <1>14 DEF ServiceExits, CaptureExit, Settle, ReportFinished, Verdict, Request,
     UnchangedButReason
<1>15. ASSUME NEW m \in Nodes, ServiceWaitFails(m)  PROVE Monotone(n)
  BY <1>15 DEF ServiceWaitFails, Settle, ReportFinished, Verdict, DropGroup,
     KillGroup, May, Request, UnchangedButReason
<1>16. ASSUME NEW m \in Nodes, ServingShutDown(m)  PROVE Monotone(n)
  BY <1>16 DEF ServingShutDown, BeginStop
<1>17. ASSUME NEW m \in Nodes, ServingDeath(m)  PROVE Monotone(n)
  BY <1>17 DEF ServingDeath, BeginStop, Request, UnchangedButReason
<1>18. ASSUME NEW m \in Nodes, Record(m)  PROVE Monotone(n)
  BY <1>18 DEF Record, Request
<1>19. ASSUME NEW m \in Nodes, ServiceReady(m)  PROVE Monotone(n)
  BY <1>19 DEF ServiceReady, Publish
<1>20. ASSUME NEW m \in Nodes, ReadyPanics(m)  PROVE Monotone(n)
  BY <1>20 DEF ReadyPanics, DropGroup, KillGroup, May
<1>21. ASSUME NEW m \in Nodes, LeaderExits(m)  PROVE Monotone(n)
  BY <1>21 DEF LeaderExits
<1>22. ASSUME NEW m \in Nodes, LeaderForks(m)  PROVE Monotone(n)
  BY <1>22 DEF LeaderForks
<1>23. ASSUME NEW m \in Nodes, KidExits(m)  PROVE Monotone(n)
  BY <1>23 DEF KidExits
<1>24. ASSUME NEW m \in Nodes, ReaderGivesUp(m)  PROVE Monotone(n)
  BY <1>24 DEF ReaderGivesUp
<1>25. ASSUME FirstSigint  PROVE Monotone(n)
  BY <1>25 DEF FirstSigint, Request
<1>26. ASSUME SecondSigint  PROVE Monotone(n)
  BY <1>26 DEF SecondSigint
<1>27. ASSUME MainExits  PROVE Monotone(n)
  BY <1>27 DEF MainExits
<1>28. ASSUME OperatorInterrupts  PROVE Monotone(n)
  BY <1>28 DEF OperatorInterrupts
<1>29. ASSUME StdoutCloses  PROVE Monotone(n)
  BY <1>29 DEF StdoutCloses
<1>30. ASSUME Over  PROVE Monotone(n)
  BY <1>30 DEF Over, vars
<1>31. ASSUME UNCHANGED vars  PROVE Monotone(n)
  BY <1>31 DEF vars
<1> QED
  BY <1>1, <1>2, <1>3, <1>4, <1>5, <1>6, <1>7, <1>8, <1>9, <1>10, <1>11, <1>12,
     <1>13, <1>14, <1>15, <1>16, <1>17, <1>18, <1>19, <1>20, <1>21, <1>22, <1>23,
     <1>24, <1>25, <1>26, <1>27, <1>28, <1>29, <1>30, <1>31
     DEF Next, NodeStep, ProbePasses, Listen, ProcessStep

\* The first reason to arrive is kept.
LEMMA ReasonIsFinal == TypeOK /\ [Next]_vars /\ reason # "none" => reason' = reason
<1> SUFFICES ASSUME TypeOK, [Next]_vars, reason # "none"  PROVE reason' = reason
  OBVIOUS
<1>1. ASSUME NEW m \in Nodes, NodeStep(m)  PROVE reason' = reason
  BY <1>1 DEF NodeStep, NeverRan, ReportFinished, StartPanics, Spawn, SpawnFails,
     Kill, KillDenied,
     Collect, TaskShutDown, TaskTimesOut, TaskExits, TaskWaitFails, StartupShutDown,
     StartupTimesOut, ServiceExits, ServiceWaitFails, ServingShutDown, ServingDeath,
     Record, Request, mainVars
<1>2. ASSUME NEW m \in Nodes, ProbePasses(m) \/ ProcessStep(m)  PROVE reason' = reason
  BY <1>2 DEF ProbePasses, ServiceReady, ReadyPanics, ProcessStep, LeaderExits,
     LeaderForks, KidExits, ReaderGivesUp, mainVars
<1>3. ASSUME Listen \/ MainExits \/ OperatorInterrupts \/ StdoutCloses \/ Over
             \/ UNCHANGED vars
      PROVE  reason' = reason
  BY <1>3 DEF Listen, FirstSigint, SecondSigint, MainExits, OperatorInterrupts,
     StdoutCloses, Over, Request, vars, mainVars
<1> QED
  BY <1>1, <1>2, <1>3 DEF Next

\* The first reason wins, outcomes are not revised, and once a shutdown is
\* requested no process is started.
THEOREM ShutdownFinality == Spec => ShutdownIsFinal
<1>1. TypeOK /\ LifecycleInv /\ [Next]_vars =>
        [ /\ reason # "none" => reason' = reason
          /\ \A n \in Nodes :
                /\ outcome[n] # NoOutcome => outcome'[n] \in {outcome[n], NoOutcome}
                /\ reason # "none" /\ leader[n] = "none" => leader'[n] = "none" ]_vars
  <2> SUFFICES ASSUME TypeOK, LifecycleInv, [Next]_vars,
                      \A n \in Nodes : Monotone(n)
               PROVE  [ /\ reason # "none" => reason' = reason
                        /\ \A n \in Nodes :
                              /\ outcome[n] # NoOutcome =>
                                    outcome'[n] \in {outcome[n], NoOutcome}
                              /\ reason # "none" /\ leader[n] = "none" =>
                                    leader'[n] = "none" ]_vars
    BY MonotoneStep
  <2>1. CASE UNCHANGED vars
    BY <2>1
  <2>2. CASE Next
    <3>1. reason # "none" => reason' = reason
      BY <2>2, ReasonIsFinal
    <3> QED
      BY <3>1 DEF Monotone
  <2> QED
    BY <2>1, <2>2
<1> QED
  BY <1>1, LifecycleHolds, PTL DEF Spec, ShutdownIsFinal
-----------------------------------------------------------------------------
(* Starting order.                                                         *)

\* Only Spawn and SpawnFails report a start.
LEMMA StartNeeds ==
    ASSUME TypeOK, [Next]_vars, NEW n \in Nodes,
           "started" \notin emitted[n], "started" \in emitted'[n]
    PROVE  DepsReady(n) /\ CanReport
<1>1. ASSUME NEW m \in Nodes, NodeStep(m)  PROVE DepsReady(n) /\ CanReport
  <2>1. CASE Spawn(m) \/ SpawnFails(m)
    BY <2>1 DEF Spawn, SpawnFails, Starts, TypeOK
  <2>2. CASE ~Spawn(m) /\ ~SpawnFails(m)
    <3>1. emitted' = emitted \/ emitted' = [emitted EXCEPT ![m] = @ \cup {"finished"}]
      BY <1>1, <2>2 DEF NodeStep, NeverRan, StartPanics, Kill, KillDenied,
         Collect, TaskShutDown, TaskTimesOut, TaskExits, TaskWaitFails,
         StartupShutDown, StartupTimesOut, ServiceExits, ServiceWaitFails,
         ServingShutDown, ServingDeath, Record, BeginStop, Settle, ReportFinished, nodeVars
    <3> QED
      BY <3>1 DEF TypeOK
  <2> QED
    BY <2>1, <2>2
<1>2. ASSUME NEW m \in Nodes, ProbePasses(m) \/ ProcessStep(m)  PROVE FALSE
  <2>1. emitted' = emitted \/ emitted' = [emitted EXCEPT ![m] = @ \cup {"ready"}]
    BY <1>2 DEF ProbePasses, ServiceReady, ReadyPanics, ProcessStep, LeaderExits,
       LeaderForks, KidExits, ReaderGivesUp, nodeVars
  <2> QED
    BY <2>1 DEF TypeOK
<1>3. ASSUME Listen \/ MainExits \/ OperatorInterrupts \/ StdoutCloses \/ Over
             \/ UNCHANGED vars
      PROVE  FALSE
  BY <1>3 DEF Listen, FirstSigint, SecondSigint, MainExits, OperatorInterrupts,
     StdoutCloses, Over, vars, nodeVars
<1> QED
  BY <1>1, <1>2, <1>3 DEF Next

\* A node's start is reported only after its dependencies were reported ready.
THEOREM StartOrder == Spec => []StartedAfterDepsReady
<1>1. Init => StartedAfterDepsReady
  BY DEF Init, StartedAfterDepsReady
<1>2. TypeOK /\ LifecycleInv /\ StartedAfterDepsReady /\ [Next]_vars
        => StartedAfterDepsReady'
  <2> SUFFICES ASSUME TypeOK, LifecycleInv, StartedAfterDepsReady, [Next]_vars,
                      NEW n \in Nodes, "started" \in emitted'[n],
                      NEW i \in DOMAIN DependsOn[n]
               PROVE  IF Dep(n, i) \in Services THEN "ready" \in emitted'[Dep(n, i)]
                      ELSE /\ "finished" \in emitted'[Dep(n, i)]
                           /\ readiness'[Dep(n, i)] = "ready"
    BY DEF StartedAfterDepsReady
  <2>1. Dep(n, i) \in Nodes
    BY NodesAssumption DEF Dep
  <2>2. Monotone(Dep(n, i))
    BY <2>1, MonotoneStep
  <2>3. CASE "started" \in emitted[n]
    BY <2>1, <2>2, <2>3 DEF StartedAfterDepsReady, Monotone, TypeOK
  <2>4. CASE "started" \notin emitted[n]
    <3>1. DepsReady(n) /\ CanReport
      BY <2>4, StartNeeds
    <3>2. readiness[Dep(n, i)] = "ready" /\ Announced(Dep(n, i))
      BY <3>1, <2>1 DEF DepsReady, LifecycleInv
    <3> QED
      BY <3>1, <3>2, <2>1, <2>2 DEF Announced, Monotone, TypeOK
  <2> QED
    BY <2>3, <2>4
<1> QED
  BY <1>1, <1>2, LifecycleHolds, PTL DEF Spec
-----------------------------------------------------------------------------
(* What a settled node leaves behind.                                      *)

Gone(n) ==
    /\ leader[n] = "none" => kids[n] = {}
    /\ pc[n] \in {"collecting", "finished", "done"} /\ ~killFailed[n] =>
          /\ leader[n] # "alive"
          /\ outcome[n] = Stopped => "grouped" \notin kids[n]
    /\ pc[n] \in {"finished", "done"} /\ ~killFailed[n] /\ reading[n] => kids[n] = {}

GoneInv == \A n \in Nodes : Gone(n)

\* Every step keeps what settled nodes leave behind.
LEMMA GoneStep == TypeOK /\ LifecycleInv /\ GoneInv /\ [Next]_vars => GoneInv'
<1> SUFFICES ASSUME TypeOK, LifecycleInv, GoneInv, [Next]_vars, NEW n \in Nodes
             PROVE  Gone(n)'
  BY DEF GoneInv
<1> USE DEF TypeOK, LifecycleInv, Lifecycle, GoneInv, Gone, Descendants, PcValues,
            At, Running, nodeVars, procVars, mainVars
<1>1. ASSUME NEW m \in Nodes, NeverRan(m)  PROVE Gone(n)'
  BY <1>1, OutcomesDiffer DEF NeverRan, ReportFinished
<1>2. ASSUME NEW m \in Nodes, StartPanics(m)  PROVE Gone(n)'
  BY <1>2 DEF StartPanics, Starts
<1>3. ASSUME NEW m \in Nodes, Spawn(m)  PROVE Gone(n)'
  BY <1>3 DEF Spawn, Starts
<1>4. ASSUME NEW m \in Nodes, SpawnFails(m)  PROVE Gone(n)'
  BY <1>4, OutcomesDiffer DEF SpawnFails, Starts, Request
<1>5. ASSUME NEW m \in Nodes, Kill(m)  PROVE Gone(n)'
  BY <1>5 DEF Kill, KillGroup, May
<1>6. ASSUME NEW m \in Nodes, KillDenied(m)  PROVE Gone(n)'
  BY <1>6 DEF KillDenied, Settle, ReportFinished, Verdict, DropGroup, KillGroup,
     May, StreamsClosed
<1>7. ASSUME NEW m \in Nodes, Collect(m)  PROVE Gone(n)'
  BY <1>7 DEF Collect, Settle, ReportFinished, Verdict, StreamsClosed
<1>8. ASSUME NEW m \in Nodes, TaskShutDown(m)  PROVE Gone(n)'
  BY <1>8, OutcomesDiffer DEF TaskShutDown, BeginStop, TerminatedExitCode
<1>9. ASSUME NEW m \in Nodes, TaskTimesOut(m)  PROVE Gone(n)'
  BY <1>9, OutcomesDiffer DEF TaskTimesOut, BeginStop
<1>10. ASSUME NEW m \in Nodes, TaskExits(m)  PROVE Gone(n)'
  BY <1>10, OutcomesDiffer DEF TaskExits, Settle, ReportFinished, Verdict,
     CaptureExit, StreamsClosed
<1>11. ASSUME NEW m \in Nodes, TaskWaitFails(m)  PROVE Gone(n)'
  BY <1>11 DEF TaskWaitFails, BeginStop
<1>12. ASSUME NEW m \in Nodes, StartupShutDown(m)  PROVE Gone(n)'
  BY <1>12 DEF StartupShutDown, BeginStop, Publish
<1>13. ASSUME NEW m \in Nodes, StartupTimesOut(m)  PROVE Gone(n)'
  BY <1>13 DEF StartupTimesOut, BeginStop, Publish, Request, UnchangedButReason
<1>14. ASSUME NEW m \in Nodes, ServiceExits(m)  PROVE Gone(n)'
  BY <1>14, OutcomesDiffer DEF ServiceExits, CaptureExit, Settle, ReportFinished,
     Verdict, Request, UnchangedButReason, StreamsClosed
<1>15. ASSUME NEW m \in Nodes, ServiceWaitFails(m)  PROVE Gone(n)'
  BY <1>15, OutcomesDiffer DEF ServiceWaitFails, Settle, ReportFinished, Verdict,
     DropGroup, KillGroup, May, Request, UnchangedButReason, StreamsClosed
<1>16. ASSUME NEW m \in Nodes, ServingShutDown(m)  PROVE Gone(n)'
  BY <1>16 DEF ServingShutDown, BeginStop
<1>17. ASSUME NEW m \in Nodes, ServingDeath(m)  PROVE Gone(n)'
  BY <1>17 DEF ServingDeath, BeginStop, Request, UnchangedButReason
<1>18. ASSUME NEW m \in Nodes, Record(m)  PROVE Gone(n)'
  BY <1>18 DEF Record, Request
<1>19. ASSUME NEW m \in Nodes, ServiceReady(m)  PROVE Gone(n)'
  BY <1>19 DEF ServiceReady, Publish
<1>20. ASSUME NEW m \in Nodes, ReadyPanics(m)  PROVE Gone(n)'
  BY <1>20 DEF ReadyPanics, DropGroup, KillGroup, May
<1>21. ASSUME NEW m \in Nodes, LeaderExits(m)  PROVE Gone(n)'
  BY <1>21 DEF LeaderExits
<1>22. ASSUME NEW m \in Nodes, LeaderForks(m)  PROVE Gone(n)'
  BY <1>22 DEF LeaderForks
<1>23. ASSUME NEW m \in Nodes, KidExits(m)  PROVE Gone(n)'
  BY <1>23 DEF KidExits
<1>24. ASSUME NEW m \in Nodes, ReaderGivesUp(m)  PROVE Gone(n)'
  BY <1>24 DEF ReaderGivesUp
<1>25. ASSUME FirstSigint  PROVE Gone(n)'
  BY <1>25 DEF FirstSigint, Request
<1>26. ASSUME SecondSigint  PROVE Gone(n)'
  BY <1>26 DEF SecondSigint
<1>27. ASSUME MainExits  PROVE Gone(n)'
  BY <1>27 DEF MainExits
<1>28. ASSUME OperatorInterrupts  PROVE Gone(n)'
  BY <1>28 DEF OperatorInterrupts
<1>29. ASSUME StdoutCloses  PROVE Gone(n)'
  BY <1>29 DEF StdoutCloses
<1>30. ASSUME Over  PROVE Gone(n)'
  BY <1>30 DEF Over, vars
<1>31. ASSUME UNCHANGED vars  PROVE Gone(n)'
  BY <1>31 DEF vars
<1> QED
  BY <1>1, <1>2, <1>3, <1>4, <1>5, <1>6, <1>7, <1>8, <1>9, <1>10, <1>11, <1>12,
     <1>13, <1>14, <1>15, <1>16, <1>17, <1>18, <1>19, <1>20, <1>21, <1>22, <1>23,
     <1>24, <1>25, <1>26, <1>27, <1>28, <1>29, <1>30, <1>31
     DEF Next, NodeStep, ProbePasses, Listen, ProcessStep

\* A settled node whose termination did not fail is gone, whatever its
\* descendants did.
THEOREM SettledAreGone == Spec => []SettledNodesAreGone
<1>1. Init => GoneInv
  BY DEF Init, GoneInv, Gone
<1>2. GoneInv => SettledNodesAreGone
  BY DEF GoneInv, Gone, SettledNodesAreGone
<1> QED
  BY <1>1, <1>2, GoneStep, LifecycleHolds, PTL DEF Spec
-----------------------------------------------------------------------------
(* Aborts and failed services.                                             *)

\* What a step of node m's future has to do with failures: a new abort comes
\* from a service that failed or panicked in this step, and a service fails
\* only in a step after which the group is coming down.
Blames(m) ==
    /\ reason = "none" /\ reason' = "aborted" =>
          m \in Services /\ (outcome'[m].label = "failed" \/ pc'[m] = "panicked")
    /\ m \in Services /\ outcome'[m].label = "failed" =>
          outcome[m].label = "failed" \/ reason' # "none"
    /\ outcome' = outcome \/ \E o \in Outcomes : outcome' = [outcome EXCEPT ![m] = o]

\* Each step of a node's future blames the right node.
LEMMA NodeStepBlames ==
    ASSUME TypeOK, LifecycleInv, NEW m \in Nodes, NodeStep(m)
    PROVE  Blames(m)
<1> USE OutcomeTypes, StatusTypes, OutcomeLabels
    DEF TypeOK, LifecycleInv, Lifecycle, Blames, Reasons, Tasks, At, nodeVars, mainVars
<1>1. CASE NeverRan(m)
  BY <1>1 DEF NeverRan, ReportFinished
<1>2. CASE StartPanics(m)
  BY <1>2 DEF StartPanics, Starts
<1>3. CASE Spawn(m)
  BY <1>3 DEF Spawn, Starts
<1>4. CASE SpawnFails(m)
  BY <1>4 DEF SpawnFails, Starts, Request
<1>5. CASE Kill(m)
  BY <1>5 DEF Kill, KillGroup, May
<1>6. CASE KillDenied(m)
  BY <1>6 DEF KillDenied, Settle, ReportFinished, Verdict, DropGroup, KillGroup, May
<1>7. CASE Collect(m)
  BY <1>7 DEF Collect, Settle, ReportFinished, Verdict
<1>8. CASE TaskShutDown(m)
  BY <1>8 DEF TaskShutDown, BeginStop, TerminatedExitCode
<1>9. CASE TaskTimesOut(m)
  BY <1>9 DEF TaskTimesOut, BeginStop
<1>10. CASE TaskExits(m)
  BY <1>10 DEF TaskExits, Settle, ReportFinished, Verdict, CaptureExit
<1>11. CASE TaskWaitFails(m)
  BY <1>11 DEF TaskWaitFails, BeginStop
<1>12. CASE StartupShutDown(m)
  BY <1>12 DEF StartupShutDown, BeginStop, Publish
<1>13. CASE StartupTimesOut(m)
  BY <1>13 DEF StartupTimesOut, BeginStop, Publish, Request, UnchangedButReason
<1>14. CASE ServiceExits(m)
  BY <1>14 DEF ServiceExits, CaptureExit, Settle, ReportFinished, Verdict, Request,
     UnchangedButReason
<1>15. CASE ServiceWaitFails(m)
  BY <1>15 DEF ServiceWaitFails, Settle, ReportFinished, Verdict, DropGroup,
     KillGroup, May, Request, UnchangedButReason
<1>16. CASE ServingShutDown(m)
  BY <1>16 DEF ServingShutDown, BeginStop
<1>17. CASE ServingDeath(m)
  BY <1>17 DEF ServingDeath, BeginStop, Request, UnchangedButReason
<1>18. CASE Record(m)
  BY <1>18 DEF Record, Request
<1> QED
  BY <1>1, <1>2, <1>3, <1>4, <1>5, <1>6, <1>7, <1>8, <1>9, <1>10, <1>11, <1>12,
     <1>13, <1>14, <1>15, <1>16, <1>17, <1>18 DEF NodeStep

\* An abort has a culprit, and a failed service brings the group down.
THEOREM AbortCulprit == Spec => []AbortsHaveACulprit
<1>1. Init => AbortsHaveACulprit
  BY OutcomeLabels, NodesAssumption DEF Init, AbortsHaveACulprit
<1>2. TypeOK /\ LifecycleInv /\ AbortsHaveACulprit /\ [Next]_vars => AbortsHaveACulprit'
  <2> SUFFICES ASSUME TypeOK, LifecycleInv, AbortsHaveACulprit, [Next]_vars
               PROVE  AbortsHaveACulprit'
    OBVIOUS
  <2>1. \A n \in Nodes : Monotone(n)
    BY MonotoneStep
  <2>2. Services \subseteq Nodes
    BY NodesAssumption
  <2>3. ASSUME NEW m \in Nodes, NodeStep(m)  PROVE AbortsHaveACulprit'
    <3>1. Blames(m) /\ TypeOK'
      BY <2>3, NodeStepBlames, TypeOKStep
    <3>2. reason' = "aborted" =>
             \E s \in Services : outcome'[s].label = "failed" \/ pc'[s] = "panicked"
      <4>1. CASE reason = "none"
        BY <3>1, <4>1 DEF Blames
      <4>2. CASE reason # "none" /\ reason' = "aborted"
        <5>1. reason = "aborted"
          BY <4>2, ReasonIsFinal
        <5>2. PICK s \in Services : outcome[s].label = "failed" \/ pc[s] = "panicked"
          BY <5>1 DEF AbortsHaveACulprit
        <5> QED
          BY <5>2, <2>1, <2>2, OutcomeLabels DEF Monotone
      <4> QED
        BY <4>1, <4>2
    <3>3. ASSUME NEW s \in Services, outcome'[s].label = "failed"  PROVE reason' # "none"
      <4>1. outcome[s].label = "failed" \/ reason' # "none"
        BY <3>1, <3>3, <2>2 DEF Blames, TypeOK
      <4>2. outcome[s].label = "failed" => reason # "none"
        BY DEF AbortsHaveACulprit
      <4> QED
        BY <4>1, <4>2, ReasonIsFinal
    <3> QED
      BY <3>2, <3>3 DEF AbortsHaveACulprit
  <2>4. ASSUME UNCHANGED outcome,
               \A n \in Nodes : pc[n] = "panicked" => pc'[n] = "panicked",
               reason' = reason \/ (reason = "none" /\ reason' = "cancelled")
        PROVE  AbortsHaveACulprit'
    BY <2>4, <2>2 DEF AbortsHaveACulprit
  <2>5. ASSUME NEW m \in Nodes, ProbePasses(m) \/ ProcessStep(m)
        PROVE  UNCHANGED <<outcome, reason>>
    BY <2>5 DEF ProbePasses, ServiceReady, ReadyPanics, ProcessStep, LeaderExits,
       LeaderForks, KidExits, ReaderGivesUp, nodeVars, mainVars
  <2>6. ASSUME Listen \/ MainExits \/ OperatorInterrupts \/ StdoutCloses \/ Over
               \/ UNCHANGED vars
        PROVE  /\ UNCHANGED outcome
               /\ reason' = reason \/ (reason = "none" /\ reason' = "cancelled")
    BY <2>6 DEF Listen, FirstSigint, SecondSigint, MainExits, OperatorInterrupts,
       StdoutCloses, Over, Request, vars, nodeVars, mainVars
  <2>7. \A n \in Nodes : pc[n] = "panicked" => pc'[n] = "panicked"
    BY <2>1 DEF Monotone
  <2> QED
    BY <2>3, <2>4, <2>5, <2>6, <2>7 DEF Next
<1> QED
  BY <1>1, <1>2, LifecycleHolds, PTL DEF Spec
-----------------------------------------------------------------------------
(* Skipped nodes.                                                          *)

\* A dependency that refuses keeps refusing.
LEMMA RefusalsLast ==
    ASSUME NEW d \in Nodes, Monotone(d), Refuses(d)
    PROVE  Refuses(d)'
BY DEF Monotone, Refuses

\* Only never_ran decides that a node is skipped.
LEMMA SkipNeeds ==
    ASSUME TypeOK, LifecycleInv, [Next]_vars, NEW n \in Nodes,
           outcome[n] # Skipped, outcome'[n] = Skipped
    PROVE  NeverRan(n)
<1>1. ASSUME NEW m \in Nodes, NodeStep(m)  PROVE NeverRan(n)
  <2>1. CASE NeverRan(m)
    BY <2>1 DEF NeverRan, ReportFinished, TypeOK
  <2>2. CASE ~NeverRan(m)
    <3>1. \/ outcome' = outcome
          \/ outcome' = [outcome EXCEPT ![m] = outcome[m]]
          \/ \E o : o # Skipped /\ outcome' = [outcome EXCEPT ![m] = o]
      BY <1>1, <2>2, OutcomesDiffer
         DEF NodeStep, StartPanics, Spawn, SpawnFails, Kill, KillDenied,
         Collect, TaskShutDown, TaskTimesOut, TaskExits, TaskWaitFails,
         StartupShutDown, StartupTimesOut, ServiceExits, ServiceWaitFails,
         ServingShutDown, ServingDeath, Record, BeginStop, Settle, ReportFinished, nodeVars
    <3> QED
      BY <3>1 DEF TypeOK
  <2> QED
    BY <2>1, <2>2
<1>2. ASSUME NEW m \in Nodes, ProbePasses(m) \/ ProcessStep(m)  PROVE FALSE
  BY <1>2 DEF ProbePasses, ServiceReady, ReadyPanics, ProcessStep, LeaderExits,
     LeaderForks, KidExits, ReaderGivesUp, nodeVars
<1>3. ASSUME Listen \/ MainExits \/ OperatorInterrupts \/ StdoutCloses \/ Over
             \/ UNCHANGED vars
      PROVE  FALSE
  BY <1>3 DEF Listen, FirstSigint, SecondSigint, MainExits, OperatorInterrupts,
     StdoutCloses, Over, vars, nodeVars
<1> QED
  BY <1>1, <1>2, <1>3 DEF Next

\* A node is skipped for a reason, and owns no process.
THEOREM SkipsJustified == Spec => []SkipsAreJustified
<1>1. Init => SkipsAreJustified
  BY OutcomesDiffer DEF Init, SkipsAreJustified
<1>2. TypeOK /\ LifecycleInv /\ SkipsAreJustified /\ [Next]_vars => SkipsAreJustified'
  <2> SUFFICES ASSUME TypeOK, LifecycleInv, SkipsAreJustified, [Next]_vars,
                      NEW n \in Nodes, outcome'[n] = Skipped
               PROVE  /\ leader'[n] = "none"
                      /\ \/ reason' # "none"
                         \/ \E i \in DOMAIN DependsOn[n] : Refuses(Dep(n, i))'
    BY DEF SkipsAreJustified
  <2>1. \A d \in Nodes : Monotone(d)
    BY MonotoneStep
  <2>2. \A i \in DOMAIN DependsOn[n] : Dep(n, i) \in Nodes
    BY NodesAssumption DEF Dep
  <2>3. /\ leader[n] = "none" /\ leader'[n] = "none"
        /\ reason # "none" \/ \E i \in DOMAIN DependsOn[n] : Refuses(Dep(n, i))
    <3>1. CASE outcome[n] = Skipped
      <4>1. pc[n] # "waiting"
        BY <3>1, OutcomesDiffer DEF LifecycleInv, Lifecycle
      <4> QED
        BY <3>1, <4>1, <2>1 DEF SkipsAreJustified, Monotone
    <3>2. CASE outcome[n] # Skipped
      <4>1. NeverRan(n)
        BY <3>2, SkipNeeds
      <4>2. leader[n] = "none" /\ leader' = leader
        BY <4>1 DEF NeverRan, At, LifecycleInv, Lifecycle, procVars
      <4> QED
        BY <4>1, <4>2 DEF NeverRan, DepsRefused
    <3> QED
      BY <3>1, <3>2
  <2>4. reason # "none" => reason' # "none"
    BY ReasonIsFinal
  <2> QED
    BY <2>1, <2>2, <2>3, <2>4, RefusalsLast
<1> QED
  BY <1>1, <1>2, LifecycleHolds, PTL DEF Spec
-----------------------------------------------------------------------------
(* Draining.                                                               *)

Pending == {t \in Tasks : pc[t] # "done"}

\* Only Record touches the counter, moves a future to done or drains.
LEMMA OnlyRecordCounts ==
    ASSUME TypeOK, LifecycleInv, [Next]_vars, ~(\E m \in Nodes : Record(m))
    PROVE  /\ remaining' = remaining
           /\ Pending' = Pending
           /\ reason' = "drained" => reason = "drained"
<1> SUFFICES /\ remaining' = remaining
             /\ \A t \in Nodes : pc'[t] = "done" <=> pc[t] = "done"
             /\ reason' = "drained" => reason = "drained"
  BY DEF Pending, Tasks
<1>1. ASSUME NEW m \in Nodes, NodeStep(m)
      PROVE  /\ remaining' = remaining
             /\ \/ pc' = pc
                \/ pc[m] # "done" /\ \E p : p # "done" /\ pc' = [pc EXCEPT ![m] = p]
             /\ reason' = "drained" => reason = "drained"
  BY <1>1 DEF NodeStep, NeverRan, StartPanics, Spawn, SpawnFails, Kill, KillDenied,
     Collect, TaskShutDown, TaskTimesOut, TaskExits, TaskWaitFails, StartupShutDown,
     StartupTimesOut, ServiceExits, ServiceWaitFails, ServingShutDown, ServingDeath,
     Starts, At, BeginStop, Settle, ReportFinished, Request, UnchangedButReason, mainVars
<1>2. ASSUME NEW m \in Nodes, ProbePasses(m) \/ ProcessStep(m)
      PROVE  /\ UNCHANGED <<remaining, reason>>
             /\ \/ pc' = pc
                \/ pc[m] # "done" /\ \E p : p # "done" /\ pc' = [pc EXCEPT ![m] = p]
  BY <1>2 DEF ProbePasses, ServiceReady, ReadyPanics, ProcessStep, LeaderExits,
     LeaderForks, KidExits, ReaderGivesUp, At, nodeVars, mainVars
<1>3. ASSUME Listen \/ MainExits \/ OperatorInterrupts \/ StdoutCloses \/ Over
             \/ UNCHANGED vars
      PROVE  /\ UNCHANGED <<remaining, pc>>
             /\ reason' = "drained" => reason = "drained"
  BY <1>3 DEF Listen, FirstSigint, SecondSigint, MainExits, OperatorInterrupts,
     StdoutCloses, Over, Request, vars, nodeVars, mainVars
<1> QED
  BY <1>1, <1>2, <1>3 DEF Next, TypeOK

\* The counter is the number of unrecorded tasks and the group is drained
\* only when there is none, for any number of tasks.
THEOREM DrainIsLast == Spec => []DrainedAfterLastTask
<1> DEFINE Inv == /\ remaining = Cardinality(Pending)
                  /\ reason = "drained" => Pending = {}
<1>1. Init => Inv
  <2> SUFFICES ASSUME Init  PROVE Inv
    OBVIOUS
  <2>1. Pending = Tasks
    BY DEF Init, Pending, Tasks
  <2> QED
    BY <2>1 DEF Init
<1>2. TypeOK /\ LifecycleInv /\ Inv /\ [Next]_vars => Inv'
  <2> SUFFICES ASSUME TypeOK, LifecycleInv, Inv, [Next]_vars  PROVE Inv'
    OBVIOUS
  <2>1. ASSUME NEW m \in Nodes, Record(m)  PROVE Inv'
    <3>1. IsFiniteSet(Pending) /\ Cardinality(Pending) \in Nat
      BY TasksAreFinite, FS_Subset, FS_CardinalityType DEF Pending
    <3>2. Pending' = Pending \ {m}
      BY <2>1 DEF Record, At, Pending, Tasks, TypeOK
    <3>3. CASE m \in Services
      <4>1. Pending' = Pending
        BY <3>2, <3>3 DEF Pending, Tasks
      <4> QED
        BY <2>1, <3>3, <4>1 DEF Record
    <3>4. CASE m \in Tasks
      <4>1. m \in Pending
        BY <2>1, <3>4 DEF Record, At, Pending
      <4>2. Cardinality(Pending') = Cardinality(Pending) - 1
        BY <3>1, <3>2, <4>1, FS_RemoveElement
      <4>3. remaining' = remaining - 1
        BY <2>1, <3>4 DEF Record, Tasks
      <4>4. reason' = "drained" => reason = "drained" \/ remaining = 1
        BY <2>1, <3>4 DEF Record, Tasks, Request
      <4>5. remaining = 1 => Pending' = {}
        <5> SUFFICES ASSUME remaining = 1  PROVE Pending' = {}
          OBVIOUS
        <5>1. IsFiniteSet(Pending') /\ Cardinality(Pending') = 0
          BY <3>1, <3>2, <4>2, FS_RemoveElement
        <5> QED
          BY <5>1, FS_EmptySet
      <4>6. reason = "drained" => Pending' = {}
        BY <3>2
      <4> QED
        BY <4>2, <4>3, <4>4, <4>5, <4>6
    <3> QED
      BY <3>3, <3>4 DEF Tasks
  <2>2. CASE ~(\E m \in Nodes : Record(m))
    BY <2>2, OnlyRecordCounts
  <2> QED
    BY <2>1, <2>2
<1>3. Inv => DrainedAfterLastTask
  BY DEF DrainedAfterLastTask, Pending
<1> QED
  BY <1>1, <1>2, <1>3, LifecycleHolds, PTL DEF Spec
-----------------------------------------------------------------------------
(* Exit code zero.                                                          *)

\* What main can rely on when it computes the exit code: only a lost stdout
\* makes a future panic, a future past its select! has decided, and a task
\* never fails with code 0, because run_task compares the whole status with
\* success before it reads the code.
Decided(n) ==
    /\ pc[n] = "panicked" => ~stdoutOpen
    /\ pc[n] \in {"stopping", "collecting", "finished", "done"} =>
          outcome[n].label # "none"
    /\ n \in Tasks /\ outcome[n].label = "failed" => outcome[n].code # 0

CleanInv == (\A n \in Nodes : Decided(n)) /\ ZeroExitIsClean

\* A task that did not succeed has a code of its own.
LEMMA TaskCodes ==
    ASSUME NEW s \in Statuses \cup {NoStatus}, s # [how |-> "exit", num |-> 0]
    PROVE  StatusCode(s) # 0
<1>1. CASE s \in [how : {"exit"}, num : Codes]
  BY <1>1 DEF StatusCode
<1>2. CASE s \in [how : {"signal"}, num : Signals]
  BY <1>2 DEF StatusCode
<1>3. CASE s = NoStatus
  BY <1>3 DEF StatusCode, NoStatus
<1> QED
  BY <1>1, <1>2, <1>3 DEF Statuses

\* The code of a failure is the code it was built with.
LEMMA FailedFields ==
    \A c : Failed(c).label = "failed" /\ Failed(c).code = c
BY DEF Failed

\* Every step of node m's future keeps what main relies on.
LEMMA DecidedNodeStep ==
    ASSUME TypeOK, LifecycleInv, \A n \in Nodes : Decided(n),
           NEW m \in Nodes, NodeStep(m), NEW n \in Nodes
    PROVE  Decided(n)' /\ exitCode = -1 /\ exitCode' = exitCode
<1> USE OutcomeLabels, FailedFields
    DEF TypeOK, LifecycleInv, Lifecycle, Decided, CanReport, Tasks, PcValues, At,
    Running, nodeVars, procVars, mainVars
<1>1. CASE NeverRan(m)
  BY <1>1 DEF NeverRan, ReportFinished
<1>2. CASE StartPanics(m)
  BY <1>2 DEF StartPanics, Starts
<1>3. CASE Spawn(m)
  BY <1>3 DEF Spawn, Starts
<1>4. CASE SpawnFails(m)
  BY <1>4 DEF SpawnFails, Starts
<1>5. CASE Kill(m)
  BY <1>5 DEF Kill
<1>6. CASE KillDenied(m)
  BY <1>6 DEF KillDenied, Settle, ReportFinished, Verdict, DropGroup
<1>7. CASE Collect(m)
  BY <1>7 DEF Collect, Settle, ReportFinished
<1>8. CASE TaskShutDown(m)
  BY <1>8 DEF TaskShutDown, BeginStop, TerminatedExitCode
<1>9. CASE TaskTimesOut(m)
  BY <1>9 DEF TaskTimesOut, BeginStop
<1>10. CASE TaskExits(m)
  BY <1>10, TaskCodes DEF TaskExits, Settle, ReportFinished
<1>11. CASE TaskWaitFails(m)
  BY <1>11 DEF TaskWaitFails, BeginStop
<1>12. CASE StartupShutDown(m)
  BY <1>12 DEF StartupShutDown, BeginStop
<1>13. CASE StartupTimesOut(m)
  BY <1>13 DEF StartupTimesOut, BeginStop, UnchangedButReason
<1>14. CASE ServiceExits(m)
  BY <1>14 DEF ServiceExits, Settle, ReportFinished, UnchangedButReason
<1>15. CASE ServiceWaitFails(m)
  BY <1>15 DEF ServiceWaitFails, Settle, ReportFinished, UnchangedButReason
<1>16. CASE ServingShutDown(m)
  BY <1>16 DEF ServingShutDown, BeginStop
<1>17. CASE ServingDeath(m)
  BY <1>17 DEF ServingDeath, BeginStop, UnchangedButReason
<1>18. CASE Record(m)
  BY <1>18 DEF Record
<1> QED
  BY <1>1, <1>2, <1>3, <1>4, <1>5, <1>6, <1>7, <1>8, <1>9,
     <1>10, <1>11, <1>12, <1>13, <1>14, <1>15, <1>16, <1>17, <1>18 DEF NodeStep

\* Steps of the probes, the children, the operator and the terminal.
LEMMA DecidedEnvStep ==
    ASSUME TypeOK, LifecycleInv, \A n \in Nodes : Decided(n), NEW n \in Nodes,
           \/ \E m \in Nodes : ProbePasses(m) \/ ProcessStep(m)
           \/ FirstSigint
           \/ OperatorInterrupts
           \/ StdoutCloses
    PROVE  Decided(n)' /\ exitCode = -1 /\ exitCode' = exitCode
<1> USE DEF TypeOK, LifecycleInv, Lifecycle, Decided, CanReport, Tasks, At,
        Running, nodeVars, procVars, mainVars
<1>1. ASSUME NEW m \in Nodes, ServiceReady(m)
      PROVE  Decided(n)' /\ exitCode = -1 /\ exitCode' = exitCode
  BY <1>1 DEF ServiceReady
<1>2. ASSUME NEW m \in Nodes, ReadyPanics(m)
      PROVE  Decided(n)' /\ exitCode = -1 /\ exitCode' = exitCode
  BY <1>2 DEF ReadyPanics
<1>3. ASSUME NEW m \in Nodes, ProcessStep(m)
      PROVE  Decided(n)' /\ exitCode = -1 /\ exitCode' = exitCode
  <2>1. UNCHANGED <<pc, outcome, stdoutOpen, exitCode>> /\ exitCode = -1
    BY <1>3 DEF ProcessStep, LeaderExits, LeaderForks, KidExits, ReaderGivesUp
  <2> QED
    BY <2>1
<1>4. CASE FirstSigint
  BY <1>4 DEF FirstSigint
<1>5. CASE OperatorInterrupts
  BY <1>5 DEF OperatorInterrupts
<1>6. CASE StdoutCloses
  BY <1>6 DEF StdoutCloses
<1> QED
  BY <1>1, <1>2, <1>3, <1>4, <1>5, <1>6 DEF ProbePasses

\* exit_code is 0 only if every record contributes 0: the worst outcome
\* bounds them all.
LEMMA WorstIsZero ==
    ASSUME TypeOK, 0 \in WorstOutcomes, NEW n \in Recorded
    PROVE  ExitContribution(outcome[n]) = 0
<1>1. n \in Nodes /\ outcome[n] \in Outcomes
  BY DEF Recorded, TypeOK
<1>2. ExitContribution(outcome[n]) \in Nat
  BY <1>1 DEF ExitContribution, Outcomes
<1>3. ExitContribution(outcome[n]) <= 0
  BY DEF WorstOutcomes, Contributions
<1> QED
  BY <1>2, <1>3

\* main's exit code hides no failure.
LEMMA MainIsClean ==
    ASSUME TypeOK, \A n \in Nodes : Decided(n), MainExits, exitCode' = 0, stdoutOpen,
           NEW n \in Nodes
    PROVE  /\ pc[n] = "done"
           /\ \/ outcome[n].label \in {"succeeded", "stopped"}
              \/ n \in Services /\ outcome[n] = Failed(0)
<1>1. 0 \in WorstOutcomes
  BY DEF MainExits
<1>2. pc[n] = "done"
  BY DEF MainExits, Decided
<1>3. ExitContribution(outcome[n]) = 0
  BY <1>1, <1>2, WorstIsZero DEF Recorded
<1>4. outcome[n] \in Outcomes /\ outcome[n].label # "none"
  BY <1>2 DEF Decided, TypeOK
<1>5. CASE outcome[n].label \in {"succeeded", "stopped"}
  BY <1>2, <1>5
<1>6. CASE outcome[n].label = "skipped"
  BY <1>3, <1>6 DEF ExitContribution
<1>7. CASE outcome[n].label = "failed"
  <2>1. outcome[n].code = 0
    BY <1>3, <1>7 DEF ExitContribution
  <2>2. n \in Services
    BY <2>1, <1>7 DEF Decided, Tasks
  <2>3. outcome[n] = Failed(0)
    BY <1>4, <1>7, <2>1 DEF Failed, Outcomes
  <2> QED
    BY <1>2, <2>2, <2>3
<1> QED
  BY <1>4, <1>5, <1>6, <1>7 DEF Outcomes

\* Exit code 0 with a reader on stdout means that every node has a record
\* that succeeded or was stopped, or is a service that exited zero: for every
\* graph and every combination of faults.
THEOREM ZeroIsClean == Spec => []ZeroExitIsClean
<1>1. Init => CleanInv
  BY OutcomeLabels DEF Init, CleanInv, Decided, ZeroExitIsClean
<1>2. TypeOK /\ LifecycleInv /\ CleanInv /\ [Next]_vars => CleanInv'
  <2> SUFFICES ASSUME TypeOK, LifecycleInv, CleanInv, [Next]_vars  PROVE CleanInv'
    OBVIOUS
  <2>1. \A n \in Nodes : Decided(n)
    BY DEF CleanInv
  <2>2. ASSUME \A n \in Nodes : Decided(n)', exitCode = -1, exitCode' = exitCode
        PROVE  CleanInv'
    BY <2>2 DEF CleanInv, ZeroExitIsClean
  <2>3. ASSUME NEW m \in Nodes, NodeStep(m)  PROVE CleanInv'
    <3>1. \A n \in Nodes : Decided(n)' /\ exitCode = -1 /\ exitCode' = exitCode
      BY <2>1, <2>3, DecidedNodeStep
    <3> QED
      BY <3>1, <2>2
  <2>4. ASSUME \/ \E m \in Nodes : ProbePasses(m) \/ ProcessStep(m)
               \/ FirstSigint \/ OperatorInterrupts \/ StdoutCloses
        PROVE  CleanInv'
    <3>1. \A n \in Nodes : Decided(n)'
      BY <2>1, <2>4, DecidedEnvStep
    <3>2. exitCode = -1 /\ exitCode' = exitCode
      BY <2>4 DEF ProbePasses, ServiceReady, ReadyPanics, ProcessStep, LeaderExits,
         LeaderForks, KidExits, ReaderGivesUp, FirstSigint, OperatorInterrupts,
         StdoutCloses, At, Running, mainVars
    <3> QED
      BY <3>1, <3>2, <2>2
  <2>5. CASE SecondSigint
    BY <2>5, <2>1 DEF SecondSigint, CleanInv, ZeroExitIsClean, Decided, nodeVars
  <2>6. CASE MainExits
    <3>1. \A n \in Nodes : Decided(n)'
      BY <2>1, <2>6 DEF MainExits, Decided, nodeVars
    <3>2. UNCHANGED <<pc, outcome, stdoutOpen>>
      BY <2>6 DEF MainExits, nodeVars
    <3>3. ZeroExitIsClean'
      BY <2>1, <2>6, <3>2, MainIsClean DEF ZeroExitIsClean
    <3> QED
      BY <3>1, <3>3 DEF CleanInv
  <2>7. CASE Over \/ UNCHANGED vars
    BY <2>7 DEF Over, vars, nodeVars, mainVars, CleanInv, Decided, ZeroExitIsClean
  <2> QED
    BY <2>3, <2>4, <2>5, <2>6, <2>7 DEF Next, Listen
<1>3. CleanInv => ZeroExitIsClean
  BY DEF CleanInv
<1> QED
  BY <1>1, <1>2, <1>3, LifecycleHolds, PTL DEF Spec
=============================================================================
