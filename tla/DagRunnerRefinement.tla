------------------------ MODULE DagRunnerRefinement ------------------------
(***************************************************************************)
(* DagRunner implements RunGroup: the initial state maps to the initial     *)
(* state, and each step to a step of the group or to none.                 *)
(***************************************************************************)
EXTENDS DagRunnerProofs

\* A future that reaches spawn is one the group may begin.
LEMMA StartsMayBegin ==
    ASSUME TypeOK, NEW m \in Nodes, Starts(m)
    PROVE  Group!MayBegin(m)
<1>1. Phase[m] = "pending"
  BY DEF Starts, At, Phase
<1>2. ASSUME NEW i \in DOMAIN DependsOn[m]
      PROVE  PublishedVerdict[Dep(m, i)] = "ready"
  <2>1. Dep(m, i) \in Nodes
    BY NodesAssumption DEF Dep
  <2>2. readiness[Dep(m, i)] = "ready"
    BY DEF Starts, DepsReady
  <2> QED
    BY <2>1, <2>2 DEF PublishedVerdict, Refuses
<1>3. \A d \in Needs[m] : PublishedVerdict[d] = "ready"
  BY <1>2 DEF Needs
<1> QED
  BY <1>1, <1>3 DEF Group!MayBegin, Starts

\* A future whose await_deps returned false depends on a refused node.
LEMMA RefusedDeps ==
    ASSUME NEW m \in Nodes, DepsRefused(m)
    PROVE  \E d \in Needs[m] : PublishedVerdict[d] = "unavailable"
<1>1. PICK i \in DOMAIN DependsOn[m] : Refuses(Dep(m, i))
  BY DEF DepsRefused
<1>2. Dep(m, i) \in Nodes /\ Dep(m, i) \in Needs[m]
  BY NodesAssumption DEF Dep, Needs
<1> QED
  BY <1>1, <1>2 DEF PublishedVerdict

\* The tail of run_node ends the node: it publishes a verdict at the latest
\* now, whether or not its report panics.
LEMMA SettleEnds ==
    ASSUME TypeOK, LifecycleInv, NEW m \in Nodes, NEW o,
           pc[m] \in {"running", "starting", "serving", "stopping", "collecting"},
           Settle(m, o), Group!FailureOf(m)
    PROVE  Group!End(m)
<1> DEFINE v == Verdict(m, o)
<1>1. v \in {"ready", "unavailable"}
  BY DEF TypeOK, Verdict
<1>2. Phase[m] = "up" /\ Phase' = [Phase EXCEPT ![m] = "over"]
  BY DEF TypeOK, Settle, ReportFinished, Phase
<1>3. PublishedVerdict' = [PublishedVerdict EXCEPT ![m] = v]
  <2>1. readiness' = [readiness EXCEPT ![m] = v]
    BY DEF Settle, ReportFinished
  <2>2. \E p \in {"finished", "panicked"} : pc' = [pc EXCEPT ![m] = p]
    BY DEF Settle, ReportFinished
  <2> HIDE DEF v
  <2> QED
    BY <1>1, <2>1, <2>2 DEF TypeOK, PublishedVerdict, Refuses
<1>4. PublishedVerdict[m] = readiness[m]
  BY DEF PublishedVerdict, Refuses
<1>5. v \in IF PublishedVerdict[m] # "none" THEN {PublishedVerdict[m]}
           ELSE IF m \in Services THEN {"unavailable"}
           ELSE {"ready", "unavailable"}
  <2>1. CASE m \in Services
    BY <2>1, <1>4 DEF Verdict
  <2>2. CASE m \notin Services
    <3>1. readiness[m] = "none"
      BY <2>2 DEF LifecycleInv, Lifecycle, Tasks
    <3> QED
      BY <3>1, <2>2, <1>1, <1>4
  <2> QED
    BY <2>1, <2>2
<1> HIDE DEF v
<1> QED
  BY <1>2, <1>3, <1>5 DEF Group!End

\* Each step of the runner is a step of the group or stutters.
LEMMA StepImplements ==
    TypeOK /\ LifecycleInv /\ [Next]_vars => [Group!Next]_(Group!vars)
<1> SUFFICES ASSUME TypeOK, LifecycleInv, [Next]_vars
             PROVE  [Group!Next]_(Group!vars)
  OBVIOUS
<1> USE DEF TypeOK, LifecycleInv, Lifecycle, PcValues, Tasks, At, Running,
        nodeVars, procVars, mainVars, Phase, PublishedVerdict, Refuses
<1>1. ASSUME NEW m \in Nodes, NeverRan(m)  PROVE Group!Skip(m)
  <2>0. /\ pc[m] = "waiting"
        /\ \E p \in {"finished", "panicked"} : pc' = [pc EXCEPT ![m] = p]
    BY <1>1 DEF NeverRan, ReportFinished
  <2>1. Phase[m] = "pending" /\ Phase' = [Phase EXCEPT ![m] = "over"]
    <3>1. PICK p \in {"finished", "panicked"} : pc' = [pc EXCEPT ![m] = p]
      BY <2>0
    <3>2. CASE p = "finished"
      BY <2>0, <3>1, <3>2
    <3>3. CASE p = "panicked"
      BY <2>0, <3>1, <3>3
    <3> QED
      BY <3>2, <3>3
  <2>2. PublishedVerdict' = [PublishedVerdict EXCEPT ![m] = "unavailable"]
    BY <1>1 DEF NeverRan, ReportFinished
  <2>3. reason # "none" \/ \E d \in Needs[m] : PublishedVerdict[d] = "unavailable"
    <3>1. DepsRefused(m) \/ reason # "none"
      BY <1>1 DEF NeverRan
    <3> HIDE DEF PublishedVerdict
    <3> QED
      BY <3>1, RefusedDeps
  <2>4. UNCHANGED reason
    BY <1>1 DEF NeverRan
  <2> QED
    BY <2>1, <2>2, <2>3, <2>4 DEF Group!Skip
<1>2. ASSUME NEW m \in Nodes, StartPanics(m)  PROVE Group!Fizzle(m)
  BY <1>2, StartsMayBegin DEF StartPanics, Starts, Group!Fizzle, Group!FailureOf
<1>3. ASSUME NEW m \in Nodes, Spawn(m)  PROVE Group!Begin(m)
  BY <1>3, StartsMayBegin DEF Spawn, Starts, Group!Begin
<1>4. ASSUME NEW m \in Nodes, SpawnFails(m)  PROVE Group!Fizzle(m)
  BY <1>4, StartsMayBegin DEF SpawnFails, Starts, Request, Group!Fizzle, Group!FailureOf
<1>5. ASSUME NEW m \in Nodes, Kill(m)  PROVE UNCHANGED Group!vars
  BY <1>5 DEF Kill, KillGroup, May, Group!vars
<1>6. ASSUME NEW m \in Nodes, KillDenied(m)  PROVE Group!End(m)
  <2>1. Group!FailureOf(m)
    BY <1>6 DEF KillDenied, Group!FailureOf
  <2>2. Settle(m, outcome[m])
    BY <1>6 DEF KillDenied
  <2>3. pc[m] \in {"running", "starting", "serving", "stopping", "collecting"}
    BY <1>6 DEF KillDenied
  <2> QED
    BY <2>1, <2>2, <2>3, SettleEnds
<1>7. ASSUME NEW m \in Nodes, Collect(m)  PROVE Group!End(m)
  <2>1. Group!FailureOf(m)
    BY <1>7 DEF Collect, Group!FailureOf
  <2>2. Settle(m, outcome[m])
    BY <1>7 DEF Collect
  <2>3. pc[m] \in {"running", "starting", "serving", "stopping", "collecting"}
    BY <1>7 DEF Collect
  <2> QED
    BY <2>1, <2>2, <2>3, SettleEnds
<1>8. ASSUME NEW m \in Nodes, TaskShutDown(m)  PROVE UNCHANGED Group!vars
  BY <1>8 DEF TaskShutDown, BeginStop, TerminatedExitCode, Group!vars
<1>9. ASSUME NEW m \in Nodes, TaskTimesOut(m)  PROVE UNCHANGED Group!vars
  BY <1>9 DEF TaskTimesOut, BeginStop, Group!vars
<1>10. ASSUME NEW m \in Nodes, TaskExits(m)  PROVE Group!End(m)
  BY <1>10, SettleEnds DEF TaskExits, Group!FailureOf
<1>11. ASSUME NEW m \in Nodes, TaskWaitFails(m)  PROVE UNCHANGED Group!vars
  BY <1>11 DEF TaskWaitFails, BeginStop, Group!vars
<1>12. ASSUME NEW m \in Nodes, StartupShutDown(m)  PROVE Group!Refuse(m)
  BY <1>12 DEF StartupShutDown, BeginStop, Publish, Group!Refuse
<1>13. ASSUME NEW m \in Nodes, StartupTimesOut(m)  PROVE Group!Refuse(m)
  BY <1>13 DEF StartupTimesOut, BeginStop, Publish, Request, UnchangedButReason,
     Group!Refuse
<1>14. ASSUME NEW m \in Nodes, ServiceExits(m)  PROVE Group!End(m)
  <2>1. Group!FailureOf(m)
    BY <1>14 DEF ServiceExits, Group!FailureOf, Request, UnchangedButReason
  <2>2. Settle(m, Failed(StatusCode(status[m])))
    BY <1>14 DEF ServiceExits
  <2>3. pc[m] \in {"running", "starting", "serving", "stopping", "collecting"}
    BY <1>14 DEF ServiceExits
  <2> QED
    BY <2>1, <2>2, <2>3, SettleEnds
<1>15. ASSUME NEW m \in Nodes, ServiceWaitFails(m)  PROVE Group!End(m)
  <2>1. Group!FailureOf(m)
    BY <1>15 DEF ServiceWaitFails, Group!FailureOf, Request, UnchangedButReason
  <2>2. Settle(m, Failed(1))
    BY <1>15 DEF ServiceWaitFails
  <2>3. pc[m] \in {"running", "starting", "serving", "stopping", "collecting"}
    BY <1>15 DEF ServiceWaitFails
  <2> QED
    BY <2>1, <2>2, <2>3, SettleEnds
<1>16. ASSUME NEW m \in Nodes, ServingShutDown(m)  PROVE UNCHANGED Group!vars
  BY <1>16 DEF ServingShutDown, BeginStop, Group!vars
<1>17. ASSUME NEW m \in Nodes, ServingDeath(m)  PROVE Group!Fail(m)
  BY <1>17 DEF ServingDeath, BeginStop, Request, UnchangedButReason, Group!Fail
<1>18. ASSUME NEW m \in Nodes, Record(m)  PROVE Group!Stop \/ UNCHANGED Group!vars
  BY <1>18 DEF Record, Request, Group!Stop, Group!vars
<1>19. ASSUME NEW m \in Nodes, ServiceReady(m)  PROVE Group!Offer(m)
  BY <1>19 DEF ServiceReady, Publish, Group!Offer
<1>20. ASSUME NEW m \in Nodes, ReadyPanics(m)  PROVE Group!End(m)
  BY <1>20 DEF ReadyPanics, DropGroup, KillGroup, May, Group!End, Group!FailureOf
<1>21. ASSUME NEW m \in Nodes, ProcessStep(m)  PROVE UNCHANGED Group!vars
  <2>1. UNCHANGED <<pc, readiness, reason>>
    BY <1>21 DEF ProcessStep, LeaderExits, LeaderForks, KidExits, ReaderGivesUp
  <2> QED
    BY <2>1 DEF Group!vars
<1>22. ASSUME Listen  PROVE Group!Stop \/ UNCHANGED Group!vars
  BY <1>22 DEF Listen, FirstSigint, SecondSigint, Request, Group!Stop, Group!vars
<1>23. ASSUME MainExits \/ OperatorInterrupts \/ StdoutCloses \/ Over \/ UNCHANGED vars
       PROVE  UNCHANGED Group!vars
  BY <1>23 DEF MainExits, OperatorInterrupts, StdoutCloses, Over, vars, Group!vars
<1> QED
  BY <1>1, <1>2, <1>3, <1>4, <1>5, <1>6, <1>7, <1>8, <1>9, <1>10, <1>11, <1>12,
     <1>13, <1>14, <1>15, <1>16, <1>17, <1>18, <1>19, <1>20, <1>21, <1>22, <1>23
     DEF Next, NodeStep, ProbePasses, Group!Next, Group!NodeNext

\* The runner implements the group it promises, for every graph and whatever
\* fails around it.
THEOREM RunnerImplementsGroup == Spec => ImplementsRunGroup
<1>1. Init => Group!Init
  BY DEF Init, Group!Init, Phase, PublishedVerdict, Refuses
<1> QED
  BY <1>1, StepImplements, LifecycleHolds, PTL DEF Spec, Group!Spec, ImplementsRunGroup
=============================================================================
