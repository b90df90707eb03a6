------------------------- MODULE AgentHarnessProofs -------------------------
(***************************************************************************)
(* AgentHarness for every set of names and every value of the caps and     *)
(* bounds: type correctness, the caps, the roster, and what happens to an  *)
(* accepted message.                                                       *)
(***************************************************************************)
EXTENDS AgentHarness, FiniteSetTheorems, SequenceTheorems, TLAPS

-----------------------------------------------------------------------------
(* Sequences                                                               *)

\* Queueing behind and then concatenating is concatenating and appending.
LEMMA AppendBehind ==
    ASSUME NEW S, NEW h \in Seq(S), NEW q \in Seq(S), NEW m \in S
    PROVE  h \o Append(q, m) = Append(h \o q, m)
  OBVIOUS

\* Handing out the head of the queue leaves the concatenation as it was.
LEMMA HeadMovesOver ==
    ASSUME NEW S, NEW h \in Seq(S), NEW q \in Seq(S), q # <<>>
    PROVE  Append(h, Head(q)) \o Tail(q) = h \o q
  OBVIOUS

LEMMA NothingBehind ==
    ASSUME NEW S, NEW h \in Seq(S)
    PROVE  h \o <<>> = h
  OBVIOUS

\* Updating one queue of many with a queue.
LEMMA QueueAt ==
    ASSUME NEW D, NEW S, NEW f \in [D -> Seq(S)], NEW a \in D,
           NEW q \in Seq(S)
    PROVE  [f EXCEPT ![a] = q] \in [D -> Seq(S)]
  OBVIOUS

LEMMA EntryAt ==
    ASSUME NEW D, NEW S, NEW f \in [D -> S], NEW a \in D, NEW v \in S
    PROVE  [f EXCEPT ![a] = v] \in [D -> S]
  OBVIOUS

\* What the queue operations of the model return.
LEMMA QueueOps ==
    ASSUME NEW S, NEW q \in Seq(S)
    PROVE  /\ <<>> \in Seq(S)
           /\ \A m \in S : Append(q, m) \in Seq(S)
           /\ q # <<>> => Head(q) \in S /\ Tail(q) \in Seq(S)
           /\ \A r \in Seq(S) : q \o r \in Seq(S)
  OBVIOUS

\* The waiters left after a timeout are waiters.
LEMMA OthersAreWaits ==
    ASSUME NEW S, NEW q \in Seq(S), NEW i \in 1..Len(q)
    PROVE  RemoveAt(q, i) \in Seq(S)
  BY DEF RemoveAt

-----------------------------------------------------------------------------
(* Type correctness                                                        *)

\* accept/2 keeps the types of what it may touch.
LEMMA AcceptKeepsTypes ==
    ASSUME TypeOK, NEW a \in Agents, NEW m \in Message, Accept(a, m)
    PROVE  /\ run' \in [Agents -> {"none", "live"} \cup Ended]
           /\ runs' \in [Agents -> Nat]
           /\ mailbox' \in [Agents -> Seq(Message)]
           /\ waiters' \in [Agents -> Seq(Wait)]
           /\ timers' \subseteq Agents \X Wait
           /\ expired' \subseteq Agents \X Wait
           /\ accepted' \in [Agents -> Seq(Message)]
           /\ handed' \in [Agents -> Seq(Message)]
           /\ lost' \subseteq Message
  <1>1. accepted' \in [Agents -> Seq(Message)] /\ expired' \subseteq Agents \X Wait
    BY DEF Accept, TypeOK
  <1>2. CASE AnswerWaiter(a, m)
    <2>1. waiters' \in [Agents -> Seq(Wait)]
      BY <1>2, QueueAt, QueueOps DEF AnswerWaiter, TypeOK
    <2>2. handed' \in [Agents -> Seq(Message)]
      BY <1>2, QueueAt, QueueOps DEF AnswerWaiter, TypeOK
    <2>3. timers' \subseteq Agents \X Wait
      BY <1>2 DEF AnswerWaiter, FirstTimer, TypeOK
    <2>4. lost' \subseteq Message
      BY <1>2 DEF AnswerWaiter, TypeOK
    <2>. QED  BY <1>1, <1>2, <2>1, <2>2, <2>3, <2>4 DEF AnswerWaiter, TypeOK
  <1>3. CASE WakeIdle(a, m)
    <2>1. handed' \in [Agents -> Seq(Message)]
      BY <1>3, QueueAt, QueueOps DEF WakeIdle, TypeOK
    <2>2. /\ run' \in [Agents -> {"none", "live"} \cup Ended]
          /\ runs' \in [Agents -> Nat]
      BY <1>3 DEF WakeIdle, TypeOK
    <2>. QED  BY <1>1, <1>3, <2>1, <2>2 DEF WakeIdle, TypeOK
  <1>4. CASE Enqueue(a, m)
    <2>1. mailbox' \in [Agents -> Seq(Message)]
      BY <1>4, QueueAt, QueueOps DEF Enqueue, QueueIn, TypeOK
    <2>. QED  BY <1>1, <1>4, <2>1 DEF Enqueue, TypeOK
  <1>. QED  BY <1>2, <1>3, <1>4 DEF Accept

LEMMA VanishKeepsTypes ==
    ASSUME TypeOK, NEW a \in Agents, Vanish(a)
    PROVE  /\ proc' \in [Agents -> {"absent", "alive", "dead"}]
           /\ mailbox' \in [Agents -> Seq(Message)]
           /\ waiters' \in [Agents -> Seq(Wait)]
           /\ timers' \subseteq Agents \X Wait
           /\ expired' \subseteq Agents \X Wait
           /\ accepted' \in [Agents -> Seq(Message)]
           /\ handed' \in [Agents -> Seq(Message)]
           /\ lost' \subseteq Message
  <1>1. /\ mailbox' \in [Agents -> Seq(Message)]
        /\ waiters' \in [Agents -> Seq(Wait)]
        /\ accepted' \in [Agents -> Seq(Message)]
        /\ handed' \in [Agents -> Seq(Message)]
    BY QueueAt, QueueOps DEF Vanish, TypeOK
  <1>2. proc' \in [Agents -> {"absent", "alive", "dead"}]
    BY DEF Vanish, TypeOK
  <1>. QED  BY <1>1, <1>2 DEF Vanish, TypeOK

LEMMA TypeStep == TypeOK /\ [Next]_vars => TypeOK'
  <1>. SUFFICES ASSUME TypeOK, [Next]_vars PROVE TypeOK'
    OBVIOUS
  <1>. USE NamesAssumption, CapsAssumption, BudgetAssumption, BoundsAssumption
  <1>s. Subs \subseteq Agents /\ Lead \in Agents
    BY DEF Agents
  <1>1. ASSUME NEW s \in Subs, Create(s) PROVE TypeOK'
    <2>1. total' \in 0..MaxTotal
      BY <1>1 DEF Create, Admit, TypeOK
    <2>2. /\ proc' \in [Agents -> {"absent", "alive", "dead"}]
          /\ roster' \in [Subs -> {"none", "alive", "terminated"}]
          /\ run' \in [Agents -> {"none", "live"} \cup Ended]
          /\ runs' \in [Agents -> Nat]
      BY <1>s, <1>1 DEF Create, TypeOK
    <2>3. children' \subseteq Agents /\ monitors' \subseteq Subs
      BY <1>s, <1>1 DEF Create, TypeOK
    <2>. QED  BY <1>1, <2>1, <2>2, <2>3 DEF Create, TypeOK, mailVars
  <1>2. ASSUME NEW s \in Subs, DeleteStops(s) PROVE TypeOK'
    <2>1. /\ roster' \in [Subs -> {"none", "alive", "terminated"}]
          /\ run' \in [Agents -> {"none", "live"} \cup Ended]
      BY <1>s, <1>2 DEF DeleteStops, MarkTerminated, TypeOK
    <2>. QED  BY <1>s, <1>2, <2>1, VanishKeepsTypes DEF DeleteStops, TypeOK
  <1>3. ASSUME NEW s \in Subs, DeleteCrashesCoordinator(s) PROVE TypeOK'
    BY <1>s, <1>3 DEF DeleteCrashesCoordinator, TypeOK
  <1>4. ASSUME NEW s \in Subs, Down(s) PROVE TypeOK'
    BY <1>4 DEF Down, MarkTerminated, TypeOK, procVars, coordVars, mailVars
  <1>5. ASSUME NEW a \in Agents, Reap(a) PROVE TypeOK'
    BY <1>5 DEF Reap, TypeOK, procVars, coordVars, mailVars
  <1>6. ASSUME NEW a \in Agents, Send(a) PROVE TypeOK'
    <2>1. [from |-> "host", n |-> sent'] \in Message
      BY <1>6 DEF Send, Message, TypeOK
    <2>2. Accept(a, [from |-> "host", n |-> sent'])
      BY <1>6 DEF Send
    <2>3. sent' \in 0..MaxMsgs
      BY <1>6 DEF Send, TypeOK
    <2>. QED  BY <1>6, <2>1, <2>2, <2>3, AcceptKeepsTypes
              DEF Send, TypeOK, procVars, coordVars
  <1>7. ASSUME NEW a \in Agents, Drain(a) PROVE TypeOK'
    <2>1. /\ handed' \in [Agents -> Seq(Message)]
          /\ mailbox' \in [Agents -> Seq(Message)]
      BY <1>7, QueueAt, QueueOps DEF Drain, TypeOK
    <2>. QED  BY <1>7, <2>1 DEF Drain, TypeOK, procVars, coordVars
  <1>8. ASSUME NEW a \in Agents, NEW timed \in BOOLEAN, WaitForMessage(a, timed)
        PROVE  TypeOK'
    <2>. DEFINE w == [id |-> waits + 1, timed |-> timed]
    <2>1. w \in Wait /\ waits + 1 \in 0..MaxWaits
      BY <1>8 DEF Wait, WaitForMessage, TypeOK
    <2>. HIDE DEF w
    <2>2. /\ waiters' = [waiters EXCEPT ![a] = Append(@, w)]
          /\ timers' = IF timed THEN timers \cup {<<a, w>>} ELSE timers
      BY <1>8 DEF WaitForMessage, w
    <2>3. timers' \subseteq Agents \X Wait /\ waiters' \in [Agents -> Seq(Wait)]
      BY <2>1, <2>2, QueueAt, QueueOps DEF TypeOK
    <2>. QED  BY <1>8, <2>1, <2>3 DEF WaitForMessage, TypeOK, procVars, coordVars
  <1>9. ASSUME NEW t \in timers, TimerFires(t[1], t[2]) PROVE TypeOK'
    BY <1>9 DEF TimerFires, TypeOK, procVars, coordVars
  <1>10. ASSUME NEW t \in expired, WaitTimeout(t[1], t[2]) PROVE TypeOK'
    <2>. t[1] \in Agents
      BY DEF TypeOK
    <2>1. waiters' \in [Agents -> Seq(Wait)]
      <3>1. ASSUME NEW i \in 1..Len(waiters[t[1]]) 
            PROVE  OtherWaiters(t[1], i) \in Seq(Wait)
        BY OthersAreWaits DEF OtherWaiters, TypeOK
      <3>. QED  BY <1>10, <3>1 DEF WaitTimeout, TypeOK
    <2>. QED  BY <1>10, <2>1 DEF WaitTimeout, TypeOK, procVars, coordVars
  <1>11. ASSUME NEW s \in Subs, NEW tokens \in Tokens, AddUsage(s, tokens)
         PROVE  TypeOK'
    <2>1. used' \in [Agents -> Nat]
      BY <1>s, <1>11 DEF AddUsage, TypeOK
    <2>. QED  BY <1>11, <2>1 DEF AddUsage, TypeOK, procVars, coordVars, mailVars
  <1>12. ASSUME NEW s \in Subs, HearFinal(s) PROVE TypeOK'
    <2>1. Head(wire[s]) \in Message /\ wire' \in [Subs -> Seq(Message)]
      BY <1>12, QueueAt, QueueOps DEF HearFinal, TypeOK
    <2>2. CASE proc[Lead] = "alive"
      BY <1>s, <1>12, <2>1, <2>2, AcceptKeepsTypes
         DEF HearFinal, TypeOK, procVars, coordVars
    <2>3. CASE proc[Lead] # "alive"
      BY <1>12, <2>1, <2>3
         DEF HearFinal, TypeOK, procVars, coordVars, mailVars
    <2>. QED  BY <2>2, <2>3
  <1>13. ASSUME NEW s \in Subs, FinishRun(s) PROVE TypeOK'
    <2>1. [from |-> s, n |-> runs[s]] \in Message
      BY <1>s DEF Message, TypeOK
    <2>2. wire' \in [Subs -> Seq(Message)]
      BY <1>13, <2>1, QueueAt, QueueOps DEF FinishRun, TypeOK
    <2>3. /\ mailbox' \in [Agents -> Seq(Message)]
          /\ handed' \in [Agents -> Seq(Message)]
      BY <1>s, <1>13, QueueAt, QueueOps DEF FinishRun, WakesFromMailbox, TypeOK
    <2>4. run' \in [Agents -> {"none", "live"} \cup Ended]
      <3>1. run' = [run EXCEPT ![s] = "live"] \/ run' = [run EXCEPT ![s] = "none"]
        BY <1>13, Zenon DEF FinishRun
      <3>. QED  BY <1>s, <3>1 DEF TypeOK
    <2>7. runs' \in [Agents -> Nat]
      <3>1. \/ runs' = [runs EXCEPT ![s] = runs[s] + 1]
            \/ runs' = [runs EXCEPT ![s] = runs[s]]
        BY <1>13, Zenon DEF FinishRun
      <3>2. runs \in [Agents -> Nat] /\ s \in Agents
        BY <1>s DEF TypeOK
      <3>3. runs[s] \in Nat /\ runs[s] + 1 \in Nat
        BY <3>2
      <3>. QED  BY <3>1, <3>2, <3>3, EntryAt
    <2>6. timers' \subseteq Agents \X Wait
      BY <1>13 DEF FinishRun, TypeOK
    <2>5. waiters' \in [Agents -> Seq(Wait)]
      BY <1>s, <1>13, QueueAt, QueueOps DEF FinishRun, TypeOK
    <2>. QED  BY <1>13, <2>2, <2>3, <2>4, <2>5, <2>6, <2>7
              DEF FinishRun, TypeOK, procVars, coordVars
  <1>14. ASSUME NEW s \in Subs, NEW how \in Ended, RunEnds(s, how) PROVE TypeOK'
    BY <1>s, <1>14 DEF RunEnds, TypeOK, procVars, coordVars, mailVars
  <1>15. ASSUME NEW a \in Agents, NEW brutal \in BOOLEAN, AgentDies(a, brutal)
         PROVE  TypeOK'
    <2>1. run' \in [Agents -> {"none", "live"} \cup Ended]
      BY <1>15 DEF AgentDies, TypeOK
    <2>2. deaths' \in 0..MaxDeaths
      BY <1>15 DEF AgentDies, TypeOK
    <2>3. Vanish(a)
      BY <1>15 DEF AgentDies
    <2>. QED  BY <1>15, <2>1, <2>2, <2>3, VanishKeepsTypes
              DEF AgentDies, TypeOK, coordVars
  <1>16. CASE UNCHANGED vars
    BY <1>16 DEF vars, TypeOK, procVars, coordVars, mailVars
  <1>. QED  BY <1>1, <1>2, <1>3, <1>4, <1>5, <1>6, <1>7, <1>8, <1>9, <1>10,
               <1>11, <1>12, <1>13, <1>14, <1>15, <1>16 DEF Next, Delete

\* Every variable of the harness keeps its type.
THEOREM TypeCorrect == Spec => []TypeOK
  <1>1. Init => TypeOK
    BY CapsAssumption, BoundsAssumption
       DEF Init, TypeOK, Agents, Ended
  <1>. QED  BY <1>1, TypeStep, PTL DEF Spec

-----------------------------------------------------------------------------
(* The roster and the caps                                                 *)

AliveEntries == {s \in Subs : roster[s] = "alive"}
Entries == {s \in Subs : roster[s] # "none"}

\* The roster mirrors the processes closely enough for the caps: it knows
\* every name that ever had a process, it counts every process that lives,
\* and what it still counts although it is dead has a :DOWN coming.
RosterInv ==
    /\ \A s \in Subs : roster[s] = "none" <=> proc[s] = "absent"
    /\ RosterNeverBuriesTheLiving
    /\ AliveEntries \subseteq monitors
    /\ Cardinality(AliveEntries) <= MaxConcurrent
    /\ total = Cardinality(Entries)

\* Marking an entry frees a slot and forgets no name.
LEMMA MarkingFrees ==
    ASSUME TypeOK, NEW s \in Subs, roster[s] # "none",
           roster' = MarkTerminated(s)
    PROVE  /\ Cardinality(AliveEntries') <= Cardinality(AliveEntries)
           /\ Cardinality(AliveEntries') \in Nat
           /\ Entries' = Entries
  <1>1. AliveEntries' \subseteq AliveEntries /\ IsFiniteSet(AliveEntries)
    BY NamesAssumption, FS_Subset DEF AliveEntries, MarkTerminated, TypeOK
  <1>2. Entries' = Entries
    BY DEF Entries, MarkTerminated, TypeOK
  <1>. QED  BY <1>1, <1>2, FS_Subset, FS_CardinalityType

LEMMA CardinalitiesAreNumbers ==
    /\ IsFiniteSet(AliveEntries) /\ Cardinality(AliveEntries) \in Nat
    /\ IsFiniteSet(Entries) /\ Cardinality(Entries) \in Nat
  BY NamesAssumption, FS_Subset, FS_CardinalityType DEF AliveEntries, Entries

LEMMA RosterStep == TypeOK /\ RosterInv /\ [Next]_vars => RosterInv'
  <1>. SUFFICES ASSUME TypeOK, RosterInv, [Next]_vars PROVE RosterInv'
    OBVIOUS
  <1>. USE NamesAssumption
  <1>s. Subs \subseteq Agents /\ Lead \in Agents /\ Lead \notin Subs
    BY DEF Agents
  <1>u. UNCHANGED <<procVars, coordVars>> => RosterInv'
    BY DEF RosterInv, RosterNeverBuriesTheLiving, AliveEntries, Entries,
           procVars, coordVars
  <1>1. ASSUME NEW s \in Subs, Create(s) PROVE RosterInv'
    <2>1. /\ proc' = [proc EXCEPT ![s] = "alive"]
          /\ children' = children \cup {s}
          /\ roster' = [roster EXCEPT ![s] = "alive"]
          /\ monitors' = monitors \cup {s}
          /\ total' = total + 1
          /\ roster[s] = "none"
      BY <1>1 DEF Create, Admit
    <2>2. AliveEntries' = AliveEntries \cup {s} /\ s \notin AliveEntries
      BY <2>1 DEF AliveEntries, TypeOK
    <2>3. Entries' = Entries \cup {s} /\ s \notin Entries
      BY <2>1 DEF Entries, TypeOK
    <2>4. Cardinality(AliveEntries) < MaxConcurrent
      BY <1>1 DEF Create, Admit, LiveCount, AliveEntries
    <2>5. /\ Cardinality(AliveEntries') = Cardinality(AliveEntries) + 1
          /\ Cardinality(Entries') = Cardinality(Entries) + 1
      BY <2>2, <2>3, CardinalitiesAreNumbers, FS_AddElement
    <2>6. Cardinality(AliveEntries') <= MaxConcurrent
      BY <2>4, <2>5, CardinalitiesAreNumbers, CapsAssumption
    <2>7. total' = Cardinality(Entries')
      BY <2>1, <2>5 DEF RosterInv
    <2>8. \A t \in Subs : roster'[t] = "none" <=> proc'[t] = "absent"
      BY <1>s, <2>1 DEF RosterInv, TypeOK
    <2>9. RosterNeverBuriesTheLiving'
      BY <1>s, <2>1 DEF RosterInv, RosterNeverBuriesTheLiving, TypeOK
    <2>10. (AliveEntries \subseteq monitors)'
      BY <2>1, <2>2 DEF RosterInv
    <2>. QED  BY <2>6, <2>7, <2>8, <2>9, <2>10 DEF RosterInv
  <1>2. ASSUME NEW s \in Subs, DeleteStops(s) PROVE RosterInv'
    <2>1. /\ proc' = [proc EXCEPT ![s] = "dead"]
          /\ children' = children \ {s}
          /\ roster' = MarkTerminated(s)
          /\ monitors' = monitors /\ total' = total
          /\ roster[s] = "alive"
      BY <1>2 DEF DeleteStops, Vanish
    <2>2. Cardinality(AliveEntries') <= MaxConcurrent /\ Entries' = Entries
      <3>1. roster[s] # "none"
        BY <2>1
      <3>2. /\ Cardinality(AliveEntries') <= Cardinality(AliveEntries)
            /\ Cardinality(AliveEntries') \in Nat
            /\ Entries' = Entries
        BY <2>1, <3>1, MarkingFrees
      <3>. QED  BY <3>2, CardinalitiesAreNumbers, CapsAssumption DEF RosterInv
    <2>3. \A t \in Subs : roster'[t] = "none" <=> proc'[t] = "absent"
      BY <1>s, <2>1 DEF RosterInv, MarkTerminated, TypeOK
    <2>4. RosterNeverBuriesTheLiving'
      BY <1>s, <2>1
         DEF RosterInv, RosterNeverBuriesTheLiving, MarkTerminated, TypeOK
    <2>5. (AliveEntries \subseteq monitors)'
      BY <2>1 DEF RosterInv, AliveEntries, MarkTerminated, TypeOK
    <2>. QED  BY <2>1, <2>2, <2>3, <2>4, <2>5 DEF RosterInv
  <1>3. ASSUME NEW s \in Subs, DeleteCrashesCoordinator(s) PROVE RosterInv'
    <2>1. /\ proc' = [a \in Agents |-> IF a = Lead THEN "alive" ELSE "absent"]
          /\ roster' = [t \in Subs |-> "none"]
          /\ total' = 0
      BY <1>3 DEF DeleteCrashesCoordinator
    <2>2. AliveEntries' = {} /\ Entries' = {}
      BY <2>1 DEF AliveEntries, Entries
    <2>3. Cardinality(AliveEntries') <= MaxConcurrent /\ total' = Cardinality(Entries')
      BY <2>1, <2>2, FS_EmptySet, CapsAssumption
    <2>. QED  BY <1>s, <2>1, <2>2, <2>3 DEF RosterInv, RosterNeverBuriesTheLiving
  <1>4. ASSUME NEW s \in Subs, Down(s) PROVE RosterInv'
    <2>1. /\ proc' = proc /\ children' = children /\ total' = total
          /\ roster' = MarkTerminated(s)
          /\ monitors' = monitors \ {s}
          /\ proc[s] = "dead"
      BY <1>4 DEF Down, procVars
    <2>2. roster[s] # "none"
      BY <2>1 DEF RosterInv
    <2>3. Cardinality(AliveEntries') <= MaxConcurrent /\ Entries' = Entries
      <3>1. /\ Cardinality(AliveEntries') <= Cardinality(AliveEntries)
            /\ Cardinality(AliveEntries') \in Nat
            /\ Entries' = Entries
        BY <2>1, <2>2, MarkingFrees
      <3>. QED  BY <3>1, CardinalitiesAreNumbers, CapsAssumption DEF RosterInv
    <2>4. \A t \in Subs : roster'[t] = "none" <=> proc'[t] = "absent"
      BY <2>1, <2>2 DEF RosterInv, MarkTerminated, TypeOK
    <2>5. RosterNeverBuriesTheLiving'
      BY <2>1
         DEF RosterInv, RosterNeverBuriesTheLiving, MarkTerminated, TypeOK
    <2>6. (AliveEntries \subseteq monitors)'
      BY <2>1 DEF RosterInv, AliveEntries, MarkTerminated, TypeOK
    <2>. QED  BY <2>1, <2>3, <2>4, <2>5, <2>6 DEF RosterInv
  <1>5. ASSUME NEW a \in Agents, Reap(a) PROVE RosterInv'
    <2>1. /\ UNCHANGED <<proc, roster, monitors, total>>
          /\ children' = children \ {a}
          /\ proc[a] = "dead"
      BY <1>5 DEF Reap, coordVars
    <2>. QED  BY <2>1 DEF RosterInv, RosterNeverBuriesTheLiving,
                          AliveEntries, Entries
  <1>6. ASSUME NEW a \in Agents, NEW brutal \in BOOLEAN, AgentDies(a, brutal)
        PROVE  RosterInv'
    <2>1. /\ UNCHANGED <<children, roster, monitors, total>>
          /\ proc[a] = "alive"
          /\ proc' = [proc EXCEPT ![a] = "dead"]
      BY <1>6 DEF AgentDies, Vanish, coordVars
    <2>2. \A t \in Subs : roster'[t] = "none" <=> proc'[t] = "absent"
      BY <1>s, <2>1 DEF RosterInv, TypeOK
    <2>3. RosterNeverBuriesTheLiving'
      BY <1>s, <2>1
         DEF RosterInv, RosterNeverBuriesTheLiving, AliveEntries, TypeOK
    <2>. QED  BY <2>1, <2>2, <2>3 DEF RosterInv, AliveEntries, Entries
  <1>7. ASSUME NEW a \in Agents, Send(a) \/ Drain(a) PROVE RosterInv'
    BY <1>u, <1>7 DEF Send, Drain
  <1>8. ASSUME NEW a \in Agents, NEW timed \in BOOLEAN, WaitForMessage(a, timed)
        PROVE  RosterInv'
    BY <1>u, <1>8 DEF WaitForMessage
  <1>9. ASSUME NEW t \in timers, TimerFires(t[1], t[2]) PROVE RosterInv'
    BY <1>u, <1>9 DEF TimerFires
  <1>10. ASSUME NEW t \in expired, WaitTimeout(t[1], t[2]) PROVE RosterInv'
    BY <1>u, <1>10 DEF WaitTimeout
  <1>11. ASSUME NEW s \in Subs, NEW tokens \in Tokens, AddUsage(s, tokens)
         PROVE  RosterInv'
    BY <1>u, <1>11 DEF AddUsage
  <1>12. ASSUME NEW s \in Subs, HearFinal(s) \/ FinishRun(s) PROVE RosterInv'
    BY <1>u, <1>12 DEF HearFinal, FinishRun
  <1>13. ASSUME NEW s \in Subs, NEW how \in Ended, RunEnds(s, how)
         PROVE  RosterInv'
    BY <1>u, <1>13 DEF RunEnds
  <1>14. CASE UNCHANGED vars
    BY <1>u, <1>14 DEF vars
  <1>. QED  BY <1>1, <1>2, <1>3, <1>4, <1>5, <1>6, <1>7, <1>8, <1>9, <1>10,
               <1>11, <1>12, <1>13, <1>14 DEF Next, Delete

LEMMA InitialRoster == Init => RosterInv
  <1>. SUFFICES ASSUME Init PROVE RosterInv
    OBVIOUS
  <1>1. AliveEntries = {} /\ Entries = {}
    BY DEF Init, AliveEntries, Entries
  <1>2. Cardinality(AliveEntries) <= MaxConcurrent /\ total = Cardinality(Entries)
    BY <1>1, FS_EmptySet, CapsAssumption DEF Init
  <1>. QED  BY <1>1, <1>2, NamesAssumption
            DEF Init, RosterInv, RosterNeverBuriesTheLiving, Agents

\* The roster never shows a live agent as gone, and a dead one it still
\* counts has its :DOWN ahead, whatever the order of deletes, crashes,
\* :DOWNs and reaping.
THEOREM RosterHolds == Spec => []RosterNeverBuriesTheLiving
  <1>1. Init => RosterInv
    BY InitialRoster
  <1>2. RosterInv => RosterNeverBuriesTheLiving
    BY DEF RosterInv
  <1>. QED  BY <1>1, <1>2, RosterStep, TypeCorrect, PTL DEF Spec

\* max_concurrent bounds the subagent processes alive and max_total those
\* ever created, though the coordinator counts entries of a roster that
\* lags behind the processes.
THEOREM CapsHold == Spec => []Caps
  <1>1. TypeOK /\ RosterInv => Caps
    <2>. SUFFICES ASSUME TypeOK, RosterInv PROVE Caps
      OBVIOUS
    <2>. DEFINE Living == {s \in Subs : proc[s] = "alive"}
                Known == {s \in Subs : proc[s] # "absent"}
    <2>1. Living \subseteq AliveEntries
      BY DEF RosterInv, RosterNeverBuriesTheLiving, AliveEntries
    <2>2. Known = Entries
      BY DEF RosterInv, Entries
    <2>3. Cardinality(Living) <= Cardinality(AliveEntries) /\ Cardinality(Living) \in Nat
      BY <2>1, CardinalitiesAreNumbers, FS_Subset, FS_CardinalityType
    <2>4. Cardinality(Living) <= MaxConcurrent
      BY <2>3, CardinalitiesAreNumbers, CapsAssumption DEF RosterInv
    <2>5. Cardinality(Known) <= MaxTotal
      <3>1. Cardinality(Known) = total
        BY <2>2 DEF RosterInv
      <3>. QED  BY <3>1, CapsAssumption DEF TypeOK
    <2>. QED  BY <2>4, <2>5 DEF Caps
  <1>2. Init => RosterInv
    BY InitialRoster
  <1>. QED  BY <1>1, <1>2, RosterStep, TypeCorrect, PTL DEF Spec

-----------------------------------------------------------------------------
(* Messages                                                                *)

\* What is true of each agent's messages.  A queue and a waiter never
\* coexist, so answering a waiter cannot overtake a queued message; an idle
\* subagent has neither, so waking it cannot either.
Delivery(a) ==
    /\ accepted[a] = handed[a] \o mailbox[a]
    /\ proc[a] # "alive" => /\ accepted[a] = <<>> /\ handed[a] = <<>>
                            /\ mailbox[a] = <<>> /\ waiters[a] = <<>>
    /\ waiters[a] # <<>> => mailbox[a] = <<>>
    /\ a \in Subs /\ proc[a] = "alive" /\ run[a] = "none" =>
           mailbox[a] = <<>> /\ waiters[a] = <<>>

DeliveryInv == \A a \in Agents : Delivery(a)

\* An agent nothing happened to.
Untouched(a) ==
    /\ proc'[a] = proc[a] /\ run'[a] = run[a]
    /\ accepted'[a] = accepted[a] /\ handed'[a] = handed[a]
    /\ mailbox'[a] = mailbox[a] /\ waiters'[a] = waiters[a]

LEMMA UntouchedKeepsDelivery ==
    ASSUME NEW a \in Agents, Delivery(a), Untouched(a)
    PROVE  Delivery(a)'
  BY DEF Delivery, Untouched

\* A step that disturbs one agent only.
LEMMA OneAgentStep ==
    ASSUME DeliveryInv, NEW a \in Agents, Delivery(a)',
           \A b \in Agents \ {a} : Untouched(b)
    PROVE  DeliveryInv'
  <1>1. ASSUME NEW b \in Agents PROVE Delivery(b)'
    <2>1. CASE b = a
      BY <2>1
    <2>2. CASE b # a
      BY <2>2, UntouchedKeepsDelivery DEF DeliveryInv
    <2>. QED  BY <2>1, <2>2
  <1>. QED  BY <1>1 DEF DeliveryInv

LEMMA QueueTypes ==
    ASSUME TypeOK, NEW a \in Agents
    PROVE  /\ mailbox[a] \in Seq(Message) /\ handed[a] \in Seq(Message)
           /\ accepted[a] \in Seq(Message) /\ waiters[a] \in Seq(Wait)
  BY DEF TypeOK

LEMMA AcceptDelivers ==
    ASSUME TypeOK, DeliveryInv, NEW a \in Agents, NEW m \in Message,
           proc[a] = "alive", proc' = proc, Accept(a, m)
    PROVE  DeliveryInv'
  <1>. Delivery(a)
    BY DEF DeliveryInv
  <1>1. accepted'[a] = Append(accepted[a], m)
    BY DEF Accept, TypeOK
  <1>2. \A b \in Agents \ {a} : accepted'[b] = accepted[b]
    BY DEF Accept, TypeOK
  <1>3. CASE AnswerWaiter(a, m)
    <2>1. /\ handed'[a] = Append(handed[a], m) /\ mailbox'[a] = mailbox[a]
          /\ waiters[a] # <<>> /\ run'[a] = run[a]
          /\ waiters'[a] = Tail(waiters[a])
      BY <1>3 DEF AnswerWaiter, TypeOK
    <2>2. mailbox[a] = <<>> /\ ~(a \in Subs /\ run[a] = "none")
      BY <2>1 DEF Delivery
    <2>3. accepted'[a] = handed'[a] \o mailbox'[a]
      BY <1>1, <2>1, <2>2, QueueTypes, QueueOps, NothingBehind DEF Delivery
    <2>4. Delivery(a)'
      BY <2>1, <2>2, <2>3 DEF Delivery
    <2>5. \A b \in Agents \ {a} : Untouched(b)
      BY <1>2, <1>3 DEF AnswerWaiter, Untouched, TypeOK
    <2>. QED  BY <2>4, <2>5, OneAgentStep
  <1>4. CASE WakeIdle(a, m)
    <2>1. /\ handed'[a] = Append(handed[a], m) /\ mailbox'[a] = mailbox[a]
          /\ waiters'[a] = <<>> /\ run'[a] = "live"
      BY <1>4 DEF WakeIdle, TypeOK
    <2>2. mailbox[a] = <<>>
      BY <1>4 DEF WakeIdle, Delivery
    <2>3. accepted'[a] = handed'[a] \o mailbox'[a]
      BY <1>1, <2>1, <2>2, QueueTypes, QueueOps, NothingBehind DEF Delivery
    <2>4. Delivery(a)'
      BY <2>1, <2>2, <2>3 DEF Delivery
    <2>5. \A b \in Agents \ {a} : Untouched(b)
      BY <1>2, <1>4 DEF WakeIdle, Untouched, TypeOK
    <2>. QED  BY <2>4, <2>5, OneAgentStep
  <1>5. CASE Enqueue(a, m)
    <2>1. /\ handed'[a] = handed[a]
          /\ mailbox'[a] = Append(mailbox[a], m)
          /\ waiters'[a] = <<>> /\ run'[a] = run[a]
          /\ ~(a \in Subs /\ run[a] = "none")
      BY <1>5 DEF Enqueue, QueueIn, TypeOK
    <2>2. accepted'[a] = handed'[a] \o mailbox'[a]
      <3>1. accepted[a] = handed[a] \o mailbox[a]
        BY DEF Delivery
      <3>2. handed[a] \o Append(mailbox[a], m) = Append(handed[a] \o mailbox[a], m)
        <4>1. handed[a] \in Seq(Message) /\ mailbox[a] \in Seq(Message)
          BY QueueTypes
        <4>2. ASSUME NEW h \in Seq(Message), NEW q \in Seq(Message)
              PROVE  h \o Append(q, m) = Append(h \o q, m)
          BY AppendBehind
        <4>. QED  BY <4>1, <4>2
      <3>. QED  BY <1>1, <2>1, <3>1, <3>2
    <2>3. Delivery(a)'
      BY <2>1, <2>2 DEF Delivery
    <2>4. \A b \in Agents \ {a} : Untouched(b)
      BY <1>2, <1>5 DEF Enqueue, Untouched, TypeOK
    <2>. QED  BY <2>3, <2>4, OneAgentStep
  <1>. QED  BY <1>3, <1>4, <1>5 DEF Accept

LEMMA DeliveryStep ==
    TypeOK /\ RosterInv /\ DeliveryInv /\ [Next]_vars => DeliveryInv'
  <1>. SUFFICES ASSUME TypeOK, RosterInv, DeliveryInv, [Next]_vars
                PROVE  DeliveryInv'
    OBVIOUS
  <1>. USE NamesAssumption
  <1>s. Subs \subseteq Agents /\ Lead \in Agents /\ Lead \notin Subs
    BY DEF Agents
  <1>u. (\A a \in Agents : Untouched(a)) => DeliveryInv'
    BY UntouchedKeepsDelivery DEF DeliveryInv
  <1>v. UNCHANGED <<proc, run, accepted, handed, mailbox, waiters>> => DeliveryInv'
    BY <1>u DEF Untouched
  <1>d. ASSUME NEW a \in Agents, Vanish(a), \A b \in Agents \ {a} : run'[b] = run[b]
        PROVE  DeliveryInv'
    <2>1. /\ proc'[a] = "dead" /\ mailbox'[a] = <<>> /\ waiters'[a] = <<>>
          /\ accepted'[a] = <<>> /\ handed'[a] = <<>>
      BY <1>d DEF Vanish, TypeOK
    <2>2. Delivery(a)'
      BY <2>1 DEF Delivery
    <2>3. \A b \in Agents \ {a} : Untouched(b)
      BY <1>d DEF Vanish, Untouched, TypeOK
    <2>. QED  BY <2>2, <2>3, OneAgentStep
  <1>1. ASSUME NEW s \in Subs, Create(s) PROVE DeliveryInv'
    <2>1. proc[s] = "absent"
      BY <1>1 DEF Create, Admit, RosterInv
    <2>2. /\ accepted[s] = <<>> /\ handed[s] = <<>>
          /\ mailbox[s] = <<>> /\ waiters[s] = <<>>
      BY <1>s, <2>1 DEF DeliveryInv, Delivery
    <2>3. Delivery(s)'
      BY <1>s, <1>1, <2>2 DEF Create, Delivery, TypeOK, mailVars
    <2>4. \A b \in Agents \ {s} : Untouched(b)
      BY <1>1 DEF Create, Untouched, TypeOK, mailVars
    <2>. QED  BY <1>s, <2>3, <2>4, OneAgentStep
  <1>2. ASSUME NEW s \in Subs, DeleteStops(s) PROVE DeliveryInv'
    BY <1>s, <1>2, <1>d DEF DeleteStops, TypeOK
  <1>3. ASSUME NEW s \in Subs, DeleteCrashesCoordinator(s) PROVE DeliveryInv'
    BY <1>s, <1>3 DEF DeleteCrashesCoordinator, DeliveryInv, Delivery
  <1>4. ASSUME NEW s \in Subs, Down(s) PROVE DeliveryInv'
    BY <1>v, <1>4 DEF Down, procVars, mailVars
  <1>5. ASSUME NEW a \in Agents, Reap(a) PROVE DeliveryInv'
    BY <1>v, <1>5 DEF Reap, mailVars
  <1>6. ASSUME NEW a \in Agents, Send(a) PROVE DeliveryInv'
    <2>1. [from |-> "host", n |-> sent'] \in Message
      BY <1>6, BoundsAssumption DEF Send, Message, TypeOK
    <2>2. proc[a] = "alive" /\ proc' = proc
          /\ Accept(a, [from |-> "host", n |-> sent'])
      BY <1>6 DEF Send, procVars
    <2>. QED  BY <2>1, <2>2, AcceptDelivers
  <1>7. ASSUME NEW a \in Agents, Drain(a) PROVE DeliveryInv'
    <2>1. /\ proc' = proc /\ run' = run /\ accepted' = accepted
          /\ waiters' = waiters /\ mailbox[a] # <<>>
          /\ handed'[a] = handed[a] \o mailbox[a] /\ mailbox'[a] = <<>>
          /\ proc[a] = "alive"
      BY <1>7 DEF Drain, MayCall, procVars, TypeOK
    <2>2. Delivery(a)
      BY DEF DeliveryInv
    <2>3. accepted'[a] = handed'[a] \o mailbox'[a]
      BY <2>1, <2>2, QueueTypes, QueueOps, NothingBehind DEF Delivery
    <2>4. Delivery(a)'
      BY <2>1, <2>2, <2>3 DEF Delivery
    <2>5. \A b \in Agents \ {a} : Untouched(b)
      BY <1>7, <2>1 DEF Drain, Untouched, TypeOK
    <2>. QED  BY <2>4, <2>5, OneAgentStep
  <1>8. ASSUME NEW a \in Agents, NEW timed \in BOOLEAN, WaitForMessage(a, timed)
        PROVE  DeliveryInv'
    <2>1. /\ proc' = proc /\ run' = run /\ accepted' = accepted
          /\ handed' = handed /\ mailbox' = mailbox /\ mailbox[a] = <<>>
          /\ proc[a] = "alive" /\ ~(a \in Subs /\ run[a] = "none")
      BY <1>8 DEF WaitForMessage, MayCall, procVars
    <2>2. Delivery(a)'
      BY <2>1 DEF DeliveryInv, Delivery
    <2>3. \A b \in Agents \ {a} : Untouched(b)
      BY <1>8, <2>1 DEF WaitForMessage, Untouched, TypeOK
    <2>. QED  BY <2>2, <2>3, OneAgentStep
  <1>9. ASSUME NEW t \in timers, TimerFires(t[1], t[2]) PROVE DeliveryInv'
    BY <1>v, <1>9 DEF TimerFires, procVars
  <1>10. ASSUME NEW t \in expired, WaitTimeout(t[1], t[2]) PROVE DeliveryInv'
    <2>. DEFINE a == t[1]
    <2>1. a \in Agents
      BY DEF TypeOK
    <2>. HIDE DEF a
    <2>2. UNCHANGED <<proc, run, accepted, handed, mailbox>>
      BY <1>10 DEF WaitTimeout, procVars
    <2>3. \/ waiters' = waiters
          \/ /\ waiters[a] # <<>>
             /\ \A b \in Agents \ {a} : waiters'[b] = waiters[b]
      BY <1>10, <2>1, QueueTypes DEF WaitTimeout, TypeOK, a
    <2>4. CASE waiters' = waiters
      BY <1>v, <2>2, <2>4
    <2>5. CASE /\ waiters[a] # <<>>
               /\ \A b \in Agents \ {a} : waiters'[b] = waiters[b]
      <3>1. Delivery(a)'
        BY <2>1, <2>2, <2>5 DEF DeliveryInv, Delivery
      <3>. QED  BY <2>1, <2>2, <2>5, <3>1, OneAgentStep DEF Untouched
    <2>. QED  BY <2>3, <2>4, <2>5
  <1>11. ASSUME NEW s \in Subs, NEW tokens \in Tokens, AddUsage(s, tokens)
         PROVE  DeliveryInv'
    BY <1>v, <1>11 DEF AddUsage, procVars, mailVars
  <1>12. ASSUME NEW s \in Subs, HearFinal(s) PROVE DeliveryInv'
    <2>1. CASE proc[Lead] = "alive"
      <3>1. Head(wire[s]) \in Message
        BY <1>12, QueueOps DEF HearFinal, TypeOK
      <3>2. Accept(Lead, Head(wire[s])) /\ proc' = proc
        BY <1>12, <2>1 DEF HearFinal, procVars
      <3>. QED  BY <1>s, <2>1, <3>1, <3>2, AcceptDelivers
    <2>2. CASE proc[Lead] # "alive"
      BY <1>v, <1>12, <2>2 DEF HearFinal, procVars, mailVars
    <2>. QED  BY <2>1, <2>2
  <1>13. ASSUME NEW s \in Subs, FinishRun(s) PROVE DeliveryInv'
    <2>1. /\ UNCHANGED <<proc, accepted>> /\ proc[s] = "alive"
          /\ waiters'[s] = <<>>
      BY <1>s, <1>13 DEF FinishRun, procVars, TypeOK
    <2>2. \A b \in Agents \ {s} : Untouched(b)
      BY <1>13, <2>1 DEF FinishRun, Untouched, TypeOK
    <2>3. Delivery(s)
      BY <1>s DEF DeliveryInv
    <2>4. CASE mailbox[s] = <<>>
      <3>1. mailbox'[s] = <<>> /\ handed'[s] = handed[s]
        BY <1>s, <1>13, <2>4 DEF FinishRun, WakesFromMailbox, TypeOK
      <3>. QED  BY <1>s, <2>1, <2>2, <2>3, <2>4, <3>1, OneAgentStep DEF Delivery
    <2>5. CASE mailbox[s] # <<>>
      <3>1. /\ mailbox'[s] = Tail(mailbox[s]) /\ run'[s] = "live"
            /\ handed'[s] = Append(handed[s], Head(mailbox[s]))
        BY <1>s, <1>13, <2>5 DEF FinishRun, WakesFromMailbox, TypeOK
      <3>2. accepted'[s] = handed'[s] \o mailbox'[s]
        BY <1>s, <2>1, <2>3, <2>5, <3>1, QueueTypes, HeadMovesOver DEF Delivery
      <3>3. Delivery(s)'
        BY <2>1, <3>1, <3>2 DEF Delivery
      <3>. QED  BY <1>s, <2>2, <3>3, OneAgentStep
    <2>. QED  BY <2>4, <2>5
  <1>14. ASSUME NEW s \in Subs, NEW how \in Ended, RunEnds(s, how)
         PROVE  DeliveryInv'
    <2>1. /\ UNCHANGED <<proc, accepted, handed, mailbox, waiters>>
          /\ run'[s] = IF proc[s] = "alive" THEN how ELSE "none"
          /\ \A b \in Agents \ {s} : run'[b] = run[b]
      BY <1>s, <1>14 DEF RunEnds, procVars, mailVars, TypeOK
    <2>2. how # "none"
      BY DEF Ended
    <2>3. Delivery(s)'
      BY <1>s, <2>1, <2>2 DEF DeliveryInv, Delivery
    <2>. QED  BY <1>s, <2>1, <2>3, OneAgentStep DEF Untouched
  <1>15. ASSUME NEW a \in Agents, NEW brutal \in BOOLEAN, AgentDies(a, brutal)
         PROVE  DeliveryInv'
    BY <1>15, <1>d DEF AgentDies, TypeOK
  <1>16. CASE UNCHANGED vars
    BY <1>v, <1>16 DEF vars, procVars, mailVars
  <1>. QED  BY <1>1, <1>2, <1>3, <1>4, <1>5, <1>6, <1>7, <1>8, <1>9, <1>10,
               <1>11, <1>12, <1>13, <1>14, <1>15, <1>16 DEF Next, Delete

LEMMA DeliveryAlways == Spec => []DeliveryInv
  <1>1. Init => DeliveryInv
    BY NamesAssumption DEF Init, DeliveryInv, Delivery, Agents
  <1>. QED  BY <1>1, InitialRoster, RosterStep, DeliveryStep, TypeCorrect, PTL
            DEF Spec

\* Every accepted message is handed out once and in the order of acceptance,
\* whether accept/2 answered a waiter, woke the agent or queued it.
THEOREM HandedOut == Spec => []HandedOutInOrder
  <1>1. DeliveryInv => HandedOutInOrder
    BY DEF DeliveryInv, Delivery, HandedOutInOrder
  <1>. QED  BY <1>1, DeliveryAlways, PTL

\* A subagent never idles over a queued message or a stale waiter.
THEOREM IdleIsIdle == Spec => []IdleMeansNothingPending
  <1>1. DeliveryInv => IdleMeansNothingPending
    BY DEF DeliveryInv, Delivery, IdleMeansNothingPending, Agents
  <1>. QED  BY <1>1, DeliveryAlways, PTL

-----------------------------------------------------------------------------
(* Finals                                                                  *)

\* What the count of a subagent's finals rests on: the wire of s carries
\* finals of s only, a name that has no process has sent none, and the runs
\* are numbered from 1.
Reports(s) ==
    /\ \A k \in 1..Len(wire[s]) : wire[s][k].from = s
    /\ proc[s] = "absent" => wire[s] = <<>> /\ Heard(s) = {}
    /\ proc[s] = "alive" /\ run[s] # "none" => runs[s] >= 1

OneEach(s) ==
    proc[s] = "alive" /\ proc[Lead] = "alive" =>
        /\ HeardRuns(s) \in Nat
        /\ {accepted[Lead][i].n : i \in Heard(s)} = 1..HeardRuns(s)
        /\ \A i, j \in Heard(s) :
              i < j => accepted[Lead][i].n < accepted[Lead][j].n
        /\ \A k \in 1..Len(wire[s]) : wire[s][k].n = HeardRuns(s) + k

ReportInv == \A s \in Subs : Reports(s) /\ OneEach(s)

\* A message the lead accepts from somebody else leaves the finals of s where
\* they are; a final of s is one more, behind the others.
LEMMA HeardAppend ==
    ASSUME TypeOK, NEW m \in Message, NEW s \in Subs,
           accepted'[Lead] = Append(accepted[Lead], m)
    PROVE  /\ Heard(s) \subseteq 1..Len(accepted[Lead])
           /\ \A i \in Heard(s) : accepted'[Lead][i] = accepted[Lead][i]
           /\ accepted'[Lead][Len(accepted[Lead]) + 1] = m
           /\ Len(accepted[Lead]) \in Nat
           /\ Heard(s)' = IF m.from = s THEN Heard(s) \cup {Len(accepted[Lead]) + 1}
                                        ELSE Heard(s)
  <1>1. accepted[Lead] \in Seq(Message)
    BY DEF TypeOK, Agents
  <1>. DEFINE q == accepted[Lead]
  <1>2. /\ DOMAIN q = 1..Len(q) /\ Len(q) \in Nat
        /\ DOMAIN Append(q, m) = 1..(Len(q) + 1)
        /\ \A i \in 1..Len(q) : Append(q, m)[i] = q[i]
        /\ Append(q, m)[Len(q) + 1] = m
    BY <1>1
  <1>. HIDE DEF q
  <1>3. accepted'[Lead] = Append(q, m) /\ accepted[Lead] = q
    BY DEF q
  <1>4. Heard(s)' = {i \in 1..(Len(q) + 1) : Append(q, m)[i].from = s}
    BY <1>2, <1>3 DEF Heard
  <1>5. Heard(s) = {i \in 1..Len(q) : q[i].from = s}
    BY <1>2, <1>3 DEF Heard
  <1>6. ASSUME NEW i PROVE i \in 1..(Len(q) + 1) <=> i \in 1..Len(q) \/ i = Len(q) + 1
    BY <1>2
  <1>7. CASE m.from = s
    <2>1. ASSUME NEW i
          PROVE  i \in Heard(s)' <=> i \in Heard(s) \cup {Len(q) + 1}
      BY <1>2, <1>4, <1>5, <1>6, <1>7
    <2>2. Heard(s)' = Heard(s) \cup {Len(q) + 1}
      BY <2>1
    <2>. QED  BY <1>2, <1>3, <1>5, <1>7, <2>2
  <1>8. CASE m.from # s
    <2>1. ASSUME NEW i PROVE  i \in Heard(s)' <=> i \in Heard(s)
      BY <1>2, <1>4, <1>5, <1>6, <1>8
    <2>2. Heard(s)' = Heard(s)
      BY <2>1
    <2>. QED  BY <1>2, <1>3, <1>5, <1>8, <2>2
  <1>. QED  BY <1>7, <1>8

\* A subagent nothing happened to as far as its finals go: the lead may have
\* accepted a message from somebody else.
Undisturbed(s) ==
    /\ proc'[s] = proc[s] /\ proc'[Lead] = proc[Lead]
    /\ EndedRuns(s)' = EndedRuns(s)
    /\ (run'[s] # "none" => runs'[s] >= 1) \/ (run'[s] = run[s] /\ runs'[s] = runs[s])
    /\ wire'[s] = wire[s]
    /\ \/ accepted'[Lead] = accepted[Lead]
       \/ \E m \in Message : /\ m.from # s
                             /\ accepted'[Lead] = Append(accepted[Lead], m)

LEMMA UndisturbedReports ==
    ASSUME TypeOK, NEW s \in Subs, Reports(s), OneEach(s), Undisturbed(s)
    PROVE  Reports(s)' /\ OneEach(s)'
  <1>1. /\ Heard(s)' = Heard(s)
        /\ \A i \in Heard(s) : accepted'[Lead][i] = accepted[Lead][i]
    <2>1. CASE accepted'[Lead] = accepted[Lead]
      BY <2>1 DEF Heard
    <2>2. CASE \E m \in Message : /\ m.from # s
                                  /\ accepted'[Lead] = Append(accepted[Lead], m)
      BY <2>2, HeardAppend
    <2>. QED  BY <2>1, <2>2 DEF Undisturbed
  <1>2. HeardRuns(s)' = HeardRuns(s)
    BY DEF HeardRuns, Undisturbed
  <1>3. {accepted'[Lead][i].n : i \in Heard(s)'} = {accepted[Lead][i].n : i \in Heard(s)}
    BY <1>1
  <1>4. Reports(s)'
    BY <1>1 DEF Reports, Undisturbed
  <1>5. OneEach(s)'
    BY <1>1, <1>2, <1>3 DEF OneEach, Undisturbed
  <1>. QED  BY <1>4, <1>5

\* accept/2 at agent a: the lead's history grows only if a is the lead, and a
\* subagent that is woken starts a run without ending one.
LEMMA AcceptCounts ==
    ASSUME TypeOK, NEW a \in Agents, NEW m \in Message, Accept(a, m), NEW s \in Subs
    PROVE  /\ EndedRuns(s)' = EndedRuns(s)
           /\ (run'[s] # "none" => runs'[s] >= 1)
              \/ (run'[s] = run[s] /\ runs'[s] = runs[s])
           /\ accepted'[Lead] = IF a = Lead THEN Append(accepted[Lead], m)
                                            ELSE accepted[Lead]
  <1>s. s \in Agents /\ Lead \in Agents
    BY DEF Agents
  <1>1. accepted'[Lead] = IF a = Lead THEN Append(accepted[Lead], m)
                                      ELSE accepted[Lead]
    BY <1>s DEF Accept, TypeOK
  <1>2. CASE UNCHANGED <<run, runs>>
    BY <1>1, <1>2 DEF EndedRuns
  <1>3. CASE WakeIdle(a, m)
    <2>1. /\ run[a] = "none"
          /\ run' = [run EXCEPT ![a] = "live"]
          /\ runs' = [runs EXCEPT ![a] = runs[a] + 1]
      BY <1>3 DEF WakeIdle
    <2>2. runs[a] \in Nat /\ runs[s] \in Nat
      BY <1>s DEF TypeOK
    <2>3. CASE a = s
      <3>1. run'[s] = "live" /\ runs'[s] = runs[s] + 1
        BY <1>s, <2>1, <2>3 DEF TypeOK
      <3>. QED  BY <1>1, <2>1, <2>2, <2>3, <3>1 DEF EndedRuns
    <2>4. CASE a # s
      <3>1. run'[s] = run[s] /\ runs'[s] = runs[s]
        BY <1>s, <2>1, <2>4 DEF TypeOK
      <3>. QED  BY <1>1, <3>1 DEF EndedRuns
    <2>. QED  BY <2>3, <2>4
  <1>. QED  BY <1>2, <1>3 DEF Accept, AnswerWaiter, Enqueue

LEMMA ReportStep ==
    TypeOK /\ RosterInv /\ ReportInv /\ [Next]_vars => ReportInv'
  <1>. SUFFICES ASSUME TypeOK, RosterInv, ReportInv, [Next]_vars
                PROVE  ReportInv'
    OBVIOUS
  <1>s. Subs \subseteq Agents /\ Lead \in Agents /\ Lead \notin Subs
    BY NamesAssumption DEF Agents
  <1>t. ASSUME NEW s \in Subs PROVE wire[s] \in Seq(Message) /\ runs[s] \in Nat
    BY <1>s DEF TypeOK
  <1>h. \A s \in Subs : Reports(s) /\ OneEach(s)
    BY DEF ReportInv
  <1>u. (\A s \in Subs : Undisturbed(s)) => ReportInv'
    BY <1>h, UndisturbedReports DEF ReportInv
  <1>v. UNCHANGED <<proc, run, runs, wire, accepted>> => ReportInv'
    BY <1>u DEF Undisturbed, EndedRuns
  <1>o. ASSUME NEW s \in Subs, Reports(s)', OneEach(s)',
               \A t \in Subs \ {s} : Undisturbed(t)
        PROVE  ReportInv'
    BY <1>h, <1>o, UndisturbedReports DEF ReportInv
  <1>d. ASSUME NEW s \in Subs, Vanish(s), UNCHANGED <<wire, runs>>,
               \A t \in Subs \ {s} : run'[t] = run[t]
        PROVE  ReportInv'
    <2>1. proc'[s] = "dead"
      BY <1>s, <1>d DEF Vanish, TypeOK
    <2>2. Reports(s)' /\ OneEach(s)'
      BY <1>d, <1>h, <2>1 DEF Reports, OneEach
    <2>3. ASSUME NEW t \in Subs \ {s} PROVE Undisturbed(t)
      BY <1>s, <1>d DEF Vanish, Undisturbed, EndedRuns, TypeOK
    <2>. QED  BY <1>o, <2>2, <2>3
  <1>1. ASSUME NEW s \in Subs, Create(s) PROVE ReportInv'
    <2>1. proc[s] = "absent"
      BY <1>1 DEF Create, Admit, RosterInv
    <2>2. wire[s] = <<>> /\ Heard(s) = {}
      BY <1>h, <2>1 DEF Reports
    <2>3. /\ proc' = [proc EXCEPT ![s] = "alive"]
          /\ run' = [run EXCEPT ![s] = "live"]
          /\ runs' = [runs EXCEPT ![s] = 1]
          /\ wire' = wire /\ accepted' = accepted
      BY <1>1 DEF Create, mailVars
    <2>4. run'[s] = "live" /\ runs'[s] = 1 /\ proc'[s] = "alive"
      BY <1>s, <2>3 DEF TypeOK
    <2>5. Heard(s)' = {} /\ wire'[s] = <<>>
      BY <2>2, <2>3 DEF Heard
    <2>6. Reports(s)'
      BY <2>4, <2>5 DEF Reports
    <2>7. HeardRuns(s)' = 0
      <3>1. EndedRuns(s)' = 0
        BY <2>4 DEF EndedRuns
      <3>2. Len(wire'[s]) = 0
        BY <2>5
      <3>. QED  BY <3>1, <3>2 DEF HeardRuns
    <2>8. OneEach(s)'
      BY <2>5, <2>7 DEF OneEach
    <2>9. ASSUME NEW t \in Subs \ {s} PROVE Undisturbed(t)
      BY <1>s, <2>3 DEF Undisturbed, EndedRuns, TypeOK
    <2>. QED  BY <1>o, <2>6, <2>8, <2>9
  <1>2. ASSUME NEW s \in Subs, DeleteStops(s) PROVE ReportInv'
    BY <1>s, <1>2, <1>d DEF DeleteStops, TypeOK
  <1>3. ASSUME NEW s \in Subs, DeleteCrashesCoordinator(s) PROVE ReportInv'
    <2>1. ASSUME NEW t \in Subs
          PROVE  wire'[t] = <<>> /\ proc'[t] = "absent" /\ accepted'[Lead] = <<>>
      BY <1>s, <1>3 DEF DeleteCrashesCoordinator
    <2>2. ASSUME NEW t \in Subs PROVE Reports(t)' /\ OneEach(t)'
      BY <2>1 DEF Reports, OneEach, Heard
    <2>. QED  BY <2>2 DEF ReportInv
  <1>4. ASSUME NEW s \in Subs, Down(s) PROVE ReportInv'
    BY <1>v, <1>4 DEF Down, procVars, mailVars
  <1>5. ASSUME NEW a \in Agents, Reap(a) PROVE ReportInv'
    BY <1>v, <1>5 DEF Reap, mailVars
  <1>6. ASSUME NEW a \in Agents, Send(a) PROVE ReportInv'
    <2>. DEFINE m == [from |-> "host", n |-> sent']
    <2>1. m \in Message /\ m.from = "host"
      BY <1>6, BoundsAssumption DEF Send, Message, TypeOK
    <2>2. Accept(a, m) /\ UNCHANGED <<proc, wire>>
      BY <1>6 DEF Send, procVars
    <2>. HIDE DEF m
    <2>3. ASSUME NEW s \in Subs PROVE Undisturbed(s)
      <3>1. m.from # s
        BY <2>1, NamesAssumption
      <3>. QED  BY <2>1, <2>2, <3>1, AcceptCounts DEF Undisturbed
    <2>. QED  BY <1>u, <2>3
  <1>7. ASSUME NEW a \in Agents, Drain(a) PROVE ReportInv'
    BY <1>v, <1>7 DEF Drain, procVars
  <1>8. ASSUME NEW a \in Agents, NEW timed \in BOOLEAN, WaitForMessage(a, timed)
        PROVE  ReportInv'
    BY <1>v, <1>8 DEF WaitForMessage, procVars
  <1>9. ASSUME NEW t \in timers, TimerFires(t[1], t[2]) PROVE ReportInv'
    BY <1>v, <1>9 DEF TimerFires, procVars
  <1>10. ASSUME NEW t \in expired, WaitTimeout(t[1], t[2]) PROVE ReportInv'
    BY <1>v, <1>10 DEF WaitTimeout, procVars
  <1>11. ASSUME NEW s \in Subs, NEW tokens \in Tokens, AddUsage(s, tokens)
         PROVE  ReportInv'
    BY <1>v, <1>11 DEF AddUsage, procVars, mailVars
  <1>12. ASSUME NEW s \in Subs, HearFinal(s) PROVE ReportInv'
    <2>. DEFINE m == Head(wire[s])
    <2>1. /\ wire[s] # <<>> /\ UNCHANGED proc
          /\ wire' = [wire EXCEPT ![s] = Tail(wire[s])]
      BY <1>12 DEF HearFinal, procVars
    <2>2. /\ m \in Message /\ m = wire[s][1]
          /\ Len(wire[s]) >= 1 /\ Len(wire[s]) \in Nat
          /\ Len(Tail(wire[s])) = Len(wire[s]) - 1
          /\ \A k \in 1..(Len(wire[s]) - 1) : Tail(wire[s])[k] = wire[s][k + 1]
      BY <1>t, <2>1
    <2>3. m.from = s /\ proc[s] # "absent"
      BY <1>h, <2>1, <2>2 DEF Reports
    <2>4. wire'[s] = Tail(wire[s]) /\ \A t \in Subs \ {s} : wire'[t] = wire[t]
      BY <2>1 DEF TypeOK
    <2>. HIDE DEF m
    <2>5. \A k \in 1..Len(wire'[s]) : wire'[s][k].from = s
      BY <1>h, <2>2, <2>4 DEF Reports
    <2>6. CASE proc[Lead] = "alive"
      <3>1. Accept(Lead, m)
        BY <1>12, <2>6 DEF HearFinal, m
      <3>2. \A t \in Subs :
              /\ EndedRuns(t)' = EndedRuns(t)
              /\ (run'[t] # "none" => runs'[t] >= 1)
                 \/ (run'[t] = run[t] /\ runs'[t] = runs[t])
              /\ accepted'[Lead] = Append(accepted[Lead], m)
        BY <1>s, <2>2, <3>1, AcceptCounts
      <3>3. ASSUME NEW t \in Subs \ {s} PROVE Undisturbed(t)
        BY <2>1, <2>2, <2>3, <2>4, <3>2 DEF Undisturbed
      <3>4. Reports(s)'
        BY <1>h, <2>1, <2>3, <2>5, <3>2 DEF Reports
      <3>5. OneEach(s)'
        <4>. SUFFICES ASSUME proc[s] = "alive" PROVE OneEach(s)'
          BY <2>1 DEF OneEach
        <4>. DEFINE h == HeardRuns(s)  l == Len(accepted[Lead]) + 1
        <4>1. /\ h \in Nat
              /\ {accepted[Lead][i].n : i \in Heard(s)} = 1..h
              /\ \A i, j \in Heard(s) :
                    i < j => accepted[Lead][i].n < accepted[Lead][j].n
              /\ \A k \in 1..Len(wire[s]) : wire[s][k].n = h + k
          BY <1>h, <2>6 DEF OneEach
        <4>2. /\ Heard(s) \subseteq 1..(l - 1) /\ l - 1 \in Nat
              /\ \A i \in Heard(s) : accepted'[Lead][i] = accepted[Lead][i]
              /\ accepted'[Lead][l] = m
              /\ Heard(s)' = Heard(s) \cup {l}
          BY <2>2, <2>3, <3>2, HeardAppend
        <4>3. m.n = h + 1
          BY <2>2, <4>1
        <4>4. HeardRuns(s)' = h + 1
          <5>1. EndedRuns(s)' = EndedRuns(s) /\ EndedRuns(s) \in Int
            BY <1>t, <3>2 DEF EndedRuns
          <5>. QED  BY <2>2, <2>4, <5>1 DEF HeardRuns
        <4>. HIDE DEF h, l
        <4>5. {accepted'[Lead][i].n : i \in Heard(s)'} = 1..(h + 1)
          <5>1. {accepted'[Lead][i].n : i \in Heard(s)'} =
                  {accepted[Lead][i].n : i \in Heard(s)} \cup {h + 1}
            BY <4>2, <4>3
          <5>2. 1..(h + 1) = 1..h \cup {h + 1}
            BY <4>1
          <5>. QED  BY <4>1, <5>1, <5>2
        <4>6. ASSUME NEW i \in Heard(s)', NEW j \in Heard(s)', i < j
              PROVE  accepted'[Lead][i].n < accepted'[Lead][j].n
          <5>1. i \in Heard(s)
            <6>1. j \in 1..(l - 1) \/ j = l
              BY <4>2
            <6>2. l \in Nat
              BY DEF l
            <6>3. i # l
              BY <4>2, <4>6, <6>1, <6>2
            <6>. QED  BY <4>2, <6>3
          <5>2. accepted[Lead][i].n \in 1..h
            BY <4>1, <5>1
          <5>3. CASE j = l
            BY <4>1, <4>2, <4>3, <5>1, <5>2, <5>3
          <5>4. CASE j \in Heard(s)
            BY <4>1, <4>2, <4>6, <5>1, <5>4
          <5>. QED  BY <4>2, <5>3, <5>4
        <4>7. ASSUME NEW k \in 1..Len(wire'[s])
              PROVE  wire'[s][k].n = (h + 1) + k
          BY <2>2, <2>4, <4>1
        <4>. QED  BY <4>1, <4>4, <4>5, <4>6, <4>7 DEF OneEach
      <3>. QED  BY <1>o, <3>3, <3>4, <3>5
    <2>7. CASE proc[Lead] # "alive"
      <3>1. UNCHANGED <<run, runs, accepted>>
        BY <1>12, <2>7 DEF HearFinal, mailVars
      <3>2. Reports(s)' /\ OneEach(s)'
        BY <1>h, <2>1, <2>3, <2>5, <2>7, <3>1 DEF Reports, OneEach
      <3>3. ASSUME NEW t \in Subs \ {s} PROVE Undisturbed(t)
        BY <2>1, <2>4, <3>1 DEF Undisturbed, EndedRuns
      <3>. QED  BY <1>o, <3>2, <3>3
    <2>. QED  BY <2>6, <2>7
  <1>13. ASSUME NEW s \in Subs, FinishRun(s) PROVE ReportInv'
    <2>. DEFINE final == [from |-> s, n |-> runs[s]]
    <2>1. /\ UNCHANGED <<proc, accepted>> /\ proc[s] = "alive"
          /\ run[s] # "none"
          /\ wire' = IF proc[Lead] = "alive"
                     THEN [wire EXCEPT ![s] = Append(wire[s], final)] ELSE wire
      BY <1>13 DEF FinishRun, RoutesToLead, procVars, Ended
    <2>2. /\ \/ run'[s] = "live" /\ runs'[s] = runs[s] + 1
             \/ run'[s] = "none" /\ runs'[s] = runs[s]
          /\ \A t \in Subs \ {s} : run'[t] = run[t] /\ runs'[t] = runs[t]
      <3>1. \/ /\ run' = [run EXCEPT ![s] = "live"]
               /\ runs' = [runs EXCEPT ![s] = runs[s] + 1]
            \/ /\ run' = [run EXCEPT ![s] = "none"]
               /\ runs' = [runs EXCEPT ![s] = runs[s]]
        BY <1>13, Zenon DEF FinishRun
      <3>. QED  BY <1>s, <3>1 DEF TypeOK
    <2>3. /\ runs[s] \in Nat /\ runs[s] >= 1
          /\ EndedRuns(s) = runs[s] - 1 /\ EndedRuns(s)' = runs[s]
      BY <1>t, <1>h, <2>1, <2>2 DEF Reports, EndedRuns
    <2>4. final.from = s /\ final.n = runs[s] /\ final \in Message
      BY <1>s, <2>3 DEF Message
    <2>. HIDE DEF final
    <2>5. /\ Len(wire[s]) \in Nat
          /\ Len(Append(wire[s], final)) = Len(wire[s]) + 1
          /\ \A k \in 1..Len(wire[s]) : Append(wire[s], final)[k] = wire[s][k]
          /\ Append(wire[s], final)[Len(wire[s]) + 1] = final
      BY <1>t, <2>4
    <2>6. ASSUME NEW t \in Subs \ {s} PROVE Undisturbed(t)
      BY <2>1, <2>2 DEF Undisturbed, EndedRuns, TypeOK
    <2>7. CASE proc[Lead] = "alive"
      <3>1. wire'[s] = Append(wire[s], final)
        BY <2>1, <2>7 DEF TypeOK
      <3>2. \A k \in 1..Len(wire'[s]) : k \in 1..Len(wire[s]) \/ k = Len(wire[s]) + 1
        BY <2>5, <3>1
      <3>3. Reports(s)'
        BY <1>h, <2>1, <2>2, <2>3, <2>4, <2>5, <3>1, <3>2 DEF Reports
      <3>4. HeardRuns(s)' = HeardRuns(s) /\ HeardRuns(s) + Len(wire[s]) + 1 = runs[s]
        BY <2>3, <2>5, <3>1 DEF HeardRuns
      <3>5. Heard(s)' = Heard(s)
        BY <2>1 DEF Heard
      <3>6. OneEach(s)'
        <4>1. OneEach(s)
          BY <1>h
        <4>2. ASSUME NEW k \in 1..Len(wire'[s])
              PROVE  wire'[s][k].n = HeardRuns(s) + k
          <5>1. CASE k \in 1..Len(wire[s])
            BY <2>1, <2>5, <2>7, <3>1, <4>1, <5>1 DEF OneEach
          <5>2. CASE k = Len(wire[s]) + 1
            <6>1. HeardRuns(s) \in Nat
              BY <2>1, <2>7, <4>1 DEF OneEach
            <6>. QED  BY <2>4, <2>5, <3>1, <3>4, <5>2, <6>1
          <5>. QED  BY <3>2, <5>1, <5>2
        <4>. QED  BY <2>1, <2>7, <3>4, <3>5, <4>1, <4>2 DEF OneEach
      <3>. QED  BY <1>o, <2>6, <3>3, <3>6
    <2>8. CASE proc[Lead] # "alive"
      <3>1. wire' = wire
        BY <2>1, <2>8
      <3>2. Reports(s)' /\ OneEach(s)'
        BY <1>h, <2>1, <2>2, <2>3, <2>8, <3>1 DEF Reports, OneEach
      <3>. QED  BY <1>o, <2>6, <3>2
    <2>. QED  BY <2>7, <2>8
  <1>14. ASSUME NEW s \in Subs, NEW how \in Ended, RunEnds(s, how)
         PROVE  ReportInv'
    <2>1. /\ UNCHANGED <<proc, accepted, wire, runs>> /\ run[s] = "live"
          /\ run'[s] = IF proc[s] = "alive" THEN how ELSE "none"
          /\ \A t \in Subs \ {s} : run'[t] = run[t]
      BY <1>s, <1>14 DEF RunEnds, procVars, mailVars, TypeOK
    <2>2. how # "none"
      BY DEF Ended
    <2>3. ASSUME NEW t \in Subs \ {s} PROVE Undisturbed(t)
      BY <2>1 DEF Undisturbed, EndedRuns
    <2>4. CASE proc[s] = "alive"
      BY <1>u, <1>h, <2>1, <2>2, <2>3, <2>4 DEF Undisturbed, EndedRuns, Reports
    <2>5. CASE proc[s] # "alive"
      <3>1. Reports(s)' /\ OneEach(s)'
        BY <1>h, <2>1, <2>5 DEF Reports, OneEach, Heard
      <3>. QED  BY <1>o, <2>3, <3>1
    <2>. QED  BY <2>4, <2>5
  <1>15. ASSUME NEW a \in Agents, NEW brutal \in BOOLEAN, AgentDies(a, brutal)
         PROVE  ReportInv'
    <2>1. /\ Vanish(a) /\ UNCHANGED <<wire, runs>>
          /\ \A t \in Agents \ {a} : run'[t] = run[t]
      BY <1>15 DEF AgentDies, TypeOK
    <2>2. CASE a \in Subs
      BY <1>s, <1>d, <2>1, <2>2
    <2>3. CASE a = Lead
      <3>1. proc'[Lead] = "dead" /\ accepted'[Lead] = <<>>
        BY <1>s, <2>1, <2>3 DEF Vanish, TypeOK
      <3>2. ASSUME NEW t \in Subs PROVE Reports(t)' /\ OneEach(t)'
        <4>1. proc'[t] = proc[t] /\ run'[t] = run[t]
          BY <1>s, <2>1, <2>3 DEF Vanish, TypeOK
        <4>2. Heard(t)' = {}
          BY <3>1 DEF Heard
        <4>. QED  BY <1>h, <2>1, <3>1, <4>1, <4>2 DEF Reports, OneEach
      <3>. QED  BY <3>2 DEF ReportInv
    <2>. QED  BY <2>2, <2>3 DEF Agents
  <1>16. CASE UNCHANGED vars
    BY <1>v, <1>16 DEF vars, procVars, mailVars
  <1>. QED  BY <1>1, <1>2, <1>3, <1>4, <1>5, <1>6, <1>7, <1>8, <1>9, <1>10,
               <1>11, <1>12, <1>13, <1>14, <1>15, <1>16 DEF Next, Delete

\* The lead hears of every ended run of a live subagent, once and in order,
\* however finals, host messages, waits, deletes and deaths interleave.
THEOREM RunsReportOnce == Spec => []EveryRunReportsOnce
  <1>1. Init => ReportInv
    <2>. SUFFICES ASSUME Init, NEW s \in Subs PROVE Reports(s) /\ OneEach(s)
      BY DEF ReportInv
    <2>1. /\ proc[s] = "absent" /\ wire[s] = <<>> /\ accepted[Lead] = <<>>
      BY NamesAssumption DEF Init, Agents
    <2>. QED  BY <2>1 DEF Reports, OneEach, Heard
  <1>2. ReportInv => EveryRunReportsOnce
    BY DEF ReportInv, OneEach, EveryRunReportsOnce
  <1>. QED  BY <1>1, <1>2, InitialRoster, RosterStep, ReportStep, TypeCorrect, PTL
            DEF Spec

-----------------------------------------------------------------------------
(* What a step never does                                                  *)

\* A terminated subagent stays terminated and a spent token stays spent
\* for as long as the instance lives.
THEOREM NothingComesBack == Spec => TerminatedAndSpentAreFinal
  <1>. DEFINE Final == restarts' = restarts =>
                \A s \in Subs :
                    /\ Status(s) = "terminated" => Status(s)' = "terminated"
                    /\ used'[s] >= used[s]
  <1>1. TypeOK /\ RosterInv /\ [Next]_vars => [Final]_vars
    <2>. SUFFICES ASSUME TypeOK, RosterInv, Next, restarts' = restarts,
                         NEW s \in Subs
                  PROVE  /\ Status(s) = "terminated" => Status(s)' = "terminated"
                         /\ used'[s] >= used[s]
      OBVIOUS
    <2>s. s \in Agents /\ used[s] \in Nat
      BY DEF Agents, TypeOK
    <2>k. UNCHANGED <<proc, roster, used>> => 
             /\ Status(s) = "terminated" => Status(s)' = "terminated"
             /\ used'[s] >= used[s]
      BY <2>s DEF Status
    <2>1. ASSUME NEW t \in Subs, Create(t)
          PROVE  /\ Status(s) = "terminated" => Status(s)' = "terminated"
                 /\ used'[s] >= used[s]
      <3>1. roster[t] = "none" /\ proc[t] = "absent"
        BY <2>1 DEF Create, Admit, RosterInv
      <3>2. /\ proc' = [proc EXCEPT ![t] = "alive"] /\ used' = used
            /\ roster' = [roster EXCEPT ![t] = "alive"]
        BY <2>1 DEF Create
      <3>. QED  BY <2>s, <3>1, <3>2 DEF Status, TypeOK
    <2>2. ASSUME NEW t \in Subs, DeleteStops(t)
          PROVE  /\ Status(s) = "terminated" => Status(s)' = "terminated"
                 /\ used'[s] >= used[s]
      BY <2>s, <2>2 DEF DeleteStops, Vanish, MarkTerminated, Status, TypeOK
    <2>3. ASSUME NEW t \in Subs, DeleteCrashesCoordinator(t)
          PROVE  FALSE
      BY <2>3, BoundsAssumption DEF DeleteCrashesCoordinator, TypeOK
    <2>4. ASSUME NEW t \in Subs, Down(t)
          PROVE  /\ Status(s) = "terminated" => Status(s)' = "terminated"
                 /\ used'[s] >= used[s]
      BY <2>s, <2>4 DEF Down, procVars, MarkTerminated, Status, TypeOK
    <2>5. ASSUME NEW a \in Agents, NEW brutal \in BOOLEAN, AgentDies(a, brutal)
          PROVE  /\ Status(s) = "terminated" => Status(s)' = "terminated"
                 /\ used'[s] >= used[s]
      BY <2>s, <2>5 DEF AgentDies, Vanish, coordVars, Status, TypeOK
    <2>6. ASSUME NEW t \in Subs, NEW tokens \in Tokens, AddUsage(t, tokens)
          PROVE  /\ Status(s) = "terminated" => Status(s)' = "terminated"
                 /\ used'[s] >= used[s]
      <3>1. used'[s] = used[s] \/ used'[s] = used[s] + tokens
        BY <2>s, <2>6 DEF AddUsage, TypeOK
      <3>2. UNCHANGED <<proc, roster>> /\ tokens \in Nat
        BY <2>6, BudgetAssumption DEF AddUsage, procVars, coordVars
      <3>. QED  BY <2>s, <3>1, <3>2 DEF Status
    <2>7. ASSUME NEW a \in Agents, Reap(a) \/ Send(a) \/ Drain(a)
          PROVE  UNCHANGED <<proc, roster, used>>
      BY <2>7 DEF Reap, Send, Drain, procVars, coordVars
    <2>8. ASSUME NEW a \in Agents, NEW timed \in BOOLEAN, WaitForMessage(a, timed)
          PROVE  UNCHANGED <<proc, roster, used>>
      BY <2>8 DEF WaitForMessage, procVars, coordVars
    <2>9. ASSUME NEW t \in timers, TimerFires(t[1], t[2])
          PROVE  UNCHANGED <<proc, roster, used>>
      BY <2>9 DEF TimerFires, procVars, coordVars
    <2>10. ASSUME NEW t \in expired, WaitTimeout(t[1], t[2])
           PROVE  UNCHANGED <<proc, roster, used>>
      BY <2>10 DEF WaitTimeout, procVars, coordVars
    <2>11. ASSUME NEW t \in Subs, HearFinal(t) \/ FinishRun(t)
           PROVE  UNCHANGED <<proc, roster, used>>
      BY <2>11 DEF HearFinal, FinishRun, procVars, coordVars
    <2>12. ASSUME NEW t \in Subs, NEW how \in Ended, RunEnds(t, how)
           PROVE  UNCHANGED <<proc, roster, used>>
      BY <2>12 DEF RunEnds, procVars, coordVars
    <2>. QED  BY <2>k, <2>1, <2>2, <2>3, <2>4, <2>5, <2>6, <2>7, <2>8, <2>9,
                 <2>10, <2>11, <2>12 DEF Next, Delete
  <1>. QED  BY <1>1, InitialRoster, RosterStep, TypeCorrect, PTL
            DEF Spec, TerminatedAndSpentAreFinal

=============================================================================
