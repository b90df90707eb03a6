---------------------------- MODULE EffectsProofs ----------------------------
(***************************************************************************)
(* Effects for every set of plans, executors, values and bounds: that a    *)
(* plan is ordered and grouped as its graph demands, and what the journal  *)
(* promises through failures and crashes.                                  *)
(***************************************************************************)
EXTENDS Effects, FiniteSetTheorems, WellFoundedInduction, TLAPS

-----------------------------------------------------------------------------
(* Plans                                                                   *)

LEMMA PlanIndices ==
    ASSUME NEW p \in Plans
    PROVE  Len(p) \in Nat /\ DOMAIN p = 1..Len(p)
  BY PlansAssumption

\* A name of a well-formed plan stands for one effect.
LEMMA EffectAt ==
    ASSUME NEW p \in Plans, WellFormed(p), NEW i \in 1..Len(p)
    PROVE  p[i].name \in NamesOf(p) /\ EffectOf(p, p[i].name) = p[i]
  <1>1. i \in DOMAIN p /\ \A j \in DOMAIN p : p[j].name = p[i].name => j = i
    BY PlanIndices DEF WellFormed
  <1>2. (CHOOSE j \in DOMAIN p : p[j].name = p[i].name) = i
    BY <1>1
  <1>. QED  BY <1>1, <1>2 DEF NamesOf, EffectOf

LEMMA PlanNames ==
    ASSUME NEW p \in Plans, WellFormed(p), NEW n \in NamesOf(p)
    PROVE  n \in Names /\ RefsOf(EffectOf(p, n)) \subseteq NamesOf(p)
  <1>1. PICK i \in 1..Len(p) : p[i].name = n
    BY PlanIndices DEF NamesOf
  <1>2. RefsOf(p[i]) \subseteq NamesOf(p)
    BY PlanIndices DEF WellFormed
  <1>3. EffectOf(p, n) = p[i]
    BY <1>1, EffectAt
  <1>. QED  BY <1>2, <1>3 DEF Names

LEMMA PlanIds ==
    ASSUME NEW p \in ValidPlans, NEW n \in NamesOf(p)
    PROVE  /\ n \in Names /\ IdOf[p][n] \in Ids
           /\ RefsOf(EffectOf(p, n)) \subseteq NamesOf(p)
  <1>1. p \in Plans /\ WellFormed(p)
    BY DEF ValidPlans
  <1>2. IdOf[p][n] \in Ids
    BY DEF Ids
  <1>. QED  BY <1>1, <1>2, PlanNames

\* N names without a repetition.
LEMMA Counting ==
    ASSUME NEW N \in Nat, NEW S, NEW f \in [1..N -> S],
           \A i, j \in 1..N : f[i] = f[j] => i = j,
           \A t \in S : \E i \in 1..N : f[i] = t
    PROVE  IsFiniteSet(S) /\ Cardinality(S) = N
  <1>1. f \in Bijection(1..N, S)
    BY DEF Bijection, Injection, Surjection, IsInjective
  <1>2. ExistsBijection(1..N, S)
    BY <1>1 DEF ExistsBijection
  <1>. QED  BY <1>2, FS_NatBijection, FS_CountingElements

\* As many places as effects are the places of all of them, and with fewer
\* places one is left.
LEMMA Places ==
    ASSUME plan \in Plans, WellFormed(plan), order \in Seq(NamesOf(plan)),
           \A i, j \in 1..Len(order) : order[i] = order[j] => i = j
    PROVE  /\ Placed \subseteq NamesOf(plan)
           /\ Len(order) = Len(plan) => Placed = NamesOf(plan)
           /\ Len(order) < Len(plan) => Placed # NamesOf(plan)
           /\ Len(order) <= Len(plan)
  <1>. DEFINE f == [i \in 1..Len(plan) |-> plan[i].name]
  <1>1. Len(plan) \in Nat /\ Len(order) \in Nat
    BY PlanIndices
  <1>2. Placed \subseteq NamesOf(plan)
    BY DEF Placed
  <1>3. IsFiniteSet(Placed) /\ Cardinality(Placed) = Len(order)
    <2>1. order \in [1..Len(order) -> Placed]
      BY DEF Placed
    <2>2. \A t \in Placed : \E i \in 1..Len(order) : order[i] = t
      BY DEF Placed
    <2>. QED  BY <1>1, <2>1, <2>2, Counting
  <1>4. /\ f \in [1..Len(plan) -> NamesOf(plan)]
        /\ \A t \in NamesOf(plan) : \E i \in 1..Len(plan) : f[i] = t
    BY PlanIndices DEF NamesOf
  <1>5. \A i, j \in 1..Len(plan) : f[i] = f[j] => i = j
    BY PlanIndices DEF WellFormed
  <1>. HIDE DEF f
  <1>6. IsFiniteSet(NamesOf(plan)) /\ Cardinality(NamesOf(plan)) = Len(plan)
    BY <1>1, <1>4, <1>5, Counting
  <1>7. /\ Cardinality(Placed) <= Cardinality(NamesOf(plan))
        /\ Cardinality(NamesOf(plan)) = Cardinality(Placed) => NamesOf(plan) = Placed
    BY <1>2, <1>6, FS_Subset
  <1>. QED  BY <1>1, <1>2, <1>3, <1>6, <1>7

\* A set of naturals has a least element, and a bounded one a greatest.
LEMMA LeastNatural ==
    ASSUME NEW T, T \subseteq Nat, T # {}
    PROVE  \E x \in T : \A y \in T : x <= y
  <1>. DEFINE R == OpToRel(<, Nat)
  <1>1. \E x \in T : \A y \in T : ~(<<y, x>> \in R)
    <2>1. IsWellFoundedOn(R, Nat)
      BY NatLessThanWellFounded
    <2>. HIDE DEF R
    <2>. QED  BY <2>1, WFMin
  <1>2. PICK x \in T : \A y \in T : ~(<<y, x>> \in R)
    BY <1>1
  <1>3. \A y \in T : ~(y < x)
    BY <1>2 DEF OpToRel
  <1>. QED  BY <1>3

LEMMA BoundedMax ==
    ASSUME NEW N \in Nat, NEW T, T \subseteq 0..N, T # {}
    PROVE  \E x \in T : \A y \in T : y <= x
  <1>. DEFINE D == {N - x : x \in T}
  <1>0. \A x \in T : N - x \in Nat
    OBVIOUS
  <1>1. D \subseteq Nat /\ D # {}
    BY <1>0
  <1>2. PICK d \in D : \A e \in D : d <= e
    <2>. HIDE DEF D
    <2>. QED  BY <1>1, LeastNatural
  <1>3. PICK x \in T : d = N - x
    OBVIOUS
  <1>4. ASSUME NEW y \in T PROVE y <= x
    <2>1. N - x <= N - y
      BY <1>2, <1>3
    <2>2. x \in 0..N /\ y \in 0..N
      OBVIOUS
    <2>. HIDE DEF D
    <2>. QED  BY <2>1, <2>2
  <1>. QED  BY <1>4

-----------------------------------------------------------------------------
(* The inductive invariant                                                 *)

Running == pc \in {"stage", "run", "save"}

\* Until the levels begin nothing of a run has happened.
AtRest ==
    /\ ~Running => /\ level = 0 /\ halted = {}
                   /\ \A n \in Names : /\ jobs[n] = "none"
                                       /\ results[n] = "none"
                                       /\ outputs[n] = "none"
    /\ pc = "idle" => order = <<>> /\ cursor = 1 /\ ~advanced
    /\ pc \in {"idle", "order"} => groups = 0
    /\ pc = "order" => applies < MaxApplies

\* A plan is built before apply, and is acyclic once it is ordered.
Planned ==
    /\ pc # "idle" => plan \in Plans /\ WellFormed(plan)
    /\ pc \notin {"idle", "order"} => plan \in ValidPlans

\* Names have one place each, after the places of all they read from; a pass
\* that has placed nothing is still at its start.
PlacesAreRight ==
    pc # "idle" =>
        /\ order \in Seq(NamesOf(plan))
        /\ \A i, j \in 1..Len(order) : order[i] = order[j] => i = j
        /\ \A i \in 1..Len(order) : \A d \in Deps(order[i]) :
              \E j \in 1..(i - 1) : order[j] = d
        /\ pc = "order" => cursor >= 1 /\ (~advanced => cursor = 1)
        /\ pc # "order" => Placed = NamesOf(plan)

\* What levels has been through lies above all that it reads from, and not
\* higher than its place.
DepthsAreRight ==
    /\ pc = "group" =>
          /\ cursor \in 1..(Len(order) + 1)
          /\ \A i \in 1..(cursor - 1) :
                /\ depth[order[i]] < i /\ depth[order[i]] < groups
                /\ \A d \in Deps(order[i]) : depth[d] < depth[order[i]]
    /\ Running =>
          \A n \in NamesOf(plan) :
             depth[n] < groups /\ \A d \in Deps(n) : depth[d] < depth[n]

\* The verdicts of the diff stay right: nothing that was saved as succeeded
\* changes in memory, and a thread never runs for it.
VerdictsStand ==
    pc \notin {"idle", "order"} =>
        /\ cached = {n \in NamesOf(plan) : IsCached(Id(n))}
        /\ \A i \in Ids : IsCached(i) => mem[i] = disk[i]

\* Threads work for effects of the level that are still without a record.
ThreadsAreStaged ==
    \A n \in Names : jobs[n] # "none" =>
        /\ pc = "run" /\ n \in NamesOf(plan) \ cached
        /\ depth[n] = level
        /\ results[n] = "none"
        /\ \A d \in Deps(n) : results[d] \in {"executed", "cached"}

\* Records are of effects of this level or of earlier ones.
RecordsAreBehind ==
    \A n \in Names : results[n] # "none" =>
        /\ Running /\ n \in NamesOf(plan)
        /\ depth[n] \in 0..level
        /\ pc = "stage" => depth[n] # level

\* Behind the level every effect has its record, at it a record or a thread.
NoneIsLeft ==
    /\ Running => \A n \in NamesOf(plan) : depth[n] < level => results[n] # "none"
    /\ pc = "run" => \A n \in NamesOf(plan) :
          depth[n] = level => results[n] # "none" \/ jobs[n] # "none"
    /\ pc = "save" => level >= groups

Lost == {n \in Names : results[n] \in {"failed", "skipped"}}

\* Skipped is who reads from an effect that did not succeed.
SkipsAreRight ==
    /\ Running => halted = Lost
    /\ \A n \in Names : results[n] # "none" =>
          (results[n] = "skipped" <=> Deps(n) \cap Lost # {})

\* Nobody claims what no execution returned.
ClaimsAreTrue ==
    /\ \A i \in Ids : disk[i].status = "succeeded" =>
                        <<i, disk[i].out>> \in produced
    /\ \A i \in Ids : mem[i].status = "succeeded" =>
                        <<i, mem[i].out>> \in produced
    /\ \A n \in Names : jobs[n] \in Outs => <<Id(n), jobs[n]>> \in produced

\* A record of success has its entry in memory, unless a later effect of the
\* same identity failed.
RecordsHaveEntries ==
    \A n \in Names :
        /\ results[n] = "cached" => n \in cached
        /\ results[n] = "executed" =>
             \/ mem[Id(n)].status = "succeeded"
             \/ \E m \in Names : results[m] = "failed" /\ Id(m) = Id(n)

\* Only what succeeded has outputs.
OutputsAreOfSuccess ==
    \A n \in Names : outputs[n] # "none" =>
        results[n] \in {"executed", "cached"}

LastRunIsKept ==
    (\A n \in DOMAIN lastRun : lastRun[n].action \in {"executed", "cached"}) =>
        \A n \in DOMAIN lastRun : disk[lastRun[n].id].status = "succeeded"

GraphInv == Planned /\ PlacesAreRight /\ DepthsAreRight

RunInv == /\ VerdictsStand /\ ThreadsAreStaged /\ RecordsAreBehind
          /\ NoneIsLeft /\ SkipsAreRight /\ ClaimsAreTrue
          /\ RecordsHaveEntries /\ OutputsAreOfSuccess /\ LastRunIsKept

IInv == TypeOK /\ AtRest /\ GraphInv /\ RunInv

-----------------------------------------------------------------------------
(* Order and levels                                                        *)

\* When a pass finds nothing, the effects without a place read from each
\* other.
LEMMA StuckIsCyclic ==
    ASSUME plan \in Plans, WellFormed(plan), order \in Seq(NamesOf(plan)),
           \A i, j \in 1..Len(order) : order[i] = order[j] => i = j,
           Len(order) < Len(plan),
           \A i \in 1..Len(plan) : ~Ready(i)
    PROVE  ~Acyclic(plan)
  <1>. DEFINE S == NamesOf(plan) \ Placed
  <1>1. S \in SUBSET NamesOf(plan) /\ S # {}
    BY Places
  <1>2. ASSUME NEW n \in S PROVE RefsOf(EffectOf(plan, n)) \cap S # {}
    <2>1. PICK i \in 1..Len(plan) : plan[i].name = n
      BY PlanIndices DEF NamesOf
    <2>2. EffectOf(plan, n) = plan[i] /\ n \notin Placed
      BY <2>1, EffectAt
    <2>3. ~(RefsOf(plan[i]) \subseteq Placed)
      BY <2>1, <2>2 DEF Ready
    <2>4. RefsOf(plan[i]) \subseteq NamesOf(plan)
      BY <2>2, PlanNames
    <2>. QED  BY <2>2, <2>3, <2>4
  <1>. QED  BY <1>1, <1>2 DEF Acyclic

\* The first place of a set belongs to an effect that reads from no other
\* of it.
LEMMA OrderedIsAcyclic ==
    ASSUME PlacesAreRight, pc # "idle", Placed = NamesOf(plan)
    PROVE  Acyclic(plan)
  <1>. SUFFICES ASSUME NEW S \in SUBSET NamesOf(plan), S # {}
                PROVE  \E n \in S : RefsOf(EffectOf(plan, n)) \cap S = {}
    BY DEF Acyclic
  <1>. DEFINE T == {i \in 1..Len(order) : order[i] \in S}
  <1>1. Len(order) \in Nat
    BY DEF PlacesAreRight
  <1>2. T \subseteq Nat /\ T # {}
    BY <1>1 DEF Placed
  <1>3. PICK x \in T : \A y \in T : x <= y
    <2>. HIDE DEF T
    <2>. QED  BY <1>2, LeastNatural
  <1>4. ASSUME NEW d \in Deps(order[x]) PROVE d \notin S
    <2>1. PICK j \in 1..(x - 1) : order[j] = d
      BY DEF PlacesAreRight
    <2>2. j \in 1..Len(order) /\ ~(x <= j)
      BY <1>1
    <2>. QED  BY <1>3, <2>1, <2>2
  <1>. QED  BY <1>4 DEF Deps

\* The level that levels computes: above all that the effect reads from.
LEMMA DepthIsMax ==
    ASSUME TypeOK, GraphInv, pc = "group", cursor <= Len(order)
    PROVE  LET n == order[cursor]
           IN  /\ DepthOf(n) \in 0..(cursor - 1)
               /\ Deps(n) \subseteq Grouped
               /\ \A d \in Deps(n) : depth[d] < DepthOf(n)
  <1>. DEFINE n == order[cursor]
              T == {0} \cup {depth[d] + 1 : d \in RefsOf(EffectOf(plan, n)) \cap Grouped}
  <1>1. cursor \in 1..Len(order) /\ Len(order) \in Nat /\ cursor \in Nat
    BY DEF GraphInv, PlacesAreRight, DepthsAreRight, TypeOK
  <1>2. Deps(n) \subseteq Grouped
    <2>1. \A d \in Deps(n) : \E j \in 1..(cursor - 1) : order[j] = d
      BY <1>1 DEF GraphInv, PlacesAreRight
    <2>. QED  BY <2>1 DEF Grouped
  <1>3. \A d \in Grouped : depth[d] \in Nat /\ depth[d] < cursor - 1
    <2>. SUFFICES ASSUME NEW i \in 1..(cursor - 1)
                  PROVE  depth[order[i]] \in Nat /\ depth[order[i]] < cursor - 1
      BY DEF Grouped
    <2>1. i \in 1..Len(order) /\ depth[order[i]] < i
      BY <1>1 DEF GraphInv, DepthsAreRight
    <2>2. order[i] \in Names
      BY <2>1 DEF TypeOK
    <2>3. depth[order[i]] \in Nat
      BY <2>2 DEF TypeOK
    <2>. QED  BY <1>1, <2>1, <2>3
  <1>4. T \subseteq 0..(cursor - 1) /\ 0 \in T
    BY <1>1, <1>3
  <1>5. PICK x \in T : \A y \in T : y <= x
    <2>. HIDE DEF T
    <2>1. cursor - 1 \in Nat
      BY <1>1
    <2>. QED  BY <1>4, <2>1, BoundedMax
  <1>6. Max(T) \in T /\ \A y \in T : y <= Max(T)
    <2>. HIDE DEF T
    <2>1. \A y \in T : x >= y
      BY <1>1, <1>4, <1>5
    <2>2. Max(T) \in T /\ \A y \in T : Max(T) >= y
      BY <2>1 DEF Max
    <2>. QED  BY <1>1, <1>4, <2>2
  <1>7. DepthOf(n) = Max(T)
    BY DEF DepthOf
  <1>8. DepthOf(n) \in 0..(cursor - 1)
    BY <1>4, <1>6, <1>7
  <1>9. ASSUME NEW d \in Deps(n) PROVE depth[d] < DepthOf(n)
    <2>1. depth[d] + 1 \in T /\ depth[d] \in Nat
      BY <1>2, <1>3 DEF Deps
    <2>2. depth[d] + 1 <= DepthOf(n)
      BY <1>6, <1>7, <2>1
    <2>. HIDE DEF T, n
    <2>. QED  BY <1>1, <1>8, <2>1, <2>2
  <1>. QED  BY <1>2, <1>8, <1>9

\* Steps that leave the order alone.
LEMMA OrderStays ==
    ASSUME PlacesAreRight, pc # "idle", plan' = plan, order' = order,
           pc' = "order" => cursor' >= 1 /\ (~advanced' => cursor' = 1),
           pc' # "order" => Placed = NamesOf(plan)
    PROVE  PlacesAreRight'
  <1>1. /\ order \in Seq(NamesOf(plan))
        /\ \A i, j \in 1..Len(order) : order[i] = order[j] => i = j
    BY DEF PlacesAreRight
  <1>2. \A i \in 1..Len(order) : \A d \in Deps(order[i]) :
              \E j \in 1..(i - 1) : order[j] = d
    BY DEF PlacesAreRight
  <1>3. \A i : Deps(order[i])' = Deps(order[i])
    BY DEF Deps
  <1>4. Placed' = Placed
    BY DEF Placed
  <1>5. \A i \in 1..Len(order') : \A d \in Deps(order[i])' :
              \E j \in 1..(i - 1) : order'[j] = d
    <2>. TAKE i \in 1..Len(order')
    <2>. TAKE d \in Deps(order[i])'
    <2>1. i \in 1..Len(order) /\ d \in Deps(order[i])
      BY <1>3
    <2>. QED  BY <1>2, <2>1
  <1>. QED  BY <1>1, <1>4, <1>5 DEF PlacesAreRight

\* Once all have their places the order stays.
LEMMA PlacesStay ==
    ASSUME PlacesAreRight, pc \notin {"idle", "order"}, pc' \notin {"idle", "order"},
           plan' = plan, order' = order
    PROVE  PlacesAreRight'
  <1>1. Placed = NamesOf(plan)
    BY DEF PlacesAreRight
  <1>. QED  BY <1>1, OrderStays

\* What is said of the graph while apply runs is about these variables.
LEMMA SameGraph ==
    ASSUME GraphInv, Running, Running', UNCHANGED <<plan, order, depth, groups>>
    PROVE  GraphInv'
  <1>1. \A n : Deps(n)' = Deps(n)
    BY DEF Deps
  <1>2. Planned'
    BY DEF GraphInv, Planned, Running
  <1>3. PlacesAreRight'
    BY PlacesStay DEF GraphInv, Running
  <1>4. DepthsAreRight'
    BY <1>1 DEF GraphInv, DepthsAreRight, Running
  <1>. QED  BY <1>2, <1>3, <1>4 DEF GraphInv

LEMMA PlaceGraph ==
    ASSUME TypeOK, GraphInv, NEW i \in 1..Len(plan), Place(i)
    PROVE  GraphInv' /\ order' \in Seq(Names) /\ cursor' \in Nat
  <1>1. /\ pc = "order" /\ pc' = "order" /\ plan' = plan /\ Ready(i)
        /\ order' = Append(order, plan[i].name) /\ cursor' = i + 1 /\ advanced' = TRUE
    BY DEF Place
  <1>2. plan \in Plans /\ WellFormed(plan)
    BY <1>1 DEF GraphInv, Planned
  <1>. DEFINE n == plan[i].name  l == Len(order)
  <1>3. n \in NamesOf(plan) /\ EffectOf(plan, n) = plan[i] /\ n \in Names
    BY <1>2, EffectAt, PlanNames
  <1>4. /\ order \in Seq(NamesOf(plan)) /\ l \in Nat /\ order \in Seq(Names)
        /\ \A j \in 1..l : order[j] # n
    BY <1>1 DEF GraphInv, PlacesAreRight, Ready, Placed, TypeOK
  <1>5. /\ order' \in Seq(NamesOf(plan)) /\ Len(order') = l + 1 /\ order'[l + 1] = n
        /\ \A j \in 1..l : order'[j] = order[j]
        /\ order' \in Seq(Names)
    BY <1>1, <1>3, <1>4
  <1>6. \A j \in 1..(l + 1) : j \in 1..l \/ j = l + 1
    BY <1>4
  <1>7. \A m : Deps(m)' = Deps(m)
    BY <1>1 DEF Deps
  <1>8. \A d \in Deps(n) : \E j \in 1..l : order[j] = d
    BY <1>1, <1>3 DEF Ready, Deps, Placed
  <1>9. /\ \A j, k \in 1..l : order[j] = order[k] => j = k
        /\ \A j \in 1..l : \A d \in Deps(order[j]) : \E k \in 1..(j - 1) : order[k] = d
    BY <1>1 DEF GraphInv, PlacesAreRight
  <1>10. i + 1 >= 1 /\ i + 1 \in Nat
    BY <1>2, PlanIndices
  <1>. HIDE DEF n, l
  <1>11. \A j, k \in 1..(l + 1) : order'[j] = order'[k] => j = k
    BY <1>4, <1>5, <1>6, <1>9
  <1>12. ASSUME NEW j \in 1..(l + 1), NEW d \in Deps(order'[j])
         PROVE  \E k \in 1..(j - 1) : order'[k] = d
    <2>1. CASE j = l + 1
      <3>1. PICK k \in 1..l : order[k] = d
        BY <1>5, <1>8, <1>12, <2>1
      <3>2. k \in 1..(j - 1)
        BY <1>4, <2>1
      <3>. QED  BY <1>5, <3>1, <3>2
    <2>2. CASE j \in 1..l
      <3>1. PICK k \in 1..(j - 1) : order[k] = d
        BY <1>5, <1>9, <1>12, <2>2
      <3>2. k \in 1..l
        BY <1>4, <2>2
      <3>. QED  BY <1>5, <3>1, <3>2
    <2>. QED  BY <1>6, <2>1, <2>2
  <1>13. PlacesAreRight'
    BY <1>1, <1>5, <1>7, <1>10, <1>11, <1>12 DEF PlacesAreRight
  <1>14. Planned' /\ DepthsAreRight'
    BY <1>1, <1>2 DEF Planned, DepthsAreRight, Running
  <1>. QED  BY <1>1, <1>5, <1>10, <1>13, <1>14 DEF GraphInv

\* The code's test, a full order, is the test for an acyclic graph.
LEMMA CompleteGraph ==
    ASSUME GraphInv, pc = "order", Len(order) = Len(plan)
    PROVE  Placed = NamesOf(plan) /\ plan \in ValidPlans
  <1>1. plan \in Plans /\ WellFormed(plan)
    BY DEF GraphInv, Planned
  <1>2. Placed = NamesOf(plan)
    BY <1>1, Places DEF GraphInv, PlacesAreRight
  <1>3. Acyclic(plan)
    BY <1>2, OrderedIsAcyclic DEF GraphInv
  <1>. QED  BY <1>1, <1>2, <1>3 DEF ValidPlans

LEMMA GroupGraph ==
    ASSUME TypeOK, GraphInv, Group
    PROVE  GraphInv' /\ depth' \in [Names -> Nat] /\ groups' \in Nat
  <1>. DEFINE n == order[cursor]  v == DepthOf(order[cursor])
  <1>1. /\ pc = "group" /\ pc' = "group" /\ plan' = plan /\ order' = order
        /\ cursor <= Len(order) /\ cursor' = cursor + 1
        /\ depth' = [depth EXCEPT ![n] = v]
        /\ groups' = IF groups <= v THEN v + 1 ELSE groups
    BY DEF Group
  <1>2. /\ v \in 0..(cursor - 1) /\ Deps(n) \subseteq Grouped
        /\ \A d \in Deps(n) : depth[d] < v
    BY <1>1, DepthIsMax
  <1>3. /\ cursor \in 1..Len(order) /\ Len(order) \in Nat /\ cursor \in Nat
        /\ n \in Names /\ groups \in Nat /\ depth \in [Names -> Nat]
        /\ \A i \in 1..Len(order) : order[i] \in Names
    BY <1>1 DEF GraphInv, PlacesAreRight, DepthsAreRight, TypeOK
  <1>. HIDE DEF v
  <1>4. v \in Nat /\ v < cursor /\ v < groups' /\ groups' \in Nat /\ groups <= groups'
    BY <1>1, <1>2, <1>3
  <1>5. depth' \in [Names -> Nat] /\ depth'[n] = v /\ \A m \in Names \ {n} : depth'[m] = depth[m]
    BY <1>1, <1>3, <1>4
  <1>6. \A i, j \in 1..Len(order) : order[i] = order[j] => i = j
    BY <1>1 DEF GraphInv, PlacesAreRight
  <1>7. \A i \in 1..(cursor - 1) : i \in 1..Len(order) /\ order[i] # n
    BY <1>3, <1>6
  <1>n. n = order[cursor]
    OBVIOUS
  <1>. HIDE DEF n
  <1>8. \A i \in 1..(cursor - 1) : depth'[order[i]] = depth[order[i]]
    BY <1>3, <1>5, <1>7
  <1>9. \A d \in Grouped : depth'[d] = depth[d]
    BY <1>8 DEF Grouped
  <1>10. ASSUME NEW i \in 1..cursor
         PROVE  /\ depth'[order[i]] < i /\ depth'[order[i]] < groups'
                /\ \A d \in Deps(order[i]) : depth'[d] < depth'[order[i]]
    <2>1. CASE i = cursor
      BY <1>2, <1>4, <1>5, <1>9, <1>n, <2>1
    <2>2. CASE i \in 1..(cursor - 1)
      <3>1. /\ depth[order[i]] < i /\ depth[order[i]] < groups
            /\ \A d \in Deps(order[i]) : depth[d] < depth[order[i]]
        BY <1>1, <2>2 DEF GraphInv, DepthsAreRight
      <3>2. \A d \in Deps(order[i]) : d \in Grouped
        <4>1. \A d \in Deps(order[i]) : \E k \in 1..(i - 1) : order[k] = d
          BY <1>1, <1>7, <2>2 DEF GraphInv, PlacesAreRight
        <4>2. \A k \in 1..(i - 1) : k \in 1..(cursor - 1)
          BY <1>3, <2>2
        <4>. QED  BY <4>1, <4>2 DEF Grouped
      <3>3. depth[order[i]] \in Nat
        BY <1>3, <1>7, <2>2
      <3>. QED  BY <1>3, <1>4, <1>8, <1>9, <2>2, <3>1, <3>2, <3>3
    <2>. QED  BY <1>3, <2>1, <2>2
  <1>11. \A m : Deps(m)' = Deps(m)
    BY <1>1 DEF Deps
  <1>12. DepthsAreRight'
    <2>1. cursor' \in 1..(Len(order') + 1) /\ cursor' - 1 = cursor
      BY <1>1, <1>3
    <2>. QED  BY <1>1, <1>10, <1>11, <2>1 DEF DepthsAreRight, Running
  <1>13. Planned' /\ PlacesAreRight'
    BY <1>1, PlacesStay DEF GraphInv, Planned
  <1>. QED  BY <1>4, <1>5, <1>12, <1>13 DEF GraphInv

\* Through with the order, levels has been through every effect.
LEMMA BeginGraph ==
    ASSUME TypeOK, GraphInv, Begin
    PROVE  GraphInv' /\ Running' /\ (pc' = "save" => groups = 0)
  <1>1. /\ pc = "group" /\ pc' \in {"stage", "save"} /\ cursor > Len(order)
        /\ plan' = plan /\ order' = order /\ depth' = depth /\ groups' = groups
        /\ pc' = "save" => groups = 0
    BY DEF Begin, runVars, topoVars, groupVars
  <1>2. cursor = Len(order) + 1 /\ Len(order) \in Nat /\ cursor - 1 = Len(order)
    BY <1>1 DEF GraphInv, PlacesAreRight, DepthsAreRight
  <1>3. Placed = NamesOf(plan)
    BY <1>1 DEF GraphInv, PlacesAreRight
  <1>4. ASSUME NEW n \in NamesOf(plan)
        PROVE  depth[n] < groups /\ \A d \in Deps(n) : depth[d] < depth[n]
    <2>1. PICK i \in 1..(cursor - 1) : order[i] = n
      BY <1>2, <1>3 DEF Placed
    <2>. QED  BY <1>1, <2>1 DEF GraphInv, DepthsAreRight
  <1>5. \A m : Deps(m)' = Deps(m)
    BY <1>1 DEF Deps
  <1>6. DepthsAreRight'
    BY <1>1, <1>4, <1>5 DEF DepthsAreRight
  <1>7. Planned' /\ PlacesAreRight'
    BY <1>1, PlacesStay DEF GraphInv, Planned
  <1>. QED  BY <1>1, <1>6, <1>7 DEF GraphInv, Running

-----------------------------------------------------------------------------
(* The invariant is inductive.                                             *)

LEMMA Constants ==
    /\ "none" \notin Outs /\ "failed" \notin Outs /\ "running" \notin Outs
    /\ Values \subseteq Outs /\ "bare" \in Outs
  BY ValuesAssumption DEF Outs

LEMMA Entries ==
    /\ NoEntry \in Entry /\ NoEntry.status # "succeeded"
    /\ \A e \in Entry : e.out \in Outs \cup {"none"}
  BY DEF NoEntry, Entry

\* While no level is worked on, the journal is all there is to speak of.
LEMMA QuietRun ==
    ASSUME AtRest', ~Running', VerdictsStand', LastRunIsKept',
           \A i \in Ids : disk'[i].status = "succeeded" =>
                            <<i, disk'[i].out>> \in produced',
           \A i \in Ids : mem'[i].status = "succeeded" =>
                            <<i, mem'[i].out>> \in produced'
    PROVE  RunInv'
  <1>1. \A n \in Names : /\ jobs'[n] = "none" /\ results'[n] = "none"
                         /\ outputs'[n] = "none"
    BY DEF AtRest
  <1>2. (ThreadsAreStaged /\ RecordsAreBehind /\ RecordsHaveEntries)'
    BY <1>1 DEF ThreadsAreStaged, RecordsAreBehind, RecordsHaveEntries
  <1>3. (NoneIsLeft /\ SkipsAreRight /\ OutputsAreOfSuccess)'
    BY <1>1 DEF NoneIsLeft, SkipsAreRight, OutputsAreOfSuccess, Running
  <1>4. ClaimsAreTrue'
    BY <1>1, Constants DEF ClaimsAreTrue
  <1>. QED  BY <1>2, <1>3, <1>4 DEF RunInv

LEMMA Starting == Init => IInv
  <1>. SUFFICES ASSUME Init PROVE IInv
    OBVIOUS
  <1>. USE DEF Init, NoRun
  <1>1. TypeOK
    <2>1. /\ disk \in [Ids -> Entry] /\ mem \in [Ids -> Entry]
      BY Entries
    <2>2. /\ outputs \in [Names -> Outs \cup {"none"}]
          /\ results \in [Names -> Actions \cup {"none"}]
          /\ jobs \in [Names -> Outs \cup {"none", "running", "failed"}]
          /\ performed \in [Ids -> Nat] /\ depth \in [Names -> Nat]
      OBVIOUS
    <2>3. order \in Seq(Names) /\ cursor \in Nat
      OBVIOUS
    <2>. QED  BY <2>1, <2>2, <2>3, BoundsAssumption DEF TypeOK
  <1>2. AtRest
    BY DEF AtRest
  <1>3. GraphInv
    BY DEF GraphInv, Planned, PlacesAreRight, DepthsAreRight, Running
  <1>4. VerdictsStand /\ LastRunIsKept /\ ~Running
    BY DEF VerdictsStand, LastRunIsKept, Running
  <1>5. RunInv
    <2>1. \A n \in Names : /\ jobs[n] = "none" /\ results[n] = "none"
                           /\ outputs[n] = "none"
      OBVIOUS
    <2>2. ThreadsAreStaged /\ RecordsAreBehind /\ RecordsHaveEntries
      BY <2>1 DEF ThreadsAreStaged, RecordsAreBehind, RecordsHaveEntries
    <2>3. NoneIsLeft /\ SkipsAreRight /\ OutputsAreOfSuccess
      BY <1>4, <2>1 DEF NoneIsLeft, SkipsAreRight, OutputsAreOfSuccess
    <2>4. ClaimsAreTrue
      BY <2>1, Constants, Entries DEF ClaimsAreTrue
    <2>. QED  BY <1>4, <2>2, <2>3, <2>4 DEF RunInv
  <1>. QED  BY <1>1, <1>2, <1>3, <1>5 DEF IInv

LEMMA ApplyKeeps ==
    ASSUME IInv, NEW p \in Plans, Apply(p)
    PROVE  IInv'
  <1>1. /\ pc = "idle" /\ pc' = "order" /\ plan' = p /\ WellFormed(p)
        /\ applies < MaxApplies
        /\ UNCHANGED <<disk, lastRun, order, cursor, advanced, depth, groups, mem,
                       cached, level, outputs, halted, results, jobs,
                       performed, produced, applies, failures, crashes>>
    BY DEF Apply, history, topoVars, groupVars
  <1>2. TypeOK'
    BY <1>1 DEF IInv, TypeOK
  <1>3. AtRest' /\ ~Running'
    BY <1>1 DEF IInv, AtRest, Running
  <1>4. GraphInv'
    <2>1. order' = <<>> /\ cursor' = 1
      BY <1>1 DEF IInv, AtRest
    <2>2. PlacesAreRight'
      BY <1>1, <2>1 DEF PlacesAreRight
    <2>. QED  BY <1>1, <2>2 DEF GraphInv, Planned, DepthsAreRight, Running
  <1>5. RunInv'
    <2>1. VerdictsStand' /\ LastRunIsKept'
      BY <1>1 DEF IInv, RunInv, VerdictsStand, LastRunIsKept
    <2>2. /\ \A i \in Ids : disk'[i].status = "succeeded" => <<i, disk'[i].out>> \in produced'
          /\ \A i \in Ids : mem'[i].status = "succeeded" => <<i, mem'[i].out>> \in produced'
      BY <1>1 DEF IInv, RunInv, ClaimsAreTrue
    <2>. QED  BY <1>3, <2>1, <2>2, QuietRun
  <1>. QED  BY <1>2, <1>3, <1>4, <1>5 DEF IInv

\* The loops of topo_order and levels leave the run and the journal alone.
LEMMA LoopsKeep ==
    ASSUME IInv, \/ \E i \in 1..Len(plan) : Place(i)
                 \/ NextPass
                 \/ Group
    PROVE  IInv'
  <1>1. /\ pc \in {"order", "group"} /\ pc' = pc
        /\ UNCHANGED <<disk, lastRun, plan, mem, cached, level, outputs, halted,
                       results, jobs, performed, produced, applies, failures,
                       crashes>>
    BY DEF Place, NextPass, PassEnds, Group, history
  <1>2. /\ GraphInv' /\ order' \in Seq(Names) /\ cursor' \in Nat /\ advanced' \in BOOLEAN
        /\ depth' \in [Names -> Nat] /\ groups' \in Nat
        /\ pc = "order" => groups' = groups
    <2>1. ASSUME NEW i \in 1..Len(plan), Place(i)
          PROVE  /\ GraphInv' /\ order' \in Seq(Names) /\ cursor' \in Nat
                 /\ advanced' \in BOOLEAN /\ UNCHANGED <<depth, groups>>
      <3>1. advanced' \in BOOLEAN /\ UNCHANGED <<depth, groups>>
        BY <2>1 DEF Place, groupVars
      <3>. QED  BY <2>1, <3>1, PlaceGraph DEF IInv
    <2>2. CASE NextPass
      <3>1. /\ pc = "order" /\ cursor' = 1 /\ advanced' = FALSE /\ order' = order
            /\ UNCHANGED <<depth, groups>>
        BY <2>2 DEF NextPass, PassEnds, groupVars
      <3>2. PlacesAreRight'
        BY <1>1, <3>1, OrderStays DEF IInv, GraphInv
      <3>3. Planned' /\ DepthsAreRight'
        BY <1>1, <3>1 DEF IInv, GraphInv, Planned, DepthsAreRight, Running
      <3>. QED  BY <3>1, <3>2, <3>3 DEF IInv, GraphInv, TypeOK
    <2>3. CASE Group
      <3>1. /\ pc = "group" /\ cursor' = cursor + 1 /\ order' = order /\ advanced' = advanced
        BY <2>3 DEF Group
      <3>. QED  BY <2>3, <3>1, GroupGraph DEF IInv, TypeOK
    <2>. QED  BY <2>1, <2>2, <2>3 DEF IInv, TypeOK
  <1>3. TypeOK'
    BY <1>1, <1>2 DEF IInv, TypeOK
  <1>4. AtRest' /\ ~Running'
    BY <1>1, <1>2 DEF IInv, AtRest, Running
  <1>5. RunInv'
    <2>1. VerdictsStand' /\ LastRunIsKept'
      BY <1>1 DEF IInv, RunInv, VerdictsStand, LastRunIsKept, IsCached, Id
    <2>2. /\ \A i \in Ids : disk'[i].status = "succeeded" => <<i, disk'[i].out>> \in produced'
          /\ \A i \in Ids : mem'[i].status = "succeeded" => <<i, mem'[i].out>> \in produced'
      BY <1>1 DEF IInv, RunInv, ClaimsAreTrue
    <2>. QED  BY <1>4, <2>1, <2>2, QuietRun
  <1>. QED  BY <1>2, <1>3, <1>4, <1>5 DEF IInv

\* After the last action of a run nothing of it is left.
LEMMA Forgotten ==
    ASSUME IInv, Forget, pc' = "idle", disk' \in [Ids -> Entry],
           \A i \in Ids : disk'[i].status = "succeeded" =>
                            <<i, disk'[i].out>> \in produced,
           LastRunIsKept', UNCHANGED history,
           applies' \in 0..MaxApplies, failures' \in 0..MaxFailures,
           crashes' \in 0..MaxCrashes
    PROVE  IInv'
  <1>. USE DEF Forget, NoRun
  <1>1. TypeOK'
    <2>1. mem' \in [Ids -> Entry]
      BY Entries
    <2>2. /\ outputs' \in [Names -> Outs \cup {"none"}]
          /\ results' \in [Names -> Actions \cup {"none"}]
          /\ jobs' \in [Names -> Outs \cup {"none", "running", "failed"}]
          /\ depth' \in [Names -> Nat]
      OBVIOUS
    <2>3. order' \in Seq(Names) /\ cursor' \in Nat /\ advanced' \in BOOLEAN
      OBVIOUS
    <2>. QED  BY <2>1, <2>2, <2>3 DEF IInv, TypeOK, history
  <1>2. AtRest' /\ ~Running'
    BY DEF AtRest, Running
  <1>3. GraphInv'
    BY DEF GraphInv, Planned, PlacesAreRight, DepthsAreRight, Running
  <1>4. RunInv'
    <2>1. VerdictsStand'
      BY DEF VerdictsStand
    <2>2. \A i \in Ids : mem'[i].status # "succeeded"
      BY Entries
    <2>3. produced' = produced
      BY DEF history
    <2>. QED  BY <1>2, <2>1, <2>2, <2>3, QuietRun
  <1>. QED  BY <1>1, <1>2, <1>3, <1>4 DEF IInv

\* A refused plan and a dead process leave the journal as it was.
LEMMA LeavingKeeps ==
    ASSUME IInv, pc' = "idle", Forget,
           UNCHANGED <<disk, lastRun, history, applies, failures>>,
           crashes' \in 0..MaxCrashes
    PROVE  IInv'
  <1>1. /\ disk' \in [Ids -> Entry] /\ applies' \in 0..MaxApplies
        /\ failures' \in 0..MaxFailures
    BY DEF IInv, TypeOK
  <1>2. \A i \in Ids : disk'[i].status = "succeeded" =>
                         <<i, disk'[i].out>> \in produced
    BY DEF IInv, RunInv, ClaimsAreTrue
  <1>3. LastRunIsKept'
    BY DEF IInv, RunInv, LastRunIsKept
  <1>. QED  BY <1>1, <1>2, <1>3, Forgotten

LEMMA CrashKeeps ==
    ASSUME IInv, Crash
    PROVE  IInv'
  <1>1. /\ pc' = "idle" /\ Forget /\ crashes < MaxCrashes
        /\ crashes' = crashes + 1
        /\ UNCHANGED <<disk, lastRun, history, applies, failures>>
    BY DEF Crash
  <1>2. crashes' \in 0..MaxCrashes
    BY <1>1, BoundsAssumption DEF IInv, TypeOK
  <1>. QED  BY <1>1, <1>2, LeavingKeeps

LEMMA CycleKeeps ==
    ASSUME IInv, Cycle
    PROVE  IInv'
  <1>1. /\ pc' = "idle" /\ Forget
        /\ UNCHANGED <<disk, lastRun, history, applies, failures, crashes>>
    BY DEF Cycle
  <1>2. crashes' \in 0..MaxCrashes
    BY <1>1 DEF IInv, TypeOK
  <1>. QED  BY <1>1, <1>2, LeavingKeeps

\* A full order gives every effect an identity; the verdicts are those of the
\* journal that was loaded.
LEMMA DiffKeeps ==
    ASSUME IInv, Diff
    PROVE  IInv'
  <1>1. /\ pc = "order" /\ Len(order) = Len(plan)
        /\ UNCHANGED <<disk, lastRun, history, failures, crashes>>
    BY DEF Diff, PassEnds
  <1>2. CASE pc' = "idle" /\ Forget /\ applies' = applies
    <2>1. crashes' \in 0..MaxCrashes
      BY <1>1 DEF IInv, TypeOK
    <2>. QED  BY <1>1, <1>2, <2>1, LeavingKeeps
  <1>3. CASE /\ applies' = applies + 1 /\ pc' = "group" /\ mem' = disk /\ cached' = Hits
             /\ cursor' = 1
             /\ UNCHANGED <<plan, order, advanced, groupVars, level, outputs,
                            halted, results, jobs>>
    <2>1. Placed = NamesOf(plan) /\ plan \in ValidPlans
      BY <1>1, CompleteGraph DEF IInv
    <2>2. TypeOK'
      <3>1. cached' \subseteq Names
        BY <1>3, <2>1, PlanIds DEF Hits
      <3>2. applies' \in 0..MaxApplies
        BY <1>1, <1>3, BoundsAssumption DEF IInv, AtRest, TypeOK
      <3>. QED  BY <1>1, <1>3, <3>1, <3>2 DEF IInv, TypeOK, groupVars, history
    <2>3. AtRest' /\ ~Running'
      BY <1>1, <1>3 DEF IInv, AtRest, Running
    <2>4. GraphInv'
      <3>1. PlacesAreRight'
        BY <1>1, <1>3, <2>1, OrderStays DEF IInv, GraphInv
      <3>2. DepthsAreRight'
        <4>1. Len(order) \in Nat
          BY <1>1 DEF IInv, GraphInv, PlacesAreRight
        <4>. QED  BY <1>3, <4>1 DEF DepthsAreRight, Running
      <3>3. Planned'
        BY <1>1, <1>3, <2>1 DEF IInv, GraphInv, Planned
      <3>. QED  BY <3>1, <3>2, <3>3 DEF GraphInv
    <2>5. RunInv'
      <3>1. VerdictsStand'
        BY <1>1, <1>3 DEF VerdictsStand, Hits, IsCached, Id
      <3>2. LastRunIsKept'
        BY <1>1 DEF IInv, RunInv, LastRunIsKept
      <3>3. /\ \A i \in Ids : disk'[i].status = "succeeded" => <<i, disk'[i].out>> \in produced'
            /\ \A i \in Ids : mem'[i].status = "succeeded" => <<i, mem'[i].out>> \in produced'
        BY <1>1, <1>3 DEF IInv, RunInv, ClaimsAreTrue, history
      <3>. QED  BY <2>3, <3>1, <3>2, <3>3, QuietRun
    <2>. QED  BY <2>2, <2>3, <2>4, <2>5 DEF IInv
  <1>. QED  BY <1>2, <1>3 DEF Diff

\* The levels begin with no effect behind them.
LEMMA BeginKeeps ==
    ASSUME IInv, Begin
    PROVE  IInv'
  <1>1. /\ pc = "group" /\ pc' \in {"stage", "save"}
        /\ UNCHANGED <<disk, lastRun, plan, order, cursor, advanced, depth, groups,
                       mem, cached, level, outputs, halted, results, jobs,
                       performed, produced, applies, failures, crashes>>
    BY DEF Begin, runVars, topoVars, groupVars, history
  <1>2. GraphInv' /\ Running' /\ (pc' = "save" => groups = 0)
    BY BeginGraph DEF IInv
  <1>3. TypeOK'
    BY <1>1 DEF IInv, TypeOK
  <1>4. AtRest'
    BY <1>1, <1>2 DEF AtRest
  <1>5. /\ level' = 0 /\ halted' = {} /\ groups' \in Nat
        /\ \A n \in Names : /\ jobs'[n] = "none" /\ results'[n] = "none"
                            /\ outputs'[n] = "none"
    BY <1>1 DEF IInv, AtRest, Running, TypeOK
  <1>6. (ThreadsAreStaged /\ RecordsAreBehind /\ RecordsHaveEntries)'
    BY <1>5 DEF ThreadsAreStaged, RecordsAreBehind, RecordsHaveEntries
  <1>7. NoneIsLeft'
    <2>1. \A n \in NamesOf(plan') : depth'[n] \in Nat
      BY <1>1, PlanIds DEF IInv, GraphInv, Planned, TypeOK
    <2>2. \A n \in NamesOf(plan') : ~(depth'[n] < level')
      BY <1>5, <2>1
    <2>3. pc' = "save" => level' >= groups'
      BY <1>1, <1>2, <1>5
    <2>. QED  BY <1>1, <2>2, <2>3 DEF NoneIsLeft
  <1>8. (SkipsAreRight /\ OutputsAreOfSuccess)'
    BY <1>5 DEF SkipsAreRight, OutputsAreOfSuccess, Lost
  <1>9. ClaimsAreTrue'
    BY <1>1, <1>5, Constants DEF IInv, RunInv, ClaimsAreTrue
  <1>10. (VerdictsStand /\ LastRunIsKept)'
    BY <1>1 DEF IInv, RunInv, VerdictsStand, LastRunIsKept, IsCached, Id
  <1>11. RunInv'
    BY <1>6, <1>7, <1>8, <1>9, <1>10 DEF RunInv
  <1>. QED  BY <1>2, <1>3, <1>4, <1>11 DEF IInv

LEMMA SaveKeeps ==
    ASSUME IInv, Save
    PROVE  IInv'
  <1>1. /\ pc = "save" /\ pc' = "idle" /\ disk' = mem /\ Forget
        /\ lastRun' = [n \in NamesOf(plan) |->
                         [id |-> Id(n), action |-> results[n]]]
        /\ UNCHANGED <<history, applies, failures, crashes>>
    BY DEF Save
  <1>2. \A i \in Ids : disk'[i].status = "succeeded" =>
                         <<i, disk'[i].out>> \in produced
    BY <1>1 DEF IInv, RunInv, ClaimsAreTrue
  <1>3. LastRunIsKept'
    <2>1. SUFFICES ASSUME \A n \in NamesOf(plan) :
                             results[n] \in {"executed", "cached"},
                          NEW n \in NamesOf(plan)
                   PROVE  mem[Id(n)].status = "succeeded"
      BY <1>1 DEF LastRunIsKept
    <2>2. n \in Names /\ Id(n) \in Ids
      BY <1>1, PlanIds DEF IInv, GraphInv, Planned, Id
    <2>3. CASE results[n] = "cached"
      <3>1. IsCached(Id(n))
        BY <1>1, <2>2, <2>3 DEF IInv, RunInv, RecordsHaveEntries, VerdictsStand
      <3>. QED  BY <1>1, <2>2, <3>1 DEF IInv, RunInv, VerdictsStand, IsCached
    <2>4. CASE results[n] = "executed"
      <3>1. \A m \in Names : results[m] # "failed"
        BY <2>1 DEF IInv, RunInv, RecordsAreBehind
      <3>. QED  BY <2>2, <2>4, <3>1 DEF IInv, RunInv, RecordsHaveEntries
    <2>. QED  BY <2>1, <2>3, <2>4
  <1>4. /\ disk' \in [Ids -> Entry] /\ applies' \in 0..MaxApplies
        /\ failures' \in 0..MaxFailures /\ crashes' \in 0..MaxCrashes
    BY <1>1 DEF IInv, TypeOK
  <1>. QED  BY <1>1, <1>2, <1>3, <1>4, Forgotten

\* The last of the executed effects that share an identity is one of them.
LEMMA LastIsOne ==
    ASSUME Placed = NamesOf(plan), Len(order) \in Nat, Ran \subseteq NamesOf(plan),
           NEW i, \E n \in Ran : Id(n) = i
    PROVE  LastWith(i) \in Ran /\ Id(LastWith(i)) = i
  <1>. DEFINE Same == {n \in Ran : Id(n) = i}
              T == {Position(n) : n \in Same}
  <1>1. \A n \in Ran : Position(n) \in 0..Len(order)
    <2>1. \A n \in Ran : \E k \in 1..Len(order) : order[k] = n
      BY DEF Placed
    <2>. QED  BY <2>1 DEF Position
  <1>2. T \subseteq 0..Len(order) /\ T # {}
    BY <1>1
  <1>3. PICK x \in T : \A y \in T : y <= x
    <2>. HIDE DEF T
    <2>. QED  BY <1>2, BoundedMax
  <1>4. PICK n \in Same : x = Position(n)
    OBVIOUS
  <1>5. \A m \in Ran : Id(m) = i => Position(m) <= Position(n)
    BY <1>3, <1>4
  <1>. QED  BY <1>4, <1>5 DEF LastWith

LEMMA ExecuteKeeps ==
    ASSUME IInv, NEW n \in Names, NEW out \in Outs \cup {"failed"},
           Execute(n, out)
    PROVE  IInv'
  <1>1. /\ pc = "run" /\ jobs[n] = "running"
        /\ jobs' = [jobs EXCEPT ![n] = out]
        /\ performed' = [performed EXCEPT ![Id(n)] = @ + 1]
        /\ UNCHANGED <<disk, lastRun, pc, plan, order, cursor, advanced, depth,
                       groups, mem, cached, level, outputs, halted, results,
                       applies, crashes>>
    BY DEF Execute, topoVars, groupVars
  <1>2. \/ /\ out = "failed" /\ failures < MaxFailures
           /\ failures' = failures + 1 /\ produced' = produced
        \/ /\ out # "failed" /\ failures' = failures
           /\ produced' = produced \cup {<<Id(n), out>>}
    BY Zenon DEF Execute
  <1>3. n \in NamesOf(plan) /\ plan \in ValidPlans /\ Id(n) \in Ids
    BY <1>1, PlanIds DEF IInv, RunInv, ThreadsAreStaged, GraphInv, Planned, Id
  <1>4. TypeOK'
    <2>1. jobs' \in [Names -> Outs \cup {"none", "running", "failed"}]
      BY <1>1 DEF IInv, TypeOK
    <2>2. performed' \in [Ids -> Nat]
      BY <1>1, <1>3 DEF IInv, TypeOK
    <2>3. produced' \subseteq Ids \X Outs
      BY <1>2, <1>3 DEF IInv, TypeOK
    <2>4. failures' \in 0..MaxFailures
      BY <1>2, BoundsAssumption DEF IInv, TypeOK
    <2>. QED  BY <1>1, <2>1, <2>2, <2>3, <2>4 DEF IInv, TypeOK
  <1>5. AtRest' /\ GraphInv'
    <2>1. AtRest'
      BY <1>1 DEF AtRest, Running
    <2>. QED  BY <1>1, <2>1, SameGraph DEF IInv, Running
  <1>6. (VerdictsStand /\ LastRunIsKept)'
    BY <1>1 DEF IInv, RunInv, VerdictsStand, LastRunIsKept, IsCached, Id
  <1>7. \A m \in Names : /\ jobs'[m] = IF m = n THEN out ELSE jobs[m]
                         /\ jobs'[m] # "none" <=> jobs[m] # "none"
    BY <1>1, Constants DEF IInv, TypeOK
  <1>8. (ThreadsAreStaged /\ NoneIsLeft)'
    <2>1. \A m : Deps(m)' = Deps(m)
      BY <1>1 DEF Deps
    <2>2. ThreadsAreStaged'
      BY <1>1, <1>7, <2>1 DEF IInv, RunInv, ThreadsAreStaged
    <2>3. NoneIsLeft'
      <3>1. \A m \in NamesOf(plan) : m \in Names
        BY <1>3, PlanIds
      <3>. QED  BY <1>1, <1>7, <3>1 DEF IInv, RunInv, NoneIsLeft, Running
    <2>. QED  BY <2>2, <2>3
  <1>9. (RecordsAreBehind /\ RecordsHaveEntries /\ OutputsAreOfSuccess)'
    BY <1>1 DEF IInv, RunInv, RecordsAreBehind, RecordsHaveEntries,
                OutputsAreOfSuccess, Id, Running
  <1>10. SkipsAreRight'
    BY <1>1 DEF IInv, RunInv, SkipsAreRight, Lost, Running, Deps
  <1>11. ClaimsAreTrue'
    <2>1. produced \subseteq produced'
      BY <1>2
    <2>2. ASSUME NEW m \in Names, jobs'[m] \in Outs
          PROVE  <<Id(m)', jobs'[m]>> \in produced'
      <3>0. Id(m)' = Id(m)
        BY <1>1 DEF Id
      <3>1. CASE m = n
        BY <1>2, <1>7, <2>2, <3>0, <3>1, Constants
      <3>2. CASE m # n
        BY <1>7, <2>1, <2>2, <3>0, <3>2 DEF IInv, RunInv, ClaimsAreTrue
      <3>. QED  BY <3>1, <3>2
    <2>. QED  BY <1>1, <2>1, <2>2 DEF IInv, RunInv, ClaimsAreTrue
  <1>12. RunInv'
    BY <1>6, <1>8, <1>9, <1>10, <1>11 DEF RunInv
  <1>. QED  BY <1>4, <1>5, <1>12 DEF IInv

\* What is staged, skipped or found cached is of this level and had no
\* record.
LEMMA StageKeeps ==
    ASSUME IInv, Stage
    PROVE  IInv'
  <1>. DEFINE here == AtLevel(level)
              skipped == {n \in here : Blocked(n)}
              hits == (here \cap cached) \ skipped
              bad == {n \in here \ (skipped \cup hits) : ~Resolvable(n)}
              staged == here \ (skipped \cup hits \cup bad)
  <1>1. /\ pc = "stage" /\ pc' = "run"
        /\ halted' = halted \cup skipped \cup bad
        /\ outputs' = [n \in Names |-> IF n \in hits THEN mem[Id(n)].out
                                                     ELSE outputs[n]]
        /\ results' = [n \in Names |->
                         IF n \in skipped THEN "skipped"
                         ELSE IF n \in hits THEN "cached"
                         ELSE IF n \in bad THEN "failed" ELSE results[n]]
        /\ jobs' = [n \in Names |-> IF n \in staged THEN "running"
                                                    ELSE "none"]
        /\ UNCHANGED <<disk, lastRun, plan, order, cursor, advanced, depth, groups,
                       mem, cached, level, performed, produced, applies,
                       failures, crashes>>
    BY Zenon DEF Stage, history, topoVars, groupVars
  <1>2. /\ skipped \subseteq here /\ hits \subseteq here \cap cached
        /\ bad \subseteq here /\ staged \subseteq here /\ bad \cap hits = {}
        /\ staged \cap (skipped \cup hits \cup bad) = {}
        /\ \A n \in staged : Resolvable(n)
        /\ here \cap cached \subseteq skipped \cup hits
    OBVIOUS
  <1>3. /\ plan \in ValidPlans /\ level \in Nat
        /\ \A n \in here : /\ n \in NamesOf(plan) /\ n \in Names /\ Id(n) \in Ids
                           /\ depth[n] = level
    BY <1>1, PlanIds DEF IInv, GraphInv, Planned, AtLevel, Id, TypeOK
  <1>4. \A n \in here : results[n] = "none" /\ outputs[n] = "none"
    <2>1. \A n \in here : results[n] = "none"
      BY <1>1, <1>3 DEF IInv, RunInv, RecordsAreBehind
    <2>. QED  BY <1>3, <2>1 DEF IInv, RunInv, OutputsAreOfSuccess
  <1>. HIDE DEF here, skipped, hits, bad, staged
  <1>5. TypeOK'
    <2>1. outputs' \in [Names -> Outs \cup {"none"}]
      <3>1. ASSUME NEW n \in hits PROVE mem[Id(n)].out \in Outs \cup {"none"}
        <4>1. mem[Id(n)] \in Entry
          BY <1>2, <1>3 DEF IInv, TypeOK
        <4>. QED  BY <4>1, Entries
      <3>. QED  BY <1>1, <3>1 DEF IInv, TypeOK
    <2>2. /\ results' \in [Names -> Actions \cup {"none"}]
          /\ jobs' \in [Names -> Outs \cup {"none", "running", "failed"}]
      BY <1>1 DEF IInv, TypeOK, Actions
    <2>3. halted' \subseteq Names
      BY <1>1, <1>2, <1>3 DEF IInv, TypeOK
    <2>. QED  BY <1>1, <2>1, <2>2, <2>3 DEF IInv, TypeOK
  <1>6. AtRest' /\ GraphInv' /\ (VerdictsStand /\ LastRunIsKept)'
    <2>1. AtRest'
      BY <1>1 DEF AtRest, Running
    <2>2. GraphInv'
      BY <1>1, SameGraph DEF IInv, Running
    <2>3. VerdictsStand'
      BY <1>1 DEF IInv, RunInv, VerdictsStand, IsCached, Id
    <2>4. LastRunIsKept'
      BY <1>1 DEF IInv, RunInv, LastRunIsKept
    <2>. QED  BY <2>1, <2>2, <2>3, <2>4
  <1>7. \A n \in Names : results[n] \in {"executed", "cached"} =>
                           results'[n] = results[n]
    BY <1>1, <1>2, <1>4
  <1>8. RecordsAreBehind'
    <2>. SUFFICES ASSUME NEW n \in Names, results'[n] # "none"
                  PROVE  /\ n \in NamesOf(plan)
                         /\ depth[n] \in 0..level
      BY <1>1 DEF RecordsAreBehind, Running
    <2>1. CASE n \in here
      BY <1>3, <2>1
    <2>2. CASE n \notin here
      <3>1. results'[n] = results[n]
        BY <1>1, <1>2, <2>2
      <3>. QED  BY <3>1 DEF IInv, RunInv, RecordsAreBehind
    <2>. QED  BY <2>1, <2>2
  <1>9. ClaimsAreTrue'
    <2>1. \A n \in Names : jobs'[n] \notin Outs
      BY <1>1, Constants
    <2>. QED  BY <1>1, <2>1 DEF IInv, RunInv, ClaimsAreTrue
  <1>10. RecordsHaveEntries'
    <2>1. ASSUME NEW n \in Names, results'[n] = "cached" PROVE n \in cached'
      <3>1. n \in hits \/ results[n] = "cached"
        BY <1>1, <2>1
      <3>. QED  BY <1>1, <1>2, <3>1 DEF IInv, RunInv, RecordsHaveEntries
    <2>2. ASSUME NEW n \in Names, results'[n] = "executed"
          PROVE  \/ mem'[Id(n)'].status = "succeeded"
                 \/ \E m \in Names : results'[m] = "failed" /\ Id(m)' = Id(n)'
      <3>1. results[n] = "executed"
        BY <1>1, <2>2
      <3>2. \A m \in Names : results[m] = "failed" => results'[m] = "failed"
        BY <1>1, <1>2, <1>4
      <3>. QED  BY <1>1, <3>1, <3>2 DEF IInv, RunInv, RecordsHaveEntries, Id
    <2>. QED  BY <2>1, <2>2 DEF RecordsHaveEntries
  <1>11. OutputsAreOfSuccess'
    <2>. SUFFICES ASSUME NEW n \in Names, outputs'[n] # "none"
                  PROVE  results'[n] \in {"executed", "cached"}
      BY DEF OutputsAreOfSuccess
    <2>1. CASE n \in hits
      BY <1>1, <2>1 DEF hits
    <2>2. CASE n \notin hits
      BY <1>1, <1>7, <2>2 DEF IInv, RunInv, OutputsAreOfSuccess
    <2>. QED  BY <2>1, <2>2
  <1>12. ThreadsAreStaged'
    <2>. SUFFICES ASSUME NEW n \in Names, jobs'[n] # "none"
                  PROVE  /\ n \in NamesOf(plan) \ cached
                         /\ depth[n] = level
                         /\ results'[n] = "none"
                         /\ \A d \in Deps(n) : results'[d] \in {"executed", "cached"}
      BY <1>1 DEF ThreadsAreStaged, Deps
    <2>1. n \in staged
      BY <1>1
    <2>2. ASSUME NEW d \in Deps(n) PROVE results'[d] \in {"executed", "cached"}
      <3>1. outputs[d] \in Values
        BY <1>2, <2>1 DEF Resolvable
      <3>2. d \in Names
        BY <1>2, <1>3, <2>1, PlanIds DEF Deps
      <3>3. outputs[d] # "none"
        BY <3>1, Constants
      <3>. QED  BY <1>7, <3>2, <3>3 DEF IInv, RunInv, OutputsAreOfSuccess
    <2>. QED  BY <1>1, <1>2, <1>3, <1>4, <2>1, <2>2
  <1>13. NoneIsLeft'
    <2>1. \A n \in NamesOf(plan) : n \in Names
      BY <1>3, PlanIds
    <2>2. ASSUME NEW n \in NamesOf(plan), depth[n] < level PROVE results'[n] # "none"
      <3>1. results[n] # "none"
        BY <1>1, <2>2 DEF IInv, RunInv, NoneIsLeft, Running
      <3>. QED  BY <1>1, <2>1, <3>1
    <2>3. ASSUME NEW n \in NamesOf(plan), depth[n] = level
          PROVE  results'[n] # "none" \/ jobs'[n] # "none"
      <3>1. n \in here
        BY <2>3 DEF here, AtLevel
      <3>2. n \in skipped \cup hits \cup bad \/ n \in staged
        BY <3>1 DEF staged
      <3>. QED  BY <1>1, <2>1, <3>2
    <2>. QED  BY <1>1, <2>2, <2>3 DEF NoneIsLeft
  <1>14. SkipsAreRight'
    <2>1. halted = Lost
      BY <1>1 DEF IInv, RunInv, SkipsAreRight, Running
    <2>2. Lost' = Lost \cup skipped \cup bad
      BY <1>1, <1>2, <1>3, <1>4 DEF Lost
    <2>3. ASSUME NEW n \in NamesOf(plan), depth[n] <= level
          PROVE  Deps(n) \cap here = {}
      <3>1. ASSUME NEW d \in Deps(n) PROVE depth[d] < depth[n]
        BY <1>1 DEF IInv, GraphInv, DepthsAreRight, Running
      <3>2. ASSUME NEW d \in Deps(n) \cap here PROVE FALSE
        <4>1. depth[d] = level /\ depth[d] < depth[n] /\ n \in Names
          BY <1>3, <3>1, PlanIds
        <4>. QED  BY <1>3, <2>3, <4>1 DEF IInv, TypeOK
      <3>. QED  BY <3>2
    <2>4. ASSUME NEW n \in NamesOf(plan), depth[n] <= level
          PROVE  Deps(n) \cap Lost' = Deps(n) \cap Lost
      BY <1>2, <2>2, <2>3, <2>4
    <2>5. ASSUME NEW n \in Names, results'[n] # "none"
          PROVE  results'[n] = "skipped" <=> Deps(n) \cap Lost' # {}
      <3>1. n \in NamesOf(plan) /\ depth[n] \in 0..level /\ depth[n] <= level
        BY <1>1, <1>3, <1>8, <2>5 DEF RecordsAreBehind
      <3>2. CASE n \in here
        <4>1. results'[n] = "skipped" <=> n \in skipped
          BY <1>1, <1>4, <3>2
        <4>2. n \in skipped <=> Deps(n) \cap Lost # {}
          BY <2>1, <3>2 DEF skipped, Blocked
        <4>. QED  BY <2>4, <3>1, <4>1, <4>2
      <3>3. CASE n \notin here
        <4>1. results'[n] = results[n]
          BY <1>1, <1>2, <3>3
        <4>2. results[n] = "skipped" <=> Deps(n) \cap Lost # {}
          BY <2>5, <4>1 DEF IInv, RunInv, SkipsAreRight
        <4>. QED  BY <2>4, <3>1, <4>1, <4>2
      <3>. QED  BY <3>2, <3>3
    <2>6. \A n : Deps(n)' = Deps(n)
      BY <1>1 DEF Deps
    <2>. QED  BY <1>1, <2>1, <2>2, <2>5, <2>6 DEF SkipsAreRight
  <1>15. RunInv'
    BY <1>6, <1>8, <1>9, <1>10, <1>11, <1>12, <1>13, <1>14 DEF RunInv
  <1>. QED  BY <1>5, <1>6, <1>15 DEF IInv

\* The one step that writes entries: none of them is for an identity that
\* was saved as succeeded, and of several with one identity the last stays.
LEMMA SettleKeeps ==
    ASSUME IInv, Settle
    PROVE  IInv'
  <1>. DEFINE Done(i) == \E n \in Ran : Id(n) = i
  <1>1. /\ pc = "run" /\ \A n \in Names : jobs[n] # "running"
        /\ mem' = [i \in Ids |-> IF Done(i) THEN EntryFor(jobs[LastWith(i)])
                                            ELSE mem[i]]
        /\ outputs' = [n \in Names |-> IF n \in Ran THEN OutputOf(n)
                                                    ELSE outputs[n]]
        /\ halted' = halted \cup {n \in Ran : jobs[n] = "failed"}
        /\ results' = [n \in Names |->
                         IF n \notin Ran THEN results[n]
                         ELSE IF jobs[n] = "failed" THEN "failed"
                         ELSE "executed"]
        /\ jobs' = [n \in Names |-> "none"]
        /\ level' = level + 1
        /\ pc' = IF level + 1 < groups THEN "stage" ELSE "save"
        /\ UNCHANGED <<disk, lastRun, plan, order, cursor, advanced, depth, groups,
                       cached, performed, produced, applies, failures, crashes>>
    BY Zenon DEF Settle, history, topoVars, groupVars
  <1>p. pc' \in {"stage", "save"} /\ Running /\ Running'
    BY <1>1 DEF Running
  <1>2. /\ plan \in ValidPlans /\ level \in Nat
        /\ Ran \subseteq Names
        /\ \A n \in Ran : /\ n \in NamesOf(plan) \ cached
                          /\ depth[n] = level
                          /\ results[n] = "none" /\ outputs[n] = "none"
                          /\ jobs[n] \in Outs \cup {"failed"}
                          /\ Id(n) \in Ids
    <2>1. plan \in ValidPlans /\ level \in Nat /\ Ran \subseteq Names
      BY <1>1 DEF IInv, GraphInv, Planned, TypeOK, Ran
    <2>2. ASSUME NEW n \in Ran
          PROVE  /\ n \in NamesOf(plan) \ cached /\ depth[n] = level
                 /\ results[n] = "none"
      BY DEF IInv, RunInv, ThreadsAreStaged, Ran
    <2>3. ASSUME NEW n \in Ran
          PROVE  outputs[n] = "none" /\ jobs[n] \in Outs \cup {"failed"}
      BY <1>1, <2>2 DEF IInv, RunInv, OutputsAreOfSuccess, TypeOK, Ran
    <2>4. ASSUME NEW n \in Ran PROVE Id(n) \in Ids
      BY <2>1, <2>2, PlanIds DEF Id
    <2>. QED  BY <2>1, <2>2, <2>3, <2>4
  <1>3. ASSUME NEW i, Done(i)
        PROVE  LastWith(i) \in Ran /\ Id(LastWith(i)) = i
    <2>1. Placed = NamesOf(plan) /\ Len(order) \in Nat
      BY <1>1 DEF IInv, GraphInv, PlacesAreRight
    <2>. QED  BY <1>2, <1>3, <2>1, LastIsOne
  <1>. HIDE DEF Done
  <1>4. ASSUME NEW n \in Ran PROVE Done(Id(n))
    BY DEF Done
  <1>5. ASSUME NEW i \in Ids, Done(i)
        PROVE  /\ mem'[i] \in Entry
               /\ mem'[i].status = "succeeded" => <<i, mem'[i].out>> \in produced
               /\ \/ mem'[i].status = "succeeded"
                  \/ jobs[LastWith(i)] = "failed"
    <2>1. mem'[i] = EntryFor(jobs[LastWith(i)])
      BY <1>1, <1>5
    <2>2. jobs[LastWith(i)] \in Outs \cup {"failed"}
      BY <1>2, <1>3, <1>5
    <2>3. CASE jobs[LastWith(i)] = "failed"
      BY <2>1, <2>3 DEF EntryFor, Entry
    <2>4. CASE jobs[LastWith(i)] # "failed"
      <3>1. mem'[i] = [status |-> "succeeded", out |-> jobs[LastWith(i)]]
        BY <2>1, <2>4 DEF EntryFor
      <3>2. <<Id(LastWith(i)), jobs[LastWith(i)]>> \in produced
        BY <1>2, <1>3, <1>5, <2>2, <2>4 DEF IInv, RunInv, ClaimsAreTrue
      <3>. QED  BY <1>3, <1>5, <2>2, <2>4, <3>1, <3>2 DEF Entry
    <2>. QED  BY <2>3, <2>4
  <1>6. ASSUME NEW i \in Ids, ~Done(i) PROVE mem'[i] = mem[i]
    BY <1>1, <1>6
  <1>7. ASSUME NEW i \in Ids, IsCached(i) PROVE ~Done(i)
    <2>. SUFFICES ASSUME Done(i) PROVE FALSE
      OBVIOUS
    <2>1. LastWith(i) \in NamesOf(plan) \ cached /\ Id(LastWith(i)) = i
      BY <1>2, <1>3
    <2>. QED  BY <1>1, <1>7, <2>1 DEF IInv, RunInv, VerdictsStand
  <1>8. TypeOK'
    <2>1. mem' \in [Ids -> Entry]
      <3>1. \A i \in Ids : mem'[i] \in Entry
        BY <1>5, <1>6 DEF IInv, TypeOK
      <3>. QED  BY <1>1, <3>1
    <2>2. outputs' \in [Names -> Outs \cup {"none"}]
      BY <1>1, <1>2 DEF OutputOf, IInv, TypeOK
    <2>3. results' \in [Names -> Actions \cup {"none"}]
      BY <1>1 DEF IInv, TypeOK, Actions
    <2>4. halted' \subseteq Names /\ level' \in Nat
      BY <1>1, <1>2 DEF IInv, TypeOK
    <2>5. jobs' \in [Names -> Outs \cup {"none", "running", "failed"}]
      BY <1>1
    <2>. QED  BY <1>1, <2>1, <2>2, <2>3, <2>4, <2>5 DEF IInv, TypeOK
  <1>9. AtRest' /\ GraphInv' /\ LastRunIsKept'
    <2>1. AtRest'
      BY <1>p DEF AtRest, Running
    <2>2. GraphInv'
      BY <1>1, <1>p, SameGraph DEF IInv
    <2>3. LastRunIsKept'
      BY <1>1 DEF IInv, RunInv, LastRunIsKept
    <2>. QED  BY <2>1, <2>2, <2>3
  <1>10. VerdictsStand'
    <2>1. \A i \in Ids : IsCached(i) => mem'[i] = disk[i]
      BY <1>1, <1>6, <1>7 DEF IInv, RunInv, VerdictsStand
    <2>2. cached = {n \in NamesOf(plan) : IsCached(Id(n))}
      BY <1>1 DEF IInv, RunInv, VerdictsStand
    <2>. QED  BY <1>1, <2>1, <2>2 DEF VerdictsStand, IsCached, Id
  <1>11. ThreadsAreStaged'
    BY <1>1 DEF ThreadsAreStaged
  <1>12. RecordsAreBehind'
    <2>. SUFFICES ASSUME NEW n \in Names, results'[n] # "none"
                  PROVE  /\ n \in NamesOf(plan)
                         /\ depth[n] \in 0..(level + 1)
                         /\ depth[n] # level + 1
      BY <1>1, <1>p DEF RecordsAreBehind
    <2>1. CASE n \in Ran
      BY <1>2, <2>1
    <2>2. CASE n \notin Ran
      <3>1. results[n] # "none"
        BY <1>1, <2>2
      <3>2. n \in NamesOf(plan) /\ depth[n] \in 0..level
        BY <3>1 DEF IInv, RunInv, RecordsAreBehind
      <3>. QED  BY <1>2, <3>2
    <2>. QED  BY <2>1, <2>2
  <1>13. ClaimsAreTrue'
    <2>1. \A i \in Ids : mem'[i].status = "succeeded" =>
                           <<i, mem'[i].out>> \in produced
      BY <1>5, <1>6 DEF IInv, RunInv, ClaimsAreTrue
    <2>2. \A n \in Names : jobs'[n] \notin Outs
      BY <1>1, Constants
    <2>. QED  BY <1>1, <2>1, <2>2 DEF IInv, RunInv, ClaimsAreTrue
  <1>14. RecordsHaveEntries'
    <2>1. ASSUME NEW n \in Names, results'[n] = "cached" PROVE n \in cached'
      BY <1>1, <2>1 DEF IInv, RunInv, RecordsHaveEntries
    <2>2. ASSUME NEW n \in Names, results'[n] = "executed"
          PROVE  \/ mem'[Id(n)].status = "succeeded"
                 \/ \E m \in Names : results'[m] = "failed" /\ Id(m) = Id(n)
      <3>0. Id(n) \in Ids
        <4>1. n \in NamesOf(plan)
          BY <1>1, <1>12, <2>2 DEF RecordsAreBehind
        <4>. QED  BY <1>2, <4>1, PlanIds DEF Id
      <3>1. CASE Done(Id(n))
        <4>1. LastWith(Id(n)) \in Ran /\ Id(LastWith(Id(n))) = Id(n)
          BY <1>3, <3>1
        <4>2. CASE jobs[LastWith(Id(n))] = "failed"
          <5>1. results'[LastWith(Id(n))] = "failed"
            BY <1>1, <1>2, <4>1, <4>2
          <5>. QED  BY <1>2, <4>1, <5>1
        <4>. QED  BY <1>5, <3>0, <3>1, <4>2
      <3>2. CASE ~Done(Id(n))
        <4>1. n \notin Ran
          BY <1>4, <3>2
        <4>2. results[n] = "executed"
          BY <1>1, <2>2, <4>1
        <4>3. \A m \in Names : results[m] = "failed" => results'[m] = "failed"
          BY <1>1, <1>2
        <4>. QED  BY <1>6, <3>0, <3>2, <4>2, <4>3 DEF IInv, RunInv, RecordsHaveEntries
      <3>. QED  BY <3>1, <3>2
    <2>3. \A m \in Names : Id(m)' = Id(m)
      BY <1>1 DEF Id
    <2>. QED  BY <2>1, <2>2, <2>3 DEF RecordsHaveEntries
  <1>15. OutputsAreOfSuccess'
    <2>. SUFFICES ASSUME NEW n \in Names, outputs'[n] # "none"
                  PROVE  results'[n] \in {"executed", "cached"}
      BY DEF OutputsAreOfSuccess
    <2>1. CASE n \in Ran
      <3>1. jobs[n] # "failed"
        BY <1>1, <1>2, <2>1, Constants DEF OutputOf
      <3>. QED  BY <1>1, <2>1, <3>1
    <2>2. CASE n \notin Ran
      BY <1>1, <2>2 DEF IInv, RunInv, OutputsAreOfSuccess
    <2>. QED  BY <2>1, <2>2
  <1>16. \A n \in NamesOf(plan) : n \in Names /\ depth[n] \in Nat
    BY <1>2, PlanIds DEF IInv, TypeOK
  <1>17. NoneIsLeft'
    <2>1. ASSUME NEW n \in NamesOf(plan), depth[n] < level + 1
          PROVE  results'[n] # "none"
      <3>1. CASE n \in Ran
        BY <1>1, <1>16, <3>1
      <3>2. CASE n \notin Ran
        <4>1. jobs[n] = "none"
          BY <1>16, <3>2 DEF Ran
        <4>2. depth[n] < level \/ depth[n] = level
          BY <1>2, <1>16, <2>1
        <4>3. results[n] # "none"
          BY <1>1, <1>p, <4>1, <4>2 DEF IInv, RunInv, NoneIsLeft
        <4>. QED  BY <1>1, <1>16, <3>2, <4>3
      <3>. QED  BY <3>1, <3>2
    <2>2. pc' = "save" => level' >= groups'
      BY <1>1, <1>2 DEF IInv, TypeOK
    <2>. QED  BY <1>1, <1>p, <2>1, <2>2 DEF NoneIsLeft
  <1>18. SkipsAreRight'
    <2>1. halted = Lost
      BY <1>p DEF IInv, RunInv, SkipsAreRight
    <2>2. Lost' = Lost \cup {n \in Ran : jobs[n] = "failed"}
      BY <1>1, <1>2 DEF Lost
    <2>3. ASSUME NEW n \in NamesOf(plan), depth[n] <= level
          PROVE  Deps(n) \cap Ran = {}
      <3>1. ASSUME NEW d \in Deps(n) PROVE depth[d] < depth[n]
        BY <1>p DEF IInv, GraphInv, DepthsAreRight
      <3>2. ASSUME NEW d \in Deps(n) \cap Ran PROVE FALSE
        <4>1. depth[d] = level /\ depth[d] < depth[n]
          BY <1>2, <3>1
        <4>. QED  BY <1>2, <1>16, <2>3, <4>1
      <3>. QED  BY <3>2
    <2>4. ASSUME NEW n \in Names, results'[n] # "none"
          PROVE  results'[n] = "skipped" <=> Deps(n) \cap Lost' # {}
      <3>1. CASE n \in Ran
        <4>1. results'[n] # "skipped"
          BY <1>1, <3>1
        <4>2. Deps(n) \cap Lost = {}
          BY <3>1 DEF IInv, RunInv, ThreadsAreStaged, Ran, Lost
        <4>3. Deps(n) \cap Ran = {}
          <5>1. n \in NamesOf(plan) /\ depth[n] <= level
            BY <1>2, <3>1
          <5>. QED  BY <2>3, <5>1
        <4>. QED  BY <2>2, <4>1, <4>2, <4>3
      <3>2. CASE n \notin Ran
        <4>1. results'[n] = results[n] /\ results[n] # "none"
          BY <1>1, <2>4, <3>2
        <4>2. n \in NamesOf(plan) /\ depth[n] <= level
          BY <1>2, <1>16, <4>1 DEF IInv, RunInv, RecordsAreBehind
        <4>3. results[n] = "skipped" <=> Deps(n) \cap Lost # {}
          BY <4>1 DEF IInv, RunInv, SkipsAreRight
        <4>4. Deps(n) \cap Ran = {}
          BY <2>3, <4>2
        <4>. QED  BY <2>2, <4>1, <4>3, <4>4
      <3>. QED  BY <3>1, <3>2
    <2>5. \A n : Deps(n)' = Deps(n)
      BY <1>1 DEF Deps
    <2>. QED  BY <1>1, <2>1, <2>2, <2>4, <2>5 DEF SkipsAreRight
  <1>19. RunInv'
    BY <1>9, <1>10, <1>11, <1>12, <1>13, <1>14, <1>15, <1>17, <1>18 DEF RunInv
  <1>. QED  BY <1>8, <1>9, <1>19 DEF IInv

LEMMA Step == IInv /\ [Next]_vars => IInv'
  <1>. SUFFICES ASSUME IInv, [Next]_vars PROVE IInv'
    OBVIOUS
  <1>1. CASE UNCHANGED vars
    <2>. USE <1>1 DEF vars, runVars, topoVars, groupVars, history
    <2>1. TypeOK' /\ AtRest'
      BY DEF IInv, TypeOK, AtRest, Running
    <2>2. \A n : Deps(n)' = Deps(n) /\ Id(n)' = Id(n) /\ IsCached(n)' = IsCached(n)
      BY DEF Deps, Id, IsCached
    <2>3. GraphInv'
      <3>1. Placed' = Placed
        BY DEF Placed
      <3>2. PlacesAreRight'
        <4>1. CASE pc = "idle"
          BY <4>1 DEF PlacesAreRight
        <4>2. CASE pc # "idle"
          BY <4>2, OrderStays DEF IInv, GraphInv, PlacesAreRight
        <4>. QED  BY <4>1, <4>2
      <3>3. Planned' /\ DepthsAreRight'
        BY <2>2 DEF IInv, GraphInv, Planned, DepthsAreRight, Running
      <3>. QED  BY <3>2, <3>3 DEF GraphInv
    <2>4. (VerdictsStand /\ ThreadsAreStaged /\ RecordsAreBehind)'
      BY <2>2 DEF IInv, RunInv, VerdictsStand, ThreadsAreStaged, RecordsAreBehind,
                  Running
    <2>5. (NoneIsLeft /\ SkipsAreRight)'
      BY <2>2 DEF IInv, RunInv, NoneIsLeft, SkipsAreRight, Lost, Running
    <2>6. (ClaimsAreTrue /\ RecordsHaveEntries)'
      BY <2>2 DEF IInv, RunInv, ClaimsAreTrue, RecordsHaveEntries
    <2>7. (OutputsAreOfSuccess /\ LastRunIsKept)'
      BY DEF IInv, RunInv, OutputsAreOfSuccess, LastRunIsKept
    <2>. QED  BY <2>1, <2>3, <2>4, <2>5, <2>6, <2>7 DEF IInv, RunInv
  <1>. QED  BY <1>1, ApplyKeeps, LoopsKeep, CycleKeeps, DiffKeeps, BeginKeeps,
               StageKeeps, ExecuteKeeps, SettleKeeps, SaveKeeps, CrashKeeps
            DEF Next

LEMMA InvHolds == Spec => []IInv
  BY Starting, Step, PTL DEF Spec

-----------------------------------------------------------------------------
(* The theorems                                                            *)

\* Entries, records, places and threads always have their types.
THEOREM TypeCorrect == Spec => []TypeOK
  <1>1. IInv => TypeOK
    BY DEF IInv
  <1>. QED  BY <1>1, InvHolds, PTL

\* Journal::save never writes what no executor returned, and a run that
\* reports success leaves nothing to execute.
THEOREM JournalTruth == Spec => []JournalTellsTheTruth
  <1>1. IInv => JournalTellsTheTruth
    BY DEF IInv, RunInv, ClaimsAreTrue, LastRunIsKept, JournalTellsTheTruth
  <1>. QED  BY <1>1, InvHolds, PTL

\* stage_level never hands an effect to a thread before all it reads from has
\* succeeded.
THEOREM InputsReady == Spec => []InputsAreReady
  <1>1. IInv => InputsAreReady
    BY DEF IInv, RunInv, ThreadsAreStaged, InputsAreReady
  <1>. QED  BY <1>1, InvHolds, PTL

\* topo_order fails only on a cycle and lets none through, levels puts every
\* effect above what it reads from, and at the end of a run every effect has
\* the record that the records of its dependencies call for.
THEOREM RunFollows == Spec => []RunFollowsTheGraph
  <1>1. ASSUME IInv PROVE OrderAndLevelsAreRight
    <2>1. ASSUME GivesUp PROVE ~Acyclic(plan)
      <3>1. /\ pc = "order" /\ ~advanced /\ Len(order) < Len(plan)
            /\ \A j \in cursor..Len(plan) : ~Ready(j)
        BY <2>1 DEF GivesUp, PassEnds
      <3>2. plan \in Plans /\ WellFormed(plan)
        BY <1>1, <3>1 DEF IInv, GraphInv, Planned
      <3>3. /\ cursor = 1 /\ order \in Seq(NamesOf(plan))
            /\ \A i, j \in 1..Len(order) : order[i] = order[j] => i = j
        BY <1>1, <3>1 DEF IInv, GraphInv, PlacesAreRight
      <3>. QED  BY <3>1, <3>2, <3>3, StuckIsCyclic
    <2>2. pc \notin {"idle", "order"} => Acyclic(plan)
      BY <1>1 DEF IInv, GraphInv, Planned, ValidPlans
    <2>3. ASSUME pc \in {"stage", "run", "save"}, NEW n \in NamesOf(plan)
          PROVE  /\ depth[n] \in 0..(groups - 1)
                 /\ \A d \in Deps(n) : depth[d] < depth[n]
      <3>1. n \in Names
        BY <1>1, <2>3, PlanIds DEF IInv, GraphInv, Planned
      <3>2. depth[n] < groups /\ \A d \in Deps(n) : depth[d] < depth[n]
        BY <1>1, <2>3 DEF IInv, GraphInv, DepthsAreRight, Running
      <3>. QED  BY <1>1, <3>1, <3>2 DEF IInv, TypeOK
    <2>. QED  BY <2>1, <2>2, <2>3 DEF OrderAndLevelsAreRight
  <1>2. IInv => InputsAreReady
    BY DEF IInv, RunInv, ThreadsAreStaged, InputsAreReady
  <1>3. ASSUME IInv PROVE EveryEffectIsSettled
    <2>. SUFFICES ASSUME pc = "save", NEW n \in NamesOf(plan)
                  PROVE  /\ results[n] # "none"
                         /\ results[n] = "skipped" <=>
                              \E d \in Deps(n) : results[d] \in {"failed", "skipped"}
      BY DEF EveryEffectIsSettled
    <2>1. n \in Names /\ Deps(n) \subseteq Names /\ depth[n] \in Nat
      <3>1. plan \in ValidPlans
        BY <1>3 DEF IInv, GraphInv, Planned
      <3>. QED  BY <1>3, <3>1, PlanIds DEF Deps, IInv, TypeOK
    <2>2. depth[n] < groups /\ groups <= level
      BY <1>3 DEF IInv, RunInv, GraphInv, DepthsAreRight, NoneIsLeft, Running, TypeOK
    <2>3. depth[n] < level
      BY <1>3, <2>1, <2>2 DEF IInv, TypeOK
    <2>4. results[n] # "none"
      BY <1>3, <2>3 DEF IInv, RunInv, NoneIsLeft, Running
    <2>5. results[n] = "skipped" <=> Deps(n) \cap Lost # {}
      BY <1>3, <2>1, <2>4 DEF IInv, RunInv, SkipsAreRight
    <2>6. Deps(n) \cap Lost # {} <=>
             \E d \in Deps(n) : results[d] \in {"failed", "skipped"}
      BY <2>1 DEF Lost
    <2>. QED  BY <2>4, <2>5, <2>6
  <1>4. IInv => RunFollowsTheGraph
    BY <1>1, <1>2, <1>3 DEF RunFollowsTheGraph
  <1>. QED  BY <1>4, InvHolds, PTL

\* What was saved as succeeded is never executed again nor changed.
THEOREM SavedFinality == Spec => SavedIsFinal
  <1>. DEFINE Kept == \A i \in Ids : disk[i].status = "succeeded" =>
                        disk'[i] = disk[i] /\ performed'[i] = performed[i]
  <1>1. ASSUME IInv, Next PROVE Kept
    <2>1. ASSUME NEW n \in Names, NEW out, Execute(n, out) PROVE Kept
      <3>1. /\ pc = "run" /\ jobs[n] # "none" /\ disk' = disk
            /\ performed' = [performed EXCEPT ![Id(n)] = @ + 1]
        BY <2>1 DEF Execute
      <3>2. ~IsCached(Id(n))
        BY <1>1, <3>1 DEF IInv, RunInv, ThreadsAreStaged, VerdictsStand
      <3>. QED  BY <1>1, <3>1, <3>2 DEF IsCached, IInv, TypeOK
    <2>2. CASE Save
      BY <1>1, <2>2 DEF Save, history, IInv, RunInv, VerdictsStand, IsCached
    <2>3. ASSUME \/ \E p \in Plans : Apply(p)
                 \/ \E i \in 1..Len(plan) : Place(i)
                 \/ NextPass \/ Cycle \/ Diff \/ Group \/ Begin
                 \/ Stage \/ Settle \/ Crash
          PROVE  Kept
      <3>1. CASE (\E p \in Plans : Apply(p)) \/ (\E i \in 1..Len(plan) : Place(i))
        <4>1. UNCHANGED <<disk, performed>>
          BY <3>1 DEF Apply, Place, history
        <4>. QED  BY <4>1
      <3>2. CASE NextPass \/ Cycle \/ Diff \/ Group \/ Begin
        <4>1. UNCHANGED <<disk, performed>>
          BY <3>2, Zenon DEF NextPass, Cycle, Diff, Group, Begin, history
        <4>. QED  BY <4>1
      <3>3. CASE Stage \/ Settle \/ Crash
        <4>1. UNCHANGED <<disk, performed>>
          BY <3>3, Zenon DEF Stage, Settle, Crash, history
        <4>. QED  BY <4>1
      <3>. QED  BY <2>3, <3>1, <3>2, <3>3
    <2>. QED  BY <1>1, <2>1, <2>2, <2>3 DEF Next
  <1>2. IInv /\ [Next]_vars => [Kept]_vars
    BY <1>1
  <1>. QED  BY <1>2, InvHolds, PTL DEF Spec, SavedIsFinal

=============================================================================
