---------------------------- MODULE DagPlanProofs ----------------------------
(***************************************************************************)
(* DagPlan for every set of names and every invocation.  Both depth-first  *)
(* walks keep one invariant, Walk, about the calls they are in and the     *)
(* names they are through with; a path of dependencies that returns to     *)
(* itself is all that the arguments about cycles need.                     *)
(***************************************************************************)
EXTENDS DagPlan, TLAPS

-----------------------------------------------------------------------------
(* A depth-first walk over the lists L of a graph on the names D: td is    *)
(* what the outer loop has left, stk the calls, pos how far each has got,  *)
(* done the names the walk is through with.                                *)

WalkTyped(D, L, td, stk, pos, done) ==
    /\ td \subseteq D /\ done \subseteq D
    /\ stk \in Seq(D)
    /\ pos \in [Names -> Nat]
    /\ \A n \in D : pos[n] <= Len(L[n])

\* Each call is for the dependency its caller has got to.
Chain(L, stk, pos) ==
    \A i \in 1..(Len(stk) - 1) :
        pos[stk[i]] >= 1 /\ L[stk[i]][pos[stk[i]]] = stk[i + 1]

\* No name is called twice, and none that is active is done.
Apart(stk, done) ==
    /\ \A i, j \in 1..Len(stk) : stk[i] = stk[j] => i = j
    /\ \A i \in 1..Len(stk) : stk[i] \notin done

Active(stk, n) == \E i \in 1..Len(stk) : stk[i] = n

\* A call starts at the front of its list.
Fresh(D, stk, pos, done) ==
    \A n \in D : n \in done \/ pos[n] = 0 \/ Active(stk, n)

\* The dependencies a call has gone past are done.
Past(L, stk, pos, done) ==
    \A i \in 1..Len(stk) : \A k \in 1..pos[stk[i]] :
        L[stk[i]][k] \in done \/ (i < Len(stk) /\ k = pos[stk[i]])

\* So is what the outer loop has gone past, but for the active calls.
Reached(D, td, stk, done) ==
    \A n \in D : n \in td \/ n \in done \/ Active(stk, n)

Walk(D, L, td, stk, pos, done) ==
    /\ WalkTyped(D, L, td, stk, pos, done)
    /\ Chain(L, stk, pos)
    /\ Apart(stk, done)
    /\ Fresh(D, stk, pos, done)
    /\ Past(L, stk, pos, done)
    /\ Reached(D, td, stk, done)

\* The loop that calls for n moves on.
Moves(L, td, stk, pos, n, td1, pos1) ==
    \/ stk = <<>> /\ td1 = td \ {n} /\ pos1 = pos
    \/ /\ stk # <<>> /\ td1 = td
       /\ pos[stk[Len(stk)]] < Len(L[stk[Len(stk)]])
       /\ n = L[stk[Len(stk)]][pos[stk[Len(stk)]] + 1]
       /\ pos1 = [pos EXCEPT ![stk[Len(stk)]] = @ + 1]

\* A walk that has not begun.
LEMMA FreshWalk ==
    ASSUME NEW D, D \subseteq Names, NEW L \in [D -> Seq(D)]
    PROVE  Walk(D, L, D, <<>>, [n \in Names |-> 0], {})
  BY DEF Walk, WalkTyped, Chain, Apart, Fresh, Past, Reached

\* What a move does: only the caller's position changes.
Moved(D, L, td, stk, pos, n, td1, pos1) ==
    /\ pos1 \in [Names -> Nat]
    /\ td1 \subseteq D
    /\ \A m \in td : m = n \/ m \in td1
    /\ \A m \in D : pos1[m] <= Len(L[m])
    /\ \A i \in 1..(Len(stk) - 1) : pos1[stk[i]] = pos[stk[i]]
    /\ \A m \in D : pos1[m] # pos[m] => Len(stk) >= 1 /\ m = stk[Len(stk)]
    /\ Len(stk) >= 1 => /\ pos1[stk[Len(stk)]] = pos[stk[Len(stk)]] + 1
                        /\ L[stk[Len(stk)]][pos[stk[Len(stk)]] + 1] = n

\* The types that the arithmetic of the stack needs.
LEMMA StackTypes ==
    ASSUME NEW D, D \subseteq Names, NEW L \in [D -> Seq(D)],
           NEW td, NEW stk, NEW pos, NEW done, Walk(D, L, td, stk, pos, done)
    PROVE  /\ Len(stk) \in Nat
           /\ stk # <<>> <=> Len(stk) >= 1
           /\ \A i \in 1..Len(stk) : stk[i] \in D /\ pos[stk[i]] \in Nat
           /\ \A m \in D : pos[m] \in Nat /\ Len(L[m]) \in Nat
  BY DEF Walk, WalkTyped

LEMMA MoveIsMoved ==
    ASSUME NEW D, D \subseteq Names, NEW L \in [D -> Seq(D)],
           NEW td, NEW stk, NEW pos, NEW done, Walk(D, L, td, stk, pos, done),
           NEW n \in D, NEW td1, NEW pos1, Moves(L, td, stk, pos, n, td1, pos1)
    PROVE  Moved(D, L, td, stk, pos, n, td1, pos1)
  <1>1. /\ stk \in Seq(D) /\ pos \in [Names -> Nat] /\ td \subseteq D
        /\ \A m \in D : pos[m] <= Len(L[m])
    BY DEF Walk, WalkTyped
  <1>2. /\ Len(stk) \in Nat /\ (stk # <<>> <=> Len(stk) >= 1)
        /\ \A i \in 1..Len(stk) : stk[i] \in D /\ pos[stk[i]] \in Nat
        /\ \A m \in D : pos[m] \in Nat /\ Len(L[m]) \in Nat
    BY StackTypes
  <1>a. \A i, j \in 1..Len(stk) : stk[i] = stk[j] => i = j
    BY DEF Walk, Apart
  <1>3. CASE stk = <<>> /\ td1 = td \ {n} /\ pos1 = pos
    BY <1>1, <1>2, <1>3 DEF Moved
  <1>4. CASE /\ stk # <<>> /\ td1 = td
             /\ pos[stk[Len(stk)]] < Len(L[stk[Len(stk)]])
             /\ n = L[stk[Len(stk)]][pos[stk[Len(stk)]] + 1]
             /\ pos1 = [pos EXCEPT ![stk[Len(stk)]] = @ + 1]
    <2>. DEFINE t == stk[Len(stk)]
    <2>1. Len(stk) >= 1 /\ Len(stk) \in 1..Len(stk)
      BY <1>2, <1>4
    <2>3. t \in D /\ pos[t] \in Nat /\ t \in Names
      BY <1>2, <2>1
    <2>4. /\ pos1 = [pos EXCEPT ![t] = pos[t] + 1] /\ pos[t] < Len(L[t])
          /\ n = L[t][pos[t] + 1] /\ td1 = td
      BY <1>4
    <2>t. \A i \in 1..(Len(stk) - 1) : stk[i] # t /\ stk[i] \in D
      BY <1>2, <1>a, <2>1
    <2>e. t = stk[Len(stk)]
      OBVIOUS
    <2>. HIDE DEF t
    <2>5. pos1 \in [Names -> Nat]
      BY <1>1, <2>3, <2>4
    <2>6. pos1[t] = pos[t] + 1 /\ \A m \in D \ {t} : pos1[m] = pos[m]
      BY <1>1, <2>3, <2>4
    <2>7. \A m \in D : pos1[m] <= Len(L[m])
      BY <1>1, <1>2, <2>3, <2>4, <2>6
    <2>8. \A i \in 1..(Len(stk) - 1) : pos1[stk[i]] = pos[stk[i]]
      BY <2>6, <2>t
    <2>. QED  BY <1>1, <2>1, <2>4, <2>5, <2>6, <2>7, <2>8, <2>e DEF Moved
  <1>. QED  BY <1>3, <1>4 DEF Moves

\* A call for a name that is done returns at once.
LEMMA WalkSkip ==
    ASSUME NEW D, D \subseteq Names, NEW L \in [D -> Seq(D)],
           NEW td, NEW stk, NEW pos, NEW done, Walk(D, L, td, stk, pos, done),
           NEW n \in D, NEW td1, NEW pos1, Moves(L, td, stk, pos, n, td1, pos1),
           n \in done
    PROVE  Walk(D, L, td1, stk, pos1, done)
  <1>1. Moved(D, L, td, stk, pos, n, td1, pos1)
    BY MoveIsMoved
  <1>2. /\ Len(stk) \in Nat
        /\ \A i \in 1..Len(stk) : stk[i] \in D /\ pos[stk[i]] \in Nat
    BY StackTypes
  <1>3. WalkTyped(D, L, td1, stk, pos1, done)
    BY <1>1 DEF Walk, WalkTyped, Moved
  <1>4. Chain(L, stk, pos1)
    <2>1. Chain(L, stk, pos) /\ \A i \in 1..(Len(stk) - 1) : pos1[stk[i]] = pos[stk[i]]
      BY <1>1 DEF Walk, Moved
    <2>. QED  BY <2>1 DEF Chain
  <1>5. Apart(stk, done)
    BY DEF Walk
  <1>6. Fresh(D, stk, pos1, done)
    <2>. SUFFICES ASSUME NEW m \in D, m \notin done, pos1[m] # 0
                  PROVE  Active(stk, m)
      BY DEF Fresh
    <2>1. CASE pos1[m] = pos[m]
      BY <2>1 DEF Walk, Fresh
    <2>2. CASE pos1[m] # pos[m]
      <3>1. Len(stk) >= 1 /\ m = stk[Len(stk)]
        BY <1>1, <2>2 DEF Moved
      <3>. QED  BY <1>2, <3>1 DEF Active
    <2>. QED  BY <2>1, <2>2
  <1>7. Past(L, stk, pos1, done)
    <2>. SUFFICES ASSUME NEW i \in 1..Len(stk), NEW k \in 1..pos1[stk[i]]
                  PROVE  L[stk[i]][k] \in done \/ (i < Len(stk) /\ k = pos1[stk[i]])
      BY DEF Past
    <2>1. Past(L, stk, pos, done)
      BY DEF Walk
    <2>2. CASE i = Len(stk)
      <3>1. pos1[stk[i]] = pos[stk[i]] + 1 /\ L[stk[i]][pos[stk[i]] + 1] = n
        BY <1>1, <1>2, <2>2 DEF Moved
      <3>2. CASE k = pos[stk[i]] + 1
        BY <3>1, <3>2
      <3>3. CASE k # pos[stk[i]] + 1
        <4>1. k \in 1..pos[stk[i]]
          BY <1>2, <3>1, <3>3
        <4>. QED  BY <2>1, <2>2, <4>1, <1>2 DEF Past
      <3>. QED  BY <3>2, <3>3
    <2>3. CASE i # Len(stk)
      <3>1. i \in 1..(Len(stk) - 1)
        BY <1>2, <2>3
      <3>2. pos1[stk[i]] = pos[stk[i]]
        BY <1>1, <3>1 DEF Moved
      <3>. QED  BY <2>1, <3>2 DEF Past
    <2>. QED  BY <2>2, <2>3
  <1>8. Reached(D, td1, stk, done)
    BY <1>1 DEF Walk, Reached, Moved
  <1>. QED  BY <1>3, <1>4, <1>5, <1>6, <1>7, <1>8 DEF Walk

\* A call for a name that was not met becomes the innermost one.
LEMMA WalkPush ==
    ASSUME NEW D, D \subseteq Names, NEW L \in [D -> Seq(D)],
           NEW td, NEW stk, NEW pos, NEW done, Walk(D, L, td, stk, pos, done),
           NEW n \in D, NEW td1, NEW pos1, Moves(L, td, stk, pos, n, td1, pos1),
           n \notin done, ~Active(stk, n)
    PROVE  Walk(D, L, td1, Append(stk, n), pos1, done)
  <1>. DEFINE l == Len(stk)  s1 == Append(stk, n)
  <1>1. Moved(D, L, td, stk, pos, n, td1, pos1)
    BY MoveIsMoved
  <1>2. l \in Nat /\ \A i \in 1..l : stk[i] \in D /\ pos[stk[i]] \in Nat
    BY StackTypes
  <1>3. stk \in Seq(D)
    BY DEF Walk, WalkTyped
  <1>4. /\ s1 \in Seq(D) /\ Len(s1) = l + 1 /\ s1[l + 1] = n
        /\ \A i \in 1..l : s1[i] = stk[i]
    BY <1>3
  <1>5. \A i \in 1..(l + 1) : i \in 1..l \/ i = l + 1
    BY <1>2
  <1>6. \A i \in 1..l : stk[i] # n
    BY DEF Active
  <1>7. \A m : Active(s1, m) <=> Active(stk, m) \/ m = n
    <2>1. l + 1 \in 1..(l + 1) /\ \A i \in 1..l : i \in 1..(l + 1)
      BY <1>2
    <2>. HIDE DEF l, s1
    <2>2. \A m : Active(stk, m) <=> \E i \in 1..l : stk[i] = m
      BY DEF Active, l
    <2>. QED  BY <1>4, <1>5, <2>1, <2>2 DEF Active
  <1>l. l = Len(stk)
    OBVIOUS
  <1>. HIDE DEF l, s1
  <1>8. WalkTyped(D, L, td1, s1, pos1, done)
    BY <1>1, <1>4 DEF Walk, WalkTyped, Moved
  <1>9. Chain(L, s1, pos1)
    <2>. SUFFICES ASSUME NEW i \in 1..l
                  PROVE  pos1[s1[i]] >= 1 /\ L[s1[i]][pos1[s1[i]]] = s1[i + 1]
      BY <1>2, <1>4 DEF Chain
    <2>1. CASE i = l
      <3>1. pos1[stk[l]] = pos[stk[l]] + 1 /\ L[stk[l]][pos[stk[l]] + 1] = n
        BY <1>1, <1>2, <1>l, <2>1 DEF Moved
      <3>. QED  BY <1>2, <1>4, <2>1, <3>1
    <2>2. CASE i # l
      <3>1. i \in 1..(l - 1) /\ i + 1 \in 1..l
        BY <1>2, <2>2
      <3>2. pos1[stk[i]] = pos[stk[i]]
        BY <1>1, <1>l, <3>1 DEF Moved
      <3>3. pos[stk[i]] >= 1 /\ L[stk[i]][pos[stk[i]]] = stk[i + 1]
        BY <1>l, <3>1 DEF Walk, Chain
      <3>. QED  BY <1>4, <3>1, <3>2, <3>3
    <2>. QED  BY <2>1, <2>2
  <1>10. Apart(s1, done)
    <2>1. /\ \A i, j \in 1..l : stk[i] = stk[j] => i = j
          /\ \A i \in 1..l : stk[i] \notin done
      BY <1>l DEF Walk, Apart
    <2>. QED  BY <1>4, <1>5, <1>6, <2>1 DEF Apart
  <1>11. Fresh(D, s1, pos1, done)
    <2>. SUFFICES ASSUME NEW m \in D, m \notin done, pos1[m] # 0
                  PROVE  Active(stk, m)
      BY <1>7 DEF Fresh
    <2>1. CASE pos1[m] = pos[m]
      BY <2>1 DEF Walk, Fresh
    <2>2. CASE pos1[m] # pos[m]
      <3>1. l >= 1 /\ m = stk[l]
        BY <1>1, <1>l, <2>2 DEF Moved
      <3>. QED  BY <1>2, <1>l, <3>1 DEF Active
    <2>. QED  BY <2>1, <2>2
  <1>12. Past(L, s1, pos1, done)
    <2>. SUFFICES ASSUME NEW i \in 1..(l + 1), NEW k \in 1..pos1[s1[i]]
                  PROVE  L[s1[i]][k] \in done \/ (i < l + 1 /\ k = pos1[s1[i]])
      BY <1>4 DEF Past
    <2>0. Past(L, stk, pos, done)
      BY DEF Walk
    <2>1. CASE i = l + 1
      <3>1. pos[n] = 0
        BY DEF Walk, Fresh
      <3>2. pos1[n] = pos[n]
        BY <1>1, <1>2, <1>6, <1>l DEF Moved
      <3>. QED  BY <1>4, <2>1, <3>1, <3>2
    <2>2. CASE i = l /\ i \in 1..l
      <3>1. pos1[stk[l]] = pos[stk[l]] + 1 /\ s1[i] = stk[l] /\ pos[stk[l]] \in Nat
        BY <1>1, <1>2, <1>4, <1>l, <2>2 DEF Moved
      <3>2. CASE k = pos1[stk[l]]
        BY <1>2, <2>2, <3>1, <3>2
      <3>3. CASE k # pos1[stk[l]]
        <4>0. k \in 1..(pos[stk[l]] + 1) /\ k # pos[stk[l]] + 1
          BY <3>1, <3>3
        <4>1. k \in 1..pos[stk[l]]
          BY <3>1, <4>0
        <4>2. L[stk[l]][k] \in done
          BY <1>2, <1>l, <2>0, <2>2, <4>1 DEF Past
        <4>. QED  BY <3>1, <4>2
      <3>. QED  BY <3>2, <3>3
    <2>3. CASE i # l /\ i \in 1..l
      <3>1. i \in 1..(l - 1)
        BY <1>2, <2>3
      <3>2. pos1[stk[i]] = pos[stk[i]] /\ s1[i] = stk[i]
        BY <1>1, <1>4, <1>l, <2>3, <3>1 DEF Moved
      <3>3. L[stk[i]][k] \in done \/ k = pos[stk[i]]
        BY <1>l, <2>0, <2>3, <3>2 DEF Past
      <3>. QED  BY <1>2, <2>3, <3>2, <3>3
    <2>. QED  BY <1>5, <2>1, <2>2, <2>3
  <1>13. Reached(D, td1, s1, done)
    <2>1. Reached(D, td, stk, done) /\ \A m \in td : m = n \/ m \in td1
      BY <1>1 DEF Walk, Moved
    <2>. QED  BY <1>7, <2>1 DEF Reached
  <1>14. Walk(D, L, td1, s1, pos1, done)
    BY <1>8, <1>9, <1>10, <1>11, <1>12, <1>13 DEF Walk
  <1>. QED  BY <1>14 DEF s1

\* All but the last of a sequence.
LEMMA FrontOf ==
    ASSUME NEW D, NEW s \in Seq(D), s # <<>>
    PROVE  LET f == SubSeq(s, 1, Len(s) - 1) IN
           /\ f \in Seq(D) /\ Len(f) = Len(s) - 1
           /\ \A i \in 1..(Len(s) - 1) : f[i] = s[i]
  <1>1. Len(s) \in Nat /\ Len(s) >= 1
    OBVIOUS
  <1>2. \A i \in 1..(Len(s) - 1) : s[i] \in D
    BY <1>1
  <1>3. SubSeq(s, 1, Len(s) - 1) = [i \in 1..(Len(s) - 1) |-> s[i]]
    BY <1>1
  <1>. DEFINE f == SubSeq(s, 1, Len(s) - 1)
  <1>4. DOMAIN f = 1..(Len(s) - 1) /\ \A i \in 1..(Len(s) - 1) : f[i] = s[i]
    BY <1>3
  <1>5. f \in [1..(Len(s) - 1) -> D]
    BY <1>2, <1>3
  <1>. HIDE DEF f
  <1>6. f \in Seq(D) /\ Len(f) = Len(s) - 1
    BY <1>1, <1>5
  <1>. QED  BY <1>4, <1>6 DEF f

\* The innermost call, for t, is over: its dependencies are done, and so is
\* it now; s1 is the stack without it.
Popped(D, L, td, stk, pos, done, t, s1) ==
    /\ t \in D /\ t \notin done
    /\ \A k \in 1..Len(L[t]) : L[t][k] \in done
    /\ Walk(D, L, td, s1, pos, done \cup {t})
    /\ \A m : Active(stk, m) <=> Active(s1, m) \/ m = t
    /\ ~Active(s1, t)

LEMMA WalkPop ==
    ASSUME NEW D, D \subseteq Names, NEW L \in [D -> Seq(D)],
           NEW td, NEW stk, NEW pos, NEW done, Walk(D, L, td, stk, pos, done),
           NEW t, stk # <<>>, t = stk[Len(stk)], pos[t] = Len(L[t]),
           NEW s1, s1 = SubSeq(stk, 1, Len(stk) - 1)
    PROVE  Popped(D, L, td, stk, pos, done, t, s1)
  <1>. DEFINE l == Len(stk)  d1 == done \cup {t}
  <1>1. l \in Nat /\ l >= 1 /\ t = stk[l] /\ t \in D
        /\ \A i \in 1..l : stk[i] \in D /\ pos[stk[i]] \in Nat
    <2>1. /\ l \in Nat /\ l >= 1
          /\ \A i \in 1..l : stk[i] \in D /\ pos[stk[i]] \in Nat
      BY StackTypes
    <2>. QED  BY <2>1
  <1>2. stk \in Seq(D)
    BY DEF Walk, WalkTyped
  <1>3. s1 \in Seq(D) /\ Len(s1) = l - 1 /\ \A i \in 1..(l - 1) : s1[i] = stk[i]
    BY <1>2, FrontOf
  <1>l. l = Len(stk)
    OBVIOUS
  <1>. HIDE DEF l, d1
  <1>4. /\ \A i, j \in 1..l : stk[i] = stk[j] => i = j
        /\ \A i \in 1..l : stk[i] \notin done
    BY <1>l DEF Walk, Apart
  <1>5. t \notin done
    BY <1>1, <1>4
  <1>6. \A k \in 1..Len(L[t]) : L[t][k] \in done
    <2>1. l \in 1..l
      BY <1>1
    <2>. QED  BY <1>1, <1>l, <2>1 DEF Walk, Past
  <1>7. /\ \A i \in 1..(l - 1) : i \in 1..l /\ stk[i] # t
        /\ \A i \in 1..l : i = l \/ i \in 1..(l - 1)
    BY <1>1, <1>4
  <1>8. ~Active(s1, t)
    BY <1>3, <1>7 DEF Active
  <1>9. \A m : Active(stk, m) <=> Active(s1, m) \/ m = t
    <2>1. l \in 1..l
      BY <1>1
    <2>2. \A m : Active(stk, m) <=> \E i \in 1..l : stk[i] = m
      BY <1>l DEF Active
    <2>3. \A m : Active(s1, m) <=> \E i \in 1..(l - 1) : stk[i] = m
      BY <1>3 DEF Active
    <2>. QED  BY <1>1, <1>7, <2>1, <2>2, <2>3
  <1>10. WalkTyped(D, L, td, s1, pos, d1)
    BY <1>1, <1>3 DEF Walk, WalkTyped, d1
  <1>11. Chain(L, s1, pos)
    <2>. SUFFICES ASSUME NEW i \in 1..(l - 2)
                  PROVE  pos[s1[i]] >= 1 /\ L[s1[i]][pos[s1[i]]] = s1[i + 1]
      BY <1>1, <1>3 DEF Chain
    <2>1. i \in 1..(l - 1) /\ i + 1 \in 1..(l - 1)
      BY <1>1
    <2>2. pos[stk[i]] >= 1 /\ L[stk[i]][pos[stk[i]]] = stk[i + 1]
      BY <1>l, <2>1 DEF Walk, Chain
    <2>. QED  BY <1>3, <2>1, <2>2
  <1>12. Apart(s1, d1)
    <2>1. \A i \in 1..Len(s1) : i \in 1..l /\ s1[i] = stk[i] /\ s1[i] # t
      BY <1>3, <1>7
    <2>2. \A i, j \in 1..Len(s1) : s1[i] = s1[j] => i = j
      BY <1>4, <2>1
    <2>. QED  BY <1>4, <2>1, <2>2 DEF Apart, d1
  <1>13. Fresh(D, s1, pos, d1)
    BY <1>9 DEF Walk, Fresh, d1
  <1>14. Past(L, s1, pos, d1)
    <2>. SUFFICES ASSUME NEW i \in 1..(l - 1), NEW k \in 1..pos[s1[i]]
                  PROVE  L[s1[i]][k] \in d1 \/ (i < l - 1 /\ k = pos[s1[i]])
      BY <1>3 DEF Past
    <2>1. i \in 1..l /\ s1[i] = stk[i]
      BY <1>3, <1>7
    <2>2. L[stk[i]][k] \in done \/ k = pos[stk[i]]
      BY <1>l, <2>1 DEF Walk, Past
    <2>3. CASE k = pos[stk[i]] /\ i = l - 1
      <3>1. L[stk[i]][k] = stk[i + 1]
        BY <1>l, <2>3 DEF Walk, Chain
      <3>2. i + 1 = l
        BY <1>1, <2>3
      <3>. QED  BY <1>1, <2>1, <3>1, <3>2 DEF d1
    <2>4. CASE k = pos[stk[i]] /\ i # l - 1
      <3>1. i < l - 1
        BY <1>1, <2>4
      <3>. QED  BY <2>1, <2>4, <3>1
    <2>. QED  BY <2>1, <2>2, <2>3, <2>4 DEF d1
  <1>15. Reached(D, td, s1, d1)
    BY <1>9 DEF Walk, Reached, d1
  <1>16. Walk(D, L, td, s1, pos, d1)
    BY <1>10, <1>11, <1>12, <1>13, <1>14, <1>15 DEF Walk
  <1>. QED  BY <1>1, <1>5, <1>6, <1>8, <1>9, <1>16 DEF d1, Popped

-----------------------------------------------------------------------------
(* The inductive invariant of the plan.                                    *)

\* nodes as the lists the walks go along.
DepList == [n \in DOMAIN nodes |-> nodes[n].depends_on]

OnStack == {stack[i] : i \in 1..Len(stack)}

\* Every dependency is a node: what validate_node and the lookup establish.
Closed == \A n \in DOMAIN nodes : ValidNode(nodes[n]) /\ Deps(n) \subseteq DOMAIN nodes

\* What the steps in a row of main leave behind them.
PlanInv ==
    /\ call \in Invocations
    /\ stage \in {"filter", "validate", "cycle", "mode", "order", "run"} \cup Rejections
    /\ DOMAIN nodes \subseteq DOMAIN call.spec
    /\ \A n \in DOMAIN nodes : nodes[n] = call.spec[n]
    /\ stage \in {"filter", "unknown_only"} => DOMAIN nodes = DOMAIN call.spec
    /\ stage \notin {"filter", "unknown_only"} =>
          DOMAIN nodes = IF only = {} THEN DOMAIN call.spec ELSE only
    /\ stage = "unknown_only" => only # {} /\ ~(only \subseteq DOMAIN call.spec)
    /\ stage = "dangling" => \E n \in DOMAIN nodes : ~(Deps(n) \subseteq DOMAIN nodes)
    /\ stage = "invalid" => ~Closed
    /\ stage = "bad_mode" => call.output # "auto"
    /\ stage \in {"cycle", "cyclic", "mode", "bad_mode", "order", "run"} => Closed
    /\ stage \in {"order", "run"} =>
          mode \in OutputModes \ {"auto"} /\ (mode # "plain" => Inheriting = {})

\* Among the names done, each needs only others that are, and some name of
\* every set of them needs no other of the set.
Sunk(done) ==
    /\ \A n \in done : Deps(n) \subseteq done
    /\ \A S \in SUBSET done : S # {} => \E n \in S : Deps(n) \cap S = {}

\* detect_cycle: gray is the stack and black what it is through with.
CycleInv ==
    /\ stage \in {"filter", "validate"} => gray = {} /\ black = {}
    /\ stage = "cycle" =>
          /\ Walk(DOMAIN nodes, DepList, todo, stack, at, black)
          /\ gray = OnStack
          /\ Sunk(black)
    /\ stage = "cyclic" => cycle \in Seq(DOMAIN nodes)

\* A list of names in which each comes after its dependencies.
DepsFirst ==
    /\ order \in Seq(DOMAIN nodes)
    /\ \A i, j \in DOMAIN order : order[i] = order[j] => i = j
    /\ \A i \in DOMAIN order :
          Deps(order[i]) \subseteq {order[j] : j \in 1..(i - 1)}

\* topological_order: what was met is in the order or on the stack.
OrderInv ==
    /\ stage \in {"filter", "validate", "cycle", "mode"} => order = <<>> /\ visited = {}
    /\ stage = "order" =>
          /\ Walk(DOMAIN nodes, DepList, todo, stack, at, Range(order))
          /\ visited = Range(order) \cup OnStack
          /\ DepsFirst

IInv == PlanInv /\ CycleInv /\ CycleIsReal /\ OrderInv /\ OrderIsTopological

LEMMA NodeTypes ==
    ASSUME PlanInv
    PROVE  /\ DOMAIN nodes \subseteq Names
           /\ \A n \in DOMAIN nodes : nodes[n] \in NodeSpec
           /\ call.output \in OutputModes
  BY PlanAssumption DEF PlanInv

LEMMA ListsAreDeps ==
    ASSUME PlanInv
    PROVE  \A n \in DOMAIN nodes :
              /\ DepList[n] = nodes[n].depends_on
              /\ Len(DepList[n]) \in Nat
              /\ Deps(n) = {DepList[n][k] : k \in 1..Len(DepList[n])}
  <1>. SUFFICES ASSUME NEW n \in DOMAIN nodes
                PROVE  /\ DepList[n] = nodes[n].depends_on
                       /\ Len(DepList[n]) \in Nat
                       /\ Deps(n) = {DepList[n][k] : k \in 1..Len(DepList[n])}
    OBVIOUS
  <1>1. nodes[n].depends_on \in Seq(Names)
    BY NodeTypes DEF NodeSpec
  <1>2. DepList[n] = nodes[n].depends_on
    BY DEF DepList
  <1>. QED  BY <1>1, <1>2 DEF Deps, Range

LEMMA ListsStayInside ==
    ASSUME PlanInv, Closed
    PROVE  DepList \in [DOMAIN nodes -> Seq(DOMAIN nodes)]
  <1>1. ASSUME NEW n \in DOMAIN nodes PROVE DepList[n] \in Seq(DOMAIN nodes)
    <2>1. DepList[n] \in Seq(Names)
      BY NodeTypes DEF NodeSpec, DepList
    <2>2. \A k \in 1..Len(DepList[n]) : DepList[n][k] \in Deps(n)
      BY ListsAreDeps
    <2>3. Deps(n) \subseteq DOMAIN nodes
      BY DEF Closed
    <2>. HIDE DEF DepList
    <2>. QED  BY <2>1, <2>2, <2>3
  <1>2. DepList = [n \in DOMAIN nodes |-> DepList[n]]
    BY DEF DepList
  <1>. QED  BY <1>1, <1>2

\* A call of either walk is for a node and moves the loop it comes from.
LEMMA CallMoves ==
    ASSUME PlanInv, Closed, NEW done,
           Walk(DOMAIN nodes, DepList, todo, stack, at, done),
           NEW n, Calls(n), Advance(n)
    PROVE  /\ n \in DOMAIN nodes
           /\ Moves(DepList, todo, stack, at, n, todo', at')
  <1>1. CASE stack = <<>>
    <2>1. todo \subseteq DOMAIN nodes
      BY DEF Walk, WalkTyped
    <2>. QED  BY <1>1, <2>1 DEF Calls, Advance, Moves
  <1>2. CASE stack # <<>>
    <2>1. Len(stack) \in 1..Len(stack) /\ Top \in DOMAIN nodes /\ at[Top] \in Nat
      <3>1. /\ Len(stack) \in Nat /\ Len(stack) >= 1
            /\ \A i \in 1..Len(stack) : stack[i] \in DOMAIN nodes /\ at[stack[i]] \in Nat
        BY <1>2, NodeTypes, ListsStayInside, StackTypes
      <3>. QED  BY <3>1 DEF Top
    <2>2. DepList[Top] = nodes[Top].depends_on /\ Len(DepList[Top]) \in Nat
      BY <2>1, ListsAreDeps
    <2>3. /\ at[Top] < Len(DepList[Top]) /\ n = DepList[Top][at[Top] + 1]
          /\ at' = [at EXCEPT ![Top] = @ + 1] /\ todo' = todo
      BY <1>2, <2>2 DEF Calls, Advance
    <2>4. at[Top] + 1 \in 1..Len(DepList[Top])
      BY <2>1, <2>2, <2>3
    <2>5. DepList[Top] \in Seq(DOMAIN nodes)
      BY <2>1, ListsStayInside
    <2>6. n \in DOMAIN nodes
      <3>. HIDE DEF DepList
      <3>. QED  BY <2>3, <2>4, <2>5
    <2>7. Moves(DepList, todo, stack, at, n, todo', at')
      BY <1>2, <2>3 DEF Moves, Top
    <2>. QED  BY <2>6, <2>7
  <1>. QED  BY <1>1, <1>2

\* A call for a name that is being visited: the stack and the name are a path
\* of dependencies that ends where it has been.
ClosedPath(p) ==
    /\ \A i \in 1..(Len(p) - 1) :
          p[i] \in DOMAIN nodes /\ p[i + 1] \in Deps(p[i])
    /\ \E i \in 1..(Len(p) - 1) : p[i] = p[Len(p)]

LEMMA CallOnStack ==
    ASSUME PlanInv, Closed, NEW done,
           Walk(DOMAIN nodes, DepList, todo, stack, at, done),
           NEW n, Calls(n), n \in OnStack
    PROVE  /\ ClosedPath(Append(stack, n))
           /\ Len(Append(stack, n)) \in Nat
  <1>. DEFINE l == Len(stack)  p == Append(stack, n)
  <1>1. /\ l \in Nat /\ stack \in Seq(DOMAIN nodes)
        /\ \A i \in 1..l : stack[i] \in DOMAIN nodes /\ at[stack[i]] \in Nat
        /\ \A m \in DOMAIN nodes : at[m] <= Len(DepList[m])
    <2>1. stack \in Seq(DOMAIN nodes) /\ \A m \in DOMAIN nodes : at[m] <= Len(DepList[m])
      BY DEF Walk, WalkTyped
    <2>2. l \in Nat /\ \A i \in 1..l : stack[i] \in DOMAIN nodes /\ at[stack[i]] \in Nat
      BY NodeTypes, ListsStayInside, StackTypes
    <2>. QED  BY <2>1, <2>2
  <1>2. PICK b \in 1..l : stack[b] = n
    BY DEF OnStack
  <1>3. l >= 1 /\ stack # <<>> /\ Top = stack[l] /\ l \in 1..l
    BY <1>1, <1>2 DEF Top
  <1>4. Len(p) = l + 1 /\ p[l + 1] = n /\ \A i \in 1..l : p[i] = stack[i]
    BY <1>1, <1>2
  <1>l. l = Len(stack)
    OBVIOUS
  <1>. HIDE DEF l, p
  <1>5. ASSUME NEW i \in 1..l PROVE p[i] \in DOMAIN nodes /\ p[i + 1] \in Deps(p[i])
    <2>1. stack[i] \in DOMAIN nodes /\ at[stack[i]] \in Nat
      BY <1>1
    <2>2. /\ Len(DepList[stack[i]]) \in Nat
          /\ DepList[stack[i]] = nodes[stack[i]].depends_on
          /\ Deps(stack[i]) = {DepList[stack[i]][k] : k \in 1..Len(DepList[stack[i]])}
      BY <2>1, ListsAreDeps
    <2>3. CASE i = l
      <3>1. /\ at[stack[i]] < Len(DepList[stack[i]])
            /\ n = DepList[stack[i]][at[stack[i]] + 1]
        BY <1>3, <2>2, <2>3 DEF Calls
      <3>2. at[stack[i]] + 1 \in 1..Len(DepList[stack[i]])
        BY <2>1, <2>2, <3>1
      <3>. QED  BY <1>4, <2>1, <2>2, <2>3, <3>1, <3>2
    <2>4. CASE i # l
      <3>1. i \in 1..(l - 1) /\ i + 1 \in 1..l
        BY <1>1, <2>4
      <3>2. at[stack[i]] >= 1 /\ DepList[stack[i]][at[stack[i]]] = stack[i + 1]
        BY <1>l, <3>1 DEF Walk, Chain
      <3>3. at[stack[i]] \in 1..Len(DepList[stack[i]])
        BY <1>1, <2>1, <2>2, <3>2
      <3>. QED  BY <1>4, <2>1, <2>2, <3>1, <3>2, <3>3
    <2>. QED  BY <2>3, <2>4
  <1>6. p[b] = p[l + 1] /\ l + 1 \in Nat /\ (l + 1) - 1 = l
    BY <1>1, <1>2, <1>4
  <1>7. ClosedPath(p)
    BY <1>4, <1>5, <1>6 DEF ClosedPath
  <1>. QED  BY <1>4, <1>6, <1>7 DEF p

\* A closed path runs through a set in which no node can come first.
LEMMA ClosedPathRefutes ==
    ASSUME NEW p, Len(p) \in Nat, ClosedPath(p)
    PROVE  ~Acyclic
  <1>. DEFINE l == Len(p)
  <1>1. PICK b \in 1..(l - 1) : p[b] = p[l]
    BY DEF ClosedPath
  <1>2. \A i \in 1..(l - 1) : p[i] \in DOMAIN nodes /\ p[i + 1] \in Deps(p[i])
    BY DEF ClosedPath
  <1>3. l \in Nat
    OBVIOUS
  <1>. HIDE DEF l
  <1>. DEFINE S == {p[i] : i \in b..(l - 1)}
  <1>4. S \in SUBSET DOMAIN nodes /\ S # {} /\ p[b] \in S
    BY <1>2, <1>3
  <1>5. ASSUME NEW i \in b..(l - 1) PROVE p[i + 1] \in Deps(p[i]) \cap S
    <2>1. i \in 1..(l - 1)
      BY <1>3
    <2>2. CASE i = l - 1
      <3>1. p[i + 1] = p[b]
        BY <1>1, <1>3, <2>2
      <3>. QED  BY <1>2, <1>4, <2>1, <3>1
    <2>3. CASE i # l - 1
      <3>1. i + 1 \in b..(l - 1)
        BY <1>3, <2>3
      <3>. QED  BY <1>2, <2>1, <3>1
    <2>. QED  BY <2>2, <2>3
  <1>6. \A n \in S : Deps(n) \cap S # {}
    BY <1>5
  <1>. HIDE DEF S
  <1>. QED  BY <1>4, <1>6 DEF Acyclic

-----------------------------------------------------------------------------
(* The invariant is inductive.                                             *)

\* What is said of the graph is about nodes alone.
LEMMA SameGraph ==
    ASSUME nodes' = nodes
    PROVE  /\ DepList' = DepList
           /\ \A n : Deps(n)' = Deps(n)
           /\ Closed' <=> Closed
           /\ Acyclic' <=> Acyclic
           /\ Inheriting' = Inheriting
  <1>1. \A n : Deps(n)' = Deps(n)
    BY DEF Deps
  <1>2. Closed' <=> Closed
    BY <1>1 DEF Closed, ValidNode
  <1>3. Acyclic' <=> Acyclic
    BY <1>1 DEF Acyclic
  <1>. QED  BY <1>1, <1>2, <1>3 DEF DepList, Inheriting

LEMMA PlanStep ==
    ASSUME PlanInv, [Next]_vars
    PROVE  PlanInv'
  <1>. USE DEF Rejections
  <1>1. CASE FilterOnly
    <2>0. stage = "filter" /\ DOMAIN nodes = DOMAIN call.spec /\ call' = call /\ only' = only
      BY <1>1 DEF FilterOnly, PlanInv, only
    <2>1. CASE only = {} /\ stage' = "validate" /\ nodes' = nodes
      BY <2>0, <2>1 DEF PlanInv
    <2>2. CASE only # {} /\ ~(only \subseteq DOMAIN nodes) /\ stage' = "unknown_only" /\ nodes' = nodes
      BY <2>0, <2>2 DEF PlanInv
    <2>3. CASE /\ only # {} /\ only \subseteq DOMAIN nodes /\ nodes' = KeepOnly
               /\ stage' = IF \A n \in only : Deps(n) \subseteq only
                           THEN "validate" ELSE "dangling"
      <3>1. DOMAIN nodes' = only /\ \A n \in only : nodes'[n] = nodes[n]
        BY <2>3 DEF KeepOnly
      <3>2. \A n \in only : Deps(n)' = Deps(n)
        BY <3>1 DEF Deps
      <3>3. stage' = "dangling" => \E n \in DOMAIN nodes' : ~(Deps(n)' \subseteq DOMAIN nodes')
        BY <2>3, <3>1, <3>2
      <3>. QED  BY <2>0, <2>3, <3>1, <3>3 DEF PlanInv
    <2>. QED  BY <1>1, <2>1, <2>2, <2>3 DEF FilterOnly
  <1>2. CASE ValidateNodes
    <2>1. /\ stage = "validate" /\ call' = call /\ nodes' = nodes /\ only' = only
          /\ stage' = IF Closed THEN "cycle" ELSE "invalid"
      BY <1>2 DEF ValidateNodes, Closed, only
    <2>. QED  BY <2>1, SameGraph DEF PlanInv
  <1>3. ASSUME NEW n \in Names, VisitCycle(n) PROVE PlanInv'
    <2>1. /\ stage = "cycle" /\ call' = call /\ nodes' = nodes /\ only' = only
          /\ stage' \in {"cycle", "cyclic"}
      BY <1>3 DEF VisitCycle, only
    <2>. QED  BY <2>1, SameGraph DEF PlanInv
  <1>4. ASSUME NEW n \in Names, VisitTopo(n) PROVE PlanInv'
    BY <1>4, SameGraph DEF VisitTopo, PlanInv, planVars, only
  <1>5. CASE CycleReturns
    BY <1>5, SameGraph DEF CycleReturns, PlanInv, planVars, only
  <1>6. CASE NoCycle
    BY <1>6, SameGraph DEF NoCycle, PlanInv, only
  <1>7. CASE ResolveMode
    <2>1. stage = "mode" /\ call' = call /\ nodes' = nodes /\ only' = only
      BY <1>7 DEF ResolveMode, only
    <2>2. /\ stage' \in {"order", "bad_mode"}
          /\ stage' = "bad_mode" => call.output # "auto"
          /\ stage' = "order" =>
                mode' \in OutputModes \ {"auto"} /\ (mode' # "plain" => Inheriting = {})
      BY <1>7 DEF ResolveMode, OutputModes
    <2>. QED  BY <2>1, <2>2, SameGraph DEF PlanInv
  <1>8. CASE TopoReturns
    BY <1>8, SameGraph DEF TopoReturns, PlanInv, only
  <1>9. CASE Ordered
    BY <1>9, SameGraph DEF Ordered, PlanInv, only
  <1>10. CASE Planned \/ UNCHANGED vars
    BY <1>10, SameGraph DEF Planned, PlanInv, vars, planVars, only
  <1>. QED  BY <1>1, <1>2, <1>3, <1>4, <1>5, <1>6, <1>7, <1>8, <1>9, <1>10 DEF Next

\* A name whose dependencies are all done can join them.
LEMMA SunkGrows ==
    ASSUME NEW done, Sunk(done), NEW t, t \notin done, Deps(t) \subseteq done
    PROVE  Sunk(done \cup {t})
  <1>1. \A n \in done \cup {t} : Deps(n) \subseteq done
    BY DEF Sunk
  <1>2. ASSUME NEW S \in SUBSET (done \cup {t}), S # {}
        PROVE  \E n \in S : Deps(n) \cap S = {}
    <2>1. CASE S \cap done = {}
      BY <1>1, <1>2, <2>1
    <2>2. CASE S \cap done # {}
      <3>1. PICK n \in S \cap done : Deps(n) \cap (S \cap done) = {}
        BY <2>2 DEF Sunk
      <3>. QED  BY <1>1, <3>1
    <2>. QED  BY <2>1, <2>2
  <1>. QED  BY <1>1, <1>2 DEF Sunk

\* When a walk ends it is through with every node.
LEMMA WalkIsThrough ==
    ASSUME NEW done, Walk(DOMAIN nodes, DepList, todo, stack, at, done), WalkEnds
    PROVE  done = DOMAIN nodes
  <1>1. \A n : ~Active(stack, n)
    BY DEF WalkEnds, Active
  <1>2. done \subseteq DOMAIN nodes
    BY DEF Walk, WalkTyped
  <1>. QED  BY <1>1, <1>2 DEF Walk, Reached, WalkEnds

\* The names on the stack as a set.
LEMMA OnStackIsActive == \A n : n \in OnStack <=> Active(stack, n)
  BY DEF OnStack, Active

LEMMA PushOnStack ==
    ASSUME NEW D, stack \in Seq(D), NEW n, stack' = Append(stack, n), n \in D
    PROVE  OnStack' = OnStack \cup {n}
  <1>1. /\ Len(stack) \in Nat /\ Len(stack') = Len(stack) + 1
        /\ stack'[Len(stack) + 1] = n
        /\ \A i \in 1..Len(stack) : stack'[i] = stack[i]
    OBVIOUS
  <1>2. /\ \A i \in 1..(Len(stack) + 1) : i \in 1..Len(stack) \/ i = Len(stack) + 1
        /\ \A i \in 1..Len(stack) : i \in 1..(Len(stack) + 1)
        /\ Len(stack) + 1 \in 1..(Len(stack) + 1)
    BY <1>1
  <1>. QED  BY <1>1, <1>2 DEF OnStack

\* What is left after the last name has returned.
LEMMA PopTop ==
    ASSUME PlanInv, Closed, NEW done,
           Walk(DOMAIN nodes, DepList, todo, stack, at, done),
           LoopEnds, Leave, nodes' = nodes, todo' = todo, at' = at
    PROVE  /\ Top \in DOMAIN nodes /\ Top \notin done /\ Deps(Top) \subseteq done
           /\ Walk(DOMAIN nodes, DepList, todo', stack', at', done \cup {Top})
           /\ OnStack' = OnStack \ {Top} /\ Top \in OnStack
  <1>1. stack # <<>> /\ Top = stack[Len(stack)] /\ stack' = SubSeq(stack, 1, Len(stack) - 1)
    BY DEF LoopEnds, Leave, Top
  <1>2. Top \in DOMAIN nodes
    <2>1. /\ Len(stack) \in Nat /\ Len(stack) >= 1
          /\ \A i \in 1..Len(stack) : stack[i] \in DOMAIN nodes
      BY <1>1, NodeTypes, ListsStayInside, StackTypes
    <2>. QED  BY <1>1, <2>1
  <1>3. at[Top] = Len(DepList[Top])
    BY <1>2, ListsAreDeps DEF LoopEnds
  <1>4. /\ Top \notin done
        /\ \A k \in 1..Len(DepList[Top]) : DepList[Top][k] \in done
        /\ Walk(DOMAIN nodes, DepList, todo, stack', at, done \cup {Top})
        /\ \A m : Active(stack, m) <=> Active(stack', m) \/ m = Top
        /\ ~Active(stack', Top)
    <2>1. DOMAIN nodes \subseteq Names /\ DepList \in [DOMAIN nodes -> Seq(DOMAIN nodes)]
      BY NodeTypes, ListsStayInside
    <2>. DEFINE t == Top  s1 == stack'
    <2>2. /\ stack # <<>> /\ t = stack[Len(stack)] /\ at[t] = Len(DepList[t])
          /\ s1 = SubSeq(stack, 1, Len(stack) - 1)
      BY <1>1, <1>3
    <2>. HIDE DEF t, s1
    <2>3. Popped(DOMAIN nodes, DepList, todo, stack, at, done, t, s1)
      BY <2>1, <2>2, WalkPop
    <2>. QED  BY <2>3 DEF t, s1, Popped
  <1>5. Deps(Top) \subseteq done
    BY <1>2, <1>4, ListsAreDeps
  <1>6. \A n : n \in OnStack' <=> Active(stack', n)
    BY DEF OnStack, Active
  <1>. QED  BY <1>2, <1>4, <1>5, <1>6, OnStackIsActive

\* detect_cycle's part of the invariant, and what it reports.
LEMMA CycleStep ==
    ASSUME PlanInv, CycleInv, CycleIsReal, [Next]_vars
    PROVE  CycleInv' /\ CycleIsReal'
  <1>1. /\ CycleIsReal <=> /\ stage \in {"mode", "bad_mode", "order", "run"} => Acyclic
                           /\ stage = "cyclic" => ClosedPath(cycle)
        /\ CycleIsReal' <=> /\ stage' \in {"mode", "bad_mode", "order", "run"} => Acyclic'
                            /\ stage' = "cyclic" => ClosedPath(cycle)'
    BY DEF CycleIsReal, ClosedPath
  <1>2. CASE FilterOnly
    BY <1>1, <1>2 DEF FilterOnly, CycleInv, walkVars
  <1>3. CASE ValidateNodes
    <2>1. CASE stage' = "invalid"
      BY <1>1, <2>1 DEF CycleInv
    <2>2. CASE stage' = "cycle" /\ Closed /\ StartWalk
      <3>1. /\ stage = "validate" /\ nodes' = nodes
            /\ gray' = {} /\ black' = {}
        BY <1>3 DEF ValidateNodes, CycleInv
      <3>2. Walk(DOMAIN nodes, DepList, DOMAIN nodes, <<>>, [n \in Names |-> 0], {})
        BY <2>2, NodeTypes, ListsStayInside, FreshWalk
      <3>3. Walk(DOMAIN nodes, DepList, todo, stack, at, black)'
        BY <2>2, <3>1, <3>2, SameGraph DEF StartWalk
      <3>4. OnStack' = {}
        BY <2>2 DEF StartWalk, OnStack
      <3>5. Sunk(black)'
        BY <3>1 DEF Sunk
      <3>. QED  BY <1>1, <2>2, <3>1, <3>3, <3>4, <3>5 DEF CycleInv
    <2>. QED  BY <1>3, <2>1, <2>2 DEF ValidateNodes, Closed
  <1>4. ASSUME NEW n \in Names, VisitCycle(n) PROVE CycleInv' /\ CycleIsReal'
    <2>1. /\ stage = "cycle" /\ nodes' = nodes /\ black' = black /\ Calls(n) /\ Advance(n)
          /\ Closed /\ Walk(DOMAIN nodes, DepList, todo, stack, at, black)
          /\ gray = OnStack /\ Sunk(black)
      BY <1>4 DEF VisitCycle, CycleInv, PlanInv
    <2>2. n \in DOMAIN nodes /\ Moves(DepList, todo, stack, at, n, todo', at')
      BY <2>1, CallMoves
    <2>3. Sunk(black)'
      BY <2>1, SameGraph DEF Sunk
    <2>4. CASE n \in gray /\ cycle' = Append(stack, n) /\ stage' = "cyclic"
      <3>1. ClosedPath(Append(stack, n))
        BY <2>1, <2>4, CallOnStack
      <3>2. ClosedPath(cycle)'
        BY <2>1, <2>4, <3>1, SameGraph DEF ClosedPath
      <3>3. stack \in Seq(DOMAIN nodes)
        BY <2>1 DEF Walk, WalkTyped
      <3>4. cycle' \in Seq(DOMAIN nodes')
        BY <2>1, <2>2, <2>4, <3>3
      <3>. QED  BY <1>1, <2>4, <3>2, <3>4 DEF CycleInv
    <2>5. CASE n \in black /\ UNCHANGED <<stack, gray, cycle, stage>>
      <3>1. Walk(DOMAIN nodes, DepList, todo', stack, at', black)
        BY <2>1, <2>2, <2>5, NodeTypes, ListsStayInside, WalkSkip
      <3>2. Walk(DOMAIN nodes, DepList, todo, stack, at, black)'
        BY <2>1, <2>5, <3>1, SameGraph
      <3>3. gray' = OnStack'
        BY <2>1, <2>5 DEF OnStack
      <3>. QED  BY <1>1, <2>1, <2>3, <2>5, <3>2, <3>3 DEF CycleInv
    <2>6. CASE /\ n \notin gray \cup black /\ Enter(n) /\ gray' = gray \cup {n}
               /\ UNCHANGED <<cycle, stage>>
      <3>1. ~Active(stack, n) /\ n \notin black
        BY <2>1, <2>6, OnStackIsActive
      <3>2. Walk(DOMAIN nodes, DepList, todo', Append(stack, n), at', black)
        BY <2>1, <2>2, <3>1, NodeTypes, ListsStayInside, WalkPush
      <3>3. Walk(DOMAIN nodes, DepList, todo, stack, at, black)'
        BY <2>1, <2>6, <3>2, SameGraph DEF Enter
      <3>4. stack \in Seq(DOMAIN nodes)
        BY <2>1 DEF Walk, WalkTyped
      <3>5. gray' = OnStack'
        BY <2>1, <2>2, <2>6, <3>4, PushOnStack DEF Enter
      <3>. QED  BY <1>1, <2>1, <2>3, <2>6, <3>3, <3>5 DEF CycleInv
    <2>. QED  BY <1>4, <2>4, <2>5, <2>6 DEF VisitCycle
  <1>5. CASE CycleReturns
    <2>1. /\ stage = "cycle" /\ stage' = "cycle" /\ nodes' = nodes /\ todo' = todo /\ at' = at
          /\ LoopEnds /\ Leave /\ gray' = gray \ {Top} /\ black' = black \cup {Top}
          /\ Closed /\ Walk(DOMAIN nodes, DepList, todo, stack, at, black)
          /\ gray = OnStack /\ Sunk(black)
      BY <1>5 DEF CycleReturns, CycleInv, PlanInv, planVars
    <2>2. /\ Top \notin black /\ Deps(Top) \subseteq black
          /\ Walk(DOMAIN nodes, DepList, todo', stack', at', black \cup {Top})
          /\ OnStack' = OnStack \ {Top}
      BY <2>1, PopTop
    <2>3. Sunk(black \cup {Top})
      BY <2>1, <2>2, SunkGrows
    <2>4. Sunk(black)'
      <3>. DEFINE b == black \cup {Top}
      <3>1. Sunk(b) /\ black' = b
        BY <2>1, <2>3
      <3>. HIDE DEF b
      <3>. QED  BY <2>1, <3>1, SameGraph DEF Sunk
    <2>5. Walk(DOMAIN nodes, DepList, todo, stack, at, black)'
      BY <2>1, <2>2, SameGraph
    <2>. QED  BY <1>1, <2>1, <2>2, <2>4, <2>5 DEF CycleInv
  <1>6. CASE NoCycle
    <2>1. /\ stage = "cycle" /\ stage' = "mode" /\ nodes' = nodes /\ WalkEnds
          /\ Walk(DOMAIN nodes, DepList, todo, stack, at, black) /\ Sunk(black)
      BY <1>6 DEF NoCycle, CycleInv
    <2>2. black = DOMAIN nodes
      BY <2>1, WalkIsThrough
    <2>3. Acyclic'
      BY <2>1, <2>2, SameGraph DEF Sunk, Acyclic
    <2>. QED  BY <1>1, <2>1, <2>3 DEF CycleInv
  <1>7. CASE ResolveMode \/ Ordered \/ TopoReturns \/ \E n \in Names : VisitTopo(n)
    <2>1. /\ stage \in {"mode", "order"} /\ stage' \in {"bad_mode", "order", "run"}
          /\ nodes' = nodes
      BY <1>7 DEF ResolveMode, Ordered, TopoReturns, VisitTopo, planVars
    <2>. QED  BY <1>1, <2>1, SameGraph DEF CycleInv
  <1>8. CASE Planned \/ UNCHANGED vars
    <2>1. /\ nodes' = nodes /\ stage' = stage /\ cycle' = cycle
          /\ todo' = todo /\ stack' = stack /\ at' = at /\ gray' = gray /\ black' = black
      BY <1>8 DEF Planned, vars, planVars, walkVars
    <2>2. ClosedPath(cycle)' <=> ClosedPath(cycle)
      BY <2>1, SameGraph DEF ClosedPath
    <2>3. OnStack' = OnStack
      BY <2>1 DEF OnStack
    <2>4. Sunk(black)' <=> Sunk(black)
      BY <2>1, SameGraph DEF Sunk
    <2>. QED  BY <1>1, <2>1, <2>2, <2>3, <2>4, SameGraph DEF CycleInv
  <1>. QED  BY <1>2, <1>3, <1>4, <1>5, <1>6, <1>7, <1>8 DEF Next

\* A name all of whose dependencies are in the order can come next.
LEMMA OrderGrows ==
    ASSUME DepsFirst, NEW t \in DOMAIN nodes, t \notin Range(order),
           Deps(t) \subseteq Range(order), order' = Append(order, t), nodes' = nodes
    PROVE  DepsFirst' /\ Range(order)' = Range(order) \cup {t}
  <1>. DEFINE l == Len(order)
  <1>1. order \in Seq(DOMAIN nodes) /\ l \in Nat /\ DOMAIN order = 1..l
    BY DEF DepsFirst
  <1>2. /\ order' \in Seq(DOMAIN nodes) /\ DOMAIN order' = 1..(l + 1)
        /\ order'[l + 1] = t /\ \A i \in 1..l : order'[i] = order[i]
    BY <1>1
  <1>3. /\ \A i \in 1..(l + 1) : i \in 1..l \/ i = l + 1
        /\ \A i \in 1..l : i \in 1..(l + 1)
        /\ l + 1 \in 1..(l + 1)
    BY <1>1
  <1>4. Range(order) = {order[i] : i \in 1..l}
    BY <1>1 DEF Range
  <1>. HIDE DEF l
  <1>5. Range(order)' = Range(order) \cup {t}
    BY <1>2, <1>3, <1>4 DEF Range
  <1>6. \A i, j \in 1..(l + 1) : order'[i] = order'[j] => i = j
    <2>1. /\ \A i, j \in 1..l : order[i] = order[j] => i = j
          /\ \A i \in 1..l : order[i] # t
      BY <1>1, <1>4 DEF DepsFirst
    <2>. QED  BY <1>2, <1>3, <2>1
  <1>7. ASSUME NEW i \in 1..(l + 1)
        PROVE  Deps(order'[i]) \subseteq {order'[j] : j \in 1..(i - 1)}
    <2>1. CASE i = l + 1
      <3>1. i - 1 = l
        BY <1>1, <2>1
      <3>2. {order'[j] : j \in 1..l} = Range(order)
        BY <1>2, <1>4
      <3>. QED  BY <1>2, <2>1, <3>1, <3>2
    <2>2. CASE i \in 1..l
      <3>1. Deps(order[i]) \subseteq {order[j] : j \in 1..(i - 1)}
        BY <1>1, <2>2 DEF DepsFirst
      <3>2. \A j \in 1..(i - 1) : order'[j] = order[j]
        BY <1>1, <1>2, <2>2
      <3>. QED  BY <1>2, <2>2, <3>1, <3>2
    <2>. QED  BY <1>3, <2>1, <2>2
  <1>8. DepsFirst'
    <2>1. \A n : Deps(n)' = Deps(n)
      BY SameGraph
    <2>. QED  BY <1>2, <1>6, <1>7, <2>1 DEF DepsFirst, Deps
  <1>. QED  BY <1>5, <1>8

\* topological_order's part, and what run receives.
LEMMA OrderStep ==
    ASSUME PlanInv, CycleIsReal, OrderInv, OrderIsTopological, [Next]_vars
    PROVE  OrderInv' /\ OrderIsTopological'
  <1>1. CASE FilterOnly \/ ValidateNodes \/ CycleReturns \/ NoCycle
             \/ \E n \in Names : VisitCycle(n)
    <2>1. /\ stage \in {"filter", "validate", "cycle"} /\ stage' \notin {"order", "run"}
          /\ order' = order /\ visited' = visited
      BY <1>1 DEF FilterOnly, ValidateNodes, CycleReturns, NoCycle, VisitCycle,
                  planVars, walkVars
    <2>. QED  BY <2>1 DEF OrderInv, OrderIsTopological
  <1>2. CASE ResolveMode
    <2>0. /\ stage = "mode" /\ nodes' = nodes /\ order' = <<>> /\ visited' = {}
          /\ stage' \in {"order", "bad_mode"} /\ (stage' = "order" => StartWalk)
      BY <1>2 DEF ResolveMode, OrderInv
    <2>1. CASE stage' = "bad_mode"
      BY <2>1 DEF OrderInv, OrderIsTopological
    <2>2. CASE stage' = "order" /\ StartWalk
      <3>1. Closed
        BY <2>0 DEF PlanInv
      <3>2. Walk(DOMAIN nodes, DepList, DOMAIN nodes, <<>>, [n \in Names |-> 0], {})
        BY <3>1, NodeTypes, ListsStayInside, FreshWalk
      <3>3. Range(order)' = {} /\ OnStack' = {}
        BY <2>0, <2>2 DEF StartWalk, OnStack, Range
      <3>4. Walk(DOMAIN nodes, DepList, todo, stack, at, Range(order))'
        BY <2>0, <2>2, <3>2, <3>3, SameGraph DEF StartWalk
      <3>5. DepsFirst'
        BY <2>0 DEF DepsFirst
      <3>. QED  BY <2>0, <2>2, <3>3, <3>4, <3>5 DEF OrderInv, OrderIsTopological
    <2>. QED  BY <2>0, <2>1, <2>2
  <1>3. ASSUME NEW n \in Names, VisitTopo(n) PROVE OrderInv' /\ OrderIsTopological'
    <2>1. /\ stage = "order" /\ stage' = "order" /\ nodes' = nodes /\ order' = order
          /\ Calls(n) /\ Advance(n) /\ visited' = visited \cup {n}
          /\ Closed /\ Walk(DOMAIN nodes, DepList, todo, stack, at, Range(order))
          /\ visited = Range(order) \cup OnStack /\ DepsFirst /\ Acyclic
      BY <1>3 DEF VisitTopo, OrderInv, PlanInv, CycleIsReal, planVars
    <2>2. n \in DOMAIN nodes /\ Moves(DepList, todo, stack, at, n, todo', at')
      BY <2>1, CallMoves
    <2>3. DepsFirst' /\ Range(order)' = Range(order)
      BY <2>1, SameGraph DEF DepsFirst, Range
    <2>4. n \notin OnStack
      <3>1. SUFFICES ASSUME n \in OnStack PROVE FALSE
        OBVIOUS
      <3>2. ClosedPath(Append(stack, n)) /\ Len(Append(stack, n)) \in Nat
        BY <2>1, <3>1, CallOnStack
      <3>. QED  BY <2>1, <3>2, ClosedPathRefutes
    <2>5. CASE n \in visited /\ stack' = stack
      <3>1. n \in Range(order)
        BY <2>1, <2>4, <2>5
      <3>2. Walk(DOMAIN nodes, DepList, todo', stack, at', Range(order))
        BY <2>1, <2>2, <3>1, NodeTypes, ListsStayInside, WalkSkip
      <3>3. Walk(DOMAIN nodes, DepList, todo, stack, at, Range(order))'
        BY <2>1, <2>3, <2>5, <3>2, SameGraph
      <3>4. OnStack' = OnStack
        BY <2>5 DEF OnStack
      <3>. QED  BY <2>1, <2>3, <2>5, <3>3, <3>4 DEF OrderInv, OrderIsTopological
    <2>6. CASE n \notin visited /\ Enter(n)
      <3>1. ~Active(stack, n) /\ n \notin Range(order)
        BY <2>1, <2>6, OnStackIsActive
      <3>2. Walk(DOMAIN nodes, DepList, todo', Append(stack, n), at', Range(order))
        BY <2>1, <2>2, <3>1, NodeTypes, ListsStayInside, WalkPush
      <3>3. Walk(DOMAIN nodes, DepList, todo, stack, at, Range(order))'
        BY <2>1, <2>3, <2>6, <3>2, SameGraph DEF Enter
      <3>4. stack \in Seq(DOMAIN nodes)
        BY <2>1 DEF Walk, WalkTyped
      <3>5. OnStack' = OnStack \cup {n}
        BY <2>2, <2>6, <3>4, PushOnStack DEF Enter
      <3>. QED  BY <2>1, <2>3, <3>3, <3>5 DEF OrderInv, OrderIsTopological
    <2>. QED  BY <1>3, <2>5, <2>6 DEF VisitTopo
  <1>4. CASE TopoReturns
    <2>1. /\ stage = "order" /\ stage' = "order" /\ nodes' = nodes /\ todo' = todo /\ at' = at
          /\ LoopEnds /\ Leave /\ order' = Append(order, Top) /\ visited' = visited
          /\ Closed /\ Walk(DOMAIN nodes, DepList, todo, stack, at, Range(order))
          /\ visited = Range(order) \cup OnStack /\ DepsFirst
      BY <1>4 DEF TopoReturns, OrderInv, PlanInv
    <2>2. /\ Top \in DOMAIN nodes /\ Top \notin Range(order) /\ Deps(Top) \subseteq Range(order)
          /\ Walk(DOMAIN nodes, DepList, todo', stack', at', Range(order) \cup {Top})
          /\ OnStack' = OnStack \ {Top} /\ Top \in OnStack
      BY <2>1, PopTop
    <2>3. DepsFirst' /\ Range(order)' = Range(order) \cup {Top}
      BY <2>1, <2>2, OrderGrows
    <2>4. Walk(DOMAIN nodes, DepList, todo, stack, at, Range(order))'
      BY <2>1, <2>2, <2>3, SameGraph
    <2>5. visited' = Range(order)' \cup OnStack'
      BY <2>1, <2>2, <2>3
    <2>. QED  BY <2>1, <2>3, <2>4, <2>5 DEF OrderInv, OrderIsTopological
  <1>5. CASE Ordered
    <2>1. /\ stage = "order" /\ stage' = "run" /\ nodes' = nodes /\ order' = order /\ WalkEnds
          /\ Walk(DOMAIN nodes, DepList, todo, stack, at, Range(order)) /\ DepsFirst
      BY <1>5 DEF Ordered, OrderInv
    <2>2. Range(order) = DOMAIN nodes
      BY <2>1, WalkIsThrough
    <2>3. DepsFirst' /\ Range(order)' = DOMAIN nodes'
      BY <2>1, <2>2, SameGraph DEF DepsFirst, Range
    <2>4. OrderIsTopological'
      BY <2>3 DEF DepsFirst, OrderIsTopological
    <2>. QED  BY <2>1, <2>4 DEF OrderInv
  <1>6. CASE Planned \/ UNCHANGED vars
    <2>1. /\ nodes' = nodes /\ stage' = stage /\ order' = order /\ visited' = visited
          /\ todo' = todo /\ stack' = stack /\ at' = at
      BY <1>6 DEF Planned, vars, planVars, walkVars
    <2>2. OnStack' = OnStack /\ Range(order)' = Range(order)
      BY <2>1 DEF OnStack, Range
    <2>3. DepsFirst' <=> DepsFirst
      BY <2>1, SameGraph DEF DepsFirst
    <2>4. OrderIsTopological'
      BY <2>1, <2>2, SameGraph DEF OrderIsTopological
    <2>. QED  BY <2>1, <2>2, <2>3, <2>4, SameGraph DEF OrderInv
  <1>. QED  BY <1>1, <1>2, <1>3, <1>4, <1>5, <1>6 DEF Next

LEMMA PlanInit ==
    ASSUME Init PROVE IInv
  <1>1. PlanInv
    BY DEF Init, PlanInv, Rejections
  <1>. QED  BY <1>1 DEF Init, IInv, CycleInv, CycleIsReal, OrderInv, OrderIsTopological

LEMMA PlanInvariant == Spec => []IInv
  <1>1. IInv /\ [Next]_vars => IInv'
    BY PlanStep, CycleStep, OrderStep DEF IInv
  <1>. QED  BY <1>1, PlanInit, PTL DEF Spec

-----------------------------------------------------------------------------
(* The theorems                                                            *)

\* For every spec, however large its graph: detect_cycle lets a graph through
\* only if it is acyclic, and the path it prints is a cycle of the spec.
THEOREM CyclesAreReal == Spec => []CycleIsReal
  <1>1. IInv => CycleIsReal
    BY DEF IInv
  <1>. QED  BY <1>1, PlanInvariant, PTL

\* topological_order lists every node once, each after its dependencies, so
\* ready[dep] in run always finds its entry.
THEOREM OrdersAreTopological == Spec => []OrderIsTopological
  <1>1. IInv => OrderIsTopological
    BY DEF IInv
  <1>. QED  BY <1>1, PlanInvariant, PTL

\* filter_only hands on the input restricted to a closed set of nodes.
THEOREM OnlyIsClosed == Spec => []OnlyKeepsClosedGraphs
  <1>1. IInv => OnlyKeepsClosedGraphs
    BY DEF IInv, PlanInv, Closed, OnlyKeepsClosedGraphs
  <1>. QED  BY <1>1, PlanInvariant, PTL

\* A plan that reaches run satisfies what run_service expects, and its mode
\* suits its nodes.
THEOREM PlansAreRunnable == Spec => []PlanIsRunnable
  <1>1. IInv => PlanIsRunnable
    <2>. SUFFICES ASSUME IInv, stage = "run" PROVE PlanIsRunnable
      BY DEF PlanIsRunnable
    <2>1. /\ Closed /\ mode \in OutputModes \ {"auto"}
          /\ mode # "plain" => Inheriting = {}
      BY DEF IInv, PlanInv
    <2>. QED  BY <2>1 DEF Closed, ValidNode, PlanIsRunnable
  <1>. QED  BY <1>1, PlanInvariant, PTL

\* The runner refuses only what breaks a rule.
THEOREM RefusalsAreJustified == Spec => []GoodSpecsRun
  <1>1. IInv => GoodSpecsRun
    <2>. SUFFICES ASSUME IInv, stage \in Rejections, call.output = "auto"
                  PROVE  GoodSpecsRun
      BY DEF GoodSpecsRun
    <2>1. CASE stage \in {"unknown_only", "dangling", "invalid"}
      BY <2>1 DEF IInv, PlanInv, Closed, GoodSpecsRun
    <2>2. CASE stage = "cyclic"
      <3>1. ClosedPath(cycle)
        BY <2>2 DEF IInv, CycleIsReal, ClosedPath
      <3>2. Len(cycle) \in Nat
        BY <2>2 DEF IInv, CycleInv
      <3>. QED  BY <3>1, <3>2, ClosedPathRefutes DEF GoodSpecsRun
    <2>3. CASE stage = "bad_mode"
      BY <2>3 DEF IInv, PlanInv
    <2>. QED  BY <2>1, <2>2, <2>3 DEF Rejections
  <1>. QED  BY <1>1, PlanInvariant, PTL
=============================================================================
