----------------------- MODULE CriticalSectionProofs -----------------------
(***************************************************************************)
(* The critical section is a recursive lock, for any number of threads and *)
(* any spin count.  The argument follows the grant, the right to be inside: *)
(* it is with the owner, with a thread on its way in or out, with one that *)
(* is about to set the event, or in the event.  There is one grant or none, *)
(* none exactly if lock_count is -1, and lock_count counts the waiters and *)
(* what the grant's thread has added.                                      *)
(***************************************************************************)
EXTENDS CriticalSection, FiniteSetTheorems, TLAPS

HasGrant(t) == owner = t \/ pc[t] \in {"own", "unlock", "signal"}

OneGrant ==
  /\ \A t, u \in Threads : HasGrant(t) /\ HasGrant(u) => t = u
  /\ event => \A t \in Threads : ~HasGrant(t)
  /\ lockCount = -1 <=> ~event /\ \A t \in Threads : ~HasGrant(t)

Ownership ==
  /\ recursion = 0 <=> owner = NoThread
  /\ \A t \in Threads : depth[t] = IF owner = t THEN recursion ELSE 0
  /\ \A t \in Threads : pc[t] = "uncount" => owner = t
  /\ \A t \in Threads : pc[t] \in {"own", "unlock", "signal"} => owner = NoThread

\* Those who have counted themselves, but for recursion_count and the waiters.
Counted == {"own", "uncount", "unlock"}
In(f, L) == {u \in Threads : f[u] \in L}
Balance ==
  lockCount + 1 = Cardinality(In(pc, {"wait"})) + Cardinality(In(pc, Counted)) + recursion

IInv == TypeOK /\ OneGrant /\ Ownership /\ Balance

-----------------------------------------------------------------------------
\* The threads at some places are finitely many.
LEMMA InIsFinite ==
  ASSUME NEW f, NEW L
  PROVE  IsFiniteSet(In(f, L)) /\ Cardinality(In(f, L)) \in Nat
<1>1. IsFiniteSet(In(f, L))
  BY FS_Subset, CriticalSectionAssumption DEF In
<1> QED
  BY <1>1, FS_CardinalityType

\* A thread that moves from one place to another is counted out and in.
LEMMA Moves ==
  ASSUME NEW f \in [Threads -> Pc], NEW t \in Threads, NEW l \in Pc, NEW L
  PROVE  LET n == Cardinality(In(f, L))
             m == Cardinality(In([f EXCEPT ![t] = l], L)) IN
         /\ l \in L /\ f[t] \notin L => m = n + 1
         /\ l \notin L /\ f[t] \in L => m = n - 1
         /\ (l \in L <=> f[t] \in L) => m = n
<1> DEFINE g == [f EXCEPT ![t] = l]
<1>1. IsFiniteSet(In(f, L))
  BY InIsFinite
<1>2. ASSUME l \in L, f[t] \notin L
      PROVE  Cardinality(In(g, L)) = Cardinality(In(f, L)) + 1
  <2>1. In(g, L) = In(f, L) \cup {t} /\ t \notin In(f, L)
    BY <1>2 DEF In
  <2> QED
    BY <1>1, <2>1, FS_AddElement
<1>3. ASSUME l \notin L, f[t] \in L
      PROVE  Cardinality(In(g, L)) = Cardinality(In(f, L)) - 1
  <2>1. In(g, L) = In(f, L) \ {t} /\ t \in In(f, L)
    BY <1>3 DEF In
  <2> QED
    BY <1>1, <2>1, FS_RemoveElement
<1>4. ASSUME l \in L <=> f[t] \in L
      PROVE  In(g, L) = In(f, L)
  BY <1>4 DEF In
<1> QED
  BY <1>2, <1>3, <1>4

\* Somebody at a place counts.
LEMMA SomebodyCounts ==
  ASSUME NEW f, NEW L, NEW t \in Threads, f[t] \in L
  PROVE  Cardinality(In(f, L)) > 0
<1>1. In(f, L) # {}
  BY DEF In
<1> QED
  BY <1>1, InIsFinite, FS_EmptySet

-----------------------------------------------------------------------------
LEMMA InitIInv == Init => IInv
<1> SUFFICES ASSUME Init PROVE IInv
  OBVIOUS
<1> USE CriticalSectionAssumption DEF Init
<1>1. TypeOK
  <2>1. 0 \in 0 .. SpinCount /\ lockCount \in Int /\ recursion \in Nat
    OBVIOUS
  <2> QED
    BY <2>1 DEF TypeOK, Pc
<1>2. In(pc, {"wait"}) = {} /\ In(pc, Counted) = {}
  BY DEF In, Counted
<1>3. Balance
  BY <1>2, FS_EmptySet DEF Balance
<1> QED
  BY <1>1, <1>3 DEF IInv, OneGrant, Ownership, HasGrant

\* Each step keeps the types.
LEMMA StepType == IInv /\ [Next]_vars => TypeOK'
<1> SUFFICES ASSUME IInv, [Next]_vars PROVE TypeOK'
  OBVIOUS
<1>t. TypeOK
  BY DEF IInv
<1> USE CriticalSectionAssumption, <1>t DEF TypeOK, Goto, Returns, At
<1>0. ASSUME UNCHANGED vars PROVE TypeOK'
  BY <1>0 DEF vars
<1>1. ASSUME NEW t \in Threads, Call(t) PROVE TypeOK'
  <2>1. CASE CallEnter(t)
    BY <2>1 DEF CallEnter, Pc
  <2>2. CASE CallTryEnter(t)
    BY <2>2 DEF CallTryEnter, Pc
  <2>3. CASE CallLeave(t)
    <3>1. owner = t /\ recursion > 0
      BY <2>3 DEF CallLeave, IInv, Ownership
    <3> QED
      BY <2>3, <3>1 DEF CallLeave, Pc
  <2> QED
    BY <1>1, <2>1, <2>2, <2>3 DEF Call
<1>2. ASSUME NEW t \in Threads, Step(t) PROVE TypeOK'
  <2>1. CASE Enter(t)
    BY <2>1 DEF Enter, EnterAgain, Pc
  <2>2. CASE Spin(t)
    BY <2>2 DEF Spin, TakeFree, Pc
  <2>3. CASE EndSpin(t) \/ Own(t)
    BY <2>3 DEF EndSpin, Own, Pc
  <2>8. CASE Wait(t) \/ Signal(t)
    <3>1. event' \in BOOLEAN
      BY <2>8 DEF Wait, Signal
    <3> QED
      BY <2>8, <3>1 DEF Wait, Signal, Pc
  <2>6. CASE CountIn(t)
    <3>1. PICK l \in {"wait", "own"} : pc' = [pc EXCEPT ![t] = l]
      BY <2>6 DEF CountIn
    <3> QED
      BY <2>6, <3>1 DEF CountIn, Pc
  <2>4. CASE TryEnter(t) \/ TryEnterAgain(t)
    BY <2>4 DEF TryEnter, TakeFree, TryEnterAgain, EnterAgain, Pc
  <2>5. CASE Uncount(t)
    BY <2>5 DEF Uncount, Pc
  <2>7. CASE Unlock(t)
    <3>1. PICK l \in {"signal", "out"} : pc' = [pc EXCEPT ![t] = l]
      BY <2>7 DEF Unlock
    <3> QED
      BY <2>7, <3>1 DEF Unlock, Pc
  <2> QED
    BY <1>2, <2>1, <2>2, <2>3, <2>4, <2>5, <2>6, <2>7, <2>8 DEF Step
<1> QED
  BY <1>0, <1>1, <1>2 DEF Next

\* Each step keeps lock_count in balance: what it adds to the count it adds to
\* the waiters, to those on their way or to the recursion.
LEMMA StepBalance == IInv /\ [Next]_vars => Balance'
<1> SUFFICES ASSUME IInv, [Next]_vars PROVE Balance'
  OBVIOUS
<1> USE DEF Goto, Returns, At
<1>1. TypeOK /\ Balance
  BY DEF IInv
<1> DEFINE W == Cardinality(In(pc, {"wait"}))
           C == Cardinality(In(pc, Counted))
<1>2. W \in Nat /\ C \in Nat /\ W' \in Nat /\ C' \in Nat /\ lockCount \in Int /\ recursion \in Nat
  BY <1>1, InIsFinite DEF TypeOK
<1>3. lockCount + 1 = W + C + recursion
  BY <1>1 DEF Balance
<1>4. SUFFICES lockCount' + 1 = W' + C' + recursion'
  BY DEF Balance
<1>5. ASSUME UNCHANGED vars PROVE lockCount' + 1 = W' + C' + recursion'
  BY <1>3, <1>5 DEF vars
<1>6. ASSUME NEW t \in Threads, NEW l \in Pc, pc' = [pc EXCEPT ![t] = l]
      PROVE  /\ W' = IF l = "wait" THEN (IF pc[t] = "wait" THEN W ELSE W + 1)
                     ELSE (IF pc[t] = "wait" THEN W - 1 ELSE W)
             /\ C' = IF l \in Counted THEN (IF pc[t] \in Counted THEN C ELSE C + 1)
                     ELSE (IF pc[t] \in Counted THEN C - 1 ELSE C)
  <2>1. pc \in [Threads -> Pc]
    BY <1>1 DEF TypeOK
  <2>2. W' = Cardinality(In([pc EXCEPT ![t] = l], {"wait"}))
        /\ C' = Cardinality(In([pc EXCEPT ![t] = l], Counted))
    BY <1>6
  <2>3. W' = IF l = "wait" THEN (IF pc[t] = "wait" THEN W ELSE W + 1)
             ELSE (IF pc[t] = "wait" THEN W - 1 ELSE W)
    BY <2>1, <2>2, Moves
  <2>4. C' = IF l \in Counted THEN (IF pc[t] \in Counted THEN C ELSE C + 1)
             ELSE (IF pc[t] \in Counted THEN C - 1 ELSE C)
    <3> DEFINE n == Cardinality(In(pc, Counted))
               m == Cardinality(In([pc EXCEPT ![t] = l], Counted))
    <3>1. /\ l \in Counted /\ pc[t] \notin Counted => m = n + 1
          /\ l \notin Counted /\ pc[t] \in Counted => m = n - 1
          /\ (l \in Counted <=> pc[t] \in Counted) => m = n
      BY <2>1, Moves
    <3> QED
      BY <2>2, <3>1
  <2> QED
    BY <2>3, <2>4
<1> HIDE DEF W, C
<1>7. ASSUME NEW t \in Threads, Call(t) PROVE lockCount' + 1 = W' + C' + recursion'
  <2>1. CASE CallEnter(t)
    <3>1. W' = W /\ C' = C
      BY <1>6, <2>1 DEF CallEnter, Pc, Counted
    <3> QED
      BY <1>3, <2>1, <3>1 DEF CallEnter
  <2>2. CASE CallTryEnter(t)
    <3>1. W' = W /\ C' = C
      BY <1>6, <2>2 DEF CallTryEnter, Pc, Counted
    <3> QED
      BY <1>3, <2>2, <3>1 DEF CallTryEnter
  <2>3. CASE CallLeave(t)
    <3>1. W' = W /\ C' = C + 1
      BY <1>2, <1>6, <2>3 DEF CallLeave, Pc, Counted
    <3> QED
      BY <1>2, <1>3, <2>3, <3>1 DEF CallLeave
  <2> QED
    BY <1>7, <2>1, <2>2, <2>3 DEF Call
<1>8. ASSUME NEW t \in Threads, Step(t) PROVE lockCount' + 1 = W' + C' + recursion'
  <2>1. ASSUME EnterAgain(t), pc[t] \in {"enter", "tryAgain"}
        PROVE  lockCount' + 1 = W' + C' + recursion'
    <3>1. W' = W /\ C' = C
      BY <1>6, <2>1 DEF EnterAgain, Pc, Counted
    <3> QED
      BY <1>2, <1>3, <2>1, <3>1 DEF EnterAgain
  <2>2. ASSUME TakeFree(t), pc[t] \in {"spin", "try"}, recursion' = recursion
        PROVE  lockCount' + 1 = W' + C' + recursion'
    <3>1. W' = W /\ C' = C + 1
      BY <1>6, <2>2 DEF TakeFree, Pc, Counted
    <3> QED
      BY <1>2, <1>3, <2>2, <3>1 DEF TakeFree
  <2>3. CASE Enter(t)
    <3>1. CASE owner # t /\ pc' = [pc EXCEPT ![t] = "spin"]
      <4>1. W' = W /\ C' = C
        BY <1>6, <2>3, <3>1 DEF Enter, Pc, Counted
      <4>2. lockCount' = lockCount /\ recursion' = recursion
        BY <2>3, <3>1 DEF Enter, EnterAgain
      <4> QED
        BY <1>3, <4>1, <4>2
    <3> QED
      BY <2>1, <2>3, <3>1 DEF Enter
  <2>4. CASE Spin(t)
    <3>1. CASE lockCount # -1
      BY <1>2, <1>3, <2>4, <3>1 DEF Spin, TakeFree, W, C
    <3> QED
      BY <2>2, <2>4, <3>1 DEF Spin
  <2>5. CASE EndSpin(t)
    <3>1. W' = W /\ C' = C
      BY <1>6, <2>5 DEF EndSpin, Pc, Counted
    <3> QED
      BY <1>3, <2>5, <3>1 DEF EndSpin
  <2>6. CASE CountIn(t)
    <3>1. lockCount' = lockCount + 1 /\ recursion' = recursion /\ pc[t] = "count"
      BY <2>6 DEF CountIn
    <3>2. CASE lockCount' # 0
      <4>1. pc' = [pc EXCEPT ![t] = "wait"]
        BY <2>6, <3>2 DEF CountIn
      <4>2. W' = W + 1 /\ C' = C
        BY <1>2, <1>6, <3>1, <4>1 DEF Pc, Counted
      <4> QED
        BY <1>2, <1>3, <3>1, <4>2
    <3>3. CASE lockCount' = 0
      <4>1. pc' = [pc EXCEPT ![t] = "own"]
        BY <2>6, <3>3 DEF CountIn
      <4>2. W' = W /\ C' = C + 1
        BY <1>2, <1>6, <3>1, <4>1 DEF Pc, Counted
      <4> QED
        BY <1>2, <1>3, <3>1, <4>2
    <3> QED
      BY <3>2, <3>3
  <2>7. CASE Wait(t)
    <3>1. W' = W - 1 /\ C' = C + 1
      BY <1>2, <1>6, <2>7 DEF Wait, Pc, Counted
    <3> QED
      BY <1>2, <1>3, <2>7, <3>1 DEF Wait
  <2>8. CASE Own(t)
    <3>1. W' = W /\ C' = C - 1
      BY <1>2, <1>6, <2>8 DEF Own, Pc, Counted
    <3>2. recursion = 0
      BY <2>8 DEF Own, IInv, Ownership
    <3> QED
      BY <1>2, <1>3, <2>8, <3>1, <3>2 DEF Own
  <2>9. CASE TryEnter(t)
    <3>1. CASE lockCount # -1
      <4>1. W' = W /\ C' = C
        BY <1>6, <2>9, <3>1 DEF TryEnter, TakeFree, Pc, Counted
      <4> QED
        BY <1>3, <2>9, <3>1, <4>1 DEF TryEnter, TakeFree
    <3> QED
      BY <2>2, <2>9, <3>1 DEF TryEnter
  <2>10. CASE TryEnterAgain(t)
    <3>1. CASE owner # t
      <4>1. W' = W /\ C' = C
        BY <1>6, <2>10, <3>1 DEF TryEnterAgain, EnterAgain, Pc, Counted
      <4> QED
        BY <1>3, <2>10, <3>1, <4>1 DEF TryEnterAgain, EnterAgain
    <3> QED
      BY <2>1, <2>10, <3>1 DEF TryEnterAgain
  <2>11. CASE Uncount(t)
    <3>1. W' = W /\ C' = C - 1
      BY <1>2, <1>6, <2>11 DEF Uncount, Pc, Counted
    <3> QED
      BY <1>2, <1>3, <2>11, <3>1 DEF Uncount
  <2>12. CASE Unlock(t)
    <3>1. W' = W /\ C' = C - 1
      <4>1. CASE lockCount' # -1
        BY <1>2, <1>6, <2>12, <4>1 DEF Unlock, Pc, Counted
      <4>2. CASE lockCount' = -1
        BY <1>2, <1>6, <2>12, <4>2 DEF Unlock, Pc, Counted
      <4> QED
        BY <4>1, <4>2
    <3> QED
      BY <1>2, <1>3, <2>12, <3>1 DEF Unlock
  <2>13. CASE Signal(t)
    <3>1. W' = W /\ C' = C
      BY <1>6, <2>13 DEF Signal, Pc, Counted
    <3> QED
      BY <1>3, <2>13, <3>1 DEF Signal
  <2> QED
    BY <1>8, <2>3, <2>4, <2>5, <2>6, <2>7, <2>8, <2>9, <2>10, <2>11, <2>12, <2>13 DEF Step
<1> QED
  BY <1>5, <1>7, <1>8 DEF Next
-----------------------------------------------------------------------------
\* What Balance says of lock_count: it is -1 only if nobody is counted.
LEMMA CountBounds ==
  ASSUME TypeOK, Balance
  PROVE  /\ lockCount >= -1
         /\ (lockCount = -1) => /\ recursion = 0
                               /\ \A t \in Threads : pc[t] # "wait" /\ pc[t] \notin Counted
         /\ recursion > 0 => lockCount >= 0
<1> DEFINE W == Cardinality(In(pc, {"wait"}))
           C == Cardinality(In(pc, Counted))
<1>1. W \in Nat /\ C \in Nat /\ lockCount \in Int /\ recursion \in Nat
  BY InIsFinite DEF TypeOK
<1>2. lockCount + 1 = W + C + recursion
  BY DEF Balance
<1>3. \A t \in Threads : (pc[t] = "wait" => W > 0) /\ (pc[t] \in Counted => C > 0)
  BY SomebodyCounts
<1> HIDE DEF W, C
<1> QED
  BY <1>1, <1>2, <1>3

\* Each step keeps owner, recursion and depth together.
LEMMA StepOwnership == IInv /\ [Next]_vars => Ownership'
<1> SUFFICES ASSUME IInv, [Next]_vars PROVE Ownership'
  OBVIOUS
<1>t. TypeOK /\ OneGrant /\ Ownership
  BY DEF IInv
<1> USE CriticalSectionAssumption, <1>t DEF TypeOK, Ownership, Goto, Returns, At
<1>0. ASSUME UNCHANGED vars PROVE Ownership'
  BY <1>0 DEF vars
<1>1. ASSUME NEW t \in Threads, NEW l \in Pc \ {"uncount", "own", "unlock", "signal"},
             pc' = [pc EXCEPT ![t] = l], UNCHANGED <<owner, recursion, depth>>
      PROVE  Ownership'
  BY <1>1
<1>2. ASSUME NEW t \in Threads, EnterAgain(t) PROVE Ownership'
  BY <1>2 DEF EnterAgain
<1>3. ASSUME NEW t \in Threads, pc' = [pc EXCEPT ![t] = "own"], owner = NoThread,
             UNCHANGED <<owner, recursion, depth>>
      PROVE  Ownership'
  BY <1>3
<1>4. lockCount = -1 => owner = NoThread
  BY DEF OneGrant, HasGrant
<1>5. ASSUME NEW t \in Threads, Call(t) PROVE Ownership'
  <2>1. CASE CallEnter(t) \/ CallTryEnter(t)
    BY <1>1, <2>1 DEF CallEnter, CallTryEnter, Pc
  <2>2. CASE CallLeave(t)
    <3>1. owner = t /\ recursion > 0 /\ depth[t] = recursion
      BY <2>2 DEF CallLeave
    <3>2. \A u \in Threads : pc[u] \notin {"own", "unlock", "signal", "uncount"}
      BY <2>2, <3>1 DEF CallLeave
    <3>3. CASE recursion' # 0
      BY <2>2, <3>1, <3>2, <3>3 DEF CallLeave
    <3>4. CASE recursion' = 0
      BY <2>2, <3>1, <3>2, <3>4 DEF CallLeave
    <3> QED
      BY <3>3, <3>4
  <2> QED
    BY <1>5, <2>1, <2>2 DEF Call
<1>6. ASSUME NEW t \in Threads, Step(t) PROVE Ownership'
  <2>1. CASE Enter(t)
    BY <1>1, <1>2, <2>1 DEF Enter, Pc
  <2>2. CASE Spin(t)
    <3>1. CASE lockCount = -1
      BY <1>3, <1>4, <2>2, <3>1 DEF Spin, TakeFree
    <3> QED
      BY <2>2, <3>1 DEF Spin, TakeFree
  <2>3. CASE EndSpin(t)
    BY <1>1, <2>3 DEF EndSpin, Pc
  <2>4. CASE CountIn(t)
    <3>1. CASE lockCount' # 0
      BY <1>1, <2>4, <3>1 DEF CountIn, Pc
    <3>2. CASE lockCount' = 0
      <4>1. owner = NoThread
        BY <1>4, <2>4, <3>2 DEF CountIn
      <4> QED
        BY <1>3, <2>4, <3>2, <4>1 DEF CountIn
    <3> QED
      BY <3>1, <3>2
  <2>5. CASE Wait(t)
    <3>1. owner = NoThread
      BY <2>5 DEF Wait, OneGrant, HasGrant
    <3> QED
      BY <1>3, <2>5, <3>1 DEF Wait
  <2>6. CASE Own(t)
    <3>1. owner = NoThread
      BY <2>6 DEF Own
    <3>2. \A u \in Threads \ {t} : pc[u] \notin {"own", "unlock", "signal", "uncount"}
      BY <2>6, <3>1 DEF Own, OneGrant, HasGrant
    <3> QED
      BY <2>6, <3>1, <3>2 DEF Own
  <2>7. CASE TryEnter(t)
    <3>1. CASE lockCount = -1
      BY <1>3, <1>4, <2>7, <3>1 DEF TryEnter, TakeFree
    <3>2. CASE lockCount # -1
      BY <1>1, <2>7, <3>2 DEF TryEnter, TakeFree, Pc
    <3> QED
      BY <3>1, <3>2
  <2>8. CASE TryEnterAgain(t)
    BY <1>1, <1>2, <2>8 DEF TryEnterAgain, Pc
  <2>9. CASE Uncount(t)
    BY <1>1, <2>9 DEF Uncount, Pc
  <2>10. CASE Unlock(t)
    BY <2>10 DEF Unlock
  <2>11. CASE Signal(t)
    BY <1>1, <2>11 DEF Signal, Pc
  <2> QED
    BY <1>6, <2>1, <2>2, <2>3, <2>4, <2>5, <2>6, <2>7, <2>8, <2>9, <2>10, <2>11 DEF Step
<1> QED
  BY <1>0, <1>5, <1>6 DEF Next

\* Each step keeps the grant in one place: who comes in finds none or is handed
\* the one there is, and the last to leave passes it on or gives it up.
LEMMA StepOneGrant == IInv /\ [Next]_vars => OneGrant'
<1> SUFFICES ASSUME IInv, [Next]_vars PROVE OneGrant'
  OBVIOUS
<1>t. TypeOK /\ OneGrant /\ Ownership /\ Balance /\ Balance' /\ TypeOK'
  BY StepType, StepBalance DEF IInv
<1>c. /\ lockCount >= -1 /\ lockCount' >= -1
      /\ recursion' > 0 => lockCount' >= 0
      /\ \A u \in Threads : pc[u] = "unlock" => lockCount >= 0
  <2>1. lockCount >= -1 /\ \A u \in Threads : pc[u] = "unlock" => lockCount # -1
    BY <1>t, CountBounds DEF Counted
  <2>2. lockCount' >= -1 /\ (recursion' > 0 => lockCount' >= 0)
    <3>1. ASSUME TypeOK', Balance'
          PROVE  lockCount' >= -1 /\ (recursion' > 0 => lockCount' >= 0)
      <4>1. /\ Cardinality(In(pc', {"wait"})) \in Nat
            /\ Cardinality(In(pc', Counted)) \in Nat
        BY InIsFinite
      <4> QED
        BY <3>1, <4>1 DEF TypeOK, Balance
    <3> QED
      BY <1>t, <3>1
  <2> QED
    BY <1>t, <2>1, <2>2 DEF TypeOK
<1> USE CriticalSectionAssumption, <1>t DEF TypeOK, Goto, Returns, At
<1>0. ASSUME UNCHANGED vars PROVE OneGrant'
  BY <1>0 DEF vars, OneGrant, HasGrant
\* A step of a thread without the grant, or of its owner, that moves no grant.
<1>1. ASSUME NEW t \in Threads, NEW l \in Pc \ {"own", "unlock", "signal"},
             pc' = [pc EXCEPT ![t] = l], pc[t] \notin {"own", "unlock", "signal"},
             UNCHANGED <<owner, event>>, lockCount' = -1 <=> lockCount = -1
      PROVE  OneGrant'
  <2>1. \A u \in Threads : HasGrant(u)' <=> HasGrant(u)
    BY <1>1 DEF HasGrant
  <2> QED
    BY <1>1, <2>1 DEF OneGrant
\* A thread that takes the count from -1 is given the grant.
<1>2. ASSUME NEW t \in Threads, pc' = [pc EXCEPT ![t] = "own"], UNCHANGED <<owner, event>>,
             lockCount = -1, lockCount' = 0
      PROVE  OneGrant'
  <2>1. ~event /\ \A u \in Threads : ~HasGrant(u)
    BY <1>2 DEF OneGrant
  <2>2. \A u \in Threads : HasGrant(u)' <=> u = t
    BY <1>2, <2>1 DEF HasGrant
  <2> QED
    BY <1>2, <2>1, <2>2 DEF OneGrant
\* The thread with the grant keeps it.
<1>3. ASSUME NEW t \in Threads, HasGrant(t), \A u \in Threads : HasGrant(u)' <=> u = t,
             UNCHANGED event, lockCount' # -1
      PROVE  OneGrant'
  <2>1. ~event
    BY <1>3 DEF OneGrant
  <2> QED
    BY <1>3, <2>1 DEF OneGrant
<1>4. ASSUME NEW t \in Threads, owner = t
      PROVE  /\ lockCount >= 0 /\ recursion > 0
             /\ \A u \in Threads : HasGrant(u) <=> u = t
  <2>1. lockCount # -1
    BY <1>4 DEF OneGrant, HasGrant
  <2> QED
    BY <1>4, <1>c, <2>1 DEF OneGrant, HasGrant, Ownership
<1>5. ASSUME NEW t \in Threads, EnterAgain(t), pc[t] \in {"enter", "tryAgain"} PROVE OneGrant'
  <2>1. lockCount' = -1 <=> lockCount = -1
    BY <1>4, <1>5 DEF EnterAgain
  <2> QED
    BY <1>1, <1>5, <2>1 DEF EnterAgain, Pc
<1>6. ASSUME NEW t \in Threads, Call(t) PROVE OneGrant'
  <2>1. CASE CallEnter(t) \/ CallTryEnter(t)
    BY <1>1, <2>1 DEF CallEnter, CallTryEnter, Pc
  <2>2. CASE CallLeave(t)
    <3>1. owner = t
      BY <2>2 DEF CallLeave, Ownership
    <3>2. \A u \in Threads : HasGrant(u) <=> u = t
      BY <1>4, <3>1
    <3>3. lockCount' # -1 /\ event' = event
      BY <1>4, <2>2, <3>1 DEF CallLeave
    <3>4. CASE recursion' # 0
      <4>1. pc' = [pc EXCEPT ![t] = "uncount"] /\ owner' = owner
        BY <2>2, <3>4 DEF CallLeave
      <4> QED
        BY <1>1, <2>2, <3>3, <4>1 DEF CallLeave, Pc
    <3>5. CASE recursion' = 0
      <4>1. pc' = [pc EXCEPT ![t] = "unlock"] /\ owner' = NoThread
        BY <2>2, <3>5 DEF CallLeave
      <4>2. \A u \in Threads : HasGrant(u)' <=> u = t
        BY <3>1, <3>2, <4>1 DEF HasGrant
      <4> QED
        BY <1>3, <3>2, <3>3, <4>2
    <3> QED
      BY <3>4, <3>5
  <2> QED
    BY <1>6, <2>1, <2>2 DEF Call
<1>7. ASSUME NEW t \in Threads, Step(t) PROVE OneGrant'
  <2>1. CASE Enter(t)
    BY <1>1, <1>5, <2>1 DEF Enter, Pc
  <2>2. CASE Spin(t)
    <3>1. CASE lockCount = -1
      BY <1>2, <2>2, <3>1 DEF Spin, TakeFree
    <3>2. CASE lockCount # -1
      BY <1>0, <2>2, <3>2 DEF Spin, TakeFree, OneGrant, HasGrant
    <3> QED
      BY <3>1, <3>2
  <2>3. CASE EndSpin(t)
    BY <1>1, <2>3 DEF EndSpin, Pc
  <2>4. CASE CountIn(t)
    <3>1. CASE lockCount = -1
      <4>1. lockCount' = 0
        BY <2>4, <3>1 DEF CountIn
      <4>2. pc' = [pc EXCEPT ![t] = "own"]
        BY <2>4, <4>1 DEF CountIn
      <4> QED
        BY <1>2, <2>4, <3>1, <4>1, <4>2 DEF CountIn
    <3>2. CASE lockCount # -1
      <4>1. lockCount' # 0 /\ lockCount' # -1
        BY <1>c, <2>4, <3>2 DEF CountIn
      <4>2. pc' = [pc EXCEPT ![t] = "wait"]
        BY <2>4, <4>1 DEF CountIn
      <4> QED
        BY <1>1, <2>4, <3>2, <4>1, <4>2 DEF CountIn, Pc
    <3> QED
      BY <3>1, <3>2
  <2>5. CASE Wait(t)
    <3>1. lockCount # -1 /\ \A u \in Threads : ~HasGrant(u)
      BY <2>5 DEF Wait, OneGrant
    <3>2. \A u \in Threads : HasGrant(u)' <=> u = t
      BY <2>5, <3>1 DEF Wait, HasGrant
    <3> QED
      BY <2>5, <3>1, <3>2 DEF Wait, OneGrant
  <2>6. CASE Own(t)
    <3>1. HasGrant(t) /\ \A u \in Threads : HasGrant(u) <=> u = t
      BY <2>6 DEF Own, HasGrant, OneGrant
    <3>2. \A u \in Threads : HasGrant(u)' <=> u = t
      BY <2>6, <3>1 DEF Own, HasGrant
    <3>3. lockCount # -1
      BY <3>1 DEF OneGrant
    <3> QED
      BY <1>3, <2>6, <3>1, <3>2, <3>3 DEF Own
  <2>7. CASE TryEnter(t)
    <3>1. CASE lockCount = -1
      BY <1>2, <2>7, <3>1 DEF TryEnter, TakeFree
    <3>2. CASE lockCount # -1
      BY <1>1, <2>7, <3>2 DEF TryEnter, TakeFree, Pc
    <3> QED
      BY <3>1, <3>2
  <2>8. CASE TryEnterAgain(t)
    BY <1>1, <1>5, <2>8 DEF TryEnterAgain, Pc
  <2>9. CASE Uncount(t)
    <3>1. owner = t
      BY <2>9 DEF Uncount, Ownership
    <3>2. lockCount # -1 /\ lockCount' # -1
      BY <1>4, <1>c, <2>9, <3>1 DEF Uncount
    <3> QED
      BY <1>1, <2>9, <3>2 DEF Uncount, Pc
  <2>10. CASE Unlock(t)
    <3>1. HasGrant(t) /\ ~event /\ \A u \in Threads : HasGrant(u) <=> u = t
      BY <2>10 DEF Unlock, HasGrant, OneGrant
    <3>2. owner = NoThread /\ owner' = NoThread /\ event' = event
      BY <2>10 DEF Unlock, Ownership
    <3>3. CASE lockCount' # -1
      <4>1. pc' = [pc EXCEPT ![t] = "signal"]
        BY <2>10, <3>3 DEF Unlock
      <4>2. \A u \in Threads : HasGrant(u)' <=> u = t
        BY <3>1, <3>2, <4>1 DEF HasGrant
      <4> QED
        BY <1>3, <3>1, <3>2, <3>3, <4>2
    <3>4. CASE lockCount' = -1
      <4>1. pc' = [pc EXCEPT ![t] = "out"]
        BY <2>10, <3>4 DEF Unlock
      <4>2. \A u \in Threads : ~HasGrant(u)'
        BY <3>1, <3>2, <4>1 DEF HasGrant
      <4> QED
        BY <3>1, <3>2, <3>4, <4>2 DEF OneGrant
    <3> QED
      BY <3>3, <3>4
  <2>11. CASE Signal(t)
    <3>1. lockCount # -1 /\ \A u \in Threads : HasGrant(u) <=> u = t
      BY <2>11 DEF Signal, HasGrant, OneGrant
    <3>2. owner = NoThread
      BY <2>11 DEF Signal, Ownership
    <3>3. \A u \in Threads : ~HasGrant(u)'
      BY <2>11, <3>1, <3>2 DEF Signal, HasGrant
    <3> QED
      BY <2>11, <3>1, <3>3 DEF Signal, OneGrant
  <2> QED
    BY <1>7, <2>1, <2>2, <2>3, <2>4, <2>5, <2>6, <2>7, <2>8, <2>9, <2>10, <2>11 DEF Step
<1> QED
  BY <1>0, <1>6, <1>7 DEF Next

LEMMA InductiveInvariant == Spec => []IInv
<1>1. IInv /\ [Next]_vars => IInv'
  BY StepType, StepBalance, StepOwnership, StepOneGrant DEF IInv
<1> QED
  BY InitIInv, <1>1, PTL DEF Spec

-----------------------------------------------------------------------------
(* Results.                                                                 *)

\* Every variable keeps its type, recursion_count never falls below zero.
THEOREM TypeCorrect == Spec => []TypeOK
<1>1. IInv => TypeOK
  BY DEF IInv
<1> QED
  BY <1>1, InductiveInvariant, PTL

\* Whoever is about to store itself as the owner finds no owner there, waiter
\* or not: the assertion at xboxkrnl_rtl.cpp:405.
NoOwnerBefore == \A t \in Threads : pc[t] = "own" => owner = NoThread

THEOREM AssertionHolds == Spec => []NoOwnerBefore
<1>1. IInv => NoOwnerBefore
  BY DEF IInv, Ownership, NoOwnerBefore
<1> QED
  BY <1>1, InductiveInvariant, PTL

\* The critical section is a recursive lock.
THEOREM ImplementsRecursiveLock == Spec => SectionImplemented
<1>1. Init => Section!Init
  BY DEF Init, Section!Init
<1>2. IInv /\ [Next]_vars => [Section!Next]_depth
  <2> SUFFICES ASSUME IInv, [Next]_vars PROVE Section!Next \/ UNCHANGED depth
    OBVIOUS
  <2> USE CriticalSectionAssumption
  <2>t. TypeOK /\ OneGrant /\ Ownership
    BY DEF IInv
  <2>1. ASSUME NEW t \in Threads, HasGrant(t), depth' = [depth EXCEPT ![t] = @ + 1]
        PROVE  Section!Enter(t)
    <3>1. \A u \in Threads \ {t} : owner # u
      BY <2>1, <2>t DEF OneGrant, HasGrant
    <3>2. \A u \in Threads \ {t} : depth[u] = 0
      BY <2>t, <3>1 DEF Ownership
    <3> QED
      BY <2>1, <3>2 DEF Section!Enter
  <2>2. ASSUME NEW t \in Threads, EnterAgain(t) PROVE Section!Enter(t)
    BY <2>1, <2>2 DEF EnterAgain, HasGrant
  <2>3. ASSUME NEW t \in Threads, Own(t) PROVE Section!Enter(t)
    BY <2>1, <2>3 DEF Own, HasGrant, At
  <2>4. ASSUME NEW t \in Threads, CallLeave(t) PROVE Section!Leave(t)
    BY <2>4 DEF CallLeave, Section!Leave
  <2>5. ASSUME NEW t \in Threads, Call(t) PROVE Section!Next \/ UNCHANGED depth
    BY <2>4, <2>5 DEF Call, CallEnter, CallTryEnter, Section!Next
  <2>6. ASSUME NEW t \in Threads, Step(t) PROVE Section!Next \/ UNCHANGED depth
    <3>1. CASE Enter(t) \/ TryEnterAgain(t)
      BY <2>2, <3>1 DEF Enter, TryEnterAgain, Section!Next
    <3>2. CASE Own(t)
      BY <2>3, <3>2 DEF Section!Next
    <3> QED
      BY <2>6, <3>1, <3>2
      DEF Step, Spin, EndSpin, CountIn, Wait, TryEnter, Uncount, Unlock, Signal
  <2> QED
    BY <2>5, <2>6 DEF Next, vars
<1> QED
  BY <1>1, <1>2, InductiveInvariant, PTL DEF Spec, SectionImplemented, Section!Spec
=============================================================================
