---------------------- MODULE BoundedConcurrencyProofs ----------------------
(***************************************************************************)
(* Theorems about the gate, for any number of callers and any limits.      *)
(***************************************************************************)
EXTENDS BoundedConcurrency, FiniteSetTheorems, TLAPS

\* What the counter, the queue and the callers' states say of each other.
\* None of the parts is inductive without the others: a slot is handed over
\* to the head of the queue, which must not hold one already.
GateInv ==
    /\ TypeOK
    /\ SlotsAccounted
    /\ NoSlotFreeWhileWaiting
    /\ QueueIsWaiters

\* A caller that takes or leaves a slot changes the number of holders by one.
LEMMA HoldersFinite == IsFiniteSet(Holders)
BY TasksAssumption, FS_Subset DEF Holders

\* One holder more is counted as one more.
LEMMA HoldersAdd ==
    ASSUME NEW t \in Tasks, t \notin Holders, Holders' = Holders \cup {t}
    PROVE  Cardinality(Holders') = Cardinality(Holders) + 1
BY HoldersFinite, FS_AddElement

\* One holder less is counted as one less.
LEMMA HoldersRemove ==
    ASSUME NEW t \in Tasks, t \in Holders, Holders' = Holders \ {t}
    PROVE  Cardinality(Holders') = Cardinality(Holders) - 1
BY HoldersFinite, FS_RemoveElement

\* The slot moves from one caller to another.
LEMMA HoldersMove ==
    ASSUME NEW t \in Tasks, NEW u \in Tasks, t \in Holders, u \notin Holders,
           Holders' = (Holders \ {t}) \cup {u}
    PROVE  Cardinality(Holders') = Cardinality(Holders)
<1> DEFINE rest == Holders \ {t}
<1>1. IsFiniteSet(rest) /\ Cardinality(rest) = Cardinality(Holders) - 1
  BY HoldersFinite, FS_RemoveElement
<1>2. u \notin rest
  OBVIOUS
<1>3. Cardinality(rest \cup {u}) = Cardinality(rest) + 1
  BY <1>1, <1>2, FS_AddElement
<1>4. Cardinality(Holders) \in Nat
  BY HoldersFinite, FS_CardinalityType
<1>5. QED
  BY <1>1, <1>3, <1>4

\* The gate is empty at first.
LEMMA GateInit == Init => GateInv
<1> SUFFICES ASSUME Init PROVE GateInv
  OBVIOUS
<1>1. TypeOK
  BY LimitsAssumption DEF Init, TypeOK, TaskState
<1>2. Holders = {}
  BY DEF Init, Holders
<1>3. SlotsAccounted
  BY <1>2, FS_EmptySet DEF Init, SlotsAccounted
<1>4. NoSlotFreeWhileWaiting /\ QueueIsWaiters
  BY DEF Init, NoSlotFreeWhileWaiting, QueueIsWaiters
<1>5. QED
  BY <1>1, <1>3, <1>4 DEF GateInv

\* GateInv is inductive.
LEMMA GateNext ==
    ASSUME GateInv, [Next]_vars
    PROVE  GateInv'
<1> USE LimitsAssumption
<1>1. /\ active \in 0 .. MaxActive /\ waiting \in Seq(Tasks)
      /\ task \in [Tasks -> TaskState]
      /\ active = Cardinality(Holders)
      /\ waiting # <<>> => active = MaxActive
      /\ Len(waiting) \in Nat
  BY DEF GateInv, TypeOK, SlotsAccounted, NoSlotFreeWhileWaiting
<1>2. ASSUME NEW t \in Tasks, task[t] = "idle", Refuse(t)
      PROVE  GateInv'
  <2>1. Holders' = Holders
    BY <1>1, <1>2 DEF Refuse, Holders, TaskState
  <2>2. TypeOK'
    BY <1>1, <1>2 DEF Refuse, TypeOK, TaskState
  <2>3. QueueIsWaiters'
    BY <1>1, <1>2 DEF Refuse, GateInv, QueueIsWaiters
  <2>4. QED
    BY <1>1, <1>2, <2>1, <2>2, <2>3
       DEF GateInv, Refuse, SlotsAccounted, NoSlotFreeWhileWaiting
<1>3. ASSUME NEW t \in Tasks, task[t] = "idle", Enqueue(t)
      PROVE  GateInv'
  <2>1. Holders' = Holders
    BY <1>1, <1>3 DEF Enqueue, Holders, TaskState
  <2>2. TypeOK'
    BY <1>1, <1>3 DEF Enqueue, TypeOK, TaskState
  <2>3. /\ Len(waiting') = Len(waiting) + 1
        /\ \A i \in 1 .. Len(waiting) : waiting'[i] = waiting[i]
        /\ waiting'[Len(waiting) + 1] = t
    BY <1>1, <1>3 DEF Enqueue
  <2>4. QueueIsWaiters'
    <3>1. \A i \in 1 .. Len(waiting) : waiting[i] # t
      BY <1>3 DEF GateInv, QueueIsWaiters
    <3>2. \A u \in Tasks : task'[u] = IF u = t THEN "waiting" ELSE task[u]
      BY <1>1, <1>3 DEF Enqueue
    <3>3. \A u \in Tasks : task'[u] = "waiting" <=>
                            \E i \in 1 .. Len(waiting') : waiting'[i] = u
      <4> SUFFICES ASSUME NEW u \in Tasks
                   PROVE  task'[u] = "waiting" <=>
                            \E i \in 1 .. Len(waiting') : waiting'[i] = u
        OBVIOUS
      <4>1. CASE u = t
        BY <1>1, <2>3, <3>2, <4>1
      <4>2. CASE u # t
        <5>1. task[u] = "waiting" <=> \E i \in 1 .. Len(waiting) : waiting[i] = u
          BY DEF GateInv, QueueIsWaiters
        <5>2. \A i \in 1 .. Len(waiting') :
                i \in 1 .. Len(waiting) \/ i = Len(waiting) + 1
          BY <1>1, <2>3
        <5>3. QED
          BY <1>1, <2>3, <3>2, <4>2, <5>1, <5>2
      <4>3. QED
        BY <4>1, <4>2
    <3>4. \A i, j \in 1 .. Len(waiting') : waiting'[i] = waiting'[j] => i = j
      BY <1>1, <2>3, <3>1 DEF GateInv, QueueIsWaiters
    <3>5. QED
      BY <3>3, <3>4 DEF QueueIsWaiters
  <2>5. active = MaxActive
    BY <1>1, <1>3 DEF Enqueue
  <2>6. QED
    BY <1>1, <1>3, <2>1, <2>2, <2>4, <2>5
       DEF GateInv, Enqueue, SlotsAccounted, NoSlotFreeWhileWaiting
<1>4. ASSUME NEW t \in Tasks, task[t] = "idle", Enter(t)
      PROVE  GateInv'
  <2>1. Holders' = Holders \cup {t} /\ t \notin Holders
    BY <1>1, <1>4 DEF Enter, Holders, TaskState
  <2>2. TypeOK'
    BY <1>1, <1>4 DEF Enter, TypeOK, TaskState
  <2>3. waiting = <<>> /\ waiting' = <<>>
    BY <1>1, <1>4 DEF Enter
  <2>4. QueueIsWaiters'
    BY <1>1, <1>4, <2>3 DEF Enter, GateInv, QueueIsWaiters
  <2>5. SlotsAccounted'
    BY <1>1, <1>4, <2>1, HoldersAdd DEF Enter, SlotsAccounted
  <2>6. QED
    BY <2>2, <2>3, <2>4, <2>5 DEF GateInv, NoSlotFreeWhileWaiting
<1>5. ASSUME NEW t \in Tasks, Resume(t)
      PROVE  GateInv'
  <2>1. Holders' = Holders
    BY <1>1, <1>5 DEF Resume, Holders, TaskState
  <2>2. TypeOK'
    BY <1>1, <1>5 DEF Resume, TypeOK, TaskState
  <2>3. QueueIsWaiters'
    BY <1>1, <1>5 DEF Resume, GateInv, QueueIsWaiters
  <2>4. QED
    BY <1>1, <1>5, <2>1, <2>2, <2>3
       DEF GateInv, Resume, SlotsAccounted, NoSlotFreeWhileWaiting
<1>6. ASSUME NEW t \in Tasks, task[t] = "running", HandOver(t)
      PROVE  GateInv'
  <2> DEFINE u == Head(waiting)
  <2>1. /\ u \in Tasks /\ u = waiting[1]
        /\ waiting' = Tail(waiting) /\ waiting' \in Seq(Tasks)
        /\ Len(waiting') = Len(waiting) - 1
        /\ Len(waiting) >= 1
        /\ \A i \in 1 .. Len(waiting') : waiting'[i] = waiting[i + 1]
    BY <1>1, <1>6 DEF HandOver
  <2>2. task[u] = "waiting" /\ t # u
    BY <1>1, <1>6, <2>1 DEF GateInv, QueueIsWaiters
  <2>3. \A v \in Tasks : task'[v] = IF v = u THEN "granted"
                                    ELSE IF v = t THEN "idle" ELSE task[v]
    BY <1>1, <1>6, <2>1, <2>2 DEF HandOver
  <2>4. TypeOK'
    BY <1>1, <1>6, <2>1 DEF HandOver, TypeOK, TaskState
  <2> HIDE DEF u
  <2>5. t \in Holders /\ u \notin Holders /\ Holders' = (Holders \ {t}) \cup {u}
    BY <1>6, <2>1, <2>2, <2>3 DEF Holders
  <2>6. Cardinality(Holders') = Cardinality(Holders)
    BY <2>1, <2>5, HoldersMove
  <2>7. QueueIsWaiters'
    <3>1. \A v \in Tasks : task'[v] = "waiting" <=>
                            \E i \in 1 .. Len(waiting') : waiting'[i] = v
      <4> SUFFICES ASSUME NEW v \in Tasks
                   PROVE  task'[v] = "waiting" <=>
                            \E i \in 1 .. Len(waiting') : waiting'[i] = v
        OBVIOUS
      <4>1. ASSUME task'[v] = "waiting"
            PROVE  \E i \in 1 .. Len(waiting') : waiting'[i] = v
        <5>1. task[v] = "waiting" /\ v # u
          BY <2>3, <4>1
        <5>2. PICK i \in 1 .. Len(waiting) : waiting[i] = v
          BY <5>1 DEF GateInv, QueueIsWaiters
        <5>3. i # 1
          BY <2>1, <5>1, <5>2
        <5>4. i - 1 \in 1 .. Len(waiting') /\ waiting'[i - 1] = v
          BY <1>1, <2>1, <5>2, <5>3
        <5>5. QED
          BY <5>4
      <4>2. ASSUME NEW i \in 1 .. Len(waiting'), waiting'[i] = v
            PROVE  task'[v] = "waiting"
        <5>1. i + 1 \in 1 .. Len(waiting) /\ waiting[i + 1] = v /\ 1 \in 1 .. Len(waiting)
          BY <1>1, <2>1, <4>2
        <5>2. task[v] = "waiting" /\ v # u
          BY <2>1, <5>1 DEF GateInv, QueueIsWaiters
        <5>3. QED
          BY <1>6, <2>3, <5>2
      <4>3. QED
        BY <4>1, <4>2
    <3>2. \A i, j \in 1 .. Len(waiting') : waiting'[i] = waiting'[j] => i = j
      BY <1>1, <2>1 DEF GateInv, QueueIsWaiters
    <3>3. QED
      BY <3>1, <3>2 DEF QueueIsWaiters
  <2>8. active' = active /\ active = MaxActive
    BY <1>1, <1>6 DEF HandOver
  <2>9. QED
    BY <1>1, <2>4, <2>6, <2>7, <2>8
       DEF GateInv, SlotsAccounted, NoSlotFreeWhileWaiting
<1>7. ASSUME NEW t \in Tasks, task[t] = "running", Release(t)
      PROVE  GateInv'
  <2>1. t \in Holders /\ Holders' = Holders \ {t}
    BY <1>1, <1>7 DEF Release, Holders, TaskState
  <2>2. Cardinality(Holders') = Cardinality(Holders) - 1
    BY <2>1, HoldersRemove
  <2>3. active >= 1
    BY <1>1, <2>1, <2>2, HoldersFinite, FS_EmptySet
  <2>4. TypeOK'
    BY <1>1, <1>7, <2>3 DEF Release, TypeOK, TaskState
  <2>5. QueueIsWaiters'
    BY <1>1, <1>7 DEF Release, GateInv, QueueIsWaiters
  <2>6. QED
    BY <1>1, <1>7, <2>2, <2>4, <2>5
       DEF GateInv, Release, SlotsAccounted, NoSlotFreeWhileWaiting
<1>8. ASSUME NEW t \in Tasks, Return(t)
      PROVE  GateInv'
  <2>1. Holders' = Holders
    BY <1>1, <1>8 DEF Return, Holders, TaskState
  <2>2. TypeOK'
    BY <1>1, <1>8 DEF Return, TypeOK, TaskState
  <2>3. QueueIsWaiters'
    BY <1>1, <1>8 DEF Return, GateInv, QueueIsWaiters
  <2>4. QED
    BY <1>1, <1>8, <2>1, <2>2, <2>3
       DEF GateInv, Return, SlotsAccounted, NoSlotFreeWhileWaiting
<1>9. CASE UNCHANGED vars
  BY <1>9 DEF vars, GateInv, TypeOK, SlotsAccounted, Holders, NoSlotFreeWhileWaiting,
              QueueIsWaiters
<1>10. QED
  BY <1>2, <1>3, <1>4, <1>5, <1>6, <1>7, <1>8, <1>9 DEF Next, Call, Finish

\* The counter stays within its limit and the queue holds callers only.
THEOREM GateType == Spec => []TypeOK
<1>1. GateInv => TypeOK
  BY DEF GateInv
<1>2. QED
  BY GateInit, GateNext, <1>1, PTL DEF Spec

\* No slot is ever leaked or given twice: the counter is the number of those
\* who hold a slot, hence never more than MaxActive run at once.
THEOREM GateCountsHolders == Spec => []SlotsAccounted
<1>1. GateInv => SlotsAccounted
  BY DEF GateInv
<1>2. QED
  BY GateInit, GateNext, <1>1, PTL DEF Spec

\* A free slot is never left to a newcomer while somebody waits.
THEOREM GateServesQueueFirst == Spec => []NoSlotFreeWhileWaiting
<1>1. GateInv => NoSlotFreeWhileWaiting
  BY DEF GateInv
<1>2. QED
  BY GateInit, GateNext, <1>1, PTL DEF Spec

\* Slots are taken in the order of arrival.
THEOREM GateKeepsArrivalOrder == Spec => ArrivalOrder
<1>1. ASSUME GateInv, [Next]_vars
      PROVE  [\A t \in Tasks : t \in Holders' \ Holders =>
                waiting = <<>> \/ t = Head(waiting)]_vars
  <2> SUFFICES ASSUME Next, NEW t \in Tasks, t \in Holders' \ Holders, waiting # <<>>
               PROVE  t = Head(waiting)
    BY <1>1
  <2>1. task \in [Tasks -> TaskState] /\ active = MaxActive
    BY <1>1 DEF GateInv, TypeOK, NoSlotFreeWhileWaiting
  <2>2. PICK u \in Tasks : Call(u) \/ Resume(u) \/ Finish(u) \/ Return(u)
    BY DEF Next
  <2>3. CASE Call(u)
    BY <2>1, <2>3, LimitsAssumption DEF Call, Refuse, Enqueue, Enter, Holders
  <2>4. CASE Resume(u) \/ Return(u)
    BY <2>1, <2>4 DEF Resume, Return, Holders
  <2>5. CASE Finish(u)
    BY <2>1, <2>5 DEF Finish, HandOver, Release, Holders
  <2>6. QED
    BY <2>2, <2>3, <2>4, <2>5
<1>2. QED
  BY GateInit, GateNext, <1>1, PTL DEF Spec, ArrivalOrder
=============================================================================
