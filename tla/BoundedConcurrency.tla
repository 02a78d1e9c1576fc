------------------------- MODULE BoundedConcurrency -------------------------
(***************************************************************************)
(* lib/concurrency.ts: the gate in front of Argon2id.  At most MaxActive   *)
(* tasks work at once, at most MaxWaiting queue behind them in arrival     *)
(* order, and a call beyond that is refused at once.                       *)
(*                                                                         *)
(* run() has two awaits: for a slot, and for the work.  Between them it is *)
(* synchronous, so each stretch is one action.  A waiter that was handed a *)
(* slot is granted until its continuation runs, a microtask later; other   *)
(* calls may come in between.  Whether the work resolves or throws, the    *)
(* same finally block ends it, so one action stands for both.              *)
(*                                                                         *)
(* A name with an underscore is a mutated form of the definition after it: *)
(* a bug the code could plausibly have.  Nothing uses it.                  *)
(***************************************************************************)
EXTENDS Integers, Sequences, FiniteSets

CONSTANTS
    Tasks,      \* callers; each calls again and again
    MaxActive,
    MaxWaiting

ASSUME TasksAssumption == IsFiniteSet(Tasks)
ASSUME LimitsAssumption == MaxActive \in Nat \ {0} /\ MaxWaiting \in Nat

VARIABLES
    active,     \* the counter
    waiting,    \* the resolvers queued, in arrival order
    task        \* how far each caller has come

vars == <<active, waiting, task>>

TaskState == {"idle", "waiting", "granted", "running", "refused"}

Init ==
    /\ active = 0
    /\ waiting = <<>>
    /\ task = [t \in Tasks |-> "idle"]

-----------------------------------------------------------------------------
(* run()                                                                   *)

Refuse(t) ==
    /\ active >= MaxActive
    /\ Len(waiting) >= MaxWaiting
    /\ task' = [task EXCEPT ![t] = "refused"]
    /\ UNCHANGED <<active, waiting>>

Enqueue(t) ==
    /\ active >= MaxActive
    /\ Len(waiting) < MaxWaiting
    /\ waiting' = Append(waiting, t)
    /\ task' = [task EXCEPT ![t] = "waiting"]
    /\ UNCHANGED active

Enter(t) ==
    /\ active < MaxActive
    /\ active' = active + 1
    /\ task' = [task EXCEPT ![t] = "running"]
    /\ UNCHANGED waiting

Call(t) ==
    /\ task[t] = "idle"
    /\ Refuse(t) \/ Enqueue(t) \/ Enter(t)

\* The continuation of a waiter whose promise was resolved.
Resume(t) ==
    /\ task[t] = "granted"
    /\ task' = [task EXCEPT ![t] = "running"]
    /\ UNCHANGED <<active, waiting>>

\* finally: the slot goes straight to the next waiter, or is released.
HandOver_PopsLast(t) ==
    /\ waiting # <<>>
    /\ waiting' = SubSeq(waiting, 1, Len(waiting) - 1)
    /\ task' = [task EXCEPT ![t] = "idle", ![waiting[Len(waiting)]] = "granted"]
    /\ UNCHANGED active
HandOver_Releases(t) ==
    /\ waiting # <<>>
    /\ waiting' = Tail(waiting)
    /\ task' = [task EXCEPT ![t] = "idle", ![Head(waiting)] = "granted"]
    /\ active' = active - 1
HandOver(t) ==
    /\ waiting # <<>>
    /\ waiting' = Tail(waiting)
    /\ task' = [task EXCEPT ![t] = "idle", ![Head(waiting)] = "granted"]
    /\ UNCHANGED active

Release_IgnoresQueue(t) ==
    /\ active' = active - 1
    /\ task' = [task EXCEPT ![t] = "idle"]
    /\ UNCHANGED waiting
Release(t) ==
    /\ waiting = <<>>
    /\ active' = active - 1
    /\ task' = [task EXCEPT ![t] = "idle"]
    /\ UNCHANGED waiting

Finish(t) ==
    /\ task[t] = "running"
    /\ HandOver(t) \/ Release(t)

\* A refused caller answers 503 with Retry-After; it may come back.
Return(t) ==
    /\ task[t] = "refused"
    /\ task' = [task EXCEPT ![t] = "idle"]
    /\ UNCHANGED <<active, waiting>>

Next == \E t \in Tasks : Call(t) \/ Resume(t) \/ Finish(t) \/ Return(t)

Spec == Init /\ [][Next]_vars

\* A hash ends, and the event loop runs the continuation it resolves.
Fairness == \A t \in Tasks : WF_vars(Resume(t)) /\ WF_vars(Finish(t))

FairSpec == Spec /\ Fairness

-----------------------------------------------------------------------------
(* What must hold                                                          *)

TypeOK ==
    /\ active \in 0 .. MaxActive
    /\ waiting \in Seq(Tasks)
    /\ task \in [Tasks -> TaskState]

\* Those who have a slot, whether their continuation has run or not.
Holders == {t \in Tasks : task[t] \in {"granted", "running"}}

\* The counter counts the slots that are really held: none is leaked by a
\* task that throws, none handed over and released as well.  So no more than
\* MaxActive hashes ever run at once.
SlotsAccounted == active = Cardinality(Holders)

\* A slot is not free while somebody waits for one: the counter alone decides
\* whether a newcomer enters, so a free slot would let it jump the queue.
NoSlotFreeWhileWaiting == waiting # <<>> => active = MaxActive

\* The queue holds each waiting caller once, and nobody else.
QueueIsWaiters ==
    /\ \A t \in Tasks : task[t] = "waiting" <=> \E i \in 1 .. Len(waiting) : waiting[i] = t
    /\ \A i, j \in 1 .. Len(waiting) : waiting[i] = waiting[j] => i = j

\* "no newcomer can jump the queue": whoever gets a slot was first in the
\* queue, or there was no queue.
ArrivalOrder ==
    [][\A t \in Tasks : t \in Holders' \ Holders =>
        waiting = <<>> \/ t = Head(waiting)]_vars

\* A caller that was let into the queue gets to do its work.
WaiterEventuallyRuns == \A t \in Tasks : task[t] = "waiting" ~> task[t] = "running"
=============================================================================
