-------------------------- MODULE TaskSystemProofs --------------------------
(***************************************************************************)
(* Proofs about TaskSystem for any number of threads and tasks: the types, *)
(* that no notification is lost, that the workload counter is exact, that  *)
(* the owner never sleeps without work, and that the pool does what        *)
(* TaskPool says.                                                          *)
(***************************************************************************)
EXTENDS TaskSystem, FiniteSetTheorems, TLAPS

(* The queue a loop over the queues has come to is one of the N queues.    *)
LEMMA ModInWorkers ==
  ASSUME NEW x \in Nat PROVE x % N \in Workers
BY ThreadAssumption DEF Workers

LEMMA SlotInWorkers ==
  ASSUME TypeOK, NEW a \in Actors PROVE Slot(a) \in Workers
<1>1. at[a] \in Nat /\ it[a] \in Nat
  BY ThreadAssumption DEF TypeOK, Workers
<1> QED
  BY <1>1, ModInWorkers DEF Slot

(* After N unsuccessful attempts a worker is back at its own queue.        *)
LEMMA OwnSlot ==
  ASSUME NEW w \in Workers PROVE (w + N) % N = w
BY ThreadAssumption DEF Workers

(* The owner is an actor of its own.                                       *)
LEMMA ActorFacts ==
  /\ Workers \subseteq Actors /\ Owner \in Actors /\ Owner \notin Workers
  /\ \A a \in Actors : a = Owner \/ a \in Workers
  /\ None \notin Actors
BY ThreadAssumption DEF Workers, Actors, Owner, None

(* Type correctness of every reachable state.                              *)
LEMMA InitTypeOK == Init => TypeOK
<1> SUFFICES ASSUME Init PROVE TypeOK
  OBVIOUS
<1>1. pc \in [Actors -> PCs]
  BY DEF Init, PCs, OwnerPCs, WorkerPCs
<1>2. queue \in [Workers -> Seq(Tasks)]
  BY DEF Init
<1>3. at \in [Actors -> Workers] /\ it \in [Actors -> Nat] /\ index \in Workers /\ count \in Int
  BY ThreadAssumption DEF Init, Workers, InitialWorkload
<1>4. tstate \in [Tasks -> TaskStates]
  BY DEF Init, TaskStates
<1>5. /\ mutex \in [Workers -> Actors \cup {None}]
      /\ arg \in [Actors -> Tasks \cup {NoTask}]
      /\ cur \in [Workers -> Tasks \cup {NoTask}]
      /\ qdone \in [Workers -> BOOLEAN]
  BY DEF Init
<1> QED
  BY <1>1, <1>2, <1>3, <1>4, <1>5 DEF Init, TypeOK

LEMMA NextTypeOK == TypeOK /\ PushedTask /\ [Next]_vars => TypeOK' /\ PushedTask'
<1> SUFFICES ASSUME TypeOK, PushedTask, [Next]_vars PROVE TypeOK' /\ PushedTask'
  OBVIOUS
<1> USE DEF TypeOK, Goto, StepNotify, Lock, Unlock, Decrement, Increment, qvars, cvars, PCs, OwnerPCs, WorkerPCs, CallPCs, TaskStates, PushedTask
<1>1. \A a \in Actors : Slot(a) \in Workers
  BY SlotInWorkers
<1>2. (index + 1) % N \in Workers
  <2>1. index + 1 \in Nat
    BY ThreadAssumption DEF Workers
  <2> QED
    BY <2>1, ModInWorkers
<1>3. Workers \subseteq Actors /\ Owner \in Actors
  BY ThreadAssumption DEF Workers, Actors, Owner
<1>0. /\ \A a \in Actors : it[a] + 1 \in Nat
      /\ count + 1 \in Int /\ count - 1 \in Int /\ 0 \in Workers
  BY ThreadAssumption DEF Workers
<1>4. ASSUME NEW a \in Actors, NEW t \in Tasks, QueueTask(a, t) PROVE TypeOK' /\ PushedTask'
  BY <1>4, <1>2 DEF QueueTask, NextIndex
<1>5. ASSUME NEW a \in Actors, CallStep(a) PROVE TypeOK' /\ PushedTask'
  <2>1. CASE TryPushLock(a)
    BY <2>1, <1>0, <1>1, <1>3 DEF TryPushLock
  <2>2. CASE TryPushFail(a)
    BY <2>2, <1>0, <1>1, <1>3 DEF TryPushFail
  <2>3. CASE TryPushGiveUp(a)
    BY <2>3, <1>0, <1>1, <1>3 DEF TryPushGiveUp
  <2>4. CASE PushIncrement(a)
    BY <2>4, <1>0, <1>1, <1>3 DEF PushIncrement
  <2>5. CASE PushLock(a)
    BY <2>5, <1>0, <1>1, <1>3 DEF PushLock
  <2>6. CASE Emplace(a)
    <3>1. Append(queue[Slot(a)], arg[a]) \in Seq(Tasks)
      BY <2>6, <1>1 DEF Emplace
    <3> QED
      BY <2>6, <3>1, <1>1 DEF Emplace
  <2>7. CASE PushNotify(a)
    BY <2>7, <1>0, <1>1, <1>3 DEF PushNotify
  <2>8. CASE SetShutdown(a)
    BY <2>8, <1>0, <1>1, <1>3 DEF SetShutdown
  <2>9. CASE Abort(a)
    BY <2>9, <1>0, <1>1, <1>3 DEF Abort
  <2>10. CASE QueueDone(a)
    BY <2>10, <1>0, <1>1, <1>3 DEF QueueDone
  <2>11. CASE QueueDoneNotify(a)
    BY <2>11, <1>0, <1>1, <1>3 DEF QueueDoneNotify
  <2>12. CASE ShutdownReturn(a)
    BY <2>12, <1>0, <1>1, <1>3 DEF ShutdownReturn
  <2> QED
    BY <1>5, <2>1, <2>2, <2>3, <2>4, <2>5, <2>6, <2>7, <2>8, <2>9, <2>10, <2>11, <2>12 DEF CallStep
<1>6. ASSUME NEW w \in Workers, WorkerStep(w) PROVE TypeOK' /\ PushedTask'
  <2>1. CASE Check(w)
    BY <2>1, <1>0, <1>1, <1>3 DEF Check
  <2>2. CASE TryPopLock(w)
    BY <2>2, <1>0, <1>1, <1>3 DEF TryPopLock
  <2>3. CASE TryPopFail(w)
    BY <2>3, <1>0, <1>1, <1>3 DEF TryPopFail
  <2>4. CASE Pop(w)
    BY <2>4, <1>0, <1>1, <1>3 DEF Pop
  <2>5. CASE PopLock(w)
    BY <2>5, <1>0, <1>1, <1>3 DEF PopLock
  <2>6. CASE IdleDecrement(w)
    BY <2>6, <1>0, <1>1, <1>3 DEF IdleDecrement
  <2>7. CASE Wait(w)
    BY <2>7, <1>0, <1>1, <1>3 DEF Wait
  <2>8. CASE Recheck(w)
    <3>1. CASE SomethingToPopOrDone(w)
      BY <2>8, <3>1, <1>3 DEF Recheck
    <3>2. CASE ~SomethingToPopOrDone(w)
      BY <2>8, <3>2, <1>3 DEF Recheck
    <3> QED
      BY <3>1, <3>2
  <2>9. CASE WakeIncrement(w)
    BY <2>9, <1>0, <1>1, <1>3 DEF WakeIncrement
  <2>10. CASE Take(w)
    <3>1. Head(queue[Slot(w)]) \in Tasks /\ Tail(queue[Slot(w)]) \in Seq(Tasks)
      BY <2>10, <1>1, <1>3 DEF Take
    <3> QED
      BY <2>10, <3>1, <1>0, <1>1, <1>3 DEF Take
  <2>11. CASE TakeNothing(w)
    BY <2>11, <1>0, <1>1, <1>3 DEF TakeNothing
  <2>12. CASE StartOrDrop(w)
    BY <2>12, <1>0, <1>1, <1>3 DEF StartOrDrop
  <2>13. CASE FinishTask(w)
    BY <2>13, <1>0, <1>1, <1>3 DEF FinishTask
  <2> QED
    BY <1>6, <2>1, <2>2, <2>3, <2>4, <2>5, <2>6, <2>7, <2>8, <2>9, <2>10, <2>11, <2>12, <2>13 DEF WorkerStep
<1>7. CASE OwnerStep
  BY <1>7, <1>3 DEF OwnerStep, WaitForZeroTest, WaitForZeroLock, WaitForZeroPredicate, WaitForZeroBlock, FinishReturn, Join
<1>8. ASSUME NEW a \in Actors, SpuriousWakeup(a) PROVE TypeOK' /\ PushedTask'
  BY <1>8 DEF SpuriousWakeup
<1>9. ASSUME NEW w \in Workers, CallShutdown(w) PROVE TypeOK' /\ PushedTask'
  BY <1>9, <1>3 DEF CallShutdown
<1>10. CASE Finish
  BY <1>10, <1>3 DEF Finish
<1>11. CASE UNCHANGED vars
  BY <1>11 DEF vars
<1> QED
  BY <1>4, <1>5, <1>6, <1>7, <1>8, <1>9, <1>10, <1>11 DEF Next, Terminated

(* Every reachable state is well typed.                                    *)
THEOREM TypeCorrect == Spec => []TypeOK
<1>1. Init => PushedTask
  BY DEF Init, PushedTask
<1> QED
  BY <1>1, InitTypeOK, NextTypeOK, PTL DEF Spec, vars

-----------------------------------------------------------------------------
(* No lost wake-up.  A worker tests its queue with the queue's mutex held  *)
(* and keeps the mutex until it sleeps; whoever fills or closes the queue  *)
(* takes the mutex and notifies afterwards.                                *)
OnOwnQueue ==
  \A w \in Workers :
    /\ pc[w] = "try_pop" => at[w] = w
    /\ pc[w] \in {"pop", "idle_dec", "wait", "asleep", "woken", "inc"} => Slot(w) = w
HoldsMutex ==
  \A a \in Actors :
    pc[a] \in {"try_inc", "emplace", "take", "idle_dec", "wait", "inc"} => mutex[Slot(a)] = a
NothingToDo ==
  \A w \in Workers : pc[w] \in {"idle_dec", "wait"} => queue[w] = <<>> /\ ~qdone[w]

(* The two halves of WakeupPending.                                        *)
QueueNotified ==
  \A w \in Workers : pc[w] = "asleep" /\ queue[w] # <<>> =>
    \E a \in Actors : pc[a] = "notify" /\ Slot(a) = w
DoneNotified ==
  \A w \in Workers : pc[w] = "asleep" /\ qdone[w] =>
    \E a \in Actors : pc[a] = "sd_notify" /\ it[a] = w

(* A worker on its way into pop, asleep in it or just woken has its own    *)
(* queue in hand.                                                          *)
LEMMA OnOwnQueueNext ==
  ASSUME TypeOK, OnOwnQueue, [Next]_vars
  PROVE  OnOwnQueue'
<1> USE DEF Goto, StepNotify, Lock, Unlock, qvars, cvars, OnOwnQueue
<1>0. pc \in [Actors -> PCs]
  BY DEF TypeOK
<1>1. /\ at \in [Actors -> Workers]
      /\ it \in [Actors -> Nat]
  BY DEF TypeOK
<1>2. \A b \in Actors : at'[b] = at[b] /\ it'[b] = it[b] => Slot(b)' = Slot(b)
  BY DEF Slot
<1>3. UNCHANGED <<at, it>> => \A b \in Actors : Slot(b)' = Slot(b)
  BY DEF Slot
<1>4. ASSUME NEW a \in Actors, CallStep(a) PROVE OnOwnQueue'
  <2>1. CASE TryPushLock(a)
    BY <2>1, <1>0, <1>1, <1>2, <1>3, ActorFacts DEF TryPushLock
  <2>2. CASE TryPushFail(a)
    BY <2>2, <1>0, <1>1, <1>2, <1>3, ActorFacts DEF TryPushFail
  <2>3. CASE TryPushGiveUp(a)
    BY <2>3, <1>0, <1>1, <1>2, <1>3, ActorFacts DEF TryPushGiveUp
  <2>4. CASE PushIncrement(a)
    BY <2>4, <1>0, <1>1, <1>2, <1>3, ActorFacts DEF PushIncrement, Increment
  <2>5. CASE PushLock(a)
    BY <2>5, <1>0, <1>1, <1>2, <1>3, ActorFacts DEF PushLock
  <2>6. CASE Emplace(a)
    BY <2>6, <1>0, <1>1, <1>2, <1>3, ActorFacts DEF Emplace
  <2>7. CASE PushNotify(a)
    BY <2>7, <1>0, <1>1, <1>2, <1>3, ActorFacts DEF PushNotify
  <2>8. CASE SetShutdown(a)
    BY <2>8, <1>0, <1>1, <1>2, <1>3, ActorFacts DEF SetShutdown
  <2>9. CASE Abort(a)
    BY <2>9, <1>0, <1>1, <1>2, <1>3, ActorFacts DEF Abort
  <2>10. CASE QueueDone(a)
    BY <2>10, <1>0, <1>1, <1>2, <1>3, ActorFacts DEF QueueDone
  <2>11. CASE QueueDoneNotify(a)
    BY <2>11, <1>0, <1>1, <1>2, <1>3, ActorFacts DEF QueueDoneNotify
  <2>12. CASE ShutdownReturn(a)
    BY <2>12, <1>0, <1>1, <1>2, <1>3, ActorFacts DEF ShutdownReturn
  <2> QED
    BY <1>4, <2>1, <2>2, <2>3, <2>4, <2>5, <2>6, <2>7, <2>8, <2>9, <2>10, <2>11, <2>12 DEF CallStep
<1>5. ASSUME NEW w \in Workers, WorkerStep(w) PROVE OnOwnQueue'
  <2>1. CASE Check(w)
    BY <2>1, <1>0, <1>1, <1>2, <1>3, ActorFacts DEF Check
  <2>2. CASE TryPopLock(w)
    BY <2>2, <1>0, <1>1, <1>2, <1>3, ActorFacts DEF TryPopLock
  <2>3. CASE TryPopFail(w)
    BY <2>3, <1>0, <1>1, <1>2, <1>3, ActorFacts DEF TryPopFail
  <2>4. CASE Pop(w)
    BY <2>4, <1>0, <1>1, <1>2, <1>3, ActorFacts, OwnSlot DEF Pop, Slot
  <2>5. CASE PopLock(w)
    BY <2>5, <1>0, <1>1, <1>2, <1>3, ActorFacts DEF PopLock
  <2>6. CASE IdleDecrement(w)
    BY <2>6, <1>0, <1>1, <1>2, <1>3, ActorFacts DEF IdleDecrement, Decrement
  <2>7. CASE Wait(w)
    BY <2>7, <1>0, <1>1, <1>2, <1>3, ActorFacts DEF Wait
  <2>8. CASE Recheck(w)
    BY <2>8, <1>0, <1>1, <1>2, <1>3, ActorFacts DEF Recheck
  <2>9. CASE WakeIncrement(w)
    BY <2>9, <1>0, <1>1, <1>2, <1>3, ActorFacts DEF WakeIncrement, Increment
  <2>10. CASE Take(w)
    BY <2>10, <1>0, <1>1, <1>2, <1>3, ActorFacts DEF Take, Decrement
  <2>11. CASE TakeNothing(w)
    BY <2>11, <1>0, <1>1, <1>2, <1>3, ActorFacts DEF TakeNothing
  <2>12. CASE StartOrDrop(w)
    BY <2>12, <1>0, <1>1, <1>2, <1>3, ActorFacts DEF StartOrDrop
  <2>13. CASE FinishTask(w)
    BY <2>13, <1>0, <1>1, <1>2, <1>3, ActorFacts DEF FinishTask
  <2> QED
    BY <1>5, <2>1, <2>2, <2>3, <2>4, <2>5, <2>6, <2>7, <2>8, <2>9, <2>10, <2>11, <2>12, <2>13 DEF WorkerStep
<1>6. CASE OwnerStep
  <2>1. CASE WaitForZeroTest
    BY <2>1, <1>0, <1>1, <1>2, <1>3, ActorFacts DEF WaitForZeroTest
  <2>2. CASE WaitForZeroLock
    BY <2>2, <1>0, <1>1, <1>2, <1>3, ActorFacts DEF WaitForZeroLock
  <2>3. CASE WaitForZeroPredicate
    BY <2>3, <1>0, <1>1, <1>2, <1>3, ActorFacts DEF WaitForZeroPredicate
  <2>4. CASE WaitForZeroBlock
    BY <2>4, <1>0, <1>1, <1>2, <1>3, ActorFacts DEF WaitForZeroBlock
  <2>5. CASE FinishReturn
    BY <2>5, <1>0, <1>1, <1>2, <1>3, ActorFacts DEF FinishReturn
  <2>6. CASE Join
    BY <2>6, <1>0, <1>1, <1>2, <1>3, ActorFacts DEF Join
  <2> QED
    BY <1>6, <2>1, <2>2, <2>3, <2>4, <2>5, <2>6 DEF OwnerStep
<1>7. ASSUME NEW a \in Actors, SpuriousWakeup(a) PROVE OnOwnQueue'
  BY <1>7, <1>0, <1>1, <1>2, <1>3, ActorFacts DEF SpuriousWakeup
<1>8. ASSUME NEW a \in Actors, NEW t \in Tasks, QueueTask(a, t) PROVE OnOwnQueue'
  BY <1>8, <1>0, <1>1, <1>2, <1>3, ActorFacts DEF QueueTask
<1>9. ASSUME NEW w \in Workers, CallShutdown(w) PROVE OnOwnQueue'
  BY <1>9, <1>0, <1>1, <1>2, <1>3, ActorFacts DEF CallShutdown
<1>10. CASE Finish
  BY <1>10, <1>0, <1>1, <1>2, <1>3, ActorFacts DEF Finish
<1>11. CASE UNCHANGED vars
  BY <1>11, <1>0, <1>1, <1>2, <1>3, ActorFacts DEF vars
<1> QED
  BY <1>4, <1>5, <1>6, <1>7, <1>8, <1>9, <1>10, <1>11 DEF Next, Terminated

(* Only the holder of a mutex releases it.                                 *)
LEMMA HoldsMutexNext ==
  ASSUME TypeOK, OnOwnQueue, HoldsMutex, [Next]_vars
  PROVE  HoldsMutex'
<1> USE DEF Goto, StepNotify, Lock, Unlock, qvars, cvars, HoldsMutex, OnOwnQueue
<1>0. pc \in [Actors -> PCs]
  BY DEF TypeOK
<1>1. /\ at \in [Actors -> Workers]
      /\ it \in [Actors -> Nat]
  BY DEF TypeOK
<1>2. mutex \in [Workers -> Actors \cup {None}]
  BY DEF TypeOK
<1>3. \A b \in Actors : Slot(b) \in Workers
  BY SlotInWorkers
<1>4. \A b \in Actors : at'[b] = at[b] /\ it'[b] = it[b] => Slot(b)' = Slot(b)
  BY DEF Slot
<1>5. UNCHANGED <<at, it>> => \A b \in Actors : Slot(b)' = Slot(b)
  BY DEF Slot
<1>6. ASSUME NEW a \in Actors, CallStep(a) PROVE HoldsMutex'
  <2>1. CASE TryPushLock(a)
    BY <2>1, <1>0, <1>1, <1>2, <1>3, <1>4, <1>5, ActorFacts DEF TryPushLock
  <2>2. CASE TryPushFail(a)
    BY <2>2, <1>0, <1>1, <1>2, <1>3, <1>4, <1>5, ActorFacts DEF TryPushFail
  <2>3. CASE TryPushGiveUp(a)
    BY <2>3, <1>0, <1>1, <1>2, <1>3, <1>4, <1>5, ActorFacts DEF TryPushGiveUp
  <2>4. CASE PushIncrement(a)
    BY <2>4, <1>0, <1>1, <1>2, <1>3, <1>4, <1>5, ActorFacts DEF PushIncrement, Increment
  <2>5. CASE PushLock(a)
    BY <2>5, <1>0, <1>1, <1>2, <1>3, <1>4, <1>5, ActorFacts DEF PushLock
  <2>6. CASE Emplace(a)
    BY <2>6, <1>0, <1>1, <1>2, <1>3, <1>4, <1>5, ActorFacts DEF Emplace
  <2>7. CASE PushNotify(a)
    BY <2>7, <1>0, <1>1, <1>2, <1>3, <1>4, <1>5, ActorFacts DEF PushNotify
  <2>8. CASE SetShutdown(a)
    BY <2>8, <1>0, <1>1, <1>2, <1>3, <1>4, <1>5, ActorFacts DEF SetShutdown
  <2>9. CASE Abort(a)
    BY <2>9, <1>0, <1>1, <1>2, <1>3, <1>4, <1>5, ActorFacts DEF Abort
  <2>10. CASE QueueDone(a)
    BY <2>10, <1>0, <1>1, <1>2, <1>3, <1>4, <1>5, ActorFacts DEF QueueDone
  <2>11. CASE QueueDoneNotify(a)
    BY <2>11, <1>0, <1>1, <1>2, <1>3, <1>4, <1>5, ActorFacts DEF QueueDoneNotify
  <2>12. CASE ShutdownReturn(a)
    BY <2>12, <1>0, <1>1, <1>2, <1>3, <1>4, <1>5, ActorFacts DEF ShutdownReturn
  <2> QED
    BY <1>6, <2>1, <2>2, <2>3, <2>4, <2>5, <2>6, <2>7, <2>8, <2>9, <2>10, <2>11, <2>12 DEF CallStep
<1>7. ASSUME NEW w \in Workers, WorkerStep(w) PROVE HoldsMutex'
  <2>1. CASE Check(w)
    BY <2>1, <1>0, <1>1, <1>2, <1>3, <1>4, <1>5, ActorFacts DEF Check
  <2>2. CASE TryPopLock(w)
    BY <2>2, <1>0, <1>1, <1>2, <1>3, <1>4, <1>5, ActorFacts DEF TryPopLock
  <2>3. CASE TryPopFail(w)
    BY <2>3, <1>0, <1>1, <1>2, <1>3, <1>4, <1>5, ActorFacts DEF TryPopFail
  <2>4. CASE Pop(w)
    BY <2>4, <1>0, <1>1, <1>2, <1>3, <1>4, <1>5, ActorFacts DEF Pop
  <2>5. CASE PopLock(w)
    BY <2>5, <1>0, <1>1, <1>2, <1>3, <1>4, <1>5, ActorFacts DEF PopLock
  <2>6. CASE IdleDecrement(w)
    BY <2>6, <1>0, <1>1, <1>2, <1>3, <1>4, <1>5, ActorFacts DEF IdleDecrement, Decrement
  <2>7. CASE Wait(w)
    BY <2>7, <1>0, <1>1, <1>2, <1>3, <1>4, <1>5, ActorFacts DEF Wait
  <2>8. CASE Recheck(w)
    BY <2>8, <1>0, <1>1, <1>2, <1>3, <1>4, <1>5, ActorFacts DEF Recheck
  <2>9. CASE WakeIncrement(w)
    BY <2>9, <1>0, <1>1, <1>2, <1>3, <1>4, <1>5, ActorFacts DEF WakeIncrement, Increment
  <2>10. CASE Take(w)
    BY <2>10, <1>0, <1>1, <1>2, <1>3, <1>4, <1>5, ActorFacts DEF Take, Decrement
  <2>11. CASE TakeNothing(w)
    BY <2>11, <1>0, <1>1, <1>2, <1>3, <1>4, <1>5, ActorFacts DEF TakeNothing
  <2>12. CASE StartOrDrop(w)
    BY <2>12, <1>0, <1>1, <1>2, <1>3, <1>4, <1>5, ActorFacts DEF StartOrDrop
  <2>13. CASE FinishTask(w)
    BY <2>13, <1>0, <1>1, <1>2, <1>3, <1>4, <1>5, ActorFacts DEF FinishTask
  <2> QED
    BY <1>7, <2>1, <2>2, <2>3, <2>4, <2>5, <2>6, <2>7, <2>8, <2>9, <2>10, <2>11, <2>12, <2>13 DEF WorkerStep
<1>8. CASE OwnerStep
  <2>1. CASE WaitForZeroTest
    BY <2>1, <1>0, <1>1, <1>2, <1>3, <1>4, <1>5, ActorFacts DEF WaitForZeroTest
  <2>2. CASE WaitForZeroLock
    BY <2>2, <1>0, <1>1, <1>2, <1>3, <1>4, <1>5, ActorFacts DEF WaitForZeroLock
  <2>3. CASE WaitForZeroPredicate
    BY <2>3, <1>0, <1>1, <1>2, <1>3, <1>4, <1>5, ActorFacts DEF WaitForZeroPredicate
  <2>4. CASE WaitForZeroBlock
    BY <2>4, <1>0, <1>1, <1>2, <1>3, <1>4, <1>5, ActorFacts DEF WaitForZeroBlock
  <2>5. CASE FinishReturn
    BY <2>5, <1>0, <1>1, <1>2, <1>3, <1>4, <1>5, ActorFacts DEF FinishReturn
  <2>6. CASE Join
    BY <2>6, <1>0, <1>1, <1>2, <1>3, <1>4, <1>5, ActorFacts DEF Join
  <2> QED
    BY <1>8, <2>1, <2>2, <2>3, <2>4, <2>5, <2>6 DEF OwnerStep
<1>9. ASSUME NEW a \in Actors, SpuriousWakeup(a) PROVE HoldsMutex'
  BY <1>9, <1>0, <1>1, <1>2, <1>3, <1>4, <1>5, ActorFacts DEF SpuriousWakeup
<1>10. ASSUME NEW a \in Actors, NEW t \in Tasks, QueueTask(a, t) PROVE HoldsMutex'
  BY <1>10, <1>0, <1>1, <1>2, <1>3, <1>4, <1>5, ActorFacts DEF QueueTask
<1>11. ASSUME NEW w \in Workers, CallShutdown(w) PROVE HoldsMutex'
  BY <1>11, <1>0, <1>1, <1>2, <1>3, <1>4, <1>5, ActorFacts DEF CallShutdown
<1>12. CASE Finish
  BY <1>12, <1>0, <1>1, <1>2, <1>3, <1>4, <1>5, ActorFacts DEF Finish
<1>13. CASE UNCHANGED vars
  BY <1>13, <1>0, <1>1, <1>2, <1>3, <1>4, <1>5, ActorFacts DEF vars
<1> QED
  BY <1>6, <1>7, <1>8, <1>9, <1>10, <1>11, <1>12, <1>13 DEF Next, Terminated

(* Nobody fills or closes a queue while its worker goes to sleep with the  *)
(* mutex held.                                                             *)
LEMMA NothingToDoNext ==
  ASSUME TypeOK, OnOwnQueue, HoldsMutex, NothingToDo, [Next]_vars
  PROVE  NothingToDo'
<1> USE DEF Goto, StepNotify, Lock, Unlock, qvars, cvars, HoldsMutex, OnOwnQueue, NothingToDo, SomethingToPopOrDone
<1>0. pc \in [Actors -> PCs]
  BY DEF TypeOK
<1>1. /\ at \in [Actors -> Workers]
      /\ it \in [Actors -> Nat]
  BY DEF TypeOK
<1>2. mutex \in [Workers -> Actors \cup {None}]
  BY DEF TypeOK
<1>3. /\ queue \in [Workers -> Seq(Tasks)]
      /\ qdone \in [Workers -> BOOLEAN]
  BY DEF TypeOK
<1>4. \A b \in Actors : Slot(b) \in Workers
  BY SlotInWorkers
<1>5. ASSUME NEW a \in Actors, CallStep(a) PROVE NothingToDo'
  <2>1. CASE TryPushLock(a)
    BY <2>1, <1>0, <1>1, <1>2, <1>3, <1>4, ActorFacts DEF TryPushLock
  <2>2. CASE TryPushFail(a)
    BY <2>2, <1>0, <1>1, <1>2, <1>3, <1>4, ActorFacts DEF TryPushFail
  <2>3. CASE TryPushGiveUp(a)
    BY <2>3, <1>0, <1>1, <1>2, <1>3, <1>4, ActorFacts DEF TryPushGiveUp
  <2>4. CASE PushIncrement(a)
    BY <2>4, <1>0, <1>1, <1>2, <1>3, <1>4, ActorFacts DEF PushIncrement, Increment
  <2>5. CASE PushLock(a)
    BY <2>5, <1>0, <1>1, <1>2, <1>3, <1>4, ActorFacts DEF PushLock
  <2>6. CASE Emplace(a)
    BY <2>6, <1>0, <1>1, <1>2, <1>3, <1>4, ActorFacts DEF Emplace
  <2>7. CASE PushNotify(a)
    BY <2>7, <1>0, <1>1, <1>2, <1>3, <1>4, ActorFacts DEF PushNotify
  <2>8. CASE SetShutdown(a)
    BY <2>8, <1>0, <1>1, <1>2, <1>3, <1>4, ActorFacts DEF SetShutdown
  <2>9. CASE Abort(a)
    BY <2>9, <1>0, <1>1, <1>2, <1>3, <1>4, ActorFacts DEF Abort
  <2>10. CASE QueueDone(a)
    <3>1. it[a] \in Workers
      BY <2>10, <1>1, ThreadAssumption DEF QueueDone, Workers
    <3> QED
      BY <2>10, <3>1, <1>0, <1>2, <1>3, <1>4, ActorFacts DEF QueueDone
  <2>11. CASE QueueDoneNotify(a)
    BY <2>11, <1>0, <1>1, <1>2, <1>3, <1>4, ActorFacts DEF QueueDoneNotify
  <2>12. CASE ShutdownReturn(a)
    BY <2>12, <1>0, <1>1, <1>2, <1>3, <1>4, ActorFacts DEF ShutdownReturn
  <2> QED
    BY <1>5, <2>1, <2>2, <2>3, <2>4, <2>5, <2>6, <2>7, <2>8, <2>9, <2>10, <2>11, <2>12 DEF CallStep
<1>6. ASSUME NEW w \in Workers, WorkerStep(w) PROVE NothingToDo'
  <2>1. CASE Check(w)
    BY <2>1, <1>0, <1>1, <1>2, <1>3, <1>4, ActorFacts DEF Check
  <2>2. CASE TryPopLock(w)
    BY <2>2, <1>0, <1>1, <1>2, <1>3, <1>4, ActorFacts DEF TryPopLock
  <2>3. CASE TryPopFail(w)
    BY <2>3, <1>0, <1>1, <1>2, <1>3, <1>4, ActorFacts DEF TryPopFail
  <2>4. CASE Pop(w)
    BY <2>4, <1>0, <1>1, <1>2, <1>3, <1>4, ActorFacts DEF Pop
  <2>5. CASE PopLock(w)
    BY <2>5, <1>0, <1>1, <1>2, <1>3, <1>4, ActorFacts DEF PopLock
  <2>6. CASE IdleDecrement(w)
    BY <2>6, <1>0, <1>1, <1>2, <1>3, <1>4, ActorFacts DEF IdleDecrement, Decrement
  <2>7. CASE Wait(w)
    BY <2>7, <1>0, <1>1, <1>2, <1>3, <1>4, ActorFacts DEF Wait
  <2>8. CASE Recheck(w)
    BY <2>8, <1>0, <1>1, <1>2, <1>3, <1>4, ActorFacts DEF Recheck
  <2>9. CASE WakeIncrement(w)
    BY <2>9, <1>0, <1>1, <1>2, <1>3, <1>4, ActorFacts DEF WakeIncrement, Increment
  <2>10. CASE Take(w)
    BY <2>10, <1>0, <1>1, <1>2, <1>3, <1>4, ActorFacts DEF Take, Decrement
  <2>11. CASE TakeNothing(w)
    BY <2>11, <1>0, <1>1, <1>2, <1>3, <1>4, ActorFacts DEF TakeNothing
  <2>12. CASE StartOrDrop(w)
    BY <2>12, <1>0, <1>1, <1>2, <1>3, <1>4, ActorFacts DEF StartOrDrop
  <2>13. CASE FinishTask(w)
    BY <2>13, <1>0, <1>1, <1>2, <1>3, <1>4, ActorFacts DEF FinishTask
  <2> QED
    BY <1>6, <2>1, <2>2, <2>3, <2>4, <2>5, <2>6, <2>7, <2>8, <2>9, <2>10, <2>11, <2>12, <2>13 DEF WorkerStep
<1>7. CASE OwnerStep
  <2>1. CASE WaitForZeroTest
    BY <2>1, <1>0, <1>1, <1>2, <1>3, <1>4, ActorFacts DEF WaitForZeroTest
  <2>2. CASE WaitForZeroLock
    BY <2>2, <1>0, <1>1, <1>2, <1>3, <1>4, ActorFacts DEF WaitForZeroLock
  <2>3. CASE WaitForZeroPredicate
    BY <2>3, <1>0, <1>1, <1>2, <1>3, <1>4, ActorFacts DEF WaitForZeroPredicate
  <2>4. CASE WaitForZeroBlock
    BY <2>4, <1>0, <1>1, <1>2, <1>3, <1>4, ActorFacts DEF WaitForZeroBlock
  <2>5. CASE FinishReturn
    BY <2>5, <1>0, <1>1, <1>2, <1>3, <1>4, ActorFacts DEF FinishReturn
  <2>6. CASE Join
    BY <2>6, <1>0, <1>1, <1>2, <1>3, <1>4, ActorFacts DEF Join
  <2> QED
    BY <1>7, <2>1, <2>2, <2>3, <2>4, <2>5, <2>6 DEF OwnerStep
<1>8. ASSUME NEW a \in Actors, SpuriousWakeup(a) PROVE NothingToDo'
  BY <1>8, <1>0, <1>1, <1>2, <1>3, <1>4, ActorFacts DEF SpuriousWakeup
<1>9. ASSUME NEW a \in Actors, NEW t \in Tasks, QueueTask(a, t) PROVE NothingToDo'
  BY <1>9, <1>0, <1>1, <1>2, <1>3, <1>4, ActorFacts DEF QueueTask
<1>10. ASSUME NEW w \in Workers, CallShutdown(w) PROVE NothingToDo'
  BY <1>10, <1>0, <1>1, <1>2, <1>3, <1>4, ActorFacts DEF CallShutdown
<1>11. CASE Finish
  BY <1>11, <1>0, <1>1, <1>2, <1>3, <1>4, ActorFacts DEF Finish
<1>12. CASE UNCHANGED vars
  BY <1>12, <1>0, <1>1, <1>2, <1>3, <1>4, ActorFacts DEF vars
<1> QED
  BY <1>5, <1>6, <1>7, <1>8, <1>9, <1>10, <1>11, <1>12 DEF Next, Terminated

(* A push makes a queue non-empty before it notifies, and a worker that    *)
(* sleeps is notified.                                                     *)
LEMMA QueueNotifiedNext ==
  ASSUME TypeOK, NothingToDo, QueueNotified, [Next]_vars
  PROVE  QueueNotified'
<1> USE DEF Goto, StepNotify, Lock, Unlock, qvars, cvars, QueueNotified
<1>0. pc \in [Actors -> PCs]
  BY DEF TypeOK
<1>1. /\ at \in [Actors -> Workers]
      /\ it \in [Actors -> Nat]
  BY DEF TypeOK
<1>2. /\ queue \in [Workers -> Seq(Tasks)]
      /\ qdone \in [Workers -> BOOLEAN]
  BY DEF TypeOK
<1>3. \A b \in Actors : Slot(b) \in Workers
  BY SlotInWorkers
<1>4. \A b \in Actors : at'[b] = at[b] /\ it'[b] = it[b] => Slot(b)' = Slot(b)
  BY DEF Slot
<1>5. UNCHANGED <<at, it>> => \A b \in Actors : Slot(b)' = Slot(b)
  BY DEF Slot
<1>6. ASSUME NEW a \in Actors, CallStep(a) PROVE QueueNotified'
  <2>1. CASE TryPushLock(a)
    BY <2>1, <1>0, <1>1, <1>2, <1>3, <1>4, <1>5, ActorFacts DEF TryPushLock
  <2>2. CASE TryPushFail(a)
    BY <2>2, <1>0, <1>1, <1>2, <1>3, <1>4, <1>5, ActorFacts DEF TryPushFail
  <2>3. CASE TryPushGiveUp(a)
    BY <2>3, <1>0, <1>1, <1>2, <1>3, <1>4, <1>5, ActorFacts DEF TryPushGiveUp
  <2>4. CASE PushIncrement(a)
    BY <2>4, <1>0, <1>1, <1>2, <1>3, <1>4, <1>5, ActorFacts DEF PushIncrement, Increment
  <2>5. CASE PushLock(a)
    BY <2>5, <1>0, <1>1, <1>2, <1>3, <1>4, <1>5, ActorFacts DEF PushLock
  <2>6. CASE Emplace(a)
    BY <2>6, <1>0, <1>1, <1>2, <1>3, <1>4, <1>5, ActorFacts DEF Emplace
  <2>7. CASE PushNotify(a)
    BY <2>7, <1>0, <1>1, <1>2, <1>3, <1>4, <1>5, ActorFacts DEF PushNotify
  <2>8. CASE SetShutdown(a)
    BY <2>8, <1>0, <1>1, <1>2, <1>3, <1>4, <1>5, ActorFacts DEF SetShutdown
  <2>9. CASE Abort(a)
    <3>1. \A b \in Actors : b # a => Slot(b)' = Slot(b)
      BY <2>9, <1>1, ActorFacts DEF Abort, Slot
    <3> QED
      BY <2>9, <3>1, <1>0, <1>2, <1>3, ActorFacts DEF Abort
  <2>10. CASE QueueDone(a)
    BY <2>10, <1>0, <1>1, <1>2, <1>3, <1>4, <1>5, ActorFacts DEF QueueDone
  <2>11. CASE QueueDoneNotify(a)
    BY <2>11, <1>0, <1>1, <1>2, <1>3, <1>4, <1>5, ActorFacts DEF QueueDoneNotify
  <2>12. CASE ShutdownReturn(a)
    BY <2>12, <1>0, <1>1, <1>2, <1>3, <1>4, <1>5, ActorFacts DEF ShutdownReturn
  <2> QED
    BY <1>6, <2>1, <2>2, <2>3, <2>4, <2>5, <2>6, <2>7, <2>8, <2>9, <2>10, <2>11, <2>12 DEF CallStep
<1>7. ASSUME NEW w \in Workers, WorkerStep(w) PROVE QueueNotified'
  <2>1. CASE Check(w)
    <3>1. \A b \in Actors : b # w => Slot(b)' = Slot(b)
      BY <2>1, <1>1, ActorFacts DEF Check, Slot
    <3> QED
      BY <2>1, <3>1, <1>0, <1>2, <1>3, ActorFacts DEF Check
  <2>2. CASE TryPopLock(w)
    BY <2>2, <1>0, <1>1, <1>2, <1>3, <1>4, <1>5, ActorFacts DEF TryPopLock
  <2>3. CASE TryPopFail(w)
    BY <2>3, <1>0, <1>1, <1>2, <1>3, <1>4, <1>5, ActorFacts DEF TryPopFail
  <2>4. CASE Pop(w)
    BY <2>4, <1>0, <1>1, <1>2, <1>3, <1>4, <1>5, ActorFacts DEF Pop
  <2>5. CASE PopLock(w)
    BY <2>5, <1>0, <1>1, <1>2, <1>3, <1>4, <1>5, ActorFacts DEF PopLock
  <2>6. CASE IdleDecrement(w)
    BY <2>6, <1>0, <1>1, <1>2, <1>3, <1>4, <1>5, ActorFacts DEF IdleDecrement, Decrement
  <2>7. CASE Wait(w)
    BY <2>7, <1>0, <1>1, <1>2, <1>3, <1>4, <1>5, ActorFacts DEF Wait, NothingToDo
  <2>8. CASE Recheck(w)
    <3>1. CASE SomethingToPopOrDone(w)
      BY <2>8, <3>1, <1>0, <1>3, <1>4, <1>5, ActorFacts DEF Recheck
    <3>2. CASE ~SomethingToPopOrDone(w)
      <4>1. /\ queue[w] = <<>>
            /\ \A b \in Actors : pc'[b] = IF b = w THEN "asleep" ELSE pc[b]
        BY <2>8, <3>2, <1>0, ActorFacts DEF Recheck, SomethingToPopOrDone
      <4>2. UNCHANGED <<queue, at, it>>
        BY <2>8 DEF Recheck
      <4>3. pc[w] = "woken"
        BY <2>8 DEF Recheck
      <4> QED
        BY <4>1, <4>2, <4>3, <1>5, ActorFacts
    <3> QED
      BY <3>1, <3>2
  <2>9. CASE WakeIncrement(w)
    BY <2>9, <1>0, <1>1, <1>2, <1>3, <1>4, <1>5, ActorFacts DEF WakeIncrement, Increment
  <2>10. CASE Take(w)
    BY <2>10, <1>0, <1>1, <1>2, <1>3, <1>4, <1>5, ActorFacts DEF Take, Decrement
  <2>11. CASE TakeNothing(w)
    BY <2>11, <1>0, <1>1, <1>2, <1>3, <1>4, <1>5, ActorFacts DEF TakeNothing
  <2>12. CASE StartOrDrop(w)
    BY <2>12, <1>0, <1>1, <1>2, <1>3, <1>4, <1>5, ActorFacts DEF StartOrDrop
  <2>13. CASE FinishTask(w)
    BY <2>13, <1>0, <1>1, <1>2, <1>3, <1>4, <1>5, ActorFacts DEF FinishTask
  <2> QED
    BY <1>7, <2>1, <2>2, <2>3, <2>4, <2>5, <2>6, <2>7, <2>8, <2>9, <2>10, <2>11, <2>12, <2>13 DEF WorkerStep
<1>8. CASE OwnerStep
  <2>1. CASE WaitForZeroTest
    BY <2>1, <1>0, <1>1, <1>2, <1>3, <1>4, <1>5, ActorFacts DEF WaitForZeroTest
  <2>2. CASE WaitForZeroLock
    BY <2>2, <1>0, <1>1, <1>2, <1>3, <1>4, <1>5, ActorFacts DEF WaitForZeroLock
  <2>3. CASE WaitForZeroPredicate
    BY <2>3, <1>0, <1>1, <1>2, <1>3, <1>4, <1>5, ActorFacts DEF WaitForZeroPredicate
  <2>4. CASE WaitForZeroBlock
    BY <2>4, <1>0, <1>1, <1>2, <1>3, <1>4, <1>5, ActorFacts DEF WaitForZeroBlock
  <2>5. CASE FinishReturn
    BY <2>5, <1>0, <1>1, <1>2, <1>3, <1>4, <1>5, ActorFacts DEF FinishReturn
  <2>6. CASE Join
    BY <2>6, <1>0, <1>1, <1>2, <1>3, <1>4, <1>5, ActorFacts DEF Join
  <2> QED
    BY <1>8, <2>1, <2>2, <2>3, <2>4, <2>5, <2>6 DEF OwnerStep
<1>9. ASSUME NEW a \in Actors, SpuriousWakeup(a) PROVE QueueNotified'
  BY <1>9, <1>0, <1>1, <1>2, <1>3, <1>4, <1>5, ActorFacts DEF SpuriousWakeup
<1>10. ASSUME NEW a \in Actors, NEW t \in Tasks, QueueTask(a, t) PROVE QueueNotified'
  <2>1. \A b \in Actors : b # a => Slot(b)' = Slot(b)
    BY <1>10, <1>1, ActorFacts DEF QueueTask, Slot
  <2> QED
    BY <1>10, <2>1, <1>0, <1>2, <1>3, ActorFacts DEF QueueTask
<1>11. ASSUME NEW w \in Workers, CallShutdown(w) PROVE QueueNotified'
  BY <1>11, <1>0, <1>1, <1>2, <1>3, <1>4, <1>5, ActorFacts DEF CallShutdown
<1>12. CASE Finish
  BY <1>12, <1>0, <1>1, <1>2, <1>3, <1>4, <1>5, ActorFacts DEF Finish
<1>13. CASE UNCHANGED vars
  BY <1>13, <1>0, <1>1, <1>2, <1>3, <1>4, <1>5, ActorFacts DEF vars
<1> QED
  BY <1>6, <1>7, <1>8, <1>9, <1>10, <1>11, <1>12, <1>13 DEF Next, Terminated

(* The same for done(), which closes a queue before it notifies.           *)
LEMMA DoneNotifiedNext ==
  ASSUME TypeOK, NothingToDo, DoneNotified, [Next]_vars
  PROVE  DoneNotified'
<1> USE DEF Goto, StepNotify, Lock, Unlock, qvars, cvars, DoneNotified
<1>0. pc \in [Actors -> PCs]
  BY DEF TypeOK
<1>1. /\ queue \in [Workers -> Seq(Tasks)]
      /\ qdone \in [Workers -> BOOLEAN]
  BY DEF TypeOK
<1>2. ASSUME NEW a \in Actors, CallStep(a) PROVE DoneNotified'
  <2>1. CASE TryPushLock(a)
    BY <2>1, <1>0, <1>1, ActorFacts DEF TryPushLock
  <2>2. CASE TryPushFail(a)
    BY <2>2, <1>0, <1>1, ActorFacts DEF TryPushFail
  <2>3. CASE TryPushGiveUp(a)
    BY <2>3, <1>0, <1>1, ActorFacts DEF TryPushGiveUp
  <2>4. CASE PushIncrement(a)
    BY <2>4, <1>0, <1>1, ActorFacts DEF PushIncrement, Increment
  <2>5. CASE PushLock(a)
    BY <2>5, <1>0, <1>1, ActorFacts DEF PushLock
  <2>6. CASE Emplace(a)
    BY <2>6, <1>0, <1>1, ActorFacts DEF Emplace
  <2>7. CASE PushNotify(a)
    BY <2>7, <1>0, <1>1, ActorFacts DEF PushNotify
  <2>8. CASE SetShutdown(a)
    BY <2>8, <1>0, <1>1, ActorFacts DEF SetShutdown
  <2>9. CASE Abort(a)
    BY <2>9, <1>0, <1>1, ActorFacts DEF Abort
  <2>10. CASE QueueDone(a)
    BY <2>10, <1>0, <1>1, ActorFacts DEF QueueDone
  <2>11. CASE QueueDoneNotify(a)
    BY <2>11, <1>0, <1>1, ActorFacts DEF QueueDoneNotify
  <2>12. CASE ShutdownReturn(a)
    BY <2>12, <1>0, <1>1, ActorFacts DEF ShutdownReturn
  <2> QED
    BY <1>2, <2>1, <2>2, <2>3, <2>4, <2>5, <2>6, <2>7, <2>8, <2>9, <2>10, <2>11, <2>12 DEF CallStep
<1>3. ASSUME NEW w \in Workers, WorkerStep(w) PROVE DoneNotified'
  <2>1. CASE Check(w)
    BY <2>1, <1>0, <1>1, ActorFacts DEF Check
  <2>2. CASE TryPopLock(w)
    BY <2>2, <1>0, <1>1, ActorFacts DEF TryPopLock
  <2>3. CASE TryPopFail(w)
    BY <2>3, <1>0, <1>1, ActorFacts DEF TryPopFail
  <2>4. CASE Pop(w)
    BY <2>4, <1>0, <1>1, ActorFacts DEF Pop
  <2>5. CASE PopLock(w)
    BY <2>5, <1>0, <1>1, ActorFacts DEF PopLock
  <2>6. CASE IdleDecrement(w)
    BY <2>6, <1>0, <1>1, ActorFacts DEF IdleDecrement, Decrement
  <2>7. CASE Wait(w)
    BY <2>7, <1>0, <1>1, ActorFacts DEF Wait, NothingToDo
  <2>8. CASE Recheck(w)
    BY <2>8, <1>0, <1>1, ActorFacts DEF Recheck, SomethingToPopOrDone
  <2>9. CASE WakeIncrement(w)
    BY <2>9, <1>0, <1>1, ActorFacts DEF WakeIncrement, Increment
  <2>10. CASE Take(w)
    BY <2>10, <1>0, <1>1, ActorFacts DEF Take, Decrement
  <2>11. CASE TakeNothing(w)
    BY <2>11, <1>0, <1>1, ActorFacts DEF TakeNothing
  <2>12. CASE StartOrDrop(w)
    BY <2>12, <1>0, <1>1, ActorFacts DEF StartOrDrop
  <2>13. CASE FinishTask(w)
    BY <2>13, <1>0, <1>1, ActorFacts DEF FinishTask
  <2> QED
    BY <1>3, <2>1, <2>2, <2>3, <2>4, <2>5, <2>6, <2>7, <2>8, <2>9, <2>10, <2>11, <2>12, <2>13 DEF WorkerStep
<1>4. CASE OwnerStep
  <2>1. CASE WaitForZeroTest
    BY <2>1, <1>0, <1>1, ActorFacts DEF WaitForZeroTest
  <2>2. CASE WaitForZeroLock
    BY <2>2, <1>0, <1>1, ActorFacts DEF WaitForZeroLock
  <2>3. CASE WaitForZeroPredicate
    BY <2>3, <1>0, <1>1, ActorFacts DEF WaitForZeroPredicate
  <2>4. CASE WaitForZeroBlock
    BY <2>4, <1>0, <1>1, ActorFacts DEF WaitForZeroBlock
  <2>5. CASE FinishReturn
    BY <2>5, <1>0, <1>1, ActorFacts DEF FinishReturn
  <2>6. CASE Join
    BY <2>6, <1>0, <1>1, ActorFacts DEF Join
  <2> QED
    BY <1>4, <2>1, <2>2, <2>3, <2>4, <2>5, <2>6 DEF OwnerStep
<1>5. ASSUME NEW a \in Actors, SpuriousWakeup(a) PROVE DoneNotified'
  BY <1>5, <1>0, <1>1, ActorFacts DEF SpuriousWakeup
<1>6. ASSUME NEW a \in Actors, NEW t \in Tasks, QueueTask(a, t) PROVE DoneNotified'
  BY <1>6, <1>0, <1>1, ActorFacts DEF QueueTask
<1>7. ASSUME NEW w \in Workers, CallShutdown(w) PROVE DoneNotified'
  BY <1>7, <1>0, <1>1, ActorFacts DEF CallShutdown
<1>8. CASE Finish
  BY <1>8, <1>0, <1>1, ActorFacts DEF Finish
<1>9. CASE UNCHANGED vars
  BY <1>9, <1>0, <1>1, ActorFacts DEF vars
<1> QED
  BY <1>2, <1>3, <1>4, <1>5, <1>6, <1>7, <1>8, <1>9 DEF Next, Terminated

WakeInv ==
  /\ TypeOK /\ PushedTask /\ OnOwnQueue /\ HoldsMutex /\ NothingToDo
  /\ QueueNotified /\ DoneNotified

(* WakeInv is inductive.                                                   *)
LEMMA WakeInvInductive ==
  /\ Init => WakeInv
  /\ WakeInv /\ [Next]_vars => WakeInv'
<1>1. ASSUME Init PROVE WakeInv
  <2>1. \A w \in Workers : pc[w] = "check"
    BY <1>1, ActorFacts DEF Init
  <2>2. pc[Owner] = "idle" /\ \A a \in Actors : pc[a] \in {"idle", "check"}
    BY <1>1, ActorFacts DEF Init
  <2>3. OnOwnQueue /\ NothingToDo
    BY <2>1 DEF OnOwnQueue, NothingToDo
  <2>4. HoldsMutex /\ PushedTask
    BY <2>2 DEF HoldsMutex, PushedTask
  <2>5. QueueNotified /\ DoneNotified
    BY <2>1 DEF QueueNotified, DoneNotified
  <2> QED
    BY <1>1, <2>3, <2>4, <2>5, InitTypeOK DEF WakeInv
<1>2. ASSUME WakeInv, [Next]_vars PROVE WakeInv'
  BY <1>2, NextTypeOK, OnOwnQueueNext, HoldsMutexNext, NothingToDoNext, QueueNotifiedNext,
     DoneNotifiedNext DEF WakeInv
<1> QED
  BY <1>1, <1>2

(* A worker that sleeps although its queue is not empty or is closed has a *)
(* notification on its way (NotificationQueue::push, try_push, done, pop). *)
THEOREM NoLostWakeup == Spec => []WakeupPending
<1>1. WakeInv => WakeupPending
  BY DEF WakeInv, QueueNotified, DoneNotified, WakeupPending
<1> QED
  BY <1>1, WakeInvInductive, PTL DEF Spec

-----------------------------------------------------------------------------
(* Where a task is: in the hands of a thread in QueueTask, in a queue, or  *)
(* with a worker, and never twice.                                         *)
Pushing == {"try_push", "try_inc", "push_inc"}
Counting == {"push_lock", "emplace"}
InTask  == {"run", "notify", "sd_flag", "sd_abort", "sd_done", "sd_notify"} \cup Pushing \cup Counting

ArgState ==
  \A a \in Actors :
    /\ pc[a] \in Pushing => arg[a] \in Tasks /\ tstate[arg[a]] = "pushing"
    /\ pc[a] \in Counting => arg[a] \in Tasks /\ tstate[arg[a]] = "counted"
ArgUnique ==
  \A a, b \in Actors :
    pc[a] \in Pushing \cup Counting /\ pc[b] \in Pushing \cup Counting /\ arg[a] = arg[b] => a = b
QueuedState ==
  \A q \in Workers : \A i \in 1 .. Len(queue[q]) : tstate[queue[q][i]] = "queued"
QueuedUnique ==
  \A q, r \in Workers : \A i \in 1 .. Len(queue[q]), j \in 1 .. Len(queue[r]) :
    queue[q][i] = queue[r][j] => q = r /\ i = j
CurState ==
  \A w \in Workers :
    /\ pc[w] = "have" => cur[w] \in Tasks /\ tstate[cur[w]] = "taken"
    /\ pc[w] \in InTask => cur[w] \in Tasks /\ tstate[cur[w]] = "running"
    /\ cur[w] \in Tasks => pc[w] = "have" \/ pc[w] \in InTask
CurUnique ==
  \A v, w \in Workers : cur[w] \in Tasks /\ cur[w] = cur[v] => w = v
PushingHeld ==
  \A t \in Tasks : tstate[t] = "pushing" => \E a \in Actors : pc[a] \in Pushing /\ arg[a] = t
TakenHeld ==
  \A t \in Tasks : tstate[t] = "taken" => \E w \in Workers : pc[w] = "have" /\ cur[w] = t
RunningHeld ==
  \A t \in Tasks : tstate[t] = "running" => \E w \in Workers : pc[w] \in InTask /\ cur[w] = t
(* Shutdown sets shutdown_ before anything else.                           *)
ShutdownFirst ==
  /\ \A a \in Actors : pc[a] \in {"sd_abort", "sd_done", "sd_notify", "join", "gone"} => shutdown
  /\ cdone => shutdown
(* WaitableZeroCounter::mutex_ is held exclusively by the owner only.      *)
OwnerLock == cmutex <=> pc[Owner] \in {"wz_pred", "wz_block"}

(* The elements of a sequence after an append and without its head.        *)
LEMMA AppendElements ==
  ASSUME NEW S, NEW s \in Seq(S), NEW x \in S
  PROVE  \A i \in 1 .. Len(Append(s, x)) :
           \/ i \in 1 .. Len(s) /\ Append(s, x)[i] = s[i]
           \/ i = Len(s) + 1 /\ Append(s, x)[i] = x
OBVIOUS

LEMMA TailElements ==
  ASSUME NEW S, NEW s \in Seq(S), s # <<>>
  PROVE  /\ \A i \in 1 .. Len(Tail(s)) : i + 1 \in 1 .. Len(s) /\ Tail(s)[i] = s[i + 1]
         /\ 1 \in 1 .. Len(s) /\ Head(s) = s[1] /\ Head(s) \in S
OBVIOUS

(* A non-empty queue has a queued task at its front.                       *)
LEMMA HeadQueued ==
  ASSUME TypeOK, QueuedState, NEW q \in Workers, queue[q] # <<>>
  PROVE  Head(queue[q]) \in Tasks /\ tstate[Head(queue[q])] = "queued"
<1>1. queue[q] \in Seq(Tasks)
  BY DEF TypeOK
<1> QED
  BY <1>1, TailElements DEF QueuedState


(* A task in the hands of QueueTask is counted once and queued once.       *)
LEMMA ArgStateNext ==
  ASSUME TypeOK, ArgState, ArgUnique, QueuedState, CurState, [Next]_vars
  PROVE  ArgState'
<1> USE DEF Goto, StepNotify, Lock, Unlock, qvars, cvars, Pushing, Counting, ArgState
<1>0. pc \in [Actors -> PCs]
  BY DEF TypeOK
<1>1. tstate \in [Tasks -> TaskStates]
  BY DEF TypeOK
<1>2. arg \in [Actors -> Tasks \cup {NoTask}] /\ NoTask \notin Tasks
  BY TaskAssumption DEF TypeOK
<1>3. cur \in [Workers -> Tasks \cup {NoTask}] /\ NoTask \notin Tasks
  BY TaskAssumption DEF TypeOK
<1>4. ASSUME NEW a \in Actors, CallStep(a) PROVE ArgState'
  <2>1. CASE TryPushLock(a)
    BY <2>1, <1>0, <1>1, <1>2, <1>3, ActorFacts DEF TryPushLock
  <2>2. CASE TryPushFail(a)
    BY <2>2, <1>0, <1>1, <1>2, <1>3, ActorFacts DEF TryPushFail
  <2>3. CASE TryPushGiveUp(a)
    BY <2>3, <1>0, <1>1, <1>2, <1>3, ActorFacts DEF TryPushGiveUp
  <2>4. CASE PushIncrement(a)
    BY <2>4, <1>0, <1>1, <1>2, <1>3, ActorFacts DEF PushIncrement, Increment, ArgUnique
  <2>5. CASE PushLock(a)
    BY <2>5, <1>0, <1>1, <1>2, <1>3, ActorFacts DEF PushLock
  <2>6. CASE Emplace(a)
    BY <2>6, <1>0, <1>1, <1>2, <1>3, ActorFacts DEF Emplace, ArgUnique
  <2>7. CASE PushNotify(a)
    BY <2>7, <1>0, <1>1, <1>2, <1>3, ActorFacts DEF PushNotify
  <2>8. CASE SetShutdown(a)
    BY <2>8, <1>0, <1>1, <1>2, <1>3, ActorFacts DEF SetShutdown
  <2>9. CASE Abort(a)
    BY <2>9, <1>0, <1>1, <1>2, <1>3, ActorFacts DEF Abort
  <2>10. CASE QueueDone(a)
    BY <2>10, <1>0, <1>1, <1>2, <1>3, ActorFacts DEF QueueDone
  <2>11. CASE QueueDoneNotify(a)
    BY <2>11, <1>0, <1>1, <1>2, <1>3, ActorFacts DEF QueueDoneNotify
  <2>12. CASE ShutdownReturn(a)
    BY <2>12, <1>0, <1>1, <1>2, <1>3, ActorFacts DEF ShutdownReturn
  <2> QED
    BY <1>4, <2>1, <2>2, <2>3, <2>4, <2>5, <2>6, <2>7, <2>8, <2>9, <2>10, <2>11, <2>12 DEF CallStep
<1>5. ASSUME NEW w \in Workers, WorkerStep(w) PROVE ArgState'
  <2>1. CASE Check(w)
    BY <2>1, <1>0, <1>1, <1>2, <1>3, ActorFacts DEF Check
  <2>2. CASE TryPopLock(w)
    BY <2>2, <1>0, <1>1, <1>2, <1>3, ActorFacts DEF TryPopLock
  <2>3. CASE TryPopFail(w)
    BY <2>3, <1>0, <1>1, <1>2, <1>3, ActorFacts DEF TryPopFail
  <2>4. CASE Pop(w)
    BY <2>4, <1>0, <1>1, <1>2, <1>3, ActorFacts DEF Pop
  <2>5. CASE PopLock(w)
    BY <2>5, <1>0, <1>1, <1>2, <1>3, ActorFacts DEF PopLock
  <2>6. CASE IdleDecrement(w)
    BY <2>6, <1>0, <1>1, <1>2, <1>3, ActorFacts DEF IdleDecrement, Decrement
  <2>7. CASE Wait(w)
    BY <2>7, <1>0, <1>1, <1>2, <1>3, ActorFacts DEF Wait
  <2>8. CASE Recheck(w)
    BY <2>8, <1>0, <1>1, <1>2, <1>3, ActorFacts DEF Recheck
  <2>9. CASE WakeIncrement(w)
    BY <2>9, <1>0, <1>1, <1>2, <1>3, ActorFacts DEF WakeIncrement, Increment
  <2>10. CASE Take(w)
    <3>1. Head(queue[Slot(w)]) \in Tasks /\ tstate[Head(queue[Slot(w)])] = "queued"
      BY <2>10, HeadQueued, SlotInWorkers, ActorFacts DEF Take
    <3> QED
      BY <2>10, <3>1, <1>0, <1>1, <1>2, <1>3, ActorFacts DEF Take, Decrement
  <2>11. CASE TakeNothing(w)
    BY <2>11, <1>0, <1>1, <1>2, <1>3, ActorFacts DEF TakeNothing
  <2>12. CASE StartOrDrop(w)
    BY <2>12, <1>0, <1>1, <1>2, <1>3, ActorFacts DEF StartOrDrop, CurState
  <2>13. CASE FinishTask(w)
    BY <2>13, <1>0, <1>1, <1>2, <1>3, ActorFacts DEF FinishTask, CurState, InTask
  <2> QED
    BY <1>5, <2>1, <2>2, <2>3, <2>4, <2>5, <2>6, <2>7, <2>8, <2>9, <2>10, <2>11, <2>12, <2>13 DEF WorkerStep
<1>6. CASE OwnerStep
  <2>1. CASE WaitForZeroTest
    BY <2>1, <1>0, <1>1, <1>2, <1>3, ActorFacts DEF WaitForZeroTest
  <2>2. CASE WaitForZeroLock
    BY <2>2, <1>0, <1>1, <1>2, <1>3, ActorFacts DEF WaitForZeroLock
  <2>3. CASE WaitForZeroPredicate
    BY <2>3, <1>0, <1>1, <1>2, <1>3, ActorFacts DEF WaitForZeroPredicate
  <2>4. CASE WaitForZeroBlock
    BY <2>4, <1>0, <1>1, <1>2, <1>3, ActorFacts DEF WaitForZeroBlock
  <2>5. CASE FinishReturn
    BY <2>5, <1>0, <1>1, <1>2, <1>3, ActorFacts DEF FinishReturn
  <2>6. CASE Join
    BY <2>6, <1>0, <1>1, <1>2, <1>3, ActorFacts DEF Join
  <2> QED
    BY <1>6, <2>1, <2>2, <2>3, <2>4, <2>5, <2>6 DEF OwnerStep
<1>7. ASSUME NEW a \in Actors, SpuriousWakeup(a) PROVE ArgState'
  BY <1>7, <1>0, <1>1, <1>2, <1>3, ActorFacts DEF SpuriousWakeup
<1>8. ASSUME NEW a \in Actors, NEW t \in Tasks, QueueTask(a, t) PROVE ArgState'
  BY <1>8, <1>0, <1>1, <1>2, <1>3, ActorFacts DEF QueueTask
<1>9. ASSUME NEW w \in Workers, CallShutdown(w) PROVE ArgState'
  BY <1>9, <1>0, <1>1, <1>2, <1>3, ActorFacts DEF CallShutdown
<1>10. CASE Finish
  BY <1>10, <1>0, <1>1, <1>2, <1>3, ActorFacts DEF Finish
<1>11. CASE UNCHANGED vars
  BY <1>11, <1>0, <1>1, <1>2, <1>3, ActorFacts DEF vars
<1> QED
  BY <1>4, <1>5, <1>6, <1>7, <1>8, <1>9, <1>10, <1>11 DEF Next, Terminated

(* No two threads push the same task.                                      *)
LEMMA ArgUniqueNext ==
  ASSUME TypeOK, ArgState, ArgUnique, [Next]_vars
  PROVE  ArgUnique'
<1> USE DEF Goto, StepNotify, Lock, Unlock, qvars, cvars, Pushing, Counting, ArgUnique
<1>0. pc \in [Actors -> PCs]
  BY DEF TypeOK
<1>1. tstate \in [Tasks -> TaskStates]
  BY DEF TypeOK
<1>2. arg \in [Actors -> Tasks \cup {NoTask}] /\ NoTask \notin Tasks
  BY TaskAssumption DEF TypeOK
<1>3. ASSUME NEW a \in Actors, CallStep(a) PROVE ArgUnique'
  <2>1. CASE TryPushLock(a)
    BY <2>1, <1>0, <1>1, <1>2, ActorFacts DEF TryPushLock
  <2>2. CASE TryPushFail(a)
    BY <2>2, <1>0, <1>1, <1>2, ActorFacts DEF TryPushFail
  <2>3. CASE TryPushGiveUp(a)
    BY <2>3, <1>0, <1>1, <1>2, ActorFacts DEF TryPushGiveUp
  <2>4. CASE PushIncrement(a)
    BY <2>4, <1>0, <1>1, <1>2, ActorFacts DEF PushIncrement, Increment
  <2>5. CASE PushLock(a)
    BY <2>5, <1>0, <1>1, <1>2, ActorFacts DEF PushLock
  <2>6. CASE Emplace(a)
    BY <2>6, <1>0, <1>1, <1>2, ActorFacts DEF Emplace
  <2>7. CASE PushNotify(a)
    BY <2>7, <1>0, <1>1, <1>2, ActorFacts DEF PushNotify
  <2>8. CASE SetShutdown(a)
    BY <2>8, <1>0, <1>1, <1>2, ActorFacts DEF SetShutdown
  <2>9. CASE Abort(a)
    BY <2>9, <1>0, <1>1, <1>2, ActorFacts DEF Abort
  <2>10. CASE QueueDone(a)
    BY <2>10, <1>0, <1>1, <1>2, ActorFacts DEF QueueDone
  <2>11. CASE QueueDoneNotify(a)
    BY <2>11, <1>0, <1>1, <1>2, ActorFacts DEF QueueDoneNotify
  <2>12. CASE ShutdownReturn(a)
    BY <2>12, <1>0, <1>1, <1>2, ActorFacts DEF ShutdownReturn
  <2> QED
    BY <1>3, <2>1, <2>2, <2>3, <2>4, <2>5, <2>6, <2>7, <2>8, <2>9, <2>10, <2>11, <2>12 DEF CallStep
<1>4. ASSUME NEW w \in Workers, WorkerStep(w) PROVE ArgUnique'
  <2>1. CASE Check(w)
    BY <2>1, <1>0, <1>1, <1>2, ActorFacts DEF Check
  <2>2. CASE TryPopLock(w)
    BY <2>2, <1>0, <1>1, <1>2, ActorFacts DEF TryPopLock
  <2>3. CASE TryPopFail(w)
    BY <2>3, <1>0, <1>1, <1>2, ActorFacts DEF TryPopFail
  <2>4. CASE Pop(w)
    BY <2>4, <1>0, <1>1, <1>2, ActorFacts DEF Pop
  <2>5. CASE PopLock(w)
    BY <2>5, <1>0, <1>1, <1>2, ActorFacts DEF PopLock
  <2>6. CASE IdleDecrement(w)
    BY <2>6, <1>0, <1>1, <1>2, ActorFacts DEF IdleDecrement, Decrement
  <2>7. CASE Wait(w)
    BY <2>7, <1>0, <1>1, <1>2, ActorFacts DEF Wait
  <2>8. CASE Recheck(w)
    BY <2>8, <1>0, <1>1, <1>2, ActorFacts DEF Recheck
  <2>9. CASE WakeIncrement(w)
    BY <2>9, <1>0, <1>1, <1>2, ActorFacts DEF WakeIncrement, Increment
  <2>10. CASE Take(w)
    BY <2>10, <1>0, <1>1, <1>2, ActorFacts DEF Take, Decrement
  <2>11. CASE TakeNothing(w)
    BY <2>11, <1>0, <1>1, <1>2, ActorFacts DEF TakeNothing
  <2>12. CASE StartOrDrop(w)
    BY <2>12, <1>0, <1>1, <1>2, ActorFacts DEF StartOrDrop
  <2>13. CASE FinishTask(w)
    BY <2>13, <1>0, <1>1, <1>2, ActorFacts DEF FinishTask
  <2> QED
    BY <1>4, <2>1, <2>2, <2>3, <2>4, <2>5, <2>6, <2>7, <2>8, <2>9, <2>10, <2>11, <2>12, <2>13 DEF WorkerStep
<1>5. CASE OwnerStep
  <2>1. CASE WaitForZeroTest
    BY <2>1, <1>0, <1>1, <1>2, ActorFacts DEF WaitForZeroTest
  <2>2. CASE WaitForZeroLock
    BY <2>2, <1>0, <1>1, <1>2, ActorFacts DEF WaitForZeroLock
  <2>3. CASE WaitForZeroPredicate
    BY <2>3, <1>0, <1>1, <1>2, ActorFacts DEF WaitForZeroPredicate
  <2>4. CASE WaitForZeroBlock
    BY <2>4, <1>0, <1>1, <1>2, ActorFacts DEF WaitForZeroBlock
  <2>5. CASE FinishReturn
    BY <2>5, <1>0, <1>1, <1>2, ActorFacts DEF FinishReturn
  <2>6. CASE Join
    BY <2>6, <1>0, <1>1, <1>2, ActorFacts DEF Join
  <2> QED
    BY <1>5, <2>1, <2>2, <2>3, <2>4, <2>5, <2>6 DEF OwnerStep
<1>6. ASSUME NEW a \in Actors, SpuriousWakeup(a) PROVE ArgUnique'
  BY <1>6, <1>0, <1>1, <1>2, ActorFacts DEF SpuriousWakeup
<1>7. ASSUME NEW a \in Actors, NEW t \in Tasks, QueueTask(a, t) PROVE ArgUnique'
  BY <1>7, <1>0, <1>1, <1>2, ActorFacts DEF QueueTask, ArgState
<1>8. ASSUME NEW w \in Workers, CallShutdown(w) PROVE ArgUnique'
  BY <1>8, <1>0, <1>1, <1>2, ActorFacts DEF CallShutdown
<1>9. CASE Finish
  BY <1>9, <1>0, <1>1, <1>2, ActorFacts DEF Finish
<1>10. CASE UNCHANGED vars
  BY <1>10, <1>0, <1>1, <1>2, ActorFacts DEF vars
<1> QED
  BY <1>3, <1>4, <1>5, <1>6, <1>7, <1>8, <1>9, <1>10 DEF Next, Terminated

(* Exactly the tasks in a queue are in state queued.                       *)
LEMMA QueuedStateNext ==
  ASSUME TypeOK, ArgState, CurState, QueuedState, QueuedUnique, [Next]_vars
  PROVE  QueuedState'
<1> USE DEF Goto, StepNotify, Lock, Unlock, qvars, cvars, QueuedState
<1>0. queue \in [Workers -> Seq(Tasks)]
  BY DEF TypeOK
<1>1. tstate \in [Tasks -> TaskStates]
  BY DEF TypeOK
<1>2. \A b \in Actors : Slot(b) \in Workers
  BY SlotInWorkers
<1>3. arg \in [Actors -> Tasks \cup {NoTask}] /\ NoTask \notin Tasks
  BY TaskAssumption DEF TypeOK
<1>4. \A q \in Workers : \A i \in 1 .. Len(queue[q]) : queue[q][i] \in Tasks
  BY <1>0
<1>5. ASSUME NEW a \in Actors, CallStep(a) PROVE QueuedState'
  <2>1. CASE TryPushLock(a)
    BY <2>1, <1>0, <1>1, <1>2, <1>3, <1>4, ActorFacts DEF TryPushLock
  <2>2. CASE TryPushFail(a)
    BY <2>2, <1>0, <1>1, <1>2, <1>3, <1>4, ActorFacts DEF TryPushFail
  <2>3. CASE TryPushGiveUp(a)
    BY <2>3, <1>0, <1>1, <1>2, <1>3, <1>4, ActorFacts DEF TryPushGiveUp
  <2>4. CASE PushIncrement(a)
    <3>1. \A t \in Tasks : tstate[t] = "queued" => tstate'[t] = "queued"
      BY <2>4, <1>1, <1>3, ActorFacts DEF PushIncrement, ArgState, Pushing
    <3>2. queue' = queue
      BY <2>4 DEF PushIncrement
    <3> QED
      BY <3>1, <3>2, <1>4 DEF QueuedState
  <2>5. CASE PushLock(a)
    BY <2>5, <1>0, <1>1, <1>2, <1>3, <1>4, ActorFacts DEF PushLock
  <2>6. CASE Emplace(a)
    <3>1. /\ arg[a] \in Tasks
          /\ queue' = [queue EXCEPT ![Slot(a)] = Append(@, arg[a])]
          /\ tstate' = [tstate EXCEPT ![arg[a]] = "queued"]
      BY <2>6 DEF Emplace, ArgState, Counting
    <3>2. /\ \A q \in Workers : q # Slot(a) => queue'[q] = queue[q]
          /\ queue'[Slot(a)] = Append(queue[Slot(a)], arg[a])
          /\ queue[Slot(a)] \in Seq(Tasks) /\ Len(queue[Slot(a)]) \in Nat
          /\ \A t \in Tasks : tstate'[t] = IF t = arg[a] THEN "queued" ELSE tstate[t]
      BY <3>1, <1>0, <1>1, <1>2, <1>3
    <3>3. \A i \in 1 .. Len(queue'[Slot(a)]) :
            \/ queue'[Slot(a)][i] = arg[a]
            \/ i \in 1 .. Len(queue[Slot(a)]) /\ queue'[Slot(a)][i] = queue[Slot(a)][i]
      BY <3>1, <3>2, AppendElements
    <3> QED
      BY <3>1, <3>2, <3>3, <1>4 DEF QueuedState
  <2>7. CASE PushNotify(a)
    BY <2>7, <1>0, <1>1, <1>2, <1>3, <1>4, ActorFacts DEF PushNotify
  <2>8. CASE SetShutdown(a)
    BY <2>8, <1>0, <1>1, <1>2, <1>3, <1>4, ActorFacts DEF SetShutdown
  <2>9. CASE Abort(a)
    BY <2>9, <1>0, <1>1, <1>2, <1>3, <1>4, ActorFacts DEF Abort
  <2>10. CASE QueueDone(a)
    BY <2>10, <1>0, <1>1, <1>2, <1>3, <1>4, ActorFacts DEF QueueDone
  <2>11. CASE QueueDoneNotify(a)
    BY <2>11, <1>0, <1>1, <1>2, <1>3, <1>4, ActorFacts DEF QueueDoneNotify
  <2>12. CASE ShutdownReturn(a)
    BY <2>12, <1>0, <1>1, <1>2, <1>3, <1>4, ActorFacts DEF ShutdownReturn
  <2> QED
    BY <1>5, <2>1, <2>2, <2>3, <2>4, <2>5, <2>6, <2>7, <2>8, <2>9, <2>10, <2>11, <2>12 DEF CallStep
<1>6. ASSUME NEW w \in Workers, WorkerStep(w) PROVE QueuedState'
  <2>1. CASE Check(w)
    BY <2>1, <1>0, <1>1, <1>2, <1>3, <1>4, ActorFacts DEF Check
  <2>2. CASE TryPopLock(w)
    BY <2>2, <1>0, <1>1, <1>2, <1>3, <1>4, ActorFacts DEF TryPopLock
  <2>3. CASE TryPopFail(w)
    BY <2>3, <1>0, <1>1, <1>2, <1>3, <1>4, ActorFacts DEF TryPopFail
  <2>4. CASE Pop(w)
    BY <2>4, <1>0, <1>1, <1>2, <1>3, <1>4, ActorFacts DEF Pop
  <2>5. CASE PopLock(w)
    BY <2>5, <1>0, <1>1, <1>2, <1>3, <1>4, ActorFacts DEF PopLock
  <2>6. CASE IdleDecrement(w)
    BY <2>6, <1>0, <1>1, <1>2, <1>3, <1>4, ActorFacts DEF IdleDecrement, Decrement
  <2>7. CASE Wait(w)
    BY <2>7, <1>0, <1>1, <1>2, <1>3, <1>4, ActorFacts DEF Wait
  <2>8. CASE Recheck(w)
    BY <2>8, <1>0, <1>1, <1>2, <1>3, <1>4, ActorFacts DEF Recheck
  <2>9. CASE WakeIncrement(w)
    BY <2>9, <1>0, <1>1, <1>2, <1>3, <1>4, ActorFacts DEF WakeIncrement, Increment
  <2>10. CASE Take(w)
    <3>1. /\ queue[Slot(w)] # <<>>
          /\ queue' = [queue EXCEPT ![Slot(w)] = Tail(@)]
          /\ tstate' = [tstate EXCEPT ![Head(queue[Slot(w)])] = "taken"]
      BY <2>10 DEF Take
    <3>2. /\ \A q \in Workers : q # Slot(w) => queue'[q] = queue[q]
          /\ queue'[Slot(w)] = Tail(queue[Slot(w)])
          /\ queue[Slot(w)] \in Seq(Tasks) /\ Len(queue[Slot(w)]) \in Nat \ {0}
          /\ \A t \in Tasks : tstate'[t] = IF t = Head(queue[Slot(w)]) THEN "taken" ELSE tstate[t]
      BY <3>1, <1>0, <1>1, <1>2, ActorFacts, TailElements
    <3>3. /\ \A i \in 1 .. Len(Tail(queue[Slot(w)])) :
                 i + 1 \in 1 .. Len(queue[Slot(w)]) /\ Tail(queue[Slot(w)])[i] = queue[Slot(w)][i + 1]
          /\ 1 \in 1 .. Len(queue[Slot(w)]) /\ Head(queue[Slot(w)]) = queue[Slot(w)][1]
      BY <3>1, <3>2, TailElements
    <3> SUFFICES ASSUME NEW q \in Workers, NEW i \in 1 .. Len(queue'[q])
                 PROVE  tstate'[queue'[q][i]] = "queued"
      BY DEF QueuedState
    <3>4. Slot(w) \in Workers
      BY <1>2, ActorFacts
    <3>5. CASE q = Slot(w)
      <4>1. i + 1 \in 1 .. Len(queue[q]) /\ 1 \in 1 .. Len(queue[q]) /\ queue'[q][i] = queue[q][i + 1]
        BY <3>2, <3>3, <3>5
      <4>2. queue[q][i + 1] # queue[q][1] /\ tstate[queue[q][i + 1]] = "queued"
        <5>1. i + 1 # 1
          OBVIOUS
        <5> QED
          BY <4>1, <5>1 DEF QueuedState, QueuedUnique
      <4> QED
        BY <3>2, <3>3, <3>5, <4>1, <4>2, <1>4
    <3>6. CASE q # Slot(w)
      BY <3>2, <3>3, <3>4, <3>6, <1>4 DEF QueuedState, QueuedUnique
    <3> QED
      BY <3>5, <3>6
  <2>11. CASE TakeNothing(w)
    BY <2>11, <1>0, <1>1, <1>2, <1>3, <1>4, ActorFacts DEF TakeNothing
  <2>12. CASE StartOrDrop(w)
    <3>1. \A t \in Tasks : tstate[t] = "queued" => tstate'[t] = "queued"
      BY <2>12, <1>1, <1>3, ActorFacts DEF StartOrDrop, CurState
    <3>2. queue' = queue
      BY <2>12 DEF StartOrDrop
    <3> QED
      BY <3>1, <3>2, <1>4 DEF QueuedState
  <2>13. CASE FinishTask(w)
    <3>1. \A t \in Tasks : tstate[t] = "queued" => tstate'[t] = "queued"
      BY <2>13, <1>1, <1>3, ActorFacts DEF FinishTask, CurState, InTask
    <3>2. queue' = queue
      BY <2>13 DEF FinishTask
    <3> QED
      BY <3>1, <3>2, <1>4 DEF QueuedState
  <2> QED
    BY <1>6, <2>1, <2>2, <2>3, <2>4, <2>5, <2>6, <2>7, <2>8, <2>9, <2>10, <2>11, <2>12, <2>13 DEF WorkerStep
<1>7. CASE OwnerStep
  <2>1. CASE WaitForZeroTest
    BY <2>1, <1>0, <1>1, <1>2, <1>3, <1>4, ActorFacts DEF WaitForZeroTest
  <2>2. CASE WaitForZeroLock
    BY <2>2, <1>0, <1>1, <1>2, <1>3, <1>4, ActorFacts DEF WaitForZeroLock
  <2>3. CASE WaitForZeroPredicate
    BY <2>3, <1>0, <1>1, <1>2, <1>3, <1>4, ActorFacts DEF WaitForZeroPredicate
  <2>4. CASE WaitForZeroBlock
    BY <2>4, <1>0, <1>1, <1>2, <1>3, <1>4, ActorFacts DEF WaitForZeroBlock
  <2>5. CASE FinishReturn
    BY <2>5, <1>0, <1>1, <1>2, <1>3, <1>4, ActorFacts DEF FinishReturn
  <2>6. CASE Join
    BY <2>6, <1>0, <1>1, <1>2, <1>3, <1>4, ActorFacts DEF Join
  <2> QED
    BY <1>7, <2>1, <2>2, <2>3, <2>4, <2>5, <2>6 DEF OwnerStep
<1>8. ASSUME NEW a \in Actors, SpuriousWakeup(a) PROVE QueuedState'
  BY <1>8, <1>0, <1>1, <1>2, <1>3, <1>4, ActorFacts DEF SpuriousWakeup
<1>9. ASSUME NEW a \in Actors, NEW t \in Tasks, QueueTask(a, t) PROVE QueuedState'
  BY <1>9, <1>0, <1>1, <1>2, <1>3, <1>4, ActorFacts DEF QueueTask
<1>10. ASSUME NEW w \in Workers, CallShutdown(w) PROVE QueuedState'
  BY <1>10, <1>0, <1>1, <1>2, <1>3, <1>4, ActorFacts DEF CallShutdown
<1>11. CASE Finish
  BY <1>11, <1>0, <1>1, <1>2, <1>3, <1>4, ActorFacts DEF Finish
<1>12. CASE UNCHANGED vars
  BY <1>12, <1>0, <1>1, <1>2, <1>3, <1>4, ActorFacts DEF vars
<1> QED
  BY <1>5, <1>6, <1>7, <1>8, <1>9, <1>10, <1>11, <1>12 DEF Next, Terminated

(* A task is in at most one queue, and there once.                         *)
LEMMA QueuedUniqueNext ==
  ASSUME TypeOK, ArgState, QueuedState, QueuedUnique, [Next]_vars
  PROVE  QueuedUnique'
<1> USE DEF Goto, StepNotify, Lock, Unlock, qvars, cvars, QueuedUnique
<1>0. queue \in [Workers -> Seq(Tasks)]
  BY DEF TypeOK
<1>1. tstate \in [Tasks -> TaskStates]
  BY DEF TypeOK
<1>2. \A b \in Actors : Slot(b) \in Workers
  BY SlotInWorkers
<1>3. arg \in [Actors -> Tasks \cup {NoTask}] /\ NoTask \notin Tasks
  BY TaskAssumption DEF TypeOK
<1>4. ASSUME NEW a \in Actors, CallStep(a) PROVE QueuedUnique'
  <2>1. CASE TryPushLock(a)
    BY <2>1, <1>0, <1>1, <1>2, <1>3, ActorFacts DEF TryPushLock
  <2>2. CASE TryPushFail(a)
    BY <2>2, <1>0, <1>1, <1>2, <1>3, ActorFacts DEF TryPushFail
  <2>3. CASE TryPushGiveUp(a)
    BY <2>3, <1>0, <1>1, <1>2, <1>3, ActorFacts DEF TryPushGiveUp
  <2>4. CASE PushIncrement(a)
    BY <2>4, <1>0, <1>1, <1>2, <1>3, ActorFacts DEF PushIncrement, Increment
  <2>5. CASE PushLock(a)
    BY <2>5, <1>0, <1>1, <1>2, <1>3, ActorFacts DEF PushLock
  <2>6. CASE Emplace(a)
    <3>1. /\ arg[a] \in Tasks
          /\ queue' = [queue EXCEPT ![Slot(a)] = Append(@, arg[a])]
          /\ tstate' = [tstate EXCEPT ![arg[a]] = "queued"]
      BY <2>6 DEF Emplace, ArgState, Counting
    <3>2. /\ \A q \in Workers : q # Slot(a) => queue'[q] = queue[q]
          /\ queue'[Slot(a)] = Append(queue[Slot(a)], arg[a])
          /\ queue[Slot(a)] \in Seq(Tasks) /\ Len(queue[Slot(a)]) \in Nat
          /\ \A t \in Tasks : tstate'[t] = IF t = arg[a] THEN "queued" ELSE tstate[t]
      BY <3>1, <1>0, <1>1, <1>2, <1>3
    <3>3. \A i \in 1 .. Len(queue'[Slot(a)]) :
            \/ i = Len(queue[Slot(a)]) + 1 /\ queue'[Slot(a)][i] = arg[a]
            \/ i \in 1 .. Len(queue[Slot(a)]) /\ queue'[Slot(a)][i] = queue[Slot(a)][i]
      BY <3>1, <3>2, AppendElements
    <3>4. \A q \in Workers : \A i \in 1 .. Len(queue[q]) : queue[q][i] # arg[a]
      BY <2>6 DEF Emplace, ArgState, Counting, QueuedState
    <3> SUFFICES ASSUME NEW q \in Workers, NEW r \in Workers,
                        NEW i \in 1 .. Len(queue'[q]), NEW j \in 1 .. Len(queue'[r]),
                        queue'[q][i] = queue'[r][j]
                 PROVE  q = r /\ i = j
      BY DEF QueuedUnique
    <3>5. CASE q = Slot(a) /\ r = Slot(a)
      <4>1. \/ i = Len(queue[Slot(a)]) + 1 /\ j = Len(queue[Slot(a)]) + 1
            \/ /\ i \in 1 .. Len(queue[q]) /\ j \in 1 .. Len(queue[r])
               /\ queue[q][i] = queue[r][j]
        BY <3>2, <3>3, <3>4, <3>5
      <4> QED
        BY <3>5, <4>1 DEF QueuedUnique
    <3>6. CASE q # Slot(a) /\ r # Slot(a)
      BY <3>2, <3>6 DEF QueuedUnique
    <3>7. CASE q = Slot(a) /\ r # Slot(a)
      <4>1. /\ j \in 1 .. Len(queue[r]) /\ queue'[r][j] # arg[a]
            /\ i \in 1 .. Len(queue[q]) /\ queue[q][i] = queue[r][j]
        BY <3>2, <3>3, <3>4, <3>7
      <4> QED
        BY <4>1 DEF QueuedUnique
    <3>8. CASE q # Slot(a) /\ r = Slot(a)
      <4>1. /\ i \in 1 .. Len(queue[q]) /\ queue'[q][i] # arg[a]
            /\ j \in 1 .. Len(queue[r]) /\ queue[q][i] = queue[r][j]
        BY <3>2, <3>3, <3>4, <3>8
      <4> QED
        BY <4>1 DEF QueuedUnique
    <3> QED
      BY <3>5, <3>6, <3>7, <3>8
  <2>7. CASE PushNotify(a)
    BY <2>7, <1>0, <1>1, <1>2, <1>3, ActorFacts DEF PushNotify
  <2>8. CASE SetShutdown(a)
    BY <2>8, <1>0, <1>1, <1>2, <1>3, ActorFacts DEF SetShutdown
  <2>9. CASE Abort(a)
    BY <2>9, <1>0, <1>1, <1>2, <1>3, ActorFacts DEF Abort
  <2>10. CASE QueueDone(a)
    BY <2>10, <1>0, <1>1, <1>2, <1>3, ActorFacts DEF QueueDone
  <2>11. CASE QueueDoneNotify(a)
    BY <2>11, <1>0, <1>1, <1>2, <1>3, ActorFacts DEF QueueDoneNotify
  <2>12. CASE ShutdownReturn(a)
    BY <2>12, <1>0, <1>1, <1>2, <1>3, ActorFacts DEF ShutdownReturn
  <2> QED
    BY <1>4, <2>1, <2>2, <2>3, <2>4, <2>5, <2>6, <2>7, <2>8, <2>9, <2>10, <2>11, <2>12 DEF CallStep
<1>5. ASSUME NEW w \in Workers, WorkerStep(w) PROVE QueuedUnique'
  <2>1. CASE Check(w)
    BY <2>1, <1>0, <1>1, <1>2, <1>3, ActorFacts DEF Check
  <2>2. CASE TryPopLock(w)
    BY <2>2, <1>0, <1>1, <1>2, <1>3, ActorFacts DEF TryPopLock
  <2>3. CASE TryPopFail(w)
    BY <2>3, <1>0, <1>1, <1>2, <1>3, ActorFacts DEF TryPopFail
  <2>4. CASE Pop(w)
    BY <2>4, <1>0, <1>1, <1>2, <1>3, ActorFacts DEF Pop
  <2>5. CASE PopLock(w)
    BY <2>5, <1>0, <1>1, <1>2, <1>3, ActorFacts DEF PopLock
  <2>6. CASE IdleDecrement(w)
    BY <2>6, <1>0, <1>1, <1>2, <1>3, ActorFacts DEF IdleDecrement, Decrement
  <2>7. CASE Wait(w)
    BY <2>7, <1>0, <1>1, <1>2, <1>3, ActorFacts DEF Wait
  <2>8. CASE Recheck(w)
    BY <2>8, <1>0, <1>1, <1>2, <1>3, ActorFacts DEF Recheck
  <2>9. CASE WakeIncrement(w)
    BY <2>9, <1>0, <1>1, <1>2, <1>3, ActorFacts DEF WakeIncrement, Increment
  <2>10. CASE Take(w)
    <3>1. /\ queue[Slot(w)] # <<>>
          /\ queue' = [queue EXCEPT ![Slot(w)] = Tail(@)]
          /\ tstate' = [tstate EXCEPT ![Head(queue[Slot(w)])] = "taken"]
      BY <2>10 DEF Take
    <3>2. /\ \A q \in Workers : q # Slot(w) => queue'[q] = queue[q]
          /\ queue'[Slot(w)] = Tail(queue[Slot(w)])
          /\ queue[Slot(w)] \in Seq(Tasks) /\ Len(queue[Slot(w)]) \in Nat \ {0}
          /\ \A t \in Tasks : tstate'[t] = IF t = Head(queue[Slot(w)]) THEN "taken" ELSE tstate[t]
      BY <3>1, <1>0, <1>1, <1>2, ActorFacts, TailElements
    <3>3. \A i \in 1 .. Len(Tail(queue[Slot(w)])) :
            Tail(queue[Slot(w)])[i] = queue[Slot(w)][i + 1] /\ i + 1 \in 1 .. Len(queue[Slot(w)])
      BY <3>1, <3>2, TailElements
    <3> SUFFICES ASSUME NEW q \in Workers, NEW r \in Workers,
                        NEW i \in 1 .. Len(queue'[q]), NEW j \in 1 .. Len(queue'[r]),
                        queue'[q][i] = queue'[r][j]
                 PROVE  q = r /\ i = j
      BY DEF QueuedUnique
    <3>5. CASE q = Slot(w) /\ r = Slot(w)
      <4>1. /\ i + 1 \in 1 .. Len(queue[q]) /\ j + 1 \in 1 .. Len(queue[r])
            /\ queue[q][i + 1] = queue[r][j + 1]
        BY <3>2, <3>3, <3>5
      <4>2. q = r /\ i + 1 = j + 1
        BY <4>1 DEF QueuedUnique
      <4> QED
        BY <3>5, <4>2
    <3>6. CASE q # Slot(w) /\ r # Slot(w)
      BY <3>2, <3>6 DEF QueuedUnique
    <3>7. CASE q = Slot(w) /\ r # Slot(w)
      <4>1. /\ i + 1 \in 1 .. Len(queue[q]) /\ j \in 1 .. Len(queue[r])
            /\ queue[q][i + 1] = queue[r][j]
        BY <3>2, <3>3, <3>7
      <4>2. q = r /\ i + 1 = j
        BY <4>1 DEF QueuedUnique
      <4> QED
        BY <3>7, <4>2
    <3>8. CASE q # Slot(w) /\ r = Slot(w)
      <4>1. /\ i \in 1 .. Len(queue[q]) /\ j + 1 \in 1 .. Len(queue[r])
            /\ queue[q][i] = queue[r][j + 1]
        BY <3>2, <3>3, <3>8
      <4>2. q = r /\ i = j + 1
        BY <4>1 DEF QueuedUnique
      <4> QED
        BY <3>8, <4>2
    <3> QED
      BY <3>5, <3>6, <3>7, <3>8
  <2>11. CASE TakeNothing(w)
    BY <2>11, <1>0, <1>1, <1>2, <1>3, ActorFacts DEF TakeNothing
  <2>12. CASE StartOrDrop(w)
    BY <2>12, <1>0, <1>1, <1>2, <1>3, ActorFacts DEF StartOrDrop
  <2>13. CASE FinishTask(w)
    BY <2>13, <1>0, <1>1, <1>2, <1>3, ActorFacts DEF FinishTask
  <2> QED
    BY <1>5, <2>1, <2>2, <2>3, <2>4, <2>5, <2>6, <2>7, <2>8, <2>9, <2>10, <2>11, <2>12, <2>13 DEF WorkerStep
<1>6. CASE OwnerStep
  <2>1. CASE WaitForZeroTest
    BY <2>1, <1>0, <1>1, <1>2, <1>3, ActorFacts DEF WaitForZeroTest
  <2>2. CASE WaitForZeroLock
    BY <2>2, <1>0, <1>1, <1>2, <1>3, ActorFacts DEF WaitForZeroLock
  <2>3. CASE WaitForZeroPredicate
    BY <2>3, <1>0, <1>1, <1>2, <1>3, ActorFacts DEF WaitForZeroPredicate
  <2>4. CASE WaitForZeroBlock
    BY <2>4, <1>0, <1>1, <1>2, <1>3, ActorFacts DEF WaitForZeroBlock
  <2>5. CASE FinishReturn
    BY <2>5, <1>0, <1>1, <1>2, <1>3, ActorFacts DEF FinishReturn
  <2>6. CASE Join
    BY <2>6, <1>0, <1>1, <1>2, <1>3, ActorFacts DEF Join
  <2> QED
    BY <1>6, <2>1, <2>2, <2>3, <2>4, <2>5, <2>6 DEF OwnerStep
<1>7. ASSUME NEW a \in Actors, SpuriousWakeup(a) PROVE QueuedUnique'
  BY <1>7, <1>0, <1>1, <1>2, <1>3, ActorFacts DEF SpuriousWakeup
<1>8. ASSUME NEW a \in Actors, NEW t \in Tasks, QueueTask(a, t) PROVE QueuedUnique'
  BY <1>8, <1>0, <1>1, <1>2, <1>3, ActorFacts DEF QueueTask
<1>9. ASSUME NEW w \in Workers, CallShutdown(w) PROVE QueuedUnique'
  BY <1>9, <1>0, <1>1, <1>2, <1>3, ActorFacts DEF CallShutdown
<1>10. CASE Finish
  BY <1>10, <1>0, <1>1, <1>2, <1>3, ActorFacts DEF Finish
<1>11. CASE UNCHANGED vars
  BY <1>11, <1>0, <1>1, <1>2, <1>3, ActorFacts DEF vars
<1> QED
  BY <1>4, <1>5, <1>6, <1>7, <1>8, <1>9, <1>10, <1>11 DEF Next, Terminated

(* A worker has a task exactly from Take to the end of its body.           *)
LEMMA CurStateNext ==
  ASSUME TypeOK, ArgState, QueuedState, CurState, CurUnique, [Next]_vars
  PROVE  CurState'
<1> USE DEF Goto, StepNotify, Lock, Unlock, qvars, cvars, Pushing, Counting, CurState, InTask
<1>0. pc \in [Actors -> PCs]
  BY DEF TypeOK
<1>1. tstate \in [Tasks -> TaskStates]
  BY DEF TypeOK
<1>2. arg \in [Actors -> Tasks \cup {NoTask}] /\ NoTask \notin Tasks
  BY TaskAssumption DEF TypeOK
<1>3. cur \in [Workers -> Tasks \cup {NoTask}] /\ NoTask \notin Tasks
  BY TaskAssumption DEF TypeOK
<1>4. ASSUME NEW a \in Actors, CallStep(a) PROVE CurState'
  <2>1. CASE TryPushLock(a)
    BY <2>1, <1>0, <1>1, <1>2, <1>3, ActorFacts DEF TryPushLock
  <2>2. CASE TryPushFail(a)
    BY <2>2, <1>0, <1>1, <1>2, <1>3, ActorFacts DEF TryPushFail
  <2>3. CASE TryPushGiveUp(a)
    BY <2>3, <1>0, <1>1, <1>2, <1>3, ActorFacts DEF TryPushGiveUp
  <2>4. CASE PushIncrement(a)
    BY <2>4, <1>0, <1>1, <1>2, <1>3, ActorFacts DEF PushIncrement, Increment, ArgState
  <2>5. CASE PushLock(a)
    BY <2>5, <1>0, <1>1, <1>2, <1>3, ActorFacts DEF PushLock
  <2>6. CASE Emplace(a)
    BY <2>6, <1>0, <1>1, <1>2, <1>3, ActorFacts DEF Emplace, ArgState
  <2>7. CASE PushNotify(a)
    BY <2>7, <1>0, <1>1, <1>2, <1>3, ActorFacts DEF PushNotify
  <2>8. CASE SetShutdown(a)
    BY <2>8, <1>0, <1>1, <1>2, <1>3, ActorFacts DEF SetShutdown
  <2>9. CASE Abort(a)
    BY <2>9, <1>0, <1>1, <1>2, <1>3, ActorFacts DEF Abort
  <2>10. CASE QueueDone(a)
    BY <2>10, <1>0, <1>1, <1>2, <1>3, ActorFacts DEF QueueDone
  <2>11. CASE QueueDoneNotify(a)
    BY <2>11, <1>0, <1>1, <1>2, <1>3, ActorFacts DEF QueueDoneNotify
  <2>12. CASE ShutdownReturn(a)
    BY <2>12, <1>0, <1>1, <1>2, <1>3, ActorFacts DEF ShutdownReturn
  <2> QED
    BY <1>4, <2>1, <2>2, <2>3, <2>4, <2>5, <2>6, <2>7, <2>8, <2>9, <2>10, <2>11, <2>12 DEF CallStep
<1>5. ASSUME NEW w \in Workers, WorkerStep(w) PROVE CurState'
  <2>1. CASE Check(w)
    BY <2>1, <1>0, <1>1, <1>2, <1>3, ActorFacts DEF Check
  <2>2. CASE TryPopLock(w)
    BY <2>2, <1>0, <1>1, <1>2, <1>3, ActorFacts DEF TryPopLock
  <2>3. CASE TryPopFail(w)
    BY <2>3, <1>0, <1>1, <1>2, <1>3, ActorFacts DEF TryPopFail
  <2>4. CASE Pop(w)
    BY <2>4, <1>0, <1>1, <1>2, <1>3, ActorFacts DEF Pop
  <2>5. CASE PopLock(w)
    BY <2>5, <1>0, <1>1, <1>2, <1>3, ActorFacts DEF PopLock
  <2>6. CASE IdleDecrement(w)
    BY <2>6, <1>0, <1>1, <1>2, <1>3, ActorFacts DEF IdleDecrement, Decrement
  <2>7. CASE Wait(w)
    BY <2>7, <1>0, <1>1, <1>2, <1>3, ActorFacts DEF Wait
  <2>8. CASE Recheck(w)
    BY <2>8, <1>0, <1>1, <1>2, <1>3, ActorFacts DEF Recheck
  <2>9. CASE WakeIncrement(w)
    BY <2>9, <1>0, <1>1, <1>2, <1>3, ActorFacts DEF WakeIncrement, Increment
  <2>10. CASE Take(w)
    <3>1. Head(queue[Slot(w)]) \in Tasks /\ tstate[Head(queue[Slot(w)])] = "queued"
      BY <2>10, HeadQueued, SlotInWorkers, ActorFacts DEF Take
    <3> QED
      BY <2>10, <3>1, <1>0, <1>1, <1>2, <1>3, ActorFacts DEF Take, Decrement
  <2>11. CASE TakeNothing(w)
    BY <2>11, <1>0, <1>1, <1>2, <1>3, ActorFacts DEF TakeNothing
  <2>12. CASE StartOrDrop(w)
    BY <2>12, <1>0, <1>1, <1>2, <1>3, ActorFacts DEF StartOrDrop, CurUnique
  <2>13. CASE FinishTask(w)
    BY <2>13, <1>0, <1>1, <1>2, <1>3, ActorFacts DEF FinishTask, CurUnique
  <2> QED
    BY <1>5, <2>1, <2>2, <2>3, <2>4, <2>5, <2>6, <2>7, <2>8, <2>9, <2>10, <2>11, <2>12, <2>13 DEF WorkerStep
<1>6. CASE OwnerStep
  <2>1. CASE WaitForZeroTest
    BY <2>1, <1>0, <1>1, <1>2, <1>3, ActorFacts DEF WaitForZeroTest
  <2>2. CASE WaitForZeroLock
    BY <2>2, <1>0, <1>1, <1>2, <1>3, ActorFacts DEF WaitForZeroLock
  <2>3. CASE WaitForZeroPredicate
    BY <2>3, <1>0, <1>1, <1>2, <1>3, ActorFacts DEF WaitForZeroPredicate
  <2>4. CASE WaitForZeroBlock
    BY <2>4, <1>0, <1>1, <1>2, <1>3, ActorFacts DEF WaitForZeroBlock
  <2>5. CASE FinishReturn
    BY <2>5, <1>0, <1>1, <1>2, <1>3, ActorFacts DEF FinishReturn
  <2>6. CASE Join
    BY <2>6, <1>0, <1>1, <1>2, <1>3, ActorFacts DEF Join
  <2> QED
    BY <1>6, <2>1, <2>2, <2>3, <2>4, <2>5, <2>6 DEF OwnerStep
<1>7. ASSUME NEW a \in Actors, SpuriousWakeup(a) PROVE CurState'
  BY <1>7, <1>0, <1>1, <1>2, <1>3, ActorFacts DEF SpuriousWakeup
<1>8. ASSUME NEW a \in Actors, NEW t \in Tasks, QueueTask(a, t) PROVE CurState'
  BY <1>8, <1>0, <1>1, <1>2, <1>3, ActorFacts DEF QueueTask
<1>9. ASSUME NEW w \in Workers, CallShutdown(w) PROVE CurState'
  BY <1>9, <1>0, <1>1, <1>2, <1>3, ActorFacts DEF CallShutdown
<1>10. CASE Finish
  BY <1>10, <1>0, <1>1, <1>2, <1>3, ActorFacts DEF Finish
<1>11. CASE UNCHANGED vars
  BY <1>11, <1>0, <1>1, <1>2, <1>3, ActorFacts DEF vars
<1> QED
  BY <1>4, <1>5, <1>6, <1>7, <1>8, <1>9, <1>10, <1>11 DEF Next, Terminated

(* No two workers have the same task.                                      *)
LEMMA CurUniqueNext ==
  ASSUME TypeOK, QueuedState, CurState, CurUnique, [Next]_vars
  PROVE  CurUnique'
<1> USE DEF Goto, StepNotify, Lock, Unlock, qvars, cvars, CurUnique
<1>0. pc \in [Actors -> PCs]
  BY DEF TypeOK
<1>1. tstate \in [Tasks -> TaskStates]
  BY DEF TypeOK
<1>2. cur \in [Workers -> Tasks \cup {NoTask}] /\ NoTask \notin Tasks
  BY TaskAssumption DEF TypeOK
<1>3. ASSUME NEW a \in Actors, CallStep(a) PROVE CurUnique'
  <2>1. CASE TryPushLock(a)
    BY <2>1, <1>0, <1>1, <1>2, ActorFacts DEF TryPushLock
  <2>2. CASE TryPushFail(a)
    BY <2>2, <1>0, <1>1, <1>2, ActorFacts DEF TryPushFail
  <2>3. CASE TryPushGiveUp(a)
    BY <2>3, <1>0, <1>1, <1>2, ActorFacts DEF TryPushGiveUp
  <2>4. CASE PushIncrement(a)
    BY <2>4, <1>0, <1>1, <1>2, ActorFacts DEF PushIncrement, Increment
  <2>5. CASE PushLock(a)
    BY <2>5, <1>0, <1>1, <1>2, ActorFacts DEF PushLock
  <2>6. CASE Emplace(a)
    BY <2>6, <1>0, <1>1, <1>2, ActorFacts DEF Emplace
  <2>7. CASE PushNotify(a)
    BY <2>7, <1>0, <1>1, <1>2, ActorFacts DEF PushNotify
  <2>8. CASE SetShutdown(a)
    BY <2>8, <1>0, <1>1, <1>2, ActorFacts DEF SetShutdown
  <2>9. CASE Abort(a)
    BY <2>9, <1>0, <1>1, <1>2, ActorFacts DEF Abort
  <2>10. CASE QueueDone(a)
    BY <2>10, <1>0, <1>1, <1>2, ActorFacts DEF QueueDone
  <2>11. CASE QueueDoneNotify(a)
    BY <2>11, <1>0, <1>1, <1>2, ActorFacts DEF QueueDoneNotify
  <2>12. CASE ShutdownReturn(a)
    BY <2>12, <1>0, <1>1, <1>2, ActorFacts DEF ShutdownReturn
  <2> QED
    BY <1>3, <2>1, <2>2, <2>3, <2>4, <2>5, <2>6, <2>7, <2>8, <2>9, <2>10, <2>11, <2>12 DEF CallStep
<1>4. ASSUME NEW w \in Workers, WorkerStep(w) PROVE CurUnique'
  <2>1. CASE Check(w)
    BY <2>1, <1>0, <1>1, <1>2, ActorFacts DEF Check
  <2>2. CASE TryPopLock(w)
    BY <2>2, <1>0, <1>1, <1>2, ActorFacts DEF TryPopLock
  <2>3. CASE TryPopFail(w)
    BY <2>3, <1>0, <1>1, <1>2, ActorFacts DEF TryPopFail
  <2>4. CASE Pop(w)
    BY <2>4, <1>0, <1>1, <1>2, ActorFacts DEF Pop
  <2>5. CASE PopLock(w)
    BY <2>5, <1>0, <1>1, <1>2, ActorFacts DEF PopLock
  <2>6. CASE IdleDecrement(w)
    BY <2>6, <1>0, <1>1, <1>2, ActorFacts DEF IdleDecrement, Decrement
  <2>7. CASE Wait(w)
    BY <2>7, <1>0, <1>1, <1>2, ActorFacts DEF Wait
  <2>8. CASE Recheck(w)
    BY <2>8, <1>0, <1>1, <1>2, ActorFacts DEF Recheck
  <2>9. CASE WakeIncrement(w)
    BY <2>9, <1>0, <1>1, <1>2, ActorFacts DEF WakeIncrement, Increment
  <2>10. CASE Take(w)
    <3>1. Head(queue[Slot(w)]) \in Tasks /\ tstate[Head(queue[Slot(w)])] = "queued"
      BY <2>10, HeadQueued, SlotInWorkers, ActorFacts DEF Take
    <3> QED
      BY <2>10, <3>1, <1>0, <1>1, <1>2, ActorFacts DEF Take, Decrement, CurState, InTask, Pushing, Counting
  <2>11. CASE TakeNothing(w)
    BY <2>11, <1>0, <1>1, <1>2, ActorFacts DEF TakeNothing
  <2>12. CASE StartOrDrop(w)
    BY <2>12, <1>0, <1>1, <1>2, ActorFacts DEF StartOrDrop
  <2>13. CASE FinishTask(w)
    BY <2>13, <1>0, <1>1, <1>2, ActorFacts DEF FinishTask
  <2> QED
    BY <1>4, <2>1, <2>2, <2>3, <2>4, <2>5, <2>6, <2>7, <2>8, <2>9, <2>10, <2>11, <2>12, <2>13 DEF WorkerStep
<1>5. CASE OwnerStep
  <2>1. CASE WaitForZeroTest
    BY <2>1, <1>0, <1>1, <1>2, ActorFacts DEF WaitForZeroTest
  <2>2. CASE WaitForZeroLock
    BY <2>2, <1>0, <1>1, <1>2, ActorFacts DEF WaitForZeroLock
  <2>3. CASE WaitForZeroPredicate
    BY <2>3, <1>0, <1>1, <1>2, ActorFacts DEF WaitForZeroPredicate
  <2>4. CASE WaitForZeroBlock
    BY <2>4, <1>0, <1>1, <1>2, ActorFacts DEF WaitForZeroBlock
  <2>5. CASE FinishReturn
    BY <2>5, <1>0, <1>1, <1>2, ActorFacts DEF FinishReturn
  <2>6. CASE Join
    BY <2>6, <1>0, <1>1, <1>2, ActorFacts DEF Join
  <2> QED
    BY <1>5, <2>1, <2>2, <2>3, <2>4, <2>5, <2>6 DEF OwnerStep
<1>6. ASSUME NEW a \in Actors, SpuriousWakeup(a) PROVE CurUnique'
  BY <1>6, <1>0, <1>1, <1>2, ActorFacts DEF SpuriousWakeup
<1>7. ASSUME NEW a \in Actors, NEW t \in Tasks, QueueTask(a, t) PROVE CurUnique'
  BY <1>7, <1>0, <1>1, <1>2, ActorFacts DEF QueueTask
<1>8. ASSUME NEW w \in Workers, CallShutdown(w) PROVE CurUnique'
  BY <1>8, <1>0, <1>1, <1>2, ActorFacts DEF CallShutdown
<1>9. CASE Finish
  BY <1>9, <1>0, <1>1, <1>2, ActorFacts DEF Finish
<1>10. CASE UNCHANGED vars
  BY <1>10, <1>0, <1>1, <1>2, ActorFacts DEF vars
<1> QED
  BY <1>3, <1>4, <1>5, <1>6, <1>7, <1>8, <1>9, <1>10 DEF Next, Terminated

(* A task handed to QueueTask stays in a thread's hands until it is counted.*)
LEMMA PushingHeldNext ==
  ASSUME TypeOK, PushingHeld, [Next]_vars
  PROVE  PushingHeld'
<1> USE DEF Goto, StepNotify, Lock, Unlock, qvars, cvars, PushingHeld, Pushing
<1>0. pc \in [Actors -> PCs]
  BY DEF TypeOK
<1>1. tstate \in [Tasks -> TaskStates]
  BY DEF TypeOK
<1>2. arg \in [Actors -> Tasks \cup {NoTask}] /\ NoTask \notin Tasks
  BY TaskAssumption DEF TypeOK
<1>3. cur \in [Workers -> Tasks \cup {NoTask}] /\ NoTask \notin Tasks
  BY TaskAssumption DEF TypeOK
<1>4. ASSUME NEW a \in Actors, CallStep(a) PROVE PushingHeld'
  <2>1. CASE TryPushLock(a)
    BY <2>1, <1>0, <1>1, <1>2, <1>3, ActorFacts DEF TryPushLock
  <2>2. CASE TryPushFail(a)
    BY <2>2, <1>0, <1>1, <1>2, <1>3, ActorFacts DEF TryPushFail
  <2>3. CASE TryPushGiveUp(a)
    BY <2>3, <1>0, <1>1, <1>2, <1>3, ActorFacts DEF TryPushGiveUp
  <2>4. CASE PushIncrement(a)
    BY <2>4, <1>0, <1>1, <1>2, <1>3, ActorFacts DEF PushIncrement, Increment
  <2>5. CASE PushLock(a)
    BY <2>5, <1>0, <1>1, <1>2, <1>3, ActorFacts DEF PushLock
  <2>6. CASE Emplace(a)
    BY <2>6, <1>0, <1>1, <1>2, <1>3, ActorFacts DEF Emplace
  <2>7. CASE PushNotify(a)
    BY <2>7, <1>0, <1>1, <1>2, <1>3, ActorFacts DEF PushNotify
  <2>8. CASE SetShutdown(a)
    BY <2>8, <1>0, <1>1, <1>2, <1>3, ActorFacts DEF SetShutdown
  <2>9. CASE Abort(a)
    BY <2>9, <1>0, <1>1, <1>2, <1>3, ActorFacts DEF Abort
  <2>10. CASE QueueDone(a)
    BY <2>10, <1>0, <1>1, <1>2, <1>3, ActorFacts DEF QueueDone
  <2>11. CASE QueueDoneNotify(a)
    BY <2>11, <1>0, <1>1, <1>2, <1>3, ActorFacts DEF QueueDoneNotify
  <2>12. CASE ShutdownReturn(a)
    BY <2>12, <1>0, <1>1, <1>2, <1>3, ActorFacts DEF ShutdownReturn
  <2> QED
    BY <1>4, <2>1, <2>2, <2>3, <2>4, <2>5, <2>6, <2>7, <2>8, <2>9, <2>10, <2>11, <2>12 DEF CallStep
<1>5. ASSUME NEW w \in Workers, WorkerStep(w) PROVE PushingHeld'
  <2>1. CASE Check(w)
    BY <2>1, <1>0, <1>1, <1>2, <1>3, ActorFacts DEF Check
  <2>2. CASE TryPopLock(w)
    BY <2>2, <1>0, <1>1, <1>2, <1>3, ActorFacts DEF TryPopLock
  <2>3. CASE TryPopFail(w)
    BY <2>3, <1>0, <1>1, <1>2, <1>3, ActorFacts DEF TryPopFail
  <2>4. CASE Pop(w)
    BY <2>4, <1>0, <1>1, <1>2, <1>3, ActorFacts DEF Pop
  <2>5. CASE PopLock(w)
    BY <2>5, <1>0, <1>1, <1>2, <1>3, ActorFacts DEF PopLock
  <2>6. CASE IdleDecrement(w)
    BY <2>6, <1>0, <1>1, <1>2, <1>3, ActorFacts DEF IdleDecrement, Decrement
  <2>7. CASE Wait(w)
    BY <2>7, <1>0, <1>1, <1>2, <1>3, ActorFacts DEF Wait
  <2>8. CASE Recheck(w)
    BY <2>8, <1>0, <1>1, <1>2, <1>3, ActorFacts DEF Recheck
  <2>9. CASE WakeIncrement(w)
    BY <2>9, <1>0, <1>1, <1>2, <1>3, ActorFacts DEF WakeIncrement, Increment
  <2>10. CASE Take(w)
    BY <2>10, <1>0, <1>1, <1>2, <1>3, ActorFacts DEF Take, Decrement
  <2>11. CASE TakeNothing(w)
    BY <2>11, <1>0, <1>1, <1>2, <1>3, ActorFacts DEF TakeNothing
  <2>12. CASE StartOrDrop(w)
    BY <2>12, <1>0, <1>1, <1>2, <1>3, ActorFacts DEF StartOrDrop
  <2>13. CASE FinishTask(w)
    BY <2>13, <1>0, <1>1, <1>2, <1>3, ActorFacts DEF FinishTask
  <2> QED
    BY <1>5, <2>1, <2>2, <2>3, <2>4, <2>5, <2>6, <2>7, <2>8, <2>9, <2>10, <2>11, <2>12, <2>13 DEF WorkerStep
<1>6. CASE OwnerStep
  <2>1. CASE WaitForZeroTest
    BY <2>1, <1>0, <1>1, <1>2, <1>3, ActorFacts DEF WaitForZeroTest
  <2>2. CASE WaitForZeroLock
    BY <2>2, <1>0, <1>1, <1>2, <1>3, ActorFacts DEF WaitForZeroLock
  <2>3. CASE WaitForZeroPredicate
    BY <2>3, <1>0, <1>1, <1>2, <1>3, ActorFacts DEF WaitForZeroPredicate
  <2>4. CASE WaitForZeroBlock
    BY <2>4, <1>0, <1>1, <1>2, <1>3, ActorFacts DEF WaitForZeroBlock
  <2>5. CASE FinishReturn
    BY <2>5, <1>0, <1>1, <1>2, <1>3, ActorFacts DEF FinishReturn
  <2>6. CASE Join
    BY <2>6, <1>0, <1>1, <1>2, <1>3, ActorFacts DEF Join
  <2> QED
    BY <1>6, <2>1, <2>2, <2>3, <2>4, <2>5, <2>6 DEF OwnerStep
<1>7. ASSUME NEW a \in Actors, SpuriousWakeup(a) PROVE PushingHeld'
  BY <1>7, <1>0, <1>1, <1>2, <1>3, ActorFacts DEF SpuriousWakeup
<1>8. ASSUME NEW a \in Actors, NEW t \in Tasks, QueueTask(a, t) PROVE PushingHeld'
  BY <1>8, <1>0, <1>1, <1>2, <1>3, ActorFacts DEF QueueTask
<1>9. ASSUME NEW w \in Workers, CallShutdown(w) PROVE PushingHeld'
  BY <1>9, <1>0, <1>1, <1>2, <1>3, ActorFacts DEF CallShutdown
<1>10. CASE Finish
  BY <1>10, <1>0, <1>1, <1>2, <1>3, ActorFacts DEF Finish
<1>11. CASE UNCHANGED vars
  BY <1>11, <1>0, <1>1, <1>2, <1>3, ActorFacts DEF vars
<1> QED
  BY <1>4, <1>5, <1>6, <1>7, <1>8, <1>9, <1>10, <1>11 DEF Next, Terminated

(* A popped task stays with its worker until it is started or dropped.     *)
LEMMA TakenHeldNext ==
  ASSUME TypeOK, TakenHeld, [Next]_vars
  PROVE  TakenHeld'
<1> USE DEF Goto, StepNotify, Lock, Unlock, qvars, cvars, TakenHeld
<1>0. pc \in [Actors -> PCs]
  BY DEF TypeOK
<1>1. tstate \in [Tasks -> TaskStates]
  BY DEF TypeOK
<1>2. cur \in [Workers -> Tasks \cup {NoTask}] /\ NoTask \notin Tasks
  BY TaskAssumption DEF TypeOK
<1>3. ASSUME NEW a \in Actors, CallStep(a) PROVE TakenHeld'
  <2>1. CASE TryPushLock(a)
    BY <2>1, <1>0, <1>1, <1>2, ActorFacts DEF TryPushLock
  <2>2. CASE TryPushFail(a)
    BY <2>2, <1>0, <1>1, <1>2, ActorFacts DEF TryPushFail
  <2>3. CASE TryPushGiveUp(a)
    BY <2>3, <1>0, <1>1, <1>2, ActorFacts DEF TryPushGiveUp
  <2>4. CASE PushIncrement(a)
    BY <2>4, <1>0, <1>1, <1>2, ActorFacts DEF PushIncrement, Increment
  <2>5. CASE PushLock(a)
    BY <2>5, <1>0, <1>1, <1>2, ActorFacts DEF PushLock
  <2>6. CASE Emplace(a)
    BY <2>6, <1>0, <1>1, <1>2, ActorFacts DEF Emplace
  <2>7. CASE PushNotify(a)
    BY <2>7, <1>0, <1>1, <1>2, ActorFacts DEF PushNotify
  <2>8. CASE SetShutdown(a)
    BY <2>8, <1>0, <1>1, <1>2, ActorFacts DEF SetShutdown
  <2>9. CASE Abort(a)
    BY <2>9, <1>0, <1>1, <1>2, ActorFacts DEF Abort
  <2>10. CASE QueueDone(a)
    BY <2>10, <1>0, <1>1, <1>2, ActorFacts DEF QueueDone
  <2>11. CASE QueueDoneNotify(a)
    BY <2>11, <1>0, <1>1, <1>2, ActorFacts DEF QueueDoneNotify
  <2>12. CASE ShutdownReturn(a)
    BY <2>12, <1>0, <1>1, <1>2, ActorFacts DEF ShutdownReturn
  <2> QED
    BY <1>3, <2>1, <2>2, <2>3, <2>4, <2>5, <2>6, <2>7, <2>8, <2>9, <2>10, <2>11, <2>12 DEF CallStep
<1>4. ASSUME NEW w \in Workers, WorkerStep(w) PROVE TakenHeld'
  <2>1. CASE Check(w)
    BY <2>1, <1>0, <1>1, <1>2, ActorFacts DEF Check
  <2>2. CASE TryPopLock(w)
    BY <2>2, <1>0, <1>1, <1>2, ActorFacts DEF TryPopLock
  <2>3. CASE TryPopFail(w)
    BY <2>3, <1>0, <1>1, <1>2, ActorFacts DEF TryPopFail
  <2>4. CASE Pop(w)
    BY <2>4, <1>0, <1>1, <1>2, ActorFacts DEF Pop
  <2>5. CASE PopLock(w)
    BY <2>5, <1>0, <1>1, <1>2, ActorFacts DEF PopLock
  <2>6. CASE IdleDecrement(w)
    BY <2>6, <1>0, <1>1, <1>2, ActorFacts DEF IdleDecrement, Decrement
  <2>7. CASE Wait(w)
    BY <2>7, <1>0, <1>1, <1>2, ActorFacts DEF Wait
  <2>8. CASE Recheck(w)
    BY <2>8, <1>0, <1>1, <1>2, ActorFacts DEF Recheck
  <2>9. CASE WakeIncrement(w)
    BY <2>9, <1>0, <1>1, <1>2, ActorFacts DEF WakeIncrement, Increment
  <2>10. CASE Take(w)
    BY <2>10, <1>0, <1>1, <1>2, ActorFacts DEF Take, Decrement
  <2>11. CASE TakeNothing(w)
    BY <2>11, <1>0, <1>1, <1>2, ActorFacts DEF TakeNothing
  <2>12. CASE StartOrDrop(w)
    BY <2>12, <1>0, <1>1, <1>2, ActorFacts DEF StartOrDrop
  <2>13. CASE FinishTask(w)
    BY <2>13, <1>0, <1>1, <1>2, ActorFacts DEF FinishTask
  <2> QED
    BY <1>4, <2>1, <2>2, <2>3, <2>4, <2>5, <2>6, <2>7, <2>8, <2>9, <2>10, <2>11, <2>12, <2>13 DEF WorkerStep
<1>5. CASE OwnerStep
  <2>1. CASE WaitForZeroTest
    BY <2>1, <1>0, <1>1, <1>2, ActorFacts DEF WaitForZeroTest
  <2>2. CASE WaitForZeroLock
    BY <2>2, <1>0, <1>1, <1>2, ActorFacts DEF WaitForZeroLock
  <2>3. CASE WaitForZeroPredicate
    BY <2>3, <1>0, <1>1, <1>2, ActorFacts DEF WaitForZeroPredicate
  <2>4. CASE WaitForZeroBlock
    BY <2>4, <1>0, <1>1, <1>2, ActorFacts DEF WaitForZeroBlock
  <2>5. CASE FinishReturn
    BY <2>5, <1>0, <1>1, <1>2, ActorFacts DEF FinishReturn
  <2>6. CASE Join
    BY <2>6, <1>0, <1>1, <1>2, ActorFacts DEF Join
  <2> QED
    BY <1>5, <2>1, <2>2, <2>3, <2>4, <2>5, <2>6 DEF OwnerStep
<1>6. ASSUME NEW a \in Actors, SpuriousWakeup(a) PROVE TakenHeld'
  BY <1>6, <1>0, <1>1, <1>2, ActorFacts DEF SpuriousWakeup
<1>7. ASSUME NEW a \in Actors, NEW t \in Tasks, QueueTask(a, t) PROVE TakenHeld'
  BY <1>7, <1>0, <1>1, <1>2, ActorFacts DEF QueueTask
<1>8. ASSUME NEW w \in Workers, CallShutdown(w) PROVE TakenHeld'
  BY <1>8, <1>0, <1>1, <1>2, ActorFacts DEF CallShutdown
<1>9. CASE Finish
  BY <1>9, <1>0, <1>1, <1>2, ActorFacts DEF Finish
<1>10. CASE UNCHANGED vars
  BY <1>10, <1>0, <1>1, <1>2, ActorFacts DEF vars
<1> QED
  BY <1>3, <1>4, <1>5, <1>6, <1>7, <1>8, <1>9, <1>10 DEF Next, Terminated

(* A running task stays with its worker until it returns.                  *)
LEMMA RunningHeldNext ==
  ASSUME TypeOK, RunningHeld, [Next]_vars
  PROVE  RunningHeld'
<1> USE DEF Goto, StepNotify, Lock, Unlock, qvars, cvars, Pushing, Counting, RunningHeld, InTask
<1>0. pc \in [Actors -> PCs]
  BY DEF TypeOK
<1>1. tstate \in [Tasks -> TaskStates]
  BY DEF TypeOK
<1>2. cur \in [Workers -> Tasks \cup {NoTask}] /\ NoTask \notin Tasks
  BY TaskAssumption DEF TypeOK
<1>3. ASSUME NEW a \in Actors, CallStep(a) PROVE RunningHeld'
  <2>1. CASE TryPushLock(a)
    BY <2>1, <1>0, <1>1, <1>2, ActorFacts DEF TryPushLock
  <2>2. CASE TryPushFail(a)
    BY <2>2, <1>0, <1>1, <1>2, ActorFacts DEF TryPushFail
  <2>3. CASE TryPushGiveUp(a)
    BY <2>3, <1>0, <1>1, <1>2, ActorFacts DEF TryPushGiveUp
  <2>4. CASE PushIncrement(a)
    BY <2>4, <1>0, <1>1, <1>2, ActorFacts DEF PushIncrement, Increment
  <2>5. CASE PushLock(a)
    BY <2>5, <1>0, <1>1, <1>2, ActorFacts DEF PushLock
  <2>6. CASE Emplace(a)
    BY <2>6, <1>0, <1>1, <1>2, ActorFacts DEF Emplace
  <2>7. CASE PushNotify(a)
    <3>1. \A b \in Workers : pc[b] \in InTask => pc'[b] \in InTask
      BY <2>7, <1>0, ActorFacts DEF PushNotify
    <3> QED
      BY <2>7, <3>1 DEF PushNotify
  <2>8. CASE SetShutdown(a)
    BY <2>8, <1>0, <1>1, <1>2, ActorFacts DEF SetShutdown
  <2>9. CASE Abort(a)
    BY <2>9, <1>0, <1>1, <1>2, ActorFacts DEF Abort
  <2>10. CASE QueueDone(a)
    BY <2>10, <1>0, <1>1, <1>2, ActorFacts DEF QueueDone
  <2>11. CASE QueueDoneNotify(a)
    BY <2>11, <1>0, <1>1, <1>2, ActorFacts DEF QueueDoneNotify
  <2>12. CASE ShutdownReturn(a)
    BY <2>12, <1>0, <1>1, <1>2, ActorFacts DEF ShutdownReturn
  <2> QED
    BY <1>3, <2>1, <2>2, <2>3, <2>4, <2>5, <2>6, <2>7, <2>8, <2>9, <2>10, <2>11, <2>12 DEF CallStep
<1>4. ASSUME NEW w \in Workers, WorkerStep(w) PROVE RunningHeld'
  <2>1. CASE Check(w)
    BY <2>1, <1>0, <1>1, <1>2, ActorFacts DEF Check
  <2>2. CASE TryPopLock(w)
    BY <2>2, <1>0, <1>1, <1>2, ActorFacts DEF TryPopLock
  <2>3. CASE TryPopFail(w)
    BY <2>3, <1>0, <1>1, <1>2, ActorFacts DEF TryPopFail
  <2>4. CASE Pop(w)
    BY <2>4, <1>0, <1>1, <1>2, ActorFacts DEF Pop
  <2>5. CASE PopLock(w)
    BY <2>5, <1>0, <1>1, <1>2, ActorFacts DEF PopLock
  <2>6. CASE IdleDecrement(w)
    BY <2>6, <1>0, <1>1, <1>2, ActorFacts DEF IdleDecrement, Decrement
  <2>7. CASE Wait(w)
    BY <2>7, <1>0, <1>1, <1>2, ActorFacts DEF Wait
  <2>8. CASE Recheck(w)
    BY <2>8, <1>0, <1>1, <1>2, ActorFacts DEF Recheck
  <2>9. CASE WakeIncrement(w)
    BY <2>9, <1>0, <1>1, <1>2, ActorFacts DEF WakeIncrement, Increment
  <2>10. CASE Take(w)
    BY <2>10, <1>0, <1>1, <1>2, ActorFacts DEF Take, Decrement
  <2>11. CASE TakeNothing(w)
    BY <2>11, <1>0, <1>1, <1>2, ActorFacts DEF TakeNothing
  <2>12. CASE StartOrDrop(w)
    BY <2>12, <1>0, <1>1, <1>2, ActorFacts DEF StartOrDrop
  <2>13. CASE FinishTask(w)
    BY <2>13, <1>0, <1>1, <1>2, ActorFacts DEF FinishTask
  <2> QED
    BY <1>4, <2>1, <2>2, <2>3, <2>4, <2>5, <2>6, <2>7, <2>8, <2>9, <2>10, <2>11, <2>12, <2>13 DEF WorkerStep
<1>5. CASE OwnerStep
  <2>1. CASE WaitForZeroTest
    BY <2>1, <1>0, <1>1, <1>2, ActorFacts DEF WaitForZeroTest
  <2>2. CASE WaitForZeroLock
    BY <2>2, <1>0, <1>1, <1>2, ActorFacts DEF WaitForZeroLock
  <2>3. CASE WaitForZeroPredicate
    BY <2>3, <1>0, <1>1, <1>2, ActorFacts DEF WaitForZeroPredicate
  <2>4. CASE WaitForZeroBlock
    BY <2>4, <1>0, <1>1, <1>2, ActorFacts DEF WaitForZeroBlock
  <2>5. CASE FinishReturn
    BY <2>5, <1>0, <1>1, <1>2, ActorFacts DEF FinishReturn
  <2>6. CASE Join
    BY <2>6, <1>0, <1>1, <1>2, ActorFacts DEF Join
  <2> QED
    BY <1>5, <2>1, <2>2, <2>3, <2>4, <2>5, <2>6 DEF OwnerStep
<1>6. ASSUME NEW a \in Actors, SpuriousWakeup(a) PROVE RunningHeld'
  BY <1>6, <1>0, <1>1, <1>2, ActorFacts DEF SpuriousWakeup
<1>7. ASSUME NEW a \in Actors, NEW t \in Tasks, QueueTask(a, t) PROVE RunningHeld'
  BY <1>7, <1>0, <1>1, <1>2, ActorFacts DEF QueueTask
<1>8. ASSUME NEW w \in Workers, CallShutdown(w) PROVE RunningHeld'
  BY <1>8, <1>0, <1>1, <1>2, ActorFacts DEF CallShutdown
<1>9. CASE Finish
  BY <1>9, <1>0, <1>1, <1>2, ActorFacts DEF Finish
<1>10. CASE UNCHANGED vars
  BY <1>10, <1>0, <1>1, <1>2, ActorFacts DEF vars
<1> QED
  BY <1>3, <1>4, <1>5, <1>6, <1>7, <1>8, <1>9, <1>10 DEF Next, Terminated

(* shutdown_ is set before the counter is aborted and the queues are closed. *)
LEMMA ShutdownFirstNext ==
  ASSUME TypeOK, ShutdownFirst, [Next]_vars
  PROVE  ShutdownFirst'
<1> USE DEF Goto, StepNotify, Lock, Unlock, qvars, cvars, ShutdownFirst
<1>0. pc \in [Actors -> PCs]
  BY DEF TypeOK
<1>1. ASSUME NEW a \in Actors, CallStep(a) PROVE ShutdownFirst'
  <2>1. CASE TryPushLock(a)
    BY <2>1, <1>0, ActorFacts DEF TryPushLock
  <2>2. CASE TryPushFail(a)
    BY <2>2, <1>0, ActorFacts DEF TryPushFail
  <2>3. CASE TryPushGiveUp(a)
    BY <2>3, <1>0, ActorFacts DEF TryPushGiveUp
  <2>4. CASE PushIncrement(a)
    BY <2>4, <1>0, ActorFacts DEF PushIncrement, Increment
  <2>5. CASE PushLock(a)
    BY <2>5, <1>0, ActorFacts DEF PushLock
  <2>6. CASE Emplace(a)
    BY <2>6, <1>0, ActorFacts DEF Emplace
  <2>7. CASE PushNotify(a)
    BY <2>7, <1>0, ActorFacts DEF PushNotify
  <2>8. CASE SetShutdown(a)
    BY <2>8, <1>0, ActorFacts DEF SetShutdown
  <2>9. CASE Abort(a)
    BY <2>9, <1>0, ActorFacts DEF Abort
  <2>10. CASE QueueDone(a)
    BY <2>10, <1>0, ActorFacts DEF QueueDone
  <2>11. CASE QueueDoneNotify(a)
    BY <2>11, <1>0, ActorFacts DEF QueueDoneNotify
  <2>12. CASE ShutdownReturn(a)
    BY <2>12, <1>0, ActorFacts DEF ShutdownReturn
  <2> QED
    BY <1>1, <2>1, <2>2, <2>3, <2>4, <2>5, <2>6, <2>7, <2>8, <2>9, <2>10, <2>11, <2>12 DEF CallStep
<1>2. ASSUME NEW w \in Workers, WorkerStep(w) PROVE ShutdownFirst'
  <2>1. CASE Check(w)
    BY <2>1, <1>0, ActorFacts DEF Check
  <2>2. CASE TryPopLock(w)
    BY <2>2, <1>0, ActorFacts DEF TryPopLock
  <2>3. CASE TryPopFail(w)
    BY <2>3, <1>0, ActorFacts DEF TryPopFail
  <2>4. CASE Pop(w)
    BY <2>4, <1>0, ActorFacts DEF Pop
  <2>5. CASE PopLock(w)
    BY <2>5, <1>0, ActorFacts DEF PopLock
  <2>6. CASE IdleDecrement(w)
    BY <2>6, <1>0, ActorFacts DEF IdleDecrement, Decrement
  <2>7. CASE Wait(w)
    BY <2>7, <1>0, ActorFacts DEF Wait
  <2>8. CASE Recheck(w)
    BY <2>8, <1>0, ActorFacts DEF Recheck
  <2>9. CASE WakeIncrement(w)
    BY <2>9, <1>0, ActorFacts DEF WakeIncrement, Increment
  <2>10. CASE Take(w)
    BY <2>10, <1>0, ActorFacts DEF Take, Decrement
  <2>11. CASE TakeNothing(w)
    BY <2>11, <1>0, ActorFacts DEF TakeNothing
  <2>12. CASE StartOrDrop(w)
    BY <2>12, <1>0, ActorFacts DEF StartOrDrop
  <2>13. CASE FinishTask(w)
    BY <2>13, <1>0, ActorFacts DEF FinishTask
  <2> QED
    BY <1>2, <2>1, <2>2, <2>3, <2>4, <2>5, <2>6, <2>7, <2>8, <2>9, <2>10, <2>11, <2>12, <2>13 DEF WorkerStep
<1>3. CASE OwnerStep
  <2>1. CASE WaitForZeroTest
    BY <2>1, <1>0, ActorFacts DEF WaitForZeroTest
  <2>2. CASE WaitForZeroLock
    BY <2>2, <1>0, ActorFacts DEF WaitForZeroLock
  <2>3. CASE WaitForZeroPredicate
    BY <2>3, <1>0, ActorFacts DEF WaitForZeroPredicate
  <2>4. CASE WaitForZeroBlock
    BY <2>4, <1>0, ActorFacts DEF WaitForZeroBlock
  <2>5. CASE FinishReturn
    BY <2>5, <1>0, ActorFacts DEF FinishReturn
  <2>6. CASE Join
    BY <2>6, <1>0, ActorFacts DEF Join
  <2> QED
    BY <1>3, <2>1, <2>2, <2>3, <2>4, <2>5, <2>6 DEF OwnerStep
<1>4. ASSUME NEW a \in Actors, SpuriousWakeup(a) PROVE ShutdownFirst'
  BY <1>4, <1>0, ActorFacts DEF SpuriousWakeup
<1>5. ASSUME NEW a \in Actors, NEW t \in Tasks, QueueTask(a, t) PROVE ShutdownFirst'
  BY <1>5, <1>0, ActorFacts DEF QueueTask
<1>6. ASSUME NEW w \in Workers, CallShutdown(w) PROVE ShutdownFirst'
  BY <1>6, <1>0, ActorFacts DEF CallShutdown
<1>7. CASE Finish
  BY <1>7, <1>0, ActorFacts DEF Finish
<1>8. CASE UNCHANGED vars
  BY <1>8, <1>0, ActorFacts DEF vars
<1> QED
  BY <1>1, <1>2, <1>3, <1>4, <1>5, <1>6, <1>7, <1>8 DEF Next, Terminated

(* The owner holds the counter's mutex exactly while it evaluates the      *)
(* predicate.                                                              *)
LEMMA OwnerLockNext ==
  ASSUME TypeOK, OwnerLock, [Next]_vars
  PROVE  OwnerLock'
<1> USE DEF Goto, StepNotify, Lock, Unlock, qvars, cvars, OwnerLock
<1>0. pc \in [Actors -> PCs]
  BY DEF TypeOK
<1>1. ASSUME NEW a \in Actors, CallStep(a) PROVE OwnerLock'
  <2>1. CASE TryPushLock(a)
    BY <2>1, <1>0, ActorFacts DEF TryPushLock
  <2>2. CASE TryPushFail(a)
    BY <2>2, <1>0, ActorFacts DEF TryPushFail
  <2>3. CASE TryPushGiveUp(a)
    BY <2>3, <1>0, ActorFacts DEF TryPushGiveUp
  <2>4. CASE PushIncrement(a)
    BY <2>4, <1>0, ActorFacts DEF PushIncrement, Increment
  <2>5. CASE PushLock(a)
    BY <2>5, <1>0, ActorFacts DEF PushLock
  <2>6. CASE Emplace(a)
    BY <2>6, <1>0, ActorFacts DEF Emplace
  <2>7. CASE PushNotify(a)
    BY <2>7, <1>0, ActorFacts DEF PushNotify
  <2>8. CASE SetShutdown(a)
    BY <2>8, <1>0, ActorFacts DEF SetShutdown
  <2>9. CASE Abort(a)
    BY <2>9, <1>0, ActorFacts DEF Abort
  <2>10. CASE QueueDone(a)
    BY <2>10, <1>0, ActorFacts DEF QueueDone
  <2>11. CASE QueueDoneNotify(a)
    BY <2>11, <1>0, ActorFacts DEF QueueDoneNotify
  <2>12. CASE ShutdownReturn(a)
    BY <2>12, <1>0, ActorFacts DEF ShutdownReturn
  <2> QED
    BY <1>1, <2>1, <2>2, <2>3, <2>4, <2>5, <2>6, <2>7, <2>8, <2>9, <2>10, <2>11, <2>12 DEF CallStep
<1>2. ASSUME NEW w \in Workers, WorkerStep(w) PROVE OwnerLock'
  <2>1. CASE Check(w)
    BY <2>1, <1>0, ActorFacts DEF Check
  <2>2. CASE TryPopLock(w)
    BY <2>2, <1>0, ActorFacts DEF TryPopLock
  <2>3. CASE TryPopFail(w)
    BY <2>3, <1>0, ActorFacts DEF TryPopFail
  <2>4. CASE Pop(w)
    BY <2>4, <1>0, ActorFacts DEF Pop
  <2>5. CASE PopLock(w)
    BY <2>5, <1>0, ActorFacts DEF PopLock
  <2>6. CASE IdleDecrement(w)
    BY <2>6, <1>0, ActorFacts DEF IdleDecrement, Decrement
  <2>7. CASE Wait(w)
    BY <2>7, <1>0, ActorFacts DEF Wait
  <2>8. CASE Recheck(w)
    BY <2>8, <1>0, ActorFacts DEF Recheck
  <2>9. CASE WakeIncrement(w)
    BY <2>9, <1>0, ActorFacts DEF WakeIncrement, Increment
  <2>10. CASE Take(w)
    BY <2>10, <1>0, ActorFacts DEF Take, Decrement
  <2>11. CASE TakeNothing(w)
    BY <2>11, <1>0, ActorFacts DEF TakeNothing
  <2>12. CASE StartOrDrop(w)
    BY <2>12, <1>0, ActorFacts DEF StartOrDrop
  <2>13. CASE FinishTask(w)
    BY <2>13, <1>0, ActorFacts DEF FinishTask
  <2> QED
    BY <1>2, <2>1, <2>2, <2>3, <2>4, <2>5, <2>6, <2>7, <2>8, <2>9, <2>10, <2>11, <2>12, <2>13 DEF WorkerStep
<1>3. CASE OwnerStep
  <2>1. CASE WaitForZeroTest
    BY <2>1, <1>0, ActorFacts DEF WaitForZeroTest
  <2>2. CASE WaitForZeroLock
    BY <2>2, <1>0, ActorFacts DEF WaitForZeroLock
  <2>3. CASE WaitForZeroPredicate
    BY <2>3, <1>0, ActorFacts DEF WaitForZeroPredicate
  <2>4. CASE WaitForZeroBlock
    BY <2>4, <1>0, ActorFacts DEF WaitForZeroBlock
  <2>5. CASE FinishReturn
    BY <2>5, <1>0, ActorFacts DEF FinishReturn
  <2>6. CASE Join
    BY <2>6, <1>0, ActorFacts DEF Join
  <2> QED
    BY <1>3, <2>1, <2>2, <2>3, <2>4, <2>5, <2>6 DEF OwnerStep
<1>4. ASSUME NEW a \in Actors, SpuriousWakeup(a) PROVE OwnerLock'
  BY <1>4, <1>0, ActorFacts DEF SpuriousWakeup
<1>5. ASSUME NEW a \in Actors, NEW t \in Tasks, QueueTask(a, t) PROVE OwnerLock'
  BY <1>5, <1>0, ActorFacts DEF QueueTask
<1>6. ASSUME NEW w \in Workers, CallShutdown(w) PROVE OwnerLock'
  BY <1>6, <1>0, ActorFacts DEF CallShutdown
<1>7. CASE Finish
  BY <1>7, <1>0, ActorFacts DEF Finish
<1>8. CASE UNCHANGED vars
  BY <1>8, <1>0, ActorFacts DEF vars
<1> QED
  BY <1>1, <1>2, <1>3, <1>4, <1>5, <1>6, <1>7, <1>8 DEF Next, Terminated

-----------------------------------------------------------------------------
(* total_workload_ and the threads and tasks it stands for.                *)
(* What one step may do to the counter and to what it counts.              *)
Same == count' = count /\ ActiveWorkers' = ActiveWorkers /\ CountedTasks' = CountedTasks
WorkloadStep ==
  \/ Same
  \/ /\ CountedTasks' = CountedTasks
     /\ \E w \in Workers :
          \/ w \in ActiveWorkers /\ ActiveWorkers' = ActiveWorkers \ {w} /\ count' = count - 1
          \/ w \notin ActiveWorkers /\ ActiveWorkers' = ActiveWorkers \cup {w} /\ count' = count + 1
  \/ /\ ActiveWorkers' = ActiveWorkers
     /\ \E t \in Tasks :
          \/ t \in CountedTasks /\ CountedTasks' = CountedTasks \ {t} /\ count' = count - 1
          \/ t \notin CountedTasks /\ CountedTasks' = CountedTasks \cup {t} /\ count' = count + 1

(* Both sets are finite.                                                   *)
LEMMA WorkloadFinite ==
  /\ IsFiniteSet(ActiveWorkers) /\ IsFiniteSet(CountedTasks)
  /\ Cardinality(ActiveWorkers) \in Nat /\ Cardinality(CountedTasks) \in Nat
<1>1. IsFiniteSet(Workers) /\ IsFiniteSet(Tasks)
  BY ThreadAssumption, TaskAssumption, FS_Interval DEF Workers
<1>2. ActiveWorkers \in SUBSET Workers /\ CountedTasks \in SUBSET Tasks
  BY DEF ActiveWorkers, CountedTasks
<1> QED
  BY <1>1, <1>2, FS_Subset, FS_CardinalityType

(* Such a step keeps the counter exact.                                    *)
LEMMA WorkloadExactNext ==
  ASSUME TypeOK, WorkloadExact, WorkloadStep
  PROVE  WorkloadExact'
<1>1. count \in Int
  BY DEF TypeOK
<1>2. CASE Same
  BY <1>2 DEF Same, WorkloadExact
<1>3. ASSUME CountedTasks' = CountedTasks, NEW w \in Workers,
             \/ w \in ActiveWorkers /\ ActiveWorkers' = ActiveWorkers \ {w} /\ count' = count - 1
             \/ w \notin ActiveWorkers /\ ActiveWorkers' = ActiveWorkers \cup {w} /\ count' = count + 1
      PROVE  WorkloadExact'
  <2>1. /\ Cardinality(ActiveWorkers \ {w}) = IF w \in ActiveWorkers THEN Cardinality(ActiveWorkers) - 1 ELSE Cardinality(ActiveWorkers)
        /\ Cardinality(ActiveWorkers \cup {w}) = IF w \in ActiveWorkers THEN Cardinality(ActiveWorkers) ELSE Cardinality(ActiveWorkers) + 1
    BY WorkloadFinite, FS_AddElement, FS_RemoveElement
  <2>2. count' = Cardinality(ActiveWorkers') + Cardinality(CountedTasks')
    BY <1>1, <1>3, <2>1, WorkloadFinite DEF WorkloadExact
  <2> QED
    BY <2>2 DEF WorkloadExact
<1>4. ASSUME ActiveWorkers' = ActiveWorkers, NEW t \in Tasks,
             \/ t \in CountedTasks /\ CountedTasks' = CountedTasks \ {t} /\ count' = count - 1
             \/ t \notin CountedTasks /\ CountedTasks' = CountedTasks \cup {t} /\ count' = count + 1
      PROVE  WorkloadExact'
  <2>1. /\ Cardinality(CountedTasks \ {t}) = IF t \in CountedTasks THEN Cardinality(CountedTasks) - 1 ELSE Cardinality(CountedTasks)
        /\ Cardinality(CountedTasks \cup {t}) = IF t \in CountedTasks THEN Cardinality(CountedTasks) ELSE Cardinality(CountedTasks) + 1
    BY WorkloadFinite, FS_AddElement, FS_RemoveElement
  <2>2. count' = Cardinality(ActiveWorkers') + Cardinality(CountedTasks')
    <3>1. CASE t \in CountedTasks /\ CountedTasks' = CountedTasks \ {t} /\ count' = count - 1
      BY <1>1, <1>4, <2>1, <3>1, WorkloadFinite DEF WorkloadExact
    <3>2. CASE t \notin CountedTasks /\ CountedTasks' = CountedTasks \cup {t} /\ count' = count + 1
      BY <1>1, <1>4, <2>1, <3>2, WorkloadFinite DEF WorkloadExact
    <3> QED
      BY <1>4, <3>1, <3>2
  <2> QED
    BY <2>2 DEF WorkloadExact
<1> QED
  BY <1>2, <1>3, <1>4 DEF WorkloadStep

(* A counter at zero means that nobody works and nothing is queued.        *)
LEMMA WorkloadZero ==
  ASSUME WorkloadExact PROVE count \in Nat /\ (count = 0 => ActiveWorkers = {} /\ CountedTasks = {})
<1>1. count = Cardinality(ActiveWorkers) + Cardinality(CountedTasks)
  BY DEF WorkloadExact
<1>2. count = 0 => Cardinality(ActiveWorkers) = 0 /\ Cardinality(CountedTasks) = 0
  BY <1>1, WorkloadFinite
<1> QED
  BY <1>1, <1>2, WorkloadFinite, FS_EmptySet

(* Every step changes the workload by what it changes the counter by.      *)
LEMMA WorkloadStepNext ==
  ASSUME TypeOK, ArgState, QueuedState, CurState, [Next]_vars
  PROVE  WorkloadStep
<1> USE DEF Goto, StepNotify, Lock, Unlock, qvars, cvars
<1>0. pc \in [Actors -> PCs]
  BY DEF TypeOK
<1>1. tstate \in [Tasks -> TaskStates]
  BY DEF TypeOK
<1>2. arg \in [Actors -> Tasks \cup {NoTask}] /\ NoTask \notin Tasks
  BY TaskAssumption DEF TypeOK
<1>3. cur \in [Workers -> Tasks \cup {NoTask}] /\ NoTask \notin Tasks
  BY TaskAssumption DEF TypeOK
<1>4. ASSUME NEW a \in Actors, CallStep(a) PROVE WorkloadStep
  <2>1. CASE TryPushLock(a)
    <3>1. Same
      BY <2>1, <1>0, <1>1, <1>2, <1>3, ActorFacts DEF TryPushLock, Same, ActiveWorkers, CountedTasks
    <3> QED
      BY <3>1 DEF WorkloadStep
  <2>2. CASE TryPushFail(a)
    <3>1. Same
      BY <2>2, <1>0, <1>1, <1>2, <1>3, ActorFacts DEF TryPushFail, Same, ActiveWorkers, CountedTasks
    <3> QED
      BY <3>1 DEF WorkloadStep
  <2>3. CASE TryPushGiveUp(a)
    <3>1. Same
      BY <2>3, <1>0, <1>1, <1>2, <1>3, ActorFacts DEF TryPushGiveUp, Same, ActiveWorkers, CountedTasks
    <3> QED
      BY <3>1 DEF WorkloadStep
  <2>4. CASE PushIncrement(a)
    <3>1. ActiveWorkers' = ActiveWorkers
      BY <2>4, <1>0, <1>1, <1>2, <1>3, ActorFacts DEF PushIncrement, Increment, Decrement, ActiveWorkers
    <3>2. arg[a] \in Tasks /\ tstate[arg[a]] = "pushing" /\ tstate' = [tstate EXCEPT ![arg[a]] = "counted"]
      BY <2>4 DEF PushIncrement, ArgState, Pushing
    <3>3. arg[a] \notin CountedTasks /\ CountedTasks' = CountedTasks \cup {arg[a]} /\ count' = count + 1
      BY <2>4, <3>2, <1>1 DEF CountedTasks, PushIncrement, Increment
    <3> QED
      BY <3>1, <3>2, <3>3 DEF WorkloadStep
  <2>5. CASE PushLock(a)
    <3>1. Same
      BY <2>5, <1>0, <1>1, <1>2, <1>3, ActorFacts DEF PushLock, Same, ActiveWorkers, CountedTasks
    <3> QED
      BY <3>1 DEF WorkloadStep
  <2>6. CASE Emplace(a)
    <3>1. Same
      BY <2>6, <1>0, <1>1, <1>2, <1>3, ActorFacts DEF Emplace, Same, ActiveWorkers, CountedTasks, ArgState, Counting
    <3> QED
      BY <3>1 DEF WorkloadStep
  <2>7. CASE PushNotify(a)
    <3>1. Same
      BY <2>7, <1>0, <1>1, <1>2, <1>3, ActorFacts DEF PushNotify, Same, ActiveWorkers, CountedTasks
    <3> QED
      BY <3>1 DEF WorkloadStep
  <2>8. CASE SetShutdown(a)
    <3>1. Same
      BY <2>8, <1>0, <1>1, <1>2, <1>3, ActorFacts DEF SetShutdown, Same, ActiveWorkers, CountedTasks
    <3> QED
      BY <3>1 DEF WorkloadStep
  <2>9. CASE Abort(a)
    <3>1. Same
      BY <2>9, <1>0, <1>1, <1>2, <1>3, ActorFacts DEF Abort, Same, ActiveWorkers, CountedTasks
    <3> QED
      BY <3>1 DEF WorkloadStep
  <2>10. CASE QueueDone(a)
    <3>1. Same
      BY <2>10, <1>0, <1>1, <1>2, <1>3, ActorFacts DEF QueueDone, Same, ActiveWorkers, CountedTasks
    <3> QED
      BY <3>1 DEF WorkloadStep
  <2>11. CASE QueueDoneNotify(a)
    <3>1. Same
      BY <2>11, <1>0, <1>1, <1>2, <1>3, ActorFacts DEF QueueDoneNotify, Same, ActiveWorkers, CountedTasks
    <3> QED
      BY <3>1 DEF WorkloadStep
  <2>12. CASE ShutdownReturn(a)
    <3>1. Same
      BY <2>12, <1>0, <1>1, <1>2, <1>3, ActorFacts DEF ShutdownReturn, Same, ActiveWorkers, CountedTasks
    <3> QED
      BY <3>1 DEF WorkloadStep
  <2> QED
    BY <1>4, <2>1, <2>2, <2>3, <2>4, <2>5, <2>6, <2>7, <2>8, <2>9, <2>10, <2>11, <2>12 DEF CallStep
<1>5. ASSUME NEW w \in Workers, WorkerStep(w) PROVE WorkloadStep
  <2>1. CASE Check(w)
    <3>1. Same
      BY <2>1, <1>0, <1>1, <1>2, <1>3, ActorFacts DEF Check, Same, ActiveWorkers, CountedTasks
    <3> QED
      BY <3>1 DEF WorkloadStep
  <2>2. CASE TryPopLock(w)
    <3>1. Same
      BY <2>2, <1>0, <1>1, <1>2, <1>3, ActorFacts DEF TryPopLock, Same, ActiveWorkers, CountedTasks
    <3> QED
      BY <3>1 DEF WorkloadStep
  <2>3. CASE TryPopFail(w)
    <3>1. Same
      BY <2>3, <1>0, <1>1, <1>2, <1>3, ActorFacts DEF TryPopFail, Same, ActiveWorkers, CountedTasks
    <3> QED
      BY <3>1 DEF WorkloadStep
  <2>4. CASE Pop(w)
    <3>1. Same
      BY <2>4, <1>0, <1>1, <1>2, <1>3, ActorFacts DEF Pop, Same, ActiveWorkers, CountedTasks
    <3> QED
      BY <3>1 DEF WorkloadStep
  <2>5. CASE PopLock(w)
    <3>1. Same
      BY <2>5, <1>0, <1>1, <1>2, <1>3, ActorFacts DEF PopLock, Same, ActiveWorkers, CountedTasks
    <3> QED
      BY <3>1 DEF WorkloadStep
  <2>6. CASE IdleDecrement(w)
    <3>1. w \in ActiveWorkers /\ ActiveWorkers' = ActiveWorkers \ {w} /\ count' = count - 1
      BY <2>6, <1>0, ActorFacts DEF IdleDecrement, Decrement, ActiveWorkers
    <3>2. CountedTasks' = CountedTasks
      BY <2>6 DEF IdleDecrement, CountedTasks
    <3> QED
      BY <3>1, <3>2 DEF WorkloadStep
  <2>7. CASE Wait(w)
    <3>1. Same
      BY <2>7, <1>0, <1>1, <1>2, <1>3, ActorFacts DEF Wait, Same, ActiveWorkers, CountedTasks
    <3> QED
      BY <3>1 DEF WorkloadStep
  <2>8. CASE Recheck(w)
    <3>1. Same
      BY <2>8, <1>0, <1>1, <1>2, <1>3, ActorFacts DEF Recheck, Same, ActiveWorkers, CountedTasks
    <3> QED
      BY <3>1 DEF WorkloadStep
  <2>9. CASE WakeIncrement(w)
    <3>1. w \notin ActiveWorkers /\ ActiveWorkers' = ActiveWorkers \cup {w} /\ count' = count + 1
      BY <2>9, <1>0, ActorFacts DEF WakeIncrement, Increment, ActiveWorkers
    <3>2. CountedTasks' = CountedTasks
      BY <2>9 DEF WakeIncrement, CountedTasks
    <3> QED
      BY <3>1, <3>2 DEF WorkloadStep
  <2>10. CASE Take(w)
    <3>1. ActiveWorkers' = ActiveWorkers
      BY <2>10, <1>0, <1>1, <1>2, <1>3, ActorFacts DEF Take, Increment, Decrement, ActiveWorkers
    <3>2. PICK t \in Tasks : tstate[t] = "queued" /\ tstate' = [tstate EXCEPT ![t] = "taken"]
      BY <2>10, HeadQueued, SlotInWorkers, ActorFacts DEF Take
    <3>3. t \in CountedTasks /\ CountedTasks' = CountedTasks \ {t} /\ count' = count - 1
      BY <2>10, <3>2, <1>1 DEF CountedTasks, Take, Decrement
    <3> QED
      BY <3>1, <3>2, <3>3 DEF WorkloadStep
  <2>11. CASE TakeNothing(w)
    <3>1. Same
      BY <2>11, <1>0, <1>1, <1>2, <1>3, ActorFacts DEF TakeNothing, Same, ActiveWorkers, CountedTasks
    <3> QED
      BY <3>1 DEF WorkloadStep
  <2>12. CASE StartOrDrop(w)
    <3>1. Same
      BY <2>12, <1>0, <1>1, <1>2, <1>3, ActorFacts DEF StartOrDrop, Same, ActiveWorkers, CountedTasks, CurState
    <3> QED
      BY <3>1 DEF WorkloadStep
  <2>13. CASE FinishTask(w)
    <3>1. Same
      BY <2>13, <1>0, <1>1, <1>2, <1>3, ActorFacts DEF FinishTask, Same, ActiveWorkers, CountedTasks, CurState, InTask
    <3> QED
      BY <3>1 DEF WorkloadStep
  <2> QED
    BY <1>5, <2>1, <2>2, <2>3, <2>4, <2>5, <2>6, <2>7, <2>8, <2>9, <2>10, <2>11, <2>12, <2>13 DEF WorkerStep
<1>6. CASE OwnerStep
  <2>1. CASE WaitForZeroTest
    <3>1. Same
      BY <2>1, <1>0, <1>1, <1>2, <1>3, ActorFacts DEF WaitForZeroTest, Same, ActiveWorkers, CountedTasks
    <3> QED
      BY <3>1 DEF WorkloadStep
  <2>2. CASE WaitForZeroLock
    <3>1. Same
      BY <2>2, <1>0, <1>1, <1>2, <1>3, ActorFacts DEF WaitForZeroLock, Same, ActiveWorkers, CountedTasks
    <3> QED
      BY <3>1 DEF WorkloadStep
  <2>3. CASE WaitForZeroPredicate
    <3>1. Same
      BY <2>3, <1>0, <1>1, <1>2, <1>3, ActorFacts DEF WaitForZeroPredicate, Same, ActiveWorkers, CountedTasks
    <3> QED
      BY <3>1 DEF WorkloadStep
  <2>4. CASE WaitForZeroBlock
    <3>1. Same
      BY <2>4, <1>0, <1>1, <1>2, <1>3, ActorFacts DEF WaitForZeroBlock, Same, ActiveWorkers, CountedTasks
    <3> QED
      BY <3>1 DEF WorkloadStep
  <2>5. CASE FinishReturn
    <3>1. Same
      BY <2>5, <1>0, <1>1, <1>2, <1>3, ActorFacts DEF FinishReturn, Same, ActiveWorkers, CountedTasks
    <3> QED
      BY <3>1 DEF WorkloadStep
  <2>6. CASE Join
    <3>1. Same
      BY <2>6, <1>0, <1>1, <1>2, <1>3, ActorFacts DEF Join, Same, ActiveWorkers, CountedTasks
    <3> QED
      BY <3>1 DEF WorkloadStep
  <2> QED
    BY <1>6, <2>1, <2>2, <2>3, <2>4, <2>5, <2>6 DEF OwnerStep
<1>7. ASSUME NEW a \in Actors, SpuriousWakeup(a) PROVE WorkloadStep
  <2>1. Same
    BY <1>7, <1>0, <1>1, <1>2, <1>3, ActorFacts DEF SpuriousWakeup, Same, ActiveWorkers, CountedTasks
  <2> QED
    BY <2>1 DEF WorkloadStep
<1>8. ASSUME NEW a \in Actors, NEW t \in Tasks, QueueTask(a, t) PROVE WorkloadStep
  <2>1. Same
    BY <1>8, <1>0, <1>1, <1>2, <1>3, ActorFacts DEF QueueTask, Same, ActiveWorkers, CountedTasks
  <2> QED
    BY <2>1 DEF WorkloadStep
<1>9. ASSUME NEW w \in Workers, CallShutdown(w) PROVE WorkloadStep
  <2>1. Same
    BY <1>9, <1>0, <1>1, <1>2, <1>3, ActorFacts DEF CallShutdown, Same, ActiveWorkers, CountedTasks
  <2> QED
    BY <2>1 DEF WorkloadStep
<1>10. CASE Finish
  <2>1. Same
    BY <1>10, <1>0, <1>1, <1>2, <1>3, ActorFacts DEF Finish, Same, ActiveWorkers, CountedTasks
  <2> QED
    BY <2>1 DEF WorkloadStep
<1>11. CASE UNCHANGED vars
  <2>1. Same
    BY <1>11, <1>0, <1>1, <1>2, <1>3, ActorFacts DEF vars, Same, ActiveWorkers, CountedTasks
  <2> QED
    BY <2>1 DEF WorkloadStep
<1> QED
  BY <1>4, <1>5, <1>6, <1>7, <1>8, <1>9, <1>10, <1>11 DEF Next, Terminated

(* The decrement to zero and the abort exclude the owner's test, and wake  *)
(* it.                                                                     *)
LEMMA OwnerSleepsOnWorkNext ==
  ASSUME TypeOK, OwnerLock, WorkloadExact, OwnerSleepsOnWork, [Next]_vars
  PROVE  OwnerSleepsOnWork'
<1> USE DEF Goto, StepNotify, Lock, Unlock, qvars, cvars, OwnerLock, OwnerSleepsOnWork, IsZero
<1>0. pc \in [Actors -> PCs]
  BY DEF TypeOK
<1>1. count \in Nat
  BY WorkloadZero
<1>2. ASSUME NEW a \in Actors, CallStep(a) PROVE OwnerSleepsOnWork'
  <2>1. CASE TryPushLock(a)
    BY <2>1, <1>0, <1>1, ActorFacts DEF TryPushLock
  <2>2. CASE TryPushFail(a)
    BY <2>2, <1>0, <1>1, ActorFacts DEF TryPushFail
  <2>3. CASE TryPushGiveUp(a)
    BY <2>3, <1>0, <1>1, ActorFacts DEF TryPushGiveUp
  <2>4. CASE PushIncrement(a)
    BY <2>4, <1>0, <1>1, ActorFacts DEF PushIncrement, Increment
  <2>5. CASE PushLock(a)
    BY <2>5, <1>0, <1>1, ActorFacts DEF PushLock
  <2>6. CASE Emplace(a)
    BY <2>6, <1>0, <1>1, ActorFacts DEF Emplace
  <2>7. CASE PushNotify(a)
    BY <2>7, <1>0, <1>1, ActorFacts DEF PushNotify
  <2>8. CASE SetShutdown(a)
    BY <2>8, <1>0, <1>1, ActorFacts DEF SetShutdown
  <2>9. CASE Abort(a)
    BY <2>9, <1>0, <1>1, ActorFacts DEF Abort
  <2>10. CASE QueueDone(a)
    BY <2>10, <1>0, <1>1, ActorFacts DEF QueueDone
  <2>11. CASE QueueDoneNotify(a)
    BY <2>11, <1>0, <1>1, ActorFacts DEF QueueDoneNotify
  <2>12. CASE ShutdownReturn(a)
    BY <2>12, <1>0, <1>1, ActorFacts DEF ShutdownReturn
  <2> QED
    BY <1>2, <2>1, <2>2, <2>3, <2>4, <2>5, <2>6, <2>7, <2>8, <2>9, <2>10, <2>11, <2>12 DEF CallStep
<1>3. ASSUME NEW w \in Workers, WorkerStep(w) PROVE OwnerSleepsOnWork'
  <2>1. CASE Check(w)
    BY <2>1, <1>0, <1>1, ActorFacts DEF Check
  <2>2. CASE TryPopLock(w)
    BY <2>2, <1>0, <1>1, ActorFacts DEF TryPopLock
  <2>3. CASE TryPopFail(w)
    BY <2>3, <1>0, <1>1, ActorFacts DEF TryPopFail
  <2>4. CASE Pop(w)
    BY <2>4, <1>0, <1>1, ActorFacts DEF Pop
  <2>5. CASE PopLock(w)
    BY <2>5, <1>0, <1>1, ActorFacts DEF PopLock
  <2>6. CASE IdleDecrement(w)
    BY <2>6, <1>0, <1>1, ActorFacts DEF IdleDecrement, Decrement
  <2>7. CASE Wait(w)
    BY <2>7, <1>0, <1>1, ActorFacts DEF Wait
  <2>8. CASE Recheck(w)
    BY <2>8, <1>0, <1>1, ActorFacts DEF Recheck
  <2>9. CASE WakeIncrement(w)
    BY <2>9, <1>0, <1>1, ActorFacts DEF WakeIncrement, Increment
  <2>10. CASE Take(w)
    BY <2>10, <1>0, <1>1, ActorFacts DEF Take, Decrement
  <2>11. CASE TakeNothing(w)
    BY <2>11, <1>0, <1>1, ActorFacts DEF TakeNothing
  <2>12. CASE StartOrDrop(w)
    BY <2>12, <1>0, <1>1, ActorFacts DEF StartOrDrop
  <2>13. CASE FinishTask(w)
    BY <2>13, <1>0, <1>1, ActorFacts DEF FinishTask
  <2> QED
    BY <1>3, <2>1, <2>2, <2>3, <2>4, <2>5, <2>6, <2>7, <2>8, <2>9, <2>10, <2>11, <2>12, <2>13 DEF WorkerStep
<1>4. CASE OwnerStep
  <2>1. CASE WaitForZeroTest
    BY <2>1, <1>0, <1>1, ActorFacts DEF WaitForZeroTest
  <2>2. CASE WaitForZeroLock
    BY <2>2, <1>0, <1>1, ActorFacts DEF WaitForZeroLock
  <2>3. CASE WaitForZeroPredicate
    BY <2>3, <1>0, <1>1, ActorFacts DEF WaitForZeroPredicate
  <2>4. CASE WaitForZeroBlock
    BY <2>4, <1>0, <1>1, ActorFacts DEF WaitForZeroBlock
  <2>5. CASE FinishReturn
    BY <2>5, <1>0, <1>1, ActorFacts DEF FinishReturn
  <2>6. CASE Join
    BY <2>6, <1>0, <1>1, ActorFacts DEF Join
  <2> QED
    BY <1>4, <2>1, <2>2, <2>3, <2>4, <2>5, <2>6 DEF OwnerStep
<1>5. ASSUME NEW a \in Actors, SpuriousWakeup(a) PROVE OwnerSleepsOnWork'
  BY <1>5, <1>0, <1>1, ActorFacts DEF SpuriousWakeup
<1>6. ASSUME NEW a \in Actors, NEW t \in Tasks, QueueTask(a, t) PROVE OwnerSleepsOnWork'
  BY <1>6, <1>0, <1>1, ActorFacts DEF QueueTask
<1>7. ASSUME NEW w \in Workers, CallShutdown(w) PROVE OwnerSleepsOnWork'
  BY <1>7, <1>0, <1>1, ActorFacts DEF CallShutdown
<1>8. CASE Finish
  BY <1>8, <1>0, <1>1, ActorFacts DEF Finish
<1>9. CASE UNCHANGED vars
  BY <1>9, <1>0, <1>1, ActorFacts DEF vars
<1> QED
  BY <1>2, <1>3, <1>4, <1>5, <1>6, <1>7, <1>8, <1>9 DEF Next, Terminated

PoolInvariant ==
  /\ TypeOK /\ PushedTask /\ ArgState /\ ArgUnique /\ QueuedState /\ QueuedUnique
  /\ CurState /\ CurUnique /\ PushingHeld /\ TakenHeld /\ RunningHeld
  /\ ShutdownFirst /\ OwnerLock /\ WorkloadExact /\ OwnerSleepsOnWork

(* The number of workers is N, so the counter starts exact.                *)
LEMMA InitWorkload == Init => WorkloadExact
<1> SUFFICES ASSUME Init PROVE WorkloadExact
  OBVIOUS
<1>1. ActiveWorkers = Workers
  BY ActorFacts DEF Init, ActiveWorkers
<1>2. CountedTasks = {}
  BY DEF Init, CountedTasks
<1>3. Cardinality(Workers) = N
  BY ThreadAssumption, FS_Interval DEF Workers
<1> QED
  BY <1>1, <1>2, <1>3, FS_EmptySet, ThreadAssumption DEF Init, InitialWorkload, WorkloadExact

(* PoolInvariant is inductive.                                             *)
LEMMA PoolInvariantInductive ==
  /\ Init => PoolInvariant
  /\ PoolInvariant /\ [Next]_vars => PoolInvariant'
<1>1. ASSUME Init PROVE PoolInvariant
  <2>1. \A w \in Workers : pc[w] = "check" /\ cur[w] = NoTask /\ queue[w] = <<>>
    BY <1>1, ActorFacts DEF Init
  <2>2. pc[Owner] = "idle" /\ \A a \in Actors : pc[a] \in {"idle", "check"}
    BY <1>1, ActorFacts DEF Init
  <2>3. \A t \in Tasks : tstate[t] = "new"
    BY <1>1 DEF Init
  <2>4. ArgState /\ ArgUnique /\ PushedTask
    BY <2>2 DEF ArgState, ArgUnique, PushedTask, Pushing, Counting
  <2>5. QueuedState /\ QueuedUnique
    <3>1. \A q \in Workers : 1 .. Len(queue[q]) = {}
      BY <2>1
    <3> QED
      BY <3>1 DEF QueuedState, QueuedUnique
  <2>6. CurState /\ CurUnique
    BY <2>1, TaskAssumption DEF CurState, CurUnique, InTask, Pushing, Counting
  <2>7. PushingHeld /\ TakenHeld /\ RunningHeld
    BY <2>3 DEF PushingHeld, TakenHeld, RunningHeld
  <2>8. ShutdownFirst /\ OwnerLock /\ OwnerSleepsOnWork
    BY <1>1, <2>2 DEF Init, ShutdownFirst, OwnerLock, OwnerSleepsOnWork
  <2> QED
    BY <1>1, <2>4, <2>5, <2>6, <2>7, <2>8, InitTypeOK, InitWorkload DEF PoolInvariant
<1>2. ASSUME PoolInvariant, [Next]_vars PROVE PoolInvariant'
  <2>1. (TypeOK /\ PushedTask)'
    BY <1>2, NextTypeOK DEF PoolInvariant
  <2>2. (ArgState /\ ArgUnique /\ QueuedState /\ QueuedUnique)'
    BY <1>2, ArgStateNext, ArgUniqueNext, QueuedStateNext, QueuedUniqueNext DEF PoolInvariant
  <2>3. (CurState /\ CurUnique)'
    BY <1>2, CurStateNext, CurUniqueNext DEF PoolInvariant
  <2>4. (PushingHeld /\ TakenHeld /\ RunningHeld)'
    BY <1>2, PushingHeldNext, TakenHeldNext, RunningHeldNext DEF PoolInvariant
  <2>5. (ShutdownFirst /\ OwnerLock)'
    BY <1>2, ShutdownFirstNext, OwnerLockNext DEF PoolInvariant
  <2>6. (WorkloadExact /\ OwnerSleepsOnWork)'
    BY <1>2, WorkloadStepNext, WorkloadExactNext, OwnerSleepsOnWorkNext DEF PoolInvariant
  <2> QED
    BY <2>1, <2>2, <2>3, <2>4, <2>5, <2>6 DEF PoolInvariant
<1> QED
  BY <1>1, <1>2

(* When the counter TaskSystem::Finish waits for is zero, no task is       *)
(* queued, taken or running, and the unsigned counter never underflows.    *)
THEOREM ZeroMeansIdle == Spec => []ZeroIsIdle
<1>1. ASSUME PoolInvariant PROVE ZeroIsIdle
  <2>1. /\ TypeOK /\ PushingHeld /\ TakenHeld /\ RunningHeld
        /\ count \in Nat /\ (count = 0 => ActiveWorkers = {} /\ CountedTasks = {})
    BY <1>1, WorkloadZero DEF PoolInvariant
  <2> SUFFICES ASSUME count = 0, NEW t \in Tasks,
                      tstate[t] \notin {"new", "finished", "dropped"}
               PROVE  tstate[t] = "pushing" /\ arg[Owner] = t
    BY <2>1 DEF ZeroIsIdle
  <2>2. CASE tstate[t] \in {"counted", "queued"}
    BY <2>1, <2>2 DEF CountedTasks
  <2>3. CASE tstate[t] = "pushing"
    BY <2>1, <2>3, ActorFacts DEF PushingHeld, Pushing, ActiveWorkers
  <2>4. CASE tstate[t] = "taken"
    BY <2>1, <2>4 DEF TakenHeld, ActiveWorkers
  <2>5. CASE tstate[t] = "running"
    BY <2>1, <2>5 DEF RunningHeld, InTask, Pushing, Counting, ActiveWorkers
  <2> QED
    BY <2>1, <2>2, <2>3, <2>4, <2>5 DEF TypeOK, TaskStates
<1> QED
  BY <1>1, PoolInvariantInductive, PTL DEF Spec

(* The owner never sleeps in WaitForZero while the counter is zero or      *)
(* aborted, although the last Decrement notifies without the lock.         *)
THEOREM OwnerNeverSleepsIdle == Spec => []OwnerSleepsOnWork
<1>1. PoolInvariant => OwnerSleepsOnWork
  BY DEF PoolInvariant
<1> QED
  BY <1>1, PoolInvariantInductive, PTL DEF Spec

-----------------------------------------------------------------------------
(* The pool implements TaskPool, step by step.                             *)
(* What a step of the pool relies on.                                      *)
PoolInv ==
  /\ TypeOK /\ ArgState /\ QueuedState /\ CurState
  /\ PushingHeld /\ TakenHeld /\ RunningHeld /\ ShutdownFirst /\ WorkloadExact

(* When the owner finds the counter at zero, no task is pending or runs.   *)
LEMMA NoWorkIsQuiet ==
  ASSUME TypeOK, PushingHeld, TakenHeld, RunningHeld, WorkloadExact,
         pc[Owner] = "wz_test", count = 0
  PROVE  Pool!Quiet
<1>1. ActiveWorkers = {} /\ CountedTasks = {}
  BY WorkloadZero
<1> SUFFICES ASSUME NEW t \in Tasks, tstate[t] \in {"pushing", "counted", "queued", "taken", "running"}
             PROVE  FALSE
  BY DEF Pool!Quiet, PoolStatus, TypeOK, TaskStates
<1>2. CASE tstate[t] \in {"counted", "queued"}
  BY <1>1, <1>2 DEF CountedTasks
<1>3. CASE tstate[t] = "pushing"
  BY <1>1, <1>3, ActorFacts DEF PushingHeld, Pushing, ActiveWorkers
<1>4. CASE tstate[t] = "taken"
  BY <1>1, <1>4 DEF TakenHeld, ActiveWorkers
<1>5. CASE tstate[t] = "running"
  BY <1>1, <1>5 DEF RunningHeld, InTask, Pushing, Counting, ActiveWorkers
<1> QED
  BY <1>2, <1>3, <1>4, <1>5

(* Initially nothing was queued and the owner is at work.                  *)
LEMMA PoolInit == Init => Pool!Init
<1> SUFFICES ASSUME Init PROVE Pool!Init
  OBVIOUS
<1>1. PoolStatus = [t \in Tasks |-> "new"] /\ shutdown = FALSE
  BY DEF Init, PoolStatus
<1>2. PoolOwner = "working"
  BY ActorFacts DEF Init, PoolOwner
<1> QED
  BY <1>1, <1>2 DEF Pool!Init
(* Every step of the pool is a step of TaskPool or changes nothing its     *)
(* users see.                                                              *)
LEMMA PoolStep ==
  ASSUME PoolInv, [Next]_vars
  PROVE  Pool!Next \/ UNCHANGED <<PoolStatus, shutdown, PoolOwner>>
<1> USE DEF Goto, StepNotify, Lock, Unlock, qvars, cvars, PoolInv
<1>0. pc \in [Actors -> PCs]
  BY DEF TypeOK
<1>1. tstate \in [Tasks -> TaskStates]
  BY DEF TypeOK
<1>2. arg \in [Actors -> Tasks \cup {NoTask}] /\ NoTask \notin Tasks
  BY TaskAssumption DEF TypeOK
<1>3. cur \in [Workers -> Tasks \cup {NoTask}] /\ NoTask \notin Tasks
  BY TaskAssumption DEF TypeOK
<1>4. ASSUME NEW a \in Actors, CallStep(a) PROVE Pool!Next \/ UNCHANGED <<PoolStatus, shutdown, PoolOwner>>
  <2>1. CASE TryPushLock(a)
    <3>1. UNCHANGED <<PoolStatus, shutdown, PoolOwner>>
      BY <2>1, <1>0, <1>1, <1>2, <1>3, ActorFacts DEF TryPushLock, PoolStatus, PoolOwner
    <3> QED
      BY <3>1
  <2>2. CASE TryPushFail(a)
    <3>1. UNCHANGED <<PoolStatus, shutdown, PoolOwner>>
      BY <2>2, <1>0, <1>1, <1>2, <1>3, ActorFacts DEF TryPushFail, PoolStatus, PoolOwner
    <3> QED
      BY <3>1
  <2>3. CASE TryPushGiveUp(a)
    <3>1. UNCHANGED <<PoolStatus, shutdown, PoolOwner>>
      BY <2>3, <1>0, <1>1, <1>2, <1>3, ActorFacts DEF TryPushGiveUp, PoolStatus, PoolOwner
    <3> QED
      BY <3>1
  <2>4. CASE PushIncrement(a)
    <3>1. UNCHANGED <<PoolStatus, shutdown, PoolOwner>>
      BY <2>4, <1>0, <1>1, <1>2, <1>3, ActorFacts DEF PushIncrement, PoolStatus, PoolOwner, ArgState, Pushing, Increment
    <3> QED
      BY <3>1
  <2>5. CASE PushLock(a)
    <3>1. UNCHANGED <<PoolStatus, shutdown, PoolOwner>>
      BY <2>5, <1>0, <1>1, <1>2, <1>3, ActorFacts DEF PushLock, PoolStatus, PoolOwner
    <3> QED
      BY <3>1
  <2>6. CASE Emplace(a)
    <3>1. UNCHANGED <<PoolStatus, shutdown, PoolOwner>>
      BY <2>6, <1>0, <1>1, <1>2, <1>3, ActorFacts DEF Emplace, PoolStatus, PoolOwner, ArgState, Counting
    <3> QED
      BY <3>1
  <2>7. CASE PushNotify(a)
    <3>1. UNCHANGED <<PoolStatus, shutdown, PoolOwner>>
      BY <2>7, <1>0, <1>1, <1>2, <1>3, ActorFacts DEF PushNotify, PoolStatus, PoolOwner
    <3> QED
      BY <3>1
  <2>8. CASE SetShutdown(a)
    <3>1. UNCHANGED <<PoolStatus, PoolOwner>>
      BY <2>8, <1>0, ActorFacts DEF SetShutdown, PoolStatus, PoolOwner
    <3>2. CASE a = Owner
      <4>1. PoolOwner = "returned"
        BY <2>8, <3>2 DEF SetShutdown, PoolOwner
      <4> QED
        BY <2>8, <3>1, <4>1 DEF SetShutdown, Pool!Next, Pool!Stop
    <3>3. CASE a # Owner
      <4>1. a \in Workers /\ cur[a] \in Tasks /\ tstate[cur[a]] = "running"
        BY <2>8, <3>3, ActorFacts DEF SetShutdown, CurState, InTask
      <4>2. PoolStatus[cur[a]] = "running"
        BY <4>1 DEF PoolStatus
      <4> QED
        BY <2>8, <3>1, <4>1, <4>2 DEF SetShutdown, Pool!Next, Pool!Stop
    <3> QED
      BY <3>2, <3>3
  <2>9. CASE Abort(a)
    <3>1. UNCHANGED <<PoolStatus, shutdown, PoolOwner>>
      BY <2>9, <1>0, <1>1, <1>2, <1>3, ActorFacts DEF Abort, PoolStatus, PoolOwner
    <3> QED
      BY <3>1
  <2>10. CASE QueueDone(a)
    <3>1. UNCHANGED <<PoolStatus, shutdown, PoolOwner>>
      BY <2>10, <1>0, <1>1, <1>2, <1>3, ActorFacts DEF QueueDone, PoolStatus, PoolOwner
    <3> QED
      BY <3>1
  <2>11. CASE QueueDoneNotify(a)
    <3>1. UNCHANGED <<PoolStatus, shutdown, PoolOwner>>
      BY <2>11, <1>0, <1>1, <1>2, <1>3, ActorFacts DEF QueueDoneNotify, PoolStatus, PoolOwner
    <3> QED
      BY <3>1
  <2>12. CASE ShutdownReturn(a)
    <3>1. UNCHANGED <<PoolStatus, shutdown, PoolOwner>>
      BY <2>12, <1>0, <1>1, <1>2, <1>3, ActorFacts DEF ShutdownReturn, PoolStatus, PoolOwner
    <3> QED
      BY <3>1
  <2> QED
    BY <1>4, <2>1, <2>2, <2>3, <2>4, <2>5, <2>6, <2>7, <2>8, <2>9, <2>10, <2>11, <2>12 DEF CallStep
<1>5. ASSUME NEW w \in Workers, WorkerStep(w) PROVE Pool!Next \/ UNCHANGED <<PoolStatus, shutdown, PoolOwner>>
  <2>1. CASE Check(w)
    <3>1. UNCHANGED <<PoolStatus, shutdown, PoolOwner>>
      BY <2>1, <1>0, <1>1, <1>2, <1>3, ActorFacts DEF Check, PoolStatus, PoolOwner
    <3> QED
      BY <3>1
  <2>2. CASE TryPopLock(w)
    <3>1. UNCHANGED <<PoolStatus, shutdown, PoolOwner>>
      BY <2>2, <1>0, <1>1, <1>2, <1>3, ActorFacts DEF TryPopLock, PoolStatus, PoolOwner
    <3> QED
      BY <3>1
  <2>3. CASE TryPopFail(w)
    <3>1. UNCHANGED <<PoolStatus, shutdown, PoolOwner>>
      BY <2>3, <1>0, <1>1, <1>2, <1>3, ActorFacts DEF TryPopFail, PoolStatus, PoolOwner
    <3> QED
      BY <3>1
  <2>4. CASE Pop(w)
    <3>1. UNCHANGED <<PoolStatus, shutdown, PoolOwner>>
      BY <2>4, <1>0, <1>1, <1>2, <1>3, ActorFacts DEF Pop, PoolStatus, PoolOwner
    <3> QED
      BY <3>1
  <2>5. CASE PopLock(w)
    <3>1. UNCHANGED <<PoolStatus, shutdown, PoolOwner>>
      BY <2>5, <1>0, <1>1, <1>2, <1>3, ActorFacts DEF PopLock, PoolStatus, PoolOwner
    <3> QED
      BY <3>1
  <2>6. CASE IdleDecrement(w)
    <3>1. UNCHANGED <<PoolStatus, shutdown, PoolOwner>>
      BY <2>6, <1>0, <1>1, <1>2, <1>3, ActorFacts DEF IdleDecrement, PoolStatus, PoolOwner, Decrement
    <3> QED
      BY <3>1
  <2>7. CASE Wait(w)
    <3>1. UNCHANGED <<PoolStatus, shutdown, PoolOwner>>
      BY <2>7, <1>0, <1>1, <1>2, <1>3, ActorFacts DEF Wait, PoolStatus, PoolOwner
    <3> QED
      BY <3>1
  <2>8. CASE Recheck(w)
    <3>1. UNCHANGED <<PoolStatus, shutdown, PoolOwner>>
      BY <2>8, <1>0, <1>1, <1>2, <1>3, ActorFacts DEF Recheck, PoolStatus, PoolOwner
    <3> QED
      BY <3>1
  <2>9. CASE WakeIncrement(w)
    <3>1. UNCHANGED <<PoolStatus, shutdown, PoolOwner>>
      BY <2>9, <1>0, <1>1, <1>2, <1>3, ActorFacts DEF WakeIncrement, PoolStatus, PoolOwner, Increment
    <3> QED
      BY <3>1
  <2>10. CASE Take(w)
    <3>1. PICK t \in Tasks : tstate[t] = "queued" /\ tstate' = [tstate EXCEPT ![t] = "taken"]
      BY <2>10, HeadQueued, SlotInWorkers, ActorFacts DEF Take
    <3>2. PoolStatus' = PoolStatus
      BY <3>1, <1>1 DEF PoolStatus
    <3>3. UNCHANGED <<shutdown, PoolOwner>>
      BY <2>10, <1>0, ActorFacts DEF Take, Decrement, PoolOwner
    <3> QED
      BY <3>2, <3>3
  <2>11. CASE TakeNothing(w)
    <3>1. UNCHANGED <<PoolStatus, shutdown, PoolOwner>>
      BY <2>11, <1>0, <1>1, <1>2, <1>3, ActorFacts DEF TakeNothing, PoolStatus, PoolOwner
    <3> QED
      BY <3>1
  <2>12. CASE StartOrDrop(w)
    <3>1. /\ cur[w] \in Tasks /\ tstate[cur[w]] = "taken"
          /\ tstate' = [tstate EXCEPT ![cur[w]] = IF shutdown THEN "dropped" ELSE "running"]
      BY <2>12 DEF StartOrDrop, CurState
    <3>2. /\ PoolStatus[cur[w]] = "pending"
          /\ PoolStatus' = [PoolStatus EXCEPT ![cur[w]] = IF shutdown THEN "dropped" ELSE "running"]
      BY <3>1, <1>1 DEF PoolStatus
    <3>3. UNCHANGED <<shutdown, PoolOwner>>
      BY <2>12, <1>0, ActorFacts DEF StartOrDrop, PoolOwner
    <3>4. Pool!Start(cur[w]) \/ Pool!Drop(cur[w])
      <4>1. CASE shutdown
        BY <3>2, <3>3, <4>1 DEF Pool!Drop, Pool!Set
      <4>2. CASE ~shutdown
        BY <3>2, <3>3, <4>2 DEF Pool!Start, Pool!Set
      <4> QED
        BY <4>1, <4>2
    <3> QED
      BY <3>1, <3>4 DEF Pool!Next
  <2>13. CASE FinishTask(w)
    <3>1. /\ cur[w] \in Tasks /\ tstate[cur[w]] = "running"
          /\ tstate' = [tstate EXCEPT ![cur[w]] = "finished"]
      BY <2>13 DEF FinishTask, CurState, InTask
    <3>2. PoolStatus[cur[w]] = "running" /\ PoolStatus' = [PoolStatus EXCEPT ![cur[w]] = "finished"]
      BY <3>1, <1>1 DEF PoolStatus
    <3>3. UNCHANGED <<shutdown, PoolOwner>>
      BY <2>13, <1>0, ActorFacts DEF FinishTask, PoolOwner
    <3>4. Pool!End(cur[w])
      BY <3>2, <3>3 DEF Pool!End, Pool!Set
    <3> QED
      BY <3>1, <3>4 DEF Pool!Next
  <2> QED
    BY <1>5, <2>1, <2>2, <2>3, <2>4, <2>5, <2>6, <2>7, <2>8, <2>9, <2>10, <2>11, <2>12, <2>13 DEF WorkerStep
<1>6. CASE OwnerStep
  <2>1. CASE WaitForZeroTest
    <3>1. UNCHANGED <<PoolStatus, shutdown>> /\ PoolOwner = "waiting"
      BY <2>1, <1>0 DEF WaitForZeroTest, PoolStatus, PoolOwner
    <3>2. CASE IsZero
      <4>1. PoolOwner' = "returned"
        BY <2>1, <3>2, <1>0, ActorFacts DEF WaitForZeroTest, PoolOwner
      <4>2. Pool!Quiet \/ shutdown
        BY <2>1, <3>2, NoWorkIsQuiet DEF WaitForZeroTest, IsZero, ShutdownFirst
      <4> QED
        BY <3>1, <4>1, <4>2 DEF Pool!Next, Pool!Return
    <3>3. CASE ~IsZero
      <4>1. PoolOwner' = "waiting"
        BY <2>1, <3>3, <1>0, ActorFacts DEF WaitForZeroTest, PoolOwner
      <4> QED
        BY <3>1, <4>1
    <3> QED
      BY <3>2, <3>3
  <2>2. CASE WaitForZeroLock
    <3>1. UNCHANGED <<PoolStatus, shutdown, PoolOwner>>
      BY <2>2, <1>0, <1>1, <1>2, <1>3, ActorFacts DEF WaitForZeroLock, PoolStatus, PoolOwner
    <3> QED
      BY <3>1
  <2>3. CASE WaitForZeroPredicate
    <3>1. UNCHANGED <<PoolStatus, shutdown, PoolOwner>>
      BY <2>3, <1>0, <1>1, <1>2, <1>3, ActorFacts DEF WaitForZeroPredicate, PoolStatus, PoolOwner
    <3> QED
      BY <3>1
  <2>4. CASE WaitForZeroBlock
    <3>1. UNCHANGED <<PoolStatus, shutdown, PoolOwner>>
      BY <2>4, <1>0, <1>1, <1>2, <1>3, ActorFacts DEF WaitForZeroBlock, PoolStatus, PoolOwner
    <3> QED
      BY <3>1
  <2>5. CASE FinishReturn
    <3>1. UNCHANGED <<PoolStatus, shutdown>> /\ PoolOwner = "returned"
      BY <2>5, <1>0 DEF FinishReturn, PoolStatus, PoolOwner
    <3>2. PoolOwner' = IF dtor THEN "returned" ELSE "working"
      BY <2>5, <1>0, ActorFacts DEF FinishReturn, PoolOwner
    <3> QED
      BY <3>1, <3>2 DEF Pool!Next, Pool!Resume
  <2>6. CASE Join
    <3>1. /\ UNCHANGED <<PoolStatus, shutdown>> /\ shutdown
          /\ PoolOwner = "returned" /\ PoolOwner' = "gone"
      BY <2>6, <1>0, ActorFacts DEF Join, PoolStatus, PoolOwner, ShutdownFirst
    <3>2. \A t \in Tasks : PoolStatus[t] # "running"
      BY <2>6 DEF Join, PoolStatus, RunningHeld, InTask, Pushing, Counting
    <3> QED
      BY <3>1, <3>2 DEF Pool!Next, Pool!Destroyed
  <2> QED
    BY <1>6, <2>1, <2>2, <2>3, <2>4, <2>5, <2>6 DEF OwnerStep
<1>7. ASSUME NEW a \in Actors, SpuriousWakeup(a) PROVE Pool!Next \/ UNCHANGED <<PoolStatus, shutdown, PoolOwner>>
  <2>1. UNCHANGED <<PoolStatus, shutdown, PoolOwner>>
    BY <1>7, <1>0, <1>1, <1>2, <1>3, ActorFacts DEF SpuriousWakeup, PoolStatus, PoolOwner
  <2> QED
    BY <2>1
<1>8. ASSUME NEW a \in Actors, NEW t \in Tasks, QueueTask(a, t) PROVE Pool!Next \/ UNCHANGED <<PoolStatus, shutdown, PoolOwner>>
  <2>1. PoolStatus[t] = "new" /\ PoolStatus' = [PoolStatus EXCEPT ![t] = "pending"]
    BY <1>8, <1>1 DEF QueueTask, PoolStatus
  <2>2. UNCHANGED <<shutdown, PoolOwner>>
    BY <1>8, <1>0, ActorFacts DEF QueueTask, PoolOwner
  <2>3. PoolOwner = "working" \/ \E u \in Tasks : PoolStatus[u] = "running"
    <3>1. CASE a = Owner
      BY <1>8, <3>1 DEF QueueTask, PoolOwner
    <3>2. CASE a # Owner
      BY <1>8, <3>2, ActorFacts DEF QueueTask, CurState, InTask, PoolStatus
    <3> QED
      BY <3>1, <3>2
  <2>4. Pool!Queue(t)
    BY <2>1, <2>2, <2>3 DEF Pool!Queue, Pool!Set
  <2> QED
    BY <2>4 DEF Pool!Next
<1>9. ASSUME NEW w \in Workers, CallShutdown(w) PROVE Pool!Next \/ UNCHANGED <<PoolStatus, shutdown, PoolOwner>>
  <2>1. UNCHANGED <<PoolStatus, shutdown, PoolOwner>>
    BY <1>9, <1>0, <1>1, <1>2, <1>3, ActorFacts DEF CallShutdown, PoolStatus, PoolOwner
  <2> QED
    BY <2>1
<1>10. CASE Finish
  <2>1. UNCHANGED <<PoolStatus, shutdown>> /\ PoolOwner = "working" /\ PoolOwner' = "waiting"
    BY <1>10, <1>0, ActorFacts DEF Finish, PoolStatus, PoolOwner
  <2> QED
    BY <2>1 DEF Pool!Next, Pool!Call
<1>11. CASE UNCHANGED vars
  <2>1. UNCHANGED <<PoolStatus, shutdown, PoolOwner>>
    BY <1>11, <1>0, <1>1, <1>2, <1>3, ActorFacts DEF vars, PoolStatus, PoolOwner
  <2> QED
    BY <2>1
<1> QED
  BY <1>4, <1>5, <1>6, <1>7, <1>8, <1>9, <1>10, <1>11 DEF Next, Terminated

(* The safety part of ImplementsTaskPool: a task runs at most once and only*)
(* after it was queued, is dropped only after Shutdown, Finish returns only *)
(* when all work is done or Shutdown was called, and nothing runs any more  *)
(* when the pool has been destroyed.                                        *)
THEOREM RefinesTaskPool == Spec => Pool!Safety
<1>1. PoolInvariant /\ [Next]_vars => [Pool!Next]_(Pool!poolVars)
  <2>1. PoolInvariant => PoolInv
    BY DEF PoolInvariant, PoolInv
  <2> QED
    BY <2>1, PoolStep DEF Pool!poolVars
<1>2. Init => Pool!Init
  BY PoolInit
<1> QED
  BY <1>1, <1>2, PoolInvariantInductive, PTL DEF Spec, Pool!Safety
=============================================================================
