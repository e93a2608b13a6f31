----------------------------- MODULE TaskSystem -----------------------------
(***************************************************************************)
(* The thread pool of src/buildtool/multithreading: TaskSystem (N worker   *)
(* threads, N notification queues, work stealing), NotificationQueue (a    *)
(* mutex, a condition variable and a deque) and WaitableZeroCounter (the   *)
(* total workload that TaskSystem::Finish waits for).                      *)
(*                                                                         *)
(* Every lock acquisition, every access to an atomic and every             *)
(* notification is a step of its own.  A critical section that only reads  *)
(* and then releases the lock is one step; a thread that tests a wait      *)
(* predicate and then blocks takes two, so that a lost wake-up would show. *)
(*                                                                         *)
(* Actors are the workers 0 .. N-1 and the thread that owns the pool.      *)
(***************************************************************************)
EXTENDS Integers, Sequences, FiniteSets

CONSTANTS N,                  \* thread_count_, at least 1 by the constructor
          Tasks,              \* the tasks that may ever be queued
          Aborters,           \* tasks whose body calls TaskSystem::Shutdown
          NumberOfAttempts,   \* kNumberOfAttempts
          NoTask              \* no task: the empty std::optional<Task>

ASSUME ThreadAssumption  == N \in Nat \ {0}
ASSUME TaskAssumption    == /\ IsFiniteSet(Tasks) /\ Aborters \subseteq Tasks
                            /\ NoTask \notin Tasks
ASSUME AttemptAssumption == NumberOfAttempts \in Nat

Workers == 0 .. N - 1
Owner   == N
Actors  == 0 .. N
None    == -1      \* no thread holds the mutex

VARIABLES
  pc,        \* where each thread is
  at,        \* per thread, the queue index a loop over queues starts from ...
  it,        \* ... and the loop counter i
  arg,       \* per thread, the task it is handing to QueueTask
  cur,       \* per worker, the task it has popped
  queue,     \* NotificationQueue::queue_
  mutex,     \* NotificationQueue::mutex_, the thread that holds it
  qdone,     \* NotificationQueue::done_
  count,     \* WaitableZeroCounter::count_
  cdone,     \* WaitableZeroCounter::done_
  cmutex,    \* WaitableZeroCounter::mutex_ is held exclusively (by the owner)
  shutdown,  \* TaskSystem::shutdown_
  index,     \* TaskSystem::index_, modulo N
  dtor,      \* the owner runs ~TaskSystem
  tstate     \* how far each task has come

vars == <<pc, at, it, arg, cur, queue, mutex, qdone, count, cdone, cmutex,
          shutdown, index, dtor, tstate>>

qvars == <<queue, mutex, qdone>>
cvars == <<count, cdone, cmutex>>

OwnerPCs  == {"idle", "wz_test", "wz_lock", "wz_pred", "wz_block", "returned",
              "join", "gone"}
WorkerPCs == {"check", "try_pop", "pop", "idle_dec", "wait", "inc", "take",
              "have", "run", "exited"}
CallPCs   == {"try_push", "try_inc", "push_inc", "push_lock", "emplace",
              "notify", "sd_flag", "sd_abort", "sd_done", "sd_notify",
              "asleep", "woken"}
PCs == OwnerPCs \cup WorkerPCs \cup CallPCs
TaskStates == {"new", "pushing", "counted", "queued", "taken", "running",
               "finished", "dropped"}

TypeOK ==
  /\ pc \in [Actors -> PCs]
  /\ at \in [Actors -> Workers]
  /\ it \in [Actors -> Nat]
  /\ arg \in [Actors -> Tasks \cup {NoTask}]
  /\ cur \in [Workers -> Tasks \cup {NoTask}]
  /\ queue \in [Workers -> Seq(Tasks)]
  /\ mutex \in [Workers -> Actors \cup {None}]
  /\ qdone \in [Workers -> BOOLEAN]
  /\ count \in Int
  /\ cdone \in BOOLEAN /\ cmutex \in BOOLEAN
  /\ shutdown \in BOOLEAN /\ dtor \in BOOLEAN
  /\ index \in Workers
  /\ tstate \in [Tasks -> TaskStates]

(* All threads count as workload until they first go to sleep. *)
InitialWorkload == N

(* TaskSystem::TaskSystem *)
Init ==
  /\ pc = [a \in Actors |-> IF a = Owner THEN "idle" ELSE "check"]
  /\ at = [a \in Actors |-> 0]
  /\ it = [a \in Actors |-> 0]
  /\ arg = [a \in Actors |-> NoTask]
  /\ cur = [w \in Workers |-> NoTask]
  /\ queue = [q \in Workers |-> <<>>]
  /\ mutex = [q \in Workers |-> None]
  /\ qdone = [q \in Workers |-> FALSE]
  /\ count = InitialWorkload
  /\ cdone = FALSE /\ cmutex = FALSE /\ shutdown = FALSE /\ dtor = FALSE
  /\ index = 0
  /\ tstate = [t \in Tasks |-> "new"]

-----------------------------------------------------------------------------
(* Control flow: thread a goes to l, and the sleeping threads of S wake.   *)
StepNotify(a, l, S) ==
  pc' = [x \in Actors |-> IF x = a THEN l
                          ELSE IF x \in S /\ pc[x] = "asleep" THEN "woken"
                          ELSE pc[x]]
Goto(a, l) == pc' = [pc EXCEPT ![a] = l]

(* The queue a loop over the queues has come to. *)
Slot(a) == (at[a] + it[a]) % N

Lock(a, q) == mutex[q] = None /\ mutex' = [mutex EXCEPT ![q] = a]
Unlock(q)  == mutex' = [mutex EXCEPT ![q] = None]

(* WaitableZeroCounter::Decrement holds the lock shared, so it excludes    *)
(* the owner between its test of the predicate and its going to sleep.     *)
Decrement(a, l) ==
  /\ ~cmutex
  /\ count' = count - 1
  /\ StepNotify(a, l, IF count - 1 = 0 THEN {Owner} ELSE {})
  /\ UNCHANGED <<cdone, cmutex>>

(* WaitableZeroCounter::Increment takes no lock. *)
Increment == count' = count + 1 /\ UNCHANGED <<cdone, cmutex>>

IsZero == count = 0 \/ cdone

-----------------------------------------------------------------------------
(* The queues are filled in turn. *)
NextIndex == (index + 1) % N

(* TaskSystem::QueueTask, called by the owner or from inside a task.       *)
QueueTask(a, t) ==
  /\ pc[a] = (IF a = Owner THEN "idle" ELSE "run")
  /\ tstate[t] = "new"
  /\ tstate' = [tstate EXCEPT ![t] = "pushing"]
  /\ arg' = [arg EXCEPT ![a] = t]
  /\ at' = [at EXCEPT ![a] = index]
  /\ it' = [it EXCEPT ![a] = 0]
  /\ index' = NextIndex
  /\ Goto(a, "try_push")
  /\ UNCHANGED <<cur, qvars, cvars, shutdown, dtor>>

(* try_push got the mutex *)
TryPushLock(a) ==
  /\ pc[a] = "try_push" /\ it[a] < N * NumberOfAttempts
  /\ Lock(a, Slot(a))
  /\ Goto(a, "try_inc")
  /\ UNCHANGED <<at, it, arg, cur, queue, qdone, cvars, shutdown, index, dtor,
                 tstate>>

(* try_push found the mutex taken: the next queue *)
TryPushFail(a) ==
  /\ pc[a] = "try_push" /\ it[a] < N * NumberOfAttempts
  /\ mutex[Slot(a)] # None
  /\ it' = [it EXCEPT ![a] = @ + 1]
  /\ UNCHANGED <<pc, at, arg, cur, qvars, cvars, shutdown, index, dtor, tstate>>

(* all attempts used: the blocking push on the first queue *)
TryPushGiveUp(a) ==
  /\ pc[a] = "try_push" /\ it[a] = N * NumberOfAttempts
  /\ Goto(a, "push_inc")
  /\ UNCHANGED <<at, it, arg, cur, qvars, cvars, shutdown, index, dtor, tstate>>

(* the Increment of try_push (mutex held) and of push (mutex not held) *)
PushIncrement(a) ==
  /\ \/ pc[a] = "try_inc"  /\ Goto(a, "emplace")
     \/ pc[a] = "push_inc" /\ Goto(a, "push_lock")
  /\ Increment
  /\ tstate' = [tstate EXCEPT ![arg[a]] = "counted"]
  /\ UNCHANGED <<at, it, arg, cur, qvars, shutdown, index, dtor>>

PushLock(a) ==
  /\ pc[a] = "push_lock"
  /\ Lock(a, Slot(a))
  /\ Goto(a, "emplace")
  /\ UNCHANGED <<at, it, arg, cur, queue, qdone, cvars, shutdown, index, dtor,
                 tstate>>

Emplace(a) ==
  /\ pc[a] = "emplace"
  /\ queue' = [queue EXCEPT ![Slot(a)] = Append(@, arg[a])]
  /\ Unlock(Slot(a))
  /\ tstate' = [tstate EXCEPT ![arg[a]] = "queued"]
  /\ Goto(a, "notify")
  /\ UNCHANGED <<at, it, arg, cur, qdone, cvars, shutdown, index, dtor>>

(* Mutant of PushNotify: nobody is notified.                               *)
PushNotifyNobody(a) ==
  /\ pc[a] = "notify"
  /\ Goto(a, IF a = Owner THEN "idle" ELSE "run")
  /\ arg' = [arg EXCEPT ![a] = NoTask]
  /\ UNCHANGED <<at, it, cur, qvars, cvars, shutdown, index, dtor, tstate>>

(* ready_.notify_one(), after the mutex was released *)
PushNotify(a) ==
  /\ pc[a] = "notify"
  /\ StepNotify(a, IF a = Owner THEN "idle" ELSE "run", {Slot(a)})
  /\ arg' = [arg EXCEPT ![a] = NoTask]
  /\ UNCHANGED <<at, it, cur, qvars, cvars, shutdown, index, dtor, tstate>>

-----------------------------------------------------------------------------
(* TaskSystem::Run, the loop of worker w.                                  *)
Check(w) ==
  /\ pc[w] = "check"
  /\ Goto(w, IF shutdown THEN "exited" ELSE "try_pop")
  /\ at' = [at EXCEPT ![w] = w]
  /\ it' = [it EXCEPT ![w] = 0]
  /\ UNCHANGED <<arg, cur, qvars, cvars, shutdown, index, dtor, tstate>>

(* try_pop got the mutex of a queue that holds a task *)
TryPopLock(w) ==
  /\ pc[w] = "try_pop" /\ it[w] < N
  /\ queue[Slot(w)] # <<>>
  /\ Lock(w, Slot(w))
  /\ Goto(w, "take")
  /\ UNCHANGED <<at, it, arg, cur, queue, qdone, cvars, shutdown, index, dtor,
                 tstate>>

(* try_pop found the mutex taken, or the queue empty *)
TryPopFail(w) ==
  /\ pc[w] = "try_pop" /\ it[w] < N
  /\ mutex[Slot(w)] # None \/ queue[Slot(w)] = <<>>
  /\ it' = [it EXCEPT ![w] = @ + 1]
  /\ UNCHANGED <<pc, at, arg, cur, qvars, cvars, shutdown, index, dtor, tstate>>

(* nothing to steal: NotificationQueue::pop on the worker's own queue *)
Pop(w) ==
  /\ pc[w] = "try_pop" /\ it[w] = N
  /\ Goto(w, "pop")
  /\ UNCHANGED <<at, it, arg, cur, qvars, cvars, shutdown, index, dtor, tstate>>

SomethingToPopOrDone(q) == queue[q] # <<>> \/ qdone[q]

PopLock(w) ==
  /\ pc[w] = "pop"
  /\ Lock(w, w)
  /\ Goto(w, IF SomethingToPopOrDone(w) THEN "take" ELSE "idle_dec")
  /\ UNCHANGED <<at, it, arg, cur, queue, qdone, cvars, shutdown, index, dtor,
                 tstate>>

(* the worker stops counting as workload ... *)
IdleDecrement(w) ==
  /\ pc[w] = "idle_dec"
  /\ Decrement(w, "wait")
  /\ UNCHANGED <<at, it, arg, cur, qvars, shutdown, index, dtor, tstate>>

(* ... and sleeps on ready_ *)
Wait(w) ==
  /\ pc[w] = "wait"
  /\ Unlock(w)
  /\ Goto(w, "asleep")
  /\ UNCHANGED <<at, it, arg, cur, queue, qdone, cvars, shutdown, index, dtor,
                 tstate>>

(* a condition variable may wake without a notification *)
SpuriousWakeup(a) ==
  /\ pc[a] = "asleep"
  /\ Goto(a, "woken")
  /\ UNCHANGED <<at, it, arg, cur, qvars, cvars, shutdown, index, dtor, tstate>>

(* Mutant of Recheck: a single wait, without testing the predicate again.  *)
RecheckOnce(w) ==
  /\ pc[w] = "woken"
  /\ Lock(w, w) /\ Goto(w, "inc")
  /\ UNCHANGED <<at, it, arg, cur, queue, qdone, cvars, shutdown, index, dtor,
                 tstate>>

(* the predicate of ready_.wait, with the mutex reacquired *)
Recheck(w) ==
  /\ pc[w] = "woken"
  /\ IF SomethingToPopOrDone(w)
       THEN Lock(w, w) /\ Goto(w, "inc")
       ELSE mutex[w] = None /\ Goto(w, "asleep") /\ UNCHANGED mutex
  /\ UNCHANGED <<at, it, arg, cur, queue, qdone, cvars, shutdown, index, dtor,
                 tstate>>

(* Mutant of WakeIncrement: a woken worker is not counted again.           *)
WakeUncounted(w) ==
  /\ pc[w] = "inc"
  /\ Goto(w, "take")
  /\ UNCHANGED <<at, it, arg, cur, qvars, cvars, shutdown, index, dtor, tstate>>

(* A worker that wakes up counts again before it looks for a task.        *)
WakeIncrement(w) ==
  /\ pc[w] = "inc"
  /\ Increment
  /\ Goto(w, "take")
  /\ UNCHANGED <<at, it, arg, cur, qvars, shutdown, index, dtor, tstate>>

(* pop and try_pop: take the front task *)
Take(w) ==
  /\ pc[w] = "take" /\ queue[Slot(w)] # <<>>
  /\ cur' = [cur EXCEPT ![w] = Head(queue[Slot(w)])]
  /\ tstate' = [tstate EXCEPT ![Head(queue[Slot(w)])] = "taken"]
  /\ queue' = [queue EXCEPT ![Slot(w)] = Tail(@)]
  /\ Decrement(w, "have")
  /\ Unlock(Slot(w))
  /\ UNCHANGED <<at, it, arg, qdone, shutdown, index, dtor>>

(* pop returns nullopt and the worker leaves Run *)
TakeNothing(w) ==
  /\ pc[w] = "take" /\ queue[Slot(w)] = <<>>
  /\ Unlock(Slot(w))
  /\ Goto(w, "exited")
  /\ UNCHANGED <<at, it, arg, cur, queue, qdone, cvars, shutdown, index, dtor,
                 tstate>>

(* a task popped after shutdown_ was set is destroyed without running *)
StartOrDrop(w) ==
  /\ pc[w] = "have"
  /\ Goto(w, IF shutdown THEN "exited" ELSE "run")
  /\ tstate' = [tstate EXCEPT ![cur[w]] = IF shutdown THEN "dropped" ELSE "running"]
  /\ cur' = [cur EXCEPT ![w] = IF shutdown THEN NoTask ELSE @]
  /\ UNCHANGED <<at, it, arg, qvars, cvars, shutdown, index, dtor>>

FinishTask(w) ==
  /\ pc[w] = "run"
  /\ tstate' = [tstate EXCEPT ![cur[w]] = "finished"]
  /\ cur' = [cur EXCEPT ![w] = NoTask]
  /\ Goto(w, "check")
  /\ UNCHANGED <<at, it, arg, qvars, cvars, shutdown, index, dtor>>

-----------------------------------------------------------------------------
(* TaskSystem::Shutdown, called by ~TaskSystem or from inside a task.      *)
CallShutdown(w) ==
  /\ pc[w] = "run" /\ cur[w] \in Aborters
  /\ Goto(w, "sd_flag")
  /\ UNCHANGED <<at, it, arg, cur, qvars, cvars, shutdown, index, dtor, tstate>>

SetShutdown(a) ==
  /\ pc[a] = "sd_flag"
  /\ shutdown' = TRUE
  /\ Goto(a, "sd_abort")
  /\ UNCHANGED <<at, it, arg, cur, qvars, cvars, index, dtor, tstate>>

(* WaitableZeroCounter::Abort *)
Abort(a) ==
  /\ pc[a] = "sd_abort"
  /\ ~cmutex
  /\ cdone' = TRUE
  /\ StepNotify(a, "sd_done", {Owner})
  /\ at' = [at EXCEPT ![a] = 0]
  /\ it' = [it EXCEPT ![a] = 0]
  /\ UNCHANGED <<arg, cur, qvars, count, cmutex, shutdown, index, dtor, tstate>>

(* NotificationQueue::done on the next queue *)
QueueDone(a) ==
  /\ pc[a] = "sd_done" /\ it[a] < N
  /\ mutex[it[a]] = None
  /\ qdone' = [qdone EXCEPT ![it[a]] = TRUE]
  /\ Goto(a, "sd_notify")
  /\ UNCHANGED <<at, it, arg, cur, queue, mutex, cvars, shutdown, index, dtor,
                 tstate>>

(* Mutant of QueueDoneNotify: nobody is notified.                          *)
QueueDoneSilently(a) ==
  /\ pc[a] = "sd_notify"
  /\ Goto(a, "sd_done")
  /\ it' = [it EXCEPT ![a] = @ + 1]
  /\ UNCHANGED <<at, arg, cur, qvars, cvars, shutdown, index, dtor, tstate>>

QueueDoneNotify(a) ==
  /\ pc[a] = "sd_notify"
  /\ StepNotify(a, "sd_done", {it[a]})
  /\ it' = [it EXCEPT ![a] = @ + 1]
  /\ UNCHANGED <<at, arg, cur, qvars, cvars, shutdown, index, dtor, tstate>>

ShutdownReturn(a) ==
  /\ pc[a] = "sd_done" /\ it[a] = N
  /\ Goto(a, IF a = Owner THEN "join" ELSE "run")
  /\ UNCHANGED <<at, it, arg, cur, qvars, cvars, shutdown, index, dtor, tstate>>

-----------------------------------------------------------------------------
(* TaskSystem::Finish and ~TaskSystem, called by the owner.                *)
Finish ==
  /\ pc[Owner] = "idle"
  /\ dtor' \in BOOLEAN
  /\ Goto(Owner, "wz_test")
  /\ UNCHANGED <<at, it, arg, cur, qvars, cvars, shutdown, index, tstate>>

(* the while condition of WaitForZero, without a lock *)
WaitForZeroTest ==
  /\ pc[Owner] = "wz_test"
  /\ Goto(Owner, IF IsZero THEN "returned" ELSE "wz_lock")
  /\ UNCHANGED <<at, it, arg, cur, qvars, cvars, shutdown, index, dtor, tstate>>

(* cv_.wait enters with the lock, and reacquires it when woken *)
WaitForZeroLock ==
  /\ pc[Owner] \in {"wz_lock", "woken"}
  /\ cmutex' = TRUE
  /\ Goto(Owner, "wz_pred")
  /\ UNCHANGED <<at, it, arg, cur, qvars, count, cdone, shutdown, index, dtor,
                 tstate>>

WaitForZeroPredicate ==
  /\ pc[Owner] = "wz_pred"
  /\ IF IsZero THEN Goto(Owner, "wz_test") /\ cmutex' = FALSE
               ELSE Goto(Owner, "wz_block") /\ UNCHANGED cmutex
  /\ UNCHANGED <<at, it, arg, cur, qvars, count, cdone, shutdown, index, dtor,
                 tstate>>

WaitForZeroBlock ==
  /\ pc[Owner] = "wz_block"
  /\ cmutex' = FALSE
  /\ Goto(Owner, "asleep")
  /\ UNCHANGED <<at, it, arg, cur, qvars, count, cdone, shutdown, index, dtor,
                 tstate>>

FinishReturn ==
  /\ pc[Owner] = "returned"
  /\ Goto(Owner, IF dtor THEN "sd_flag" ELSE "idle")
  /\ UNCHANGED <<at, it, arg, cur, qvars, cvars, shutdown, index, dtor, tstate>>

Join ==
  /\ pc[Owner] = "join"
  /\ \A w \in Workers : pc[w] = "exited"
  /\ Goto(Owner, "gone")
  /\ UNCHANGED <<at, it, arg, cur, qvars, cvars, shutdown, index, dtor, tstate>>

Terminated == pc[Owner] = "gone" /\ UNCHANGED vars

-----------------------------------------------------------------------------
(* The rest of a call once it has begun. *)
CallStep(a) ==
  \/ TryPushLock(a) \/ TryPushFail(a) \/ TryPushGiveUp(a) \/ PushIncrement(a)
  \/ PushLock(a) \/ Emplace(a) \/ PushNotify(a)
  \/ SetShutdown(a) \/ Abort(a) \/ QueueDone(a) \/ QueueDoneNotify(a)
  \/ ShutdownReturn(a)

WorkerStep(w) ==
  \/ Check(w) \/ TryPopLock(w) \/ TryPopFail(w) \/ Pop(w) \/ PopLock(w)
  \/ IdleDecrement(w) \/ Wait(w) \/ Recheck(w) \/ WakeIncrement(w)
  \/ Take(w) \/ TakeNothing(w) \/ StartOrDrop(w) \/ FinishTask(w)

OwnerStep ==
  \/ WaitForZeroTest \/ WaitForZeroLock \/ WaitForZeroPredicate
  \/ WaitForZeroBlock \/ FinishReturn \/ Join

Next ==
  \/ \E a \in Actors : CallStep(a) \/ SpuriousWakeup(a)
                       \/ \E t \in Tasks : QueueTask(a, t)
  \/ \E w \in Workers : WorkerStep(w) \/ CallShutdown(w)
  \/ OwnerStep
  \/ Finish
  \/ Terminated

(* Threads are scheduled and tasks return; nobody has to queue anything,   *)
(* to call Finish, or to wake a thread without a reason.  Strong fairness: *)
(* a thread is not starved of a mutex that becomes free again and again,   *)
(* which spurious wake-ups of another thread could otherwise do for ever.  *)
Fairness ==
  /\ \A w \in Workers : SF_vars(CallStep(w) \/ WorkerStep(w)) /\ SF_vars(FinishTask(w))
  /\ WF_vars(CallStep(Owner) \/ OwnerStep)

Spec == Init /\ [][Next]_vars /\ Fairness

-----------------------------------------------------------------------------
(* A worker counts as workload except while it sleeps in pop, a task from  *)
(* the Increment of its push to the Decrement of the pop that takes it.    *)
ActiveWorkers == {w \in Workers : pc[w] \notin {"wait", "asleep", "woken", "inc"}}
CountedTasks  == {t \in Tasks : tstate[t] \in {"counted", "queued"}}

(* Inside QueueTask there is a task to queue. *)
PushedTask ==
  \A a \in Actors :
    pc[a] \in {"try_push", "try_inc", "push_inc", "push_lock", "emplace"} =>
      arg[a] \in Tasks

(* total_workload_ is exactly the number of active workers plus the number *)
(* of counted tasks; in particular the unsigned counter never underflows.  *)
WorkloadExact == count = Cardinality(ActiveWorkers) + Cardinality(CountedTasks)

(* Zero means idle: the unsigned counter never underflows, and at zero,    *)
(* where WaitForZero lets the owner go, no task is queued, taken or        *)
(* running and none is being queued by another, although the worker that   *)
(* takes a task counts itself and no longer the task, and counts itself    *)
(* out before it sleeps.  Only the owner may just be queueing one itself.  *)
ZeroIsIdle ==
  /\ count >= 0
  /\ count = 0 =>
       \A t \in Tasks :
         \/ tstate[t] \in {"new", "finished", "dropped"}
         \/ tstate[t] = "pushing" /\ arg[Owner] = t

(* No lost wake-up in NotificationQueue: a worker asleep although it has   *)
(* something to do has a notification on its way, even though notify_one   *)
(* and notify_all are called after the mutex is released.                  *)
WakeupPending ==
  \A w \in Workers :
    pc[w] = "asleep" =>
      /\ queue[w] # <<>> => \E a \in Actors : pc[a] = "notify" /\ Slot(a) = w
      /\ qdone[w] => \E a \in Actors : pc[a] = "sd_notify" /\ it[a] = w

(* No lost wake-up in WaitableZeroCounter: the owner never sleeps, nor     *)
(* commits to sleep, while the counter is zero or aborted.                 *)
OwnerSleepsOnWork == pc[Owner] \in {"wz_block", "asleep"} => ~IsZero

(* The pool as its users see it: a task is pending from QueueTask until it *)
(* is started or dropped, and the owner waits while it is in WaitForZero.  *)
PoolStatus ==
  [t \in Tasks |->
     IF tstate[t] \in {"pushing", "counted", "queued", "taken"} THEN "pending"
     ELSE tstate[t]]
PoolOwner ==
  CASE pc[Owner] = "gone" -> "gone"
    [] pc[Owner] \in {"wz_test", "wz_lock", "wz_pred", "wz_block", "asleep", "woken"} ->
         "waiting"
    [] pc[Owner] \in {"returned", "sd_flag", "sd_abort", "sd_done", "sd_notify", "join"} ->
         "returned"
    [] OTHER -> "working"
Pool == INSTANCE TaskPool WITH status <- PoolStatus, stopping <- shutdown, owner <- PoolOwner

(* The pool implements TaskPool!Spec: a task runs at most once and only    *)
(* after it was queued, is dropped only after Shutdown, Finish returns     *)
(* only when all work is done or Shutdown was called, and, by fairness,    *)
(* every task is run and Finish returns unless Shutdown is called.         *)
ImplementsTaskPool == Pool!Spec

(* The destructor ends: Finish, Shutdown and the joins all terminate.      *)
DestructorEnds == (dtor /\ pc[Owner] = "wz_test") ~> (pc[Owner] = "gone")
=============================================================================
