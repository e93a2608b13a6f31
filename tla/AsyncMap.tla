------------------------------ MODULE AsyncMap ------------------------------
(***************************************************************************)
(* AsyncMap, AsyncMapNode and AsyncMapConsumer of                          *)
(* src/buildtool/multithreading: a concurrent map whose values are created *)
(* on demand by a value creator that may ask for the values of other keys. *)
(*                                                                         *)
(* The task system is used through what TaskPool promises: every queued    *)
(* task is run once, concurrently with the others.  A task is identified   *)
(* by what it does:                                                        *)
(*   call(r)     ConsumeAfterKeysReady of the top-level request r          *)
(*   create(k)   the value creator of key k, which asks for deps[k]        *)
(*   chain(c, p) QueueTaskWhenAllReady of consumer c at position p         *)
(*   consume(c)  the consumer c; that of key k calls k's setter, or logs a *)
(*               fatal error if k is failing                               *)
(*   fail(c)     the failure function of consumer c                        *)
(* A consumer is a top-level request or a key whose creator made a subcall.*)
(***************************************************************************)
EXTENDS Naturals, Sequences, FiniteSets, SequencesExt

CONSTANTS Keys, Roots,  \* keys of the map; top-level requests
          WithFail,     \* the requests made with a failure function
          Problems      \* pairs of a dependency function and failing keys

Consumers == Keys \cup Roots

ASSUME ConsumerAssumption ==
  Keys \cap Roots = {} /\ WithFail \subseteq Roots /\ "none" \notin Consumers
ASSUME ProblemAssumption ==
  \A p \in Problems : p \in [deps : [Consumers -> Seq(Keys)], failing : SUBSET Keys]

VARIABLES
  deps,     \* the keys each consumer asks for, never changed
  failing,  \* the keys whose creator or consumer logs a fatal error
  node,     \* the map: its node for each key
  st,       \* how far each task has come
  again,    \* tasks that were queued more than once
  parent,   \* whose logger the creator of a key was given
  requests  \* requests_by_thread_, all threads together

vars == <<deps, failing, node, st, again, parent, requests>>

Task(op, c, p) == [op |-> op, c |-> c, pos |-> p]
Askers    == {Task("call", r, 1) : r \in Roots} \cup {Task("create", k, 1) : k \in Keys}
Chains(d) == UNION {{Task("chain", c, p) : p \in 2 .. Len(d[c]) + 1} : c \in Consumers}
Consuming == {Task("consume", c, 0) : c \in Consumers}
Failures  == {Task("fail", c, 0) : c \in Keys \cup WithFail}
TasksOf   == [d \in {p.deps : p \in Problems} |-> Askers \cup Chains(d) \cup Consuming \cup Failures]
Tasks     == TasksOf[deps]

NoNode  == [exists |-> FALSE, queued |-> FALSE, ready |-> FALSE, failed |-> FALSE,
            awaiting |-> {}, onfail |-> {}]
NewNode == [NoNode EXCEPT !.exists = TRUE]

(* the step a task begins with once the task system runs it *)
First(t) == CASE t.op = "call" -> "ensure" [] t.op = "chain" -> "block" [] OTHER -> t.op

PCs == {"none", "create", "ensure", "add", "mark", "block", "onfail_test", "onfail_lock",
        "await_test", "await_lock", "record", "consume", "fail", "log", "set", "done"}

TypeOK ==
  /\ [deps |-> deps, failing |-> failing] \in Problems
  /\ DOMAIN node = Keys /\ DOMAIN st = Tasks
  /\ \A k \in Keys :
       /\ DOMAIN node[k] = DOMAIN NoNode
       /\ {node[k].exists, node[k].queued, node[k].ready, node[k].failed} \subseteq BOOLEAN
       /\ node[k].awaiting \cup node[k].onfail \subseteq Tasks
  /\ \A t \in Tasks :
       /\ DOMAIN st[t] = {"pc", "i", "key"}
       /\ st[t].pc \in PCs /\ st[t].i \in Nat \ {0} /\ st[t].key \in Keys \cup {"none"}
  /\ again \subseteq Tasks
  /\ parent \in [Keys -> Consumers \cup {"none"}]
  /\ requests \subseteq Keys \X Keys

Init ==
  /\ \E p \in Problems : deps = p.deps /\ failing = p.failing
  /\ node = [k \in Keys |-> NoNode]
  /\ st = [t \in Tasks |-> [pc |-> IF t.op = "call" THEN "ensure" ELSE "none",
                            i |-> 1, key |-> "none"]]
  /\ again = {}
  /\ parent = [k \in Keys |-> "none"]
  /\ requests = {}

-----------------------------------------------------------------------------
At(t, l) == st[t].pc = l
Settled(t) == At(t, "none") \/ At(t, "done")

(* Task t goes to l (loop counter i) while the tasks Q go to the task      *)
(* system.                                                                 *)
StepQueueing(t, l, i, Q) ==
  /\ st' = [u \in Tasks |-> CASE u = t -> [st[t] EXCEPT !.pc = l, !.i = i]
                              [] u \in Q /\ At(u, "none") -> [st[u] EXCEPT !.pc = First(u)]
                              [] OTHER -> st[u]]
  /\ again' = again \cup {u \in Q : ~At(u, "none")}
Step(t, l) == StepQueueing(t, l, st[t].i, {})

FailTasks(c) == {Task("fail", c, 0)} \cap Tasks
Key(t)       == deps[t.c][t.pos]      \* the node a blocking task waits for

(* AsyncMapNode::Fail and what it queues *)
FailNode(k) == [node EXCEPT ![k] = IF @.ready \/ @.failed THEN @
                                   ELSE [@ EXCEPT !.failed = TRUE, !.awaiting = {}, !.onfail = {}]]
FailQueues(k) == IF node[k].ready \/ node[k].failed THEN {} ELSE node[k].onfail

-----------------------------------------------------------------------------
(* The value creator: it asks for the keys it depends on, or logs an error *)
(* before it does.                                                         *)
Create(t) ==
  /\ At(t, "create")
  /\ \/ Step(t, "ensure")
     \/ /\ t.c \in failing
        /\ st' = [st EXCEPT ![t].pc = "log", ![t].key = t.c]
        /\ UNCHANGED again
  /\ UNCHANGED <<deps, failing, node, parent, requests>>

(* ConsumeAfterKeysReady without keys queues the consumer at once; the loop *)
(* of EnsureValuesEventuallyPresent looks up each node under a shared lock. *)
Ensure(t) ==
  /\ At(t, "ensure")
  /\ IF st[t].i > Len(deps[t.c])
       THEN IF deps[t.c] = <<>>
              THEN StepQueueing(t, "done", 1, {Task("consume", t.c, 0)})
              ELSE Step(t, "onfail_test")
       ELSE Step(t, IF node[deps[t.c][st[t].i]].exists THEN "mark" ELSE "add")
  /\ UNCHANGED <<deps, failing, node, parent, requests>>

(* AsyncMap::AddKey looks the key up again under the unique lock. *)
AddKey(t) ==
  /\ At(t, "add")
  /\ node' = [node EXCEPT ![deps[t.c][st[t].i]] = IF @.exists THEN @ ELSE NewNode]
  /\ Step(t, "mark")
  /\ UNCHANGED <<deps, failing, parent, requests>>

(* Mutant of QueueOnceProcessingTask: the logger is that of whoever asked  *)
(* last.                                                                   *)
QueueWithLastLogger(t) ==
  LET k == deps[t.c][st[t].i]
  IN /\ At(t, "mark")
     /\ node' = [node EXCEPT ![k].queued = TRUE]
     /\ parent' = [parent EXCEPT ![k] = t.c]
     /\ StepQueueing(t, "ensure", st[t].i + 1,
                     IF node[k].queued THEN {} ELSE {Task("create", k, 1)})
     /\ UNCHANGED <<deps, failing, requests>>

(* QueueOnceProcessingTask: the first requester queues the creator and     *)
(* lends it its logger.                                                    *)
QueueOnceProcessingTask(t) ==
  LET k == deps[t.c][st[t].i]
  IN /\ At(t, "mark")
     /\ node' = [node EXCEPT ![k].queued = TRUE]
     /\ parent' = IF node[k].queued THEN parent ELSE [parent EXCEPT ![k] = t.c]
     /\ StepQueueing(t, "ensure", st[t].i + 1,
                     IF node[k].queued THEN {} ELSE {Task("create", k, 1)})
     /\ UNCHANGED <<deps, failing, requests>>

(* QueueTaskWhenAllReady: all nodes ready, or the next one to wait for *)
QueueTaskWhenAllReady(t) ==
  /\ At(t, "block")
  /\ IF t.pos > Len(deps[t.c])
       THEN StepQueueing(t, "done", 1, {Task("consume", t.c, 0)})
       ELSE Step(t, "onfail_test")
  /\ UNCHANGED <<deps, failing, node, parent, requests>>

(* QueueOnFailure, its lock-free test: skipped without failure function *)
QueueOnFailureTest(t) ==
  /\ At(t, "onfail_test")
  /\ Step(t, IF FailTasks(t.c) = {} \/ node[Key(t)].ready THEN "await_test" ELSE "onfail_lock")
  /\ UNCHANGED <<deps, failing, node, parent, requests>>

QueueOnFailure(t) ==
  /\ At(t, "onfail_lock")
  /\ IF node[Key(t)].failed
       THEN StepQueueing(t, "await_test", st[t].i, FailTasks(t.c)) /\ UNCHANGED node
       ELSE /\ node' = [node EXCEPT ![Key(t)].onfail = @ \cup FailTasks(t.c)]
            /\ Step(t, "await_test")
  /\ UNCHANGED <<deps, failing, parent, requests>>

(* AddOrQueueAwaitingTask, its lock-free test *)
AddOrQueueAwaitingTest(t) ==
  /\ At(t, "await_test")
  /\ IF node[Key(t)].ready
       THEN StepQueueing(t, "done", 1, {Task("chain", t.c, t.pos + 1)})
       ELSE Step(t, "await_lock")
  /\ UNCHANGED <<deps, failing, node, parent, requests>>

(* Mutant of AddOrQueueAwaitingTask: readiness is not tested again.        *)
AddAwaitingTask(t) ==
  /\ At(t, "await_lock")
  /\ node' = [node EXCEPT ![Key(t)].awaiting =
                IF node[Key(t)].failed THEN @ ELSE @ \cup {Task("chain", t.c, t.pos + 1)}]
  /\ Step(t, "record")
  /\ UNCHANGED <<deps, failing, parent, requests>>

AddOrQueueAwaitingTask(t) ==
  LET next == Task("chain", t.c, t.pos + 1)
      n    == node[Key(t)]
  IN /\ At(t, "await_lock")
     /\ \/ n.failed /\ Step(t, "record") /\ UNCHANGED node
        \/ ~n.failed /\ n.ready /\ StepQueueing(t, "done", 1, {next}) /\ UNCHANGED node
        \/ /\ ~n.failed /\ ~n.ready
           /\ node' = [node EXCEPT ![Key(t)].awaiting = @ \cup {next}]
           /\ Step(t, "record")
     /\ UNCHANGED <<deps, failing, parent, requests>>

(* Mutant of RecordNodeRequest: only requests of the first key are kept.   *)
RecordFirstRequest(t) ==
  /\ At(t, "record")
  /\ requests' = IF t.c \in Keys /\ t.pos = 1 THEN requests \cup {<<t.c, Key(t)>>} ELSE requests
  /\ Step(t, "done")
  /\ UNCHANGED <<deps, failing, node, parent>>

(* A consumer that blocked is recorded, if it is that of a key. *)
RecordNodeRequest(t) ==
  /\ At(t, "record")
  /\ requests' = IF t.c \in Keys THEN requests \cup {<<t.c, Key(t)>>} ELSE requests
  /\ Step(t, "done")
  /\ UNCHANGED <<deps, failing, node, parent>>

(* Mutant of SetAndQueueAwaitingTasks: a failed node is given a value.     *)
SetFailedNode(t) ==
  LET k == t.c
  IN /\ At(t, "set") \/ (At(t, "consume") /\ k \in Keys \ failing)
     /\ node' = [node EXCEPT ![k].ready = TRUE, ![k].awaiting = {}, ![k].onfail = {}]
     /\ StepQueueing(t, "done", 1, node[k].awaiting)
     /\ UNCHANGED <<deps, failing, parent, requests>>

(* The consumer of key k calls the setter of k. *)
SetAndQueueAwaitingTasks(t) ==
  LET k == t.c
  IN /\ At(t, "set") \/ (At(t, "consume") /\ k \in Keys \ failing)
     /\ IF node[k].failed
          THEN Step(t, "done") /\ UNCHANGED node
          ELSE /\ node' = [node EXCEPT ![k].ready = TRUE, ![k].awaiting = {}, ![k].onfail = {}]
               /\ StepQueueing(t, "done", 1, node[k].awaiting)
     /\ UNCHANGED <<deps, failing, parent, requests>>

(* The consumer of a failing key logs a fatal error, that of a request ends. *)
ConsumeOther(t) ==
  /\ At(t, "consume")
  /\ \/ /\ t.c \in failing
        /\ st' = [st EXCEPT ![t].pc = "log", ![t].key = t.c]
     \/ t.c \in Roots /\ st' = [st EXCEPT ![t].pc = "done"]
  /\ UNCHANGED <<deps, failing, node, again, parent, requests>>

(* The wrapped logger of a key, called with a fatal message: it fails the  *)
(* node and then calls the logger it wraps, which is that of the parent.   *)
(* The node does not rely on creators to stop after a fatal error: one may *)
(* still call the setter.                                                  *)
LogFatal(t) ==
  LET k == st[t].key
  IN /\ At(t, "log")
     /\ node' = FailNode(k)
     /\ \E end \in {"done", "set"} :
          st' = [u \in Tasks |->
                 CASE u = t -> IF parent[k] \in Keys THEN [st[t] EXCEPT !.key = parent[k]]
                                                      ELSE [st[t] EXCEPT !.pc = end]
                   [] u \in FailQueues(k) /\ At(u, "none") -> [st[u] EXCEPT !.pc = First(u)]
                   [] OTHER -> st[u]]
     /\ again' = again \cup {u \in FailQueues(k) : ~At(u, "none")}
     /\ UNCHANGED <<deps, failing, parent, requests>>

(* The failure function of a consumer: the subcaller's fails the node, that *)
(* of a request ends.                                                       *)
RunFailure(t) ==
  /\ At(t, "fail")
  /\ IF t.c \in Keys
       THEN node' = FailNode(t.c) /\ StepQueueing(t, "done", 1, FailQueues(t.c))
       ELSE Step(t, "done") /\ UNCHANGED node
  /\ UNCHANGED <<deps, failing, parent, requests>>

TaskStep(t) ==
  \/ Create(t) \/ Ensure(t) \/ AddKey(t) \/ QueueOnceProcessingTask(t)
  \/ QueueTaskWhenAllReady(t) \/ QueueOnFailureTest(t) \/ QueueOnFailure(t)
  \/ AddOrQueueAwaitingTest(t) \/ AddOrQueueAwaitingTask(t) \/ RecordNodeRequest(t)
  \/ SetAndQueueAwaitingTasks(t) \/ ConsumeOther(t) \/ LogFatal(t) \/ RunFailure(t)

(* TaskSystem::Finish has returned: nothing is left to run. *)
Quiescent  == \A t \in Tasks : Settled(t)
Terminated == Quiescent /\ UNCHANGED vars

Next == (\E t \in Tasks : TaskStep(t)) \/ Terminated

(* The task system keeps running queued tasks; no fairness between them is *)
(* needed.                                                                 *)
Spec == Init /\ [][Next]_vars /\ WF_vars(\E t \in Tasks : TaskStep(t))

-----------------------------------------------------------------------------
Queued(t) == ~At(t, "none")

(* A consumer only runs when the value of every key it asked for is set,   *)
(* although the keys are waited for one after the other (GetValue).        *)
ConsumedValuesReady ==
  \A c \in Consumers : Queued(Task("consume", c, 0)) =>
    \A i \in DOMAIN deps[c] : node[deps[c][i]].ready

(* A value, once handed out by pointer, is never withdrawn: a node never   *)
(* has a value and the mark of failure, and neither is ever taken back.    *)
NeverReadyAndFailed == \A k \in Keys : ~(node[k].ready /\ node[k].failed)

(* However many requesters race for a key, no creator, consumer,            *)
(* continuation or failure function is ever queued twice, and a request    *)
(* with a failure function is answered by its consumer or by that.         *)
AnsweredOnce ==
  again = {} /\ \A c \in Consumers : FailTasks(c) # {} =>
    ~(Queued(Task("consume", c, 0)) /\ Queued(Task("fail", c, 0)))

(* What a consumer depends on: the least set that has the keys it asks for *)
(* and whatever keys of the set ask for.                                   *)
Succ(K)  == UNION {{deps[k][i] : i \in DOMAIN deps[k]} : k \in K}
Reach(c) == {k \in Keys : \A S \in SUBSET Keys : Succ({c} \cup S) \subseteq S => k \in S}

(* No set of keys it depends on keeps itself waiting. *)
Acyclic(c) == \A S \in SUBSET Reach(c) : S # {} => \E k \in S : Succ({k}) \cap S = {}

(* When everything has run, a request whose dependencies have no cycle has *)
(* been answered: by its failure function if and only if it needs a key    *)
(* that fails, and by its consumer otherwise.                              *)
AnsweredWhenQuiescent ==
  Quiescent =>
    \A r \in Roots : Acyclic(r) =>
      LET bad == Reach(r) \cap failing # {}
      IN /\ Queued(Task("consume", r, 0)) <=> ~bad
         /\ r \in WithFail => (Queued(Task("fail", r, 0)) <=> bad)

(* Every computation comes to rest, cyclic or not. *)
ComesToRest == <>Quiescent
=============================================================================
